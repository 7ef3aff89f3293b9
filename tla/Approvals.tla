------------------------------- MODULE Approvals -------------------------------
(***************************************************************************)
(* The approval of a sensitive command: requestCommandApproval leaves a     *)
(* placeholder session in s.commands and a goroutine that waits for the     *)
(* decision file the frontend writes.  An approved command gets a session   *)
(* (the child) under an identifier of its own, which takes over the         *)
(* placeholder's identifier once the command call has returned.  Clients    *)
(* poll and terminate meanwhile.                                            *)
(***************************************************************************)
EXTENDS FiniteSets

CONSTANTS
    Requests,       \* commands that need approval
    Callers,        \* concurrent command_poll requests
    Native          \* the Windows build, which runs commands itself

ASSUME NativeAssumption == Native \in BOOLEAN

VARIABLES
    up,             \* the connector is running
    goroutine,      \* where the goroutine of each request is
    decision,       \* what it read
    file,           \* the decision file
    approvalState,  \* approvalState of the placeholder
    entry,          \* the session at s.commands[pid]
    childEntry,     \* the child is at s.commands[childID]
    child,          \* the approved command
    consent,        \* history: what the user decided
    call,           \* the polls in flight
    told            \* history: the statuses clients were answered

tableVars == <<entry, childEntry>>
goVars == <<goroutine, decision, approvalState>>
userVars == <<file, consent>>
clientVars == <<call, told>>
vars == <<up, goVars, userVars, tableVars, child, clientVars>>

Phases == {"none", "polling", "read", "decided", "executing", "started", "entered",
           "yielding", "adopting", "failed", "finished"}
Statuses == {"awaiting_approval", "denied", "expired", "running", "completed", "failed"}
Idle == [pc |-> "idle"]
Sessions == {"placeholder", "child"}

TypeOK ==
    /\ up \in BOOLEAN
    /\ goroutine \in [Requests -> Phases]
    /\ decision \in [Requests -> {"none", "approve", "deny", "garbled"}]
    /\ file \in [Requests -> {"none", "approve", "deny", "garbled"}]
    /\ approvalState \in [Requests -> {"none", "pending", "approved", "denied", "expired"}]
    /\ entry \in [Requests -> Sessions \cup {"none"}]
    /\ childEntry \in [Requests -> BOOLEAN]
    /\ child \in [Requests -> {"none", "running", "over", "failed"}]
    /\ consent \in [Requests -> SUBSET {"approve", "deny"}]
    /\ call \in [Callers -> {Idle} \cup [pc : {"waiting"}, req : Requests, session : Sessions]]
    /\ told \in [Requests -> SUBSET Statuses]

Init ==
    /\ up = TRUE
    /\ goroutine = [r \in Requests |-> "none"]
    /\ decision = [r \in Requests |-> "none"]
    /\ file = [r \in Requests |-> "none"]
    /\ approvalState = [r \in Requests |-> "none"]
    /\ entry = [r \in Requests |-> "none"]
    /\ childEntry = [r \in Requests |-> FALSE]
    /\ child = [r \in Requests |-> "none"]
    /\ consent = [r \in Requests |-> {}]
    /\ call = [c \in Callers |-> Idle]
    /\ told = [r \in Requests |-> {}]

-----------------------------------------------------------------------------
(* The request and its goroutine. *)

\* requestCommandApproval: the placeholder is registered, a stale file removed.
\* The status it answers is awaiting_approval.
Ask(r) ==
    /\ up /\ goroutine[r] = "none"
    /\ goroutine' = [goroutine EXCEPT ![r] = "polling"]
    /\ approvalState' = [approvalState EXCEPT ![r] = "pending"]
    /\ entry' = [entry EXCEPT ![r] = "placeholder"]
    /\ file' = [file EXCEPT ![r] = "none"]
    /\ UNCHANGED <<up, decision, consent, childEntry, child, clientVars>>

\* os.ReadFile finds a decision.  (When it finds none, the goroutine sleeps.)
ReadDecision(r) ==
    /\ up /\ goroutine[r] = "polling" /\ file[r] # "none"
    /\ decision' = [decision EXCEPT ![r] = file[r]]
    /\ goroutine' = [goroutine EXCEPT ![r] = "read"]
    /\ UNCHANGED <<up, approvalState, userVars, tableVars, child, clientVars>>

\* os.Remove, whatever the file holds by now; garbled JSON is no decision.
RemoveDecision(r) ==
    /\ up /\ goroutine[r] = "read"
    /\ file' = [file EXCEPT ![r] = "none"]
    /\ goroutine' = [goroutine EXCEPT ![r] = IF decision[r] = "garbled" THEN "polling" ELSE "decided"]
    /\ UNCHANGED <<up, decision, approvalState, consent, tableVars, child, clientVars>>

\* (Mutation: the goroutine does not return after a denial.)
BugDeny(r) ==
    /\ up /\ goroutine[r] = "decided" /\ decision[r] = "deny"
    /\ approvalState' = [approvalState EXCEPT ![r] = "denied"]
    /\ goroutine' = [goroutine EXCEPT ![r] = "executing"]
    /\ UNCHANGED <<up, decision, userVars, tableVars, child, clientVars>>

Deny(r) ==
    /\ up /\ goroutine[r] = "decided" /\ decision[r] = "deny"
    /\ approvalState' = [approvalState EXCEPT ![r] = "denied"]
    /\ goroutine' = [goroutine EXCEPT ![r] = "finished"]
    /\ UNCHANGED <<up, decision, userVars, tableVars, child, clientVars>>

\* (Mutation: the goroutine stops at the deadline without a result.)
BugExpire(r) ==
    /\ up /\ goroutine[r] = "polling"
    /\ goroutine' = [goroutine EXCEPT ![r] = "finished"]
    /\ UNCHANGED <<up, decision, approvalState, userVars, tableVars, child, clientVars>>

\* The deadline has passed; a decision that is in the file is not looked at.
Expire(r) ==
    /\ up /\ goroutine[r] = "polling"
    /\ approvalState' = [approvalState EXCEPT ![r] = "expired"]
    /\ goroutine' = [goroutine EXCEPT ![r] = "finished"]
    /\ UNCHANGED <<up, decision, userVars, tableVars, child, clientVars>>

Approve(r) ==
    /\ up /\ goroutine[r] = "decided" /\ decision[r] = "approve"
    /\ goroutine' = [goroutine EXCEPT ![r] = "executing"]
    /\ UNCHANGED <<up, decision, approvalState, userVars, tableVars, child, clientVars>>

\* The process is started (on Windows by command.Start; elsewhere a goroutine
\* asks the app-server for it, and it runs from then on or is about to).
StartProcess(r) ==
    /\ up /\ goroutine[r] = IF Native THEN "executing" ELSE "entered"
    /\ child' = [child EXCEPT ![r] = "running"]
    /\ goroutine' = [goroutine EXCEPT ![r] = IF Native THEN "started" ELSE "yielding"]
    /\ UNCHANGED <<up, decision, approvalState, userVars, tableVars, clientVars>>

\* Its session is entered in s.commands: on Windows while the process runs and
\* has been attached to its job, elsewhere before it is asked for.
Register(r) ==
    /\ up /\ goroutine[r] = IF Native THEN "started" ELSE "executing"
    /\ childEntry' = [childEntry EXCEPT ![r] = TRUE]
    /\ goroutine' = [goroutine EXCEPT ![r] = IF Native THEN "yielding" ELSE "entered"]
    /\ UNCHANGED <<up, decision, approvalState, userVars, entry, child, clientVars>>

\* s.command returns an error and no result: a secret that is gone, a bad
\* argument, a program that cannot be started.  An entry is taken back.
StartFails(r) ==
    /\ up /\ goroutine[r] \in IF Native THEN {"executing"} ELSE {"executing", "entered"}
    /\ child' = [child EXCEPT ![r] = "failed"]
    /\ childEntry' = [childEntry EXCEPT ![r] = FALSE]
    /\ goroutine' = [goroutine EXCEPT ![r] = "failed"]
    /\ UNCHANGED <<up, decision, approvalState, userVars, entry, clientVars>>

\* s.command returns a snapshot: the child is over or its yield time is.
CommandReturns(r) ==
    /\ up /\ goroutine[r] = "yielding"
    /\ goroutine' = [goroutine EXCEPT ![r] = "adopting"]
    /\ UNCHANGED <<up, decision, approvalState, userVars, tableVars, child, clientVars>>

\* (Mutation: the child's entry is deleted, the placeholder's is not replaced.)
BugAdoptLoses(r) ==
    /\ up /\ goroutine[r] = "adopting"
    /\ childEntry' = [childEntry EXCEPT ![r] = FALSE]
    /\ goroutine' = [goroutine EXCEPT ![r] = "finished"]
    /\ UNCHANGED <<up, decision, approvalState, userVars, entry, child, clientVars>>

\* The section under commandsMu: the child takes the placeholder's place.  The
\* placeholder stays pending for those who still hold a pointer to it.
Adopt(r) ==
    /\ up /\ goroutine[r] = "adopting" /\ childEntry[r]
    /\ entry' = [entry EXCEPT ![r] = "child"]
    /\ childEntry' = [childEntry EXCEPT ![r] = FALSE]
    /\ goroutine' = [goroutine EXCEPT ![r] = "finished"]
    /\ UNCHANGED <<up, decision, approvalState, userVars, child, clientVars>>

\* Nothing to adopt: the placeholder gets the error and is done.
PublishFailure(r) ==
    /\ up /\ goroutine[r] = "failed"
    /\ approvalState' = [approvalState EXCEPT ![r] = "approved"]
    /\ goroutine' = [goroutine EXCEPT ![r] = "finished"]
    /\ UNCHANGED <<up, decision, userVars, tableVars, child, clientVars>>

-----------------------------------------------------------------------------
(* The user and the command. *)

\* POST /approval replaces the file, at any time after the request was logged.
Post(r, d) ==
    /\ goroutine[r] # "none"
    /\ file' = [file EXCEPT ![r] = d]
    /\ consent' = [consent EXCEPT ![r] = @ \cup {d}]
    /\ UNCHANGED <<up, goVars, tableVars, child, clientVars>>

\* Two overlapping POSTs share one temporary file; what is renamed is partial.
TornPost(r) ==
    /\ goroutine[r] # "none"
    /\ file' = [file EXCEPT ![r] = "garbled"]
    /\ UNCHANGED <<up, goVars, consent, tableVars, child, clientVars>>

ChildEnds(r) ==
    /\ child[r] = "running"
    /\ child' = [child EXCEPT ![r] = "over"]
    /\ UNCHANGED <<up, goVars, userVars, tableVars, clientVars>>

\* The table and the goroutines of the connector are gone, and with them the
\* commands that are in a job; one without a job runs on.
ConnectorExit ==
    /\ up
    /\ up' = FALSE
    /\ \E S \in SUBSET {r \in Requests : child[r] = "running"} :
          child' = [r \in Requests |-> IF r \in S THEN "over" ELSE child[r]]
    /\ UNCHANGED <<goVars, userVars, tableVars, clientVars>>

-----------------------------------------------------------------------------
(* The clients. *)

\* sessionSnapshot of the session a request points to.
Status(r, session) ==
    CASE session = "child" -> IF child[r] = "running" THEN "running" ELSE "completed"
      [] session = "placeholder" /\ approvalState[r] = "pending" -> "awaiting_approval"
      [] session = "placeholder" /\ approvalState[r] = "approved" -> "failed"
      [] OTHER -> approvalState[r]

\* command_poll looks the session up, then waits with the pointer it got.
PollBegins(c, r) ==
    /\ up /\ call[c] = Idle /\ entry[r] # "none"
    /\ call' = [call EXCEPT ![c] = [pc |-> "waiting", req |-> r, session |-> entry[r]]]
    /\ UNCHANGED <<up, goVars, userVars, tableVars, child, told>>

PollReturns(c) ==
    /\ up /\ call[c].pc = "waiting"
    /\ told' = [told EXCEPT ![call[c].req] = @ \cup {Status(call[c].req, call[c].session)}]
    /\ call' = [call EXCEPT ![c] = Idle]
    /\ UNCHANGED <<up, goVars, userVars, tableVars, child>>

\* command_terminate or command_emergency_terminate with the placeholder's
\* identifier, or with the child's (command_list shows both).  Only a local
\* session is killed; for another the app-server is asked, which knows the
\* child, if at all, by the identifier it was started with.  A kill may miss.
Terminate(r, own) ==
    LET session == IF own THEN entry[r] ELSE IF childEntry[r] THEN "child" ELSE "none"
        reached == session = "child" /\ (Native \/ ~own)
    IN /\ up /\ session # "none"
       /\ child' \in {child} \cup (IF reached /\ child[r] = "running" THEN {[child EXCEPT ![r] = "over"]} ELSE {})
       /\ UNCHANGED <<up, goVars, userVars, tableVars, call, told>>

-----------------------------------------------------------------------------
Goroutine(r) ==
    \/ ReadDecision(r) \/ RemoveDecision(r) \/ Deny(r) \/ Approve(r)
    \/ StartProcess(r) \/ Register(r) \/ StartFails(r) \/ CommandReturns(r) \/ Adopt(r) \/ PublishFailure(r)

Next ==
    \/ \E r \in Requests :
          \/ Ask(r) \/ Goroutine(r) \/ Expire(r) \/ ChildEnds(r) \/ TornPost(r)
          \/ \E d \in {"approve", "deny"} : Post(r, d)
          \/ \E own \in BOOLEAN : Terminate(r, own)
          \/ \E c \in Callers : PollBegins(c, r)
    \/ \E c \in Callers : PollReturns(c)
    \/ ConnectorExit

Spec == Init /\ [][Next]_vars

\* Goroutines run, the clock reaches the deadline between two looks at the
\* file, and the client polls as the answer to command_exec tells it to.
FairSpec ==
    /\ Spec
    /\ \A r \in Requests : WF_vars(Goroutine(r)) /\ SF_vars(Expire(r))
    /\ \A c \in Callers : WF_vars(PollReturns(c)) /\ WF_vars(\E r \in Requests : PollBegins(c, r))

-----------------------------------------------------------------------------
(* Properties. *)

\* A command that was approved and runs can be found in s.commands, by poll,
\* terminate and command_list, at every moment of the adoption.  The one moment
\* it cannot be found is on Windows, from its start to its registration.
RunningCommandIsListed ==
    \A r \in Requests :
        up /\ child[r] = "running"
            => entry[r] = "child" \/ childEntry[r] \/ (Native /\ goroutine[r] = "started")

\* It is there once: command_list never counts a command twice.
ListedOnce == \A r \in Requests : ~(entry[r] = "child" /\ childEntry[r])

\* The promise to the user, under the mapping from the goroutine's progress.
VerdictOf(r) ==
    CASE goroutine[r] = "none" -> "none"
      [] goroutine[r] \in {"polling", "read", "decided"} -> "pending"
      [] goroutine[r] = "finished" /\ approvalState[r] \in {"denied", "expired"} -> approvalState[r]
      [] OTHER -> "approved"

verdict == [r \in Requests |-> VerdictOf(r)]

Promise == INSTANCE ApprovalPromise WITH command <- child

PromiseKept == Promise!Spec

\* A client that polls as it is told learns what became of its request, though
\* a poll may wait on a placeholder that was replaced and is never done.
PollerLearns ==
    \A r \in Requests :
        goroutine[r] # "none" ~> told[r] \ {"awaiting_approval"} # {} \/ ~up
=============================================================================
