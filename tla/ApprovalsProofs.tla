---------------------------- MODULE ApprovalsProofs ----------------------------
(***************************************************************************)
(* Proofs about Approvals for any number of requests and clients, on either *)
(* build: the table never loses a running command, and the goroutines keep  *)
(* the promise of ApprovalPromise.                                          *)
(***************************************************************************)
EXTENDS Approvals, TLAPS

\* The types the arguments need.
Functions ==
    /\ goroutine \in [Requests -> Phases]
    /\ decision \in [Requests -> {"none", "approve", "deny", "garbled"}]
    /\ file \in [Requests -> {"none", "approve", "deny", "garbled"}]
    /\ approvalState \in [Requests -> {"none", "pending", "approved", "denied", "expired"}]
    /\ entry \in [Requests -> Sessions \cup {"none"}]
    /\ childEntry \in [Requests -> BOOLEAN]
    /\ child \in [Requests -> {"none", "running", "over", "failed"}]
    /\ consent \in [Requests -> SUBSET {"approve", "deny"}]

\* Decisions come from the user.
Consented(r) ==
    /\ file[r] \in {"approve", "deny"} => file[r] \in consent[r]
    /\ decision[r] \in {"approve", "deny"} => decision[r] \in consent[r]
    /\ goroutine[r] = "none" => decision[r] = "none"

\* What has happened to the request at each point of its goroutine.
Progress(r) ==
    /\ goroutine[r] = "none"
          => approvalState[r] = "none" /\ child[r] = "none" /\ ~childEntry[r] /\ entry[r] = "none"
    /\ goroutine[r] \in {"polling", "read", "decided", "executing"}
          => approvalState[r] = "pending" /\ child[r] = "none" /\ ~childEntry[r]
    /\ goroutine[r] = "started"
          => Native /\ approvalState[r] = "pending" /\ child[r] \in {"running", "over"} /\ ~childEntry[r]
    /\ goroutine[r] = "entered"
          => ~Native /\ approvalState[r] = "pending" /\ child[r] = "none" /\ childEntry[r]
    /\ goroutine[r] \in {"yielding", "adopting"}
          => approvalState[r] = "pending" /\ child[r] \in {"running", "over"} /\ childEntry[r]
    /\ goroutine[r] = "failed"
          => approvalState[r] = "pending" /\ child[r] = "failed" /\ ~childEntry[r]
    /\ goroutine[r] = "finished"
          => /\ ~childEntry[r] /\ approvalState[r] # "none"
             /\ approvalState[r] \in {"denied", "expired"} => child[r] = "none"
             /\ approvalState[r] \notin {"denied", "expired"} => child[r] # "none"
             /\ child[r] = "running" => entry[r] = "child"
    /\ goroutine[r] # "none" /\ goroutine[r] # "finished" => entry[r] = "placeholder"

IInv == Functions /\ \A r \in Requests : Consented(r) /\ Progress(r)

\* A step of one request: everything about the others stays.
Local(r) ==
    \A q \in Requests \ {r} :
        /\ goroutine'[q] = goroutine[q] /\ decision'[q] = decision[q] /\ file'[q] = file[q]
        /\ approvalState'[q] = approvalState[q] /\ entry'[q] = entry[q]
        /\ childEntry'[q] = childEntry[q] /\ child'[q] = child[q] /\ consent'[q] = consent[q]

LEMMA OthersKeepTheirs ==
    ASSUME IInv, NEW r \in Requests, Local(r), Functions', Consented(r)', Progress(r)'
    PROVE  IInv'
<1>1. ASSUME NEW q \in Requests, q # r PROVE Consented(q)' /\ Progress(q)'
  <2>1. Consented(q) /\ Progress(q)
    BY DEF IInv
  <2> QED BY <1>1, <2>1 DEF Local, Consented, Progress
<1> QED BY <1>1 DEF IInv

LEMMA AskStep == ASSUME IInv, NEW r \in Requests, Ask(r) PROVE IInv'
<1>1. Functions' /\ Local(r)
  BY DEF IInv, Functions, Ask, Phases, Sessions, Local, clientVars
<1>2. Consented(r)' /\ Progress(r)'
  BY DEF IInv, Functions, Ask, Consented, Progress, clientVars
<1> QED BY <1>1, <1>2, OthersKeepTheirs

LEMMA DecisionStep ==
    ASSUME IInv, NEW r \in Requests,
           ReadDecision(r) \/ RemoveDecision(r) \/ Deny(r) \/ Approve(r) \/ Expire(r)
    PROVE  IInv'
<1> USE DEF goVars, userVars, tableVars, clientVars
<1>1. Functions' /\ Local(r)
  <2>1. CASE ReadDecision(r)
    BY <2>1 DEF IInv, Functions, ReadDecision, Phases, Local
  <2>2. CASE RemoveDecision(r)
    BY <2>2 DEF IInv, Functions, RemoveDecision, Phases, Local
  <2>3. CASE Deny(r)
    BY <2>3 DEF IInv, Functions, Deny, Phases, Local
  <2>4. CASE Approve(r)
    BY <2>4 DEF IInv, Functions, Approve, Phases, Local
  <2>5. CASE Expire(r)
    BY <2>5 DEF IInv, Functions, Expire, Phases, Local
  <2> QED BY <2>1, <2>2, <2>3, <2>4, <2>5
<1>2. Consented(r)' /\ Progress(r)'
  <2>1. CASE ReadDecision(r)
    BY <2>1 DEF IInv, Functions, ReadDecision, Consented, Progress
  <2>2. CASE RemoveDecision(r)
    BY <2>2 DEF IInv, Functions, RemoveDecision, Consented, Progress
  <2>3. CASE Deny(r)
    BY <2>3 DEF IInv, Functions, Deny, Consented, Progress
  <2>4. CASE Approve(r)
    BY <2>4 DEF IInv, Functions, Approve, Consented, Progress
  <2>5. CASE Expire(r)
    BY <2>5 DEF IInv, Functions, Expire, Consented, Progress
  <2> QED BY <2>1, <2>2, <2>3, <2>4, <2>5
<1> QED BY <1>1, <1>2, OthersKeepTheirs

LEMMA ExecutionStep ==
    ASSUME IInv, NEW r \in Requests,
           StartProcess(r) \/ Register(r) \/ StartFails(r) \/ CommandReturns(r) \/ Adopt(r) \/ PublishFailure(r)
    PROVE  IInv'
<1> USE DEF goVars, userVars, tableVars, clientVars
<1>1. Functions' /\ Local(r)
  <2>0. CASE Register(r)
    BY <2>0 DEF IInv, Functions, Register, Phases, Local
  <2>1. CASE StartProcess(r)
    BY <2>1 DEF IInv, Functions, StartProcess, Phases, Local
  <2>2. CASE StartFails(r)
    BY <2>2 DEF IInv, Functions, StartFails, Phases, Local
  <2>3. CASE CommandReturns(r)
    BY <2>3 DEF IInv, Functions, CommandReturns, Phases, Local
  <2>4. CASE Adopt(r)
    BY <2>4 DEF IInv, Functions, Adopt, Phases, Sessions, Local
  <2>5. CASE PublishFailure(r)
    BY <2>5 DEF IInv, Functions, PublishFailure, Phases, Local
  <2> QED BY <2>0, <2>1, <2>2, <2>3, <2>4, <2>5
<1>2. Consented(r)' /\ Progress(r)'
  <2>0. CASE Register(r)
    BY <2>0 DEF IInv, Functions, Register, Consented, Progress
  <2>1. CASE StartProcess(r)
    BY <2>1 DEF IInv, Functions, StartProcess, Consented, Progress
  <2>2. CASE StartFails(r)
    BY <2>2 DEF IInv, Functions, StartFails, Consented, Progress
  <2>3. CASE CommandReturns(r)
    BY <2>3 DEF IInv, Functions, CommandReturns, Consented, Progress
  <2>4. CASE Adopt(r)
    BY <2>4 DEF IInv, Functions, Adopt, Consented, Progress
  <2>5. CASE PublishFailure(r)
    BY <2>5 DEF IInv, Functions, PublishFailure, Consented, Progress
  <2> QED BY <2>0, <2>1, <2>2, <2>3, <2>4, <2>5
<1> QED BY <1>1, <1>2, OthersKeepTheirs

LEMMA UserStep ==
    ASSUME IInv, NEW r \in Requests,
           TornPost(r) \/ Post(r, "approve") \/ Post(r, "deny")
    PROVE  IInv'
<1> USE DEF goVars, userVars, tableVars, clientVars
<1>1. CASE TornPost(r)
  <2>1. Functions' /\ Local(r)
    BY <1>1 DEF IInv, Functions, TornPost, Local
  <2>2. Consented(r)' /\ Progress(r)'
    BY <1>1 DEF IInv, Functions, TornPost, Consented, Progress
  <2> QED BY <2>1, <2>2, OthersKeepTheirs
<1>2. ASSUME NEW d \in {"approve", "deny"}, Post(r, d) PROVE IInv'
  <2>1. Functions' /\ Local(r)
    BY <1>2 DEF IInv, Functions, Post, Local
  <2>2. Consented(r)' /\ Progress(r)'
    BY <1>2 DEF IInv, Functions, Post, Consented, Progress
  <2> QED BY <2>1, <2>2, OthersKeepTheirs
<1> QED BY <1>1, <1>2

LEMMA CommandStep ==
    ASSUME IInv, NEW r \in Requests, NEW own \in BOOLEAN,
           ChildEnds(r) \/ Terminate(r, own)
    PROVE  IInv'
<1> USE DEF goVars, userVars, tableVars, clientVars
<1>1. Functions' /\ Local(r)
  <2>1. CASE ChildEnds(r)
    BY <2>1 DEF IInv, Functions, ChildEnds, Local
  <2>2. CASE Terminate(r, own)
    BY <2>2 DEF IInv, Functions, Terminate, Local
  <2> QED BY <2>1, <2>2
<1>2. Consented(r)' /\ Progress(r)'
  <2>1. CASE ChildEnds(r)
    BY <2>1 DEF IInv, Functions, ChildEnds, Consented, Progress
  <2>2. CASE Terminate(r, own)
    BY <2>2 DEF IInv, Functions, Terminate, Consented, Progress
  <2> QED BY <2>1, <2>2
<1> QED BY <1>1, <1>2, OthersKeepTheirs

LEMMA ExitStep == ASSUME IInv, ConnectorExit PROVE IInv'
<1> USE DEF goVars, userVars, tableVars, clientVars
<1>1. Functions'
  BY DEF IInv, Functions, ConnectorExit
<1>2. ASSUME NEW r \in Requests PROVE Consented(r)' /\ Progress(r)'
  BY DEF IInv, Functions, ConnectorExit, Consented, Progress
<1> QED BY <1>1, <1>2 DEF IInv

\* The inductive invariant.
THEOREM ApprovalInvariant == Spec => []IInv
<1>1. Init => IInv
  BY DEF Init, IInv, Functions, Consented, Progress, Phases, Sessions
<1>2. IInv /\ [Next]_vars => IInv'
  <2> SUFFICES ASSUME IInv, [Next]_vars PROVE IInv'
    OBVIOUS
  <2>1. CASE UNCHANGED <<goVars, userVars, tableVars, child>>
    BY <2>1 DEF goVars, userVars, tableVars, IInv, Functions, Consented, Progress
  <2>2. CASE UNCHANGED vars
    BY <2>1, <2>2 DEF vars
  <2>3. ASSUME NEW c \in Callers, PollReturns(c) PROVE IInv'
    BY <2>1, <2>3 DEF PollReturns
  <2>4. ASSUME NEW r \in Requests, NEW c \in Callers, PollBegins(c, r) PROVE IInv'
    BY <2>1, <2>4 DEF PollBegins
  <2>5. ASSUME NEW r \in Requests, NEW own \in BOOLEAN, ChildEnds(r) \/ Terminate(r, own) PROVE IInv'
    BY <2>5, CommandStep
  <2>6. ASSUME NEW r \in Requests, Goroutine(r) \/ Expire(r) PROVE IInv'
    BY <2>6, DecisionStep, ExecutionStep DEF Goroutine
  <2>7. ASSUME NEW r \in Requests, TornPost(r) \/ Post(r, "approve") \/ Post(r, "deny") PROVE IInv'
    BY <2>7, UserStep
  <2> QED BY <2>2, <2>3, <2>4, <2>5, <2>6, <2>7, AskStep, ExitStep DEF Next
<1> QED BY <1>1, <1>2, PTL DEF Spec

\* An approved command that runs is in s.commands throughout its adoption, but
\* on Windows between its start and its registration.
THEOREM NeverLost == Spec => []RunningCommandIsListed
<1>1. IInv => RunningCommandIsListed
  BY DEF IInv, Functions, Progress, RunningCommandIsListed, Phases
<1> QED BY <1>1, ApprovalInvariant, PTL

\* It is never there twice.
THEOREM NeverTwice == Spec => []ListedOnce
<1>1. IInv => ListedOnce
  <2> SUFFICES ASSUME IInv, NEW r \in Requests, entry[r] = "child", childEntry[r] PROVE FALSE
    BY DEF ListedOnce
  <2> QED BY DEF IInv, Functions, Progress, Phases
<1> QED BY <1>1, ApprovalInvariant, PTL

\* A poll waits on a session that has been registered, so that what it answers
\* is a status of the program.
CallsOK ==
    /\ call \in [Callers -> {Idle} \cup [pc : {"waiting"}, req : Requests, session : Sessions]]
    /\ \A c \in Callers : call[c] # Idle /\ call[c].session = "placeholder"
          => approvalState[call[c].req] # "none"
    /\ up \in BOOLEAN /\ told \in [Requests -> SUBSET Statuses]

\* The types of every variable.
THEOREM TypeCorrect == Spec => []TypeOK
<1> USE DEF goVars, userVars, tableVars, clientVars
<1>1. Init => CallsOK
  BY DEF Init, CallsOK
<1>2. IInv /\ CallsOK /\ [Next]_vars => CallsOK'
  <2> SUFFICES ASSUME IInv, CallsOK, [Next]_vars PROVE CallsOK'
    OBVIOUS
  <2>1. ASSUME UNCHANGED clientVars, up' \in BOOLEAN,
               \A r \in Requests : approvalState[r] # "none" => approvalState'[r] # "none"
        PROVE  CallsOK'
    BY <2>1 DEF CallsOK, Idle
  <2>2. ASSUME NEW r \in Requests, Ask(r) \/ Goroutine(r) \/ Expire(r) PROVE CallsOK'
    <3>1. UNCHANGED <<up, clientVars>>
      BY <2>2 DEF Goroutine, Ask, Expire, ReadDecision, RemoveDecision, Deny, Approve, StartProcess, Register,
                  StartFails, CommandReturns, Adopt, PublishFailure
    <3>2. \A q \in Requests : approvalState[q] # "none" => approvalState'[q] # "none"
      BY <2>2 DEF Goroutine, Ask, Expire, ReadDecision, RemoveDecision, Deny, Approve, StartProcess, Register,
                  StartFails, CommandReturns, Adopt, PublishFailure, IInv, Functions
    <3>3. up' \in BOOLEAN
      BY <3>1 DEF CallsOK
    <3> QED BY <2>1, <3>1, <3>2, <3>3
  <2>3. ASSUME NEW r \in Requests, ChildEnds(r) \/ TornPost(r) \/ \E d \in {"approve", "deny"} : Post(r, d)
        PROVE  CallsOK'
    BY <2>1, <2>3 DEF ChildEnds, TornPost, Post, CallsOK
  <2>4. ASSUME NEW r \in Requests, NEW own \in BOOLEAN, Terminate(r, own) PROVE CallsOK'
    BY <2>4 DEF Terminate, CallsOK
  <2>5. ASSUME NEW c \in Callers, NEW r \in Requests, PollBegins(c, r) PROVE CallsOK'
    <3>1. entry[r] \in Sessions /\ approvalState[r] # "none"
      BY <2>5 DEF PollBegins, IInv, Functions, Progress, Phases
    <3>2. /\ call' = [call EXCEPT ![c] = [pc |-> "waiting", req |-> r, session |-> entry[r]]]
          /\ UNCHANGED <<up, approvalState, told>>
      BY <2>5 DEF PollBegins
    <3>3. call' \in [Callers -> {Idle} \cup [pc : {"waiting"}, req : Requests, session : Sessions]]
      BY <3>1, <3>2 DEF CallsOK
    <3>4. \A b \in Callers : call'[b] # Idle /\ call'[b].session = "placeholder"
            => approvalState'[call'[b].req] # "none"
      BY <3>1, <3>2 DEF CallsOK
    <3> QED BY <3>2, <3>3, <3>4 DEF CallsOK
  <2>6. ASSUME NEW c \in Callers, PollReturns(c) PROVE CallsOK'
    <3>1. call[c] \in [pc : {"waiting"}, req : Requests, session : Sessions]
      BY <2>6 DEF PollReturns, CallsOK, Idle
    <3>2. call[c] # Idle
      BY <2>6 DEF PollReturns, Idle
    <3>3. Status(call[c].req, call[c].session) \in Statuses
      BY <3>1, <3>2 DEF Status, Statuses, Sessions, CallsOK, IInv, Functions
    <3>4. /\ told' = [told EXCEPT ![call[c].req] = @ \cup {Status(call[c].req, call[c].session)}]
          /\ call' = [call EXCEPT ![c] = Idle] /\ UNCHANGED <<up, approvalState>>
      BY <2>6 DEF PollReturns
    <3>5. told' \in [Requests -> SUBSET Statuses]
      BY <3>1, <3>3, <3>4 DEF CallsOK
    <3> QED BY <3>4, <3>5 DEF CallsOK
  <2>7. CASE ConnectorExit
    BY <2>1, <2>7 DEF ConnectorExit
  <2>8. CASE UNCHANGED vars
    BY <2>1, <2>8 DEF vars, CallsOK
  <2> QED BY <2>2, <2>3, <2>4, <2>5, <2>6, <2>7, <2>8 DEF Next
<1>3. IInv /\ CallsOK => TypeOK
  BY DEF IInv, Functions, CallsOK, TypeOK
<1> QED BY <1>1, <1>2, <1>3, ApprovalInvariant, PTL DEF Spec

\* A step that leaves what the promise sees of every request.
LEMMA Stutter ==
    ASSUME \A r \in Requests : VerdictOf(r)' = VerdictOf(r), UNCHANGED <<child, consent>>
    PROVE  UNCHANGED <<verdict, child, consent>>
BY Zenon DEF verdict

\* A step of request r that moves its verdict from one value to another.
LEMMA VerdictMoves ==
    ASSUME NEW r \in Requests, NEW from, NEW to, Local(r),
           VerdictOf(r) = from, VerdictOf(r)' = to, UNCHANGED <<child, consent>>
    PROVE  Promise!Resolve(r, from, to)
<1>1. \A q \in Requests \ {r} : VerdictOf(q)' = VerdictOf(q)
  BY DEF VerdictOf, Local
<1>2. verdict' = [verdict EXCEPT ![r] = to]
  BY <1>1 DEF verdict
<1>3. verdict[r] = from
  BY DEF verdict
<1> QED BY <1>2, <1>3 DEF Promise!Resolve

\* The goroutine's own steps keep the promise.
LEMMA GoroutineKeepsPromise ==
    ASSUME IInv, NEW r \in Requests, Ask(r) \/ Goroutine(r) \/ Expire(r)
    PROVE  Promise!Next \/ UNCHANGED <<verdict, child, consent>>
<1> USE DEF goVars, userVars, tableVars, clientVars
<1>0. Progress(r) /\ Consented(r)
  BY DEF IInv
<1>1. CASE Ask(r)
  <2>1. Local(r) /\ VerdictOf(r) = "none" /\ VerdictOf(r)' = "pending"
    <3>1. Local(r)
      BY <1>1 DEF IInv, Functions, Ask, Local
    <3>2. VerdictOf(r) = "none"
      <4>1. goroutine[r] = "none"
        BY <1>1 DEF Ask
      <4> QED BY <4>1 DEF VerdictOf
    <3>3. goroutine'[r] = "polling" /\ approvalState'[r] = "pending"
      BY <1>1 DEF IInv, Functions, Ask
    <3>4. VerdictOf(r)' = "pending"
      BY <3>3 DEF VerdictOf
    <3> QED BY <3>1, <3>2, <3>4
  <2>2. Promise!Ask(r)
    BY <1>1, <2>1, VerdictMoves DEF Ask, Promise!Ask
  <2> QED BY <2>2 DEF Promise!Next
<1>2. CASE Expire(r)
  <2>1. Local(r) /\ VerdictOf(r) = "pending" /\ VerdictOf(r)' = "expired"
    <3>1. Local(r)
      BY <1>2 DEF IInv, Functions, Expire, Local
    <3>2. VerdictOf(r) = "pending"
      <4>1. goroutine[r] = "polling"
        BY <1>2 DEF Expire
      <4> QED BY <4>1 DEF VerdictOf
    <3>3. goroutine'[r] = "finished" /\ approvalState'[r] = "expired"
      BY <1>2 DEF IInv, Functions, Expire
    <3>4. VerdictOf(r)' = "expired"
      BY <3>3 DEF VerdictOf
    <3> QED BY <3>1, <3>2, <3>4
  <2>2. Promise!Expire(r)
    BY <1>2, <2>1, VerdictMoves DEF Expire, Promise!Expire
  <2> QED BY <2>2 DEF Promise!Next
<1>3. CASE Deny(r)
  <2>1. Local(r) /\ VerdictOf(r) = "pending" /\ VerdictOf(r)' = "denied"
    <3>1. Local(r)
      BY <1>3 DEF IInv, Functions, Deny, Local
    <3>2. VerdictOf(r) = "pending"
      <4>1. goroutine[r] = "decided"
        BY <1>3 DEF Deny
      <4> QED BY <4>1 DEF VerdictOf
    <3>3. goroutine'[r] = "finished" /\ approvalState'[r] = "denied"
      BY <1>3 DEF IInv, Functions, Deny
    <3>4. VerdictOf(r)' = "denied"
      BY <3>3 DEF VerdictOf
    <3> QED BY <3>1, <3>2, <3>4
  <2>2. Promise!Deny(r)
    BY <1>0, <1>3, <2>1, VerdictMoves DEF Deny, Consented, Promise!Deny
  <2> QED BY <2>2 DEF Promise!Next
<1>4. CASE Approve(r)
  <2>1. Local(r) /\ VerdictOf(r) = "pending" /\ VerdictOf(r)' = "approved"
    BY <1>0, <1>4 DEF IInv, Functions, Approve, Local, Progress, VerdictOf
  <2>2. Promise!Approve(r)
    BY <1>0, <1>4, <2>1, VerdictMoves DEF Approve, Consented, Promise!Approve
  <2> QED BY <2>2 DEF Promise!Next
<1>7. CASE Register(r)
  <2>1. ASSUME NEW q \in Requests PROVE VerdictOf(q)' = VerdictOf(q)
    BY <1>0, <1>7 DEF IInv, Functions, Register, Progress, VerdictOf
  <2> QED BY <1>7, <2>1, Stutter DEF Register
<1>5. CASE StartProcess(r) \/ StartFails(r)
  <2>1. \A q \in Requests : VerdictOf(q)' = VerdictOf(q)
    BY <1>0, <1>5 DEF IInv, Functions, StartProcess, StartFails, Progress, VerdictOf
  <2>2. verdict' = verdict
    BY <2>1, Zenon DEF verdict
  <2>3. VerdictOf(r) = "approved"
    BY <1>0, <1>5 DEF StartProcess, StartFails, Progress, VerdictOf
  <2>4. Promise!Run(r)
    BY <1>0, <1>5, <2>2, <2>3 DEF StartProcess, StartFails, Progress, Promise!Run, verdict
  <2> QED BY <2>4 DEF Promise!Next
<1>6. CASE ReadDecision(r) \/ RemoveDecision(r) \/ CommandReturns(r) \/ Adopt(r) \/ PublishFailure(r)
  <2>1. ASSUME NEW q \in Requests PROVE VerdictOf(q)' = VerdictOf(q)
    <3>1. CASE ReadDecision(r) \/ RemoveDecision(r)
      BY <3>1 DEF IInv, Functions, ReadDecision, RemoveDecision, VerdictOf
    <3>2. CASE CommandReturns(r) \/ Adopt(r)
      BY <1>0, <3>2 DEF IInv, Functions, CommandReturns, Adopt, Progress, VerdictOf
    <3>3. CASE PublishFailure(r)
      BY <1>0, <3>3 DEF IInv, Functions, PublishFailure, Progress, VerdictOf
    <3> QED BY <1>6, <3>1, <3>2, <3>3
  <2>2. UNCHANGED <<child, consent>>
    BY <1>6 DEF ReadDecision, RemoveDecision, CommandReturns, Adopt, PublishFailure
  <2> QED BY <2>1, <2>2, Stutter
<1> QED BY <1>1, <1>2, <1>3, <1>4, <1>5, <1>6, <1>7 DEF Goroutine

\* So do the user, the commands and the clients.
LEMMA EnvironmentKeepsPromise ==
    ASSUME IInv, UNCHANGED goVars,
           \/ \E r \in Requests :
                 \/ TornPost(r) \/ ChildEnds(r)
                 \/ \E d \in {"approve", "deny"} : Post(r, d)
                 \/ \E own \in BOOLEAN : Terminate(r, own)
           \/ ConnectorExit
    PROVE  Promise!Next \/ UNCHANGED <<verdict, child, consent>>
<1> USE DEF goVars, userVars, tableVars, clientVars
<1>1. verdict' = verdict
  BY DEF verdict, VerdictOf
<1>2. ASSUME NEW r \in Requests, TornPost(r) PROVE UNCHANGED <<verdict, child, consent>>
  BY <1>1, <1>2 DEF TornPost
<1>3. ASSUME NEW r \in Requests, NEW d \in {"approve", "deny"}, Post(r, d) PROVE Promise!Next
  <2>1. VerdictOf(r) # "none"
    BY <1>3 DEF IInv, Progress, Post, VerdictOf
  <2>2. Promise!Decide(r, d)
    BY <1>1, <1>3, <2>1 DEF Post, Promise!Decide, verdict
  <2> QED BY <2>2 DEF Promise!Next
<1>4. ASSUME NEW S \in SUBSET Requests, \A r \in S : child[r] = "running",
             child' = [r \in Requests |-> IF r \in S THEN "over" ELSE child[r]],
             consent' = consent
      PROVE  Promise!Next
  BY <1>1, <1>4 DEF Promise!End, Promise!Next
<1>5. ASSUME NEW r \in Requests, child[r] = "running", child' = [child EXCEPT ![r] = "over"],
             consent' = consent
      PROVE  Promise!Next
  <2>1. child' = [q \in Requests |-> IF q \in {r} THEN "over" ELSE child[q]]
    BY <1>5 DEF IInv, Functions
  <2> QED BY <1>4, <1>5, <2>1
<1>6. ASSUME NEW r \in Requests, ChildEnds(r) PROVE Promise!Next
  BY <1>5, <1>6 DEF ChildEnds
<1>7. ASSUME NEW r \in Requests, NEW own \in BOOLEAN, Terminate(r, own)
      PROVE  Promise!Next \/ UNCHANGED <<verdict, child, consent>>
  <2>1. consent' = consent
    BY <1>7 DEF Terminate
  <2>2. CASE child' = child
    BY <1>1, <2>1, <2>2
  <2>3. CASE child[r] = "running" /\ child' = [child EXCEPT ![r] = "over"]
    BY <1>5, <2>1, <2>3
  <2> QED BY <1>7, <2>2, <2>3 DEF Terminate
<1>8. ASSUME ConnectorExit PROVE Promise!Next
  <2>1. PICK S \in SUBSET {q \in Requests : child[q] = "running"} :
          child' = [r \in Requests |-> IF r \in S THEN "over" ELSE child[r]]
    BY <1>8 DEF ConnectorExit
  <2>2. S \in SUBSET Requests /\ \A r \in S : child[r] = "running"
    OBVIOUS
  <2>3. consent' = consent
    BY <1>8 DEF ConnectorExit
  <2> QED BY <1>4, <2>1, <2>2, <2>3
<1> QED BY <1>2, <1>3, <1>6, <1>7, <1>8

\* Approvals implements ApprovalPromise: the command runs at most once, after
\* the user approved it, and never after a denial or the deadline.
THEOREM Implements == Spec => PromiseKept
<1>1. Init => Promise!Init
  BY DEF Init, Promise!Init, verdict, VerdictOf
<1>2. IInv /\ [Next]_vars => [Promise!Next]_<<verdict, child, consent>>
  <2> SUFFICES ASSUME IInv, [Next]_vars
               PROVE  Promise!Next \/ UNCHANGED <<verdict, child, consent>>
    OBVIOUS
  <2>1. CASE UNCHANGED <<goVars, child, consent>>
    BY <2>1 DEF goVars, verdict, VerdictOf
  <2>2. CASE UNCHANGED vars
    BY <2>1, <2>2 DEF vars, userVars
  <2>3. ASSUME NEW c \in Callers, PollReturns(c) PROVE UNCHANGED <<goVars, child, consent>>
    BY <2>3 DEF PollReturns, userVars
  <2>4. ASSUME NEW r \in Requests, NEW c \in Callers, PollBegins(c, r)
        PROVE  UNCHANGED <<goVars, child, consent>>
    BY <2>4 DEF PollBegins, userVars
  <2>5. ASSUME NEW r \in Requests, TornPost(r) \/ ChildEnds(r)
               \/ (\E d \in {"approve", "deny"} : Post(r, d))
               \/ (\E own \in BOOLEAN : Terminate(r, own))
        PROVE  UNCHANGED goVars
    BY <2>5 DEF TornPost, ChildEnds, Post, Terminate
  <2>6. CASE ConnectorExit
    BY <2>6, EnvironmentKeepsPromise DEF ConnectorExit
  <2>7. ASSUME NEW r \in Requests, Ask(r) \/ Goroutine(r) \/ Expire(r)
        PROVE  Promise!Next \/ UNCHANGED <<verdict, child, consent>>
    BY <2>7, GoroutineKeepsPromise
  <2>8. ASSUME NEW r \in Requests, TornPost(r) \/ ChildEnds(r)
               \/ (\E d \in {"approve", "deny"} : Post(r, d))
               \/ (\E own \in BOOLEAN : Terminate(r, own))
        PROVE  Promise!Next \/ UNCHANGED <<verdict, child, consent>>
    BY <2>5, <2>8, EnvironmentKeepsPromise
  <2> QED BY <2>1, <2>2, <2>3, <2>4, <2>6, <2>7, <2>8 DEF Next
<1> QED BY <1>1, <1>2, ApprovalInvariant, PTL DEF Spec, PromiseKept, Promise!Spec
=============================================================================
