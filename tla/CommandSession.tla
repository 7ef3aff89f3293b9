---------------------------- MODULE CommandSession ----------------------------
(***************************************************************************)
(* The life of a native Windows command: commandWindowsBuffered starts the  *)
(* process, attaches it to a job object, registers the session and leaves   *)
(* a goroutine in Wait; the supervisor, command_terminate,                  *)
(* command_emergency_terminate and a cancelled call kill it.                *)
(*                                                                          *)
(* The operating system is the environment: processes fork and exit, a PID  *)
(* whose last handle is closed goes to an unrelated process (Stranger), and *)
(* taskkill kills whatever holds the PID it is given.                       *)
(***************************************************************************)
EXTENDS Naturals, FiniteSets

CONSTANTS
    Commands,       \* calls of command_exec, command_inspect or shell_exec
    Terminators,    \* concurrent termination requests
    Pids,           \* process identifiers of the operating system
    ProcLimit,      \* maxCommandProcesses
    NoPid,          \* a command that has not been started
    Free,           \* a PID nobody holds
    Stranger        \* a PID held by a process the connector did not start

ASSUME ConstantsAssumption ==
    /\ IsFiniteSet(Pids)
    /\ ProcLimit \in Nat \ {0}
    /\ NoPid \notin Pids
    /\ Free \notin Commands /\ Stranger \notin Commands /\ Free # Stranger

VARIABLES
    up,             \* the connector is running
    stage,          \* where each commandWindowsBuffered call is
    waiter,         \* where its Wait goroutine is
    supervisor,     \* its supervisor goroutine is ticking
    processGroup,   \* session.processGroup # 0
    job,            \* the job object behind that handle
    root,           \* cmd.Process.Pid
    pidUse,         \* who holds each PID
    live,           \* the PIDs of running processes
    jobbed,         \* the live processes inside a job object
    holders,        \* the live processes that hold a command's stdout or stderr
    term            \* the termination requests in flight

osVars == <<pidUse, live, jobbed, holders>>
callVars == <<stage, waiter, supervisor, processGroup, job, root>>
vars == <<up, callVars, osVars, term>>

Stages == {"idle", "started", "attached", "registered", "yielding", "returned", "refused"}
Waits == {"none", "waiting", "draining", "restoring", "closing", "done"}
IdleTerm == [pc |-> "idle", cmd |-> NoPid]

TypeOK ==
    /\ up \in BOOLEAN
    /\ stage \in [Commands -> Stages]
    /\ waiter \in [Commands -> Waits]
    /\ supervisor \in [Commands -> BOOLEAN]
    /\ processGroup \in [Commands -> BOOLEAN]
    /\ job \in [Commands -> {"none", "open", "closed"}]
    /\ root \in [Commands -> Pids \cup {NoPid}]
    /\ pidUse \in [Pids -> Commands \cup {Free, Stranger}]
    /\ live \in SUBSET Pids /\ jobbed \in SUBSET live /\ holders \in SUBSET live
    /\ term \in [Terminators -> {IdleTerm} \cup [pc : {"taskkill", "await"}, cmd : Commands]]

Init ==
    /\ up = TRUE
    /\ stage = [c \in Commands |-> "idle"]
    /\ waiter = [c \in Commands |-> "none"]
    /\ supervisor = [c \in Commands |-> FALSE]
    /\ processGroup = [c \in Commands |-> FALSE]
    /\ job = [c \in Commands |-> "none"]
    /\ root = [c \in Commands |-> NoPid]
    /\ pidUse = [p \in Pids |-> Free]
    /\ live = {} /\ jobbed = {} /\ holders = {}
    /\ term = [t \in Terminators |-> IdleTerm]

-----------------------------------------------------------------------------
(* The session's predicates. *)

Done(c) == waiter[c] = "done"

Registered(c) == stage[c] \in {"registered", "yielding", "returned"}
Tree(c) == {p \in live : pidUse[p] = c}
JobTree(c) == {p \in jobbed : pidUse[p] = c}
RootExited(c) == root[c] # NoPid /\ root[c] \notin Tree(c)

\* os.Process keeps its handle, and so its PID, until Process.Wait returns.
\* (Mutation: nobody keeps a handle.)
BugUnreleased == {}

Unreleased == {root[c] : c \in {d \in Commands : up /\ waiter[d] \in {"none", "waiting"}}}

\* The PIDs that are free once the processes of S are dead.
FreedBy(S) == [p \in Pids |-> IF p \in S /\ p \notin Unreleased THEN Free ELSE pidUse[p]]

Kill(S) ==
    /\ live' = live \ S
    /\ jobbed' = jobbed \ S
    /\ holders' = holders \ S
    /\ pidUse' = FreedBy(S)

-----------------------------------------------------------------------------
(* The call. *)

\* command.Start() succeeds: the process runs, outside any job.
Start(c) ==
    /\ up /\ stage[c] = "idle"
    /\ \E p \in Pids :
        /\ pidUse[p] = Free
        /\ pidUse' = [pidUse EXCEPT ![p] = c]
        /\ root' = [root EXCEPT ![c] = p]
        /\ live' = live \cup {p}
        /\ holders' = holders \cup {p}
    /\ stage' = [stage EXCEPT ![c] = "started"]
    /\ UNCHANGED <<up, waiter, supervisor, processGroup, job, jobbed, term>>

\* Validation, cwd or command.Start() fails.
Refuse(c) ==
    /\ up /\ stage[c] = "idle"
    /\ stage' = [stage EXCEPT ![c] = "refused"]
    /\ UNCHANGED <<up, waiter, supervisor, processGroup, job, root, osVars, term>>

\* attachProcessGroup succeeds: the root joins the job, the children it already
\* has do not; the supervisor starts.
AttachOK(c) ==
    /\ up /\ stage[c] = "started"
    /\ root[c] \in live
    /\ job' = [job EXCEPT ![c] = "open"]
    /\ processGroup' = [processGroup EXCEPT ![c] = TRUE]
    /\ supervisor' = [supervisor EXCEPT ![c] = TRUE]
    /\ jobbed' = jobbed \cup {root[c]}
    /\ stage' = [stage EXCEPT ![c] = "attached"]
    /\ UNCHANGED <<up, waiter, root, pidUse, live, holders, term>>

\* A job call fails, or the root has exited: the command goes on without a group.
AttachFails(c) ==
    /\ up /\ stage[c] = "started"
    /\ stage' = [stage EXCEPT ![c] = "attached"]
    /\ UNCHANGED <<up, waiter, supervisor, processGroup, job, root, osVars, term>>

Register(c) ==
    /\ up /\ stage[c] = "attached"
    /\ stage' = [stage EXCEPT ![c] = "registered"]
    /\ UNCHANGED <<up, waiter, supervisor, processGroup, job, root, osVars, term>>

LaunchWaiter(c) ==
    /\ up /\ stage[c] = "registered"
    /\ waiter' = [waiter EXCEPT ![c] = "waiting"]
    /\ stage' = [stage EXCEPT ![c] = "yielding"]
    /\ UNCHANGED <<up, supervisor, processGroup, job, root, osVars, term>>

\* The call returns a snapshot: done is closed or the yield time is over.
YieldReturn(c) ==
    /\ up /\ stage[c] = "yielding"
    /\ stage' = [stage EXCEPT ![c] = "returned"]
    /\ UNCHANGED <<up, waiter, supervisor, processGroup, job, root, osVars, term>>

-----------------------------------------------------------------------------
(* The Wait goroutine. *)

\* Process.Wait sees the root exit and closes its handle: the PID may be reused.
WaitRoot(c) ==
    /\ up /\ waiter[c] = "waiting" /\ RootExited(c)
    /\ waiter' = [waiter EXCEPT ![c] = "draining"]
    /\ pidUse' = [pidUse EXCEPT ![root[c]] = Free]
    /\ UNCHANGED <<up, stage, supervisor, processGroup, job, root, live, jobbed, holders, term>>

\* command.Wait returns once every holder of the output pipes is gone.
WaitReturns(c) ==
    /\ up /\ waiter[c] = "draining"
    /\ Tree(c) \cap holders = {}
    /\ waiter' = [waiter EXCEPT ![c] = "restoring"]
    /\ UNCHANGED <<up, stage, supervisor, processGroup, job, root, osVars, term>>

\* (Mutation: the handle is closed and session.processGroup keeps it.)
BugPublishKeepsHandle(c) ==
    /\ up /\ waiter[c] = "restoring"
    /\ waiter' = [waiter EXCEPT ![c] = "closing"]
    /\ Kill(JobTree(c))
    /\ job' = [job EXCEPT ![c] = IF processGroup[c] THEN "closed" ELSE "none"]
    /\ UNCHANGED <<up, stage, supervisor, processGroup, root, term>>

\* The section under session.mu: close the group, which kills what is left in
\* the job (KILL_ON_JOB_CLOSE), and store the result.
Publish(c) ==
    /\ up /\ waiter[c] = "restoring"
    /\ waiter' = [waiter EXCEPT ![c] = "closing"]
    /\ IF processGroup[c]
       THEN /\ Kill(JobTree(c))
            /\ processGroup' = [processGroup EXCEPT ![c] = FALSE]
            /\ job' = [job EXCEPT ![c] = "closed"]
       ELSE UNCHANGED <<osVars, processGroup, job>>
    /\ UNCHANGED <<up, stage, supervisor, root, term>>

CloseDone(c) ==
    /\ up /\ waiter[c] = "closing"
    /\ waiter' = [waiter EXCEPT ![c] = "done"]
    /\ UNCHANGED <<up, stage, supervisor, processGroup, job, root, osVars, term>>

-----------------------------------------------------------------------------
(* The supervisor goroutine: one tick of startCommandSupervisor. *)

\* (Mutation: > for >=, which the job's own limit never lets happen.)
BugSupervisorTick(c) ==
    /\ up /\ supervisor[c]
    /\ \/ Done(c) \/ ~processGroup[c]
       \/ processGroup[c] /\ Cardinality(JobTree(c)) > ProcLimit
    /\ supervisor' = [supervisor EXCEPT ![c] = FALSE]
    /\ IF processGroup[c] /\ ~Done(c) THEN Kill(JobTree(c)) ELSE UNCHANGED osVars
    /\ UNCHANGED <<up, stage, waiter, processGroup, job, root, term>>

SupervisorTick(c) ==
    /\ up /\ supervisor[c]
    /\ \/ Done(c) \/ ~processGroup[c]
          \* done is closed or the group is gone
       \/ processGroup[c] /\ Cardinality(JobTree(c)) >= ProcLimit
    /\ supervisor' = [supervisor EXCEPT ![c] = FALSE]
    /\ IF processGroup[c] /\ ~Done(c) THEN Kill(JobTree(c)) ELSE UNCHANGED osVars
    /\ UNCHANGED <<up, stage, waiter, processGroup, job, root, term>>

-----------------------------------------------------------------------------
(* Termination. *)

\* (Mutation: only the root process is killed.)
BugKillRootOnly(t, c) ==
    IF processGroup[c]
    THEN /\ Kill(JobTree(c) \cap {root[c]})
         /\ term' = [term EXCEPT ![t] = [pc |-> "await", cmd |-> c]]
    ELSE /\ term' = [term EXCEPT ![t] = [pc |-> "taskkill", cmd |-> c]]
         /\ UNCHANGED osVars

\* The section of terminateCommand under session.mu.
KillGroupOrGoOn(t, c) ==
    IF processGroup[c]
    THEN /\ Kill(JobTree(c))
         /\ term' = [term EXCEPT ![t] = [pc |-> "await", cmd |-> c]]
    ELSE /\ term' = [term EXCEPT ![t] = [pc |-> "taskkill", cmd |-> c]]
         /\ UNCHANGED osVars

\* command_terminate by the owner, command_emergency_terminate by anybody.
Terminate(t, c) ==
    /\ up /\ term[t] = IdleTerm /\ Registered(c)
    /\ KillGroupOrGoOn(t, c)
    /\ UNCHANGED <<up, callVars>>

\* The request's context is cancelled while the call yields.
CancelCall(t, c) ==
    /\ up /\ term[t] = IdleTerm /\ stage[c] = "yielding"
    /\ stage' = [stage EXCEPT ![c] = "returned"]
    /\ KillGroupOrGoOn(t, c)
    /\ UNCHANGED <<up, waiter, supervisor, processGroup, job, root>>

\* killWindowsProcessTree: taskkill /T /F kills the process that holds the PID
\* now, and those of its descendants whose chain of parents is still alive; a
\* process of somebody else may be out of its reach.
TaskKill(t) ==
    /\ up /\ term[t].pc = "taskkill"
    /\ term' = [term EXCEPT ![t].pc = "await"]
    /\ LET p == root[term[t].cmd]
       IN \/ /\ p \in live
             /\ \E S \in SUBSET {q \in live : pidUse[q] = pidUse[p]} : Kill(S \cup {p})
          \/ /\ p \notin live \/ pidUse[p] = Stranger
             /\ UNCHANGED osVars
    /\ UNCHANGED <<up, callVars>>

\* done is closed, the wait is over, or the caller went away.
TerminateReturns(t) ==
    /\ up /\ term[t].pc = "await"
    /\ term' = [term EXCEPT ![t] = IdleTerm]
    /\ UNCHANGED <<up, callVars, osVars>>

-----------------------------------------------------------------------------
(* The operating system. *)

\* A child is born in its parent's job, which refuses one above its limit; it
\* may or may not inherit the output pipes.
Fork(c) ==
    /\ \E p \in Tree(c), q \in Pids :
        /\ pidUse[q] = Free
        /\ p \in jobbed => Cardinality(JobTree(c)) < ProcLimit
        /\ pidUse' = [pidUse EXCEPT ![q] = c]
        /\ live' = live \cup {q}
        /\ jobbed' = IF p \in jobbed THEN jobbed \cup {q} ELSE jobbed
        /\ \/ p \in holders /\ holders' = holders \cup {q}
           \/ UNCHANGED holders
    /\ UNCHANGED <<up, callVars, term>>

Exit(c) ==
    /\ \E p \in Tree(c) : Kill({p})
    /\ UNCHANGED <<up, callVars, term>>

StrangerStarts ==
    /\ \E p \in Pids :
        /\ pidUse[p] = Free
        /\ pidUse' = [pidUse EXCEPT ![p] = Stranger]
        /\ live' = live \cup {p}
    /\ UNCHANGED <<up, callVars, jobbed, holders, term>>

StrangerExits ==
    /\ \E p \in live : pidUse[p] = Stranger /\ Kill({p})
    /\ UNCHANGED <<up, callVars, term>>

\* The connector exits or is killed: its handles are closed, which ends its jobs.
ConnectorExit ==
    /\ up
    /\ up' = FALSE
    /\ live' = live \ jobbed
    /\ jobbed' = {}
    /\ holders' = holders \ jobbed
    /\ pidUse' = [p \in Pids |-> IF p \in live \ jobbed THEN pidUse[p] ELSE Free]
    /\ job' = [c \in Commands |-> IF job[c] = "open" THEN "closed" ELSE job[c]]
    /\ processGroup' = [c \in Commands |-> FALSE]
    /\ UNCHANGED <<stage, waiter, supervisor, root, term>>

-----------------------------------------------------------------------------
Call(c) == Start(c) \/ Refuse(c) \/ AttachOK(c) \/ AttachFails(c) \/ Register(c)
           \/ LaunchWaiter(c) \/ YieldReturn(c)
WaitGoroutine(c) == WaitRoot(c) \/ WaitReturns(c) \/ Publish(c) \/ CloseDone(c)
Termination(t) ==
    \/ \E c \in Commands : Terminate(t, c) \/ CancelCall(t, c)
    \/ TaskKill(t) \/ TerminateReturns(t)
System == \/ \E c \in Commands : Fork(c) \/ Exit(c)
          \/ StrangerStarts \/ StrangerExits \/ ConnectorExit

Next ==
    \/ \E c \in Commands : Call(c) \/ WaitGoroutine(c) \/ SupervisorTick(c)
    \/ \E t \in Terminators : Termination(t)
    \/ System

Spec == Init /\ [][Next]_vars

\* A goroutine that can run does; processes need never exit and no one need
\* terminate anything.
Fairness ==
    \A c \in Commands :
        /\ WF_vars(AttachOK(c) \/ AttachFails(c)) /\ WF_vars(Register(c))
        /\ WF_vars(LaunchWaiter(c)) /\ WF_vars(WaitGoroutine(c))
        /\ WF_vars(SupervisorTick(c))

FairSpec == Spec /\ Fairness

-----------------------------------------------------------------------------
(* Properties. *)

\* The supervisor, terminateCommand and the emergency path use the job handle
\* whenever processGroup is not 0: it must never be a handle the Wait goroutine
\* has closed, which the system may have given to something else.
NoStaleHandle == \A c \in Commands : processGroup[c] => job[c] = "open"

\* A command whose done channel is closed has released its job object, and
\* nothing that was in the job is still running.
NothingInJobOutlivesDone ==
    \A c \in Commands : Done(c) => job[c] # "open" /\ JobTree(c) = {}

\* taskkill, which trusts a PID, is only ever reached for a command that has no
\* open job: attach, registration and the group read happen in that order.
PidKillOnlyWithoutJob ==
    \A t \in Terminators : term[t].pc = "taskkill" => job[term[t].cmd] # "open"

TaskKilled(t) == term[t].pc = "taskkill" /\ term'[t].pc = "await"

\* A termination can only hit a process of somebody else once Wait has released
\* the PID of the command: while the handle is held the PID cannot be reused,
\* and a command with an open job is not killed through its PID.
HarmNeedsReleasedPid ==
    [][\A t \in Terminators :
          LET c == term[t].cmd
          IN TaskKilled(t) /\ (\E p \in live \ live' : pidUse[p] # c)
                => waiter[c] \notin {"none", "waiting"} /\ job[c] # "open"]_vars

\* A job at its process limit does not stay there.
OverfullJobIsKilled ==
    \A c \in Commands :
        Cardinality(JobTree(c)) >= ProcLimit ~> Cardinality(JobTree(c)) < ProcLimit

\* A started command whose processes have let go of its output is reported
\* complete, whatever was killed, forked or terminated on the way; and so is one
\* killed through its job, unless a process that never was in the job still holds
\* its output.
CommandCompletes ==
    \A c \in Commands :
        /\ up /\ RootExited(c) /\ Tree(c) \cap holders = {} ~> Done(c) \/ ~up
        /\ (up /\ job[c] = "open" /\ \E t \in Terminators : term[t] = [pc |-> "await", cmd |-> c])
               ~> (Done(c) \/ ~up \/ (Tree(c) \cap holders) \ jobbed # {})
=============================================================================
