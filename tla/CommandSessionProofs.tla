------------------------- MODULE CommandSessionProofs -------------------------
(***************************************************************************)
(* Proofs about CommandSession, for every set of commands, PIDs and         *)
(* terminators: type correctness, then an inductive invariant from which    *)
(* the job-handle and PID properties follow.                                *)
(***************************************************************************)
EXTENDS CommandSession, TLAPS

OsTypeOK ==
    /\ pidUse \in [Pids -> Commands \cup {Free, Stranger}]
    /\ live \in SUBSET Pids /\ jobbed \in SUBSET live /\ holders \in SUBSET live

\* Killing any set of processes leaves the operating system's state well typed.
LEMMA KillTypes ==
    ASSUME OsTypeOK, NEW S, Kill(S) PROVE OsTypeOK'
  BY DEF OsTypeOK, Kill, FreedBy

\* The state is well typed at every step of the native command runner.
THEOREM TypeCorrect == Spec => []TypeOK
<1>1. Init => TypeOK
  BY ConstantsAssumption DEF Init, TypeOK, Stages, Waits
<1>2. TypeOK /\ [Next]_vars => TypeOK'
  <2> SUFFICES ASSUME TypeOK, [Next]_vars PROVE TypeOK'
    OBVIOUS
  <2> USE DEF TypeOK, Stages, Waits
  <2>1. ASSUME NEW c \in Commands, Call(c) PROVE TypeOK'
    <3>1. CASE Start(c)
      BY <3>1 DEF Start
    <3>2. CASE AttachOK(c)
      BY <3>2 DEF AttachOK
    <3>3. CASE Refuse(c) \/ AttachFails(c) \/ Register(c)
      BY <3>3 DEF Refuse, AttachFails, Register, osVars
    <3>4. CASE LaunchWaiter(c) \/ YieldReturn(c)
      BY <3>4 DEF LaunchWaiter, YieldReturn, osVars
    <3> QED BY <2>1, <3>1, <3>2, <3>3, <3>4 DEF Call
  <2>2. ASSUME NEW c \in Commands, WaitRoot(c) \/ WaitReturns(c) \/ CloseDone(c) PROVE TypeOK'
    BY <2>2 DEF WaitRoot, WaitReturns, CloseDone, osVars
  <2>3. ASSUME NEW c \in Commands, Publish(c) PROVE TypeOK'
    <3>1. OsTypeOK'
      BY <2>3, KillTypes DEF Publish, OsTypeOK, osVars
    <3> QED BY <2>3, <3>1 DEF Publish, OsTypeOK
  <2>4. ASSUME NEW c \in Commands, SupervisorTick(c) PROVE TypeOK'
    BY <2>4 DEF SupervisorTick, Kill, FreedBy, osVars
  <2>5. ASSUME NEW t \in Terminators, NEW c \in Commands, Terminate(t, c) \/ CancelCall(t, c)
        PROVE TypeOK'
    BY <2>5 DEF Terminate, CancelCall, KillGroupOrGoOn, Kill, FreedBy, osVars, callVars, IdleTerm
  <2>6. ASSUME NEW t \in Terminators, TaskKill(t) PROVE TypeOK'
    <3>1. term' \in [Terminators -> {IdleTerm} \cup [pc : {"taskkill", "await"}, cmd : Commands]]
      BY <2>6 DEF TaskKill, IdleTerm
    <3>2. pidUse' \in [Pids -> Commands \cup {Free, Stranger}] /\ live' \in SUBSET Pids
          /\ jobbed' \in SUBSET live' /\ holders' \in SUBSET live'
      BY <2>6 DEF TaskKill, Kill, FreedBy, osVars
    <3> QED BY <2>6, <3>1, <3>2 DEF TaskKill, callVars
  <2>7. ASSUME NEW t \in Terminators, TerminateReturns(t) PROVE TypeOK'
    BY <2>7 DEF TerminateReturns, osVars, callVars
  <2>8. CASE System
    <3>1. ASSUME NEW c \in Commands, Fork(c) PROVE TypeOK'
      BY <3>1 DEF Fork, Tree, callVars
    <3>2. ASSUME NEW c \in Commands, Exit(c) PROVE TypeOK'
      BY <3>2 DEF Exit, Tree, Kill, FreedBy, callVars
    <3>3. CASE StrangerStarts
      BY <3>3 DEF StrangerStarts, callVars
    <3>4. CASE StrangerExits
      BY <3>4 DEF StrangerExits, Kill, FreedBy, callVars
    <3>5. CASE ConnectorExit
      BY <3>5 DEF ConnectorExit
    <3> QED BY <2>8, <3>1, <3>2, <3>3, <3>4, <3>5 DEF System
  <2>9. CASE UNCHANGED vars
    BY <2>9 DEF vars, callVars, osVars
  <2> QED
    BY <2>1, <2>2, <2>3, <2>4, <2>5, <2>6, <2>7, <2>8, <2>9 DEF Next, WaitGoroutine, Termination
<1> QED BY <1>1, <1>2, PTL DEF Spec

-----------------------------------------------------------------------------
(***************************************************************************)
(* The inductive invariant.                                                 *)
(***************************************************************************)

\* A process is only ever in a job whose handle the connector still has.
JobbedInOpenJob ==
    \A p \in jobbed : pidUse[p] \in Commands /\ job[pidUse[p]] = "open"

\* processGroup is the handle, exactly as long as the job is open.
HandleMatchesJob == \A c \in Commands : processGroup[c] <=> job[c] = "open"

\* What the order of the call and of the Wait goroutine implies.
CallOrder ==
    \A c \in Commands :
        /\ waiter[c] # "none" => stage[c] \in {"yielding", "returned"}
        /\ stage[c] \in {"idle", "started", "refused"} => job[c] = "none"
        /\ waiter[c] \in {"closing", "done"} => ~processGroup[c]

\* taskkill is reached only for a registered command without a job.
PidKillOrder ==
    \A t \in Terminators :
        term[t].pc = "taskkill" =>
            Registered(term[t].cmd) /\ job[term[t].cmd] # "open"

\* Until Wait releases it, the PID of a started command is its own.
PidHeld ==
    \A c \in Commands :
        up /\ stage[c] \notin {"idle", "refused"} /\ waiter[c] \in {"none", "waiting"}
            => root[c] \in Pids /\ pidUse[root[c]] = c

IInv == /\ JobbedInOpenJob /\ HandleMatchesJob /\ CallOrder /\ PidKillOrder /\ PidHeld

\* What killing the processes of S leaves alone.
LEMMA KillFrame ==
    ASSUME TypeOK, JobbedInOpenJob, PidHeld, NEW S, Kill(S)
    PROVE  /\ \A p \in jobbed' : p \in jobbed /\ p \notin S /\ pidUse'[p] = pidUse[p]
           /\ \A c \in Commands :
                up /\ waiter[c] \in {"none", "waiting"} /\ root[c] \in Pids
                    => pidUse'[root[c]] = pidUse[root[c]]
<1>1. \A c \in Commands : up /\ waiter[c] \in {"none", "waiting"} => root[c] \in Unreleased
  BY DEF Unreleased
<1> QED BY <1>1 DEF TypeOK, Kill, FreedBy

LEMMA CallStep ==
    ASSUME TypeOK, IInv, NEW c \in Commands, Call(c) PROVE IInv'
<1> USE DEF IInv, TypeOK, HandleMatchesJob, CallOrder, PidKillOrder, Registered, IdleTerm
<1>1. CASE Start(c)
  <2>1. PICK p \in Pids : /\ pidUse[p] = Free
                          /\ pidUse' = [pidUse EXCEPT ![p] = c]
                          /\ root' = [root EXCEPT ![c] = p]
    BY <1>1 DEF Start
  <2>2. JobbedInOpenJob'
    BY <1>1, <2>1, ConstantsAssumption DEF Start, JobbedInOpenJob
  <2>3. PidHeld'
    BY <1>1, <2>1, ConstantsAssumption DEF Start, PidHeld
  <2>4. HandleMatchesJob' /\ CallOrder'
    BY <1>1 DEF Start
  <2>5. PidKillOrder'
    BY <1>1 DEF Start
  <2> QED BY <2>2, <2>3, <2>4, <2>5
<1>2. CASE AttachOK(c)
  <2>1. JobbedInOpenJob'
    BY <1>2 DEF AttachOK, JobbedInOpenJob, PidHeld
  <2>2. PidHeld'
    BY <1>2 DEF AttachOK, PidHeld
  <2>3. HandleMatchesJob' /\ CallOrder'
    BY <1>2 DEF AttachOK
  <2>4. PidKillOrder'
    BY <1>2 DEF AttachOK
  <2> QED BY <2>1, <2>2, <2>3, <2>4
<1>3. CASE Refuse(c) \/ AttachFails(c) \/ Register(c) \/ LaunchWaiter(c) \/ YieldReturn(c)
  <2>1. JobbedInOpenJob'
    BY <1>3 DEF Refuse, AttachFails, Register, LaunchWaiter, YieldReturn, osVars, JobbedInOpenJob
  <2>2. PidHeld'
    <3>1. root' = root /\ pidUse' = pidUse /\ up' = up
      BY <1>3 DEF Refuse, AttachFails, Register, LaunchWaiter, YieldReturn, osVars
    <3>2. CASE Refuse(c) \/ AttachFails(c) \/ Register(c)
      BY <3>1, <3>2 DEF Refuse, AttachFails, Register, PidHeld
    <3>3. CASE LaunchWaiter(c) \/ YieldReturn(c)
      BY <3>1, <3>3 DEF LaunchWaiter, YieldReturn, PidHeld
    <3> QED BY <1>3, <3>2, <3>3
  <2>3. HandleMatchesJob' /\ CallOrder'
    BY <1>3 DEF Refuse, AttachFails, Register, LaunchWaiter, YieldReturn
  <2>4. PidKillOrder'
    BY <1>3 DEF Refuse, AttachFails, Register, LaunchWaiter, YieldReturn
  <2> QED BY <2>1, <2>2, <2>3, <2>4
<1> QED BY <1>1, <1>2, <1>3 DEF Call

LEMMA WaitStep ==
    ASSUME TypeOK, IInv, NEW c \in Commands, WaitGoroutine(c) PROVE IInv'
<1> USE DEF IInv, TypeOK, HandleMatchesJob, CallOrder, PidKillOrder, Registered, IdleTerm
<1>1. CASE WaitRoot(c)
  <2>1. root[c] \in Pids /\ pidUse[root[c]] = c /\ root[c] \notin jobbed
    BY <1>1 DEF WaitRoot, PidHeld, RootExited, Tree
  <2>2. JobbedInOpenJob'
    BY <1>1, <2>1 DEF WaitRoot, JobbedInOpenJob
  <2>3. PidHeld'
    BY <1>1, <2>1 DEF WaitRoot, PidHeld
  <2>4. HandleMatchesJob' /\ CallOrder' /\ PidKillOrder'
    BY <1>1 DEF WaitRoot
  <2> QED BY <2>2, <2>3, <2>4
<1>2. CASE WaitReturns(c) \/ CloseDone(c)
  <2>1. JobbedInOpenJob' /\ PidHeld'
    BY <1>2 DEF WaitReturns, CloseDone, osVars, JobbedInOpenJob, PidHeld
  <2>2. HandleMatchesJob' /\ CallOrder' /\ PidKillOrder'
    BY <1>2 DEF WaitReturns, CloseDone
  <2> QED BY <2>1, <2>2
<1>3. CASE Publish(c) /\ processGroup[c]
  <2>1. Kill(JobTree(c))
    BY <1>3 DEF Publish
  <2>2. JobbedInOpenJob'
    <3>1. ASSUME NEW p \in jobbed' PROVE pidUse'[p] \in Commands /\ job'[pidUse'[p]] = "open"
      <4>1. p \in jobbed /\ p \notin JobTree(c) /\ pidUse'[p] = pidUse[p]
        BY <2>1, <3>1, KillFrame
      <4> QED BY <1>3, <4>1 DEF Publish, JobTree, JobbedInOpenJob
    <3> QED BY <3>1 DEF JobbedInOpenJob
  <2>3. PidHeld'
    BY <1>3, <2>1, KillFrame DEF Publish, PidHeld
  <2>4. HandleMatchesJob' /\ CallOrder' /\ PidKillOrder'
    BY <1>3 DEF Publish
  <2> QED BY <2>2, <2>3, <2>4
<1>4. CASE Publish(c) /\ ~processGroup[c]
  <2>1. JobbedInOpenJob' /\ PidHeld'
    BY <1>4 DEF Publish, osVars, JobbedInOpenJob, PidHeld
  <2>2. HandleMatchesJob' /\ CallOrder' /\ PidKillOrder'
    BY <1>4 DEF Publish
  <2> QED BY <2>1, <2>2
<1> QED BY <1>1, <1>2, <1>3, <1>4 DEF WaitGoroutine

LEMMA SupervisorStep ==
    ASSUME TypeOK, IInv, NEW c \in Commands, SupervisorTick(c) PROVE IInv'
<1> USE DEF IInv, TypeOK
<1>1. CASE Kill(JobTree(c))
  <2>1. JobbedInOpenJob'
    BY <1>1, KillFrame DEF SupervisorTick, JobbedInOpenJob
  <2>2. PidHeld'
    BY <1>1, KillFrame DEF SupervisorTick, PidHeld
  <2> QED BY <2>1, <2>2 DEF SupervisorTick, HandleMatchesJob, CallOrder, PidKillOrder, Registered
<1>2. CASE UNCHANGED osVars
  BY <1>2 DEF SupervisorTick, osVars, JobbedInOpenJob, PidHeld, HandleMatchesJob, CallOrder,
              PidKillOrder, Registered
<1> QED BY <1>1, <1>2 DEF SupervisorTick

LEMMA TerminationStep ==
    ASSUME TypeOK, IInv, NEW t \in Terminators, Termination(t) PROVE IInv'
<1> USE DEF IInv, TypeOK
<1>1. ASSUME NEW c \in Commands, Terminate(t, c) \/ CancelCall(t, c) PROVE IInv'
  <2>1. UNCHANGED <<up, waiter, processGroup, job, root>> /\ Registered(c)
        /\ (stage' = stage \/ (stage[c] = "yielding" /\ stage' = [stage EXCEPT ![c] = "returned"]))
    <3>1. CASE Terminate(t, c)
      BY <3>1 DEF Terminate, callVars
    <3>2. CASE CancelCall(t, c)
      BY <3>2 DEF CancelCall, Registered
    <3> QED BY <1>1, <3>1, <3>2
  <2>2. KillGroupOrGoOn(t, c)
    BY <1>1 DEF Terminate, CancelCall
  <2>3. HandleMatchesJob' /\ CallOrder'
    BY <2>1 DEF HandleMatchesJob, CallOrder
  <2>4. PidKillOrder'
    BY <2>1, <2>2 DEF KillGroupOrGoOn, PidKillOrder, HandleMatchesJob, Registered, IdleTerm
  <2>5. JobbedInOpenJob'
    BY <2>1, <2>2, KillFrame DEF KillGroupOrGoOn, JobbedInOpenJob, osVars
  <2>6. PidHeld'
    <3>1. \A d \in Commands : up /\ waiter[d] \in {"none", "waiting"} /\ root[d] \in Pids
              => pidUse'[root[d]] = pidUse[root[d]]
      BY <2>2, KillFrame DEF KillGroupOrGoOn, osVars
    <3>2. ASSUME NEW d \in Commands, up', stage'[d] \notin {"idle", "refused"},
                 waiter'[d] \in {"none", "waiting"}
          PROVE  root'[d] \in Pids /\ pidUse'[root'[d]] = d
      <4>1. root[d] \in Pids /\ pidUse[root[d]] = d
        BY <2>1, <3>2 DEF PidHeld
      <4> QED BY <2>1, <3>1, <3>2, <4>1
    <3> QED BY <3>2 DEF PidHeld
  <2> QED BY <2>3, <2>4, <2>5, <2>6
<1>2. CASE TaskKill(t)
  <2>1. HandleMatchesJob' /\ CallOrder'
    BY <1>2 DEF TaskKill, callVars, HandleMatchesJob, CallOrder
  <2>2. PidKillOrder'
    BY <1>2 DEF TaskKill, callVars, PidKillOrder, Registered, IdleTerm
  <2>3. (\E S : Kill(S)) \/ UNCHANGED osVars
    BY <1>2 DEF TaskKill
  <2>4. JobbedInOpenJob' /\ PidHeld'
    BY <1>2, <2>3, KillFrame DEF TaskKill, callVars, JobbedInOpenJob, PidHeld, osVars
  <2> QED BY <2>1, <2>2, <2>4
<1>3. CASE TerminateReturns(t)
  BY <1>3 DEF TerminateReturns, callVars, osVars, JobbedInOpenJob, PidHeld, HandleMatchesJob,
              CallOrder, PidKillOrder, Registered, IdleTerm
<1> QED BY <1>1, <1>2, <1>3 DEF Termination

LEMMA SystemStep ==
    ASSUME TypeOK, IInv, System PROVE IInv'
<1> USE DEF IInv, TypeOK
<1>1. ASSUME NEW c \in Commands, Fork(c) PROVE IInv'
  <2>1. PICK p \in Tree(c), q \in Pids :
            /\ pidUse[q] = Free
            /\ pidUse' = [pidUse EXCEPT ![q] = c]
            /\ jobbed' = IF p \in jobbed THEN jobbed \cup {q} ELSE jobbed
    BY <1>1 DEF Fork
  <2>2. JobbedInOpenJob'
    BY <1>1, <2>1, ConstantsAssumption DEF Fork, Tree, callVars, JobbedInOpenJob
  <2>3. PidHeld'
    BY <1>1, <2>1, ConstantsAssumption DEF Fork, callVars, PidHeld
  <2> QED BY <1>1, <2>2, <2>3 DEF Fork, callVars, HandleMatchesJob, CallOrder, PidKillOrder,
                                  Registered
<1>2. ASSUME NEW S, Kill(S), UNCHANGED <<up, callVars, term>> PROVE IInv'
  <2>1. JobbedInOpenJob' /\ PidHeld'
    BY <1>2, KillFrame DEF callVars, JobbedInOpenJob, PidHeld
  <2> QED BY <1>2, <2>1 DEF callVars, HandleMatchesJob, CallOrder, PidKillOrder, Registered
<1>3. CASE StrangerStarts
  <2>1. PICK p \in Pids : pidUse[p] = Free /\ pidUse' = [pidUse EXCEPT ![p] = Stranger]
    BY <1>3 DEF StrangerStarts
  <2>2. JobbedInOpenJob' /\ PidHeld'
    BY <1>3, <2>1, ConstantsAssumption DEF StrangerStarts, callVars, JobbedInOpenJob, PidHeld
  <2> QED BY <1>3, <2>2 DEF StrangerStarts, callVars, HandleMatchesJob, CallOrder, PidKillOrder,
                            Registered
<1>4. CASE ConnectorExit
  <2>1. JobbedInOpenJob' /\ PidHeld'
    BY <1>4 DEF ConnectorExit, JobbedInOpenJob, PidHeld
  <2>2. HandleMatchesJob' /\ CallOrder'
    BY <1>4 DEF ConnectorExit, HandleMatchesJob, CallOrder
  <2>3. PidKillOrder'
    BY <1>4 DEF ConnectorExit, PidKillOrder, Registered, IdleTerm
  <2> QED BY <2>1, <2>2, <2>3
<1> QED BY <1>1, <1>2, <1>3, <1>4 DEF System, Exit, StrangerExits

\* The invariant holds at every step.
THEOREM Invariant == Spec => [](TypeOK /\ IInv)
<1>1. Init => IInv
  BY ConstantsAssumption DEF Init, IInv, JobbedInOpenJob, HandleMatchesJob, CallOrder, PidKillOrder, PidHeld,
         IdleTerm
<1>2. TypeOK /\ IInv /\ [Next]_vars => IInv'
  <2> SUFFICES ASSUME TypeOK, IInv, [Next]_vars PROVE IInv'
    OBVIOUS
  <2>1. CASE UNCHANGED vars
    BY <2>1 DEF vars, callVars, osVars, IInv, JobbedInOpenJob, HandleMatchesJob, CallOrder,
                PidKillOrder, PidHeld, Registered
  <2>2. CASE Next
    BY <2>2, CallStep, WaitStep, SupervisorStep, TerminationStep, SystemStep DEF Next
  <2> QED BY <2>1, <2>2
<1> QED BY <1>1, <1>2, TypeCorrect, PTL DEF Spec

\* The job handle that terminators and the supervisor use is never a closed one.
THEOREM HandleSafe == Spec => []NoStaleHandle
<1>1. IInv => NoStaleHandle
  BY DEF IInv, HandleMatchesJob, NoStaleHandle
<1> QED BY <1>1, Invariant, PTL

\* When done is closed the job is released and nothing that was in it runs.
THEOREM DoneReleasesJob == Spec => []NothingInJobOutlivesDone
<1>1. TypeOK /\ IInv => NothingInJobOutlivesDone
  BY DEF IInv, HandleMatchesJob, CallOrder, JobbedInOpenJob, NothingInJobOutlivesDone, Done, JobTree,
         TypeOK
<1> QED BY <1>1, Invariant, PTL

\* A command with an open job is never killed through its PID.
THEOREM PidKillSafe == Spec => []PidKillOnlyWithoutJob
<1>1. IInv => PidKillOnlyWithoutJob
  BY DEF IInv, PidKillOrder, PidKillOnlyWithoutJob
<1> QED BY <1>1, Invariant, PTL

\* A kill through a PID only reaches a foreign process after Wait released it.
THEOREM HarmOnlyAfterRelease == Spec => HarmNeedsReleasedPid
<1> DEFINE A == \A t \in Terminators :
        LET c == term[t].cmd
        IN TaskKilled(t) /\ (\E p \in live \ live' : pidUse[p] # c)
              => waiter[c] \notin {"none", "waiting"} /\ job[c] # "open"
<1>1. TypeOK /\ IInv /\ [Next]_vars => [A]_vars
  <2> SUFFICES ASSUME TypeOK, IInv, Next, NEW t \in Terminators, TaskKilled(t),
                      NEW p \in live \ live', pidUse[p] # term[t].cmd
               PROVE  waiter[term[t].cmd] \notin {"none", "waiting"} /\ job[term[t].cmd] # "open"
    BY DEF vars, callVars, osVars
  <2> DEFINE c == term[t].cmd
  <2>1. TaskKill(t)
    <3>1. ~ UNCHANGED term /\ term[t].pc = "taskkill" /\ term'[t].pc = "await"
      BY DEF TaskKilled
    <3>2. ~ \E d \in Commands : Call(d) \/ WaitGoroutine(d) \/ SupervisorTick(d)
      BY <3>1 DEF Call, WaitGoroutine, Start, Refuse, AttachOK, AttachFails, Register, LaunchWaiter,
                  YieldReturn, WaitRoot, WaitReturns, Publish, CloseDone, SupervisorTick
    <3>3. ~ System
      BY <3>1 DEF System, Fork, Exit, StrangerStarts, StrangerExits, ConnectorExit
    <3>4. PICK u \in Terminators : Termination(u)
      BY <3>2, <3>3 DEF Next
    <3>5. u = t
      BY <3>1, <3>4 DEF Termination, Terminate, CancelCall, KillGroupOrGoOn, TaskKill,
                        TerminateReturns, TypeOK
    <3> QED BY <3>1, <3>4, <3>5 DEF Termination, Terminate, CancelCall, TerminateReturns, IdleTerm
  <2>2. c \in Commands /\ Registered(c) /\ job[c] # "open" /\ up
    BY <2>1 DEF TaskKill, IInv, PidKillOrder, TypeOK, IdleTerm
  <2>3. PICK S \in SUBSET {q \in live : pidUse[q] = pidUse[root[c]]} : live' = live \ (S \cup {root[c]})
    BY <2>1 DEF TaskKill, Kill, osVars
  <2>4. pidUse[root[c]] # c
    BY <2>3
  <2> QED BY <2>2, <2>4 DEF IInv, PidHeld, Registered
<1> QED BY <1>1, Invariant, PTL DEF Spec, HarmNeedsReleasedPid
=============================================================================
