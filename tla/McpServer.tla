------------------------------- MODULE McpServer -------------------------------
(***************************************************************************)
(* The MCP side of the connector: Serve reads one JSON-RPC line at a time,  *)
(* runs every request in a goroutine of its own under a cancellable context *)
(* and keeps it in the table inFlight, which notifications/cancelled looks  *)
(* up.  Tools that need the app-server wait for MarkBackendReady.  A restart*)
(* request cancels the context of Serve, which notices it at its next line. *)
(*                                                                          *)
(* The client is the environment: it sends requests, cancellations (of any  *)
(* id, also one it uses twice) and noise, and may close stdin at any time.   *)
(* What a tool does is left to the other modules: here a handler works and   *)
(* returns, or works for ever.                                              *)
(***************************************************************************)
EXTENDS Naturals, FiniteSets

CONSTANTS
    Ids,            \* JSON-RPC ids, as requestIDKey tells them apart
    MaxRequests     \* bound: requests the client sends

ASSUME RequestsAssumption == MaxRequests \in Nat

VARIABLES
    reader,         \* the loop of Serve
    stopped,        \* the context main gave to Serve is cancelled
    inFlight,       \* Server.inFlight
    request,        \* what the client sent: id and kind
    phase,          \* the goroutine of each request
    cancelled,      \* requests whose own context was cancelled
    backend,        \* Server.backendReady and backendErr
    broken,         \* stdout takes no more lines
    received,       \* how many requests Serve has taken
    answered,       \* history: requests with an answer on stdout
    late            \* history: requests taken after the stop

historyVars == <<received, answered, late>>
vars == <<reader, stopped, inFlight, request, phase, cancelled, backend, broken, historyVars>>

\* A request is named by its place among the lines Serve took.
Requests == 1..MaxRequests
Nobody == 0

Kinds == {"initialize", "local", "backend"}
Unsent == [kind |-> "none"]
Scanning == [pc |-> "scanning"]
Returned == [pc |-> "returned"]
InHandler == {"begun", "working"}
Undecided == InHandler \cup {"returned", "writing"}
Live == Undecided \cup {"finishing"}

TypeOK ==
    /\ reader \in {Scanning, [pc |-> "line"], Returned} \cup [pc : {"cancelling"}, request : Requests]
    /\ stopped \in BOOLEAN /\ broken \in BOOLEAN
    /\ inFlight \in [Ids -> Requests \cup {Nobody}]
    /\ request \in [Requests -> [id : Ids, kind : Kinds] \cup {Unsent}]
    /\ phase \in [Requests -> {"unsent", "done"} \cup Live]
    /\ cancelled \subseteq Requests /\ answered \subseteq Requests /\ late \subseteq Requests
    /\ backend \in {"starting", "ready", "failed"}
    /\ received \in 0..MaxRequests

Init ==
    /\ reader = Scanning /\ stopped = FALSE
    /\ inFlight = [i \in Ids |-> Nobody]
    /\ request = [r \in Requests |-> Unsent] /\ phase = [r \in Requests |-> "unsent"]
    /\ cancelled = {} /\ backend = "starting" /\ broken = FALSE
    /\ received = 0 /\ answered = {} /\ late = {}

\* The context of Serve is over.
closing == stopped \/ reader = Returned

\* (Mutation: the requests share one context.)
BugEnded(r) == cancelled # {} \/ closing

\* The contexts of the requests are children of the context of Serve.
Ended(r) == r \in cancelled \/ closing

-----------------------------------------------------------------------------
(* Serve *)

\* (Mutation: the loop does not look at its context.)
BugTakeLine ==
    /\ reader = Scanning
    /\ reader' = [pc |-> "line"]
    /\ UNCHANGED <<stopped, inFlight, request, phase, cancelled, backend, broken, historyVars>>

\* Scan has a line; only now the loop looks whether it shall stop.
TakeLine ==
    /\ reader = Scanning
    /\ reader' = IF stopped THEN Returned ELSE [pc |-> "line"]
    /\ UNCHANGED <<stopped, inFlight, request, phase, cancelled, backend, broken, historyVars>>

\* Blank and malformed lines, and notifications nothing is done for.
SkipLine ==
    /\ reader.pc = "line"
    /\ reader' = Scanning
    /\ UNCHANGED <<stopped, inFlight, request, phase, cancelled, backend, broken, historyVars>>

\* The table entry replaces one with the same id.
Accept(r, id, kind) ==
    /\ reader.pc = "line" /\ r = received + 1
    /\ reader' = Scanning
    /\ request' = [request EXCEPT ![r] = [id |-> id, kind |-> kind]]
    /\ inFlight' = [inFlight EXCEPT ![id] = r]
    /\ phase' = [phase EXCEPT ![r] = "begun"]
    /\ received' = r
    /\ late' = IF stopped THEN late \cup {r} ELSE late
    /\ UNCHANGED <<stopped, cancelled, backend, broken, answered>>

Cancellable(r) == r # Nobody /\ request[r].kind # "initialize"

\* notifications/cancelled: the look-up, under requestMu.
FindCancelled(id) ==
    /\ reader.pc = "line"
    /\ reader' = IF Cancellable(inFlight[id])
                 THEN [pc |-> "cancelling", request |-> inFlight[id]] ELSE Scanning
    /\ UNCHANGED <<stopped, inFlight, request, phase, cancelled, backend, broken, historyVars>>

\* The call of its cancel function, after the unlock.
Cancel ==
    /\ reader.pc = "cancelling"
    /\ cancelled' = cancelled \cup {reader.request}
    /\ reader' = Scanning
    /\ UNCHANGED <<stopped, inFlight, request, phase, backend, broken, historyVars>>

\* The client closed stdin, Scan is over: cancel ends the context of every request.
EndOfInput ==
    /\ reader = Scanning
    /\ reader' = Returned
    /\ UNCHANGED <<stopped, inFlight, request, phase, cancelled, backend, broken, historyVars>>

-----------------------------------------------------------------------------
(* The goroutine of a request *)

\* A handler whose tool needs no app-server, or whose app-server is there.
Begin(r) ==
    /\ phase[r] = "begun"
    /\ request[r].kind = "backend" => backend = "ready"
    /\ phase' = [phase EXCEPT ![r] = "working"]
    /\ UNCHANGED <<reader, stopped, inFlight, request, cancelled, backend, broken, historyVars>>

\* BACKEND_NOT_READY: the app-server failed to start, or the wait was cancelled.
Refuse(r) ==
    /\ phase[r] = "begun" /\ request[r].kind = "backend"
    /\ backend = "failed" \/ Ended(r)
    /\ phase' = [phase EXCEPT ![r] = "returned"]
    /\ UNCHANGED <<reader, stopped, inFlight, request, cancelled, backend, broken, historyVars>>

Return(r) ==
    /\ phase[r] = "working"
    /\ phase' = [phase EXCEPT ![r] = "returned"]
    /\ UNCHANGED <<reader, stopped, inFlight, request, cancelled, backend, broken, historyVars>>


\* A request whose context is over gets no answer.
CheckContext(r) ==
    /\ phase[r] = "returned"
    /\ phase' = [phase EXCEPT ![r] = IF Ended(r) THEN "finishing" ELSE "writing"]
    /\ UNCHANGED <<reader, stopped, inFlight, request, cancelled, backend, broken, historyVars>>

\* An answer that cannot be written is dropped.
Write(r) ==
    /\ phase[r] = "writing"
    /\ phase' = [phase EXCEPT ![r] = "finishing"]
    /\ answered' = IF broken THEN answered ELSE answered \cup {r}
    /\ UNCHANGED <<reader, stopped, inFlight, request, cancelled, backend, broken, received, late>>

\* (Mutation: the entry is removed whoever put it there.)
BugFinish(r) ==
    /\ phase[r] = "finishing"
    /\ inFlight' = [inFlight EXCEPT ![request[r].id] = Nobody]
    /\ phase' = [phase EXCEPT ![r] = "done"]
    /\ UNCHANGED <<reader, stopped, request, cancelled, backend, broken, historyVars>>

\* finishRequest takes only its own entry out.
Finish(r) ==
    /\ phase[r] = "finishing"
    /\ inFlight' = [i \in Ids |-> IF inFlight[i] = r THEN Nobody ELSE inFlight[i]]
    /\ phase' = [phase EXCEPT ![r] = "done"]
    /\ UNCHANGED <<reader, stopped, request, cancelled, backend, broken, historyVars>>

-----------------------------------------------------------------------------
(* The rest of the connector, and the client *)

\* Initialize has returned, at the latest with its timeout: backendOnce.
BackendStarted(outcome) ==
    /\ backend = "starting"
    /\ backend' = outcome
    /\ UNCHANGED <<reader, stopped, inFlight, request, phase, cancelled, broken, historyVars>>

\* watchRestartRequest, or a signal.
RequestStop ==
    /\ ~stopped /\ reader # Returned
    /\ stopped' = TRUE
    /\ UNCHANGED <<reader, inFlight, request, phase, cancelled, backend, broken, historyVars>>

\* The client closes its end of stdout, which it may do before it closes stdin.
OutputEnds ==
    /\ ~broken
    /\ broken' = TRUE
    /\ UNCHANGED <<reader, stopped, inFlight, request, phase, cancelled, backend, historyVars>>

Goroutine(r) == Begin(r) \/ Refuse(r) \/ Return(r) \/ CheckContext(r) \/ Write(r) \/ Finish(r)

Next ==
    \/ TakeLine \/ SkipLine \/ Cancel \/ EndOfInput \/ RequestStop \/ OutputEnds
    \/ \E r \in Requests, id \in Ids, kind \in Kinds : Accept(r, id, kind)
    \/ \E id \in Ids : FindCancelled(id)
    \/ \E outcome \in {"ready", "failed"} : BackendStarted(outcome)
    \/ \E r \in Requests : Goroutine(r)

Spec == Init /\ [][Next]_vars

\* Started goroutines run; a handler returns unless its tool needs the app-server,
\* which may take no more input, or a probe of another server, which may hang: a
\* cancellation does not end either.  The start of the app-server has a timeout.
\* The client takes what is written for it and need not do anything else.
FairSpec ==
    /\ Spec
    /\ WF_vars(\E outcome \in {"ready", "failed"} : BackendStarted(outcome))
    /\ WF_vars(Cancel)
    /\ \A r \in Requests :
        /\ WF_vars(Begin(r)) /\ WF_vars(Refuse(r)) /\ WF_vars(CheckContext(r))
        /\ WF_vars(Write(r)) /\ WF_vars(Finish(r))
        /\ WF_vars(request[r].kind # "backend" /\ Return(r))

-----------------------------------------------------------------------------
(* Properties *)

Newest(r) == \A q \in r+1..received : request[q].id # request[r].id

\* For every id the table holds the request that came last under it, from the
\* line to the end of its goroutine, and nothing else: a request that shares its
\* id with an older one can be cancelled although the older one has cleaned up.
TableIsExact == \A i \in Ids :
    /\ inFlight[i] # Nobody => phase[inFlight[i]] \in Live /\ request[inFlight[i]].id = i
    /\ \A r \in 1..received :
        request[r].id = i /\ Newest(r) /\ phase[r] # "done" => inFlight[i] = r

\* After the stop at most one line is still taken for a request, the one Serve
\* had in its hands, and the client gets no answer to it.
LateRequestIsDropped == Cardinality(late) <= 1 /\ late \cap answered = {}

\* RequestPromise, with cancellation taking effect at its look-up in the table:
\* of requests that share an id only the one that a cancellation found, and never
\* initialize, may lose its answer, but for a stop or the end of input or output.
open == {r \in Requests : phase[r] \in Undecided}
excused == {r \in open : r \in cancelled \/ (reader.pc = "cancelling" /\ reader.request = r)}

over == closing \/ broken

Promise == INSTANCE RequestPromise WITH closing <- over

RequestPromiseKept == Promise!Spec

\* Every request that needs no reply of the app-server is answered, unless it is
\* cancelled or the connector stops or cannot write; a backend that fails to start
\* answers too.  A cancelled request ends and leaves the table, also when it waits
\* for a backend that has not started, unless the connector ends before or its tool
\* never returns.
HangsIn(r) == [](phase[r] = "working" /\ request[r].kind = "backend")
=============================================================================
