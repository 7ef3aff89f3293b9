---------------------------- MODULE AppServerClient ----------------------------
(***************************************************************************)
(* The JSONL client of the Codex app-server: concurrent Requests share one  *)
(* stdin under writeMu, one readLoop correlates replies with requests by    *)
(* id, hands notifications to the stream registry and answers the           *)
(* app-server's own requests, and a goroutine in cmd.Wait fails what is     *)
(* pending when the process is gone.                                        *)
(*                                                                          *)
(* The app-server is the environment: it reads requests, streams output of  *)
(* a command before it replies, replies once to each request, asks the      *)
(* client, and may exit at any time.  Its reading does not wait for its     *)
(* writing.                                                                 *)
(***************************************************************************)
EXTENDS Naturals, Sequences, FiniteSets

CONSTANTS
    Calls,          \* calls of Client.Request
    Nobody,         \* no call
    InCapacity,     \* bound: messages its stdin pipe holds
    OutCapacity,    \* bound: messages its stdout pipe holds
    MaxChunks,      \* bound: output notifications per call
    MaxAsks         \* bound: requests the app-server sends

ASSUME BoundsAssumption ==
    /\ IsFiniteSet(Calls) /\ Nobody \notin Calls
    /\ {InCapacity, OutCapacity} \subseteq Nat \ {0} /\ MaxChunks \in Nat /\ MaxAsks \in Nat

VARIABLES
    server,         \* the app-server process
    in, out,        \* its stdin and stdout pipes
    work,           \* requests it has read and not replied to
    asks,           \* requests it has sent
    emitted,        \* output notifications it has sent for each call
    nextID, pending,\* Client.nextID and Client.pending
    writeMu,        \* who holds Client.writeMu
    stdinClosed, stdoutClosed, done,
    call,           \* the requests
    ch,             \* their response channels, of one slot
    reader,         \* readLoop
    waiter,         \* the goroutine in cmd.Wait
    handled         \* output notifications given to the stream registry

serverVars == <<server, work, asks, emitted>>
pipeVars == <<in, out>>
tableVars == <<nextID, pending>>
closeVars == <<stdinClosed, stdoutClosed, done>>
vars == <<serverVars, pipeVars, tableVars, writeMu, closeVars, call, ch, reader, waiter, handled>>

Ids == 1..Cardinality(Calls)
Requests == [kind : {"request"}, id : Ids, call : Calls]
Replies == [kind : {"reply"}, id : Ids, call : Calls]
Answer == [kind |-> "answer"]
Messages == Replies \cup [kind : {"chunk"}, call : Calls] \cup {[kind |-> "ask"], [kind |-> "oversized"]}
Empty == [kind |-> "empty"]
Failed == [kind |-> "error"]
Fresh == [pc |-> "idle", id |-> 0, outcome |-> Empty]
Scanning == [pc |-> "scanning"]

TypeOK ==
    /\ server \in {"running", "exited"}
    /\ in \in Seq(Requests \cup {Answer}) /\ Len(in) <= InCapacity
    /\ out \in Seq(Messages) /\ Len(out) <= OutCapacity
    /\ work \in SUBSET Requests
    /\ asks \in 0..MaxAsks /\ emitted \in [Calls -> 0..MaxChunks] /\ handled \in [Calls -> 0..MaxChunks]
    /\ nextID \in 0..Cardinality(Calls) /\ pending \in [Ids -> Calls \cup {Nobody}]
    /\ writeMu \in Calls \cup {"reader", "free"}
    /\ stdinClosed \in BOOLEAN /\ stdoutClosed \in BOOLEAN /\ done \in BOOLEAN
    /\ call \in [Calls -> [pc : {"idle", "registered", "writing", "waiting", "returned"},
                           id : Ids \cup {0}, outcome : {Empty, Failed} \cup Replies]]
    /\ ch \in [Calls -> {Empty, Failed} \cup Replies]
    /\ reader \in {Scanning, [pc |-> "asked"], [pc |-> "answering"], [pc |-> "stopped"]}
                  \cup [pc : {"delivering"}, to : Calls, reply : Replies]
    /\ waiter \in {"waiting", "failing", "closing", "finished"}

Init ==
    /\ server = "running"
    /\ in = <<>> /\ out = <<>> /\ work = {} /\ asks = 0
    /\ emitted = [c \in Calls |-> 0] /\ handled = [c \in Calls |-> 0]
    /\ nextID = 0 /\ pending = [i \in Ids |-> Nobody]
    /\ writeMu = "free"
    /\ stdinClosed = FALSE /\ stdoutClosed = FALSE /\ done = FALSE
    /\ call = [c \in Calls |-> Fresh] /\ ch = [c \in Calls |-> Empty]
    /\ reader = Scanning /\ waiter = "waiting"

-----------------------------------------------------------------------------
(* Client.Request *)

\* (Mutation: the identifier is read, not taken.)
BugRegister(c) ==
    /\ call[c].pc = "idle"
    /\ nextID' = 1
    /\ pending' = [pending EXCEPT ![nextID'] = c]
    /\ call' = [call EXCEPT ![c] = [@ EXCEPT !.pc = "registered", !.id = nextID']]
    /\ UNCHANGED <<serverVars, pipeVars, writeMu, closeVars, ch, reader, waiter, handled>>

\* A fresh id, and the channel in the table before anything is written.
Register(c) ==
    /\ call[c].pc = "idle"
    /\ nextID' = nextID + 1
    /\ pending' = [pending EXCEPT ![nextID'] = c]
    /\ call' = [call EXCEPT ![c] = [@ EXCEPT !.pc = "registered", !.id = nextID']]
    /\ UNCHANGED <<serverVars, pipeVars, writeMu, closeVars, ch, reader, waiter, handled>>

Lock(c) ==
    /\ call[c].pc = "registered" /\ writeMu = "free"
    /\ writeMu' = c
    /\ call' = [call EXCEPT ![c].pc = "writing"]
    /\ UNCHANGED <<serverVars, pipeVars, tableVars, closeVars, ch, reader, waiter, handled>>

\* The call returns; the deferred function takes its entry out of the table.
Return(c, outcome) ==
    /\ call' = [call EXCEPT ![c] = [@ EXCEPT !.pc = "returned", !.outcome = outcome]]
    /\ pending' = [pending EXCEPT ![call[c].id] = Nobody]

\* The write blocks while the pipe is full.
Write(c) ==
    /\ call[c].pc = "writing" /\ server = "running" /\ ~stdinClosed
    /\ Len(in) < InCapacity
    /\ in' = Append(in, [kind |-> "request", id |-> call[c].id, call |-> c])
    /\ writeMu' = "free"
    /\ call' = [call EXCEPT ![c].pc = "waiting"]
    /\ UNCHANGED <<serverVars, out, tableVars, closeVars, ch, reader, waiter, handled>>

\* stdin is closed, or the process at its other end is gone.
WriteFails(c) ==
    /\ call[c].pc = "writing" /\ (server = "exited" \/ stdinClosed)
    /\ writeMu' = "free"
    /\ Return(c, Failed)
    /\ UNCHANGED <<serverVars, pipeVars, nextID, closeVars, ch, reader, waiter, handled>>

Receive(c) ==
    /\ call[c].pc = "waiting" /\ ch[c] # Empty
    /\ ch' = [ch EXCEPT ![c] = Empty]
    /\ Return(c, ch[c])
    /\ UNCHANGED <<serverVars, pipeVars, nextID, writeMu, closeVars, reader, waiter, handled>>

\* done is closed; select may take this branch though a reply is there too.
SeeDone(c) ==
    /\ call[c].pc = "waiting" /\ done
    /\ Return(c, Failed)
    /\ UNCHANGED <<serverVars, pipeVars, nextID, writeMu, closeVars, ch, reader, waiter, handled>>

\* ctx is cancelled; a reply may still come.
Cancel(c) ==
    /\ call[c].pc = "waiting"
    /\ Return(c, Failed)
    /\ UNCHANGED <<serverVars, pipeVars, nextID, writeMu, closeVars, ch, reader, waiter, handled>>

-----------------------------------------------------------------------------
(* readLoop *)

\* failAll: every pending channel with a free slot gets the error.
FailAll ==
    /\ ch' = [c \in Calls |-> IF (\E i \in Ids : pending[i] = c) /\ ch[c] = Empty THEN Failed ELSE ch[c]]
    /\ pending' = [i \in Ids |-> Nobody]

Reading == reader = Scanning /\ out # <<>>

\* A reply: the channel is looked up under mu, the send comes after.
ReadReply ==
    /\ Reading /\ Head(out).kind = "reply"
    /\ out' = Tail(out)
    /\ LET to == pending[Head(out).id]
       IN reader' = IF to = Nobody THEN Scanning
                    ELSE [pc |-> "delivering", to |-> to, reply |-> Head(out)]
    /\ UNCHANGED <<serverVars, in, tableVars, writeMu, closeVars, call, ch, waiter, handled>>

\* The send needs a free slot, not a receiver.
Deliver ==
    /\ reader.pc = "delivering" /\ ch[reader.to] = Empty
    /\ ch' = [ch EXCEPT ![reader.to] = reader.reply]
    /\ reader' = Scanning
    /\ UNCHANGED <<serverVars, pipeVars, tableVars, writeMu, closeVars, call, waiter, handled>>

\* (Mutation: notifications are handled by a goroutine that comes too late.)
BugReadChunk ==
    /\ Reading /\ Head(out).kind = "chunk"
    /\ out' = Tail(out)
    /\ UNCHANGED <<serverVars, in, tableVars, writeMu, closeVars, call, ch, reader, waiter, handled>>

\* (Mutation: a second handler sees the notification too.)
BugReadChunkTwice ==
    /\ Reading /\ Head(out).kind = "chunk"
    /\ out' = Tail(out)
    /\ handled' = [handled EXCEPT ![Head(out).call] = @ + 2]
    /\ UNCHANGED <<serverVars, in, tableVars, writeMu, closeVars, call, ch, reader, waiter>>

\* A notification: the stream registry stores the output before the next line.
ReadChunk ==
    /\ Reading /\ Head(out).kind = "chunk"
    /\ out' = Tail(out)
    /\ handled' = [handled EXCEPT ![Head(out).call] = @ + 1]
    /\ UNCHANGED <<serverVars, in, tableVars, writeMu, closeVars, call, ch, reader, waiter>>

\* A request of the app-server: its answer goes through writeMu too.
ReadAsk ==
    /\ Reading /\ Head(out).kind = "ask"
    /\ out' = Tail(out)
    /\ reader' = [pc |-> "asked"]
    /\ UNCHANGED <<serverVars, in, tableVars, writeMu, closeVars, call, ch, waiter, handled>>

LockAnswer ==
    /\ reader.pc = "asked" /\ writeMu = "free"
    /\ writeMu' = "reader"
    /\ reader' = [pc |-> "answering"]
    /\ UNCHANGED <<serverVars, pipeVars, tableVars, closeVars, call, ch, waiter, handled>>

\* The answer is written, or the write fails and the error is ignored.
WriteAnswer ==
    /\ reader.pc = "answering"
    /\ IF server = "exited" \/ stdinClosed THEN UNCHANGED in
       ELSE Len(in) < InCapacity /\ in' = Append(in, Answer)
    /\ writeMu' = "free"
    /\ reader' = Scanning
    /\ UNCHANGED <<serverVars, out, tableVars, closeVars, call, ch, waiter, handled>>

\* (Mutation: the loop ends and leaves what is pending to the Wait goroutine.)
BugReaderFails ==
    /\ \/ Reading /\ Head(out).kind = "oversized"
       \/ reader = Scanning /\ stdoutClosed
    /\ reader' = [pc |-> "stopped"]
    /\ UNCHANGED <<serverVars, pipeVars, tableVars, writeMu, closeVars, call, ch, waiter, handled>>

\* A line above the scanner's 16 MiB, or stdout closed under the scanner: the
\* loop ends and fails what is pending.  done stays open.
ReaderFails ==
    /\ \/ Reading /\ Head(out).kind = "oversized"
       \/ reader = Scanning /\ stdoutClosed
    /\ reader' = [pc |-> "stopped"]
    /\ FailAll
    /\ UNCHANGED <<serverVars, pipeVars, nextID, writeMu, closeVars, call, waiter, handled>>

\* The end of the file is no error.
ReaderEnds ==
    /\ reader = Scanning /\ out = <<>> /\ server = "exited"
    /\ reader' = [pc |-> "stopped"]
    /\ UNCHANGED <<serverVars, pipeVars, tableVars, writeMu, closeVars, call, ch, waiter, handled>>

-----------------------------------------------------------------------------
(* The goroutine in cmd.Wait, and Close. *)

\* cmd.Wait returns and has closed the pipes, whatever is still unread.
WaitReturns ==
    /\ waiter = "waiting" /\ server = "exited"
    /\ stdinClosed' = TRUE /\ stdoutClosed' = TRUE
    /\ waiter' = "failing"
    /\ UNCHANGED <<serverVars, pipeVars, tableVars, writeMu, done, call, ch, reader, handled>>

FailPending ==
    /\ waiter = "failing"
    /\ FailAll
    /\ waiter' = "closing"
    /\ UNCHANGED <<serverVars, pipeVars, nextID, writeMu, closeVars, call, reader, handled>>

CloseDone ==
    /\ waiter = "closing"
    /\ done' = TRUE
    /\ waiter' = "finished"
    /\ UNCHANGED <<serverVars, pipeVars, tableVars, writeMu, stdinClosed, stdoutClosed, call, ch, reader, handled>>

\* Client.Close: done first, then stdin, then the process is killed.
Close ==
    /\ done' = TRUE /\ stdinClosed' = TRUE
    /\ server' = "exited"
    /\ UNCHANGED <<work, asks, emitted, pipeVars, tableVars, writeMu, stdoutClosed, call, ch, reader, waiter, handled>>

-----------------------------------------------------------------------------
(* The app-server. *)

ServerReads ==
    /\ server = "running" /\ in # <<>>
    /\ in' = Tail(in)
    /\ work' = IF Head(in) = Answer THEN work ELSE work \cup {Head(in)}
    /\ UNCHANGED <<server, asks, emitted, out, tableVars, writeMu, closeVars, call, ch, reader, waiter, handled>>

Send(m) == server = "running" /\ Len(out) < OutCapacity /\ out' = Append(out, m)

ServerReplies(q) ==
    /\ Send([kind |-> "reply", id |-> q.id, call |-> q.call])
    /\ work' = work \ {q}
    /\ UNCHANGED <<server, asks, emitted, in, tableVars, writeMu, closeVars, call, ch, reader, waiter, handled>>

ServerStreams(q) ==
    /\ emitted[q.call] < MaxChunks
    /\ Send([kind |-> "chunk", call |-> q.call])
    /\ emitted' = [emitted EXCEPT ![q.call] = @ + 1]
    /\ UNCHANGED <<server, work, asks, in, tableVars, writeMu, closeVars, call, ch, reader, waiter, handled>>

ServerAsks ==
    /\ asks < MaxAsks
    /\ Send([kind |-> "ask"])
    /\ asks' = asks + 1
    /\ UNCHANGED <<server, work, emitted, in, tableVars, writeMu, closeVars, call, ch, reader, waiter, handled>>

\* A reply of more than 16 MiB, such as the content of a large file.
ServerRepliesTooMuch(q) ==
    /\ Send([kind |-> "oversized"])
    /\ work' = work \ {q}
    /\ UNCHANGED <<server, asks, emitted, in, tableVars, writeMu, closeVars, call, ch, reader, waiter, handled>>

ServerExits ==
    /\ server = "running"
    /\ server' = "exited"
    /\ UNCHANGED <<work, asks, emitted, pipeVars, tableVars, writeMu, closeVars, call, ch, reader, waiter, handled>>

-----------------------------------------------------------------------------
Request(c) == \/ Register(c) \/ Lock(c) \/ Write(c) \/ WriteFails(c)
              \/ Receive(c) \/ SeeDone(c) \/ Cancel(c)
ReadLoop == \/ ReadReply \/ Deliver \/ ReadChunk \/ ReadAsk \/ LockAnswer \/ WriteAnswer
            \/ ReaderFails \/ ReaderEnds
Wait == WaitReturns \/ FailPending \/ CloseDone
Server == \/ \E q \in work : ServerReplies(q) \/ ServerStreams(q) \/ ServerRepliesTooMuch(q)
          \/ ServerReads \/ ServerAsks \/ ServerExits

Next == (\E c \in Calls : Request(c)) \/ ReadLoop \/ Wait \/ Close \/ Server

Spec == Init /\ [][Next]_vars

\* Goroutines run and the app-server goes on reading its stdin; it need never
\* reply, and no context need ever be cancelled.
FairSpec ==
    /\ Spec
    /\ \A c \in Calls : /\ SF_vars(Lock(c)) /\ WF_vars(Write(c) \/ WriteFails(c))
                        /\ WF_vars(Receive(c) \/ SeeDone(c))
    /\ SF_vars(LockAnswer) /\ WF_vars(ReadLoop) /\ WF_vars(Wait) /\ WF_vars(ServerReads)

\* Every context has a deadline, and the app-server may hang: it is alive and
\* no longer reads.
HungSpec ==
    /\ Spec
    /\ \A c \in Calls : /\ SF_vars(Lock(c)) /\ WF_vars(Write(c) \/ WriteFails(c))
                        /\ WF_vars(Receive(c) \/ SeeDone(c)) /\ WF_vars(Cancel(c))
    /\ SF_vars(LockAnswer) /\ WF_vars(ReadLoop) /\ WF_vars(Wait)

-----------------------------------------------------------------------------
(* Properties. *)

InFlight(c) == call[c].pc \notin {"idle", "returned"}

\* A result a caller gets is the reply to its own request, also when replies
\* come in another order than the requests went out.
OwnReply ==
    \A c \in Calls : call[c].outcome.kind = "reply" => call[c].outcome.call = c

\* The table holds nothing but the requests in flight: a reply that comes
\* after its caller gave up finds nobody and leaves nothing behind.
PendingIsInFlight ==
    \A i \in Ids : pending[i] # Nobody => InFlight(pending[i]) /\ call[pending[i]].id = i

\* When command/exec returns its result, every piece of output the app-server
\* sent before it has been stored: the last poll misses none of it.
OutputBeforeResult ==
    \A c \in Calls : call[c].outcome.kind = "reply" => handled[c] = emitted[c]

\* While readLoop runs, a request whose reply is in the pipe returns, whatever
\* the others do: they give up, the app-server's own requests compete for
\* stdin, or an oversized line ahead of the reply ends the loop.  When the
\* app-server is gone, every request in flight returns, also one that registers
\* between failAll and the closing of done.
CallsReturn ==
    \A c \in Calls :
        /\ (/\ \E i \in 1..Len(out) : out[i].kind = "reply" /\ out[i].call = c
            /\ reader.pc # "stopped")
               ~> call[c].pc = "returned"
        /\ InFlight(c) /\ server = "exited" ~> call[c].pc = "returned"

\* supervisor.go bounds its request "so a dead backend cannot wedge the control
\* request forever".  Violated: the context is only looked at once the request
\* is written, and with a full pipe it waits for writeMu or the write for ever.
BoundedCallReturns ==
    \A c \in Calls : InFlight(c) ~> call[c].pc = "returned"
=============================================================================
