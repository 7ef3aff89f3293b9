-------------------------------- MODULE EventLog --------------------------------
(***************************************************************************)
(* The event log: tool calls drop their events into two bounded queues, one *)
(* goroutine writes them to connector.jsonl, and the frontend, a process of *)
(* its own, follows the file (/events) and finds in it the commands it may  *)
(* kill (active_command_pids).  The viewer is there from the first line on. *)
(*                                                                          *)
(* The calls are native commands, each in a chat session of its own.  A     *)
(* line of the file is a place, not bytes: a byte offset of the frontend is *)
(* a number of lines, and the 5 MiB of the rotation are RotateAt lines.     *)
(***************************************************************************)
EXTENDS Naturals, Sequences, FiniteSets, SequencesExt

CONSTANTS
    Nothing,        \* no value yet
    Calls,          \* command_exec calls
    Streams,        \* stdout and stderr
    MaxChunks,      \* bound: chunks of output per command
    LifeCap,        \* capacity of Logger.queue
    StreamCap,      \* capacity of Logger.streamQueue
    BatchCap,       \* chunks that fit into the 64 KiB of a batch
    RotateAt,       \* the file is rotated at a start when it is longer
    Window,         \* the lines active_command_pids looks at
    MaxRestarts     \* bound: restarts of the connector

ASSUME CapsAssumption ==
    /\ {LifeCap, StreamCap, BatchCap, Window} \subseteq Nat \ {0}
    /\ {MaxChunks, RotateAt, MaxRestarts} \subseteq Nat
ASSUME FiniteAssumption == IsFiniteSet(Calls) /\ IsFiniteSet(Streams)

VARIABLES
    call,           \* handle of tools/call, per call
    ended,          \* the command is over: session.done is closed
    chunks,         \* chunks of output so far, per streamKey
    queue,          \* Logger.queue
    streamQueue,    \* Logger.streamQueue
    pending,        \* the batches of run, one per streamKey
    logger,         \* where the loop of run is
    dropped,        \* Logger.dropped
    journal,        \* connector.jsonl
    restarts,       \* connectors started after the first
    gone,           \* history: events a restart, a rotation or a failed write took
    overtaken,      \* history: texts taken while a lifecycle event waited
    viewer          \* one /events request: its position and what it has shown

callVars == <<call, ended, chunks>>
loggerVars == <<queue, streamQueue, pending, logger, dropped, journal, overtaken>>
logVars == <<callVars, loggerVars, restarts, gone, viewer>>

\* streamKey: one batch per command and stream.
Keys == Calls \X Streams
NoBatch == [texts |-> <<>>, count |-> 0]
Line(kind, k, texts, count) ==
    [kind |-> kind, call |-> k[1], stream |-> k[2], texts |-> texts, count |-> count]

\* A sum of naturals, counted unit by unit.
Units(f) == UNION {{x} \X (1..f[x]) : x \in DOMAIN f}
Total(f) == Cardinality(Units(f))

Texts == {t \in Seq(Nat \ {0}) : Len(t) <= BatchCap}
Life == {"started", "succeeded", "yielded"}
Lines == [kind : Life \cup {"stream", "dropped"}, call : Calls \cup {Nothing},
          stream : Streams \cup {Nothing}, texts : Texts, count : Nat \ {0}]

LogTypeOK ==
    /\ call \in [Calls -> {"new", "running", "yielded", "returned", "killed"}]
    /\ ended \in [Calls -> BOOLEAN] /\ chunks \in [Keys -> Nat]
    /\ queue \in Seq(Life \X Calls) /\ Len(queue) <= LifeCap
    /\ streamQueue \in Seq(Keys \X (Nat \ {0})) /\ Len(streamQueue) <= StreamCap
    /\ pending \in [Keys -> [texts : Texts, count : Nat]]
    /\ logger \in {"first", "select", "flush"}
    /\ {dropped, overtaken, gone} \subseteq Nat
    /\ journal \in Seq(Lines)
    /\ restarts \in 0..MaxRestarts
    /\ viewer \in [at : Nat, shown : Seq(Lines)]

LogInit ==
    /\ call = [c \in Calls |-> "new"] /\ ended = [c \in Calls |-> FALSE]
    /\ chunks = [k \in Keys |-> 0]
    /\ queue = <<>> /\ streamQueue = <<>> /\ pending = [k \in Keys |-> NoBatch]
    /\ logger = "first" /\ dropped = 0 /\ journal = <<>>
    /\ restarts = 0 /\ gone = 0 /\ overtaken = 0
    /\ viewer = [at |-> 0, shown |-> <<>>]

-----------------------------------------------------------------------------
(* Logger.Event, and the calls that use it *)

Refused == dropped' = dropped + 1

EmitLife(kind, c) ==
    /\ IF Len(queue) < LifeCap THEN queue' = Append(queue, <<kind, c>>) /\ dropped' = dropped
                               ELSE queue' = queue /\ Refused
    /\ UNCHANGED <<streamQueue, pending, logger, journal, overtaken>>

EmitStream(k, n) ==
    /\ IF Len(streamQueue) < StreamCap
       THEN streamQueue' = Append(streamQueue, <<k, n>>) /\ dropped' = dropped
       ELSE streamQueue' = streamQueue /\ Refused
    /\ UNCHANGED <<queue, pending, logger, journal, overtaken>>

Start(c) ==
    /\ call[c] = "new"
    /\ call' = [call EXCEPT ![c] = "running"]
    /\ EmitLife("started", c)
    /\ UNCHANGED <<ended, chunks, restarts, gone, viewer>>

\* A copier of the command passes a chunk on.
Output(k) ==
    /\ call[k[1]] \in {"running", "yielded"} /\ ~ended[k[1]]
    /\ Total([s \in Streams |-> chunks[<<k[1], s>>]]) < MaxChunks
    /\ chunks' = [chunks EXCEPT ![k] = @ + 1]
    /\ EmitStream(k, chunks[k] + 1)
    /\ UNCHANGED <<call, ended, restarts, gone, viewer>>

\* close(session.done); the Wait goroutine of a native command logs nothing.
End(c) ==
    /\ call[c] \in {"running", "yielded"} /\ ~ended[c]
    /\ ended' = [ended EXCEPT ![c] = TRUE]
    /\ UNCHANGED <<call, chunks, loggerVars, restarts, gone, viewer>>

\* The end of tools/call with the command over, well or not.
Succeed(c) ==
    /\ call[c] = "running" /\ ended[c]
    /\ call' = [call EXCEPT ![c] = "returned"]
    /\ EmitLife("succeeded", c)
    /\ UNCHANGED <<ended, chunks, restarts, gone, viewer>>

\* ... or with a snapshot that says "running"; the command may have ended since.
Yield(c) ==
    /\ call[c] = "running"
    /\ call' = [call EXCEPT ![c] = "yielded"]
    /\ EmitLife("yielded", c)
    /\ UNCHANGED <<ended, chunks, restarts, gone, viewer>>

-----------------------------------------------------------------------------
(* Logger.run *)

\* write, whose errors nobody looks at: the file that could not be opened, the
\* line that could not be written.
Put(line) ==
    \/ journal' = Append(journal, line) /\ gone' = gone
    \/ journal' = journal /\ gone' = gone + line.count

WriteHead ==
    /\ Put(Line(Head(queue)[1], <<Head(queue)[2], Nothing>>, <<>>, 1))
    /\ queue' = Tail(queue) /\ overtaken' = 0
    /\ UNCHANGED <<streamQueue, pending, dropped>>

\* (Mutation: one select for both queues.)
BugFirst ==
    /\ logger = "first" /\ logger' = "select"
    /\ UNCHANGED <<queue, streamQueue, pending, dropped, journal, overtaken, gone>>

\* The select with a default: lifecycle events before anything else.
First ==
    /\ logger = "first"
    /\ IF queue # <<>> THEN WriteHead /\ logger' = logger
       ELSE logger' = "select" /\ UNCHANGED <<queue, streamQueue, pending, dropped, journal, overtaken, gone>>

\* (Mutation: a batch has no limit.)
BugUncapped(batch, n) == [texts |-> Append(batch.texts, n), count |-> batch.count + 1]

\* queueStream: a full batch only counts what it cuts off.
Coalesce(batch, n) ==
    [texts |-> IF Len(batch.texts) < BatchCap THEN Append(batch.texts, n) ELSE batch.texts,
     count |-> batch.count + 1]

TakeStream ==
    LET k == Head(streamQueue)[1] IN
    /\ streamQueue # <<>>
    /\ pending' = [pending EXCEPT ![k] = Coalesce(@, Head(streamQueue)[2])]
    /\ streamQueue' = Tail(streamQueue)
    /\ overtaken' = IF queue # <<>> THEN overtaken + 1 ELSE overtaken
    /\ logger' = "first"
    /\ UNCHANGED <<queue, dropped, journal, gone>>

SelectLife == logger = "select" /\ queue # <<>> /\ logger' = "first" /\ WriteHead
SelectStream == logger = "select" /\ TakeStream
SelectTick ==
    /\ logger = "select" /\ logger' = "flush"
    /\ UNCHANGED <<queue, streamQueue, pending, dropped, journal, overtaken, gone>>

\* (Mutation: a batch of one chunk is not written.)
BugFlushed(k) == pending[k].count > 1
Flushed(k) == pending[k].count > 0

\* flushStreams, in the order of a Go map.
FlushOne ==
    /\ logger = "flush"
    /\ \E k \in Keys :
        /\ Flushed(k)
        /\ Put(Line("stream", k, pending[k].texts, pending[k].count))
        /\ pending' = [pending EXCEPT ![k] = NoBatch]
    /\ UNCHANGED <<queue, streamQueue, logger, dropped, overtaken>>

PutDropped ==
    IF dropped = 0 THEN UNCHANGED <<journal, gone>>
                   ELSE Put(Line("dropped", <<Nothing, Nothing>>, <<>>, dropped))

\* (Mutation: Load instead of Swap.)
BugReport ==
    /\ logger = "flush" /\ \A k \in Keys : ~Flushed(k)
    /\ PutDropped
    /\ logger' = "first"
    /\ UNCHANGED <<queue, streamQueue, pending, dropped, overtaken>>

\* dropped.Swap(0), after the batches, and before the line that may be lost.
Report ==
    /\ logger = "flush" /\ \A k \in Keys : ~Flushed(k)
    /\ PutDropped
    /\ dropped' = 0 /\ logger' = "first"
    /\ UNCHANGED <<queue, streamQueue, pending, overtaken>>

Logging(step) == step /\ UNCHANGED <<callVars, restarts, viewer>>

-----------------------------------------------------------------------------
(* A new connector *)

Counted(lines) == Total([i \in DOMAIN lines |-> lines[i].count])
Batched == Total([k \in Keys |-> pending[k].count])
OnTheWay == Len(queue) + Len(streamQueue) + dropped + Batched

\* The old one takes its queues, batches and commands with it; New rotates, unless
\* the file cannot be renamed.
NewConnector ==
    /\ restarts < MaxRestarts
    /\ restarts' = restarts + 1
    /\ call' = [c \in Calls |-> CASE call[c] = "running" -> "killed"
                                   [] call[c] = "yielded" -> "returned"
                                   [] OTHER -> call[c]]
    /\ ended' = [c \in Calls |-> call[c] # "new"]
    /\ queue' = <<>> /\ streamQueue' = <<>> /\ pending' = [k \in Keys |-> NoBatch]
    /\ dropped' = 0 /\ logger' = "first" /\ overtaken' = 0
    /\ \/ journal' = journal /\ gone' = gone + OnTheWay
       \/ /\ Len(journal) > RotateAt
          /\ journal' = <<>> /\ gone' = gone + OnTheWay + Counted(journal)
    /\ UNCHANGED <<chunks, viewer>>

-----------------------------------------------------------------------------
(* The frontend *)

From == IF Len(journal) < viewer.at THEN 0 ELSE viewer.at

\* (Mutation: the position stays where the reading began.)
BugFollow ==
    /\ viewer.at # Len(journal)
    /\ viewer' = [at |-> From, shown |-> viewer.shown \o SubSeq(journal, From + 1, Len(journal))]
    /\ UNCHANGED <<callVars, loggerVars, restarts, gone>>

\* One round of /events.
Follow ==
    /\ viewer.at # Len(journal)
    /\ viewer' = [at |-> IF Len(journal) > From THEN Len(journal) ELSE From,
                  shown |-> viewer.shown \o SubSeq(journal, From + 1, Len(journal))]
    /\ UNCHANGED <<callVars, loggerVars, restarts, gone>>

\* active_command_pids: yielded, and no end in the lines it looks at.
ActiveCommands == {c \in Calls : \E i \in DOMAIN journal :
    /\ i + Window > Len(journal) /\ journal[i].kind = "yielded" /\ journal[i].call = c
    /\ \A j \in i+1..Len(journal) : ~(journal[j].kind = "succeeded" /\ journal[j].call = c)}

-----------------------------------------------------------------------------
Loop == \/ Logging(First) \/ Logging(SelectLife) \/ Logging(SelectStream)
        \/ Logging(SelectTick) \/ Logging(FlushOne) \/ Logging(Report)

LogNext ==
    \/ \E k \in Keys : Output(k)
    \/ \E c \in Calls : Start(c) \/ End(c) \/ Succeed(c) \/ Yield(c)
    \/ Loop \/ NewConnector \/ Follow

LogSpec == LogInit /\ [][LogNext]_logVars

\* The goroutine of the logger runs, and select takes each of its ready cases
\* again and again; the viewer polls.
LogFairSpec ==
    /\ LogSpec
    /\ WF_logVars(Loop) /\ SF_logVars(Logging(SelectStream)) /\ SF_logVars(Logging(SelectTick))
    /\ WF_logVars(Follow)

-----------------------------------------------------------------------------
(* Properties *)

LifeEvents == [c \in Calls |-> CASE call[c] = "new" -> 0
                                 [] call[c] \in {"running", "killed"} -> 1
                                 [] OTHER -> 2]
Produced == Total(chunks) + Total(LifeEvents)

\* Every event is in the file, on its way there, or in a count: that of the drops,
\* which a line will report or has reported, or that of a batch, which goes on
\* when the batch is full.  Only a restart, a rotation and a write that failed take
\* any away, the last one exactly what its line stood for.
NothingVanishes == Produced = Counted(journal) + OnTheWay + gone

\* While a lifecycle event waits the logger takes at most one more piece of
\* output out of its queue, whatever a terminal floods it with.  (It may write the
\* batches it has, if the tick comes first.)
FloodOvertakesOnce == overtaken <= 1

\* Of a call, a viewer is shown the start before the end, and of each of its two
\* streams the pieces in the order in which they came, each once: across
\* coalescing, drops, failed writes, restarts and rotations.  (Output may follow
\* the end of its call, and the two streams have no order between them.)
Rising(texts) == \A m, n \in DOMAIN texts : m < n => texts[m] < texts[n]
InOrder(x, y) ==
    /\ x.call = y.call /\ {x.kind, y.kind} \subseteq Life => x.kind = "started" /\ y.kind # "started"
    /\ <<x.call, x.stream>> = <<y.call, y.stream>> =>
         \A m \in DOMAIN x.texts, n \in DOMAIN y.texts : x.texts[m] < y.texts[n]
ViewerShowsInOrder ==
    /\ \A i \in DOMAIN viewer.shown : Rising(viewer.shown[i].texts)
    /\ \A i, j \in DOMAIN viewer.shown : i < j => InOrder(viewer.shown[i], viewer.shown[j])

\* An event that has its place in a queue comes to be written, output through its
\* batch, or counted by a full one, unless the connector ends first.
LifeWaits(kind, c) == <<kind, c>> \in ToSet(queue)
TextWaits(k) == pending[k].count > 0 \/ \E i \in DOMAIN streamQueue : streamQueue[i][1] = k
QueuesDrain ==
    /\ \A kind \in Life, c \in Calls : LifeWaits(kind, c) ~> ~LifeWaits(kind, c)
    /\ \A k \in Keys : TextWaits(k) ~> ~TextWaits(k)

\* The process whose PID POST /process-terminate accepts is one the connector
\* manages: a command that has ended is forgotten.
EndedCommandIsForgotten == \A c \in Calls : ended[c] ~> c \notin ActiveCommands
=============================================================================
