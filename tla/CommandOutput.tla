----------------------------- MODULE CommandOutput -----------------------------
(***************************************************************************)
(* The output of one native command, from the process to the client: the    *)
(* two copier goroutines of os/exec call commandSessionWriter.Write, the    *)
(* command_exec call answers with everything stored so far, and             *)
(* command_poll, command_write and command_terminate answer with what is    *)
(* new.  The requests run concurrently; each section under session.mu is    *)
(* one step.  Byte i of a stream is the number i.                           *)
(***************************************************************************)
EXTENDS Naturals, Sequences, FiniteSets

CONSTANTS
    Callers,        \* concurrent MCP requests for this command
    OutputCap,      \* session.outputCap; 0 (or less, in the code) is no cap
    MaxBytes,       \* bound: bytes the process writes to each stream
    MaxChunk        \* bound: bytes one Write is given

ASSUME BoundsAssumption == OutputCap \in Nat /\ MaxBytes \in Nat /\ MaxChunk \in Nat \ {0}

Streams == {"stdout", "stderr"}

VARIABLES
    produced,       \* bytes written to each pipe
    exited,         \* every holder of the pipes is gone
    copied,         \* bytes the copiers have passed to Write
    buf,            \* session.stdout and session.stderr
    outputBytes,    \* session.outputBytes
    capReached,     \* session.capReached
    waiter,         \* the Wait goroutine
    failed,         \* session.err is set
    readTo,         \* session.stdoutRead and session.stderrRead
    call,           \* the requests
    polled,         \* history: the deltas, in the order they were taken
    answered,       \* history: the bytes in answers the client received
    abandoned,      \* history: the bytes in answers that were dropped
    withheld        \* history: the bytes a termination took and did not answer with

processVars == <<produced, exited>>
writeVars == <<copied, buf, outputBytes, capReached>>
waitVars == <<waiter, failed>>
clientVars == <<polled, answered, abandoned, withheld>>
vars == <<processVars, writeVars, waitVars, readTo, call, clientVars>>

Statuses == {"running", "completed", "failed"}
Idle == [pc |-> "idle"]
Kinds == {"exec", "poll", "terminate"}
Text == [Streams -> Seq(Nat)]
Calls == {Idle} \cup [pc : {"yielding"}, kind : Kinds]
         \cup [pc : {"answering"}, kind : Kinds, text : Text, status : Statuses]

TypeOK ==
    /\ produced \in [Streams -> Nat] /\ exited \in BOOLEAN
    /\ copied \in [Streams -> Nat]
    /\ buf \in Text
    /\ outputBytes \in Nat /\ capReached \in BOOLEAN
    /\ waiter \in {"waiting", "restoring", "closing", "done"} /\ failed \in BOOLEAN
    /\ readTo \in [Streams -> Nat]
    /\ call \in [Callers -> Calls]
    /\ polled \in Text
    /\ answered \in [Streams -> SUBSET Nat] /\ abandoned \in [Streams -> SUBSET Nat]
    /\ withheld \in [Streams -> SUBSET Nat]

Init ==
    /\ produced = [s \in Streams |-> 0] /\ exited = FALSE
    /\ copied = [s \in Streams |-> 0]
    /\ buf = [s \in Streams |-> <<>>]
    /\ outputBytes = 0 /\ capReached = FALSE
    /\ waiter = "waiting" /\ failed = FALSE
    /\ readTo = [s \in Streams |-> 0]
    /\ \E c \in Callers : call = [d \in Callers |-> IF d = c THEN [pc |-> "yielding", kind |-> "exec"]
                                                             ELSE Idle]
    /\ polled = [s \in Streams |-> <<>>]
    /\ answered = [s \in Streams |-> {}] /\ abandoned = [s \in Streams |-> {}]
    /\ withheld = [s \in Streams |-> {}]

-----------------------------------------------------------------------------
(* The process. *)

Produce(s) ==
    /\ ~exited /\ produced[s] < MaxBytes
    /\ produced' = [produced EXCEPT ![s] = @ + 1]
    /\ UNCHANGED <<exited, writeVars, waitVars, readTo, call, clientVars>>

ProcessExits ==
    /\ ~exited
    /\ exited' = TRUE
    /\ UNCHANGED <<produced, writeVars, waitVars, readTo, call, clientVars>>

-----------------------------------------------------------------------------
(* commandSessionWriter.Write *)

Size(s) == Len(buf[s])
Stored == Size("stdout") + Size("stderr")
Remaining == IF OutputCap > Stored THEN OutputCap - Stored ELSE 0

\* (Mutation: the cap looks at the stream that is written.)
BugFits(s, n) == IF OutputCap = 0 THEN n
                 ELSE LET room == IF OutputCap > Size(s) THEN OutputCap - Size(s) ELSE 0
                      IN IF n <= room THEN n ELSE room

\* How many of n bytes for stream s are stored.
Fits(s, n) == IF OutputCap = 0 \/ n <= Remaining THEN n ELSE Remaining

\* The first m of the next n bytes of a stream.
Chunk(s, n, m) == [i \in 1..m |-> copied[s] + i]

Write(s) ==
    \E n \in 1..MaxChunk :
        /\ copied[s] + n <= produced[s]
        /\ copied' = [copied EXCEPT ![s] = @ + n]
        /\ outputBytes' = outputBytes + n
        /\ buf' = [buf EXCEPT ![s] = @ \o Chunk(s, n, Fits(s, n))]
        /\ capReached' = (capReached \/ Fits(s, n) < n)
        /\ UNCHANGED <<processVars, waitVars, readTo, call, clientVars>>

-----------------------------------------------------------------------------
(* The Wait goroutine. *)

\* (Mutation: Wait does not join the copiers.)
BugWaitReturns ==
    /\ waiter = "waiting" /\ exited
    /\ waiter' = "restoring"
    /\ UNCHANGED <<processVars, writeVars, failed, readTo, call, clientVars>>

\* command.Wait returns when the process is gone and both copiers saw its end.
WaitReturns ==
    /\ waiter = "waiting" /\ exited
    /\ copied = produced
    /\ waiter' = "restoring"
    /\ UNCHANGED <<processVars, writeVars, failed, readTo, call, clientVars>>

\* result and err are stored under session.mu: a bad exit code, or a text file
\* that validateAndRestoreTextTargets had to restore, is an error.
Publish ==
    /\ waiter = "restoring"
    /\ waiter' = "closing"
    /\ failed' \in BOOLEAN
    /\ UNCHANGED <<processVars, writeVars, readTo, call, clientVars>>

CloseDone ==
    /\ waiter = "closing"
    /\ waiter' = "done"
    /\ UNCHANGED <<processVars, writeVars, failed, readTo, call, clientVars>>

-----------------------------------------------------------------------------
(* The requests. *)

Status == IF failed THEN "failed" ELSE IF waiter = "done" THEN "completed" ELSE "running"

\* (Mutation: the offset forgets one of the two streams.)
BugNewOffsets == [readTo EXCEPT !["stdout"] = Size("stdout")]

NewOffsets == [s \in Streams |-> Size(s)]

\* (Mutation: the slice begins one byte late.)
BugDelta(s) == SubSeq(buf[s], IF readTo[s] = 0 THEN 1 ELSE readTo[s] + 2, Size(s))

Delta(s) == SubSeq(buf[s], readTo[s] + 1, Size(s))

\* A request to take what is new: command_poll (command_write reaches its
\* snapshot by other waits), or command_terminate, which has sent its kill.
TakerBegins(c) ==
    /\ call[c] = Idle
    /\ \E k \in {"poll", "terminate"} : call' = [call EXCEPT ![c] = [pc |-> "yielding", kind |-> k]]
    /\ UNCHANGED <<processVars, writeVars, waitVars, readTo, clientVars>>

\* sessionSnapshot(session, false): everything, the offsets stay.
ExecSnapshot(c) ==
    /\ call[c].pc = "yielding" /\ call[c].kind = "exec"
    /\ call' = [call EXCEPT ![c] = [pc |-> "answering", kind |-> "exec", text |-> buf, status |-> Status]]
    /\ UNCHANGED <<processVars, writeVars, waitVars, readTo, clientVars>>

Bytes(q) == {q[i] : i \in DOMAIN q}

\* sessionSnapshot(session, true): what is new, and the offsets move.
Take ==
    /\ polled' = [s \in Streams |-> polled[s] \o Delta(s)]
    /\ readTo' = NewOffsets

\* A poll returns when done is closed or by its yield time.
PollSnapshot(c) ==
    /\ call[c].pc = "yielding"
    /\ call[c].kind = "poll" \/ (call[c].kind = "terminate" /\ waiter = "done")
    /\ call' = [call EXCEPT ![c] = [pc |-> "answering", kind |-> @.kind,
                                    text |-> [s \in Streams |-> Delta(s)], status |-> Status]]
    /\ Take
    /\ UNCHANGED <<processVars, writeVars, waitVars, answered, abandoned, withheld>>

\* A termination that fails, or does not see done within five seconds, takes
\* what is new like any other, and callTool answers with the error alone.
TerminateFails(c) ==
    /\ call[c].pc = "yielding" /\ call[c].kind = "terminate"
    /\ call' = [call EXCEPT ![c] = Idle]
    /\ Take
    /\ withheld' = [s \in Streams |-> withheld[s] \cup Bytes(Delta(s))]
    /\ UNCHANGED <<processVars, writeVars, waitVars, answered, abandoned>>

\* Serve writes the response.
Answer(c) ==
    /\ call[c].pc = "answering"
    /\ call' = [call EXCEPT ![c] = Idle]
    /\ answered' = [s \in Streams |-> answered[s] \cup Bytes(call[c].text[s])]
    /\ UNCHANGED <<processVars, writeVars, waitVars, readTo, polled, abandoned, withheld>>

\* The request was cancelled meanwhile and Serve drops the response, or the
\* output of the connector is closed and write fails.
DropAnswer(c) ==
    /\ call[c].pc = "answering"
    /\ call' = [call EXCEPT ![c] = Idle]
    /\ abandoned' = IF call[c].kind = "exec" THEN abandoned
                    ELSE [s \in Streams |-> abandoned[s] \cup Bytes(call[c].text[s])]
    /\ UNCHANGED <<processVars, writeVars, waitVars, readTo, polled, answered, withheld>>

-----------------------------------------------------------------------------
Request(c) ==
    \/ TakerBegins(c) \/ ExecSnapshot(c) \/ PollSnapshot(c) \/ TerminateFails(c)
    \/ Answer(c) \/ DropAnswer(c)

Next ==
    \/ \E s \in Streams : Produce(s) \/ Write(s)
    \/ ProcessExits \/ WaitReturns \/ Publish \/ CloseDone
    \/ \E c \in Callers : Request(c)

Spec == Init /\ [][Next]_vars

-----------------------------------------------------------------------------
(* Properties. *)

\* Both streams share one cap, cap_reached tells whether they have filled it, and
\* until then everything that was written is stored.
CapIsExact ==
    /\ Stored = IF capReached THEN OutputCap ELSE outputBytes
    /\ OutputCap > 0 => Stored <= OutputCap

\* What is stored of a stream is its beginning: no gap before a stored byte,
\* also when a chunk is cut and the other stream goes on writing.
StoredIsPrefix == \A s \in Streams : buf[s] = [i \in 1..Size(s) |-> i]

\* The deltas of concurrent polls, in the order they are taken, are the output
\* from its beginning to the offset: no byte is missing, repeated or in disorder,
\* also when a chunk is cut at the cap and the other stream goes on writing.
DeltasPartitionOutput == \A s \in Streams : polled[s] = [i \in 1..readTo[s] |-> i]

\* An answer that says the command is over was taken when all output had been
\* stored, so a client that stops polling then has missed none of it.
FinalAnswerIsComplete ==
    \A c \in Callers :
        call[c].pc = "answering" /\ call[c].status # "running"
            => exited /\ copied = produced

\* What was taken off the buffers reaches the client, but for two ways to lose
\* it: the answer was dropped because the client had abandoned the request or was
\* gone, or the request was a termination that answered with an error.
TakenIsAccounted ==
    \A s \in Streams : \A i \in 1..readTo[s] :
        \/ buf[s][i] \in answered[s] \cup abandoned[s] \cup withheld[s]
        \/ \E c \in Callers : call[c].pc = "answering" /\ buf[s][i] \in Bytes(call[c].text[s])
=============================================================================
