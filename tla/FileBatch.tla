------------------------------- MODULE FileBatch -------------------------------
(***************************************************************************)
(* multi_tool: a batch of operations on files, one after the other or all   *)
(* at once, the file tools it runs and the thread that mcp_call needs.      *)
(* Several calls are at work at the same time; a single tool call behaves   *)
(* as a batch of one.                                                       *)
(*                                                                          *)
(* A text is the set of operations that shaped it, counted from what was    *)
(* there first or was written last; whether a fragment to be replaced is    *)
(* found is left open.  A path stands for one file (links and directories   *)
(* are left out), os.WriteFile truncates the file and then writes it, in    *)
(* one piece unless it fails, and each request to the app-server takes      *)
(* effect in one step or not at all; a thread it starts has an identifier.  *)
(* Edits that change nothing and the progress events are left out.          *)
(***************************************************************************)
EXTENDS Naturals, FiniteSets, Sequences

CONSTANTS
    None,           \* no text: the file does not exist
    Torn,           \* the text of a truncated file, or a mixture of two
    Batches,        \* the calls of multi_tool
    Paths,          \* files
    Existing,       \* those that are there at first
    Offers,         \* bound: the sequences of operations each call may ask for
    MaxOps          \* bound: operations in a batch (the code: 16)

\* An operation: what it changes and, if it copies, what it reads.
Ops == [tool : {"fs_edit_file", "fs_write_file", "fs_remove"}, path : Paths, source : {None}]
       \cup [tool : {"fs_copy"}, path : Paths, source : Paths]
       \cup [tool : {"mcp_call"}, path : {None}, source : {None}]

ASSUME BatchAssumption ==
    /\ IsFiniteSet(Batches)
    /\ None # Torn /\ None \notin Paths /\ Existing \subseteq Paths
    /\ MaxOps \in Nat \ {0}
    /\ \A b \in Batches : Offers[b] \subseteq UNION {[1..n -> Ops] : n \in 1..MaxOps}

Index == 1..MaxOps
Ids == Batches \X Index

\* What stands for no text, or a broken one, is no text and no operation.
ASSUME EncodingAssumption ==
    None \notin Ids /\ \A t \in SUBSET Ids : t # None /\ t # Torn

VARIABLES
    text,           \* the files
    batch,          \* the calls: their stage, operations and mode
    run,            \* where each operation is
    cancelled,      \* calls whose context is cancelled
    late,           \* requests nobody waits for, which the app-server still does
    threadID,       \* there is a thread for mcp_call
    threadMu,       \* the operation that holds the mutex
    gone,           \* the app-server is gone: no answer of it arrives any more
    created,        \* history: threads the app-server has started
    applied,        \* history: operations that have taken effect
    spoilt          \* history: edits whose write has failed

fileVars == <<text, applied, spoilt>>
threadVars == <<threadID, threadMu, gone, created>>
vars == <<fileVars, batch, run, cancelled, late, threadVars>>

Queued == [pc |-> "queued", view |-> {}, others |-> FALSE, ok |-> FALSE]
NoBatch == [pc |-> "idle", ops |-> <<>>, parallel |-> FALSE, failed |-> {}]
Texts == (SUBSET Ids) \cup {None, Torn}

TypeOK ==
    /\ text \in [Paths -> Texts]
    /\ \A b \in Batches :
         /\ batch[b].pc \in {"idle", "running", "rejected", "answered"}
         /\ batch[b].ops \in Offers[b] \cup {<<>>}
         /\ batch[b].parallel \in BOOLEAN /\ batch[b].failed \subseteq Index
    /\ run \in [Ids -> [pc : {"queued", "running", "read", "open", "sent", "thread",
                              "starting", "calling", "ended"},
                        view : SUBSET Ids, others : BOOLEAN, ok : BOOLEAN]]
    /\ \A o \in Ids : run[o].others => run[o].pc \in {"read", "open"}
    /\ cancelled \subseteq Batches /\ late \subseteq Ids
    /\ threadID \in BOOLEAN /\ gone \in BOOLEAN /\ threadMu \in Ids \cup {None}
    /\ created \in 0..Cardinality(Ids)
    /\ applied \subseteq Ids /\ spoilt \subseteq Ids

Init ==
    /\ text = [p \in Paths |-> IF p \in Existing THEN {} ELSE None]
    /\ batch = [b \in Batches |-> NoBatch]
    /\ run = [o \in Ids |-> Queued]
    /\ cancelled = {} /\ late = {}
    /\ threadID = FALSE /\ threadMu = None /\ gone = FALSE /\ created = 0
    /\ applied = {} /\ spoilt = {}

Op(o) == batch[o[1]].ops[o[2]]
Members(b) == {o \in Ids : o[1] = b /\ o[2] \in DOMAIN batch[b].ops}
Started == UNION {Members(b) : b \in {c \in Batches : batch[c].pc \in {"running", "answered"}}}
Whole(p) == text[p] \notin {None, Torn}

\* The file that is looked up in the table of targets.
Target(op) == op.path

\* (Mutation: only edits are looked up.)
BugCollide(ops) == \E i, j \in DOMAIN ops : i # j /\ Target(ops[i]) = Target(ops[j])
    /\ Target(ops[i]) # None /\ ops[i].tool = ops[j].tool /\ ops[i].tool # "fs_edit_file"
Collide(ops) == \E i, j \in DOMAIN ops :
    i # j /\ Target(ops[i]) = Target(ops[j]) /\ Target(ops[i]) # None

\* multiTool: the operations are all checked before the first one starts.
\* Operations go in parallel unless the caller says otherwise.
Accept(b, ops, parallel) ==
    /\ batch[b].pc = "idle"
    /\ parallel \/ Len(ops) > 1
    /\ batch' = [batch EXCEPT ![b] =
         [pc |-> IF Collide(ops) THEN "rejected" ELSE "running",
          ops |-> ops, parallel |-> parallel, failed |-> {}]]
    /\ UNCHANGED <<fileVars, run, cancelled, late, threadVars>>

Cancel(b) ==
    /\ batch[b].pc = "running" /\ b \notin cancelled
    /\ cancelled' = cancelled \cup {b}
    /\ UNCHANGED <<fileVars, batch, run, late, threadVars>>

\* Client.Close, the end of the process, or of the client's reading (failAll).
ServerGone ==
    /\ ~gone /\ gone' = TRUE
    /\ UNCHANGED <<fileVars, batch, run, cancelled, late, threadID, threadMu, created>>

\* The caller waits no more, or there is nothing to wait for.
Unheard(o) == o[1] \in cancelled \/ gone

HasEnded(o) == run[o].pc = "ended"
\* A failure of an earlier operation, or a cancellation, stops nothing.
Turn(o) == batch[o[1]].parallel \/ \A i \in 1..(o[2] - 1) : HasEnded(<<o[1], i>>)

Move(o, to) == run' = [run EXCEPT ![o].pc = to]
End(r, ok) == [r EXCEPT !.pc = "ended", !.view = {}, !.others = FALSE, !.ok = ok]
Ends(o, ok) == run' = [run EXCEPT ![o] = End(@, ok)]

Start(o) ==
    /\ o \in Members(o[1]) /\ batch[o[1]].pc = "running"
    /\ run[o].pc = "queued" /\ Turn(o)
    /\ Move(o, CASE Op(o).tool = "fs_edit_file" -> "running"
                 [] Op(o).tool = "mcp_call" -> "thread"
                 [] OTHER -> "sent")
    /\ UNCHANGED <<fileVars, batch, cancelled, late, threadVars>>

-----------------------------------------------------------------------------
(* fs_edit_file, which works on the file itself and knows no context *)

\* Another writer has touched p: whoever has it open will write into its text.
Touched(r, o, p) == [q \in Ids |->
    IF q # o /\ r[q].pc = "open" /\ Op(q).path = p THEN [r[q] EXCEPT !.others = TRUE] ELSE r[q]]

\* A fragment may be found in a text that somebody else has written in part.
EditReads(o) ==
    /\ run[o].pc = "running"
    /\ \/ Whole(Op(o).path)
          /\ run' = [run EXCEPT ![o].pc = "read", ![o].view = text[Op(o).path]]
       \/ text[Op(o).path] = Torn
          /\ run' = [run EXCEPT ![o].pc = "read", ![o].others = TRUE]
       \/ Ends(o, FALSE)
    /\ UNCHANGED <<fileVars, batch, cancelled, late, threadVars>>

\* The file is opened, and made again if it is gone: it is not read once more.
EditOpens(o) ==
    /\ run[o].pc = "read"
    /\ text' = [text EXCEPT ![Op(o).path] = Torn]
    /\ run' = Touched([run EXCEPT ![o].pc = "open"], o, Op(o).path)
    /\ UNCHANGED <<applied, spoilt, batch, cancelled, late, threadVars>>

\* What somebody else has written meanwhile may stick out behind the new text.
EditWrites(o) ==
    /\ run[o].pc = "open"
    /\ \E new \in {run[o].view \cup {o}} \cup (IF run[o].others THEN {Torn} ELSE {}) :
         text' = [text EXCEPT ![Op(o).path] = new]
    /\ run' = Touched([run EXCEPT ![o] = End(@, TRUE)], o, Op(o).path)
    /\ applied' = applied \cup {o}
    /\ UNCHANGED <<spoilt, batch, cancelled, late, threadVars>>

\* os.WriteFile fails: the file is not opened; or not, or not all, is written; or
\* it is not closed.
EditFails(o) ==
    /\ \/ run[o].pc = "read" /\ Ends(o, FALSE) /\ UNCHANGED fileVars
       \/ /\ run[o].pc = "open"
          /\ \E new \in {text[Op(o).path], Torn, run[o].view \cup {o}} :
               text' = [text EXCEPT ![Op(o).path] = new]
          /\ run' = Touched([run EXCEPT ![o] = End(@, FALSE)], o, Op(o).path)
          /\ applied' = applied \cup {o} /\ spoilt' = spoilt \cup {o}
    /\ UNCHANGED <<batch, cancelled, late, threadVars>>

-----------------------------------------------------------------------------
(* fs_write_file, fs_copy and fs_remove, which are requests to the app-server *)

New(o) == CASE Op(o).tool = "fs_write_file" -> {o}
            [] Op(o).tool = "fs_remove" -> None
            [] OTHER -> LET t == text[Op(o).source] IN IF t = Torn THEN Torn ELSE t \cup {o}
\* Windows removes no file that is open.
Can(o) ==
    /\ Op(o).tool = "fs_copy" => text[Op(o).source] # None
    /\ Op(o).tool = "fs_remove" => \A q \in Started : run[q].pc = "open" => Op(q).path # Op(o).path

Effect(o) ==
    /\ Can(o)
    /\ text' = [text EXCEPT ![Op(o).path] = New(o)]
    /\ applied' = applied \cup {o} /\ spoilt' = spoilt

\* The answer is an error, without an effect, or tells what was done.
Answered(o) ==
    /\ run[o].pc = "sent"
    /\ \/ Ends(o, FALSE) /\ UNCHANGED fileVars
       \/ ~gone /\ Effect(o) /\ run' = Touched([run EXCEPT ![o] = End(@, TRUE)], o, Op(o).path)
    /\ UNCHANGED <<batch, cancelled, late, threadVars>>

\* (Mutation: the call that is given up is taken for done.)
BugGiveUp(o) ==
    /\ run[o].pc = "sent" /\ Unheard(o)
    /\ Ends(o, TRUE)
    /\ late' = late \cup {o}
    /\ UNCHANGED <<fileVars, batch, cancelled, threadVars>>
\* The context, and the end of the app-server, are looked at only after the
\* request has been sent.
GiveUp(o) ==
    /\ run[o].pc = "sent" /\ Unheard(o)
    /\ Ends(o, FALSE)
    /\ late' = late \cup {o}
    /\ UNCHANGED <<fileVars, batch, cancelled, threadVars>>

\* The app-server does, or has done, or refuses what nobody waits for any more.
Late(o) ==
    /\ o \in late /\ late' = late \ {o}
    /\ \/ UNCHANGED <<fileVars, run>>
       \/ Effect(o) /\ run' = Touched(run, o, Op(o).path)
    /\ UNCHANGED <<batch, cancelled, threadVars>>

-----------------------------------------------------------------------------
(* mcp_call and ensureThread *)

\* (Mutation: the thread is looked up without the mutex.)
BugFree == TRUE
Free == threadMu = None

EnsureThread(o) ==
    /\ run[o].pc = "thread" /\ Free
    /\ IF threadID
       THEN Move(o, "calling") /\ threadMu' = threadMu
       ELSE Move(o, "starting") /\ threadMu' = o
    /\ UNCHANGED <<fileVars, batch, cancelled, late, threadID, gone, created>>

ThreadStarts(o) ==
    /\ run[o].pc = "starting" /\ ~gone
    /\ created' = created + 1
    /\ threadID' = TRUE /\ threadMu' = None
    /\ Move(o, "calling")
    /\ UNCHANGED <<fileVars, batch, cancelled, late, gone>>

\* (Mutation: the mutex is not released when the request fails.)
BugAfterFailure(o) == threadMu
AfterFailure(o) == None

\* An error; or nobody hears the answer, and a thread is started for nobody.
ThreadFails(o) ==
    /\ run[o].pc = "starting"
    /\ \/ created' = created
       \/ Unheard(o) /\ created' = created + 1
    /\ threadMu' = AfterFailure(o)
    /\ Ends(o, FALSE)
    /\ UNCHANGED <<fileVars, batch, cancelled, late, threadID, gone>>

\* mcpServer/tool/call, whatever comes of it.
Called(o) ==
    /\ run[o].pc = "calling"
    /\ \E ok \in BOOLEAN : (ok => ~gone) /\ Ends(o, ok)
    /\ UNCHANGED <<fileVars, batch, cancelled, late, threadVars>>

-----------------------------------------------------------------------------
(* The end of an operation and of the batch *)

AllDone(b) == \A o \in Members(b) : HasEnded(o)

Answer(b) ==
    /\ batch[b].pc = "running" /\ AllDone(b)
    /\ batch' = [batch EXCEPT ![b].pc = "answered",
                              ![b].failed = {o[2] : o \in {m \in Members(b) : ~run[m].ok}}]
    /\ UNCHANGED <<fileVars, run, cancelled, late, threadVars>>

Work(o) ==
    \/ Start(o) \/ EditReads(o) \/ EditOpens(o) \/ EditWrites(o) \/ EditFails(o)
    \/ Answered(o) \/ GiveUp(o)
    \/ EnsureThread(o) \/ ThreadStarts(o) \/ ThreadFails(o) \/ Called(o)

Next ==
    \/ \E b \in Batches, parallel \in BOOLEAN : \E ops \in Offers[b] : Accept(b, ops, parallel)
    \/ \E b \in Batches : Cancel(b) \/ Answer(b)
    \/ \E o \in Started : Work(o)
    \/ \E o \in late : Late(o)
    \/ ServerGone

Spec == Init /\ [][Next]_vars

\* Goroutines run on; the app-server answers or is gone.  Cancelling is the
\* client's choice.
FairSpec == Spec
    /\ \A o \in Ids : WF_vars(o \in Started /\ Work(o))
    /\ \A b \in Batches : WF_vars(Answer(b))

-----------------------------------------------------------------------------
(* Properties *)

\* No other call that runs or has run changes p.
Alone(b, p) == \A o \in Started : o[1] # b => Op(o).path # p

\* A batch never undoes its own work: what it reports as done to a file is there
\* when it answers, and stays there while no other call changes that file.
OwnWorkStays == \A b \in Batches : batch[b].pc = "answered" =>
    \A o \in {m \in Members(b) : run[m].ok /\ Op(m).tool # "mcp_call" /\ Alone(b, Op(m).path)} :
        LET p == Op(o).path IN
        CASE Op(o).tool = "fs_remove" -> text[p] = None
          [] Op(o).tool = "fs_copy" -> text[p] # None
          [] OTHER -> Whole(p) /\ o \in text[p]

\* What the answer counts as done has taken effect.  What it counts as failed can
\* have an effect, now or later, in three ways only: the call was cancelled, the
\* app-server has gone, or the write of an edit failed on the way.
AnswerTellsTruth == \A b \in Batches : batch[b].pc = "answered" =>
    \A o \in {m \in Members(b) : Op(m).tool # "mcp_call"} :
        IF o[2] \in batch[b].failed THEN o \in applied \ spoilt => Unheard(o) ELSE o \in applied

\* Calls that need a thread at once share one: a second one exists only for a
\* call that was cancelled, or lost the app-server, while it was started.
OneThread == created <= (IF threadID THEN 1 ELSE 0) + Cardinality({o \in Started :
    Op(o).tool = "mcp_call" /\ HasEnded(o) /\ ~run[o].ok /\ Unheard(o)})

\* Every batch answers, whatever of it fails.
BatchAnswers == \A b \in Batches : batch[b].pc = "running" ~> batch[b].pc = "answered"
=============================================================================
