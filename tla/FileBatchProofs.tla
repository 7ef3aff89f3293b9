---------------------------- MODULE FileBatchProofs ----------------------------
(***************************************************************************)
(* Proofs about FileBatch for any number of calls, files and operations:    *)
(* calls that need a thread share one, an answer tells the truth, and a     *)
(* batch does not undo its own work.                                        *)
(***************************************************************************)
EXTENDS FileBatch, FiniteSetTheorems, TLAPS

Tool(o) == Op(o).tool
Requests == {"fs_write_file", "fs_copy", "fs_remove"}
Places == {"queued", "running", "read", "open", "sent", "thread", "starting", "calling", "ended"}
Runs == [pc : Places, view : SUBSET Ids, others : BOOLEAN, ok : BOOLEAN]

\* The part of TypeOK that a domain adds.
Batched == batch \in [Batches -> [pc : {"idle", "running", "rejected", "answered"},
    ops : {<<>>} \cup UNION {Offers[b] : b \in Batches}, parallel : BOOLEAN, failed : SUBSET Index]]

\* An operation is only where its tool brings it, and done only at the end.
Stages ==
    /\ \A o \in Ids :
         /\ run[o].pc # "queued" => o \in Started
         /\ run[o].pc \in {"running", "read", "open"} => Tool(o) = "fs_edit_file"
         /\ run[o].pc = "sent" => Tool(o) \in Requests
         /\ run[o].pc \in {"thread", "starting", "calling"} => Tool(o) = "mcp_call"
         /\ run[o].ok => HasEnded(o)
    /\ \A o \in late : HasEnded(o) /\ ~run[o].ok /\ Unheard(o) /\ Tool(o) \in Requests

Types == TypeOK /\ Batched /\ Stages

-----------------------------------------------------------------------------
(* What operations are, and what the steps do to them *)

LEMMA OpFields ==
    ASSUME NEW op \in Ops
    PROVE  /\ op.tool \in {"fs_edit_file", "fs_write_file", "fs_remove", "fs_copy", "mcp_call"}
           /\ op.tool = "mcp_call" => op.path = None
           /\ op.tool # "mcp_call" => op.path \in Paths
           /\ op.tool = "fs_copy" => op.source \in Paths
  BY DEF Ops

LEMMA OffersAreOps ==
    ASSUME NEW b \in Batches, NEW ops \in Offers[b]
    PROVE  \E n \in 1..MaxOps : ops \in [1..n -> Ops]
  BY BatchAssumption

LEMMA StartedAreOps ==
    ASSUME TypeOK, NEW o \in Started
    PROVE  /\ o \in Ids /\ o[1] \in Batches /\ o[2] \in DOMAIN batch[o[1]].ops /\ Op(o) \in Ops
           /\ batch[o[1]].pc \in {"running", "answered"} /\ o \in Members(o[1])
<1>1. /\ o \in Ids /\ o[1] \in Batches /\ o[2] \in DOMAIN batch[o[1]].ops
      /\ batch[o[1]].pc \in {"running", "answered"} /\ o \in Members(o[1])
  BY DEF Started, Members, Ids
<1>2. batch[o[1]].ops # <<>>
  BY <1>1
<1>3. batch[o[1]].ops \in Offers[o[1]]
  BY <1>1, <1>2 DEF TypeOK
<1> QED BY <1>1, <1>3, OffersAreOps DEF Op

LEMMA SameOps ==
    ASSUME batch' = batch
    PROVE  /\ Started' = Started
           /\ \A o \in Ids : Op(o)' = Op(o) /\ Tool(o)' = Tool(o)
           /\ \A b \in Batches : Members(b)' = Members(b)
           /\ \A b \in Batches, p \in Paths : Alone(b, p)' = Alone(b, p)
  BY DEF Started, Members, Op, Tool, Alone

LEMMA Moved ==
    ASSUME run \in [Ids -> Runs], NEW o \in Ids, NEW to \in Places, Move(o, to)
    PROVE  /\ run' \in [Ids -> Runs] /\ run'[o].pc = to
           /\ run'[o].ok = run[o].ok /\ run'[o].others = run[o].others
           /\ \A q \in Ids \ {o} : run'[q] = run[q]
  BY DEF Move, Runs

LEMMA Ended ==
    ASSUME NEW r \in Runs, NEW ok \in BOOLEAN
    PROVE  End(r, ok) \in Runs /\ End(r, ok).pc = "ended" /\ End(r, ok).ok = ok /\ ~End(r, ok).others
  BY DEF End, Runs, Places

LEMMA Marked ==
    ASSUME NEW r \in [Ids -> Runs], NEW o \in Ids, NEW p
    PROVE  /\ Touched(r, o, p) \in [Ids -> Runs] /\ Touched(r, o, p)[o] = r[o]
           /\ \A q \in Ids : /\ Touched(r, o, p)[q].pc = r[q].pc /\ Touched(r, o, p)[q].ok = r[q].ok
                             /\ Touched(r, o, p)[q].others =>
                                  r[q].others \/ (r[q].pc = "open" /\ Op(q).path = p)
<1>1. \A q \in Ids : Touched(r, o, p)[q] = r[q] \/
        (q # o /\ r[q].pc = "open" /\ Op(q).path = p /\ Touched(r, o, p)[q] = [r[q] EXCEPT !.others = TRUE])
  BY DEF Touched
<1>2. \A q \in Ids : [r[q] EXCEPT !.others = TRUE] \in Runs
        /\ [r[q] EXCEPT !.others = TRUE].pc = r[q].pc /\ [r[q] EXCEPT !.others = TRUE].ok = r[q].ok
  <2> SUFFICES ASSUME NEW q \in Ids, NEW x \in Runs, x = r[q]
               PROVE  [x EXCEPT !.others = TRUE] \in Runs
                      /\ [x EXCEPT !.others = TRUE].pc = x.pc /\ [x EXCEPT !.others = TRUE].ok = x.ok
    OBVIOUS
  <2> QED BY DEF Runs
<1>3. Touched(r, o, p) \in [Ids -> Runs]
  <2>1. \A q \in Ids : Touched(r, o, p)[q] \in Runs
    BY <1>1, <1>2
  <2> QED BY <2>1 DEF Touched
<1>4. Touched(r, o, p)[o] = r[o]
  BY <1>1
<1>5. \A q \in Ids : Touched(r, o, p)[q].pc = r[q].pc /\ Touched(r, o, p)[q].ok = r[q].ok
  BY <1>1, <1>2
<1>6. \A q \in Ids : Touched(r, o, p)[q].others => r[q].others \/ (r[q].pc = "open" /\ Op(q).path = p)
  BY <1>1
<1> QED BY <1>3, <1>4, <1>5, <1>6

\* A step of o leaves the other operations where they are; it may only tell one
\* that has the same file open that somebody else was there.
Frame(o) ==
    /\ run' \in [Ids -> Runs] /\ batch' = batch /\ cancelled' = cancelled
    /\ \A q \in Ids \ {o} :
         /\ run'[q].pc = run[q].pc /\ run'[q].ok = run[q].ok
         /\ run'[q].others => run[q].others \/ (run[q].pc = "open" /\ Op(q).path = Op(o).path)

\* A step of o takes it from one place to another; it learns of others in reading.
Takes(o, from, to, ok) ==
    /\ Frame(o)
    /\ run[o].pc = from /\ run'[o].pc = to /\ run'[o].ok = ok
    /\ run'[o].others => to \in {"read", "open"}
    /\ run'[o].others => run[o].others \/ (from = "running" /\ text[Op(o).path] = Torn)

LEMMA RunTyped ==
    ASSUME Types
    PROVE  run \in [Ids -> Runs] /\ \A o \in Ids : (run[o].pc \notin {"read", "open"} => ~run[o].others)
                                               /\ (run[o].pc # "ended" => ~run[o].ok)
  BY DEF Types, TypeOK, Runs, Places, Stages, HasEnded

LEMMA MoveTakes ==
    ASSUME Types, NEW o \in Ids, NEW to \in Places, Move(o, to), run[o].pc \notin {"read", "open", "ended"},
           batch' = batch, cancelled' = cancelled
    PROVE  Takes(o, run[o].pc, to, FALSE)
<1>1. run[o].ok = FALSE /\ run[o].others = FALSE
  BY RunTyped DEF Runs
<1> QED BY <1>1, RunTyped, Moved DEF Takes, Frame

LEMMA EndTakes ==
    ASSUME Types, NEW o \in Ids, NEW ok \in BOOLEAN, Ends(o, ok), batch' = batch, cancelled' = cancelled
    PROVE  Takes(o, run[o].pc, "ended", ok)
<1>1. run[o] \in Runs
  BY RunTyped
<1>2. run'[o] = End(run[o], ok) /\ \A q \in Ids \ {o} : run'[q] = run[q]
  BY RunTyped DEF Ends
<1>3. run' \in [Ids -> Runs]
  BY <1>1, RunTyped, Ended DEF Ends
<1> QED BY <1>1, <1>2, <1>3, Ended DEF Takes, Frame

LEMMA MarkTakes ==
    ASSUME Types, NEW o \in Ids, NEW rec \in Runs,
           rec.others => run[o].others /\ rec.pc \in {"read", "open"},
           run' = Touched([run EXCEPT ![o] = rec], o, Op(o).path), batch' = batch, cancelled' = cancelled
    PROVE  Takes(o, run[o].pc, rec.pc, rec.ok)
<1> DEFINE r == [run EXCEPT ![o] = rec]
<1>1. r \in [Ids -> Runs] /\ r[o] = rec /\ \A q \in Ids \ {o} : r[q] = run[q]
  BY RunTyped
<1> DEFINE t == Touched(r, o, Op(o).path)
<1>2. run' = t
  OBVIOUS
<1> HIDE DEF r
<1>3. /\ t \in [Ids -> Runs] /\ t[o] = r[o]
      /\ \A q \in Ids : /\ t[q].pc = r[q].pc /\ t[q].ok = r[q].ok
                        /\ t[q].others => r[q].others \/ (r[q].pc = "open" /\ Op(q).path = Op(o).path)
  BY <1>1, Marked
<1> HIDE DEF t
<1>4. Frame(o)
  BY <1>1, <1>2, <1>3 DEF Frame
<1>5. run'[o] = rec
  BY <1>1, <1>2, <1>3
<1> QED BY <1>4, <1>5 DEF Takes

-----------------------------------------------------------------------------
(* Where each step takes an operation, and what it does to the files *)

LEMMA StartTakes ==
    ASSUME Types, NEW o \in Started, Start(o)
    PROVE  \E to \in {"running", "thread", "sent"} :
             /\ Takes(o, "queued", to, FALSE)
             /\ to = "running" => Tool(o) = "fs_edit_file"
             /\ to = "thread" => Tool(o) = "mcp_call"
             /\ to = "sent" => Tool(o) \in Requests
<1> DEFINE to == CASE Op(o).tool = "fs_edit_file" -> "running"
                   [] Op(o).tool = "mcp_call" -> "thread"
                   [] OTHER -> "sent"
<1>1. /\ to = "running" => Tool(o) = "fs_edit_file"
      /\ to = "thread" => Tool(o) = "mcp_call"
      /\ to = "sent" => Tool(o) \in Requests
      /\ to \in {"running", "thread", "sent"}
  BY StartedAreOps, OpFields DEF Types, Tool, Requests
<1>2. Move(o, to) /\ run[o].pc = "queued" /\ batch' = batch /\ cancelled' = cancelled
  BY DEF Start
<1> HIDE DEF to
<1>3. to \in Places
  BY <1>1 DEF Places
<1>4. Takes(o, "queued", to, FALSE)
  BY <1>2, <1>3, MoveTakes, StartedAreOps DEF Types
<1> QED BY <1>1, <1>4

LEMMA EditReadsTakes ==
    ASSUME Types, NEW o \in Started, EditReads(o)
    PROVE  Takes(o, "running", "read", FALSE) \/ Takes(o, "running", "ended", FALSE)
<1>1. o \in Ids /\ run[o].pc = "running" /\ batch' = batch /\ cancelled' = cancelled
  BY StartedAreOps DEF EditReads, Types
<1>2. CASE Ends(o, FALSE)
  BY <1>1, <1>2, EndTakes
<1>3. CASE Whole(Op(o).path)
           /\ run' = [run EXCEPT ![o].pc = "read", ![o].view = text[Op(o).path]]
  <2>1. text[Op(o).path] \in SUBSET Ids
    <3>1. Op(o).path \in Paths
      BY <1>1, StartedAreOps, OpFields DEF Types, Stages, Tool
    <3>2. text[Op(o).path] \in (SUBSET Ids) \cup {None, Torn}
      BY <3>1 DEF Types, TypeOK, Texts
    <3>3. text[Op(o).path] # None /\ text[Op(o).path] # Torn
      BY <1>3 DEF Whole
    <3> QED BY <3>2, <3>3
  <2>2. run[o] \in Runs /\ run[o].others = FALSE /\ run[o].ok = FALSE
    BY <1>1, RunTyped DEF Runs
  <2>3. /\ run'[o] = [run[o] EXCEPT !.pc = "read", !.view = text[Op(o).path]]
        /\ \A q \in Ids \ {o} : run'[q] = run[q]
    BY <1>1, <1>3, RunTyped
  <2> DEFINE rec == [run[o] EXCEPT !.pc = "read", !.view = text[Op(o).path]]
  <2>4. rec \in Runs /\ rec.pc = "read" /\ rec.others = FALSE /\ rec.ok = FALSE
    BY <2>1, <2>2 DEF Runs, Places
  <2>5. run'[o] = rec
    BY <2>3
  <2> HIDE DEF rec
  <2> DEFINE f == [run EXCEPT ![o].pc = "read"]
  <2>6. f \in [Ids -> Runs] /\ run' = [f EXCEPT ![o].view = text[Op(o).path]]
    BY <1>1, <1>3, <2>2, Moved, RunTyped DEF Runs, Places
  <2> HIDE DEF f
  <2>7. run' \in [Ids -> Runs]
    BY <1>1, <2>1, <2>6 DEF Runs
  <2> QED BY <1>1, <2>3, <2>4, <2>5, <2>7 DEF Takes, Frame
<1>4. CASE text[Op(o).path] = Torn
           /\ run' = [run EXCEPT ![o].pc = "read", ![o].others = TRUE]
  <2>1. run[o] \in Runs /\ run[o].ok = FALSE
    BY <1>1, RunTyped DEF Runs
  <2> DEFINE rec == [run[o] EXCEPT !.pc = "read", !.others = TRUE]
  <2>2. rec \in Runs /\ rec.pc = "read" /\ rec.ok = FALSE
    BY <2>1 DEF Runs, Places
  <2>3. run' = [run EXCEPT ![o] = rec]
    BY <1>1, <1>4, RunTyped
  <2> HIDE DEF rec
  <2>4. run'[o] = rec /\ run' \in [Ids -> Runs] /\ \A q \in Ids \ {o} : run'[q] = run[q]
    BY <1>1, <2>2, <2>3, RunTyped
  <2> QED BY <1>1, <1>4, <2>2, <2>4 DEF Takes, Frame
<1> QED BY <1>2, <1>3, <1>4 DEF EditReads

LEMMA EditOpensTakes ==
    ASSUME Types, NEW o \in Started, EditOpens(o)
    PROVE  Takes(o, "read", "open", FALSE) /\ text' = [text EXCEPT ![Op(o).path] = Torn]
<1>1. o \in Ids /\ run[o].pc = "read" /\ batch' = batch /\ cancelled' = cancelled
  BY StartedAreOps DEF EditOpens, Types
<1> DEFINE rec == [run[o] EXCEPT !.pc = "open"]
<1>2. rec \in Runs /\ rec.pc = "open" /\ rec.others = run[o].others /\ rec.ok = FALSE
  BY <1>1, RunTyped DEF Runs, Places
<1>3. run' = Touched([run EXCEPT ![o] = rec], o, Op(o).path)
  BY <1>1, RunTyped DEF EditOpens
<1> HIDE DEF rec
<1> QED BY <1>1, <1>2, <1>3, MarkTakes DEF EditOpens

LEMMA EndMarkTakes ==
    ASSUME Types, NEW o \in Ids, NEW ok \in BOOLEAN, batch' = batch, cancelled' = cancelled,
           run' = Touched([run EXCEPT ![o] = End(@, ok)], o, Op(o).path)
    PROVE  Takes(o, run[o].pc, "ended", ok)
<1> DEFINE rec == End(run[o], ok)
<1>1. rec \in Runs /\ rec.pc = "ended" /\ ~rec.others /\ rec.ok = ok
  BY RunTyped, Ended
<1>2. run' = Touched([run EXCEPT ![o] = rec], o, Op(o).path)
  BY RunTyped
<1> HIDE DEF rec
<1> QED BY <1>1, <1>2, MarkTakes

LEMMA EditWritesTakes ==
    ASSUME Types, NEW o \in Started, EditWrites(o)
    PROVE  Takes(o, "open", "ended", TRUE)
<1>1. o \in Ids /\ run[o].pc = "open" /\ batch' = batch /\ cancelled' = cancelled
  BY StartedAreOps DEF EditWrites, Types
<1> QED BY <1>1, EndMarkTakes DEF EditWrites

LEMMA EditFailsTakes ==
    ASSUME Types, NEW o \in Started, EditFails(o)
    PROVE  \/ Takes(o, "read", "ended", FALSE) /\ UNCHANGED fileVars
           \/ /\ Takes(o, "open", "ended", FALSE)
              /\ \E new : text' = [text EXCEPT ![Op(o).path] = new]
              /\ applied' = applied \cup {o} /\ spoilt' = spoilt \cup {o}
<1>1. o \in Ids /\ batch' = batch /\ cancelled' = cancelled
  BY StartedAreOps DEF EditFails, Types
<1>2. CASE run[o].pc = "read" /\ Ends(o, FALSE) /\ UNCHANGED fileVars
  BY <1>1, <1>2, EndTakes
<1>3. CASE /\ run[o].pc = "open"
           /\ \E new \in {text[Op(o).path], Torn, run[o].view \cup {o}} :
                text' = [text EXCEPT ![Op(o).path] = new]
           /\ run' = Touched([run EXCEPT ![o] = End(@, FALSE)], o, Op(o).path)
           /\ applied' = applied \cup {o} /\ spoilt' = spoilt \cup {o}
  <2>1. Takes(o, "open", "ended", FALSE)
    BY <1>1, <1>3, EndMarkTakes
  <2> QED BY <1>3, <2>1
<1> QED BY <1>2, <1>3 DEF EditFails

LEMMA AnsweredTakes ==
    ASSUME Types, NEW o \in Started, Answered(o)
    PROVE  \/ Takes(o, "sent", "ended", FALSE) /\ UNCHANGED fileVars
           \/ Takes(o, "sent", "ended", TRUE) /\ Effect(o)
<1>1. o \in Ids /\ run[o].pc = "sent" /\ batch' = batch /\ cancelled' = cancelled
  BY StartedAreOps DEF Answered, Types
<1>2. CASE Ends(o, FALSE) /\ UNCHANGED fileVars
  BY <1>1, <1>2, EndTakes
<1>3. CASE ~gone /\ Effect(o) /\ run' = Touched([run EXCEPT ![o] = End(@, TRUE)], o, Op(o).path)
  BY <1>1, <1>3, EndMarkTakes
<1> QED BY <1>2, <1>3 DEF Answered

LEMMA GiveUpTakes ==
    ASSUME Types, NEW o \in Started, GiveUp(o)
    PROVE  Takes(o, "sent", "ended", FALSE)
  BY StartedAreOps, EndTakes DEF GiveUp, Types

LEMMA LateFrame ==
    ASSUME Types, NEW o \in late, Late(o)
    PROVE  /\ o \in Started /\ Frame(o) /\ run'[o] = run[o]
           /\ UNCHANGED fileVars \/ Effect(o)
<1>1. o \in Ids /\ HasEnded(o) /\ batch' = batch /\ cancelled' = cancelled
  BY DEF Late, Types, TypeOK, Stages
<1>2. o \in Started
  BY <1>1 DEF Types, Stages, HasEnded
<1>3. CASE UNCHANGED <<fileVars, run>>
  BY <1>1, <1>2, <1>3, RunTyped DEF Frame
<1>4. CASE Effect(o) /\ run' = Touched(run, o, Op(o).path)
  BY <1>1, <1>2, <1>4, RunTyped, Marked DEF Frame
<1> QED BY <1>3, <1>4 DEF Late

LEMMA EnsureThreadTakes ==
    ASSUME Types, NEW o \in Started, EnsureThread(o)
    PROVE  /\ threadMu = None
           /\ \/ threadID /\ Takes(o, "thread", "calling", FALSE) /\ threadMu' = None
              \/ ~threadID /\ Takes(o, "thread", "starting", FALSE) /\ threadMu' = o
  BY StartedAreOps, MoveTakes DEF EnsureThread, Free, Types, Places

LEMMA ThreadStartsTakes ==
    ASSUME Types, NEW o \in Started, ThreadStarts(o)
    PROVE  Takes(o, "starting", "calling", FALSE)
  BY StartedAreOps, MoveTakes DEF ThreadStarts, Types, Places

LEMMA ThreadFailsTakes ==
    ASSUME Types, NEW o \in Started, ThreadFails(o)
    PROVE  Takes(o, "starting", "ended", FALSE)
  BY StartedAreOps, EndTakes DEF ThreadFails, Types

LEMMA CalledTakes ==
    ASSUME Types, NEW o \in Started, Called(o)
    PROVE  \E ok \in BOOLEAN : Takes(o, "calling", "ended", ok)
  BY StartedAreOps, EndTakes DEF Called, Types

\* The ways of the three kinds of operations.
Way(o, from, to) ==
    \/ Tool(o) = "fs_edit_file" /\ <<from, to>> \in {<<"queued", "running">>, <<"running", "read">>,
         <<"running", "ended">>, <<"read", "open">>, <<"read", "ended">>, <<"open", "ended">>}
    \/ Tool(o) \in Requests /\ <<from, to>> \in {<<"queued", "sent">>, <<"sent", "ended">>}
    \/ Tool(o) = "mcp_call" /\ <<from, to>> \in {<<"queued", "thread">>, <<"thread", "calling">>,
         <<"thread", "starting">>, <<"starting", "calling">>, <<"starting", "ended">>, <<"calling", "ended">>}

Advances(o) == \E from, to \in Places, ok \in BOOLEAN :
    Takes(o, from, to, ok) /\ Way(o, from, to) /\ (ok => to = "ended")

LEMMA WorkAdvances ==
    ASSUME Types, NEW o \in Started, Work(o)
    PROVE  Advances(o)
<1>0. /\ o \in Ids
      /\ run[o].pc \in {"running", "read", "open"} => Tool(o) = "fs_edit_file"
      /\ run[o].pc = "sent" => Tool(o) \in Requests
      /\ run[o].pc \in {"thread", "starting", "calling"} => Tool(o) = "mcp_call"
  BY StartedAreOps DEF Types, Stages
<1>1. CASE Start(o)
  <2>1. PICK to \in {"running", "thread", "sent"} :
             /\ Takes(o, "queued", to, FALSE)
             /\ to = "running" => Tool(o) = "fs_edit_file"
             /\ to = "thread" => Tool(o) = "mcp_call"
             /\ to = "sent" => Tool(o) \in Requests
    BY <1>1, StartTakes
  <2> QED BY <2>1 DEF Advances, Way, Places
<1>2. CASE EditReads(o)
  BY <1>0, <1>2, EditReadsTakes DEF Advances, Way, Places, Takes
<1>3. CASE EditOpens(o)
  BY <1>0, <1>3, EditOpensTakes DEF Advances, Way, Places, Takes
<1>4. CASE EditWrites(o)
  BY <1>0, <1>4, EditWritesTakes DEF Advances, Way, Places, Takes
<1>5. CASE Answered(o)
  <2>1. \E ok \in BOOLEAN : Takes(o, "sent", "ended", ok)
    BY <1>5, AnsweredTakes
  <2> QED BY <1>0, <2>1 DEF Advances, Way, Places, Takes
<1>6. CASE GiveUp(o)
  BY <1>0, <1>6, GiveUpTakes DEF Advances, Way, Places, Takes
<1>7. CASE EnsureThread(o)
  <2>1. \E to \in {"calling", "starting"} : Takes(o, "thread", to, FALSE)
    BY <1>7, EnsureThreadTakes
  <2> QED BY <1>0, <2>1 DEF Advances, Way, Places, Takes
<1>8. CASE ThreadStarts(o)
  BY <1>0, <1>8, ThreadStartsTakes DEF Advances, Way, Places, Takes
<1>9. CASE ThreadFails(o)
  BY <1>0, <1>9, ThreadFailsTakes DEF Advances, Way, Places, Takes
<1>10. CASE Called(o)
  BY <1>0, <1>10, CalledTakes DEF Advances, Way, Places, Takes
<1>11. CASE EditFails(o)
  <2>1. \E from \in {"read", "open"} : Takes(o, from, "ended", FALSE)
    BY <1>11, EditFailsTakes
  <2> QED BY <1>0, <2>1 DEF Advances, Way, Places, Takes
<1> QED BY <1>1, <1>2, <1>3, <1>4, <1>5, <1>6, <1>7, <1>8, <1>9, <1>10, <1>11 DEF Work

-----------------------------------------------------------------------------
(* What no step takes back *)

\* The app-server does not come back, nor does a failed write.
Ratchet == (gone => gone') /\ spoilt \subseteq spoilt'

Keeps ==
    /\ Ratchet
    /\ Started \subseteq Started' /\ \A o \in Started : Op(o)' = Op(o)
    /\ cancelled \subseteq cancelled'
    /\ \A o \in Ids : /\ HasEnded(o) => run'[o].pc = "ended" /\ run'[o].ok = run[o].ok
                      /\ run[o].pc = "calling" => run'[o].pc \in {"calling", "ended"}

LEMMA GoneSteady ==
    ASSUME [Next]_vars
    PROVE  gone' = gone \/ gone' = TRUE
<1>1. CASE UNCHANGED threadVars \/ UNCHANGED vars \/ ServerGone
  BY <1>1 DEF threadVars, vars, ServerGone
<1>2. ASSUME NEW o \in Started, Work(o) PROVE gone' = gone
  <2>1. CASE Start(o) \/ EditReads(o) \/ EditOpens(o) \/ EditWrites(o) \/ EditFails(o)
    BY <2>1 DEF Start, EditReads, EditOpens, EditWrites, EditFails, threadVars
  <2>2. CASE Answered(o) \/ GiveUp(o) \/ Called(o)
    BY <2>2 DEF Answered, GiveUp, Called, threadVars
  <2>3. CASE EnsureThread(o) \/ ThreadStarts(o) \/ ThreadFails(o)
    BY <2>3 DEF EnsureThread, ThreadStarts, ThreadFails
  <2> QED BY <1>2, <2>1, <2>2, <2>3, Zenon DEF Work
<1>3. ASSUME NEW b \in Batches, NEW parallel \in BOOLEAN, NEW ops \in Offers[b], Accept(b, ops, parallel)
      PROVE  UNCHANGED threadVars
  BY <1>3 DEF Accept
<1>4. ASSUME NEW b \in Batches, Cancel(b) \/ Answer(b) PROVE UNCHANGED threadVars
  BY <1>4 DEF Cancel, Answer
<1>5. ASSUME NEW o \in late, Late(o) PROVE UNCHANGED threadVars
  BY <1>5 DEF Late
<1> QED BY <1>1, <1>2, <1>3, <1>4, <1>5 DEF Next

LEMMA Ratchets ==
    ASSUME [Next]_vars
    PROVE  Ratchet
<1>1. gone => gone'
  BY GoneSteady
<1>2. UNCHANGED fileVars => spoilt \subseteq spoilt'
  BY DEF fileVars
<1>3. UNCHANGED vars \/ ServerGone => UNCHANGED fileVars
  BY DEF vars, ServerGone
<1>4. ASSUME NEW b \in Batches, NEW parallel \in BOOLEAN, NEW ops \in Offers[b], Accept(b, ops, parallel)
      PROVE  UNCHANGED fileVars
  BY <1>4 DEF Accept
<1>5. ASSUME NEW b \in Batches, Cancel(b) \/ Answer(b) PROVE UNCHANGED fileVars
  BY <1>5 DEF Cancel, Answer
<1>6. ASSUME NEW o, Effect(o) PROVE spoilt \subseteq spoilt'
  BY <1>6 DEF Effect
<1>7. ASSUME NEW o \in Started, Work(o) PROVE spoilt \subseteq spoilt'
  <2>1. CASE Start(o) \/ EditReads(o) \/ GiveUp(o)
    BY <1>2, <2>1 DEF Start, EditReads, GiveUp
  <2>2. CASE EditOpens(o) \/ EditWrites(o)
    BY <2>2 DEF EditOpens, EditWrites
  <2>3. CASE EditFails(o)
    BY <1>2, <2>3 DEF EditFails
  <2>4. CASE Answered(o)
    BY <1>2, <1>6, <2>4 DEF Answered
  <2>5. CASE EnsureThread(o) \/ ThreadStarts(o) \/ ThreadFails(o) \/ Called(o)
    BY <1>2, <2>5 DEF EnsureThread, ThreadStarts, ThreadFails, Called
  <2> QED BY <1>7, <2>1, <2>2, <2>3, <2>4, <2>5, Zenon DEF Work
<1>8. ASSUME NEW o \in late, Late(o) PROVE spoilt \subseteq spoilt'
  BY <1>2, <1>6, <1>8 DEF Late
<1>9. spoilt \subseteq spoilt'
  BY <1>2, <1>3, <1>4, <1>5, <1>7, <1>8 DEF Next
<1> QED BY <1>1, <1>9 DEF Ratchet

LEMMA AcceptKeeps ==
    ASSUME Types, Ratchet, NEW b \in Batches, NEW parallel \in BOOLEAN, NEW ops \in Offers[b],
           Accept(b, ops, parallel)
    PROVE  /\ Keeps /\ Batched' /\ run' = run
           /\ \A o \in Started' \ Started : o \in Ids /\ run[o].pc = "queued" /\ o[1] = b
<1>1. /\ batch[b].pc = "idle" /\ run' = run /\ cancelled' = cancelled
      /\ \A c \in Batches \ {b} : batch'[c] = batch[c]
      /\ batch'[b].pc \in {"running", "rejected"} /\ batch'[b].ops = ops
  BY DEF Accept, Types, Batched
<1>2. \A o \in Started : o[1] \in Batches \ {b}
  BY <1>1, StartedAreOps DEF Types
<1>3. \A o \in Started : Op(o)' = Op(o) /\ o \in Started'
  <2> SUFFICES ASSUME NEW o \in Started PROVE Op(o)' = Op(o) /\ o \in Started'
    OBVIOUS
  <2>1. batch'[o[1]] = batch[o[1]] /\ o \in Members(o[1]) /\ batch[o[1]].pc \in {"running", "answered"}
    BY <1>1, <1>2, StartedAreOps DEF Types
  <2>2. o \in Members(o[1])'
    BY <2>1 DEF Members
  <2> QED BY <1>2, <2>1, <2>2 DEF Op, Started
<1>4. \A o \in Started' \ Started : o \in Ids /\ o[1] = b
  <2> SUFFICES ASSUME NEW o \in Started', o \notin Started PROVE o \in Ids /\ o[1] = b
    OBVIOUS
  <2>1. PICK c \in Batches : batch'[c].pc \in {"running", "answered"} /\ o \in Members(c)'
    BY DEF Started
  <2>2. o \in Ids /\ o[1] = c /\ o[2] \in DOMAIN batch'[c].ops
    BY <2>1 DEF Members
  <2>3. c # b => o \in Started
    BY <1>1, <2>1, <2>2 DEF Members, Started
  <2> QED BY <2>2, <2>3
<1>5. \A o \in Started' \ Started : run[o].pc = "queued"
  BY <1>4 DEF Types, Stages
<1>6. Batched'
  BY DEF Accept, Types, Batched
<1> QED BY <1>1, <1>3, <1>4, <1>5, <1>6 DEF Keeps, HasEnded

LEMMA AnswerKeeps ==
    ASSUME Types, Ratchet, NEW b \in Batches, Answer(b)
    PROVE  /\ Keeps /\ Batched' /\ run' = run /\ Started' = Started
           /\ \A c \in Batches : Members(c)' = Members(c)
           /\ \A o \in Ids : Op(o)' = Op(o)
<1>1. /\ batch[b].pc = "running" /\ batch'[b].pc = "answered" /\ run' = run /\ cancelled' = cancelled
      /\ \A c \in Batches \ {b} : batch'[c] = batch[c]
      /\ batch'[b].ops = batch[b].ops
  BY DEF Answer, Types, Batched
<1>2. \A c \in Batches : batch'[c].ops = batch[c].ops
        /\ (batch'[c].pc \in {"running", "answered"} <=> batch[c].pc \in {"running", "answered"})
  BY <1>1
<1>3. \A c \in Batches : Members(c)' = Members(c)
  BY <1>2 DEF Members
<1>4. Started' = Started
  BY <1>2, <1>3 DEF Started
<1>5. \A o \in Ids : Op(o)' = Op(o)
  BY <1>2 DEF Op, Ids
<1>6. Batched'
  <2>1. {o[2] : o \in {m \in Members(b) : ~run[m].ok}} \in SUBSET Index
    BY DEF Members, Ids
  <2>2. PICK f \in SUBSET Index : batch' = [batch EXCEPT ![b].pc = "answered", ![b].failed = f]
    BY <2>1 DEF Answer
  <2> DEFINE Lists == {<<>>} \cup UNION {Offers[c] : c \in Batches}
             Rows == [pc : {"idle", "running", "rejected", "answered"}, ops : Lists,
                      parallel : BOOLEAN, failed : SUBSET Index]
  <2>3. batch \in [Batches -> Rows] /\ (batch' \in [Batches -> Rows] => Batched')
    BY DEF Types, Batched
  <2> HIDE DEF Lists
  <2>4. [batch[b] EXCEPT !.pc = "answered", !.failed = f] \in Rows
    BY <2>3
  <2>5. batch' = [batch EXCEPT ![b] = [batch[b] EXCEPT !.pc = "answered", !.failed = f]]
    BY <2>2, <2>3
  <2> HIDE DEF Rows
  <2> QED BY <2>3, <2>4, <2>5
<1>7. \A o \in Started : o \in Ids
  BY StartedAreOps DEF Types
<1> QED BY <1>1, <1>3, <1>4, <1>5, <1>6, <1>7 DEF Keeps, HasEnded

LEMMA FrameKeeps ==
    ASSUME Types, Ratchet, NEW o \in Started, Frame(o), run'[o] = run[o] \/ Advances(o)
    PROVE  Keeps /\ Batched' /\ Started' = Started /\ \A q \in Ids : Op(q)' = Op(q)
<1>1. Started' = Started /\ \A q \in Ids : Op(q)' = Op(q)
  BY SameOps DEF Frame
<1>2. \A q \in Started : q \in Ids
  BY StartedAreOps DEF Types
<1>3. \A q \in Ids \ {o} : run'[q].pc = run[q].pc /\ run'[q].ok = run[q].ok
  BY DEF Frame
<1>4. Advances(o) => ~HasEnded(o) /\ (run[o].pc = "calling" => run'[o].pc = "ended")
  BY DEF Advances, Takes, Way, HasEnded
<1> QED BY <1>1, <1>2, <1>3, <1>4 DEF Keeps, Frame, HasEnded, Types, Batched

LEMMA NextKeeps ==
    ASSUME Types, [Next]_vars
    PROVE  Keeps /\ Batched'
<1>0. Ratchet
  BY Ratchets
<1>1. CASE UNCHANGED vars
  <2>1. batch' = batch /\ run' = run /\ cancelled' = cancelled
    BY <1>1 DEF vars
  <2>2. \A o \in Started : o \in Ids
    BY StartedAreOps DEF Types
  <2> QED BY <1>0, <2>1, <2>2, SameOps DEF Keeps, Types, Batched, HasEnded
<1>2. ASSUME NEW b \in Batches, NEW parallel \in BOOLEAN, NEW ops \in Offers[b], Accept(b, ops, parallel)
      PROVE  Keeps /\ Batched'
  BY <1>0, <1>2, AcceptKeeps
<1>3. ASSUME NEW b \in Batches, Cancel(b) PROVE Keeps /\ Batched'
  <2>1. batch' = batch /\ run' = run /\ cancelled \subseteq cancelled'
    BY <1>3 DEF Cancel
  <2>2. \A o \in Started : o \in Ids
    BY StartedAreOps DEF Types
  <2> QED BY <1>0, <2>1, <2>2, SameOps DEF Keeps, Types, Batched, HasEnded
<1>4. ASSUME NEW b \in Batches, Answer(b) PROVE Keeps /\ Batched'
  BY <1>0, <1>4, AnswerKeeps
<1>5. ASSUME NEW o \in Started, Work(o) PROVE Keeps /\ Batched'
  <2>1. Advances(o)
    BY <1>5, WorkAdvances
  <2>2. Frame(o)
    BY <2>1 DEF Advances, Takes
  <2> QED BY <1>0, <2>1, <2>2, FrameKeeps
<1>6. ASSUME NEW o \in late, Late(o) PROVE Keeps /\ Batched'
  BY <1>0, <1>6, LateFrame, FrameKeeps
<1>7. CASE ServerGone
  <2>1. batch' = batch /\ run' = run /\ cancelled' = cancelled
    BY <1>7 DEF ServerGone
  <2>2. \A o \in Started : o \in Ids
    BY StartedAreOps DEF Types
  <2> QED BY <1>0, <2>1, <2>2, SameOps DEF Keeps, Types, Batched, HasEnded
<1> QED BY <1>1, <1>2, <1>3, <1>4, <1>5, <1>6, <1>7 DEF Next

-----------------------------------------------------------------------------
(* Every state is well typed *)

LEMMA StagesQuiet ==
    ASSUME Types, Keeps, run' = run, late' = late
    PROVE  Stages'
<1>1. \A o \in Ids : run[o].pc # "queued" => o \in Started' /\ Tool(o)' = Tool(o)
  BY DEF Types, Stages, Keeps, Tool
<1>2. \A o \in late : o \in Ids /\ run[o].pc # "queued" /\ Unheard(o)'
  BY DEF Types, TypeOK, Stages, Keeps, Ratchet, Unheard, HasEnded
<1> QED BY <1>1, <1>2 DEF Types, Stages, HasEnded

LEMMA StagesWork ==
    ASSUME Types, Ratchet, NEW o \in Started, Work(o)
    PROVE  Stages'
<1>0. Ratchet
  OBVIOUS
<1>1. PICK from \in Places, to \in Places, ok \in BOOLEAN :
        Takes(o, from, to, ok) /\ Way(o, from, to) /\ (ok => to = "ended")
  BY WorkAdvances DEF Advances
<1>2. /\ o \in Ids /\ cancelled' = cancelled
      /\ Started' = Started /\ \A q \in Ids : Op(q)' = Op(q)
      /\ \A q \in Ids \ {o} : run'[q].pc = run[q].pc /\ run'[q].ok = run[q].ok
  BY <1>1, StartedAreOps, SameOps DEF Types, Takes, Frame
<1>3. \A q \in Ids : Tool(q)' = Tool(q)
  BY <1>2 DEF Tool
<1>4. run[o].pc = from /\ run'[o].pc = to /\ run'[o].ok = ok
  BY <1>1 DEF Takes
<1>5. /\ to # "queued" /\ from # "ended"
      /\ to \in {"running", "read", "open"} => Tool(o) = "fs_edit_file"
      /\ to = "sent" => Tool(o) \in Requests
      /\ to \in {"thread", "starting", "calling"} => Tool(o) = "mcp_call"
  BY <1>1 DEF Way
<1>6. ASSUME NEW q \in Ids
      PROVE  /\ run'[q].pc # "queued" => q \in Started'
             /\ run'[q].pc \in {"running", "read", "open"} => Tool(q)' = "fs_edit_file"
             /\ run'[q].pc = "sent" => Tool(q)' \in Requests
             /\ run'[q].pc \in {"thread", "starting", "calling"} => Tool(q)' = "mcp_call"
             /\ run'[q].ok => run'[q].pc = "ended"
  <2>1. CASE q = o
    BY <1>1, <1>2, <1>3, <1>4, <1>5, <2>1
  <2>2. CASE q # o
    BY <1>2, <1>3, <2>2 DEF Types, Stages, HasEnded
  <2> QED BY <2>1, <2>2
<1>7. \A q \in late' : q \in late \/ (q = o /\ to = "ended" /\ ok = FALSE /\ from = "sent" /\ Unheard(o))
  <2>1. CASE GiveUp(o)
    <3>1. Takes(o, "sent", "ended", FALSE)
      BY <2>1, GiveUpTakes
    <3>2. ok = FALSE /\ to = "ended" /\ from = "sent"
      BY <1>4, <3>1 DEF Takes
    <3> QED BY <2>1, <3>2 DEF GiveUp
  <2>2. CASE Start(o) \/ EditReads(o) \/ EditOpens(o) \/ EditWrites(o) \/ EditFails(o)
    BY <2>2 DEF Start, EditReads, EditOpens, EditWrites, EditFails
  <2>3. CASE Answered(o) \/ EnsureThread(o) \/ ThreadStarts(o) \/ ThreadFails(o) \/ Called(o)
    BY <2>3 DEF Answered, EnsureThread, ThreadStarts, ThreadFails, Called
  <2> QED BY <2>1, <2>2, <2>3 DEF Work
<1>8. ASSUME NEW q \in late'
      PROVE  run'[q].pc = "ended" /\ ~run'[q].ok /\ Unheard(q)' /\ Tool(q)' \in Requests
  <2>0. Unheard(q) => Unheard(q)'
    BY <1>0, <1>2 DEF Ratchet, Unheard
  <2>1. CASE q \in late
    <3>1. q \in Ids /\ run[q].pc = "ended" /\ ~run[q].ok /\ Unheard(q) /\ Tool(q) \in Requests
      BY <2>1 DEF Types, TypeOK, Stages, HasEnded
    <3>2. q # o
      BY <1>4, <1>5, <3>1
    <3> QED BY <1>2, <1>3, <2>0, <3>1, <3>2
  <2>2. CASE q = o /\ to = "ended" /\ ok = FALSE /\ from = "sent" /\ Unheard(o)
    BY <1>2, <1>3, <1>4, <2>0, <2>2 DEF Types, Stages
  <2> QED BY <1>7, <2>1, <2>2
<1> QED BY <1>6, <1>8 DEF Stages, HasEnded

LEMMA StagesLate ==
    ASSUME Types, Ratchet, NEW o \in late, Late(o)
    PROVE  Stages'
<1>1. /\ Frame(o) /\ run'[o] = run[o] /\ o \in Started /\ late' \subseteq late /\ o \in Ids
  BY LateFrame, StartedAreOps DEF Late, Types
<1>2. /\ cancelled' = cancelled /\ Started' = Started
      /\ \A q \in Ids : Tool(q)' = Tool(q) /\ run'[q].pc = run[q].pc /\ run'[q].ok = run[q].ok
  BY <1>1, SameOps DEF Frame
<1>3. \A q \in late : q \in Ids /\ Unheard(q)'
  BY <1>2 DEF Types, TypeOK, Stages, Ratchet, Unheard
<1> QED BY <1>1, <1>2, <1>3 DEF Types, Stages, HasEnded

LEMMA StagesKept ==
    ASSUME Types, [Next]_vars
    PROVE  Stages'
<1>0. Keeps
  BY NextKeeps
<1>1. CASE UNCHANGED vars
  BY <1>0, <1>1, StagesQuiet DEF vars
<1>2. ASSUME NEW b \in Batches, NEW parallel \in BOOLEAN, NEW ops \in Offers[b], Accept(b, ops, parallel)
      PROVE  Stages'
  BY <1>0, <1>2, StagesQuiet DEF Accept
<1>3. ASSUME NEW b \in Batches, Cancel(b) \/ Answer(b) PROVE Stages'
  BY <1>0, <1>3, StagesQuiet DEF Cancel, Answer
<1>4. CASE ServerGone
  BY <1>0, <1>4, StagesQuiet DEF ServerGone
<1> QED BY <1>0, <1>1, <1>2, <1>3, <1>4, StagesWork, StagesLate DEF Next, Keeps

\* The text that a request leaves behind.
LEMMA NewText ==
    ASSUME Types, NEW o \in Started, Tool(o) \in Requests, Can(o)
    PROVE  /\ New(o) \in Texts
           /\ Tool(o) = "fs_write_file" => New(o) = {o}
           /\ Tool(o) = "fs_remove" => New(o) = None
           /\ Tool(o) = "fs_copy" => New(o) # None
<1>1. o \in Ids /\ Op(o) \in Ops
  BY StartedAreOps DEF Types
<1>2. {o} \in SUBSET Ids
  BY <1>1
<1>3. CASE Tool(o) = "fs_write_file" \/ Tool(o) = "fs_remove"
  BY <1>2, <1>3 DEF New, Texts, Tool
<1>4. CASE Tool(o) = "fs_copy"
  <2> DEFINE t == text[Op(o).source]
  <2>1. t \in Texts /\ t # None
    BY <1>1, <1>4, OpFields DEF Types, TypeOK, Can, Tool
  <2>2. New(o) = IF t = Torn THEN Torn ELSE t \cup {o}
    BY <1>4 DEF New, Tool
  <2> HIDE DEF t
  <2>3. t # Torn => t \cup {o} \in SUBSET Ids
    BY <1>1, <2>1 DEF Texts
  <2> QED BY <1>4, <2>2, <2>3, EncodingAssumption, BatchAssumption DEF Texts
<1> QED BY <1>3, <1>4 DEF Requests

LEMMA TextKept ==
    ASSUME Types, [Next]_vars
    PROVE  text' \in [Paths -> Texts] /\ applied' \subseteq Ids /\ spoilt' \subseteq Ids
<1>0. text \in [Paths -> Texts] /\ applied \subseteq Ids /\ spoilt \subseteq Ids /\ None \in Texts /\ Torn \in Texts
  BY DEF Types, TypeOK, Texts
<1>1. CASE UNCHANGED fileVars
  BY <1>0, <1>1 DEF fileVars
<1>2. ASSUME NEW o \in Started, Effect(o), Tool(o) \in Requests PROVE text' \in [Paths -> Texts] /\ applied' \subseteq Ids /\ spoilt' \subseteq Ids
  BY <1>0, <1>2, NewText, StartedAreOps DEF Effect, Types
<1>3. ASSUME NEW o \in Started, Work(o) PROVE text' \in [Paths -> Texts] /\ applied' \subseteq Ids /\ spoilt' \subseteq Ids
  <2>0. o \in Ids
    BY StartedAreOps DEF Types
  <2>1. CASE EditOpens(o)
    BY <1>0, <2>1 DEF EditOpens
  <2>2. CASE EditWrites(o)
    <3>1. run[o].view \cup {o} \in Texts
      BY <2>0 DEF Texts, Types, TypeOK
    <3>2. PICK new \in Texts : text' = [text EXCEPT ![Op(o).path] = new]
      BY <1>0, <2>2, <3>1 DEF EditWrites
    <3> QED BY <1>0, <2>0, <2>2, <3>2 DEF EditWrites
  <2>3. CASE Answered(o)
    <3>1. Tool(o) \in Requests
      BY <2>0, <2>3 DEF Answered, Types, Stages
    <3> QED BY <1>1, <1>2, <2>3, <3>1 DEF Answered
  <2>4. CASE Start(o) \/ EditReads(o) \/ GiveUp(o)
    BY <1>1, <2>4 DEF Start, EditReads, GiveUp
  <2>5. CASE EnsureThread(o) \/ ThreadStarts(o) \/ ThreadFails(o) \/ Called(o)
    BY <1>1, <2>5 DEF EnsureThread, ThreadStarts, ThreadFails, Called
  <2>6. CASE EditFails(o)
    <3>1. CASE UNCHANGED fileVars
      BY <1>1, <3>1
    <3>2. CASE /\ run[o].pc = "open"
               /\ \E new \in {text[Op(o).path], Torn, run[o].view \cup {o}} :
                    text' = [text EXCEPT ![Op(o).path] = new]
               /\ applied' = applied \cup {o} /\ spoilt' = spoilt \cup {o}
      <4>1. Op(o).path \in Paths
        BY <2>0, <3>2, StartedAreOps, OpFields DEF Types, Stages, Tool
      <4>2. run[o].view \cup {o} \in Texts /\ text[Op(o).path] \in Texts
        BY <1>0, <2>0, <4>1 DEF Texts, Types, TypeOK
      <4>3. PICK new \in Texts : text' = [text EXCEPT ![Op(o).path] = new]
        BY <1>0, <3>2, <4>2
      <4> QED BY <1>0, <2>0, <3>2, <4>3
    <3> QED BY <2>6, <3>1, <3>2 DEF EditFails
  <2> QED BY <1>3, <2>1, <2>2, <2>3, <2>4, <2>5, <2>6, Zenon DEF Work
<1>4. ASSUME NEW o \in late, Late(o) PROVE text' \in [Paths -> Texts] /\ applied' \subseteq Ids /\ spoilt' \subseteq Ids
  <2>1. o \in Started /\ Tool(o) \in Requests /\ (UNCHANGED fileVars \/ Effect(o))
    BY <1>4, LateFrame DEF Types, Stages
  <2> QED BY <1>1, <1>2, <2>1
<1>5. UNCHANGED vars => UNCHANGED fileVars
  BY DEF vars
<1>6. ASSUME NEW b \in Batches, Cancel(b) \/ Answer(b) PROVE UNCHANGED fileVars
  BY <1>6 DEF Cancel, Answer
<1>7. ASSUME NEW b \in Batches, NEW parallel \in BOOLEAN, NEW ops \in Offers[b], Accept(b, ops, parallel)
      PROVE  UNCHANGED fileVars
  BY <1>7 DEF Accept
<1>8. ServerGone => UNCHANGED fileVars
  BY DEF ServerGone
<1> QED BY <1>1, <1>3, <1>4, <1>5, <1>6, <1>7, <1>8 DEF Next

-----------------------------------------------------------------------------
(* The mutex and the threads *)

\* Whoever starts a thread holds the mutex, and only while there is none.
Mutex ==
    /\ \A o \in Ids : run[o].pc = "starting" <=> threadMu = o
    /\ threadMu # None => ~threadID

\* Calls of tools that are past the start of a thread; those given up in it.
Callers == {o \in Started : Tool(o) = "mcp_call" /\ run[o].pc \in {"calling", "ended"}}
Abandoned == {o \in Started :
    Op(o).tool = "mcp_call" /\ HasEnded(o) /\ ~run[o].ok /\ Unheard(o)}

\* Every thread was started by one of the callers.
Threads == created \in Nat /\ created <= Cardinality(Callers) /\ OneThread

LEMMA CallersFinite ==
    /\ IsFiniteSet(Ids) /\ Callers \in SUBSET Ids /\ Abandoned \in SUBSET Ids
    /\ IsFiniteSet(Callers) /\ Cardinality(Callers) \in Nat /\ Cardinality(Callers) <= Cardinality(Ids)
    /\ IsFiniteSet(Abandoned) /\ Cardinality(Abandoned) \in Nat /\ Cardinality(Ids) \in Nat
<1>1. IsFiniteSet(Index)
  <2>1. 1 \in Int /\ MaxOps \in Int
    BY BatchAssumption
  <2> QED BY <2>1, FS_Interval DEF Index
<1>2. IsFiniteSet(Ids)
  <2>1. IsFiniteSet(Batches)
    BY BatchAssumption
  <2> QED BY <1>1, <2>1, FS_Product DEF Ids
<1>3. Callers \in SUBSET Ids /\ Abandoned \in SUBSET Ids
  BY DEF Callers, Abandoned, Started, Members
<1> QED BY <1>2, <1>3, FS_Subset, FS_CardinalityType

LEMMA CallersFiniteNext ==
    /\ IsFiniteSet(Callers') /\ Cardinality(Callers') \in Nat
    /\ IsFiniteSet(Abandoned') /\ Cardinality(Abandoned') \in Nat /\ Cardinality(Callers') <= Cardinality(Ids)
<1>1. Callers' \in SUBSET Ids /\ Abandoned' \in SUBSET Ids
  BY DEF Callers, Abandoned, Started, Members
<1> QED BY <1>1, CallersFinite, FS_Subset, FS_CardinalityType

\* No step takes anybody out of these sets.
LEMMA CallersGrow ==
    ASSUME Types, Keeps
    PROVE  /\ Callers \subseteq Callers' /\ Cardinality(Callers) <= Cardinality(Callers')
           /\ Abandoned \subseteq Abandoned' /\ Cardinality(Abandoned) <= Cardinality(Abandoned')
<1>1. \A o \in Started : o \in Ids /\ o \in Started' /\ Op(o)' = Op(o)
  BY StartedAreOps DEF Types, Keeps
<1>2. Callers \subseteq Callers'
  BY <1>1 DEF Keeps, Callers, Tool, HasEnded
<1>3. Abandoned \subseteq Abandoned'
  BY <1>1 DEF Keeps, Ratchet, Unheard, Abandoned, HasEnded
<1> QED BY <1>2, <1>3, CallersFinite, CallersFiniteNext, FS_Subset

LEMMA OneMore ==
    ASSUME NEW S, NEW T, IsFiniteSet(S), IsFiniteSet(T), S \subseteq T, NEW x \in T, x \notin S
    PROVE  Cardinality(S) + 1 <= Cardinality(T)
<1>1. IsFiniteSet(S \cup {x}) /\ Cardinality(S \cup {x}) = Cardinality(S) + 1
  BY FS_AddElement
<1>2. S \cup {x} \in SUBSET T
  OBVIOUS
<1> QED BY <1>1, <1>2, FS_Subset

LEMMA ThreadsQuiet ==
    ASSUME Types, Threads, Keeps, created' = created, threadID' = threadID
    PROVE  Threads'
<1>1. created' \in Nat /\ created' <= Cardinality(Callers')
  BY CallersGrow, CallersFinite, CallersFiniteNext DEF Threads
<1>2. created <= (IF threadID THEN 1 ELSE 0) + Cardinality(Abandoned)
  BY DEF Threads, OneThread, Abandoned
<1>3. created' <= (IF threadID' THEN 1 ELSE 0) + Cardinality(Abandoned')
  BY <1>2, CallersGrow, CallersFinite, CallersFiniteNext DEF Threads
<1>4. OneThread'
  BY <1>3 DEF OneThread, Abandoned
<1> QED BY <1>1, <1>4 DEF Threads

LEMMA ThreadsKept ==
    ASSUME Types, Mutex, Threads, [Next]_vars
    PROVE  Threads'
<1>0. Keeps
  BY NextKeeps
<1>1. ASSUME NEW o \in Started, ThreadStarts(o) PROVE Threads'
  <2>1. Takes(o, "starting", "calling", FALSE)
    BY <1>1, ThreadStartsTakes
  <2>2. o \in Ids /\ Tool(o) = "mcp_call" /\ run[o].pc = "starting" /\ run'[o].pc = "calling"
    BY <2>1, StartedAreOps DEF Types, Stages, Takes
  <2>3. o \in Callers' /\ o \notin Callers
    BY <1>0, <2>2 DEF Callers, Keeps, Tool
  <2>4. Cardinality(Callers) + 1 <= Cardinality(Callers')
    BY <1>0, <2>3, CallersGrow, CallersFinite, CallersFiniteNext, OneMore
  <2>5. ~threadID /\ threadID' = TRUE /\ created' = created + 1
    BY <1>1, <2>2, EncodingAssumption DEF ThreadStarts, Mutex
  <2>6. created <= Cardinality(Abandoned)
    BY <2>5, CallersFinite DEF Threads, OneThread, Abandoned
  <2>7. created' <= 1 + Cardinality(Abandoned')
    BY <1>0, <2>5, <2>6, CallersGrow, CallersFinite, CallersFiniteNext DEF Threads
  <2>8. OneThread'
    BY <2>5, <2>7 DEF OneThread, Abandoned
  <2> QED BY <2>4, <2>5, <2>8, CallersFinite, CallersFiniteNext DEF Threads
<1>2. ASSUME NEW o \in Started, ThreadFails(o) PROVE Threads'
  <2>0. threadID' = threadID
    BY <1>2 DEF ThreadFails
  <2>1. CASE created' = created
    BY <1>0, <2>0, <2>1, ThreadsQuiet
  <2>2. CASE Unheard(o) /\ created' = created + 1
    <3>1. Takes(o, "starting", "ended", FALSE)
      BY <1>2, ThreadFailsTakes
    <3>2. /\ o \in Ids /\ Tool(o) = "mcp_call" /\ run[o].pc = "starting"
          /\ run'[o].pc = "ended" /\ ~run'[o].ok /\ Unheard(o)'
      BY <1>0, <2>2, <3>1, StartedAreOps DEF Types, Stages, Takes, Frame, Keeps, Ratchet, Unheard
    <3>3. o \in Callers' /\ o \notin Callers /\ o \in Abandoned' /\ o \notin Abandoned
      BY <1>0, <3>2 DEF Callers, Abandoned, Keeps, Tool, HasEnded
    <3>4. /\ Cardinality(Callers) + 1 <= Cardinality(Callers')
          /\ Cardinality(Abandoned) + 1 <= Cardinality(Abandoned')
      BY <1>0, <3>3, CallersGrow, CallersFinite, CallersFiniteNext, OneMore
    <3>5. created <= (IF threadID THEN 1 ELSE 0) + Cardinality(Abandoned)
      BY DEF Threads, OneThread, Abandoned
    <3>6. created' <= (IF threadID' THEN 1 ELSE 0) + Cardinality(Abandoned')
      BY <2>0, <2>2, <3>4, <3>5, CallersFinite, CallersFiniteNext DEF Threads
    <3>7. OneThread'
      BY <3>6 DEF OneThread, Abandoned
    <3> QED BY <2>2, <3>4, <3>7, CallersFinite, CallersFiniteNext DEF Threads
  <2> QED BY <1>2, <2>1, <2>2 DEF ThreadFails
<1>3. ASSUME NEW o \in Started, Work(o), ~ThreadStarts(o), ~ThreadFails(o)
      PROVE  created' = created /\ threadID' = threadID
  <2>1. CASE Start(o) \/ EditReads(o) \/ EditOpens(o) \/ EditWrites(o) \/ EditFails(o)
    BY <2>1 DEF Start, EditReads, EditOpens, EditWrites, EditFails, threadVars
  <2>2. CASE Answered(o) \/ GiveUp(o) \/ EnsureThread(o) \/ Called(o)
    BY <2>2 DEF Answered, GiveUp, EnsureThread, Called, threadVars
  <2> QED BY <1>3, <2>1, <2>2, Zenon DEF Work
<1>4. CASE UNCHANGED vars
  BY <1>0, <1>4, ThreadsQuiet DEF vars, threadVars
<1>5. ASSUME NEW b \in Batches, NEW parallel \in BOOLEAN, NEW ops \in Offers[b], Accept(b, ops, parallel)
      PROVE  Threads'
  BY <1>0, <1>5, ThreadsQuiet DEF Accept, threadVars
<1>6. ASSUME NEW b \in Batches, Cancel(b) \/ Answer(b) PROVE Threads'
  BY <1>0, <1>6, ThreadsQuiet DEF Cancel, Answer, threadVars
<1>7. ASSUME NEW o \in late, Late(o) PROVE Threads'
  BY <1>0, <1>7, ThreadsQuiet DEF Late, threadVars
<1>8. ASSUME NEW o \in Started, Work(o) PROVE Threads'
  BY <1>0, <1>1, <1>2, <1>3, <1>8, ThreadsQuiet
<1>9. CASE ServerGone
  BY <1>0, <1>9, ThreadsQuiet DEF ServerGone
<1> QED BY <1>4, <1>5, <1>6, <1>7, <1>8, <1>9 DEF Next

LEMMA MutexKept ==
    ASSUME Types, Mutex, [Next]_vars
    PROVE  Mutex' /\ threadMu' \in Ids \cup {None} /\ threadID' \in BOOLEAN
<1>0. threadMu \in Ids \cup {None} /\ threadID \in BOOLEAN
  BY DEF Types, TypeOK
<1>1. ASSUME run' = run \/ \A q \in Ids : run'[q].pc = run[q].pc, UNCHANGED threadVars
      PROVE  Mutex' /\ threadMu' \in Ids \cup {None} /\ threadID' \in BOOLEAN
  BY <1>0, <1>1 DEF Mutex, threadVars
<1>2. ASSUME NEW o \in Started, Work(o)
      PROVE  Mutex' /\ threadMu' \in Ids \cup {None} /\ threadID' \in BOOLEAN
  <2>0. o \in Ids
    BY StartedAreOps DEF Types
  <2>1. ASSUME NEW from, NEW to, NEW ok, Takes(o, from, to, ok), from # "starting", to # "starting",
               UNCHANGED threadVars
        PROVE  Mutex' /\ threadMu' \in Ids \cup {None} /\ threadID' \in BOOLEAN
    BY <1>0, <2>0, <2>1 DEF Mutex, threadVars, Takes, Frame
  <2>2. CASE Start(o)
    <3>1. PICK to \in {"running", "thread", "sent"} : Takes(o, "queued", to, FALSE)
      BY <2>2, StartTakes
    <3> QED BY <2>1, <2>2, <3>1 DEF Start
  <2>3. CASE EditReads(o)
    BY <2>1, <2>3, EditReadsTakes DEF EditReads
  <2>4. CASE EditOpens(o)
    BY <2>1, <2>4, EditOpensTakes DEF EditOpens
  <2>5. CASE EditWrites(o)
    BY <2>1, <2>5, EditWritesTakes DEF EditWrites
  <2>6. CASE Answered(o)
    <3>1. PICK ok \in BOOLEAN : Takes(o, "sent", "ended", ok)
      BY <2>6, AnsweredTakes
    <3> QED BY <2>1, <2>6, <3>1 DEF Answered
  <2>7. CASE GiveUp(o)
    BY <2>1, <2>7, GiveUpTakes DEF GiveUp
  <2>8. CASE Called(o)
    <3>1. PICK ok \in BOOLEAN : Takes(o, "calling", "ended", ok)
      BY <2>8, CalledTakes
    <3> QED BY <2>1, <2>8, <3>1 DEF Called
  <2>9. CASE EnsureThread(o)
    <3>1. threadID' = threadID /\ threadMu = None
      BY <2>9, EnsureThreadTakes DEF EnsureThread
    <3>2. CASE threadID /\ Takes(o, "thread", "calling", FALSE) /\ threadMu' = None
      BY <1>0, <2>0, <3>1, <3>2 DEF Mutex, Takes, Frame
    <3>3. CASE ~threadID /\ Takes(o, "thread", "starting", FALSE) /\ threadMu' = o
      BY <1>0, <2>0, <3>1, <3>3, EncodingAssumption DEF Mutex, Takes, Frame
    <3> QED BY <2>9, <3>2, <3>3, EnsureThreadTakes
  <2>10. CASE ThreadStarts(o) \/ ThreadFails(o)
    <3>1. PICK to \in {"calling", "ended"} : Takes(o, "starting", to, FALSE)
      BY <2>10, ThreadStartsTakes, ThreadFailsTakes
    <3>2. threadMu' = None /\ threadID' \in BOOLEAN
      BY <1>0, <2>10 DEF ThreadStarts, ThreadFails, AfterFailure
    <3>3. threadMu = o
      BY <2>0, <3>1 DEF Takes, Mutex
    <3> QED BY <2>0, <3>1, <3>2, <3>3, EncodingAssumption DEF Mutex, Takes, Frame
  <2>11. CASE EditFails(o)
    <3>1. PICK from \in {"read", "open"} : Takes(o, from, "ended", FALSE)
      BY <2>11, EditFailsTakes
    <3> QED BY <2>1, <2>11, <3>1 DEF EditFails
  <2> QED BY <1>2, <2>2, <2>3, <2>4, <2>5, <2>6, <2>7, <2>8, <2>9, <2>10, <2>11, Zenon DEF Work
<1>3. CASE UNCHANGED vars
  BY <1>1, <1>3 DEF vars
<1>4. ASSUME NEW b \in Batches, NEW parallel \in BOOLEAN, NEW ops \in Offers[b], Accept(b, ops, parallel)
      PROVE  run' = run /\ UNCHANGED threadVars
  BY <1>4 DEF Accept
<1>5. ASSUME NEW b \in Batches, Cancel(b) \/ Answer(b) PROVE run' = run /\ UNCHANGED threadVars
  BY <1>5 DEF Cancel, Answer
<1>6. ASSUME NEW o \in late, Late(o)
      PROVE  (\A q \in Ids : run'[q].pc = run[q].pc) /\ UNCHANGED threadVars
  BY <1>6, LateFrame DEF Late, Frame
<1>7. CASE ServerGone
  BY <1>0, <1>7 DEF ServerGone, Mutex
<1> QED BY <1>1, <1>2, <1>3, <1>4, <1>5, <1>6, <1>7 DEF Next

-----------------------------------------------------------------------------
(* What an answer tells *)

FailedOnes(b) == {o[2] : o \in {m \in Members(b) : ~run[m].ok}}

\* What is done has taken effect, and what has taken effect is done, or nobody
\* has heard of it, or it failed on the way; an answer counts what has failed
\* once all have ended.
Truth ==
    /\ \A o \in Ids : run[o].ok /\ Tool(o) # "mcp_call" => o \in applied
    /\ \A o \in applied : run[o].ok \/ Unheard(o) \/ o \in spoilt
    /\ \A b \in Batches : batch[b].pc = "answered" => AllDone(b) /\ batch[b].failed = FailedOnes(b)

LEMMA AnswersStay ==
    ASSUME Types, Truth, Keeps,
           NEW b \in Batches, batch'[b] = batch[b], batch[b].pc = "answered"
    PROVE  AllDone(b)' /\ batch'[b].failed = FailedOnes(b)'
<1>1. Members(b)' = Members(b)
  BY DEF Members
<1>2. \A o \in Members(b) : o \in Ids /\ HasEnded(o)
  BY DEF Truth, AllDone, Members
<1>3. \A o \in Members(b) : run'[o].pc = "ended" /\ run'[o].ok = run[o].ok
  BY <1>2 DEF Keeps
<1>4. {m \in Members(b) : ~run'[m].ok} = {m \in Members(b) : ~run[m].ok}
  BY <1>3
<1>5. FailedOnes(b)' = FailedOnes(b)
  BY <1>1, <1>4 DEF FailedOnes
<1> QED BY <1>1, <1>3, <1>5 DEF Truth, AllDone, HasEnded

LEMMA TruthQuiet ==
    ASSUME Types, Truth, Keeps, run' = run, applied' = applied
    PROVE  /\ \A o \in Ids : run'[o].ok /\ Tool(o)' # "mcp_call" => o \in applied'
           /\ \A o \in applied' : run'[o].ok \/ Unheard(o)' \/ o \in spoilt'
<1>1. \A o \in Ids : run[o].ok => Tool(o)' = Tool(o)
  BY DEF Types, Stages, HasEnded, Keeps, Tool
<1> QED BY <1>1 DEF Truth, Keeps, Ratchet, Unheard

LEMMA WorkApplies ==
    ASSUME Types, NEW o \in Started, Work(o)
    PROVE  \/ applied' = applied /\ (run'[o].ok => Tool(o) = "mcp_call")
           \/ applied' = applied \cup {o} /\ (run'[o].ok \/ o \in spoilt')
<1>0. o \in Ids
  BY StartedAreOps DEF Types
<1>1. ASSUME NEW from, NEW to, Takes(o, from, to, FALSE), applied' = applied
      PROVE  applied' = applied /\ (run'[o].ok => Tool(o) = "mcp_call")
  BY <1>1 DEF Takes
<1>2. CASE Start(o)
  BY <1>1, <1>2, StartTakes DEF Start, fileVars
<1>3. CASE EditReads(o)
  BY <1>1, <1>3, EditReadsTakes DEF EditReads, fileVars
<1>4. CASE EditOpens(o)
  BY <1>1, <1>4, EditOpensTakes DEF EditOpens
<1>5. CASE EditWrites(o)
  BY <1>5, EditWritesTakes DEF EditWrites, Takes
<1>6. CASE Answered(o)
  <2>1. CASE Takes(o, "sent", "ended", FALSE) /\ UNCHANGED fileVars
    BY <1>1, <2>1 DEF fileVars
  <2>2. CASE Takes(o, "sent", "ended", TRUE) /\ Effect(o)
    BY <2>2 DEF Takes, Effect
  <2> QED BY <1>6, <2>1, <2>2, AnsweredTakes
<1>7. CASE GiveUp(o)
  BY <1>1, <1>7, GiveUpTakes DEF GiveUp, fileVars
<1>8. CASE EnsureThread(o)
  BY <1>1, <1>8, EnsureThreadTakes DEF EnsureThread, fileVars
<1>9. CASE ThreadStarts(o)
  BY <1>1, <1>9, ThreadStartsTakes DEF ThreadStarts, fileVars
<1>10. CASE ThreadFails(o)
  BY <1>1, <1>10, ThreadFailsTakes DEF ThreadFails, fileVars
<1>11. CASE Called(o)
  <2>1. Tool(o) = "mcp_call"
    BY <1>0, <1>11 DEF Called, Types, Stages
  <2> QED BY <1>11, <2>1 DEF Called, fileVars
<1>12. CASE EditFails(o)
  <2>1. CASE Takes(o, "read", "ended", FALSE) /\ UNCHANGED fileVars
    BY <1>1, <2>1 DEF fileVars
  <2>2. CASE applied' = applied \cup {o} /\ spoilt' = spoilt \cup {o}
    BY <2>2
  <2> QED BY <1>12, <2>1, <2>2, EditFailsTakes
<1> QED BY <1>2, <1>3, <1>4, <1>5, <1>6, <1>7, <1>8, <1>9, <1>10, <1>11, <1>12 DEF Work

LEMMA TruthKept ==
    ASSUME Types, Truth, [Next]_vars
    PROVE  Truth'
<1>0. Keeps
  BY NextKeeps
<1>1. ASSUME run' = run, applied' = applied, batch' = batch PROVE Truth'
  <2>1. \A b \in Batches : batch'[b].pc = "answered" => AllDone(b)' /\ batch'[b].failed = FailedOnes(b)'
    BY <1>0, <1>1, AnswersStay
  <2> QED BY <1>0, <1>1, <2>1, TruthQuiet DEF Truth
<1>2. ASSUME NEW b \in Batches, NEW parallel \in BOOLEAN, NEW ops \in Offers[b], Accept(b, ops, parallel)
      PROVE  Truth'
  <2>1. /\ run' = run /\ applied' = applied
        /\ \A c \in Batches \ {b} : batch'[c] = batch[c]
        /\ batch'[b].pc # "answered"
    BY <1>2 DEF Accept, fileVars, Types, Batched
  <2>2. \A c \in Batches : batch'[c].pc = "answered" => AllDone(c)' /\ batch'[c].failed = FailedOnes(c)'
    BY <1>0, <2>1, AnswersStay
  <2> QED BY <1>0, <2>1, <2>2, TruthQuiet DEF Truth
<1>3. ASSUME NEW b \in Batches, Answer(b) PROVE Truth'
  <2>1. /\ run' = run /\ applied' = applied
        /\ \A c \in Batches \ {b} : batch'[c] = batch[c]
        /\ batch'[b].failed = FailedOnes(b) /\ AllDone(b)
    BY <1>3 DEF Answer, fileVars, Types, Batched, FailedOnes
  <2>2. Members(b)' = Members(b)
    BY <1>3, <1>0, AnswerKeeps DEF Keeps
  <2>3. AllDone(b)' /\ batch'[b].failed = FailedOnes(b)'
    BY <2>1, <2>2 DEF AllDone, HasEnded, FailedOnes
  <2>4. \A c \in Batches : batch'[c].pc = "answered" => AllDone(c)' /\ batch'[c].failed = FailedOnes(c)'
    BY <1>0, <2>1, <2>3, AnswersStay
  <2> QED BY <1>0, <2>1, <2>4, TruthQuiet DEF Truth
<1>4. ASSUME NEW o \in Started, NEW done, applied' = applied \cup done, done \subseteq {o},
             run'[o].ok /\ Tool(o) # "mcp_call" => o \in applied',
             o \in done => run'[o].ok \/ Unheard(o)' \/ o \in spoilt',
             Frame(o), run[o].ok => run'[o].ok
      PROVE  Truth'
  <2>1. /\ o \in Ids /\ batch' = batch
        /\ \A q \in Ids : Tool(q)' = Tool(q)
        /\ \A q \in Ids \ {o} : run'[q].ok = run[q].ok
    BY <1>4, StartedAreOps, SameOps DEF Types, Frame
  <2>2. \A q \in Ids : run'[q].ok /\ Tool(q)' # "mcp_call" => q \in applied'
    BY <1>4, <2>1 DEF Truth
  <2>3. applied \subseteq Ids
    BY DEF Types, TypeOK
  <2>4. \A q \in applied' : run'[q].ok \/ Unheard(q)' \/ q \in spoilt'
    <3> SUFFICES ASSUME NEW q \in applied' PROVE run'[q].ok \/ Unheard(q)' \/ q \in spoilt'
      OBVIOUS
    <3>1. CASE q \in done
      BY <1>4, <3>1
    <3>2. CASE q \in applied
      BY <1>0, <1>4, <2>1, <2>3, <3>2 DEF Truth, Keeps, Ratchet, Unheard
    <3> QED BY <1>4, <3>1, <3>2
  <2>5. \A b \in Batches : batch'[b].pc = "answered" => AllDone(b)' /\ batch'[b].failed = FailedOnes(b)'
    BY <1>0, <2>1, AnswersStay
  <2> QED BY <2>2, <2>4, <2>5 DEF Truth
<1>5. ASSUME NEW o \in Started, Work(o) PROVE Truth'
  <2>1. Frame(o) /\ ~run[o].ok
    <3>1. Advances(o)
      BY <1>5, WorkAdvances
    <3>2. Frame(o) /\ run[o].pc # "ended"
      BY <3>1 DEF Advances, Takes, Way
    <3> QED BY <3>2, StartedAreOps, RunTyped DEF Types
  <2>2. CASE applied' = applied /\ (run'[o].ok => Tool(o) = "mcp_call")
    <3> DEFINE done == {}
    <3>1. applied' = applied \cup done /\ done \subseteq {o} /\ o \notin done
      BY <2>2
    <3> HIDE DEF done
    <3> QED BY <1>4, <2>1, <2>2, <3>1
  <2>3. CASE applied' = applied \cup {o} /\ (run'[o].ok \/ o \in spoilt')
    BY <1>4, <2>1, <2>3
  <2> QED BY <1>5, <2>2, <2>3, WorkApplies
<1>6. ASSUME NEW o \in late, Late(o) PROVE Truth'
  <2>1. /\ o \in Started /\ Frame(o) /\ run'[o] = run[o] /\ (UNCHANGED fileVars \/ Effect(o))
        /\ ~run[o].ok /\ Unheard(o)'
    BY <1>0, <1>6, LateFrame DEF Types, Stages, Keeps, Ratchet, Unheard
  <2>2. CASE UNCHANGED fileVars
    <3> DEFINE done == {}
    <3>1. applied' = applied \cup done /\ done \subseteq {o} /\ o \notin done
      BY <2>2 DEF fileVars
    <3> HIDE DEF done
    <3> QED BY <1>4, <2>1, <3>1
  <2>3. CASE Effect(o)
    BY <1>4, <2>1, <2>3 DEF Effect
  <2> QED BY <2>1, <2>2, <2>3
<1>7. CASE UNCHANGED vars
  BY <1>1, <1>7 DEF vars, fileVars
<1>8. ASSUME NEW b \in Batches, Cancel(b) PROVE Truth'
  BY <1>1, <1>8 DEF Cancel, fileVars
<1>9. CASE ServerGone
  BY <1>1, <1>9 DEF ServerGone, fileVars
<1> QED BY <1>2, <1>3, <1>5, <1>6, <1>7, <1>8, <1>9 DEF Next

-----------------------------------------------------------------------------
(* The work of a batch stays *)

\* No two operations of an accepted batch change one file.
Apart == \A b \in Batches : batch[b].pc \in {"running", "answered"} => ~Collide(batch[b].ops)

There(o) ==
    /\ Tool(o) = "fs_remove" => text[Op(o).path] = None
    /\ Tool(o) = "fs_copy" => text[Op(o).path] # None
    /\ Tool(o) \in {"fs_edit_file", "fs_write_file"} => Whole(Op(o).path) /\ o \in text[Op(o).path]

\* A file that is open has been touched by another call only; what is done is
\* there as long as no other call changes the file.
Own ==
    /\ \A o \in Ids : run[o].others => ~Alone(o[1], Op(o).path)
    /\ \A o \in Ids : run[o].ok /\ Tool(o) # "mcp_call" /\ Alone(o[1], Op(o).path) => There(o)

LEMMA OthersAway ==
    ASSUME Types, Apart, NEW o \in Started, NEW q \in Started, o # q,
           Tool(o) # "mcp_call", Op(q).path = Op(o).path
    PROVE  o[1] # q[1]
<1>1. /\ o \in Ids /\ q \in Ids /\ o[2] \in DOMAIN batch[o[1]].ops /\ q[2] \in DOMAIN batch[q[1]].ops
      /\ Op(o) \in Ops /\ o[1] \in Batches /\ batch[o[1]].pc \in {"running", "answered"}
  BY StartedAreOps DEF Types
<1>2. Op(o).path # None
  BY <1>1, OpFields, BatchAssumption DEF Tool
<1>3. SUFFICES ASSUME o[1] = q[1] PROVE FALSE
  OBVIOUS
<1>4. o[2] # q[2]
  BY <1>1, <1>3 DEF Ids
<1>5. Collide(batch[o[1]].ops)
  BY <1>1, <1>2, <1>3, <1>4 DEF Collide, Target, Op
<1> QED BY <1>1, <1>5 DEF Apart

LEMMA ApartKept ==
    ASSUME Types, Apart, [Next]_vars
    PROVE  Apart'
<1>1. CASE batch' = batch
  BY <1>1 DEF Apart
<1>2. ASSUME NEW b \in Batches, NEW parallel \in BOOLEAN, NEW ops \in Offers[b], Accept(b, ops, parallel)
      PROVE  Apart'
  BY <1>2 DEF Accept, Apart, Types, Batched
<1>3. ASSUME NEW b \in Batches, Answer(b) PROVE Apart'
  <2>1. \A c \in Batches : batch'[c].ops = batch[c].ops
          /\ (batch'[c].pc \in {"running", "answered"} => batch[c].pc \in {"running", "answered"})
    BY <1>3 DEF Answer, Types, Batched
  <2> QED BY <2>1 DEF Apart
<1>4. ASSUME NEW o \in Started, Work(o) PROVE batch' = batch
  BY <1>4, WorkAdvances DEF Advances, Takes, Frame
<1>5. ASSUME NEW o \in late, Late(o) PROVE batch' = batch
  BY <1>5, LateFrame DEF Frame
<1>6. ASSUME NEW b \in Batches, Cancel(b) PROVE batch' = batch
  BY <1>6 DEF Cancel
<1>7. UNCHANGED vars \/ ServerGone => batch' = batch
  BY DEF vars, ServerGone
<1> QED BY <1>1, <1>2, <1>3, <1>4, <1>5, <1>6, <1>7 DEF Next

\* A file is broken by an operation that has opened it or changed it.
Broken == \A p \in Paths : text[p] = Torn =>
    \E q \in Started : Op(q).path = p /\ run[q].pc \in {"open", "ended"}

LEMMA BrokenQuiet ==
    ASSUME Types, Broken, Keeps, run' = run, text' = text
    PROVE  Broken'
<1> SUFFICES ASSUME NEW p \in Paths, text[p] = Torn
             PROVE  \E q \in Started' : Op(q)'.path = p /\ run'[q].pc \in {"open", "ended"}
  BY DEF Broken
<1>1. PICK q \in Started : Op(q).path = p /\ run[q].pc \in {"open", "ended"}
  BY DEF Broken
<1> QED BY <1>1 DEF Keeps

\* A step of o that breaks at most the file it is about.
LEMMA BrokenWrites ==
    ASSUME Types, Broken, NEW o \in Started, Frame(o),
           run[o].pc \in {"open", "ended"} => run'[o].pc \in {"open", "ended"},
           text' = text \/ (/\ run'[o].pc \in {"open", "ended"}
                           /\ \E new : text' = [text EXCEPT ![Op(o).path] = new])
    PROVE  Broken'
<1>0. Started' = Started /\ \A q \in Ids : Op(q)' = Op(q)
  BY SameOps DEF Frame
<1>1. \A q \in Started : q \in Ids
  BY StartedAreOps DEF Types
<1> SUFFICES ASSUME NEW p \in Paths, text'[p] = Torn
             PROVE  \E q \in Started' : Op(q)'.path = p /\ run'[q].pc \in {"open", "ended"}
  BY DEF Broken
<1>2. CASE text'[p] = text[p]
  <2>1. PICK q \in Started : Op(q).path = p /\ run[q].pc \in {"open", "ended"}
    BY <1>2 DEF Broken
  <2>2. q = o \/ run'[q].pc = run[q].pc
    BY <1>1 DEF Frame
  <2> QED BY <1>0, <1>1, <2>1, <2>2
<1>3. CASE text'[p] # text[p]
  <2>1. run'[o].pc \in {"open", "ended"} /\ p = Op(o).path
    BY <1>3 DEF Types, TypeOK
  <2> QED BY <1>0, <1>1, <2>1
<1> QED BY <1>2, <1>3

LEMMA BrokenKept ==
    ASSUME Types, Broken, [Next]_vars
    PROVE  Broken'
<1>0. Keeps
  BY NextKeeps
<1>1. ASSUME NEW o \in Started, Work(o) PROVE Broken'
  <2>1. /\ Frame(o) /\ o \in Ids
        /\ run[o].pc \in {"open", "ended"} => run'[o].pc \in {"open", "ended"}
    BY <1>1, WorkAdvances, StartedAreOps DEF Advances, Takes, Way, Types
  <2>2. CASE text' = text
    BY <2>1, <2>2, BrokenWrites
  <2>3. CASE EditOpens(o)
    BY <2>1, <2>3, EditOpensTakes, BrokenWrites DEF Takes
  <2>4. CASE EditWrites(o)
    <3>1. run'[o].pc = "ended" /\ \E new : text' = [text EXCEPT ![Op(o).path] = new]
      BY <2>4, EditWritesTakes DEF Takes, EditWrites
    <3> QED BY <2>1, <3>1, BrokenWrites
  <2>5. CASE EditFails(o)
    <3>1. text' = text \/ (run'[o].pc = "ended" /\ \E new : text' = [text EXCEPT ![Op(o).path] = new])
      BY <2>5, EditFailsTakes DEF Takes, fileVars
    <3> QED BY <2>1, <3>1, BrokenWrites
  <2>6. CASE Answered(o)
    <3>1. text' = text \/ (run'[o].pc = "ended" /\ \E new : text' = [text EXCEPT ![Op(o).path] = new])
      BY <2>6, AnsweredTakes DEF Takes, Effect, fileVars
    <3> QED BY <2>1, <3>1, BrokenWrites
  <2>7. CASE Start(o) \/ EditReads(o) \/ GiveUp(o)
    BY <2>2, <2>7 DEF Start, EditReads, GiveUp, fileVars
  <2>8. CASE EnsureThread(o) \/ ThreadStarts(o) \/ ThreadFails(o) \/ Called(o)
    BY <2>2, <2>8 DEF EnsureThread, ThreadStarts, ThreadFails, Called, fileVars
  <2> QED BY <1>1, <2>3, <2>4, <2>5, <2>6, <2>7, <2>8, Zenon DEF Work
<1>2. ASSUME NEW o \in late, Late(o) PROVE Broken'
  <2>1. /\ o \in Started /\ Frame(o) /\ run'[o] = run[o] /\ run[o].pc = "ended"
        /\ UNCHANGED fileVars \/ Effect(o)
    BY <1>2, LateFrame DEF Types, Stages, HasEnded
  <2>2. text' = text \/ \E new : text' = [text EXCEPT ![Op(o).path] = new]
    BY <2>1 DEF fileVars, Effect
  <2> QED BY <2>1, <2>2, BrokenWrites
<1>3. ASSUME NEW b \in Batches, NEW parallel \in BOOLEAN, NEW ops \in Offers[b], Accept(b, ops, parallel)
      PROVE  Broken'
  BY <1>0, <1>3, BrokenQuiet DEF Accept, fileVars
<1>4. ASSUME NEW b \in Batches, Cancel(b) \/ Answer(b) PROVE Broken'
  BY <1>0, <1>4, BrokenQuiet DEF Cancel, Answer, fileVars
<1>5. CASE UNCHANGED vars \/ ServerGone
  BY <1>0, <1>5, BrokenQuiet DEF vars, ServerGone, fileVars
<1> QED BY <1>1, <1>2, <1>3, <1>4, <1>5 DEF Next

\* A step that neither touches the files nor moves an operation.
LEMMA OwnQuiet ==
    ASSUME Types, Own, Keeps, run' = run, text' = text
    PROVE  Own'
<1>1. \A o \in Ids : run[o].pc # "queued" => o \in Started /\ Op(o)' = Op(o) /\ Tool(o)' = Tool(o)
  BY DEF Types, Stages, Keeps, Tool
<1>2. \A o \in Ids : o[1] \in Batches
  BY DEF Ids
<1>3. \A o \in Ids : run[o].others => run[o].pc # "queued"
  BY RunTyped
<1>4. \A o \in Ids : run[o].ok => run[o].pc # "queued"
  BY DEF Types, Stages, HasEnded
<1>5. \A o \in Ids : run[o].others => ~Alone(o[1], Op(o).path)'
  <2> SUFFICES ASSUME NEW o \in Ids, run[o].others, Alone(o[1], Op(o).path)' PROVE FALSE
    OBVIOUS
  <2>1. Op(o)' = Op(o)
    BY <1>1, <1>3
  <2>2. Alone(o[1], Op(o).path)
    BY <1>2, <2>1 DEF Keeps, Alone
  <2> QED BY <2>2 DEF Own
<1>6. ASSUME NEW o \in Ids, run[o].ok, Tool(o)' # "mcp_call", Alone(o[1], Op(o).path)' PROVE There(o)'
  <2>1. Op(o)' = Op(o) /\ Tool(o)' = Tool(o)
    BY <1>1, <1>4, <1>6
  <2>2. Alone(o[1], Op(o).path)
    BY <1>2, <1>6, <2>1 DEF Keeps, Alone
  <2>3. There(o)
    BY <1>6, <2>1, <2>2 DEF Own
  <2> QED BY <2>1, <2>3 DEF There, Whole
<1> QED BY <1>5, <1>6 DEF Own

\* A step of o that changes at most the file it is about.
Writes(o) ==
    /\ Frame(o)
    /\ run'[o].others => ~Alone(o[1], Op(o).path)
    /\ \A p \in Paths \ {Op(o).path} : text'[p] = text[p]
    /\ run'[o].ok /\ Tool(o) # "mcp_call" /\ Alone(o[1], Op(o).path) => There(o)'

LEMMA OwnWrites ==
    ASSUME Types, Apart, Own, NEW o \in Started, Tool(o) # "mcp_call", Writes(o)
    PROVE  Own'
<1>1. /\ o \in Ids /\ o[1] \in Batches /\ Op(o) \in Ops /\ Op(o).path \in Paths
  BY StartedAreOps, OpFields DEF Types, Tool
<1>2. /\ Started' = Started /\ \A q \in Ids : Op(q)' = Op(q) /\ Tool(q)' = Tool(q)
      /\ \A q \in Ids \ {o} : run'[q].pc = run[q].pc /\ run'[q].ok = run[q].ok
            /\ (run'[q].others => run[q].others \/ (run[q].pc = "open" /\ Op(q).path = Op(o).path))
  BY SameOps DEF Writes, Frame
<1>3. \A b \in Batches, p \in Paths : Alone(b, p)' = Alone(b, p)
  BY SameOps DEF Writes, Frame
<1>4. \A q \in Ids : run[q].pc # "queued" => q \in Started
  BY DEF Types, Stages
<1>5. \A q \in Started : Tool(q) # "mcp_call" => q[1] \in Batches /\ Op(q).path \in Paths
  BY StartedAreOps, OpFields DEF Types, Tool
<1>6. ASSUME NEW q \in Ids, run'[q].others PROVE ~Alone(q[1], Op(q).path)'
  <2>1. CASE q = o
    BY <1>1, <1>2, <1>3, <1>6, <2>1 DEF Writes
  <2>2. CASE run[q].others
    <3>1. run[q].pc \in {"read", "open"} /\ ~Alone(q[1], Op(q).path)
      BY <2>2, RunTyped DEF Own
    <3>2. Tool(q) # "mcp_call" /\ q \in Started
      BY <1>4, <3>1 DEF Types, Stages
    <3> QED BY <1>2, <1>3, <1>5, <3>1, <3>2
  <2>3. CASE q # o /\ run[q].pc = "open" /\ Op(q).path = Op(o).path
    <3>1. q \in Started
      BY <1>4, <2>3
    <3>2. o[1] # q[1]
      BY <2>3, <3>1, OthersAway
    <3>3. ~Alone(q[1], Op(q).path)
      BY <2>3, <3>2 DEF Alone
    <3>4. Tool(q) # "mcp_call"
      BY <2>3 DEF Types, Stages
    <3> QED BY <1>2, <1>3, <1>5, <3>1, <3>3, <3>4
  <2> QED BY <1>2, <1>6, <2>1, <2>2, <2>3
<1>7. ASSUME NEW q \in Ids, run'[q].ok, Tool(q)' # "mcp_call", Alone(q[1], Op(q).path)' PROVE There(q)'
  <2>1. CASE q = o
    <3>1. Tool(o) # "mcp_call" /\ Alone(o[1], Op(o).path) /\ run'[o].ok
      BY <1>1, <1>2, <1>3, <1>7, <2>1
    <3> QED BY <2>1, <3>1 DEF Writes
  <2>2. CASE q # o
    <3>1. run[q].ok /\ Tool(q) # "mcp_call"
      BY <1>2, <1>7, <2>2
    <3>2. q \in Started
      BY <1>4, <3>1 DEF Types, Stages, HasEnded
    <3>3. Alone(q[1], Op(q).path) /\ Op(q).path \in Paths
      BY <1>2, <1>3, <1>5, <1>7, <3>1, <3>2
    <3>4. There(q)
      BY <3>1, <3>3 DEF Own
    <3>5. Op(q).path # Op(o).path
      <4> SUFFICES ASSUME Op(q).path = Op(o).path PROVE FALSE
        OBVIOUS
      <4>1. o[1] # q[1]
        BY <2>2, <3>2, OthersAway
      <4> QED BY <3>3, <4>1 DEF Alone
    <3>6. text'[Op(q).path] = text[Op(q).path]
      BY <3>3, <3>5 DEF Writes
    <3> QED BY <1>2, <3>4, <3>6 DEF There, Whole
  <2> QED BY <2>1, <2>2
<1> QED BY <1>6, <1>7 DEF Own

LEMMA OwnCalls ==
    ASSUME Types, Own, NEW o \in Started, Tool(o) = "mcp_call", Frame(o), ~run'[o].others, text' = text
    PROVE  Own'
<1>1. o \in Ids /\ Op(o).path = None
  BY StartedAreOps, OpFields DEF Types, Tool
<1>2. /\ \A q \in Ids : Op(q)' = Op(q) /\ Tool(q)' = Tool(q)
      /\ \A b \in Batches, p \in Paths : Alone(b, p)' = Alone(b, p)
      /\ \A q \in Ids \ {o} : run'[q].ok = run[q].ok
  BY SameOps DEF Frame
<1>3. \A q \in Ids : run[q].pc # "queued" /\ Tool(q) # "mcp_call" => q[1] \in Batches /\ Op(q).path \in Paths
  BY StartedAreOps, OpFields DEF Types, Stages, Tool
<1>4. ASSUME NEW q \in Ids, run'[q].others PROVE ~Alone(q[1], Op(q).path)'
  <2>1. q # o
    BY <1>4
  <2>2. run[q].others \/ (run[q].pc = "open" /\ Op(q).path = Op(o).path)
    BY <1>4, <2>1 DEF Frame
  <2>3. run[q].pc \in {"read", "open"} /\ q[1] \in Batches /\ Op(q).path \in Paths
    BY <1>3, <2>2, RunTyped DEF Types, Stages
  <2>4. run[q].others
    BY <1>1, <2>2, <2>3, BatchAssumption
  <2> QED BY <1>2, <2>3, <2>4 DEF Own
<1>5. ASSUME NEW q \in Ids, run'[q].ok, Tool(q)' # "mcp_call", Alone(q[1], Op(q).path)' PROVE There(q)'
  <2>1. q # o /\ run[q].ok /\ Tool(q) # "mcp_call"
    BY <1>2, <1>5
  <2>2. q[1] \in Batches /\ Op(q).path \in Paths
    BY <1>3, <2>1 DEF Types, Stages, HasEnded
  <2>3. There(q)
    BY <1>2, <1>5, <2>1, <2>2 DEF Own
  <2> QED BY <1>2, <2>3 DEF There, Whole
<1> QED BY <1>4, <1>5 DEF Own

\* An edit leaves its own change in a whole text, unless somebody else was there.
LEMMA EditThere ==
    ASSUME Types, Own, NEW o \in Started, EditWrites(o)
    PROVE  Writes(o)
<1>1. /\ o \in Ids /\ Op(o) \in Ops /\ Takes(o, "open", "ended", TRUE)
      /\ Tool(o) = "fs_edit_file" /\ Op(o).path \in Paths
  BY EditWritesTakes, StartedAreOps, OpFields DEF Types, Stages, Takes, Tool
<1>2. PICK new \in {run[o].view \cup {o}} \cup (IF run[o].others THEN {Torn} ELSE {}) :
        text' = [text EXCEPT ![Op(o).path] = new]
  BY DEF EditWrites
<1>3. \A p \in Paths \ {Op(o).path} : text'[p] = text[p]
  BY <1>2 DEF Types, TypeOK
<1>4. ASSUME Alone(o[1], Op(o).path) PROVE There(o)'
  <2>1. ~run[o].others
    BY <1>1, <1>4 DEF Own
  <2>2. new = run[o].view \cup {o}
    BY <1>2, <2>1
  <2>3. new \in SUBSET Ids
    BY <1>1, <2>2 DEF Types, TypeOK
  <2>4. text'[Op(o).path] = new
    BY <1>1, <1>2 DEF Types, TypeOK
  <2>5. new # None /\ new # Torn
    BY <2>3, EncodingAssumption
  <2>6. Op(o)' = Op(o) /\ Tool(o)' = Tool(o)
    BY <1>1, SameOps DEF Takes, Frame
  <2>7. Whole(Op(o).path)' /\ o \in text'[Op(o)'.path]
    BY <2>2, <2>4, <2>5, <2>6 DEF Whole
  <2> QED BY <1>1, <2>6, <2>7 DEF There
<1> QED BY <1>1, <1>3, <1>4 DEF Writes, Takes

LEMMA RequestThere ==
    ASSUME Types, NEW o \in Started, Tool(o) \in Requests, Effect(o), Frame(o), ~run'[o].others
    PROVE  Writes(o)
<1>1. o \in Ids /\ Op(o) \in Ops /\ Op(o).path \in Paths
  BY StartedAreOps, OpFields DEF Types, Tool, Requests
<1>2. text' = [text EXCEPT ![Op(o).path] = New(o)] /\ New(o) \in Texts
  BY NewText DEF Effect
<1>3. text'[Op(o).path] = New(o) /\ \A p \in Paths \ {Op(o).path} : text'[p] = text[p]
  BY <1>1, <1>2 DEF Types, TypeOK
<1>4. Op(o)' = Op(o) /\ Tool(o)' = Tool(o)
  BY <1>1, SameOps DEF Frame
<1>5. {o} # None /\ {o} # Torn
  BY <1>1, EncodingAssumption
<1>6. Tool(o) = "fs_write_file" => Whole(Op(o).path)' /\ o \in text'[Op(o).path]
  BY <1>3, <1>4, <1>5, NewText DEF Whole, Effect
<1>7. There(o)'
  BY <1>3, <1>4, <1>6, NewText DEF There, Requests, Effect
<1> QED BY <1>3, <1>7 DEF Writes

LEMMA OwnKept ==
    ASSUME Types, Apart, Broken, Own, [Next]_vars
    PROVE  Own'
<1>0. Keeps
  BY NextKeeps
<1>1. ASSUME NEW o \in Started, NEW from, NEW to, Takes(o, from, to, FALSE), Tool(o) # "mcp_call",
             text' = text \/ \E t : text' = [text EXCEPT ![Op(o).path] = t]
      PROVE  Own'
  <2>1. \A p \in Paths \ {Op(o).path} : text'[p] = text[p]
    BY <1>1 DEF Types, TypeOK
  <2>2. o \in Ids /\ Op(o).path \in Paths
    BY <1>1, StartedAreOps, OpFields DEF Types, Tool
  <2>3. ASSUME run'[o].others PROVE ~Alone(o[1], Op(o).path)
    <3>1. CASE run[o].others
      BY <2>2, <3>1 DEF Own
    <3>2. CASE run[o].pc = "running" /\ text[Op(o).path] = Torn
      <4>1. PICK q \in Started : Op(q).path = Op(o).path /\ run[q].pc \in {"open", "ended"}
        BY <2>2, <3>2 DEF Broken
      <4>2. o[1] # q[1]
        BY <1>1, <3>2, <4>1, OthersAway
      <4> QED BY <4>1, <4>2 DEF Alone
    <3> QED BY <1>1, <2>3, <3>1, <3>2 DEF Takes
  <2>4. Writes(o)
    BY <1>1, <2>1, <2>3 DEF Writes, Takes
  <2> QED BY <1>1, <2>4, OwnWrites
<1>2. ASSUME NEW o \in Started, Tool(o) = "mcp_call", text' = text,
             NEW from, NEW to, NEW ok, Takes(o, from, to, ok)
      PROVE  Own'
  <2>1. ~run[o].others /\ run[o].pc # "running"
    BY <1>2, StartedAreOps, RunTyped DEF Types, Stages
  <2> QED BY <1>2, <2>1, OwnCalls DEF Takes
<1>3. ASSUME NEW o \in Started, Work(o) PROVE Own'
  <2>0. /\ o \in Ids
        /\ run[o].pc \in {"running", "read", "open"} => Tool(o) # "mcp_call"
        /\ run[o].pc = "sent" => Tool(o) \in Requests /\ Tool(o) # "mcp_call"
        /\ run[o].pc \in {"thread", "starting", "calling"} => Tool(o) = "mcp_call"
    BY StartedAreOps DEF Types, Stages, Requests
  <2>1. CASE Start(o)
    <3>1. PICK to \in {"running", "thread", "sent"} : Takes(o, "queued", to, FALSE)
      BY <2>1, StartTakes
    <3>2. text' = text
      BY <2>1 DEF Start, fileVars
    <3> QED BY <1>1, <1>2, <3>1, <3>2
  <2>2. CASE EditReads(o)
    <3>1. text' = text /\ Tool(o) # "mcp_call"
      BY <2>0, <2>2 DEF EditReads, fileVars
    <3> QED BY <1>1, <2>2, <3>1, EditReadsTakes
  <2>3. CASE EditOpens(o)
    <3>1. Tool(o) # "mcp_call"
      BY <2>0, <2>3 DEF EditOpens
    <3> QED BY <1>1, <2>3, <3>1, EditOpensTakes
  <2>4. CASE EditWrites(o)
    <3>1. Tool(o) # "mcp_call"
      BY <2>0, <2>4 DEF EditWrites
    <3> QED BY <2>4, <3>1, EditThere, OwnWrites
  <2>5. CASE Answered(o)
    <3>1. Tool(o) \in Requests /\ Tool(o) # "mcp_call"
      BY <2>0, <2>5 DEF Answered
    <3>2. CASE Takes(o, "sent", "ended", FALSE) /\ UNCHANGED fileVars
      BY <1>1, <3>1, <3>2 DEF fileVars
    <3>3. CASE Takes(o, "sent", "ended", TRUE) /\ Effect(o)
      BY <3>1, <3>3, RequestThere, OwnWrites DEF Takes
    <3> QED BY <2>5, <3>2, <3>3, AnsweredTakes
  <2>6. CASE GiveUp(o)
    <3>1. text' = text /\ Tool(o) # "mcp_call"
      BY <2>0, <2>6 DEF GiveUp, fileVars
    <3> QED BY <1>1, <2>6, <3>1, GiveUpTakes
  <2>7. CASE EnsureThread(o)
    <3>1. text' = text /\ Tool(o) = "mcp_call"
      BY <2>0, <2>7 DEF EnsureThread, fileVars
    <3> QED BY <1>2, <2>7, <3>1, EnsureThreadTakes
  <2>8. CASE ThreadStarts(o)
    <3>1. text' = text /\ Tool(o) = "mcp_call"
      BY <2>0, <2>8 DEF ThreadStarts, fileVars
    <3> QED BY <1>2, <2>8, <3>1, ThreadStartsTakes
  <2>9. CASE ThreadFails(o)
    <3>1. text' = text /\ Tool(o) = "mcp_call"
      BY <2>0, <2>9 DEF ThreadFails, fileVars
    <3> QED BY <1>2, <2>9, <3>1, ThreadFailsTakes
  <2>10. CASE Called(o)
    <3>1. text' = text /\ Tool(o) = "mcp_call"
      BY <2>0, <2>10 DEF Called, fileVars
    <3> QED BY <1>2, <2>10, <3>1, CalledTakes
  <2>11. CASE EditFails(o)
    <3>1. Tool(o) # "mcp_call"
      BY <2>0, <2>11 DEF EditFails
    <3> QED BY <1>1, <2>11, <3>1, EditFailsTakes DEF fileVars
  <2> QED BY <1>3, <2>1, <2>2, <2>3, <2>4, <2>5, <2>6, <2>7, <2>8, <2>9, <2>10, <2>11 DEF Work
<1>4. ASSUME NEW o \in late, Late(o) PROVE Own'
  <2>1. /\ o \in Started /\ o \in Ids /\ Frame(o) /\ run'[o] = run[o] /\ (UNCHANGED fileVars \/ Effect(o))
        /\ Tool(o) \in Requests /\ Tool(o) # "mcp_call" /\ run[o].pc = "ended" /\ ~run[o].ok
    BY <1>4, LateFrame, StartedAreOps DEF Types, Stages, HasEnded, Requests
  <2>2. ~run'[o].others /\ ~run'[o].ok
    BY <2>1, RunTyped
  <2>3. CASE UNCHANGED fileVars
    <3>1. Writes(o)
      BY <2>1, <2>2, <2>3 DEF Writes, fileVars
    <3> QED BY <2>1, <3>1, OwnWrites
  <2>4. CASE Effect(o)
    BY <2>1, <2>2, <2>4, RequestThere, OwnWrites
  <2> QED BY <2>1, <2>3, <2>4
<1>5. ASSUME NEW b \in Batches, NEW parallel \in BOOLEAN, NEW ops \in Offers[b], Accept(b, ops, parallel)
      PROVE  Own'
  BY <1>0, <1>5, OwnQuiet DEF Accept, fileVars
<1>6. ASSUME NEW b \in Batches, Cancel(b) \/ Answer(b) PROVE Own'
  BY <1>0, <1>6, OwnQuiet DEF Cancel, Answer, fileVars
<1>7. CASE UNCHANGED vars \/ ServerGone
  BY <1>0, <1>7, OwnQuiet DEF vars, ServerGone, fileVars
<1> QED BY <1>3, <1>4, <1>5, <1>6, <1>7 DEF Next

-----------------------------------------------------------------------------
(* The theorems *)

LEMMA TypeKept ==
    ASSUME Types, Mutex, Threads, [Next]_vars
    PROVE  Types'
<1>1. Stages' /\ Batched' /\ Threads' /\ Mutex' /\ threadMu' \in Ids \cup {None} /\ threadID' \in BOOLEAN
  BY StagesKept, NextKeeps, ThreadsKept, MutexKept
<1>2. text' \in [Paths -> Texts] /\ applied' \subseteq Ids /\ spoilt' \subseteq Ids
  BY TextKept
<1>3. created' \in 0..Cardinality(Ids)
  BY <1>1, CallersFinite, CallersFiniteNext DEF Threads
<1> DEFINE Running == run' \in [Ids -> Runs] /\ \A o \in Ids : run'[o].others => run'[o].pc \in {"read", "open"}
           Calls == \A b \in Batches : batch'[b].ops \in Offers[b] \cup {<<>>}
           Few == cancelled' \subseteq Batches /\ late' \subseteq Ids
<1>4. run' = run => Running
  BY RunTyped
<1>5. batch' = batch => Calls
  BY DEF Types, TypeOK
<1>6. cancelled' = cancelled /\ late' \subseteq late => Few
  BY DEF Types, TypeOK
<1>7. ASSUME NEW b \in Batches, NEW parallel \in BOOLEAN, NEW ops \in Offers[b], Accept(b, ops, parallel)
      PROVE  Running /\ Calls /\ Few
  <2>1. Calls
    BY <1>7 DEF Accept, Types, TypeOK, Batched
  <2> QED BY <1>4, <1>6, <1>7, <2>1 DEF Accept
<1>8. ASSUME NEW b \in Batches, Cancel(b) PROVE Running /\ Calls /\ Few
  BY <1>4, <1>5, <1>8 DEF Cancel, Types, TypeOK
<1>9. ASSUME NEW b \in Batches, Answer(b) PROVE Running /\ Calls /\ Few
  <2>1. Calls
    BY <1>9 DEF Answer, Types, TypeOK, Batched
  <2> QED BY <1>4, <1>6, <1>9, <2>1 DEF Answer
<1>10. ASSUME NEW o \in Started, Work(o) PROVE Running /\ Calls /\ Few
  <2>1. o \in Ids /\ Frame(o) /\ (run'[o].others => run'[o].pc \in {"read", "open"})
    BY <1>10, WorkAdvances, StartedAreOps DEF Types, Advances, Takes
  <2>2. Running
    BY <2>1, RunTyped DEF Frame
  <2>3. late' \subseteq late \cup {o}
    <3>1. CASE Start(o) \/ EditReads(o) \/ EditOpens(o) \/ EditWrites(o) \/ EditFails(o)
      BY <3>1 DEF Start, EditReads, EditOpens, EditWrites, EditFails
    <3>2. CASE Answered(o) \/ GiveUp(o)
      BY <3>2 DEF Answered, GiveUp
    <3>3. CASE EnsureThread(o) \/ ThreadStarts(o) \/ ThreadFails(o) \/ Called(o)
      BY <3>3 DEF EnsureThread, ThreadStarts, ThreadFails, Called
    <3> QED BY <1>10, <3>1, <3>2, <3>3, Zenon DEF Work
  <2> QED BY <1>5, <2>1, <2>2, <2>3 DEF Frame, Types, TypeOK
<1>11. ASSUME NEW o \in late, Late(o) PROVE Running /\ Calls /\ Few
  <2>1. Frame(o) /\ run'[o] = run[o] /\ late' \subseteq late
    BY <1>11, LateFrame DEF Late
  <2>2. Running
    BY <2>1, RunTyped DEF Frame
  <2> QED BY <1>5, <1>6, <2>1, <2>2 DEF Frame
<1>12. UNCHANGED vars \/ ServerGone => Running /\ Calls /\ Few
  BY <1>4, <1>5, <1>6 DEF vars, ServerGone
<1>13. Running /\ Calls /\ Few
  BY <1>7, <1>8, <1>9, <1>10, <1>11, <1>12 DEF Next
<1>14. \A b \in Batches : /\ batch'[b].pc \in {"idle", "running", "rejected", "answered"}
                          /\ batch'[b].parallel \in BOOLEAN /\ batch'[b].failed \subseteq Index
  BY <1>1 DEF Batched
<1>15. gone' \in BOOLEAN
  BY GoneSteady DEF Types, TypeOK
<1>16. TypeOK'
  BY <1>1, <1>2, <1>3, <1>13, <1>14, <1>15 DEF TypeOK, Runs, Places
<1> QED BY <1>1, <1>16 DEF Types

IInv == Types /\ Mutex /\ Threads /\ Truth /\ Apart /\ Broken /\ Own

LEMMA Initially == Init => IInv
<1> SUFFICES ASSUME Init PROVE IInv
  OBVIOUS
<1>1. Started = {}
  BY DEF Init, NoBatch, Started
<1>2. Queued \in Runs /\ Queued.pc = "queued" /\ ~Queued.ok /\ ~Queued.others
  BY DEF Queued, Runs, Places
<1>3. \A o \in Ids : run[o] = Queued
  BY DEF Init
<1>4. text \in [Paths -> Texts]
  BY DEF Init, Texts
<1>5. Batched
  BY DEF Init, Batched, NoBatch
<1>6. Stages /\ Mutex
  BY <1>2, <1>3, EncodingAssumption DEF Init, Stages, Mutex
<1>7. created = 0 /\ Threads
  BY CallersFinite DEF Init, Threads, OneThread, Abandoned
<1>8. TypeOK
  <2>1. run \in [Ids -> Runs] /\ \A o \in Ids : run[o].others => run[o].pc \in {"read", "open"}
    BY <1>2, <1>3 DEF Init
  <2>2. \A b \in Batches : /\ batch[b].pc \in {"idle", "running", "rejected", "answered"}
                           /\ batch[b].ops \in Offers[b] \cup {<<>>}
                           /\ batch[b].parallel \in BOOLEAN /\ batch[b].failed \subseteq Index
    BY DEF Init, NoBatch
  <2>3. created \in 0..Cardinality(Ids)
    BY <1>7, CallersFinite
  <2> QED BY <1>4, <2>1, <2>2, <2>3 DEF Init, TypeOK, Runs, Places
<1>9. Truth /\ Own
  BY <1>2, <1>3 DEF Init, NoBatch, Truth, Own
<1>10. Apart /\ Broken
  BY EncodingAssumption, BatchAssumption DEF Init, NoBatch, Apart, Broken
<1> QED BY <1>5, <1>6, <1>7, <1>8, <1>9, <1>10 DEF IInv, Types

LEMMA Invariant == Spec => []IInv
<1>1. IInv /\ [Next]_vars => IInv'
  BY TypeKept, MutexKept, ThreadsKept, TruthKept, ApartKept, BrokenKept, OwnKept DEF IInv
<1> QED BY <1>1, Initially, PTL DEF Spec

\* Every reachable state of the calls, their operations and the files is well
\* typed; in particular no operation starts more than one thread.
THEOREM TypeCorrect == Spec => []TypeOK
<1>1. IInv => TypeOK BY DEF IInv, Types
<1> QED BY <1>1, Invariant, PTL

\* Calls of mcp_call that need a thread at once share one (ensureThread): a
\* second exists only for a call that was cancelled, or lost the app-server, while
\* it was started.
THEOREM ThreadShared == Spec => []OneThread
<1>1. IInv => OneThread BY DEF IInv, Threads
<1> QED BY <1>1, Invariant, PTL

\* What an answer of multi_tool counts as done has taken effect; what it calls
\* failed can have one only in a call that was cancelled, when the app-server has
\* gone (Client.Request), or when the write of an edit failed on the way.
THEOREM TruthTold == Spec => []AnswerTellsTruth
<1>1. IInv => AnswerTellsTruth
  <2> SUFFICES ASSUME IInv, NEW b \in Batches, batch[b].pc = "answered", NEW o \in Members(b),
                      Tool(o) # "mcp_call"
               PROVE  IF o[2] \in batch[b].failed
                      THEN o \in applied \ spoilt => Unheard(o) ELSE o \in applied
    BY DEF AnswerTellsTruth, Tool
  <2>1. o \in Ids /\ o[1] = b /\ batch[b].failed = FailedOnes(b)
    BY DEF Members, IInv, Truth
  <2>2. o[2] \in FailedOnes(b) <=> ~run[o].ok
    <3>1. \A m \in Members(b) : m[2] = o[2] => m = o
      BY <2>1 DEF Members, Ids
    <3> QED BY <3>1 DEF FailedOnes
  <2> QED BY <2>1, <2>2 DEF IInv, Truth
<1> QED BY <1>1, Invariant, PTL

\* What a batch reports as done to a file is there when it answers, and stays
\* there while no other call changes that file, in whatever order it ran.
THEOREM WorkStays == Spec => []OwnWorkStays
<1>1. IInv => OwnWorkStays
  <2> SUFFICES ASSUME IInv, NEW b \in Batches, batch[b].pc = "answered", NEW o \in Members(b),
                      run[o].ok, Op(o).tool # "mcp_call", Alone(b, Op(o).path)
               PROVE  LET p == Op(o).path IN
                      CASE Op(o).tool = "fs_remove" -> text[p] = None
                        [] Op(o).tool = "fs_copy" -> text[p] # None
                        [] OTHER -> Whole(p) /\ o \in text[p]
    BY DEF OwnWorkStays
  <2>1. o \in Ids /\ o[1] = b /\ o \in Started
    BY DEF Members, Started
  <2>2. There(o)
    BY <2>1 DEF IInv, Own, Tool
  <2>3. Tool(o) \in {"fs_edit_file", "fs_write_file", "fs_remove", "fs_copy"}
    BY <2>1, StartedAreOps, OpFields DEF IInv, Types, Tool
  <2> QED BY <2>2, <2>3 DEF There, Tool
<1> QED BY <1>1, Invariant, PTL
=============================================================================
