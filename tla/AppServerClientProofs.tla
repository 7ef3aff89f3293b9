------------------------- MODULE AppServerClientProofs -------------------------
(***************************************************************************)
(* Proofs about AppServerClient for any number of requests, any capacity of *)
(* the pipes and any amount of streamed output: the table holds nothing but *)
(* the requests in flight, a caller gets the reply to its own request, and   *)
(* by then all the output sent before the reply is stored.                  *)
(***************************************************************************)
EXTENDS AppServerClient, FiniteSetTheorems, TLAPS

Slots == {Empty, Failed} \cup Replies

\* The types the arguments need.
Types ==
    /\ in \in Seq(Requests \cup {Answer}) /\ out \in Seq(Messages) /\ work \in SUBSET Requests
    /\ nextID \in Nat /\ pending \in [Ids -> Calls \cup {Nobody}]
    /\ call \in [Calls -> [pc : {"idle", "registered", "writing", "waiting", "returned"},
                           id : Nat, outcome : Slots]]
    /\ ch \in [Calls -> Slots]
    /\ reader \in {Scanning, [pc |-> "asked"], [pc |-> "answering"], [pc |-> "stopped"]}
                  \cup [pc : {"delivering"}, to : Calls, reply : Replies]

Started == {c \in Calls : call[c].pc # "idle"}

\* Identifiers count the requests, so none is taken twice and all fit the table.
Numbering ==
    /\ nextID = Cardinality(Started)
    /\ \A c \in Started : call[c].id \in 1..nextID
    /\ \A c, d \in Started : call[c].id = call[d].id => c = d

\* A request or reply on its way carries the identifier its call was given.
Genuine(m) ==
    m.kind \in {"request", "reply"} => /\ m.call \in Calls /\ call[m.call].pc # "idle"
                                       /\ call[m.call].id = m.id

Correlated ==
    /\ \A i \in 1..Len(in) : Genuine(in[i])
    /\ \A q \in work : Genuine(q)
    /\ \A i \in 1..Len(out) : Genuine(out[i])
    /\ reader.pc = "delivering" => reader.reply.call = reader.to

\* What lies in a response channel is for the request that waits there.
OwnSlot == \A c \in Calls : ch[c].kind = "reply" => ch[c].call = c

IInv == Types /\ Numbering /\ PendingIsInFlight /\ Correlated /\ OwnSlot /\ OwnReply

-----------------------------------------------------------------------------
\* A step that registers nothing: no call starts, no identifier changes.
NoneStarts ==
    /\ nextID' = nextID
    /\ \A c \in Calls : /\ call'[c].id = call[c].id
                        /\ call'[c].pc = "idle" <=> call[c].pc = "idle"

LEMMA NumberingKept == ASSUME Numbering, NoneStarts PROVE Numbering'
<1>1. Started' = Started
  BY DEF NoneStarts, Started
<1> QED BY <1>1 DEF NoneStarts, Numbering, Started

\* Whatever is on its way keeps the identifier of its call.
GenuineStays == \A m : Genuine(m) => Genuine(m)'

LEMMA GenuineKept == ASSUME NoneStarts PROVE GenuineStays
BY DEF GenuineStays, NoneStarts, Genuine

\* The messages on their way after the step were there before it, or are genuine.
Carried ==
    /\ \A i \in 1..Len(in') : (\E j \in 1..Len(in) : in'[i] = in[j]) \/ Genuine(in[i])'
    /\ \A q \in work' : q \in work \/ \E j \in 1..Len(in) : q = in[j]
    /\ \A i \in 1..Len(out') : (\E j \in 1..Len(out) : out'[i] = out[j]) \/ Genuine(out[i])'
    /\ reader'.pc = "delivering" => reader'.reply.call = reader'.to

LEMMA CorrelatedKept == ASSUME Correlated, GenuineStays, Carried PROVE Correlated'
<1>1. \A i \in 1..Len(in') : Genuine(in[i])'
  BY DEF Correlated, GenuineStays, Carried, Genuine
<1>2. \A q \in work' : Genuine(q)'
  BY DEF Correlated, GenuineStays, Carried
<1>3. ASSUME NEW i \in 1..Len(out') PROVE Genuine(out[i])'
  <2>1. CASE \E j \in 1..Len(out) : out'[i] = out[j]
    <3>1. PICK m : m = out'[i] /\ Genuine(m)
      BY <2>1 DEF Correlated
    <3> QED BY <3>1 DEF GenuineStays, Genuine
  <2> QED BY <2>1 DEF Carried
<1> QED BY <1>1, <1>2, <1>3 DEF Correlated, Carried

-----------------------------------------------------------------------------
(* Client.Request. *)

CallRecords == [pc : {"idle", "registered", "writing", "waiting", "returned"},
                id : Nat, outcome : Slots]

\* A call may be taken from one place to another.
LEMMA CallMoves ==
    ASSUME call \in [Calls -> CallRecords], NEW c \in Calls, NEW r \in CallRecords,
           call' = [call EXCEPT ![c] = r]
    PROVE  call' \in [Calls -> CallRecords]
  OBVIOUS

LEMMA RegisterStep == ASSUME IInv, NEW c \in Calls, Register(c) PROVE IInv'
<1> USE DEF serverVars, pipeVars, closeVars
<1>1. Started' = Started \cup {c} /\ c \notin Started
  BY DEF IInv, Types, Register, Started
<1>2. nextID + 1 \in Ids /\ nextID' = Cardinality(Started')
  <2>1. IsFiniteSet(Started) /\ Started \cup {c} \in SUBSET Calls
    BY BoundsAssumption, FS_Subset DEF Started
  <2>2. Cardinality(Started \cup {c}) = nextID + 1
    BY <1>1, <2>1, FS_AddElement DEF IInv, Numbering
  <2>3. Cardinality(Started \cup {c}) <= Cardinality(Calls) /\ Cardinality(Calls) \in Nat
    BY <2>1, BoundsAssumption, FS_Subset, FS_CardinalityType
  <2> QED BY <1>1, <2>2, <2>3 DEF IInv, Types, Ids, Register
<1>3. Types'
  <2>1. pending' \in [Ids -> Calls \cup {Nobody}] /\ nextID' \in Nat
    BY <1>2 DEF IInv, Types, Register
  <2>2. call' \in [Calls -> [pc : {"idle", "registered", "writing", "waiting", "returned"},
                             id : Nat, outcome : Slots]]
    <3>1. call \in [Calls -> CallRecords] /\ call[c] \in CallRecords
      BY DEF IInv, Types, CallRecords
    <3>2. [call[c] EXCEPT !.pc = "registered", !.id = nextID'] \in CallRecords
      BY <2>1, <3>1 DEF CallRecords
    <3>3. call' = [call EXCEPT ![c] = [call[c] EXCEPT !.pc = "registered", !.id = nextID']]
      BY DEF Register
    <3> QED BY <3>1, <3>2, <3>3, CallMoves DEF CallRecords
  <2> QED BY <2>1, <2>2 DEF IInv, Types, Register
<1>4. /\ \A d \in Calls \ {c} : call'[d] = call[d]
      /\ call'[c].id = nextID + 1 /\ call'[c].pc = "registered" /\ call'[c].outcome = call[c].outcome
  BY DEF IInv, Types, Register
<1>5. Numbering'
  <2>1. \A d \in Started : call'[d].id = call[d].id /\ call'[d].id \in 1..nextID
    BY <1>1, <1>4 DEF IInv, Numbering, Started
  <2>2. nextID' = nextID + 1 /\ nextID \in Nat
    BY DEF IInv, Types, Register
  <2>3. \A d \in Started' : call'[d].id \in 1..nextID'
    BY <1>1, <1>4, <2>1, <2>2
  <2>4. \A d, e \in Started' : call'[d].id = call'[e].id => d = e
    BY <1>1, <1>4, <2>1, <2>2 DEF IInv, Numbering
  <2> QED BY <1>2, <2>3, <2>4 DEF Numbering
<1>6. PendingIsInFlight'
  <2>1. pending' = [pending EXCEPT ![nextID + 1] = c] /\ call[c].pc = "idle"
    BY DEF Register
  <2>2. \A i \in Ids : pending[i] # c
    BY <2>1, BoundsAssumption DEF IInv, PendingIsInFlight, InFlight
  <2>3. ASSUME NEW i \in Ids, pending'[i] # Nobody
        PROVE  InFlight(pending[i])' /\ call'[pending'[i]].id = i
    <3>1. CASE i = nextID + 1
      BY <1>2, <1>4, <2>1, <3>1 DEF IInv, Types, InFlight
    <3>2. CASE i # nextID + 1
      <4>1. pending'[i] = pending[i] /\ pending[i] \in Calls \ {c}
        BY <2>1, <2>2, <2>3, <3>2 DEF IInv, Types
      <4> QED BY <1>4, <2>3, <4>1 DEF IInv, PendingIsInFlight, InFlight
    <3> QED BY <3>1, <3>2
  <2> QED BY <2>3 DEF PendingIsInFlight
<1>7. Correlated'
  <2>1. GenuineStays
    BY <1>4 DEF GenuineStays, Genuine, Register
  <2>2. Carried
    BY DEF IInv, Correlated, Carried, Register
  <2> QED BY <2>1, <2>2, CorrelatedKept DEF IInv
<1>8. OwnSlot' /\ OwnReply'
  BY <1>4 DEF IInv, OwnSlot, OwnReply, Register
<1> QED BY <1>3, <1>5, <1>6, <1>7, <1>8 DEF IInv

LEMMA LockStep == ASSUME IInv, NEW c \in Calls, Lock(c) PROVE IInv'
<1> USE DEF serverVars, pipeVars, tableVars, closeVars
<1>1. Types'
  BY DEF IInv, Types, Lock
<1>2. /\ NoneStarts
      /\ \A d \in Calls : call'[d].outcome = call[d].outcome /\ (InFlight(d) => InFlight(d)')
  BY DEF IInv, Types, Lock, NoneStarts, InFlight
<1>3. Numbering'
  BY <1>2, NumberingKept DEF IInv
<1>4. Carried
  BY DEF IInv, Correlated, Carried, Lock
<1>5. Correlated'
  BY <1>2, <1>4, GenuineKept, CorrelatedKept DEF IInv
<1>6. PendingIsInFlight' /\ OwnSlot' /\ OwnReply'
  BY <1>2 DEF IInv, Types, PendingIsInFlight, OwnSlot, OwnReply, NoneStarts, Lock
<1> QED BY <1>1, <1>3, <1>5, <1>6 DEF IInv

LEMMA WriteStep == ASSUME IInv, NEW c \in Calls, Write(c) PROVE IInv'
<1> USE DEF serverVars, tableVars, closeVars
<1> DEFINE m == [kind |-> "request", id |-> call[c].id, call |-> c]
<1>1. /\ NoneStarts
      /\ \A d \in Calls : call'[d].outcome = call[d].outcome /\ (InFlight(d) => InFlight(d)')
  BY DEF IInv, Types, Write, NoneStarts, InFlight
<1>2. m \in Requests
  <2>1. call[c].id \in 1..nextID /\ nextID <= Cardinality(Calls)
    <3>1. Started \in SUBSET Calls
      BY DEF Started
    <3> QED BY <3>1, BoundsAssumption, FS_Subset DEF IInv, Numbering, Started, Write
  <2>2. nextID \in Nat /\ Cardinality(Calls) \in Nat
    BY BoundsAssumption, FS_CardinalityType DEF IInv, Types
  <2> QED BY <2>1, <2>2 DEF Requests, Ids
<1>3. in' = Append(in, m) /\ out' = out /\ work' = work /\ reader' = reader
  BY DEF Write
<1>4. Types'
  <2>1. in' \in Seq(Requests \cup {Answer})
    BY <1>2, <1>3 DEF IInv, Types
  <2> QED BY <2>1 DEF IInv, Types, Write
<1>5. Numbering'
  BY <1>1, NumberingKept DEF IInv
<1>6. Correlated'
  <2>1. \A i \in 1..Len(in') : in'[i] = m \/ \E j \in 1..Len(in) : in'[i] = in[j]
    BY <1>3 DEF IInv, Types
  <2>2. m.call = c /\ call'[c].pc = "waiting" /\ call'[c].id = m.id
    BY DEF IInv, Types, Write
  <2>3. Carried
    BY <1>3, <2>1, <2>2 DEF IInv, Correlated, Carried, Genuine
  <2> QED BY <1>1, <2>3, GenuineKept, CorrelatedKept DEF IInv
<1>7. PendingIsInFlight' /\ OwnSlot' /\ OwnReply'
  BY <1>1 DEF IInv, Types, PendingIsInFlight, OwnSlot, OwnReply, NoneStarts, Write
<1> QED BY <1>4, <1>5, <1>6, <1>7 DEF IInv

LEMMA ReturnStep ==
    ASSUME IInv, NEW c \in Calls, NEW o \in Slots, o.kind = "reply" => o.call = c,
           call[c].pc # "idle", Return(c, o),
           UNCHANGED <<in, out, work, reader, nextID>>, ch' \in [Calls -> Slots], OwnSlot'
    PROVE  IInv'
<1>1. Types'
  <2>1. pending' \in [Ids -> Calls \cup {Nobody}]
    BY DEF IInv, Types, Return
  <2>2. call' \in [Calls -> [pc : {"idle", "registered", "writing", "waiting", "returned"},
                             id : Nat, outcome : Slots]]
    <3>1. call \in [Calls -> CallRecords] /\ call[c] \in CallRecords
      BY DEF IInv, Types, CallRecords
    <3>2. [call[c] EXCEPT !.pc = "returned", !.outcome = o] \in CallRecords
      BY <3>1 DEF CallRecords
    <3>3. call' = [call EXCEPT ![c] = [call[c] EXCEPT !.pc = "returned", !.outcome = o]]
      BY DEF Return
    <3> QED BY <3>1, <3>2, <3>3, CallMoves DEF CallRecords
  <2> QED BY <2>1, <2>2 DEF IInv, Types
<1>2. /\ \A d \in Calls \ {c} : call'[d] = call[d]
      /\ call'[c].pc = "returned" /\ call'[c].id = call[c].id /\ call'[c].outcome = o
  BY DEF IInv, Types, Return
<1>3. NoneStarts
  BY <1>2 DEF NoneStarts
<1>4. Numbering'
  BY <1>3, NumberingKept DEF IInv
<1>5. Correlated'
  <2>1. Carried
    BY DEF IInv, Correlated, Carried
  <2> QED BY <1>3, <2>1, GenuineKept, CorrelatedKept DEF IInv
<1>6. PendingIsInFlight'
  <2>1. ASSUME NEW i \in Ids, pending'[i] # Nobody
        PROVE  InFlight(pending[i])' /\ call'[pending'[i]].id = i
    <3>1. pending'[i] = pending[i] /\ i # call[c].id
      BY <2>1 DEF IInv, Types, Return
    <3>2. pending[i] \in Calls \ {c} /\ InFlight(pending[i]) /\ call[pending[i]].id = i
      BY <2>1, <3>1 DEF IInv, Types, PendingIsInFlight
    <3> QED BY <1>2, <3>1, <3>2 DEF InFlight
  <2> QED BY <2>1 DEF PendingIsInFlight
<1>7. OwnReply'
  BY <1>2 DEF IInv, OwnReply
<1> QED BY <1>1, <1>4, <1>5, <1>6, <1>7 DEF IInv

LEMMA RequestStep == ASSUME IInv, NEW c \in Calls, Request(c) PROVE IInv'
<1> USE DEF serverVars, pipeVars, closeVars
<1>1. Failed \in Slots /\ Failed.kind # "reply"
  BY DEF Slots, Failed
<1>2. CASE WriteFails(c)
  BY <1>1, <1>2, ReturnStep DEF IInv, Types, OwnSlot, WriteFails
<1>3. CASE SeeDone(c)
  BY <1>1, <1>3, ReturnStep DEF IInv, Types, OwnSlot, SeeDone
<1>4. CASE Cancel(c)
  BY <1>1, <1>4, ReturnStep DEF IInv, Types, OwnSlot, Cancel
<1>5. CASE Receive(c)
  <2>1. PICK o \in Slots : o = ch[c]
    BY DEF IInv, Types
  <2>2. ch' \in [Calls -> Slots] /\ OwnSlot'
    BY <1>5 DEF IInv, Types, OwnSlot, Receive, Slots, Empty
  <2> QED BY <1>5, <2>1, <2>2, ReturnStep DEF IInv, OwnSlot, Receive
<1> QED BY <1>2, <1>3, <1>4, <1>5, RegisterStep, LockStep, WriteStep DEF Request

-----------------------------------------------------------------------------
(* Everybody else leaves the calls alone. *)

LEMMA QuietStep ==
    ASSUME IInv, UNCHANGED <<tableVars, call, ch>>, Types', Carried
    PROVE  IInv'
<1>1. NoneStarts
  BY DEF NoneStarts, tableVars
<1>2. Numbering' /\ Correlated'
  BY <1>1, NumberingKept, GenuineKept, CorrelatedKept DEF IInv
<1>3. PendingIsInFlight' /\ OwnSlot' /\ OwnReply'
  BY DEF IInv, PendingIsInFlight, InFlight, OwnSlot, OwnReply, tableVars
<1> QED BY <1>2, <1>3 DEF IInv

LEMMA FailAllStep ==
    ASSUME IInv, FailAll, UNCHANGED <<in, out, work, nextID, call>>,
           reader' \in {reader, [pc |-> "stopped"]}
    PROVE  IInv'
<1>1. Types' /\ OwnSlot'
  BY DEF IInv, Types, FailAll, Slots, Failed, OwnSlot
<1>2. NoneStarts /\ Carried
  BY DEF IInv, NoneStarts, Carried, Correlated
<1>3. Numbering' /\ Correlated'
  BY <1>2, NumberingKept, GenuineKept, CorrelatedKept DEF IInv
<1>4. PendingIsInFlight' /\ OwnReply'
  BY DEF IInv, PendingIsInFlight, OwnReply, FailAll
<1> QED BY <1>1, <1>3, <1>4 DEF IInv

LEMMA ReadLoopStep == ASSUME IInv, ReadLoop PROVE IInv'
<1> USE DEF serverVars, pipeVars, tableVars, closeVars
<1>1. CASE ReadReply
  <2>1. PICK m : m = Head(out)
    OBVIOUS
  <2>2. /\ out # <<>> /\ m = out[1] /\ m \in Replies /\ m.kind = "reply"
        /\ out' = Tail(out)
        /\ reader' = IF pending[m.id] = Nobody THEN Scanning
                     ELSE [pc |-> "delivering", to |-> pending[m.id], reply |-> m]
    BY <1>1, <2>1 DEF IInv, Types, ReadReply, Reading, Messages, Replies
  <2>3. Genuine(m) /\ m.id \in Ids /\ m.call \in Calls
    BY <2>2 DEF IInv, Types, Correlated, Replies
  <2>4. pending[m.id] # Nobody => pending[m.id] = m.call
    <3>1. ASSUME pending[m.id] # Nobody
          PROVE  pending[m.id] \in Started /\ call[pending[m.id]].id = m.id
      BY <2>3, <3>1 DEF IInv, Types, PendingIsInFlight, InFlight, Started
    <3>2. m.call \in Started /\ call[m.call].id = m.id
      BY <2>2, <2>3 DEF Genuine, Started
    <3> QED BY <3>1, <3>2 DEF IInv, Numbering
  <2>5. \A i \in 1..Len(out') : out'[i] = out[i + 1] /\ i + 1 \in 1..Len(out)
    BY <2>2 DEF IInv, Types
  <2>6. Types'
    BY <1>1, <2>2, <2>3, <2>4 DEF IInv, Types, ReadReply
  <2>7. Carried
    BY <1>1, <2>2, <2>4, <2>5 DEF IInv, Correlated, Carried, ReadReply, Scanning
  <2> QED BY <1>1, <2>6, <2>7, QuietStep DEF ReadReply
<1>2. CASE Deliver
  <2>1. Types' /\ OwnSlot'
    BY <1>2 DEF IInv, Types, OwnSlot, Correlated, Deliver, Slots, Replies, Scanning
  <2>2. NoneStarts /\ Carried
    BY <1>2 DEF IInv, NoneStarts, Carried, Correlated, Deliver, Scanning
  <2>3. Numbering' /\ Correlated'
    BY <2>2, NumberingKept, GenuineKept, CorrelatedKept DEF IInv
  <2>4. PendingIsInFlight' /\ OwnReply'
    BY <1>2 DEF IInv, PendingIsInFlight, InFlight, OwnReply, Deliver
  <2> QED BY <2>1, <2>3, <2>4 DEF IInv
<1>3. CASE ReadChunk \/ ReadAsk
  <2>1. out # <<>> /\ out' = Tail(out)
    BY <1>3 DEF ReadChunk, ReadAsk, Reading
  <2>2. \A i \in 1..Len(out') : out'[i] = out[i + 1] /\ i + 1 \in 1..Len(out)
    BY <2>1 DEF IInv, Types
  <2>3. Types' /\ Carried
    BY <1>3, <2>1, <2>2 DEF IInv, Types, Correlated, Carried, ReadChunk, ReadAsk
  <2> QED BY <1>3, <2>3, QuietStep DEF ReadChunk, ReadAsk
<1>4. CASE LockAnswer
  <2>1. Types' /\ Carried
    BY <1>4 DEF IInv, Types, Correlated, Carried, LockAnswer
  <2> QED BY <1>4, <2>1, QuietStep DEF LockAnswer
<1>5. CASE WriteAnswer
  <2>1. CASE in' = in
    <3>1. Types' /\ Carried
      BY <1>5, <2>1 DEF IInv, Types, Correlated, Carried, WriteAnswer, Scanning
    <3> QED BY <1>5, <3>1, QuietStep DEF WriteAnswer
  <2>2. CASE in' = Append(in, Answer)
    <3>1. in' \in Seq(Requests \cup {Answer})
      BY <2>2 DEF IInv, Types
    <3>2. \A i \in 1..Len(in') : in'[i] = Answer \/ \E j \in 1..Len(in) : in'[i] = in[j]
      BY <2>2 DEF IInv, Types
    <3>3. \A i \in 1..Len(in') : (\E j \in 1..Len(in) : in'[i] = in[j]) \/ Genuine(in[i])'
      BY <3>2 DEF Genuine, Answer
    <3>4. Types' /\ Carried
      BY <1>5, <3>1, <3>3 DEF IInv, Types, Correlated, Carried, WriteAnswer, Scanning
    <3> QED BY <1>5, <3>4, QuietStep DEF WriteAnswer
  <2> QED BY <1>5, <2>1, <2>2 DEF WriteAnswer
<1>6. CASE ReaderFails
  BY <1>6, FailAllStep DEF ReaderFails
<1>7. CASE ReaderEnds
  <2>1. Types' /\ Carried
    BY <1>7 DEF IInv, Types, Correlated, Carried, ReaderEnds
  <2> QED BY <1>7, <2>1, QuietStep DEF ReaderEnds
<1> QED BY <1>1, <1>2, <1>3, <1>4, <1>5, <1>6, <1>7 DEF ReadLoop

LEMMA WaitStep == ASSUME IInv, Wait \/ Close PROVE IInv'
<1> USE DEF serverVars, pipeVars, tableVars, closeVars
<1>1. CASE FailPending
  BY <1>1, FailAllStep DEF FailPending
<1>2. CASE WaitReturns \/ CloseDone \/ Close
  <2>1. UNCHANGED <<in, out, work, nextID, pending, call, ch, reader>>
    BY <1>2 DEF WaitReturns, CloseDone, Close
  <2>2. Types' /\ Carried
    BY <2>1 DEF IInv, Types, Correlated, Carried
  <2> QED BY <2>1, <2>2, QuietStep
<1> QED BY <1>1, <1>2 DEF Wait

-----------------------------------------------------------------------------
(* The app-server. *)

LEMMA SendKeeps ==
    ASSUME IInv, NEW m \in Messages, Genuine(m), Send(m), work' \in SUBSET work,
           UNCHANGED <<in, tableVars, call, ch, reader>>
    PROVE  IInv'
<1>1. out' = Append(out, m)
  BY DEF Send
<1>2. \A i \in 1..Len(out') : out'[i] = m \/ \E j \in 1..Len(out) : out'[i] = out[j]
  BY <1>1 DEF IInv, Types
<1>3. \A i \in 1..Len(out') : (\E j \in 1..Len(out) : out'[i] = out[j]) \/ Genuine(out[i])'
  BY <1>2 DEF Genuine
<1>4. out' \in Seq(Messages)
  BY <1>1 DEF IInv, Types
<1>5. Types'
  BY <1>4 DEF IInv, Types, tableVars
<1>6. Carried
  BY <1>3 DEF IInv, Correlated, Carried
<1> QED BY <1>5, <1>6, QuietStep

LEMMA ServerStep == ASSUME IInv, Server PROVE IInv'
<1> USE DEF serverVars, pipeVars, tableVars, closeVars
<1>1. CASE \E q \in work : ServerReplies(q)
  <2>1. PICK q \in work : ServerReplies(q)
    BY <1>1
  <2> DEFINE m == [kind |-> "reply", id |-> q.id, call |-> q.call]
  <2>2. q \in Requests /\ Genuine(q)
    BY <2>1 DEF IInv, Types, Correlated
  <2>3. m \in Messages /\ Genuine(m)
    BY <2>2 DEF Requests, Replies, Messages, Genuine
  <2>4. Send(m)
    BY <2>1 DEF ServerReplies
  <2> HIDE DEF m
  <2> QED BY <2>1, <2>3, <2>4, SendKeeps DEF ServerReplies
<1>2. CASE \E q \in work : ServerStreams(q)
  <2>1. PICK q \in work : ServerStreams(q)
    BY <1>2
  <2> DEFINE m == [kind |-> "chunk", call |-> q.call]
  <2>2. m \in Messages /\ Genuine(m)
    BY <2>1 DEF IInv, Types, Requests, Messages, Genuine
  <2>3. Send(m)
    BY <2>1 DEF ServerStreams
  <2> HIDE DEF m
  <2> QED BY <2>1, <2>2, <2>3, SendKeeps DEF ServerStreams
<1>3. CASE \E q \in work : ServerRepliesTooMuch(q)
  <2>1. PICK q \in work : ServerRepliesTooMuch(q)
    BY <1>3
  <2>2. [kind |-> "oversized"] \in Messages /\ Genuine([kind |-> "oversized"])
    BY DEF Messages, Genuine
  <2> QED BY <2>1, <2>2, SendKeeps DEF ServerRepliesTooMuch
<1>4. CASE ServerAsks
  <2>1. [kind |-> "ask"] \in Messages /\ Genuine([kind |-> "ask"])
    BY DEF Messages, Genuine
  <2> QED BY <1>4, <2>1, SendKeeps DEF ServerAsks
<1>5. CASE ServerReads
  <2>1. in # <<>> /\ in' = Tail(in) /\ work' \subseteq work \cup ({in[1]} \ {Answer})
    BY <1>5 DEF ServerReads
  <2>2. \A i \in 1..Len(in') : in'[i] = in[i + 1] /\ i + 1 \in 1..Len(in)
    BY <2>1 DEF IInv, Types
  <2>3. 1 \in 1..Len(in) /\ in[1] \in Requests \cup {Answer}
    BY <2>1 DEF IInv, Types
  <2>4. Types' /\ Carried
    BY <1>5, <2>1, <2>2, <2>3 DEF IInv, Types, Correlated, Carried, ServerReads
  <2> QED BY <1>5, <2>4, QuietStep DEF ServerReads
<1>6. CASE ServerExits
  <2>1. Types' /\ Carried
    BY <1>6 DEF IInv, Types, Correlated, Carried, ServerExits
  <2> QED BY <1>6, <2>1, QuietStep DEF ServerExits
<1> QED BY <1>1, <1>2, <1>3, <1>4, <1>5, <1>6 DEF Server

-----------------------------------------------------------------------------
LEMMA Initially == Init => IInv
<1> SUFFICES ASSUME Init PROVE IInv
  OBVIOUS
<1>1. Started = {} /\ Cardinality({}) = 0
  BY FS_EmptySet DEF Init, Started, Fresh
<1>2. Numbering
  BY <1>1 DEF Init, Numbering
<1>3. Types
  BY DEF Init, Types, Fresh, Slots
<1>4. PendingIsInFlight /\ Correlated /\ OwnSlot /\ OwnReply
  BY DEF Init, PendingIsInFlight, Correlated, OwnSlot, OwnReply, Fresh, Empty, Scanning
<1> QED BY <1>2, <1>3, <1>4 DEF IInv

LEMMA Inductive == IInv /\ [Next]_vars => IInv'
<1> SUFFICES ASSUME IInv, [Next]_vars PROVE IInv'
  OBVIOUS
<1>1. CASE Next
  BY <1>1, RequestStep, ReadLoopStep, WaitStep, ServerStep DEF Next
<1>2. CASE UNCHANGED vars
  <2>1. Types' /\ Carried
    BY <1>2 DEF IInv, Types, Correlated, Carried, vars, serverVars, pipeVars, tableVars
  <2> QED BY <1>2, <2>1, QuietStep DEF vars
<1> QED BY <1>1, <1>2

\* Client.pending holds nothing but the requests in flight, each under its own
\* identifier: whoever gave up, was failed or was answered has left no entry.
THEOREM NoLeak == Spec => []PendingIsInFlight
<1>1. IInv => PendingIsInFlight
  BY DEF IInv
<1> QED BY Initially, Inductive, <1>1, PTL DEF Spec

\* The result Client.Request returns is the reply to its own request, however
\* the replies are ordered, and however many other requests come and go.
THEOREM RightReply == Spec => []OwnReply
<1>1. IInv => OwnReply
  BY DEF IInv
<1> QED BY Initially, Inductive, <1>1, PTL DEF Spec

-----------------------------------------------------------------------------
(* How much output of a call lies in the pipe. *)

IsChunk(m, c) == m.kind = "chunk" /\ m.call = c
Chunks(s, c) == {i \in 1..Len(s) : IsChunk(s[i], c)}

LEMMA ChunksFinite ==
    ASSUME NEW s \in Seq(Messages), NEW c
    PROVE  IsFiniteSet(Chunks(s, c)) /\ Cardinality(Chunks(s, c)) \in Nat
<1>1. IsFiniteSet(1..Len(s)) /\ Chunks(s, c) \in SUBSET (1..Len(s))
  BY FS_Interval DEF Chunks
<1>2. IsFiniteSet(Chunks(s, c))
  BY <1>1, FS_Subset
<1> QED BY <1>2, FS_CardinalityType

LEMMA ChunkAppended ==
    ASSUME NEW s \in Seq(Messages), NEW m \in Messages, NEW c
    PROVE  /\ IsChunk(m, c) => Cardinality(Chunks(Append(s, m), c)) = Cardinality(Chunks(s, c)) + 1
           /\ ~IsChunk(m, c) => Chunks(Append(s, m), c) = Chunks(s, c)
<1> DEFINE t == Append(s, m)
<1>1. Len(t) = Len(s) + 1 /\ Len(s) \in Nat /\ t[Len(s) + 1] = m /\ \A i \in 1..Len(s) : t[i] = s[i]
  OBVIOUS
<1> HIDE DEF t
<1>2. IsChunk(m, c) => Chunks(t, c) = Chunks(s, c) \cup {Len(s) + 1} /\ Len(s) + 1 \notin Chunks(s, c)
  BY <1>1 DEF Chunks
<1>3. ~IsChunk(m, c) => Chunks(t, c) = Chunks(s, c)
  BY <1>1 DEF Chunks
<1>4. IsChunk(m, c) => Cardinality(Chunks(t, c)) = Cardinality(Chunks(s, c)) + 1
  BY <1>2, ChunksFinite, FS_AddElement
<1> QED BY <1>3, <1>4 DEF t

LEMMA ChunkTaken ==
    ASSUME NEW s \in Seq(Messages), s # <<>>, NEW c
    PROVE  Cardinality(Chunks(s, c)) = Cardinality(Chunks(Tail(s), c)) + IF IsChunk(s[1], c) THEN 1 ELSE 0
<1> DEFINE t == Tail(s)
           S == Chunks(s, c) \ {1}
           T == Chunks(t, c)
           f == [i \in S |-> i - 1]
<1>1. Len(s) \in Nat \ {0} /\ Len(t) = Len(s) - 1 /\ \A i \in 1..Len(t) : t[i] = s[i + 1]
  OBVIOUS
<1> HIDE DEF t
<1>2. \A i \in S : i \in Int /\ i - 1 \in T
  <2>1. ASSUME NEW i \in S PROVE i \in Int /\ i - 1 \in T
    <3>1. i \in 2..Len(s) /\ IsChunk(s[i], c) /\ i - 1 \in 1..Len(t)
      BY <1>1 DEF Chunks
    <3>2. t[i - 1] = s[i]
      BY <1>1, <3>1
    <3> QED BY <3>1, <3>2 DEF Chunks
  <2> QED BY <2>1
<1>3. \A j \in T : j \in Int /\ j + 1 \in S
  BY <1>1 DEF Chunks
<1> HIDE DEF S, T
<1>4. f \in Bijection(S, T)
  <2>1. f \in [S -> T] /\ \A i, j \in S : f[i] = f[j] => i = j
    BY <1>2
  <2>2. \A j \in T : f[j + 1] = j
    BY <1>3
  <2> QED BY <1>3, <2>1, <2>2 DEF Bijection, Injection, Surjection, IsInjective
<1>5. IsFiniteSet(S) /\ Cardinality(S) = IF 1 \in Chunks(s, c) THEN Cardinality(Chunks(s, c)) - 1
                                         ELSE Cardinality(Chunks(s, c))
  BY ChunksFinite, FS_RemoveElement DEF S
<1>6. Cardinality(T) = Cardinality(S)
  BY <1>4, <1>5, FS_Bijection DEF ExistsBijection
<1>7. 1 \in Chunks(s, c) <=> IsChunk(s[1], c)
  BY <1>1 DEF Chunks
<1>8. Cardinality(Chunks(s, c)) \in Nat
  BY ChunksFinite
<1> QED BY <1>5, <1>6, <1>7, <1>8 DEF T, t

-----------------------------------------------------------------------------
(* The life of a request: written, read, answered once, handed to its caller. *)

Sent(c) == call[c].pc \in {"waiting", "returned"}
Underway(c) == \E i \in 1..Len(in) : in[i].kind = "request" /\ in[i].call = c
Working(c) == \E q \in work : q.call = c
Answered(c) == \E i \in 1..Len(out) : out[i].kind = "reply" /\ out[i].call = c
Back(c) == \/ reader.pc = "delivering" /\ reader.to = c
           \/ ch[c].kind = "reply"
           \/ call[c].outcome.kind = "reply"

\* A request is in one place at a time, and answered only once it was read.
Stages ==
    \A c \in Calls :
        /\ Underway(c) \/ Working(c) \/ Answered(c) \/ Back(c) => Sent(c)
        /\ Underway(c) => ~Working(c)
        /\ Underway(c) \/ Working(c) => ~Answered(c) /\ ~Back(c)

\* It is written once.
WrittenOnce ==
    \A i, j \in 1..Len(in) : in[i].kind = "request" /\ in[j] = in[i] => i = j

\* The app-server sends nothing of a command after its reply.
Flushed ==
    \A c \in Calls :
        /\ \A i \in 1..Len(out) : out[i].kind = "reply" /\ out[i].call = c
                                     => \A j \in Chunks(out, c) : j < i
        /\ Back(c) => Chunks(out, c) = {}

\* What the app-server sent is handled or still in the pipe.
Counts ==
    /\ emitted \in [Calls -> 0..MaxChunks] /\ handled \in [Calls -> Nat]
    /\ \A c \in Calls : handled[c] + Cardinality(Chunks(out, c)) = emitted[c]

LInv == Stages /\ WrittenOnce /\ Flushed /\ Counts

\* How a step may move the request of c from one stage to the next.
Moves(c) ==
    /\ Sent(c) => Sent(c)'
    /\ Underway(c)' => Underway(c) \/ (~Sent(c) /\ Sent(c)')
    /\ Working(c)' => Working(c) \/ (Underway(c) /\ ~Underway(c)')
    /\ Answered(c)' => Answered(c) \/ (Working(c) /\ ~Working(c)')
    /\ Back(c)' => Back(c) \/ Answered(c)

LEMMA StagesKept == ASSUME Stages, \A c \in Calls : Moves(c) PROVE Stages'
<1>1. ASSUME NEW c \in Calls
      PROVE  /\ Underway(c)' \/ Working(c)' \/ Answered(c)' \/ Back(c)' => Sent(c)'
             /\ Underway(c)' => ~Working(c)'
             /\ Underway(c)' \/ Working(c)' => ~Answered(c)' /\ ~Back(c)'
  BY DEF Stages, Moves
<1> QED BY <1>1 DEF Stages

\* A request of c on its way, and the app-server's work on it, are one record.
LEMMA OneRequest ==
    ASSUME IInv, NEW q \in Requests, NEW r \in Requests, Genuine(q), Genuine(r), q.call = r.call
    PROVE  q = r
BY DEF Genuine, Requests

\* A step that sends nothing to the client.
LEMMA PipeKept ==
    ASSUME IInv, LInv, out' = out, UNCHANGED <<emitted, handled>>,
           \A c \in Calls : Back(c)' => Back(c)
    PROVE  Flushed' /\ Counts'
BY DEF LInv, Flushed, Counts

\* The app-server sends a line: output only of a command it still works on.
LEMMA PipeGrows ==
    ASSUME IInv, LInv, NEW m \in Messages, Send(m),
           \A c \in Calls : Back(c)' => Back(c),
           \A c \in Calls : IsChunk(m, c) => Working(c),
           handled' = handled, emitted' \in [Calls -> 0..MaxChunks],
           \A c \in Calls : emitted'[c] = emitted[c] + IF IsChunk(m, c) THEN 1 ELSE 0
    PROVE  Flushed' /\ Counts'
<1>1. out \in Seq(Messages) /\ out' = Append(out, m)
  BY DEF IInv, Types, Send
<1>2. /\ Len(out') = Len(out) + 1 /\ Len(out) \in Nat /\ out'[Len(out) + 1] = m
      /\ \A i \in 1..Len(out) : out'[i] = out[i]
  BY <1>1
<1>3. ASSUME NEW c \in Calls PROVE handled'[c] + Cardinality(Chunks(out', c)) = emitted'[c]
  <2>1. handled[c] + Cardinality(Chunks(out, c)) = emitted[c] /\ handled[c] \in Nat
    BY DEF LInv, Counts
  <2>2. Cardinality(Chunks(out, c)) \in Nat
    BY <1>1, ChunksFinite
  <2>3. Cardinality(Chunks(out', c)) = Cardinality(Chunks(out, c)) + IF IsChunk(m, c) THEN 1 ELSE 0
    BY <1>1, <2>2, ChunkAppended
  <2> QED BY <2>1, <2>2, <2>3
<1>4. Counts'
  BY <1>3 DEF LInv, Counts
<1>5. ASSUME NEW c \in Calls
      PROVE  /\ \A i \in 1..Len(out') : out'[i].kind = "reply" /\ out'[i].call = c
                                           => \A j \in Chunks(out', c) : j < i
             /\ Back(c)' => Chunks(out', c) = {}
  <2>1. CASE IsChunk(m, c)
    <3>1. ~Answered(c) /\ ~Back(c)
      BY <2>1 DEF LInv, Stages
    <3>2. \A i \in 1..Len(out') : ~(out'[i].kind = "reply" /\ out'[i].call = c)
      BY <1>2, <2>1, <3>1 DEF Answered, IsChunk
    <3> QED BY <3>1, <3>2
  <2>2. CASE ~IsChunk(m, c)
    <3>1. Chunks(out', c) = Chunks(out, c)
      BY <1>1, <2>2, ChunkAppended
    <3>2. \A j \in Chunks(out, c) : j \in 1..Len(out)
      BY DEF Chunks
    <3> QED BY <1>2, <3>1, <3>2 DEF LInv, Flushed
  <2> QED BY <2>1, <2>2
<1> QED BY <1>4, <1>5 DEF Flushed

\* readLoop takes a line: output is handled, and a reply goes to its caller.
LEMMA PipeShrinks ==
    ASSUME IInv, LInv, out # <<>>, out' = Tail(out),
           \A c \in Calls : Back(c)' => Back(c) \/ (out[1].kind = "reply" /\ out[1].call = c),
           emitted' = emitted, handled' \in [Calls -> Nat],
           \A c \in Calls : handled'[c] = handled[c] + IF IsChunk(out[1], c) THEN 1 ELSE 0
    PROVE  Flushed' /\ Counts'
<1>1. out \in Seq(Messages)
  BY DEF IInv, Types
<1>2. /\ Len(out) \in Nat \ {0} /\ Len(out') = Len(out) - 1
      /\ \A i \in 1..Len(out') : out'[i] = out[i + 1] /\ i + 1 \in 1..Len(out)
  BY <1>1
<1>3. ASSUME NEW c \in Calls PROVE handled'[c] + Cardinality(Chunks(out', c)) = emitted'[c]
  <2>1. handled[c] + Cardinality(Chunks(out, c)) = emitted[c] /\ handled[c] \in Nat
    BY DEF LInv, Counts
  <2>2. out' \in Seq(Messages)
    BY <1>1
  <2>3. Cardinality(Chunks(out, c)) \in Nat /\ Cardinality(Chunks(out', c)) \in Nat
    BY <1>1, <2>2, ChunksFinite
  <2>4. Cardinality(Chunks(out, c)) = Cardinality(Chunks(out', c)) + IF IsChunk(out[1], c) THEN 1 ELSE 0
    BY <1>1, ChunkTaken
  <2>5. CASE IsChunk(out[1], c)
    BY <2>1, <2>3, <2>4, <2>5
  <2>6. CASE ~IsChunk(out[1], c)
    BY <2>1, <2>3, <2>4, <2>6
  <2> QED BY <2>5, <2>6
<1>4. Counts'
  BY <1>3 DEF LInv, Counts
<1>5. ASSUME NEW c \in Calls
      PROVE  /\ \A i \in 1..Len(out') : out'[i].kind = "reply" /\ out'[i].call = c
                                           => \A j \in Chunks(out', c) : j < i
             /\ Back(c)' => Chunks(out', c) = {}
  <2>1. \A j \in Chunks(out', c) : j \in Nat \ {0} /\ j + 1 \in Chunks(out, c)
    BY <1>2 DEF Chunks
  <2>2. ASSUME NEW i \in 1..Len(out'), out'[i].kind = "reply", out'[i].call = c, NEW j \in Chunks(out', c)
        PROVE  j < i
    <3>1. j + 1 < i + 1 /\ j \in Nat /\ i \in Nat
      BY <1>2, <2>1, <2>2 DEF LInv, Flushed
    <3> QED BY <3>1
  <2>3. ASSUME Back(c)', NEW j \in Chunks(out', c) PROVE FALSE
    <3>1. CASE Back(c)
      BY <2>1, <2>3, <3>1 DEF LInv, Flushed
    <3>2. CASE out[1].kind = "reply" /\ out[1].call = c
      <4>1. 1 \in 1..Len(out)
        BY <1>2
      <4>2. j + 1 < 1
        BY <2>1, <3>2, <4>1 DEF LInv, Flushed
      <4> QED BY <2>1, <4>2
    <3> QED BY <2>3, <3>1, <3>2
  <2> QED BY <2>2, <2>3
<1> QED BY <1>4, <1>5 DEF Flushed

\* A step that leaves pipes and work alone, takes back no request and brings no reply.
LEMMA RestingStep ==
    ASSUME IInv, LInv, UNCHANGED <<in, out, work, emitted, handled>>,
           \A c \in Calls : (Sent(c) => Sent(c)') /\ (Back(c)' => Back(c))
    PROVE  LInv'
<1>1. \A c \in Calls : Moves(c)
  BY DEF Moves, Underway, Working, Answered
<1>2. Stages'
  BY <1>1, StagesKept DEF LInv
<1>3. WrittenOnce'
  BY DEF LInv, WrittenOnce
<1> QED BY <1>2, <1>3, PipeKept DEF LInv

LEMMA ReturnFields ==
    ASSUME IInv, NEW c \in Calls, NEW o, Return(c, o)
    PROVE  \A d \in Calls : /\ call'[d].outcome = IF d = c THEN o ELSE call[d].outcome
                           /\ call'[d].pc = IF d = c THEN "returned" ELSE call[d].pc
BY DEF IInv, Types, Return

LEMMA ClientRests ==
    ASSUME IInv, LInv, NEW c \in Calls, Request(c), ~Write(c)
    PROVE  LInv'
<1> USE DEF serverVars, pipeVars, tableVars, closeVars
<1>1. CASE Register(c) \/ Lock(c)
  <2>1. \A d \in Calls : /\ call'[d].outcome = call[d].outcome
                         /\ call'[d].pc = call[d].pc \/ (call[d].pc \in {"idle", "registered"})
    <3>1. CASE Register(c)
      BY <3>1 DEF IInv, Types, Register
    <3>2. CASE Lock(c)
      BY <3>2 DEF IInv, Types, Lock
    <3> QED BY <1>1, <3>1, <3>2
  <2>2. UNCHANGED <<in, out, work, emitted, handled, ch, reader>>
    BY <1>1 DEF Register, Lock
  <2>3. \A d \in Calls : (Sent(d) => Sent(d)') /\ (Back(d)' => Back(d))
    BY <2>1, <2>2 DEF Sent, Back
  <2> QED BY <2>2, <2>3, RestingStep
<1>2. CASE WriteFails(c) \/ SeeDone(c) \/ Cancel(c)
  <2>1. \A d \in Calls : /\ call'[d].outcome \in {call[d].outcome, Failed}
                         /\ call'[d].pc \in {call[d].pc, "returned"}
    BY <1>2, ReturnFields DEF WriteFails, SeeDone, Cancel
  <2>2. UNCHANGED <<in, out, work, emitted, handled, ch, reader>>
    BY <1>2 DEF WriteFails, SeeDone, Cancel
  <2>3. \A d \in Calls : (Sent(d) => Sent(d)') /\ (Back(d)' => Back(d))
    BY <2>1, <2>2 DEF Sent, Back, Failed
  <2> QED BY <2>2, <2>3, RestingStep
<1>3. CASE Receive(c)
  <2>1. \A d \in Calls : /\ call'[d].outcome \in {call[d].outcome, ch[d]}
                         /\ call'[d].pc \in {call[d].pc, "returned"}
                         /\ ch'[d] \in {ch[d], Empty}
    <3>1. Return(c, ch[c]) /\ ch' = [ch EXCEPT ![c] = Empty]
      BY <1>3 DEF Receive
    <3> QED BY <3>1, ReturnFields DEF IInv, Types
  <2>2. UNCHANGED <<in, out, work, emitted, handled, reader>>
    BY <1>3 DEF Receive
  <2>3. \A d \in Calls : (Sent(d) => Sent(d)') /\ (Back(d)' => Back(d))
    BY <2>1, <2>2 DEF Sent, Back, Empty
  <2> QED BY <2>2, <2>3, RestingStep
<1> QED BY <1>1, <1>2, <1>3 DEF Request

\* The request is written for the first time: nothing of it is on its way yet.
LEMMA ClientWrites == ASSUME IInv, LInv, NEW c \in Calls, Write(c) PROVE LInv'
<1> USE DEF serverVars, tableVars, closeVars
<1> DEFINE m == [kind |-> "request", id |-> call[c].id, call |-> c]
<1>1. /\ in' = Append(in, m) /\ m.kind = "request" /\ m.call = c
      /\ UNCHANGED <<out, work, emitted, handled, reader, ch>>
  BY DEF Write
<1> HIDE DEF m
<1>2. /\ Len(in') = Len(in) + 1 /\ Len(in) \in Nat /\ in'[Len(in) + 1] = m
      /\ \A i \in 1..Len(in) : in'[i] = in[i]
  BY <1>1 DEF IInv, Types
<1>3. /\ ~Sent(c) /\ Sent(c)'
      /\ \A d \in Calls : (Sent(d) => Sent(d)') /\ call'[d].outcome = call[d].outcome
  BY DEF IInv, Types, Write, Sent
<1>4. ~Underway(c)
  BY <1>3 DEF LInv, Stages
<1>5. \A d \in Calls : Underway(d)' => Underway(d) \/ d = c
  BY <1>1, <1>2 DEF Underway
<1>6. \A d \in Calls : Moves(d)
  BY <1>1, <1>3, <1>5 DEF Moves, Working, Answered, Back
<1>7. Stages'
  BY <1>6, StagesKept DEF LInv
<1>8. WrittenOnce'
  <2>1. \A i \in 1..Len(in) : in[i] # m
    BY <1>1, <1>4 DEF Underway
  <2> QED BY <1>2, <2>1 DEF LInv, WrittenOnce
<1>9. \A d \in Calls : Back(d)' => Back(d)
  BY <1>1, <1>3 DEF Back
<1> QED BY <1>1, <1>7, <1>8, <1>9, PipeKept DEF LInv

\* The app-server takes the request: it leaves the pipe, and no second one is there.
LEMMA ServerTakes == ASSUME IInv, LInv, ServerReads PROVE LInv'
<1> USE DEF tableVars, closeVars
<1>1. /\ in # <<>> /\ in' = Tail(in) /\ work' = IF in[1] = Answer THEN work ELSE work \cup {in[1]}
      /\ UNCHANGED <<out, emitted, handled, call, ch, reader>>
  BY DEF ServerReads
<1>2. /\ Len(in) \in Nat \ {0} /\ Len(in') = Len(in) - 1 /\ 1 \in 1..Len(in)
      /\ \A i \in 1..Len(in') : in'[i] = in[i + 1] /\ i + 1 \in 1..Len(in)
      /\ \A i \in 1..Len(in) : in[i] \in Requests \cup {Answer} /\ Genuine(in[i])
  BY <1>1 DEF IInv, Types, Correlated
<1>3. WrittenOnce'
  <2>1. ASSUME NEW i \in 1..Len(in'), NEW j \in 1..Len(in'), in'[i].kind = "request", in'[j] = in'[i]
        PROVE  i = j
    <3>1. /\ i + 1 \in 1..Len(in) /\ j + 1 \in 1..Len(in)
          /\ in[i + 1].kind = "request" /\ in[j + 1] = in[i + 1]
      BY <1>2, <2>1
    <3>2. i + 1 = j + 1
      BY <3>1 DEF LInv, WrittenOnce
    <3> QED BY <1>2, <3>2
  <2> QED BY <2>1 DEF WrittenOnce
<1>4. ASSUME NEW c \in Calls PROVE Moves(c)
  <2>1. Underway(c)' => Underway(c)
    BY <1>2 DEF Underway
  <2>2. ASSUME Working(c)', ~Working(c) PROVE Underway(c) /\ ~Underway(c)'
    <3>1. in[1] \in Requests /\ in[1].call = c /\ in[1].kind = "request"
      BY <1>1, <1>2, <2>2 DEF Working, Requests
    <3>2. ASSUME NEW i \in 1..Len(in'), in'[i].kind = "request", in'[i].call = c PROVE FALSE
      <4>1. in[i + 1] \in Requests /\ Genuine(in[i + 1]) /\ in[i + 1].call = c
        BY <1>2, <3>2 DEF Answer
      <4>2. in[i + 1] = in[1]
        BY <1>2, <3>1, <4>1, OneRequest
      <4>3. i + 1 = 1
        BY <1>2, <3>1, <4>2 DEF LInv, WrittenOnce
      <4> QED BY <4>3
    <3> QED BY <1>2, <3>1, <3>2 DEF Underway
  <2> QED BY <1>1, <2>1, <2>2 DEF Moves, Sent, Answered, Back
<1>5. Stages'
  BY <1>4, StagesKept DEF LInv
<1>6. \A c \in Calls : Back(c)' => Back(c)
  BY <1>1 DEF Back
<1> QED BY <1>1, <1>3, <1>5, <1>6, PipeKept DEF LInv

\* The app-server sends a line; one that answers a request ends the work on it.
LEMMA ServerSends ==
    ASSUME IInv, LInv, NEW m \in Messages, Send(m), work' \in SUBSET work,
           UNCHANGED <<in, call, ch, reader, handled>>,
           \A c \in Calls : m.kind = "reply" /\ m.call = c => Working(c) /\ ~Working(c)',
           \A c \in Calls : IsChunk(m, c) => Working(c),
           emitted' \in [Calls -> 0..MaxChunks],
           \A c \in Calls : emitted'[c] = emitted[c] + IF IsChunk(m, c) THEN 1 ELSE 0
    PROVE  LInv'
<1>1. out' = Append(out, m)
  BY DEF Send
<1>2. \A i \in 1..Len(out') : out'[i] = m \/ \E j \in 1..Len(out) : out'[i] = out[j]
  BY <1>1 DEF IInv, Types
<1>3. \A c \in Calls : Answered(c)' => Answered(c) \/ (Working(c) /\ ~Working(c)')
  BY <1>2 DEF Answered
<1>4. \A c \in Calls : (Working(c)' => Working(c)) /\ (Back(c)' => Back(c))
  BY DEF Working, Back
<1>5. \A c \in Calls : Moves(c)
  BY <1>3, <1>4 DEF Moves, Sent, Underway
<1>6. Stages' /\ WrittenOnce'
  BY <1>5, StagesKept DEF LInv, WrittenOnce
<1>7. Flushed' /\ Counts'
  BY <1>4, PipeGrows
<1> QED BY <1>6, <1>7 DEF LInv

LEMMA ServerMoves == ASSUME IInv, LInv, Server PROVE LInv'
<1> USE DEF serverVars, pipeVars, tableVars, closeVars
<1>1. CASE \E q \in work : ServerReplies(q)
  <2>1. PICK q \in work : ServerReplies(q)
    BY <1>1
  <2> DEFINE m == [kind |-> "reply", id |-> q.id, call |-> q.call]
  <2>2. q \in Requests /\ Genuine(q) /\ q.call \in Calls
    BY <2>1 DEF IInv, Types, Correlated, Requests
  <2>3. m \in Messages /\ m.kind = "reply" /\ m.call = q.call
    BY <2>2 DEF Requests, Replies, Messages
  <2>4. Send(m) /\ work' = work \ {q} /\ UNCHANGED <<in, call, ch, reader, handled, emitted>>
    BY <2>1 DEF ServerReplies
  <2> HIDE DEF m
  <2>5. Working(q.call) /\ ~Working(q.call)'
    <3>1. ASSUME NEW r \in work', r.call = q.call PROVE FALSE
      <4>1. r \in work /\ r # q /\ r \in Requests /\ Genuine(r)
        BY <2>4, <3>1 DEF IInv, Types, Correlated
      <4> QED BY <2>2, <3>1, <4>1, OneRequest
    <3> QED BY <2>1, <3>1 DEF Working
  <2>6. emitted \in [Calls -> 0..MaxChunks] /\ \A c \in Calls : ~IsChunk(m, c) /\ emitted[c] \in Nat
    BY <2>3, BoundsAssumption DEF LInv, Counts, IsChunk
  <2> QED BY <2>3, <2>4, <2>5, <2>6, ServerSends
<1>2. CASE \E q \in work : ServerStreams(q)
  <2>1. PICK q \in work : ServerStreams(q)
    BY <1>2
  <2> DEFINE m == [kind |-> "chunk", call |-> q.call]
  <2>2. q.call \in Calls
    BY <2>1 DEF IInv, Types, Requests
  <2>3. m \in Messages /\ m.kind = "chunk" /\ m.call = q.call
    BY <2>2 DEF Messages
  <2>4. /\ Send(m) /\ UNCHANGED <<work, in, call, ch, reader, handled>>
        /\ emitted[q.call] < MaxChunks /\ emitted' = [emitted EXCEPT ![q.call] = @ + 1]
    BY <2>1 DEF ServerStreams
  <2> HIDE DEF m
  <2>5. \A c \in Calls : IsChunk(m, c) <=> c = q.call
    BY <2>3 DEF IsChunk
  <2>6. \A c \in Calls : emitted'[c] = emitted[c] + IF c = q.call THEN 1 ELSE 0
    BY <2>2, <2>4, BoundsAssumption DEF LInv, Counts
  <2>7. \A c \in Calls : emitted'[c] = emitted[c] + IF IsChunk(m, c) THEN 1 ELSE 0
    BY <2>5, <2>6
  <2>8. emitted' \in [Calls -> 0..MaxChunks]
    BY <2>2, <2>4, BoundsAssumption DEF LInv, Counts
  <2>9. \A c \in Calls : IsChunk(m, c) => Working(c)
    BY <2>1, <2>5 DEF Working
  <2>10. work' \in SUBSET work /\ m.kind # "reply"
    BY <2>3, <2>4
  <2> QED BY <2>3, <2>4, <2>7, <2>8, <2>9, <2>10, ServerSends
<1>3. CASE (\E q \in work : ServerRepliesTooMuch(q)) \/ ServerAsks
  <2>1. PICK m \in {[kind |-> "ask"], [kind |-> "oversized"]} : Send(m)
    BY <1>3 DEF ServerRepliesTooMuch, ServerAsks
  <2>2. m \in Messages /\ m.kind \notin {"reply", "chunk"}
    BY <2>1 DEF Messages
  <2>3. work' \in SUBSET work /\ UNCHANGED <<in, call, ch, reader, handled, emitted>>
    BY <1>3 DEF ServerRepliesTooMuch, ServerAsks
  <2>4. emitted \in [Calls -> 0..MaxChunks] /\ \A c \in Calls : ~IsChunk(m, c) /\ emitted[c] \in Nat
    BY <2>2, BoundsAssumption DEF LInv, Counts, IsChunk
  <2> QED BY <2>1, <2>2, <2>3, <2>4, ServerSends
<1>4. CASE ServerExits
  <2>1. UNCHANGED <<in, out, work, emitted, handled, call, ch, reader>>
    BY <1>4 DEF ServerExits
  <2> QED BY <2>1, RestingStep DEF Sent, Back
<1> QED BY <1>1, <1>2, <1>3, <1>4, ServerTakes DEF Server

LEMMA ChunkHasCall == ASSUME NEW m \in Messages, m.kind = "chunk" PROVE m.call \in Calls
BY DEF Messages, Replies

\* readLoop takes a line off stdout.
LEMMA ReaderTakes == ASSUME IInv, LInv, ReadReply \/ ReadChunk \/ ReadAsk PROVE LInv'
<1> USE DEF serverVars, tableVars, closeVars
<1> DEFINE m == out[1]
<1>1. out # <<>> /\ out' = Tail(out) /\ UNCHANGED <<in, work, emitted, call, ch>>
  BY DEF ReadReply, ReadChunk, ReadAsk, Reading
<1>2. /\ Len(out) \in Nat \ {0} /\ 1 \in 1..Len(out) /\ Len(out') = Len(out) - 1 /\ m \in Messages
      /\ \A i \in 1..Len(out') : out'[i] = out[i + 1] /\ i + 1 \in 1..Len(out)
  BY <1>1 DEF IInv, Types
<1>3. /\ handled' \in [Calls -> Nat]
      /\ \A c \in Calls : handled'[c] = handled[c] + IF IsChunk(m, c) THEN 1 ELSE 0
  <2>1. CASE ReadChunk
    <3>1. m.kind = "chunk" /\ handled' = [handled EXCEPT ![m.call] = @ + 1] /\ Head(out) = m
      BY <2>1, <1>1, <1>2 DEF ReadChunk
    <3>2. m.call \in Calls
      BY <1>2, <3>1, ChunkHasCall
    <3> HIDE DEF m
    <3>3. \A c \in Calls : IsChunk(m, c) <=> c = m.call
      BY <3>1 DEF IsChunk
    <3>4. \A c \in Calls : handled'[c] = handled[c] + IF c = m.call THEN 1 ELSE 0
      BY <3>1, <3>2 DEF LInv, Counts
    <3> QED BY <3>1, <3>2, <3>3, <3>4 DEF LInv, Counts
  <2>2. CASE ReadReply \/ ReadAsk
    <3>1. m.kind # "chunk" /\ handled' = handled
      BY <2>2, <1>1 DEF ReadReply, ReadAsk
    <3> HIDE DEF m
    <3>2. \A c \in Calls : ~IsChunk(m, c) /\ handled[c] \in Nat
      BY <3>1 DEF LInv, Counts, IsChunk
    <3> QED BY <3>1, <3>2 DEF LInv, Counts
  <2> QED BY <2>1, <2>2
<1>4. ASSUME NEW c \in Calls PROVE Back(c)' => Back(c) \/ (m.kind = "reply" /\ m.call = c)
  <2>1. CASE ReadReply
    <3>1. m.kind = "reply" /\ (reader'.pc = "delivering" => reader'.reply = m)
      BY <2>1, <1>1 DEF ReadReply, Scanning
    <3>2. reader'.pc = "delivering" => reader'.reply.call = reader'.to
      BY <2>1, Inductive DEF IInv, Correlated, Next, ReadLoop
    <3> QED BY <1>1, <3>1, <3>2 DEF Back
  <2>2. CASE ReadChunk \/ ReadAsk
    <3>1. reader'.pc = "delivering" => reader' = reader
      BY <2>2 DEF ReadChunk, ReadAsk
    <3> QED BY <1>1, <3>1 DEF Back
  <2> QED BY <2>1, <2>2
<1>5. Flushed' /\ Counts'
  BY <1>1, <1>3, <1>4, PipeShrinks
<1>6. \A c \in Calls : Answered(c)' => Answered(c)
  BY <1>2 DEF Answered
<1>7. \A c \in Calls : Back(c)' => Back(c) \/ Answered(c)
  BY <1>2, <1>4 DEF Answered
<1>8. \A c \in Calls : Moves(c)
  BY <1>1, <1>6, <1>7 DEF Moves, Sent, Underway, Working
<1>9. Stages' /\ WrittenOnce'
  BY <1>1, <1>8, StagesKept DEF LInv, WrittenOnce
<1> QED BY <1>5, <1>9 DEF LInv

\* readLoop writes an answer of its own.
LEMMA ReaderAnswers == ASSUME IInv, LInv, WriteAnswer, in' # in PROVE LInv'
<1> USE DEF serverVars, tableVars, closeVars
<1>1. /\ in' = Append(in, Answer) /\ UNCHANGED <<out, work, emitted, handled, call, ch>>
      /\ reader'.pc # "delivering"
  BY DEF WriteAnswer, Scanning
<1>2. /\ Len(in') = Len(in) + 1 /\ Len(in) \in Nat /\ in'[Len(in) + 1].kind # "request"
      /\ \A i \in 1..Len(in) : in'[i] = in[i]
  BY <1>1 DEF IInv, Types, Answer
<1>3. \A c \in Calls : (Underway(c)' => Underway(c)) /\ (Back(c)' => Back(c))
  BY <1>1, <1>2 DEF Underway, Back
<1>4. \A c \in Calls : Moves(c)
  BY <1>1, <1>3 DEF Moves, Sent, Working, Answered
<1>5. WrittenOnce'
  BY <1>2 DEF LInv, WrittenOnce
<1>6. Stages'
  BY <1>4, StagesKept DEF LInv
<1> QED BY <1>1, <1>3, <1>5, <1>6, PipeKept DEF LInv

\* The other steps of the client leave pipes and work alone.
Aside == \/ Deliver \/ LockAnswer \/ (WriteAnswer /\ in' = in) \/ ReaderFails \/ ReaderEnds
         \/ Wait \/ Close \/ UNCHANGED vars

LEMMA OthersRest == ASSUME IInv, LInv, Aside PROVE LInv'
<1> USE DEF serverVars, pipeVars, tableVars, closeVars
<1>1. UNCHANGED <<in, out, work, emitted, handled, call>>
  BY DEF Aside, Deliver, LockAnswer, WriteAnswer, ReaderFails, ReaderEnds, Wait, WaitReturns,
         FailPending, CloseDone, Close, vars
<1>2. \A c \in Calls : Back(c)' => Back(c)
  <2>1. CASE Deliver
    <3>1. \A c \in Calls : ch'[c] = IF c = reader.to THEN reader.reply ELSE ch[c]
      BY <2>1 DEF IInv, Types, Deliver
    <3>2. reader.pc = "delivering" /\ reader'.pc # "delivering"
      BY <2>1 DEF Deliver, Scanning
    <3> QED BY <1>1, <3>1, <3>2 DEF Back
  <2>2. CASE ReaderFails \/ FailPending
    <3>1. \A c \in Calls : ch'[c] \in {ch[c], Failed}
      BY <2>2 DEF ReaderFails, FailPending, FailAll
    <3>2. reader'.pc = "delivering" => reader' = reader
      BY <2>2 DEF ReaderFails, FailPending
    <3> QED BY <1>1, <3>1, <3>2 DEF Back, Failed
  <2>3. CASE LockAnswer \/ WriteAnswer \/ ReaderEnds \/ WaitReturns \/ CloseDone \/ Close \/ UNCHANGED vars
    <3>1. ch' = ch /\ (reader'.pc = "delivering" => reader' = reader)
      BY <2>3 DEF LockAnswer, WriteAnswer, ReaderEnds, WaitReturns, CloseDone, Close, vars, Scanning
    <3> QED BY <1>1, <3>1 DEF Back
  <2> QED BY <2>1, <2>2, <2>3 DEF Aside, Wait
<1> QED BY <1>1, <1>2, RestingStep DEF Sent

LEMMA LifeInductive == IInv /\ LInv /\ [Next]_vars => LInv'
<1> SUFFICES ASSUME IInv, LInv, [Next]_vars PROVE LInv'
  OBVIOUS
<1>1. ASSUME NEW c \in Calls, Request(c) PROVE LInv'
  BY <1>1, ClientRests, ClientWrites
<1>2. CASE ReadLoop
  <2>1. CASE ReadReply \/ ReadChunk \/ ReadAsk
    BY <2>1, ReaderTakes
  <2>2. CASE WriteAnswer
    <3>1. CASE in' = in
      BY <2>2, <3>1, OthersRest DEF Aside
    <3>2. CASE in' # in
      BY <2>2, <3>2, ReaderAnswers
    <3> QED BY <3>1, <3>2
  <2>3. CASE Deliver \/ LockAnswer
    BY <2>3, OthersRest DEF Aside
  <2>4. CASE ReaderFails \/ ReaderEnds
    BY <2>4, OthersRest DEF Aside
  <2> QED BY <1>2, <2>1, <2>2, <2>3, <2>4 DEF ReadLoop
<1>3. CASE Wait
  BY <1>3, OthersRest DEF Aside
<1>4. CASE Close \/ UNCHANGED vars
  BY <1>4, OthersRest DEF Aside
<1>5. CASE Server
  BY <1>5, ServerMoves
<1> QED BY <1>1, <1>2, <1>3, <1>4, <1>5 DEF Next

LEMMA LifeInitially == Init => LInv
<1> SUFFICES ASSUME Init PROVE LInv
  OBVIOUS
<1>1. \A c \in Calls : Chunks(out, c) = {}
  BY DEF Init, Chunks
<1>2. Counts
  <2>1. MaxChunks \in Nat /\ Cardinality({}) = 0
    BY FS_EmptySet, BoundsAssumption
  <2>2. emitted = [c \in Calls |-> 0] /\ handled = [c \in Calls |-> 0]
    BY DEF Init
  <2>3. \A c \in Calls : Cardinality(Chunks(out, c)) = 0
    BY <1>1, <2>1
  <2> QED BY <2>1, <2>2, <2>3 DEF Counts
<1>3. Stages /\ WrittenOnce /\ Flushed
  BY <1>1 DEF Init, Stages, Underway, Working, Answered, Back, WrittenOnce, Flushed,
              Fresh, Empty, Scanning
<1> QED BY <1>2, <1>3 DEF LInv

\* When Client.Request returns the result of command/exec, the output the
\* app-server sent before it has all been given to the stream registry: the one
\* readLoop handles a notification before it looks at the next line.
THEOREM OutputComesFirst == Spec => []OutputBeforeResult
<1>1. ASSUME LInv PROVE OutputBeforeResult
  <2>1. ASSUME NEW c \in Calls, call[c].outcome.kind = "reply" PROVE handled[c] = emitted[c]
    <3>1. Chunks(out, c) = {}
      BY <1>1, <2>1 DEF LInv, Flushed, Back
    <3>2. handled[c] + 0 = emitted[c] /\ handled[c] \in Nat
      BY <1>1, <3>1, FS_EmptySet DEF LInv, Counts
    <3> QED BY <3>2
  <2> QED BY <2>1 DEF OutputBeforeResult
<1> QED BY Initially, Inductive, LifeInitially, LifeInductive, <1>1, PTL DEF Spec

-----------------------------------------------------------------------------
(* The bounds: pipes, locks, counters and flags. *)

Limits ==
    /\ server \in {"running", "exited"}
    /\ Len(in) <= InCapacity /\ Len(out) <= OutCapacity
    /\ asks \in 0..MaxAsks
    /\ writeMu \in Calls \cup {"reader", "free"}
    /\ stdinClosed \in BOOLEAN /\ stdoutClosed \in BOOLEAN /\ done \in BOOLEAN
    /\ waiter \in {"waiting", "failing", "closing", "finished"}
    /\ \A c \in Calls : call[c].pc = "idle" => call[c].id = 0

LEMMA AppendLength ==
    ASSUME NEW S, NEW s \in Seq(S), NEW m \in S, NEW n \in Nat, Len(s) < n
    PROVE  Len(Append(s, m)) <= n
<1>1. Len(Append(s, m)) = Len(s) + 1 /\ Len(s) \in Nat
  OBVIOUS
<1> QED BY <1>1

LEMMA TailLength ==
    ASSUME NEW S, NEW s \in Seq(S), s # <<>>, NEW n \in Nat, Len(s) <= n
    PROVE  Len(Tail(s)) <= n
<1>1. Len(Tail(s)) = Len(s) - 1 /\ Len(s) \in Nat
  OBVIOUS
<1> QED BY <1>1

\* The pipes stay within their capacity: a writer waits while one is full.
LEMMA PipesBounded ==
    ASSUME IInv, Limits, [Next]_vars
    PROVE  Len(in') <= InCapacity /\ Len(out') <= OutCapacity
<1> DEFINE I == Requests \cup {Answer}
<1>1. in \in Seq(I) /\ in' \in Seq(I) /\ out \in Seq(Messages) /\ out' \in Seq(Messages)
  BY Inductive DEF IInv, Types
<1>2. CASE in' = in /\ out' = out
  BY <1>2 DEF Limits
<1>3. ASSUME NEW c \in Calls, Write(c) PROVE Len(in') <= InCapacity /\ out' = out
  <2>1. in' = Append(in, [kind |-> "request", id |-> call[c].id, call |-> c]) /\ Len(in) < InCapacity
    BY <1>3 DEF Write
  <2>2. Len(in') = Len(in) + 1 /\ Len(in) \in Nat
    BY <1>1, <2>1
  <2> QED BY <1>3, <2>1, <2>2, BoundsAssumption DEF Write
<1>4. ASSUME WriteAnswer, in' # in PROVE Len(in') <= InCapacity /\ out' = out
  <2>1. Len(in) < InCapacity /\ in' = Append(in, Answer) /\ Answer \in I
    BY <1>4 DEF WriteAnswer
  <2> QED BY <1>1, <1>4, <2>1, AppendLength, BoundsAssumption DEF WriteAnswer
<1>5. ASSUME ServerReads PROVE Len(in') <= InCapacity /\ out' = out
  BY <1>1, <1>5, TailLength, BoundsAssumption DEF ServerReads, Limits
<1>6. ASSUME ReadReply \/ ReadChunk \/ ReadAsk PROVE Len(out') <= OutCapacity /\ in' = in
  <2>1. out # <<>> /\ out' = Tail(out) /\ in' = in
    BY <1>6 DEF ReadReply, ReadChunk, ReadAsk, Reading
  <2> QED BY <1>1, <2>1, TailLength, BoundsAssumption DEF Limits
<1>7. ASSUME NEW m, Send(m) PROVE Len(out') <= OutCapacity
  <2>1. out' = Append(out, m) /\ Len(out) < OutCapacity
    BY <1>7 DEF Send
  <2>2. Len(out') = Len(out) + 1 /\ Len(out) \in Nat
    BY <1>1, <2>1
  <2> QED BY <2>1, <2>2, BoundsAssumption
<1>8. CASE Server
  <2>1. CASE \E q \in work : ServerReplies(q) \/ ServerStreams(q) \/ ServerRepliesTooMuch(q)
    BY <1>7, <2>1 DEF ServerReplies, ServerStreams, ServerRepliesTooMuch, Limits
  <2>2. CASE ServerAsks
    BY <1>7, <2>2 DEF ServerAsks, Limits
  <2>3. CASE ServerExits
    BY <1>2, <2>3 DEF ServerExits, pipeVars
  <2> QED BY <1>5, <1>8, <2>1, <2>2, <2>3 DEF Server, Limits
<1>9. CASE ReadLoop
  <2>1. CASE Deliver \/ LockAnswer \/ ReaderFails \/ ReaderEnds
    BY <1>2, <2>1 DEF Deliver, LockAnswer, ReaderFails, ReaderEnds, pipeVars
  <2>2. CASE WriteAnswer
    BY <1>4, <2>2 DEF WriteAnswer, Limits
  <2> QED BY <1>6, <1>9, <2>1, <2>2 DEF ReadLoop, Limits
<1>10. ASSUME NEW c \in Calls, Request(c) PROVE Len(in') <= InCapacity /\ Len(out') <= OutCapacity
  <2>1. CASE Register(c) \/ Lock(c) \/ WriteFails(c) \/ Receive(c) \/ SeeDone(c) \/ Cancel(c)
    BY <1>2, <2>1 DEF Register, Lock, WriteFails, Receive, SeeDone, Cancel, pipeVars
  <2> QED BY <1>3, <1>10, <2>1 DEF Request, Limits
<1>11. CASE Wait \/ Close \/ UNCHANGED vars
  BY <1>2, <1>11 DEF Wait, WaitReturns, FailPending, CloseDone, Close, vars, pipeVars
<1> QED BY <1>8, <1>9, <1>10, <1>11 DEF Next

LEMMA IdleHasNoId ==
    ASSUME IInv, Limits, [Next]_vars
    PROVE  \A c \in Calls : call'[c].pc = "idle" => call'[c].id = 0
<1>1. ASSUME NEW c \in Calls, Request(c) PROVE \A d \in Calls : call'[d].pc = "idle" => call'[d] = call[d]
  <2>1. CASE Register(c)
    BY <2>1 DEF IInv, Types, Register
  <2>2. CASE Lock(c)
    BY <2>2 DEF IInv, Types, Lock
  <2>3. CASE Write(c)
    BY <2>3 DEF IInv, Types, Write
  <2>4. ASSUME NEW o, Return(c, o) PROVE \A d \in Calls : call'[d].pc = "idle" => call'[d] = call[d]
    BY <2>4 DEF IInv, Types, Return
  <2> QED BY <1>1, <2>1, <2>2, <2>3, <2>4 DEF Request, WriteFails, Receive, SeeDone, Cancel
<1>2. ReadLoop \/ Wait \/ Close \/ Server \/ UNCHANGED vars => call' = call
  BY DEF ReadLoop, ReadReply, Deliver, ReadChunk, ReadAsk, LockAnswer, WriteAnswer, ReaderFails,
         ReaderEnds, Wait, WaitReturns, FailPending, CloseDone, Close, Server, ServerReplies,
         ServerStreams, ServerRepliesTooMuch, ServerReads, ServerAsks, ServerExits, vars
<1> QED BY <1>1, <1>2 DEF Next, Limits

LEMMA LimitsInductive == IInv /\ Limits /\ [Next]_vars => Limits'
<1> SUFFICES ASSUME IInv, Limits, [Next]_vars PROVE Limits'
  OBVIOUS
<1> USE DEF serverVars, pipeVars, tableVars, closeVars
<1> DEFINE Rest == /\ server' \in {"running", "exited"}
                   /\ asks' \in 0..MaxAsks
                   /\ writeMu' \in Calls \cup {"reader", "free"}
                   /\ stdinClosed' \in BOOLEAN /\ stdoutClosed' \in BOOLEAN /\ done' \in BOOLEAN
                   /\ waiter' \in {"waiting", "failing", "closing", "finished"}
<1>1. ASSUME NEW c \in Calls, Request(c) PROVE Rest
  BY <1>1 DEF Limits, Request, Register, Lock, Write, WriteFails, Receive, SeeDone, Cancel
<1>2. ASSUME ReadLoop PROVE Rest
  BY <1>2 DEF Limits, ReadLoop, ReadReply, Deliver, ReadChunk, ReadAsk, LockAnswer, WriteAnswer,
              ReaderFails, ReaderEnds
<1>3. ASSUME Wait \/ Close \/ UNCHANGED vars PROVE Rest
  BY <1>3 DEF Limits, Wait, WaitReturns, FailPending, CloseDone, Close, vars
<1>4. ASSUME Server PROVE Rest
  <2>1. CASE ServerAsks
    BY <2>1, BoundsAssumption DEF Limits, ServerAsks
  <2>2. CASE ServerReads \/ ServerExits \/ \E q \in work : ServerReplies(q) \/ ServerStreams(q)
                                                              \/ ServerRepliesTooMuch(q)
    BY <2>2 DEF Limits, ServerReplies, ServerStreams, ServerRepliesTooMuch, ServerReads, ServerExits
  <2> QED BY <1>4, <2>1, <2>2 DEF Server
<1>5. Rest
  BY <1>1, <1>2, <1>3, <1>4 DEF Next
<1> HIDE DEF Rest
<1> QED BY <1>5, PipesBounded, IdleHasNoId DEF Limits, Rest

LEMMA LimitsInitially == Init => Limits
<1> SUFFICES ASSUME Init PROVE Limits
  OBVIOUS
<1>1. Len(in) = 0 /\ Len(out) = 0
  BY DEF Init
<1>2. \A c \in Calls : call[c].id = 0
  BY DEF Init, Fresh
<1>3. asks \in 0..MaxAsks /\ Len(in) <= InCapacity /\ Len(out) <= OutCapacity
  BY <1>1, BoundsAssumption DEF Init
<1> QED BY <1>2, <1>3 DEF Init, Limits

LEMMA TypesComplete == IInv /\ LInv /\ Limits => TypeOK
<1> SUFFICES ASSUME IInv, LInv, Limits PROVE TypeOK
  OBVIOUS
<1>1. nextID <= Cardinality(Calls) /\ Cardinality(Calls) \in Nat
  <2>1. Started \in SUBSET Calls
    BY DEF Started
  <2> QED BY <2>1, BoundsAssumption, FS_Subset, FS_CardinalityType DEF IInv, Numbering
<1>2. nextID \in 0..Cardinality(Calls)
  BY <1>1 DEF IInv, Types
<1>3. \A c \in Calls : call[c].id \in Ids \cup {0}
  BY <1>1 DEF IInv, Types, Numbering, Started, Limits, Ids
<1>4. call \in [Calls -> [pc : {"idle", "registered", "writing", "waiting", "returned"},
                          id : Ids \cup {0}, outcome : {Empty, Failed} \cup Replies]]
  BY <1>3 DEF IInv, Types, Slots
<1>5. handled \in [Calls -> 0..MaxChunks]
  <2>1. ASSUME NEW c \in Calls PROVE handled[c] \in 0..MaxChunks
    <3>1. Cardinality(Chunks(out, c)) \in Nat
      BY ChunksFinite DEF IInv, Types
    <3>2. handled[c] + Cardinality(Chunks(out, c)) = emitted[c] /\ handled[c] \in Nat /\ emitted[c] \in 0..MaxChunks
      BY DEF LInv, Counts
    <3> QED BY <3>1, <3>2, BoundsAssumption
  <2> QED BY <2>1 DEF LInv, Counts
<1> QED BY <1>2, <1>4, <1>5 DEF TypeOK, IInv, Types, LInv, Counts, Limits, Slots

\* Every variable keeps its type: the pipes their capacity, the identifiers the
\* range of the table, and no more output is handled than was ever sent.
THEOREM TypeCorrect == Spec => []TypeOK
BY Initially, Inductive, LifeInitially, LifeInductive, LimitsInitially, LimitsInductive,
   TypesComplete, PTL DEF Spec
=============================================================================
