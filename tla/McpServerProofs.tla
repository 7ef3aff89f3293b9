---------------------------- MODULE McpServerProofs ----------------------------
(***************************************************************************)
(* Proofs about McpServer for any ids and any number of requests: what the  *)
(* table of requests holds, what a stop does to the last line, and which    *)
(* requests may go without an answer.                                       *)
(***************************************************************************)
EXTENDS McpServer, FiniteSetTheorems, TLAPS

\* Requests are numbered as they come.
Numbered == \A r \in Requests :
    /\ phase[r] = "unsent" <=> r > received
    /\ r <= received => request[r] \in [id : Ids, kind : Kinds]
    /\ r > received => request[r] = Unsent

\* What is cancelled has come, and what the table holds is the newest of its id.
Known ==
    /\ \A r \in cancelled : r <= received
    /\ reader.pc = "cancelling" => reader.request <= received
    /\ \A i \in Ids : inFlight[i] # Nobody => Newest(inFlight[i])

\* An answer is the last thing a goroutine gives but its clean-up.
Answers == \A r \in answered : phase[r] \in {"finishing", "done"}

\* Serve takes one line at most with a stop behind it, and nobody writes for it.
LastLine ==
    /\ late # {} => stopped /\ reader.pc # "line"
    /\ \A r \in late : r <= received /\ phase[r] # "writing" /\ r \notin answered
    /\ \A q, r \in late : q = r

IInv == TypeOK /\ Numbered /\ TableIsExact /\ Known /\ Answers /\ LastLine

LEMMA Initially == Init => IInv
<1> SUFFICES ASSUME Init PROVE IInv
  OBVIOUS
<1> USE DEF Init
<1>1. received = 0 /\ received \in 0..MaxRequests
  BY RequestsAssumption
<1>2. TypeOK
  BY <1>1 DEF TypeOK, Requests, Nobody, Scanning, Unsent
<1>3. Numbered /\ TableIsExact
  BY <1>1 DEF Numbered, TableIsExact, Requests
<1>4. Known /\ Answers /\ LastLine
  BY DEF Known, Answers, LastLine, Scanning
<1> QED BY <1>2, <1>3, <1>4 DEF IInv

-----------------------------------------------------------------------------
\* What the loop holds.
LEMMA Readers ==
    ASSUME TypeOK
    PROVE  /\ Scanning.pc = "scanning" /\ Returned.pc = "returned"
           /\ Scanning # Returned
           /\ reader.pc = "cancelling" => reader.request \in Requests
           /\ reader.pc \in {"scanning", "line", "returned", "cancelling"}
           /\ Nobody \notin Requests
BY DEF TypeOK, Scanning, Returned, Nobody, Requests

LEMMA AcceptStep ==
    ASSUME IInv, NEW q \in Requests, NEW id \in Ids, NEW kind \in Kinds, Accept(q, id, kind)
    PROVE  IInv'
<1> USE DEF IInv
<1>1. /\ q = received + 1 /\ received' = q /\ received \in Nat
      /\ request' = [request EXCEPT ![q] = [id |-> id, kind |-> kind]]
      /\ phase' = [phase EXCEPT ![q] = "begun"]
      /\ inFlight' = [inFlight EXCEPT ![id] = q]
  BY DEF Accept, TypeOK
<1>2. \A r \in Requests : /\ r \in Nat /\ (r <= received => r # q /\ r <= received')
                          /\ (r <= received' => r = q \/ r <= received)
  BY <1>1 DEF Requests
<1>3. /\ request'[q] = [id |-> id, kind |-> kind] /\ phase'[q] = "begun"
      /\ \A r \in Requests : r # q => request'[r] = request[r] /\ phase'[r] = phase[r]
  BY <1>1 DEF TypeOK
<1>4. TypeOK'
  <2>1. received' \in 0..MaxRequests
    BY <1>1 DEF Requests
  <2>2. phase' \in [Requests -> {"unsent", "done"} \cup Live]
    BY <1>1 DEF TypeOK, Live, Undecided, InHandler
  <2>3. request' \in [Requests -> [id : Ids, kind : Kinds] \cup {Unsent}]
    BY <1>1 DEF TypeOK
  <2>4. late' \subseteq Requests /\ inFlight' \in [Ids -> Requests \cup {Nobody}]
    BY <1>1 DEF Accept, TypeOK
  <2> QED BY <1>1, <2>1, <2>2, <2>3, <2>4 DEF Accept, TypeOK
<1>5. Numbered'
  BY <1>1, <1>2, <1>3 DEF Numbered
<1>6. TableIsExact'
  <2> SUFFICES ASSUME NEW i \in Ids
               PROVE  /\ inFlight'[i] # Nobody =>
                            phase'[inFlight'[i]] \in Live /\ request'[inFlight'[i]].id = i
                      /\ \A r \in 1..received' :
                            request'[r].id = i /\ Newest(r)' /\ phase'[r] # "done" => inFlight'[i] = r
    BY DEF TableIsExact
  <2>1. CASE i = id
    <3>1. inFlight'[i] = q
      BY <1>1, <2>1 DEF TypeOK
    <3>2. ASSUME NEW r \in 1..received', request'[r].id = i, Newest(r)'
          PROVE  r = q
      <4>1. r # q => q \in r+1..received'
        BY <1>1, <3>2
      <4> QED BY <2>1, <3>2, <4>1, <1>3 DEF Newest
    <3> QED BY <2>1, <3>1, <3>2, <1>3 DEF Live, Undecided, InHandler
  <2>2. CASE i # id
    <3>1. inFlight'[i] = inFlight[i]
      BY <1>1, <2>2 DEF TypeOK
    <3>2. inFlight[i] # Nobody => inFlight[i] \in Requests /\ inFlight[i] # q
      <4>1. inFlight[i] # Nobody => inFlight[i] \in Requests /\ phase[inFlight[i]] # "unsent"
        BY DEF TypeOK, TableIsExact, Live, Undecided, InHandler
      <4> QED BY <4>1, <1>1 DEF Numbered, Requests
    <3>3. ASSUME NEW r \in 1..received', request'[r].id = i, Newest(r)', phase'[r] # "done"
          PROVE  inFlight[i] = r
      <4>1. r # q /\ r \in 1..received /\ r \in Requests
        <5>1. r # q /\ r \in 1..received
          BY <1>1, <1>3, <2>2, <3>3
        <5>2. received \in 0..MaxRequests
          BY DEF TypeOK
        <5> QED BY <5>1, <5>2, RequestsAssumption DEF Requests
      <4>2. Newest(r)
        <5> SUFFICES ASSUME NEW p \in r+1..received PROVE request[p].id # request[r].id
          BY DEF Newest
        <5>1. p \in r+1..received' /\ p # q /\ p \in Requests
          BY <1>1, <4>1, RequestsAssumption DEF Requests
        <5> QED BY <5>1, <4>1, <3>3, <1>3 DEF Newest
      <4> QED BY <4>1, <4>2, <3>3, <1>3 DEF TableIsExact
    <3> QED BY <3>1, <3>2, <3>3, <1>3 DEF TableIsExact
  <2> QED BY <2>1, <2>2
<1>7. Known'
  <2>1. reader' = Scanning /\ cancelled' = cancelled /\ cancelled \subseteq Requests
    BY DEF Accept, TypeOK
  <2>2. ASSUME NEW i \in Ids, inFlight'[i] # Nobody,
               NEW p \in inFlight'[i]+1..received'
        PROVE  request'[p].id # request'[inFlight'[i]].id
    <3>1. CASE i = id
      <4>1. inFlight'[i] = q
        BY <1>1, <3>1 DEF TypeOK
      <4> QED BY <1>1, <2>2, <4>1
    <3>2. CASE i # id
      <4>1. inFlight'[i] = inFlight[i]
        BY <1>1, <3>2 DEF TypeOK
      <4>2. inFlight[i] \in Requests /\ phase[inFlight[i]] # "unsent" /\ request[inFlight[i]].id = i
        BY <2>2, <4>1 DEF TypeOK, TableIsExact, Live, Undecided, InHandler
      <4>3. PICK r \in Requests : r = inFlight[i] /\ Newest(r) /\ r <= received /\ request[r].id = i
        BY <2>2, <4>1, <4>2 DEF Known, Numbered, Requests, TypeOK
      <4>4. p = q \/ (p \in r+1..received /\ p \in Requests /\ p # q)
        <5>1. p \in Int /\ r + 1 <= p /\ p <= received' /\ r \in Nat /\ received \in Nat
          BY <1>1, <2>2, <4>1, <4>3 DEF Requests
        <5>2. p = q \/ p <= received
          BY <1>1, <5>1
        <5>3. received <= MaxRequests /\ MaxRequests \in Nat
          BY RequestsAssumption DEF TypeOK
        <5>4. p <= received => p \in r+1..received /\ p \in Requests /\ p # q
          BY <1>1, <5>1, <5>3 DEF Requests
        <5> QED BY <5>2, <5>4
      <4>5. r # q /\ request'[r].id = i
        BY <1>2, <1>3, <4>3
      <4>6. CASE p = q
        BY <1>3, <3>2, <4>1, <4>3, <4>5, <4>6
      <4>7. CASE p \in r+1..received /\ p \in Requests /\ p # q
        <5>1. request[p].id # request[r].id
          BY <4>3, <4>7 DEF Newest
        <5> QED BY <1>3, <4>1, <4>3, <4>5, <4>7, <5>1
      <4> QED BY <4>4, <4>6, <4>7
    <3> QED BY <3>1, <3>2
  <2>3. \A i \in Ids : inFlight'[i] # Nobody =>
          \A p \in inFlight'[i]+1..received' : request'[p].id # request'[inFlight'[i]].id
    BY <2>2
  <2>4. \A r \in cancelled' : r <= received'
    BY <1>2, <2>1 DEF Known
  <2> QED BY <2>1, <2>3, <2>4, Readers DEF Known, Newest
<1>8. Answers'
  <2>1. q \notin answered /\ phase[q] = "unsent" /\ answered' = answered /\ answered \subseteq Requests
    BY <1>1, <1>2 DEF Answers, Numbered, Accept, TypeOK
  <2> QED BY <2>1, <1>3 DEF Answers
<1>9. LastLine'
  <2>1. late = {} /\ q \notin answered
    BY <1>1, <1>2 DEF LastLine, Accept, Answers, Numbered
  <2>2. reader' = Scanning /\ answered' = answered /\ stopped' = stopped
        /\ late' = IF stopped THEN {q} ELSE {}
    BY <2>1 DEF Accept
  <2> QED BY <2>1, <2>2, <1>1, <1>3, Readers DEF LastLine
<1> QED BY <1>4, <1>5, <1>6, <1>7, <1>8, <1>9

-----------------------------------------------------------------------------
\* The steps of the loop, the stop and the backend leave the table alone.
LEMMA LoopStep ==
    ASSUME IInv,
           \/ TakeLine \/ SkipLine \/ Cancel \/ EndOfInput \/ RequestStop \/ OutputEnds
           \/ \E id \in Ids : FindCancelled(id)
           \/ \E outcome \in {"ready", "failed"} : BackendStarted(outcome)
    PROVE  IInv'
<1> USE DEF IInv
<1>1. UNCHANGED <<inFlight, request, phase, received, answered, late>>
  BY DEF TakeLine, SkipLine, Cancel, EndOfInput, RequestStop, OutputEnds, FindCancelled, BackendStarted, historyVars
<1>2. Numbered' /\ TableIsExact'
  BY <1>1 DEF Numbered, TableIsExact, Newest
<1>3. TypeOK'
  <2>1. ASSUME NEW id \in Ids, FindCancelled(id) PROVE TypeOK'
    BY <2>1, Readers DEF FindCancelled, TypeOK, Cancellable, historyVars
  <2> QED BY <2>1, Readers DEF TypeOK, TakeLine, SkipLine, Cancel, EndOfInput, RequestStop,
              OutputEnds, BackendStarted, historyVars
<1>4. Known'
  <2>1. ASSUME NEW id \in Ids, FindCancelled(id) PROVE Known'
    <3>1. CASE Cancellable(inFlight[id])
      <4>1. /\ inFlight[id] \in Requests /\ inFlight[id] # Nobody
            /\ phase[inFlight[id]] # "unsent"
        BY <3>1 DEF Cancellable, TypeOK, TableIsExact, Live, Undecided, InHandler
      <4>2. inFlight[id] <= received
        BY <4>1 DEF Numbered, Requests, TypeOK
      <4> QED BY <2>1, <3>1, <4>1, <4>2, <1>1 DEF FindCancelled, Known, Newest
    <3>2. CASE ~Cancellable(inFlight[id])
      BY <2>1, <3>2, <1>1, Readers DEF FindCancelled, Known, Newest
    <3> QED BY <3>1, <3>2
  <2>2. CASE Cancel
    BY <2>2, <1>1, Readers DEF Cancel, Known, Newest
  <2> QED BY <2>1, <2>2, <1>1, Readers DEF Known, Newest, TakeLine, SkipLine, EndOfInput, RequestStop,
              OutputEnds, BackendStarted
<1>5. stopped => stopped'
  BY DEF TakeLine, SkipLine, Cancel, EndOfInput, RequestStop, OutputEnds, FindCancelled, BackendStarted
<1>6. Answers'
  BY <1>1 DEF Answers
<1>7. reader'.pc = "line" => reader.pc = "line" \/ ~stopped
  BY Readers DEF TakeLine, SkipLine, Cancel, EndOfInput, RequestStop, OutputEnds, FindCancelled, BackendStarted
<1>8. LastLine'
  BY <1>1, <1>5, <1>7 DEF LastLine
<1> QED BY <1>2, <1>3, <1>4, <1>6, <1>8

-----------------------------------------------------------------------------
\* One step of a goroutine moves its own phase on, and may answer or leave the table.
LEMMA GoroutineEffect ==
    ASSUME IInv, NEW q \in Requests, Goroutine(q)
    PROVE  /\ UNCHANGED <<reader, stopped, request, cancelled, received, late>>
           /\ phase[q] \in Live
           /\ \E to \in (Live \ {"begun"}) \cup {"done"} : phase' = [phase EXCEPT ![q] = to]
           /\ backend' = backend /\ broken' = broken
           /\ (phase'[q] = "done" <=> phase[q] = "finishing")
           /\ phase'[q] = "writing" => ~Ended(q)
           /\ answered' = IF phase[q] = "writing" /\ ~broken THEN answered \cup {q} ELSE answered
           /\ phase[q] = "writing" => phase'[q] = "finishing"
           /\ phase'[q] = "finishing" => phase[q] = "writing" \/ Ended(q)
           /\ inFlight' = IF phase[q] = "finishing"
                          THEN [i \in Ids |-> IF inFlight[i] = q THEN Nobody ELSE inFlight[i]]
                          ELSE inFlight
<1> USE DEF IInv, TypeOK, Live, Undecided, InHandler, historyVars
<1>1. CASE Begin(q) BY <1>1 DEF Begin
<1>2. CASE Refuse(q) BY <1>2 DEF Refuse
<1>3. CASE Return(q) BY <1>3 DEF Return
<1>4. CASE CheckContext(q)
  <2>1. CASE Ended(q) BY <1>4, <2>1 DEF CheckContext
  <2>2. CASE ~Ended(q) BY <1>4, <2>2 DEF CheckContext
  <2> QED BY <2>1, <2>2
<1>5. CASE Write(q) BY <1>5 DEF Write
<1>6. CASE Finish(q) BY <1>6 DEF Finish
<1> QED BY <1>1, <1>2, <1>3, <1>4, <1>5, <1>6 DEF Goroutine

LEMMA GoroutineStep ==
    ASSUME IInv, NEW q \in Requests, Goroutine(q)
    PROVE  IInv'
<1> USE DEF IInv
<1>1. /\ UNCHANGED <<reader, stopped, request, cancelled, received, late>>
      /\ phase[q] \in Live
      /\ backend' = backend /\ broken' = broken
      /\ (phase'[q] = "done" <=> phase[q] = "finishing")
      /\ phase'[q] = "writing" => ~Ended(q)
      /\ answered' = IF phase[q] = "writing" /\ ~broken THEN answered \cup {q} ELSE answered
      /\ phase[q] = "writing" => phase'[q] = "finishing"
      /\ phase'[q] = "finishing" => phase[q] = "writing" \/ Ended(q)
      /\ inFlight' = IF phase[q] = "finishing"
                     THEN [i \in Ids |-> IF inFlight[i] = q THEN Nobody ELSE inFlight[i]]
                     ELSE inFlight
  BY GoroutineEffect
<1>2. PICK to \in (Live \ {"begun"}) \cup {"done"} : phase' = [phase EXCEPT ![q] = to]
  BY GoroutineEffect
<1>3. phase'[q] = to /\ \A r \in Requests : r # q => phase'[r] = phase[r]
  BY <1>2 DEF TypeOK
<1>4. q <= received /\ q \in Nat /\ received \in Nat
  BY <1>1 DEF Numbered, Live, Undecided, InHandler, Requests, TypeOK
<1>5. TypeOK'
  <2>1. phase' \in [Requests -> {"unsent", "done"} \cup Live]
    BY <1>2 DEF TypeOK
  <2>2. inFlight' \in [Ids -> Requests \cup {Nobody}]
    BY <1>1 DEF TypeOK
  <2> QED BY <1>1, <2>1, <2>2 DEF TypeOK
<1>6. Numbered'
  BY <1>1, <1>3, <1>4 DEF Numbered, Live, Undecided, InHandler
<1>7. TableIsExact'
  <2>1. \A r : Newest(r)' <=> Newest(r)
    BY <1>1 DEF Newest
  <2>2. CASE phase[q] # "finishing"
    <3>1. phase'[q] \in Live
      BY <1>1, <1>3, <2>2
    <3>2. \A r \in Requests : (phase[r] \in Live => phase'[r] \in Live)
                              /\ (phase'[r] # "done" => phase[r] # "done")
      BY <1>1, <1>3, <3>1 DEF Live, Undecided, InHandler
    <3>3. \A i \in Ids : inFlight[i] # Nobody => inFlight[i] \in Requests
      BY DEF TypeOK
    <3>4. 1..received \subseteq Requests
      BY <1>4, RequestsAssumption DEF TypeOK, Requests
    <3> QED BY <1>1, <2>1, <2>2, <3>2, <3>3, <3>4 DEF TableIsExact
  <2>3. CASE phase[q] = "finishing"
    <3>1. \A i \in Ids : inFlight'[i] = IF inFlight[i] = q THEN Nobody ELSE inFlight[i]
      BY <1>1, <2>3
    <3>2. phase'[q] = "done"
      BY <1>1, <2>3
    <3>3. \A i \in Ids : inFlight[i] # Nobody => inFlight[i] \in Requests
      BY DEF TypeOK
    <3>4. 1..received \subseteq Requests /\ Nobody \notin Requests
      BY <1>4, RequestsAssumption DEF TypeOK, Requests, Nobody
    <3>5. ASSUME NEW i \in Ids, inFlight'[i] # Nobody
          PROVE  phase'[inFlight'[i]] \in Live /\ request'[inFlight'[i]].id = i
      BY <3>1, <3>3, <3>5, <1>1, <1>3 DEF TableIsExact
    <3>6. ASSUME NEW i \in Ids, NEW r \in 1..received', request'[r].id = i, Newest(r)', phase'[r] # "done"
          PROVE  inFlight'[i] = r
      <4>1. r # q /\ r \in Requests /\ r \in 1..received /\ phase[r] # "done"
        BY <3>2, <3>4, <3>6, <1>1, <1>3
      <4>2. inFlight[i] = r
        BY <4>1, <3>6, <2>1, <1>1 DEF TableIsExact
      <4> QED BY <4>1, <4>2, <3>1
    <3> QED BY <3>5, <3>6 DEF TableIsExact
  <2> QED BY <2>2, <2>3
<1>8. Known'
  <2>1. \A i \in Ids : inFlight'[i] # Nobody => inFlight'[i] = inFlight[i]
    BY <1>1
  <2> QED BY <1>1, <2>1 DEF Known, Newest
<1>9. Answers'
  <2>1. answered \subseteq Requests
    BY DEF TypeOK
  <2>2. q \in answered => phase[q] = "finishing"
    BY <1>1 DEF Answers, Live, Undecided, InHandler
  <2> QED BY <1>1, <1>3, <2>1, <2>2 DEF Answers
<1>10. LastLine'
  <2>1. q \in late => stopped /\ phase[q] # "writing"
    BY DEF LastLine
  <2>2. q \in late => phase'[q] # "writing"
    BY <2>1, <1>1 DEF Ended, closing
  <2>3. late \subseteq Requests
    BY DEF TypeOK
  <2> QED BY <1>1, <1>3, <2>1, <2>2, <2>3 DEF LastLine
<1> QED BY <1>5, <1>6, <1>7, <1>8, <1>9, <1>10

-----------------------------------------------------------------------------
LEMMA Inductive == IInv /\ [Next]_vars => IInv'
<1> SUFFICES ASSUME IInv, [Next]_vars PROVE IInv'
  OBVIOUS
<1>1. CASE UNCHANGED vars
  BY <1>1 DEF vars, historyVars, IInv, TypeOK, Numbered, TableIsExact, Newest, Known, Answers,
              LastLine
<1>2. CASE Next
  BY <1>2, AcceptStep, LoopStep, GoroutineStep DEF Next
<1> QED BY <1>1, <1>2

LEMMA Invariant == Spec => []IInv
BY Initially, Inductive, PTL DEF Spec

\* The table, the loop and the goroutines keep their types, whatever the client
\* sends.
THEOREM TypeCorrect == Spec => []TypeOK
<1>1. IInv => TypeOK BY DEF IInv
<1> QED BY <1>1, Invariant, PTL

\* finishRequest never takes out the entry of another request, and an entry is
\* there as long as its goroutine: cancellation finds the right request.
THEOREM TableExact == Spec => []TableIsExact
<1>1. IInv => TableIsExact BY DEF IInv
<1> QED BY <1>1, Invariant, PTL

\* A restart request lets Serve take one more line at most, and its request is
\* not answered.
THEOREM LateDropped == Spec => []LateRequestIsDropped
<1>1. IInv => LateRequestIsDropped
  <2> SUFFICES ASSUME IInv PROVE LateRequestIsDropped
    OBVIOUS
  <2>1. CASE late = {}
    BY <2>1, FS_EmptySet DEF LateRequestIsDropped
  <2>2. CASE late # {}
    <3>1. PICK r : late = {r}
      <4>1. \A q, p \in late : q = p
        BY DEF IInv, LastLine
      <4> QED BY <2>2, <4>1
    <3>2. Cardinality(late) = 1
      BY <3>1, FS_Singleton
    <3> QED BY <3>2 DEF IInv, LastLine, LateRequestIsDropped
  <2> QED BY <2>1, <2>2
<1> QED BY <1>1, Invariant, PTL

-----------------------------------------------------------------------------
(* The promise *)

promiseVars == <<request, open, excused, answered, over>>

LEMMA AcceptKeepsPromise ==
    ASSUME IInv, NEW q \in Requests, NEW id \in Ids, NEW kind \in Kinds, Accept(q, id, kind)
    PROVE  Promise!Ask(q, id, kind)
<1> USE DEF IInv
<1>1. /\ q = received + 1 /\ received \in Nat /\ reader.pc = "line" /\ reader' = Scanning
      /\ request' = [request EXCEPT ![q] = [id |-> id, kind |-> kind]]
      /\ phase' = [phase EXCEPT ![q] = "begun"]
      /\ UNCHANGED <<stopped, cancelled, broken, answered>>
  BY DEF Accept, TypeOK
<1>2. \A r \in Requests : request[r] = Unsent <=> r >= q
  <2>1. \A r \in Requests : r <= received => request[r] # Unsent
    BY DEF Numbered, Unsent, Kinds
  <2>2. \A r \in Requests : r > received => request[r] = Unsent
    BY DEF Numbered
  <2>3. \A r \in Requests : (r > received <=> r >= q) /\ (r <= received <=> ~(r > received))
    BY <1>1 DEF Requests
  <2> QED BY <2>1, <2>2, <2>3
<1>3. phase'[q] = "begun" /\ \A r \in Requests : r # q => phase'[r] = phase[r]
  BY <1>1 DEF TypeOK
<1>4. open' = open \cup {q}
  BY <1>3 DEF open, Undecided, InHandler
<1>5. excused' = excused
  <2>1. q \notin cancelled
    BY <1>1 DEF Known
  <2>2. reader'.pc # "cancelling" /\ reader.pc # "cancelling"
    BY <1>1, Readers
  <2> QED BY <1>1, <1>4, <2>1, <2>2 DEF excused
<1>6. over' = over
  BY <1>1, Readers DEF closing, over
<1> QED BY <1>1, <1>2, <1>4, <1>5, <1>6 DEF Promise!Ask

\* The loop: a cancellation takes effect where it finds its request, in the table.
LEMMA LoopKeepsPromise ==
    ASSUME IInv,
           \/ TakeLine \/ SkipLine \/ Cancel \/ EndOfInput \/ RequestStop \/ OutputEnds
           \/ \E id \in Ids : FindCancelled(id)
           \/ \E outcome \in {"ready", "failed"} : BackendStarted(outcome)
    PROVE  Promise!Next \/ UNCHANGED promiseVars
<1> USE DEF IInv
<1>1. UNCHANGED <<request, phase, answered>>
  BY DEF TakeLine, SkipLine, Cancel, EndOfInput, RequestStop, OutputEnds, FindCancelled, BackendStarted, historyVars
<1>2. open' = open
  BY <1>1 DEF open
<1>3. CASE TakeLine \/ EndOfInput \/ RequestStop \/ OutputEnds
  <2>1. cancelled' = cancelled /\ (over' = over \/ over' = TRUE)
    <3>1. CASE TakeLine
      <4>1. stopped' = stopped /\ (stopped \/ (reader # Returned /\ reader' # Returned))
        BY <3>1, Readers DEF TakeLine, Returned
      <4> QED BY <3>1, <4>1 DEF TakeLine, closing, over
    <3>2. CASE EndOfInput
      BY <3>2 DEF EndOfInput, closing, over
    <3>3. CASE RequestStop
      BY <3>3 DEF RequestStop, closing, over
    <3>4. CASE OutputEnds
      BY <3>4 DEF OutputEnds, over
    <3> QED BY <1>3, <3>1, <3>2, <3>3, <3>4
  <2>2. excused' = excused
    BY <1>2, <1>3, <2>1, Readers DEF excused, TakeLine, EndOfInput, RequestStop, OutputEnds
  <2> QED BY <1>1, <1>2, <2>1, <2>2 DEF Promise!Next, Promise!Close, promiseVars
<1>4. CASE SkipLine \/ Cancel \/ \E outcome \in {"ready", "failed"} : BackendStarted(outcome)
  <2>1. over' = over
    BY <1>4, Readers DEF SkipLine, Cancel, BackendStarted, closing, over
  <2>2. excused' = excused
    <3>1. CASE SkipLine \/ \E outcome \in {"ready", "failed"} : BackendStarted(outcome)
      BY <1>2, <3>1, Readers DEF excused, SkipLine, BackendStarted
    <3>2. CASE Cancel
      BY <1>2, <3>2, Readers DEF excused, Cancel
    <3> QED BY <1>4, <3>1, <3>2
  <2> QED BY <1>1, <1>2, <2>1, <2>2 DEF promiseVars
<1>5. ASSUME NEW id \in Ids, FindCancelled(id)
      PROVE  Promise!Next \/ UNCHANGED promiseVars
  <2> DEFINE r == inFlight[id]
  <2>1. cancelled' = cancelled /\ over' = over /\ reader.pc = "line"
    BY <1>5, Readers DEF FindCancelled, closing, over
  <2>2. CASE Cancellable(r) /\ r \in open
    <3>1. excused' = excused \cup {r}
      BY <1>2, <1>5, <2>1, <2>2 DEF excused, FindCancelled
    <3>2. r \in Requests /\ request[r].kind # "initialize" /\ Newest(r) /\ r # Nobody
      BY <2>2 DEF Cancellable, open, Known
    <3>3. \A q \in Requests : q > r /\ request[q] # Unsent => request[q].id # request[r].id
      <4> SUFFICES ASSUME NEW q \in Requests, q > r, request[q] # Unsent
                   PROVE  request[q].id # request[r].id
        OBVIOUS
      <4>1. q \in Nat /\ r \in Nat /\ received \in Nat
        BY <3>2 DEF Requests, TypeOK
      <4>2. q <= received
        BY <4>1 DEF Numbered
      <4>3. q \in r+1..received
        BY <4>1, <4>2
      <4> QED BY <3>2, <4>3 DEF Newest
    <3>4. Promise!Cancel(r)
      BY <1>1, <1>2, <2>1, <2>2, <3>1, <3>2, <3>3 DEF Promise!Cancel
    <3> QED BY <3>2, <3>4 DEF Promise!Next
  <2>3. CASE ~(Cancellable(r) /\ r \in open)
    <3>1. excused' = excused
      BY <1>2, <1>5, <2>1, <2>3, Readers DEF excused, FindCancelled
    <3> QED BY <1>1, <1>2, <2>1, <3>1 DEF promiseVars
  <2> QED BY <2>2, <2>3
<1> QED BY <1>3, <1>4, <1>5

\* A goroutine decides once whether its request is answered.
LEMMA GoroutineKeepsPromise ==
    ASSUME IInv, NEW q \in Requests, Goroutine(q)
    PROVE  Promise!Next \/ UNCHANGED promiseVars
<1> USE DEF IInv
<1>1. /\ UNCHANGED <<reader, stopped, request, cancelled, broken>>
      /\ phase[q] \in Live
      /\ (phase'[q] = "done" <=> phase[q] = "finishing")
      /\ answered' = IF phase[q] = "writing" /\ ~broken THEN answered \cup {q} ELSE answered
      /\ phase[q] = "writing" => phase'[q] = "finishing"
      /\ phase'[q] = "finishing" => phase[q] = "writing" \/ Ended(q)
  BY GoroutineEffect
<1>2. PICK to \in (Live \ {"begun"}) \cup {"done"} : phase' = [phase EXCEPT ![q] = to]
  BY GoroutineEffect
<1>3. phase'[q] = to /\ \A r \in Requests : r # q => phase'[r] = phase[r]
  BY <1>2 DEF TypeOK
<1>4. over' = over
  BY <1>1 DEF closing, over
<1>5. CASE phase[q] \in Undecided /\ phase'[q] = "finishing"
  <2>1. q \in open /\ open' = open \ {q}
    BY <1>3, <1>5 DEF open, Undecided, InHandler
  <2>2. excused' = excused \ {q}
    BY <1>1, <2>1 DEF excused
  <2>3. Promise!End(q)
    BY <1>1, <1>4, <2>1, <2>2 DEF Promise!End
  <2>4. CASE phase[q] = "writing" /\ ~broken
    BY <1>1, <2>3, <2>4 DEF Promise!Answer, Promise!Next
  <2>5. CASE phase[q] # "writing" \/ broken
    <3>1. q \in excused \/ over
      BY <1>1, <1>5, <2>1, <2>5 DEF Ended, excused, over
    <3>2. Promise!Drop(q)
      BY <1>1, <2>3, <2>5, <3>1 DEF Promise!Drop
    <3> QED BY <3>2 DEF Promise!Next
  <2> QED BY <2>4, <2>5
<1>6. CASE phase[q] = "finishing" \/ (phase[q] \in Undecided /\ phase'[q] \in Undecided)
  <2>1. phase[q] \in Undecided <=> phase'[q] \in Undecided
    BY <1>1, <1>6 DEF Undecided, InHandler
  <2>2. open' = open
    BY <1>3, <2>1 DEF open
  <2>3. excused' = excused
    BY <1>1, <2>2 DEF excused
  <2>4. phase[q] # "writing"
    BY <1>1, <1>6 DEF Undecided, InHandler
  <2> QED BY <1>1, <1>4, <2>2, <2>3, <2>4 DEF promiseVars
<1> QED BY <1>1, <1>3, <1>5, <1>6 DEF Live, Undecided, InHandler

\* Requests of one id, late cancellations, a stop and the clean-up of the table in
\* any order: only a request that a cancellation found as the newest of its id, and
\* never initialize, may lose its answer while the connector goes on.
THEOREM Implements == Spec => RequestPromiseKept
<1>1. Init => Promise!Init
  <2> SUFFICES ASSUME Init PROVE Promise!Init
    OBVIOUS
  <2>1. open = {} /\ excused = {}
    BY DEF Init, open, excused, Undecided, InHandler
  <2>2. over = FALSE
    BY DEF Init, closing, over, Scanning, Returned
  <2> QED BY <2>1, <2>2 DEF Init, Promise!Init
<1>2. IInv /\ [Next]_vars => [Promise!Next]_promiseVars
  <2> SUFFICES ASSUME IInv, [Next]_vars PROVE Promise!Next \/ UNCHANGED promiseVars
    OBVIOUS
  <2>1. CASE UNCHANGED vars
    BY <2>1 DEF vars, historyVars, promiseVars, open, excused, closing, over
  <2>2. ASSUME NEW r \in Requests, NEW id \in Ids, NEW kind \in Kinds, Accept(r, id, kind)
        PROVE  Promise!Next
    BY <2>2, AcceptKeepsPromise DEF Promise!Next
  <2> QED BY <2>1, <2>2, LoopKeepsPromise, GoroutineKeepsPromise DEF Next
<1> QED BY <1>1, <1>2, Invariant, PTL DEF Spec, RequestPromiseKept, Promise!Spec, promiseVars
=============================================================================
