-------------------------- MODULE CommandOutputProofs --------------------------
(***************************************************************************)
(* Proofs about CommandOutput, for every cap, chunk size and set of         *)
(* requests: what the writer stores of the two streams, what the polls take *)
(* off, and when an answer may say that the command is over.                *)
(***************************************************************************)
EXTENDS CommandOutput, SequenceTheorems, TLAPS

\* What the writer's variables hold, and how the buffers relate to the input.
WriterOK ==
    /\ copied \in [Streams -> Nat] /\ buf \in Text
    /\ outputBytes \in Nat /\ capReached \in BOOLEAN

BuffersFollowInput ==
    /\ outputBytes = copied["stdout"] + copied["stderr"]
    /\ ~capReached => \A s \in Streams : Size(s) = copied[s]
    /\ capReached => OutputCap > 0 /\ Stored = OutputCap

CapRespected == OutputCap > 0 => Stored <= OutputCap

WInv == WriterOK /\ BuffersFollowInput /\ CapRespected /\ StoredIsPrefix

\* A chunk is a sequence of the length asked for.
LEMMA ChunkIsSeq ==
    ASSUME WriterOK, NEW s \in Streams, NEW n \in Nat, NEW m \in Nat
    PROVE  /\ Chunk(s, n, m) \in Seq(Nat)
           /\ Len(Chunk(s, n, m)) = m
           /\ \A i \in 1..m : Chunk(s, n, m)[i] = copied[s] + i
<1>1. \A i \in 1..m : copied[s] + i \in Nat
  BY DEF WriterOK
<1> QED BY <1>1 DEF Chunk

\* What a Write does to the buffers and the counters.
LEMMA WriteEffect ==
    ASSUME WInv, NEW s \in Streams, Write(s)
    PROVE  \E n \in Nat \ {0} :
             /\ copied' = [copied EXCEPT ![s] = @ + n]
             /\ outputBytes' = outputBytes + n
             /\ Fits(s, n) \in 0..n
             /\ buf' \in Text
             /\ Size(s)' = Size(s) + Fits(s, n)
             /\ \A r \in Streams : r # s => buf'[r] = buf[r]
             /\ \A i \in 1..(Size(s)') :
                   buf'[s][i] = IF i <= Size(s) THEN buf[s][i] ELSE copied[s] + (i - Size(s))
             /\ capReached' = (capReached \/ Fits(s, n) < n)
<1> USE DEF WInv, WriterOK, Text
<1>1. PICK n \in 1..MaxChunk :
        /\ copied' = [copied EXCEPT ![s] = @ + n]
        /\ outputBytes' = outputBytes + n
        /\ buf' = [buf EXCEPT ![s] = @ \o Chunk(s, n, Fits(s, n))]
        /\ capReached' = (capReached \/ Fits(s, n) < n)
  BY DEF Write
<1>2. n \in Nat \ {0}
  BY BoundsAssumption
<1>3. Stored \in Nat
  <2>1. \A r \in Streams : Size(r) \in Nat
    BY DEF Size
  <2> QED BY <2>1 DEF Stored, Streams
<1>4. Fits(s, n) \in 0..n
  BY <1>2, <1>3, BoundsAssumption DEF Fits, Remaining
<1>5. /\ Chunk(s, n, Fits(s, n)) \in Seq(Nat)
      /\ Len(Chunk(s, n, Fits(s, n))) = Fits(s, n)
      /\ \A i \in 1..Fits(s, n) : Chunk(s, n, Fits(s, n))[i] = copied[s] + i
  <2>1. Fits(s, n) \in Nat /\ n \in Nat
    BY <1>2, <1>4
  <2>2. WriterOK
    OBVIOUS
  <2> HIDE DEF WInv, WriterOK, Text
  <2> QED BY <2>1, <2>2, ChunkIsSeq
<1>6. buf[s] \in Seq(Nat)
  OBVIOUS
<1>7. /\ buf' \in Text
      /\ buf'[s] = buf[s] \o Chunk(s, n, Fits(s, n))
      /\ \A r \in Streams : r # s => buf'[r] = buf[r]
  BY <1>1, <1>5, <1>6
<1>8. Size(s)' = Size(s) + Fits(s, n)
  BY <1>5, <1>6, <1>7 DEF Size
<1>9. \A i \in 1..(Size(s)') :
         buf'[s][i] = IF i <= Size(s) THEN buf[s][i] ELSE copied[s] + (i - Size(s))
  <2> DEFINE t == Chunk(s, n, Fits(s, n))
  <2>1. t \in Seq(Nat) /\ Size(s) = Len(buf[s]) /\ Size(s)' = Len(buf[s]) + Len(t)
    BY <1>5, <1>8 DEF Size
  <2>2. \A i \in 1..Len(t) : t[i] = copied[s] + i
    BY <1>5
  <2>3. buf'[s] = buf[s] \o t
    BY <1>7
  <2> HIDE DEF t
  <2>4. \A i \in 1..Len(buf[s]) + Len(t) : (buf[s] \o t)[i] = IF i <= Len(buf[s]) THEN buf[s][i] ELSE t[i - Len(buf[s])]
    BY <1>6, <2>1
  <2>5. Len(buf[s]) \in Nat /\ Len(t) \in Nat
    BY <1>6, <2>1
  <2> QED BY <2>1, <2>2, <2>3, <2>4, <2>5
<1> QED BY <1>1, <1>2, <1>4, <1>7, <1>8, <1>9

LEMMA WriteStep ==
    ASSUME WInv, NEW s \in Streams, Write(s) PROVE WInv'
<1> USE DEF WInv
<1>1. PICK n \in Nat \ {0} :
        /\ copied' = [copied EXCEPT ![s] = @ + n]
        /\ outputBytes' = outputBytes + n
        /\ Fits(s, n) \in 0..n
        /\ buf' \in Text
        /\ Size(s)' = Size(s) + Fits(s, n)
        /\ \A r \in Streams : r # s => buf'[r] = buf[r]
        /\ \A i \in 1..(Size(s)') :
              buf'[s][i] = IF i <= Size(s) THEN buf[s][i] ELSE copied[s] + (i - Size(s))
        /\ capReached' = (capReached \/ Fits(s, n) < n)
  BY WriteEffect
<1>2. WriterOK'
  BY <1>1 DEF WriterOK
<1>3. /\ \A r \in Streams : Size(r) \in Nat /\ Size(r)' \in Nat
      /\ Stored \in Nat /\ Stored' = Stored + Fits(s, n)
  <2>1. \A r \in Streams : Size(r) \in Nat /\ Size(r)' \in Nat
    BY <1>1 DEF WriterOK, Text, Size
  <2>2. \A r \in Streams : r # s => Size(r)' = Size(r)
    BY <1>1 DEF Size
  <2>3. Fits(s, n) \in Nat /\ s \in {"stdout", "stderr"}
    BY <1>1 DEF Streams
  <2>4. Stored \in Nat /\ Stored' = Stored + Fits(s, n)
    BY <1>1, <2>1, <2>2, <2>3 DEF Stored, Streams
  <2> QED BY <2>1, <2>4
<1>4. OutputCap > 0 => Fits(s, n) = IF n <= OutputCap - Stored THEN n ELSE OutputCap - Stored
  BY <1>1, <1>3, BoundsAssumption DEF Fits, Remaining, CapRespected
<1>5. OutputCap = 0 => Fits(s, n) = n
  BY DEF Fits
<1>6. CapRespected'
  BY <1>1, <1>3, <1>4, BoundsAssumption DEF CapRespected
<1>7. BuffersFollowInput'
  <2>1. outputBytes' = copied'["stdout"] + copied'["stderr"]
    BY <1>1 DEF BuffersFollowInput, WriterOK, Streams
  <2>2. ASSUME ~capReached' PROVE \A r \in Streams : Size(r)' = copied'[r]
    <3>1. ~capReached /\ Fits(s, n) = n
      <4>1. ~ (capReached \/ Fits(s, n) < n)
        BY <1>1, <2>2, Zenon
      <4> QED BY <1>1, <4>1
    <3>2. ASSUME NEW r \in Streams PROVE Size(r)' = copied'[r]
      <4>1. Size(r) = copied[r] /\ copied[r] \in Nat
        BY <3>1 DEF BuffersFollowInput, WriterOK
      <4>2. CASE r = s
        BY <1>1, <3>1, <4>1, <4>2 DEF WriterOK
      <4>3. CASE r # s
        <5>1. Size(r)' = Size(r)
          BY <1>1, <4>3 DEF Size
        <5> QED BY <1>1, <4>1, <4>3, <5>1 DEF WriterOK
      <4> QED BY <4>2, <4>3
    <3> QED BY <3>2
  <2>3. ASSUME capReached' PROVE OutputCap > 0 /\ Stored' = OutputCap
    <3>1. CASE capReached
      <4>1. OutputCap > 0 /\ Stored = OutputCap
        BY <3>1 DEF BuffersFollowInput
      <4>2. Fits(s, n) = 0
        BY <1>1, <1>4, <4>1, BoundsAssumption
      <4> QED BY <1>3, <4>1, <4>2
    <3>2. CASE ~capReached
      <4>1. Fits(s, n) < n
        BY <1>1, <2>3, <3>2
      <4>2. OutputCap > 0
        BY <1>1, <1>5, <4>1, BoundsAssumption
      <4>3. Fits(s, n) = OutputCap - Stored
        BY <1>1, <1>4, <4>1, <4>2
      <4> QED BY <1>3, <4>2, <4>3, BoundsAssumption
    <3> QED BY <3>1, <3>2
  <2> QED BY <2>1, <2>2, <2>3 DEF BuffersFollowInput
<1>8. StoredIsPrefix'
  <2>1. ASSUME NEW i \in 1..(Size(s)') PROVE buf'[s][i] = i
    <3>1. capReached => Fits(s, n) = 0
      BY <1>1, <1>3, <1>4, BoundsAssumption DEF BuffersFollowInput
    <3>2. CASE i <= Size(s)
      <4>1. i \in 1..Size(s) /\ buf'[s][i] = buf[s][i]
        BY <1>1, <1>3, <2>1, <3>2
      <4>2. buf[s] = [j \in 1..Size(s) |-> j]
        BY DEF StoredIsPrefix
      <4> QED BY <4>1, <4>2
    <3>3. CASE ~(i <= Size(s))
      <4>1. ~capReached
        BY <1>1, <1>3, <2>1, <3>1, <3>3
      <4>2. Size(s) = copied[s]
        BY <4>1 DEF BuffersFollowInput
      <4>3. buf'[s][i] = copied[s] + (i - Size(s))
        BY <1>1, <2>1, <3>3
      <4> QED BY <1>3, <2>1, <4>2, <4>3
    <3> QED BY <3>2, <3>3
  <2>2. buf'[s] = [i \in 1..(Size(s)') |-> i]
    <3>1. buf'[s] \in Seq(Nat) /\ Size(s)' = Len(buf'[s])
      BY <1>1 DEF Text, Size
    <3>2. buf'[s] = [i \in 1..Len(buf'[s]) |-> buf'[s][i]]
      BY <3>1
    <3> QED BY <2>1, <3>1, <3>2
  <2>3. ASSUME NEW r \in Streams, r # s PROVE buf'[r] = [i \in 1..(Size(r)') |-> i]
    <3>1. buf'[r] = buf[r] /\ Size(r)' = Size(r)
      BY <1>1, <2>3 DEF Size
    <3> QED BY <3>1 DEF StoredIsPrefix
  <2> QED BY <2>2, <2>3 DEF StoredIsPrefix
<1> QED BY <1>2, <1>6, <1>7, <1>8

\* The invariant of the writer holds at every step.
THEOREM WriterInvariant == Spec => []WInv
<1>1. Init => WInv
  <2> SUFFICES ASSUME Init PROVE WInv
    OBVIOUS
  <2>1. \A s \in Streams : buf[s] = <<>> /\ Size(s) = 0 /\ copied[s] = 0
    BY DEF Init, Size
  <2>2. copied["stdout"] = 0 /\ copied["stderr"] = 0 /\ Stored = 0
    <3>1. "stdout" \in Streams /\ "stderr" \in Streams
      BY DEF Streams
    <3> QED BY <2>1, <3>1 DEF Stored
  <2>3. WriterOK
    <3>1. <<>> \in Seq(Nat)
      OBVIOUS
    <3>2. buf \in Text
      BY <3>1 DEF Init, Text
    <3> QED BY <3>2 DEF Init, WriterOK
  <2>4. BuffersFollowInput
    BY <2>1, <2>2 DEF Init, BuffersFollowInput
  <2>5. StoredIsPrefix
    <3>1. ASSUME NEW s \in Streams PROVE buf[s] = [i \in 1..Size(s) |-> i]
      <4>1. 1..0 = {}
        OBVIOUS
      <4>2. buf[s] = <<>> /\ 1..Size(s) = {}
        BY <2>1, <4>1
      <4> QED BY <4>2
    <3> QED BY <3>1 DEF StoredIsPrefix
  <2> QED BY <2>2, <2>3, <2>4, <2>5, BoundsAssumption DEF WInv, CapRespected
<1>2. WInv /\ [Next]_vars => WInv'
  <2> SUFFICES ASSUME WInv, [Next]_vars PROVE WInv'
    OBVIOUS
  <2>1. CASE \E s \in Streams : Write(s)
    BY <2>1, WriteStep
  <2>2. CASE UNCHANGED writeVars
    BY <2>2 DEF writeVars, WInv, WriterOK, BuffersFollowInput, CapRespected, StoredIsPrefix, Stored, Size
  <2> QED
    BY <2>1, <2>2 DEF Next, Request, vars, Produce, ProcessExits, WaitReturns, Publish, CloseDone,
                      TakerBegins, ExecSnapshot, PollSnapshot, TerminateFails, Answer, DropAnswer
<1> QED BY <1>1, <1>2, PTL DEF Spec

\* Both streams together never exceed the output cap of the command; cap_reached
\* tells whether they have filled it, and nothing was dropped before.
THEOREM CapExact == Spec => []CapIsExact
<1>1. WInv => CapIsExact
  BY DEF WInv, WriterOK, BuffersFollowInput, CapRespected, CapIsExact, Stored, Streams, Text
<1> QED BY <1>1, WriterInvariant, PTL

\* What is stored of a stream is its beginning.
THEOREM NoGaps == Spec => []StoredIsPrefix
<1>1. WInv => StoredIsPrefix
  BY DEF WInv
<1> QED BY <1>1, WriterInvariant, PTL

-----------------------------------------------------------------------------
(* The polls *)

\* The offsets stay within the buffers, and what was taken is what lies before them.
PInv ==
    /\ readTo \in [Streams -> Nat]
    /\ \A s \in Streams : readTo[s] <= Size(s)
    /\ polled \in Text /\ DeltasPartitionOutput

\* What is new of a stream is the rest of it.
LEMMA DeltaIsRest ==
    ASSUME WInv, PInv, NEW s \in Streams
    PROVE  /\ Delta(s) \in Seq(Nat) /\ Len(Delta(s)) = Size(s) - readTo[s]
           /\ \A i \in 1..(Size(s) - readTo[s]) : Delta(s)[i] = readTo[s] + i
<1>1. buf[s] \in Seq(Nat) /\ Size(s) \in Nat /\ Size(s) = Len(buf[s])
  BY DEF WInv, WriterOK, Text, Size
<1>2. readTo[s] \in Nat /\ readTo[s] <= Size(s)
  BY DEF PInv
<1>3. \A i \in 1..Size(s) : buf[s][i] = i
  BY DEF WInv, StoredIsPrefix
<1>4. Len(Delta(s)) = Size(s) - readTo[s] /\ Delta(s) \in Seq(Nat)
  <2>1. \A i \in (readTo[s] + 1)..Size(s) : buf[s][i] \in Nat
    BY <1>1, <1>2
  <2>2. /\ SubSeq(buf[s], readTo[s] + 1, Size(s)) \in Seq(Nat)
        /\ Len(SubSeq(buf[s], readTo[s] + 1, Size(s)))
             = IF readTo[s] + 1 <= Size(s) THEN Size(s) - (readTo[s] + 1) + 1 ELSE 0
    BY <1>1, <1>2, <2>1, SubSeqProperties
  <2> QED BY <1>1, <1>2, <2>2 DEF Delta
<1>5. \A i \in 1..(Size(s) - readTo[s]) : Delta(s)[i] = buf[s][readTo[s] + i]
  <2>1. \A i \in (readTo[s] + 1)..Size(s) : buf[s][i] \in Nat
    BY <1>1, <1>2
  <2> DEFINE m == readTo[s] + 1
             n == Size(s)
  <2>2. m \in Int /\ n \in Int /\ \A i \in m..n : buf[s][i] \in Nat
    BY <1>1, <1>2, <2>1
  <2>3. \A i \in 1..(n - m + 1) : SubSeq(buf[s], m, n)[i] = buf[s][m + i - 1]
    <3> HIDE DEF m, n
    <3> QED BY <2>2, SubSeqProperties
  <2>4. n - m + 1 = Size(s) - readTo[s] /\ \A i \in Int : m + i - 1 = readTo[s] + i
    <3>1. ASSUME NEW x \in Nat, NEW y \in Nat
          PROVE  y - (x + 1) + 1 = y - x /\ \A i \in Int : x + 1 + i - 1 = x + i
      OBVIOUS
    <3> QED BY <1>1, <1>2, <3>1
  <2>5. ASSUME NEW i \in 1..(Size(s) - readTo[s]) PROVE Delta(s)[i] = buf[s][readTo[s] + i]
    <3>1. i \in 1..(n - m + 1) /\ m + i - 1 = readTo[s] + i
      BY <2>4
    <3>2. Delta(s) = SubSeq(buf[s], m, n)
      BY DEF Delta
    <3> HIDE DEF m, n
    <3> QED BY <2>3, <3>1, <3>2, Zenon
  <2> QED BY <2>5
<1>6. ASSUME NEW i \in 1..(Size(s) - readTo[s]) PROVE Delta(s)[i] = readTo[s] + i
  <2>1. readTo[s] + i \in 1..Size(s)
    BY <1>1, <1>2
  <2> QED BY <1>3, <1>5, <2>1
<1> QED BY <1>4, <1>6

LEMMA TakeStep ==
    ASSUME WInv, PInv, Take, UNCHANGED buf PROVE PInv'
<1>1. /\ UNCHANGED buf
      /\ readTo' = [s \in Streams |-> Size(s)]
      /\ polled' = [s \in Streams |-> polled[s] \o Delta(s)]
  BY DEF Take, NewOffsets
<1>2. \A s \in Streams : Size(s) \in Nat /\ Size(s)' = Size(s)
  BY <1>1 DEF WInv, WriterOK, Text, Size
<1>3. ASSUME NEW s \in Streams
      PROVE  polled'[s] \in Seq(Nat) /\ polled'[s] = [i \in 1..readTo'[s] |-> i]
  <2>1. /\ Delta(s) \in Seq(Nat) /\ Len(Delta(s)) = Size(s) - readTo[s]
        /\ \A i \in 1..(Size(s) - readTo[s]) : Delta(s)[i] = readTo[s] + i
    BY DeltaIsRest
  <2>2. /\ polled[s] \in Seq(Nat) /\ readTo[s] \in Nat /\ readTo[s] <= Size(s)
        /\ polled[s] = [i \in 1..readTo[s] |-> i]
    BY DEF PInv, DeltasPartitionOutput, Text
  <2>3. Len(polled[s]) = readTo[s] /\ \A i \in 1..readTo[s] : polled[s][i] = i
    BY <2>2
  <2>4. polled'[s] = polled[s] \o Delta(s) /\ readTo'[s] = Size(s)
    BY <1>1
  <2>5. polled'[s] \in Seq(Nat) /\ Len(polled'[s]) = Size(s)
    BY <1>2, <2>1, <2>2, <2>3, <2>4
  <2>6. \A i \in 1..Size(s) : polled'[s][i] = i
    <3>1. \A i \in 1..(Len(polled[s]) + Len(Delta(s))) :
            polled'[s][i] = IF i <= Len(polled[s]) THEN polled[s][i] ELSE Delta(s)[i - Len(polled[s])]
      BY <2>1, <2>2, <2>4, ConcatProperties
    <3>2. ASSUME NEW i \in 1..Size(s) PROVE polled'[s][i] = i
      <4>1. polled'[s][i] = IF i <= readTo[s] THEN polled[s][i] ELSE Delta(s)[i - readTo[s]]
        BY <1>2, <2>1, <2>2, <2>3, <3>1
      <4>2. CASE i <= readTo[s]
        BY <2>2, <2>3, <4>1, <4>2
      <4>3. CASE ~(i <= readTo[s])
        <5>1. i - readTo[s] \in 1..(Size(s) - readTo[s]) /\ readTo[s] + (i - readTo[s]) = i
          BY <1>2, <2>2, <4>3
        <5> QED BY <2>1, <4>1, <4>3, <5>1
      <4> QED BY <4>2, <4>3
    <3> QED BY <3>2
  <2>7. polled'[s] = [i \in 1..Len(polled'[s]) |-> polled'[s][i]]
    BY <2>5
  <2>8. [i \in 1..Len(polled'[s]) |-> polled'[s][i]] = [i \in 1..readTo'[s] |-> i]
    BY <2>4, <2>5, <2>6
  <2> QED BY <2>5, <2>7, <2>8
<1>4. polled' \in Text
  BY <1>1, <1>3 DEF Text
<1>5. DeltasPartitionOutput'
  BY <1>3 DEF DeltasPartitionOutput
<1>6. readTo' \in [Streams -> Nat] /\ \A s \in Streams : readTo'[s] <= Size(s)'
  BY <1>1, <1>2
<1> QED BY <1>4, <1>5, <1>6 DEF PInv

LEMMA PollInvariant == Spec => []PInv
<1>1. Init => PInv
  <2> SUFFICES ASSUME Init PROVE PInv
    OBVIOUS
  <2>1. \A s \in Streams : Size(s) = 0 /\ readTo[s] = 0 /\ polled[s] = <<>>
    BY DEF Init, Size
  <2>2. polled \in Text
    <3>1. <<>> \in Seq(Nat)
      OBVIOUS
    <3> QED BY <3>1 DEF Init, Text
  <2>3. DeltasPartitionOutput
    <3>1. ASSUME NEW s \in Streams PROVE polled[s] = [i \in 1..readTo[s] |-> i]
      <4>1. 1..0 = {}
        OBVIOUS
      <4> QED BY <2>1, <4>1
    <3> QED BY <3>1 DEF DeltasPartitionOutput
  <2> QED BY <2>1, <2>2, <2>3 DEF Init, PInv
<1>2. WInv /\ WInv' /\ PInv /\ [Next]_vars => PInv'
  <2> SUFFICES ASSUME WInv, WInv', PInv, [Next]_vars PROVE PInv'
    OBVIOUS
  <2>1. CASE \E c \in Callers : PollSnapshot(c) \/ TerminateFails(c)
    BY <2>1, TakeStep DEF PollSnapshot, TerminateFails, writeVars
  <2>2. CASE UNCHANGED <<readTo, polled, buf>>
    BY <2>2 DEF PInv, DeltasPartitionOutput, Size
  <2>3. ASSUME NEW s \in Streams, Write(s) PROVE PInv'
    <3>1. UNCHANGED <<readTo, polled>>
      BY <2>3 DEF Write, clientVars
    <3>2. ASSUME NEW r \in Streams PROVE readTo'[r] <= Size(r)'
      <4>1. Size(r)' = Size(r) \/ \E k \in Nat : Size(r)' = Size(r) + k
        <5>1. CASE r = s
          BY <2>3, <5>1, WriteEffect
        <5>2. CASE r # s
          BY <2>3, <5>2, WriteEffect DEF Size
        <5> QED BY <5>1, <5>2
      <4>2. Size(r) \in Nat
        BY DEF WInv, WriterOK, Text, Size
      <4> QED BY <3>1, <4>1, <4>2 DEF PInv
    <3> QED BY <3>1, <3>2 DEF PInv, DeltasPartitionOutput
  <2> QED
    BY <2>1, <2>2, <2>3 DEF Next, Request, vars, writeVars, clientVars, Produce, ProcessExits, WaitReturns,
                      Publish, CloseDone, TakerBegins, ExecSnapshot, Answer, DropAnswer
<1> QED BY <1>1, <1>2, WriterInvariant, PTL DEF Spec

\* No byte is missing, repeated or out of order in what concurrent polls take.
THEOREM DeltasPartition == Spec => []DeltasPartitionOutput
<1>1. PInv => DeltasPartitionOutput
  BY DEF PInv
<1> QED BY <1>1, PollInvariant, PTL

-----------------------------------------------------------------------------
(* Types, and the answers *)

\* The types of what neither the writer nor the offsets cover.
RestOK ==
    /\ produced \in [Streams -> Nat] /\ exited \in BOOLEAN
    /\ waiter \in {"waiting", "restoring", "closing", "done"} /\ failed \in BOOLEAN
    /\ call \in [Callers -> Calls]
    /\ answered \in [Streams -> SUBSET Nat] /\ abandoned \in [Streams -> SUBSET Nat]
    /\ withheld \in [Streams -> SUBSET Nat]

\* Wait has joined the copiers before anybody can see that the command is over.
FInv ==
    /\ RestOK
    /\ waiter # "waiting" => exited /\ copied = produced
    /\ waiter \in {"waiting", "restoring"} => ~failed
    /\ \A c \in Callers : call[c].pc = "answering" /\ call[c].status # "running" => waiter # "waiting"

\* The fields of an answer, and what makes one.
LEMMA CallFields ==
    /\ Idle \in Calls /\ Idle.pc # "answering"
    /\ \A k \in Kinds : LET y == [pc |-> "yielding", kind |-> k]
                        IN y \in Calls /\ y.pc # "answering"
    /\ \A k \in Kinds, t \in Text, st \in Statuses :
          LET a == [pc |-> "answering", kind |-> k, text |-> t, status |-> st]
          IN a \in Calls /\ a.status = st
    /\ \A x \in Calls : x.pc = "answering" => x.text \in Text
BY DEF Calls, Idle

LEMMA SnapshotStep ==
    ASSUME FInv, WInv, PInv, NEW c \in Callers, ExecSnapshot(c) \/ PollSnapshot(c) PROVE FInv'
<1>1. PICK k \in Kinds, t \in Text :
         call' = [call EXCEPT ![c] = [pc |-> "answering", kind |-> k, text |-> t, status |-> Status]]
  <2>1. CASE ExecSnapshot(c)
    BY <2>1 DEF ExecSnapshot, Kinds, WInv, WriterOK
  <2>2. CASE PollSnapshot(c)
    <3>1. [s \in Streams |-> Delta(s)] \in Text
      BY DeltaIsRest DEF Text
    <3>2. call[c].kind \in Kinds
      BY <2>2 DEF PollSnapshot, Kinds
    <3> QED BY <2>2, <3>1, <3>2 DEF PollSnapshot
  <2> QED BY <2>1, <2>2
<1>2. Status \in Statuses /\ (Status # "running" => waiter # "waiting")
  BY DEF Status, Statuses, FInv
<1>3. UNCHANGED <<produced, exited, waiter, failed, answered, abandoned, withheld, copied>>
  BY DEF ExecSnapshot, PollSnapshot, processVars, writeVars, waitVars, clientVars
<1>4. call' \in [Callers -> Calls]
  BY <1>1, <1>2, CallFields DEF FInv, RestOK
<1>5. \A d \in Callers : call'[d].pc = "answering" /\ call'[d].status # "running" => waiter # "waiting"
  BY <1>1, <1>2, CallFields DEF FInv, RestOK
<1> QED BY <1>3, <1>4, <1>5 DEF FInv, RestOK

\* A request begins, fails, or its answer leaves.
LEMMA ClientStep ==
    ASSUME FInv, WInv, PInv, NEW c \in Callers,
           TakerBegins(c) \/ TerminateFails(c) \/ Answer(c) \/ DropAnswer(c)
    PROVE  FInv'
<1>1. UNCHANGED <<produced, exited, waiter, failed, copied>>
  BY DEF TakerBegins, TerminateFails, Answer, DropAnswer, processVars, writeVars, waitVars
<1>2. PICK x \in Calls : x.pc # "answering" /\ call' = [call EXCEPT ![c] = x]
  BY CallFields DEF TakerBegins, TerminateFails, Answer, DropAnswer, Kinds
<1>3. /\ answered' \in [Streams -> SUBSET Nat] /\ abandoned' \in [Streams -> SUBSET Nat]
      /\ withheld' \in [Streams -> SUBSET Nat]
  <2>1. CASE TakerBegins(c)
    BY <2>1 DEF TakerBegins, clientVars, FInv, RestOK
  <2>3. CASE TerminateFails(c)
    <3>1. \A s \in Streams : Bytes(Delta(s)) \subseteq Nat
      BY DeltaIsRest DEF Bytes
    <3> QED BY <2>3, <3>1 DEF TerminateFails, FInv, RestOK
  <2>2. CASE Answer(c) \/ DropAnswer(c)
    <3>1. call[c].text \in Text
      BY <2>2, CallFields DEF Answer, DropAnswer, FInv, RestOK
    <3>2. \A s \in Streams : Bytes(call[c].text[s]) \subseteq Nat
      BY <3>1 DEF Text, Bytes
    <3> QED BY <2>2, <3>2 DEF Answer, DropAnswer, FInv, RestOK
  <2> QED BY <2>1, <2>2, <2>3
<1>4. call' \in [Callers -> Calls] /\ \A d \in Callers : call'[d] = call[d] \/ call'[d].pc # "answering"
  BY <1>2 DEF FInv, RestOK
<1> QED BY <1>1, <1>3, <1>4 DEF FInv, RestOK

LEMMA FinalInvariant == Spec => []FInv
<1>1. Init => FInv
  <2> SUFFICES ASSUME Init PROVE FInv
    OBVIOUS
  <2>1. call \in [Callers -> Calls] /\ \A c \in Callers : call[c].pc # "answering"
    BY CallFields DEF Init, Kinds
  <2> QED BY <2>1 DEF Init, FInv, RestOK
<1>2. WInv /\ PInv /\ FInv /\ [Next]_vars => FInv'
  <2> SUFFICES ASSUME WInv, PInv, FInv, [Next]_vars PROVE FInv'
    OBVIOUS
  <2>1. ASSUME NEW s \in Streams, Produce(s) PROVE FInv'
    BY <2>1 DEF Produce, writeVars, waitVars, clientVars, FInv, RestOK
  <2>2. ASSUME NEW s \in Streams, Write(s) PROVE FInv'
    <3>1. waiter = "waiting"
      <4> SUFFICES ASSUME waiter # "waiting" PROVE FALSE
        BY DEF FInv, RestOK
      <4>1. copied[s] = produced[s] /\ produced[s] \in Nat
        BY DEF FInv, RestOK
      <4> QED BY <2>2, <4>1, BoundsAssumption DEF Write
    <3> QED BY <2>2, <3>1 DEF Write, processVars, waitVars, clientVars, FInv, RestOK
  <2>3. CASE ProcessExits
    BY <2>3 DEF ProcessExits, writeVars, waitVars, clientVars, FInv, RestOK
  <2>4. CASE WaitReturns \/ Publish \/ CloseDone
    BY <2>4 DEF WaitReturns, Publish, CloseDone, processVars, writeVars, clientVars, FInv, RestOK
  <2>5. CASE UNCHANGED vars
    BY <2>5 DEF vars, processVars, writeVars, waitVars, clientVars, FInv, RestOK
  <2> QED BY <2>1, <2>2, <2>3, <2>4, <2>5, SnapshotStep, ClientStep DEF Next, Request
<1> QED BY <1>1, <1>2, WriterInvariant, PollInvariant, PTL DEF Spec

\* The types of every variable.
THEOREM TypeCorrect == Spec => []TypeOK
<1>1. WInv /\ PInv /\ FInv => TypeOK
  BY DEF WInv, WriterOK, PInv, FInv, RestOK, TypeOK
<1> QED BY <1>1, WriterInvariant, PollInvariant, FinalInvariant, PTL

\* An answer that says the command is over was taken when all output was stored.
THEOREM FinalComplete == Spec => []FinalAnswerIsComplete
<1>1. FInv => FinalAnswerIsComplete
  BY DEF FInv, FinalAnswerIsComplete
<1> QED BY <1>1, FinalInvariant, PTL

-----------------------------------------------------------------------------
(* Where the bytes are that were taken off the buffers. *)

\* Byte b of stream s was taken for an answer that is on its way to the client.
OnItsWay(s, b) ==
    \E c \in Callers : /\ call[c].pc = "answering" /\ call[c].kind # "exec"
                       /\ b \in Bytes(call[c].text[s])

\* The bytes nobody waits for any more.
Past(s) == answered[s] \cup abandoned[s] \cup withheld[s]

\* The answer of command_exec moves no offset: when it is dropped nothing is
\* lost, so only the other answers count.
TakenInv ==
    \A s \in Streams : \A i \in 1..readTo[s] : i \in Past(s) \/ OnItsWay(s, i)

\* The fields of an answer.
LEMMA AnswerFields ==
    ASSUME NEW k, NEW t, NEW st
    PROVE  LET a == [pc |-> "answering", kind |-> k, text |-> t, status |-> st]
           IN a.pc = "answering" /\ a.kind = k /\ a.text = t
OBVIOUS

\* What Take takes is the bytes between the offset and the end of the buffer.
LEMMA TakenAreNew ==
    ASSUME WInv, PInv, Take, NEW s \in Streams, NEW i \in 1..readTo'[s], i \notin 1..readTo[s]
    PROVE  i \in Bytes(Delta(s))
<1>1. /\ Delta(s) \in Seq(Nat) /\ Len(Delta(s)) = Size(s) - readTo[s]
      /\ \A j \in 1..(Size(s) - readTo[s]) : Delta(s)[j] = readTo[s] + j
  BY DeltaIsRest
<1>2. readTo[s] \in Nat /\ Size(s) \in Nat /\ i \in 1..Size(s)
  BY DEF Take, NewOffsets, PInv, WInv, WriterOK, Text, Size
<1>3. i - readTo[s] \in 1..(Size(s) - readTo[s]) /\ readTo[s] + (i - readTo[s]) = i
  BY <1>2
<1>4. i - readTo[s] \in DOMAIN Delta(s) /\ Delta(s)[i - readTo[s]] = i
  BY <1>1, <1>3
<1> QED BY <1>4 DEF Bytes

\* A poll, or a termination that succeeds, answers with what it takes.
LEMMA PollTakes ==
    ASSUME WInv, PInv, FInv, TakenInv, NEW c \in Callers, PollSnapshot(c)
    PROVE  TakenInv'
<1>1. /\ call[c].pc = "yielding" /\ call[c].kind # "exec" /\ Take
      /\ UNCHANGED <<answered, abandoned, withheld>>
      /\ call' = [call EXCEPT ![c] = [pc |-> "answering", kind |-> call[c].kind,
                                      text |-> [s \in Streams |-> Delta(s)], status |-> Status]]
  BY DEF PollSnapshot, FInv, RestOK
<1>2. /\ \A d \in Callers : d # c => call'[d] = call[d]
      /\ call'[c].pc = "answering" /\ call'[c].kind # "exec"
      /\ \A s \in Streams : call'[c].text[s] = Delta(s)
  BY <1>1, AnswerFields DEF FInv, RestOK
<1>3. \A s \in Streams : \A i : OnItsWay(s, i) => OnItsWay(s, i)'
  BY <1>1, <1>2 DEF OnItsWay, Bytes
<1>4. ASSUME NEW s \in Streams, NEW i \in 1..readTo'[s], i \notin 1..readTo[s]
      PROVE  OnItsWay(s, i)'
  <2>1. i \in Bytes(call'[c].text[s])
    BY <1>1, <1>2, <1>4, TakenAreNew
  <2> QED BY <1>2, <2>1 DEF OnItsWay, Bytes
<1> QED BY <1>1, <1>3, <1>4 DEF TakenInv, Past

\* A termination that fails takes as much, and keeps it to itself.
LEMMA FailureTakes ==
    ASSUME WInv, PInv, FInv, TakenInv, NEW c \in Callers, TerminateFails(c)
    PROVE  TakenInv'
<1>1. /\ call[c].pc = "yielding" /\ Take
      /\ UNCHANGED <<answered, abandoned>>
      /\ \A s \in Streams : withheld'[s] = withheld[s] \cup Bytes(Delta(s))
      /\ \A d \in Callers : d # c => call'[d] = call[d]
  BY DEF TerminateFails, FInv, RestOK
<1>2. \A s \in Streams : \A i : OnItsWay(s, i) => OnItsWay(s, i)'
  BY <1>1 DEF OnItsWay, Bytes
<1>3. ASSUME NEW s \in Streams, NEW i \in 1..readTo'[s], i \notin 1..readTo[s]
      PROVE  i \in Past(s)'
  BY <1>1, <1>3, TakenAreNew DEF Past
<1>4. \A s \in Streams : Past(s) \subseteq Past(s)'
  BY <1>1 DEF Past
<1> QED BY <1>2, <1>3, <1>4 DEF TakenInv

\* The response of a request leaves or is dropped: its bytes are recorded first.
LEMMA AnswerRecords ==
    ASSUME FInv, TakenInv, NEW c \in Callers, Answer(c) \/ DropAnswer(c)
    PROVE  TakenInv'
<1>1. readTo' = readTo /\ \A d \in Callers : d # c => call'[d] = call[d]
  BY DEF Answer, DropAnswer, FInv, RestOK
<1>2. ASSUME NEW s \in Streams
      PROVE  /\ answered[s] \subseteq answered'[s] /\ abandoned[s] \subseteq abandoned'[s]
             /\ withheld'[s] = withheld[s]
             /\ call[c].kind # "exec" => Bytes(call[c].text[s]) \subseteq answered'[s] \cup abandoned'[s]
  <2>1. CASE Answer(c)
    BY <2>1 DEF Answer
  <2>2. CASE DropAnswer(c)
    BY <2>2 DEF DropAnswer
  <2> QED BY <2>1, <2>2
<1>3. ASSUME NEW s \in Streams, NEW i, OnItsWay(s, i)
      PROVE  i \in Past(s)' \/ OnItsWay(s, i)'
  <2>1. PICK d \in Callers : /\ call[d].pc = "answering" /\ call[d].kind # "exec"
                             /\ i \in Bytes(call[d].text[s])
    BY <1>3 DEF OnItsWay
  <2>2. CASE d = c
    BY <1>2, <2>1, <2>2 DEF Past
  <2>3. CASE d # c
    BY <1>1, <2>1, <2>3 DEF OnItsWay, Bytes
  <2> QED BY <2>2, <2>3
<1> QED BY <1>1, <1>2, <1>3 DEF TakenInv, Past

LEMMA TakenInvariant == Spec => []TakenInv
<1>1. Init => TakenInv
  BY DEF Init, TakenInv
<1>2. WInv /\ PInv /\ FInv /\ TakenInv /\ [Next]_vars => TakenInv'
  <2> SUFFICES ASSUME WInv, PInv, FInv, TakenInv, [Next]_vars PROVE TakenInv'
    OBVIOUS
  <2>1. ASSUME NEW c \in Callers, TakerBegins(c) \/ ExecSnapshot(c) PROVE TakenInv'
    <3>1. /\ UNCHANGED <<readTo, answered, abandoned, withheld>> /\ call[c].pc # "answering"
          /\ \A d \in Callers : d # c => call'[d] = call[d]
      BY <2>1, CallFields DEF TakerBegins, ExecSnapshot, clientVars, FInv, RestOK
    <3>2. \A s \in Streams : \A i : OnItsWay(s, i) => OnItsWay(s, i)'
      BY <3>1 DEF OnItsWay, Bytes
    <3> QED BY <3>1, <3>2 DEF TakenInv, Past
  <2>2. CASE UNCHANGED <<readTo, answered, abandoned, withheld, call>>
    BY <2>2 DEF TakenInv, Past, OnItsWay, Bytes
  <2>3. ASSUME NEW s \in Streams, Produce(s) \/ Write(s) PROVE TakenInv'
    BY <2>2, <2>3 DEF Produce, Write, clientVars
  <2>4. CASE ProcessExits \/ WaitReturns \/ Publish \/ CloseDone \/ UNCHANGED vars
    BY <2>2, <2>4 DEF ProcessExits, WaitReturns, Publish, CloseDone, vars, clientVars
  <2> QED BY <2>1, <2>3, <2>4, PollTakes, FailureTakes, AnswerRecords DEF Next, Request
<1> QED BY <1>1, <1>2, WriterInvariant, PollInvariant, FinalInvariant, PTL DEF Spec

\* A byte that was taken off the buffers has reached the client, is in an answer
\* on its way, was in an answer that was dropped, or was taken by a termination
\* that answered with an error: there is no other way to lose output.
THEOREM TakenAccounted == Spec => []TakenIsAccounted
<1>1. WInv /\ PInv /\ TakenInv => TakenIsAccounted
  <2> SUFFICES ASSUME WInv, PInv, TakenInv, NEW s \in Streams, NEW i \in 1..readTo[s]
               PROVE  \/ buf[s][i] \in answered[s] \cup abandoned[s] \cup withheld[s]
                      \/ \E c \in Callers : call[c].pc = "answering" /\ buf[s][i] \in Bytes(call[c].text[s])
    BY DEF TakenIsAccounted
  <2>1. i \in 1..Size(s)
    BY DEF PInv, WInv, WriterOK, Text, Size
  <2>2. buf[s][i] = i
    BY <2>1 DEF WInv, StoredIsPrefix
  <2> QED BY <2>2 DEF TakenInv, Past, OnItsWay
<1> QED BY <1>1, WriterInvariant, PollInvariant, TakenInvariant, PTL
=============================================================================
