---------------------------- MODULE InventoryProofs ----------------------------
(***************************************************************************)
(* Proofs about Inventory for any number of servers, of discoveries and of  *)
(* reloads: at most one refresh runs, and only a discovery that was under   *)
(* way at a reload, or a restart, brings back what the reload made obsolete. *)
(***************************************************************************)
EXTENDS Inventory, FiniteSetTheorems, TLAPS

\* A probe in which every tool list is one of the reload periods so far, or of
\* this one.
Known(p) == /\ p.pc = "ended" => p.entry.tools <= reloads + 1
            /\ p.pc \in {"listing", "hung"} => p.period <= reloads + 1
Current(p) == /\ p.pc = "ended" => p.entry.tools \in {NoTools, reloads + 1}
              /\ p.pc \in {"listing", "hung"} => p.period = reloads + 1

Within(inventory) == inventory # None => \A s \in Servers : inventory.entries[s].tools <= reloads + 1

AllKnown ==
    /\ Within(mem) /\ Within(disk)
    /\ \A d \in Discoveries, s \in Servers : previous[d][s] <= reloads + 1 /\ Known(probe[d][s])

\* A discovery that no reload has come across, and one that writes the file.
Flights == \A d \in Discoveries :
    /\ pc[d] = "probing" /\ d \notin crossed => \A s \in Servers :
         Current(probe[d][s]) /\ (~excused => previous[d][s] \in {NoTools, reloads + 1})
    /\ pc[d] = "writing" => \A s \in Servers : probe[d][s].pc = "ended"

IInv == TypeOK /\ AllKnown /\ Flights /\ OnlyFlightsRevive

-----------------------------------------------------------------------------
\* What a probe is, and what is made of one.
LEMMA ProbeFields ==
    /\ Skipped \in Probes /\ Skipped.pc = "skipped"
    /\ \A e \in Entry : Ended(e) \in Probes /\ Ended(e).pc = "ended" /\ Ended(e).entry = e
    /\ \A n \in 1..MaxReloads + 1, w \in {"listing", "hung"} :
          LET p == [pc |-> w, period |-> n] IN p \in Probes /\ p.pc = w /\ p.period = n
    /\ \A p \in Probes : p.pc = "ended" => p.entry \in Entry
    /\ \A p \in Probes : p.pc = "listing" =>
          p.period \in 1..MaxReloads + 1 /\ [p EXCEPT !.pc = "hung"] = [pc |-> "hung", period |-> p.period]
<1>1. /\ Skipped \in Probes /\ Skipped.pc = "skipped"
      /\ \A e \in Entry : Ended(e) \in Probes /\ Ended(e).pc = "ended" /\ Ended(e).entry = e
  BY DEF Probes, Skipped, Ended
<1>2. \A n \in 1..MaxReloads + 1, w \in {"listing", "hung"} :
          LET p == [pc |-> w, period |-> n] IN p \in Probes /\ p.pc = w /\ p.period = n
  BY DEF Probes
<1>3. \A p \in Probes : p.pc = "ended" => p.entry \in Entry
  BY DEF Probes, Skipped, Ended
<1>4. \A p \in Probes : p.pc = "listing" =>
          p.period \in 1..MaxReloads + 1 /\ [p EXCEPT !.pc = "hung"] = [pc |-> "hung", period |-> p.period]
  BY DEF Probes, Skipped, Ended
<1> QED BY <1>1, <1>2, <1>3, <1>4

\* The numbers of the reload periods.
LEMMA Periods == ASSUME TypeOK
    PROVE  /\ NoTools \in ToolLists /\ reloads \in Nat /\ reloads + 1 \in 1..MaxReloads + 1
           /\ reloads + 1 \in ToolLists /\ NoTools <= reloads + 1
BY InventoryAssumption DEF TypeOK, NoTools, ToolLists

LEMMA Initially == Init => IInv
<1> SUFFICES ASSUME Init PROVE IInv
  OBVIOUS
<1>1. TypeOK
  <2>1. NoTools \in ToolLists /\ 0 \in 0..MaxReloads
    BY InventoryAssumption DEF NoTools, ToolLists
  <2> QED BY <2>1, ProbeFields DEF Init, TypeOK
<1>2. AllKnown
  BY <1>1, Periods, ProbeFields DEF Init, AllKnown, Within, Known
<1> QED BY <1>1, <1>2 DEF Init, IInv, Flights, OnlyFlightsRevive

-----------------------------------------------------------------------------
\* A step of d in which nothing but its place changes, to one outside the probes.
LEMMA MoveStep ==
    ASSUME IInv, NEW d \in Discoveries, NEW to \in {"begin", "ending", "stuck"},
           pc' = [pc EXCEPT ![d] = to], refreshing' \in BOOLEAN,
           UNCHANGED <<stores, only, previous, probe, reloads, history>>
    PROVE  IInv'
<1>1. TypeOK'
  BY DEF IInv, TypeOK, stores, history
<1>2. AllKnown' /\ OnlyFlightsRevive'
  BY DEF IInv, AllKnown, Within, Known, OnlyFlightsRevive, stores, history
<1>3. Flights'
  BY DEF IInv, TypeOK, Flights, Current, stores, history
<1> QED BY <1>1, <1>2, <1>3 DEF IInv

LEMMA CacheStep ==
    ASSUME IInv, NEW d \in Foreground, NEW sn \in Servers \cup {All}, AnswerFromCache(d, sn)
    PROVE  IInv'
<1>1. CASE UNCHANGED <<refreshing, pc>>
  BY <1>1 DEF AnswerFromCache, stores, history, IInv, TypeOK, AllKnown, Within, Known, Flights,
              Current, OnlyFlightsRevive
<1>2. CASE StartRefresh /\ Free /\ \E b \in Background : pc[b] = "idle"
  <2>1. PICK b \in Background : pc' = [pc EXCEPT ![b] = "begin"]
    BY <1>2 DEF StartRefresh
  <2>2. b \in Discoveries /\ refreshing' \in BOOLEAN
    BY <1>2 DEF Discoveries, StartRefresh
  <2> QED BY <2>1, <2>2, MoveStep DEF AnswerFromCache
<1> QED BY <1>1, <1>2 DEF AnswerFromCache, StartRefresh

LEMMA BeginStep ==
    ASSUME IInv, NEW d \in Discoveries, NEW sn \in Servers \cup {All}, Begin(d, sn)
    PROVE  IInv'
<1> DEFINE old == [s \in Servers |-> IF Usable(All) THEN mem.entries[s].tools ELSE NoTools]
           new == [s \in Servers |->
                     IF s \in Asked(sn) THEN [pc |-> "listing", period |-> reloads + 1] ELSE Skipped]
<1>1. /\ \A s \in Servers : old[s] \in ToolLists /\ old[s] <= reloads + 1
      /\ ~excused => \A s \in Servers : old[s] \in {NoTools, reloads + 1}
  <2>1. CASE Usable(All)
    <3>1. mem # None
      BY <2>1 DEF Usable
    <3>2. \A s \in Servers : mem.entries[s].tools \in ToolLists
      BY <3>1 DEF IInv, TypeOK, Inventories, Entry
    <3> QED BY <2>1, <3>1, <3>2 DEF IInv, AllKnown, Within, OnlyFlightsRevive
  <2>2. CASE ~Usable(All)
    BY <2>2, Periods DEF IInv
  <2> QED BY <2>1, <2>2
<1>2. \A s \in Servers : new[s] \in Probes /\ Known(new[s]) /\ Current(new[s])
  <2> SUFFICES ASSUME NEW s \in Servers
               PROVE  new[s] \in Probes /\ Known(new[s]) /\ Current(new[s])
    OBVIOUS
  <2>1. CASE s \in Asked(sn)
    <3>1. new[s] \in Probes /\ new[s].pc = "listing" /\ new[s].period = reloads + 1
      BY <2>1, Periods, ProbeFields DEF IInv
    <3> HIDE DEF new
    <3> QED BY <3>1, Periods DEF IInv, Known, Current
  <2>2. CASE s \notin Asked(sn)
    BY <2>2, ProbeFields DEF Known, Current
  <2> QED BY <2>1, <2>2
<1>3. /\ pc' = [pc EXCEPT ![d] = "probing"] /\ only' = [only EXCEPT ![d] = sn]
      /\ previous' = [previous EXCEPT ![d] = old] /\ probe' = [probe EXCEPT ![d] = new]
      /\ crossed' = crossed \ {d} /\ UNCHANGED <<mem, disk, refreshing, reloads, excused, apart>>
  BY DEF Begin, stores
<1> HIDE DEF old, new
<1>4. old \in [Servers -> ToolLists] /\ new \in [Servers -> Probes]
  BY <1>1, <1>2 DEF old, new
<1>5. TypeOK'
  BY <1>3, <1>4 DEF IInv, TypeOK
<1>6. AllKnown'
  <2>1. ASSUME NEW e \in Discoveries, NEW s \in Servers
        PROVE  previous'[e][s] <= reloads + 1 /\ Known(probe'[e][s])
    BY <1>1, <1>2, <1>3 DEF IInv, TypeOK, AllKnown
  <2> QED BY <1>3, <2>1 DEF IInv, AllKnown, Within, Known
<1>7. Flights'
  <2>1. \A s \in Servers : Current(probe'[d][s]) /\ (~excused => previous'[d][s] \in {NoTools, reloads + 1})
    BY <1>1, <1>2, <1>3 DEF IInv, TypeOK
  <2>2. \A e \in Discoveries \ {d} :
           pc'[e] = pc[e] /\ probe'[e] = probe[e] /\ previous'[e] = previous[e]
    BY <1>3 DEF IInv, TypeOK
  <2>3. pc'[d] = "probing"
    BY <1>3 DEF IInv, TypeOK
  <2> QED BY <1>3, <2>1, <2>2, <2>3 DEF IInv, Flights, Current
<1> QED BY <1>3, <1>5, <1>6, <1>7 DEF IInv, OnlyFlightsRevive

\* A probe of d becomes p.
LEMMA ProbeStep ==
    ASSUME IInv, NEW d \in Discoveries, NEW s \in Servers, Probing(d, s) \/ Hang(d, s)
    PROVE  IInv'
<1>1. PICK p \in Probes : /\ Becomes(d, s, p) /\ pc[d] = "probing"
                          /\ Known(p) /\ (d \notin crossed => Current(p))
  <2>0. /\ pc[d] = "probing" /\ probe[d][s] \in Probes /\ probe[d][s].pc = "listing"
        /\ Known(probe[d][s]) /\ (d \notin crossed => Current(probe[d][s]))
    BY DEF IInv, TypeOK, AllKnown, Flights, Probing, ProbeSucceeds, ProbeFails, Hang, Listing
  <2>1. /\ probe[d][s].period \in 1..MaxReloads + 1 /\ probe[d][s].period <= reloads + 1
        /\ d \notin crossed => probe[d][s].period = reloads + 1
        /\ probe[d][s].period \in ToolLists
    <3>1. probe[d][s].period \in 1..MaxReloads + 1
      BY <2>0, ProbeFields
    <3>2. probe[d][s].period \in ToolLists
      BY <3>1, InventoryAssumption DEF ToolLists
    <3> QED BY <2>0, <3>1, <3>2 DEF Known, Current
  <2>2. ASSUME NEW tools \in {NoTools, probe[d][s].period}, NEW f \in BOOLEAN,
               Becomes(d, s, Ended([tools |-> tools, failed |-> f]))
        PROVE  \E p \in Probes : Becomes(d, s, p) /\ Known(p) /\ (d \notin crossed => Current(p))
    <3>1. [tools |-> tools, failed |-> f] \in Entry
      BY <2>1, Periods DEF Entry, IInv
    <3>2. tools <= reloads + 1 /\ (d \notin crossed => tools \in {NoTools, reloads + 1})
      BY <2>1, Periods DEF IInv
    <3> QED BY <2>2, <3>1, <3>2, ProbeFields DEF Known, Current
  <2>3. CASE Probing(d, s)
    BY <2>0, <2>2, <2>3 DEF Probing, ProbeSucceeds, ProbeFails
  <2>4. CASE Hang(d, s)
    <3> DEFINE p == [pc |-> "hung", period |-> probe[d][s].period]
    <3>1. Becomes(d, s, p)
      BY <2>0, <2>4, ProbeFields DEF Hang
    <3>2. p \in Probes /\ p.pc = "hung" /\ p.period = probe[d][s].period
      BY <2>1, ProbeFields
    <3> HIDE DEF p
    <3>3. Known(p) /\ (d \notin crossed => Current(p))
      BY <2>1, <3>2 DEF Known, Current
    <3> QED BY <2>0, <3>1, <3>2, <3>3
  <2> QED BY <2>0, <2>3, <2>4
<1>2. /\ probe' = [probe EXCEPT ![d][s] = p]
      /\ UNCHANGED <<mem, disk, refreshing, pc, only, previous, reloads, crossed, excused, apart>>
  BY <1>1 DEF Becomes, stores, history
<1>3. TypeOK'
  <2>1. probe' \in [Discoveries -> [Servers -> Probes]]
    BY <1>2 DEF IInv, TypeOK
  <2> QED BY <1>2, <2>1 DEF IInv, TypeOK
<1>4. \A e \in Discoveries, t \in Servers : probe'[e][t] = IF e = d /\ t = s THEN p ELSE probe[e][t]
  BY <1>2 DEF IInv, TypeOK
<1>5. AllKnown'
  BY <1>1, <1>2, <1>4 DEF IInv, AllKnown, Within, Known
<1>6. Flights'
  BY <1>1, <1>2, <1>4 DEF IInv, Flights, Current
<1> QED BY <1>2, <1>3, <1>5, <1>6 DEF IInv, OnlyFlightsRevive

\* The inventory of a discovery whose probes have all ended.
LEMMA FoundOne ==
    ASSUME IInv, NEW d \in Discoveries, \A s \in Servers : probe[d][s].pc = "ended"
    PROVE  /\ Found(d) \in Inventories /\ Within(Found(d))
           /\ pc[d] = "probing" /\ d \notin crossed /\ ~excused =>
                 \A s \in Servers : Found(d).entries[s].tools \in {NoTools, reloads + 1}
<1>1. ASSUME NEW s \in Servers
      PROVE  /\ Kept(d, s) \in Entry /\ Kept(d, s).tools <= reloads + 1
             /\ pc[d] = "probing" /\ d \notin crossed /\ ~excused =>
                   Kept(d, s).tools \in {NoTools, reloads + 1}
  <2>1. /\ probe[d][s].entry \in Entry /\ probe[d][s].entry.tools <= reloads + 1
        /\ pc[d] = "probing" /\ d \notin crossed => probe[d][s].entry.tools \in {NoTools, reloads + 1}
    BY ProbeFields DEF IInv, TypeOK, AllKnown, Known, Flights, Current
  <2>2. /\ previous[d][s] \in ToolLists /\ previous[d][s] <= reloads + 1
        /\ pc[d] = "probing" /\ d \notin crossed /\ ~excused => previous[d][s] \in {NoTools, reloads + 1}
    BY DEF IInv, TypeOK, AllKnown, Flights
  <2>3. CASE probe[d][s].entry.failed
    BY <2>1, <2>2, <2>3 DEF Kept, Entry
  <2>4. CASE ~probe[d][s].entry.failed
    BY <2>1, <2>4 DEF Kept
  <2> QED BY <2>3, <2>4
<1> QED BY <1>1 DEF Found, Inventories, Within

LEMMA StoreStep == ASSUME IInv, NEW d \in Discoveries, Store(d) PROVE IInv'
<1>1. pc[d] = "probing" /\ \A s \in Servers : probe[d][s].pc = "ended"
  BY InventoryAssumption DEF Store, Probed, Asked
<1>2. /\ mem' = Found(d) /\ pc' = [pc EXCEPT ![d] = "writing"] /\ excused' = (excused \/ d \in crossed)
      /\ apart' \in BOOLEAN /\ UNCHANGED <<disk, refreshing, only, previous, probe, reloads, crossed>>
  BY DEF Store
<1>3. TypeOK'
  <2>1. mem' \in Inventories \cup {None} /\ excused' \in BOOLEAN
    BY <1>1, <1>2, FoundOne DEF IInv, TypeOK
  <2> QED BY <1>2, <2>1 DEF IInv, TypeOK
<1>4. AllKnown'
  <2>1. Within(mem)'
    BY <1>1, <1>2, FoundOne DEF Within
  <2> QED BY <1>2, <2>1 DEF IInv, AllKnown, Within, Known
<1>5. Flights'
  BY <1>1, <1>2 DEF IInv, TypeOK, Flights, Current
<1>6. OnlyFlightsRevive'
  BY <1>1, <1>2, FoundOne DEF OnlyFlightsRevive
<1> QED BY <1>3, <1>4, <1>5, <1>6 DEF IInv

LEMMA WriteStep ==
    ASSUME IInv, NEW d \in Discoveries, WriteFile(d) \/ WriteFails(d) PROVE IInv'
<1>1. disk' \in Inventories \cup {None} /\ Within(disk)'
  <2>1. UNCHANGED reloads
    BY DEF WriteFile, WriteFails
  <2>2. CASE WriteFile(d)
    <3>1. \A s \in Servers : probe[d][s].pc = "ended"
      BY <2>2 DEF WriteFile, IInv, Flights
    <3> QED BY <2>1, <2>2, <3>1, FoundOne DEF WriteFile, Within
  <2>3. CASE WriteFails(d)
    BY <2>1, <2>3 DEF WriteFails, IInv, TypeOK, AllKnown, Within
  <2> QED BY <2>2, <2>3
<1>2. /\ pc' = [pc EXCEPT ![d] = "ending"]
      /\ apart' \in BOOLEAN
      /\ UNCHANGED <<mem, refreshing, only, previous, probe, reloads, crossed, excused>>
  BY DEF WriteFile, WriteFails, history, IInv, TypeOK
<1>3. TypeOK'
  BY <1>1, <1>2 DEF IInv, TypeOK
<1>4. AllKnown' /\ OnlyFlightsRevive'
  BY <1>1, <1>2 DEF IInv, AllKnown, Within, Known, OnlyFlightsRevive
<1>5. Flights'
  BY <1>2 DEF IInv, TypeOK, Flights, Current
<1> QED BY <1>3, <1>4, <1>5 DEF IInv

LEMMA EndStep == ASSUME IInv, NEW d \in Discoveries, End(d) PROVE IInv'
<1>1. /\ pc' = [pc EXCEPT ![d] = "idle"] /\ refreshing' = FlagAfter(d)
      /\ probe' = [probe EXCEPT ![d] = [s \in Servers |-> Skipped]]
      /\ only' = [only EXCEPT ![d] = All]
      /\ previous' = [previous EXCEPT ![d] = [s \in Servers |-> NoTools]]
      /\ UNCHANGED <<mem, disk, reloads, crossed, excused, apart>>
  BY DEF End, stores, history
<1>2. refreshing' \in BOOLEAN
  BY <1>1 DEF FlagAfter, IInv, TypeOK
<1>3. TypeOK'
  <2>1. [s \in Servers |-> Skipped] \in [Servers -> Probes]
        /\ [s \in Servers |-> NoTools] \in [Servers -> ToolLists]
    BY ProbeFields, Periods DEF IInv
  <2> QED BY <1>1, <1>2, <2>1 DEF IInv, TypeOK
<1>4. AllKnown'
  <2>1. ASSUME NEW e \in Discoveries, NEW s \in Servers
        PROVE  previous'[e][s] <= reloads + 1 /\ Known(probe'[e][s])
    BY <1>1, ProbeFields, Periods DEF IInv, TypeOK, AllKnown, Known
  <2> QED BY <1>1, <2>1 DEF IInv, AllKnown, Within, Known
<1>5. Flights'
  BY <1>1 DEF IInv, TypeOK, Flights, Current
<1> QED BY <1>1, <1>3, <1>4, <1>5 DEF IInv, OnlyFlightsRevive

LEMMA InvalidateStep == ASSUME IInv, Invalidate PROVE IInv'
<1>1. /\ reloads' = reloads + 1 /\ reloads' \in 0..MaxReloads /\ mem' = None /\ excused' = FALSE /\ apart' = TRUE
      /\ crossed' = crossed \cup {d \in Discoveries : pc[d] \in {"probing", "writing"}}
      /\ UNCHANGED <<disk, refreshing, pc, only, previous, probe>>
  BY InventoryAssumption DEF Invalidate, Forgotten, IInv, TypeOK
<1>2. TypeOK'
  BY <1>1 DEF IInv, TypeOK
<1>3. AllKnown'
  <2>1. \A n \in ToolLists : n <= reloads + 1 => n <= reloads' + 1
    BY <1>1, Periods DEF IInv, ToolLists
  <2>2. Within(mem)' /\ Within(disk)'
    <3>1. disk # None => \A s \in Servers : disk.entries[s].tools \in ToolLists
      BY DEF IInv, TypeOK, Inventories, Entry
    <3> QED BY <1>1, <2>1, <3>1 DEF IInv, AllKnown, Within
  <2>3. ASSUME NEW d \in Discoveries, NEW s \in Servers
        PROVE  (previous[d][s] <= reloads + 1 /\ Known(probe[d][s]))'
    <3>1. previous[d][s] \in ToolLists /\ probe[d][s] \in Probes
      BY DEF IInv, TypeOK
    <3>2. probe[d][s].pc = "ended" => probe[d][s].entry.tools \in ToolLists
      BY <3>1, ProbeFields DEF Entry
    <3>3. probe[d][s].pc \in {"listing", "hung"} => probe[d][s].period \in ToolLists
      BY <3>1 DEF Probes, Skipped, Ended, ToolLists
    <3> QED BY <1>1, <2>1, <3>1, <3>2, <3>3 DEF IInv, AllKnown, Known
  <2> QED BY <2>2, <2>3 DEF AllKnown
<1>4. Flights'
  BY <1>1 DEF IInv, Flights
<1> QED BY <1>1, <1>2, <1>3, <1>4 DEF IInv, OnlyFlightsRevive

LEMMA TimeStep == ASSUME IInv, TimePasses PROVE IInv'
<1>1. ASSUME NEW i \in Inventories
      PROVE  /\ [i EXCEPT !.age = IF @ = "new" THEN "middle" ELSE "old"] \in Inventories
             /\ [i EXCEPT !.age = IF @ = "new" THEN "middle" ELSE "old"].entries = i.entries
  BY DEF Inventories
<1>2. /\ mem' \in Inventories \cup {None} /\ (mem' # None => mem # None /\ mem'.entries = mem.entries)
      /\ disk' \in Inventories \cup {None} /\ (disk' # None => disk # None /\ disk'.entries = disk.entries)
  BY <1>1 DEF TimePasses, Older, IInv, TypeOK
<1>3. UNCHANGED <<refreshing, pc, only, previous, probe, reloads, crossed, excused, apart>>
  BY DEF TimePasses, history
<1>4. TypeOK'
  BY <1>2, <1>3 DEF IInv, TypeOK
<1>5. AllKnown' /\ OnlyFlightsRevive'
  BY <1>2, <1>3 DEF IInv, AllKnown, Within, Known, OnlyFlightsRevive
<1>6. Flights'
  BY <1>3 DEF IInv, Flights, Current
<1> QED BY <1>4, <1>5, <1>6 DEF IInv

\* Before the first reload, whatever the file holds is current.
LEMMA RestartStep == ASSUME IInv, Restart PROVE IInv'
<1>1. /\ disk' \in {disk, None} /\ mem' \in {disk', None}
      /\ excused' = (reloads > 0) /\ apart' = (mem' # disk')
      /\ refreshing' = FALSE /\ pc' = [d \in Discoveries |-> "idle"]
      /\ only' = [d \in Discoveries |-> All] /\ crossed' = {}
      /\ previous' = [d \in Discoveries |-> [s \in Servers |-> NoTools]]
      /\ probe' = [d \in Discoveries |-> [s \in Servers |-> Skipped]]
      /\ UNCHANGED reloads
  BY DEF Restart
<1>2. TypeOK'
  <2>0. apart' \in BOOLEAN
    <3>1. apart' = (mem' # disk')
      BY <1>1
    <3> QED BY <3>1, Zenon
  <2>1. excused' \in BOOLEAN
    <3>1. (reloads > 0) \in BOOLEAN
      BY Periods DEF IInv
    <3>2. excused' = (reloads > 0)
      BY <1>1
    <3> QED BY <3>1, <3>2, Zenon
  <2>2. [s \in Servers |-> Skipped] \in [Servers -> Probes]
        /\ [s \in Servers |-> NoTools] \in [Servers -> ToolLists]
    BY ProbeFields, Periods DEF IInv
  <2> QED BY <1>1, <2>0, <2>1, <2>2 DEF IInv, TypeOK
<1>3. AllKnown'
  <2>1. Within(mem)' /\ Within(disk)'
    BY <1>1 DEF IInv, AllKnown, Within
  <2>2. \A d \in Discoveries, s \in Servers : previous'[d][s] <= reloads' + 1 /\ Known(probe[d][s])'
    BY <1>1, ProbeFields, Periods DEF IInv, Known
  <2> QED BY <2>1, <2>2 DEF AllKnown
<1>4. OnlyFlightsRevive'
  <2> SUFFICES ASSUME mem' # None, ~excused', NEW s \in Servers
               PROVE  mem'.entries[s].tools \in {NoTools, reloads' + 1}
    BY DEF OnlyFlightsRevive
  <2>0. ~(reloads > 0)
    <3>1. excused' = (reloads > 0)
      BY <1>1
    <3> QED BY <3>1, Zenon
  <2>1. mem' = disk /\ disk # None /\ reloads = 0 /\ reloads' = 0
    BY <1>1, <2>0, Periods DEF IInv
  <2>2. disk.entries[s].tools \in Nat /\ disk.entries[s].tools <= 1
    BY <2>1 DEF IInv, TypeOK, Inventories, Entry, ToolLists, AllKnown, Within
  <2> QED BY <2>1, <2>2 DEF NoTools
<1> QED BY <1>1, <1>2, <1>3, <1>4 DEF IInv, Flights

LEMMA Inductive == IInv /\ [Next]_vars => IInv'
<1> SUFFICES ASSUME IInv, [Next]_vars PROVE IInv'
  OBVIOUS
<1>0. Foreground \subseteq Discoveries /\ Background \subseteq Discoveries
  BY DEF Discoveries
<1>1. ASSUME NEW d \in Foreground, NEW sn \in Servers \cup {All}, AnswerFromCache(d, sn) \/ Discover(d, sn)
      PROVE  IInv'
  BY <1>0, <1>1, CacheStep, BeginStep DEF Discover
<1>2. ASSUME NEW b \in Background, Refresh(b) PROVE IInv'
  BY <1>0, <1>2, BeginStep DEF Refresh
<1>3. ASSUME NEW d \in Discoveries, RefreshFails(d) \/ Report(d) \/ GetsStuck(d) PROVE IInv'
  BY <1>3, MoveStep DEF RefreshFails, Report, GetsStuck, IInv, TypeOK
<1>4. ASSUME NEW d \in Discoveries, Discovery(d) PROVE IInv'
  BY <1>3, <1>4, StoreStep, WriteStep, EndStep DEF Discovery
<1>5. CASE UNCHANGED vars
  BY <1>5 DEF vars, stores, history, IInv, TypeOK, AllKnown, Within, Known, Flights, Current,
              OnlyFlightsRevive
<1> QED BY <1>0, <1>1, <1>2, <1>3, <1>4, <1>5, ProbeStep, InvalidateStep, TimeStep, RestartStep DEF Next

LEMMA Invariant == Spec => []IInv
BY Initially, Inductive, PTL DEF Spec

\* The types of the inventory, of the file and of every discovery.
THEOREM TypeCorrect == Spec => []TypeOK
<1>1. IInv => TypeOK
  BY DEF IInv
<1> QED BY <1>1, Invariant, PTL

\* After a reload the memory holds nothing older than it, but through a discovery
\* that was under way then or through the file at a restart.
THEOREM OnlyFlights == Spec => []OnlyFlightsRevive
<1>1. IInv => OnlyFlightsRevive
  BY DEF IInv
<1> QED BY <1>1, Invariant, PTL

-----------------------------------------------------------------------------
(* The background refresh *)

Running(b) == pc[b] # "idle"

RInv ==
    /\ pc \in [Discoveries -> {"idle", "begin", "probing", "writing", "ending", "stuck"}]
    /\ refreshing <=> \E b \in Background : Running(b)
    /\ \A b, c \in Background : Running(b) /\ Running(c) => b = c

\* A step that moves one discovery, which ran and still runs.
LEMMA OnStep ==
    ASSUME RInv, NEW d \in Discoveries, NEW to \in {"begin", "probing", "writing", "ending", "stuck"},
           pc' = [pc EXCEPT ![d] = to], UNCHANGED refreshing, d \in Background => Running(d)
    PROVE  RInv'
BY DEF RInv, Running, Discoveries

LEMMA RefreshInvariant == Spec => []RInv
<1>1. Init => RInv
  BY DEF Init, RInv, Running, Discoveries
<1>2. RInv /\ [Next]_vars => RInv'
  <2> SUFFICES ASSUME RInv, [Next]_vars PROVE RInv'
    OBVIOUS
  <2>0. Foreground \subseteq Discoveries /\ Background \subseteq Discoveries
        /\ Foreground \cap Background = {}
    BY InventoryAssumption DEF Discoveries
  <2>1. CASE UNCHANGED <<refreshing, pc>>
    BY <2>1 DEF RInv, Running
  <2>2. ASSUME NEW d \in Foreground, NEW sn \in Servers \cup {All}, AnswerFromCache(d, sn) PROVE RInv'
    <3>1. CASE StartRefresh
      <4>1. CASE Free /\ \E b \in Background : pc[b] = "idle"
        <5>1. PICK b \in Background : pc' = [pc EXCEPT ![b] = "begin"]
          BY <3>1, <4>1 DEF StartRefresh
        <5>2. refreshing' = TRUE /\ \A c \in Background : ~Running(c)
          BY <3>1, <4>1 DEF StartRefresh, Free, RInv
        <5>3. \A c \in Background : Running(c)' <=> c = b
          BY <2>0, <5>1, <5>2 DEF RInv, Running
        <5> QED BY <2>0, <5>1, <5>2, <5>3 DEF RInv
      <4> QED BY <2>1, <3>1, <4>1 DEF StartRefresh
    <3> QED BY <2>1, <2>2, <3>1 DEF AnswerFromCache
  <2>3. ASSUME NEW d \in Foreground, NEW sn \in Servers \cup {All}, Discover(d, sn) PROVE RInv'
    BY <2>0, <2>3, OnStep DEF Discover, Begin
  <2>4. ASSUME NEW b \in Background, Refresh(b) \/ RefreshFails(b) PROVE RInv'
    BY <2>0, <2>4, OnStep DEF Refresh, RefreshFails, Begin, Running
  <2>5. ASSUME NEW d \in Discoveries, Store(d) \/ WriteFile(d) \/ WriteFails(d) \/ Report(d) \/ GetsStuck(d)
        PROVE  RInv'
    BY <2>5, OnStep DEF Store, WriteFile, WriteFails, Report, GetsStuck, Probed, Running
  <2>6. ASSUME NEW d \in Discoveries, End(d) PROVE RInv'
    <3>1. /\ pc' = [pc EXCEPT ![d] = "idle"] /\ pc[d] = "ending"
          /\ refreshing' = IF d \in Background THEN FALSE ELSE refreshing
      BY <2>6 DEF End, FlagAfter
    <3>2. \A b \in Background : Running(b)' <=> Running(b) /\ b # d
      BY <2>0, <3>1 DEF RInv, Running
    <3>3. CASE d \in Background
      <4>1. \A b \in Background : ~Running(b)'
        BY <3>1, <3>2, <3>3 DEF RInv, Running
      <4> QED BY <3>1, <3>3, <4>1 DEF RInv
    <3>4. CASE d \notin Background
      <4>1. \A b \in Background : Running(b)' <=> Running(b)
        BY <3>2, <3>4
      <4> QED BY <3>1, <3>4, <4>1 DEF RInv
    <3> QED BY <3>3, <3>4
  <2>7. CASE Restart
    BY <2>0, <2>7 DEF Restart, RInv, Running
  <2>8. ASSUME NEW d \in Discoveries, NEW s \in Servers, Probing(d, s) \/ Hang(d, s)
        PROVE  UNCHANGED <<refreshing, pc>>
    BY <2>8 DEF Probing, ProbeSucceeds, ProbeFails, Hang, Becomes
  <2>9. CASE Invalidate \/ TimePasses \/ UNCHANGED vars
    BY <2>1, <2>9 DEF Invalidate, TimePasses, vars
  <2> QED BY <2>1, <2>2, <2>3, <2>4, <2>5, <2>6, <2>7, <2>8, <2>9 DEF Next, Discovery
<1> QED BY <1>1, <1>2, PTL DEF Spec

\* Any number of calls that find the inventory stale start at most one refresh,
\* and the flag that keeps it so is set exactly while it runs.
THEOREM AtMostOne == Spec => []OneRefresh
<1>1. RInv => OneRefresh
  <2> SUFFICES ASSUME RInv PROVE OneRefresh
    OBVIOUS
  <2> DEFINE B == {b \in Background : pc[b] # "idle"}
  <2>1. B = {} \/ \E b \in B : B = {b}
    BY DEF RInv, Running
  <2>2. Cardinality(B) <= 1
    <3> HIDE DEF B
    <3>1. CASE B = {}
      BY <3>1, FS_EmptySet
    <3>2. ASSUME NEW b \in B, B = {b} PROVE Cardinality(B) <= 1
      <4>1. Cardinality({b}) = 1
        BY FS_Singleton
      <4> QED BY <3>2, <4>1
    <3> QED BY <2>1, <3>1, <3>2
  <2> QED BY <2>2 DEF RInv, Running, OneRefresh
<1> QED BY <1>1, RefreshInvariant, PTL

-----------------------------------------------------------------------------
(* What may take known tools out of the inventory *)

\* A step on which the tools of s disappear from the memory.
Disappear(s) == mem # None /\ mem' # None /\ mem.entries[s].tools # NoTools
                           /\ mem'.entries[s].tools = NoTools

LEMMA StoreExplains ==
    ASSUME IInv, NEW d \in Discoveries, Store(d), NEW s \in Servers, Disappear(s)
    PROVE  ~mem'.entries[s].failed \/ (pc[d] = "probing" /\ pc'[d] = "writing" /\ previous[d][s] = NoTools)
<1>1. pc[d] = "probing" /\ probe[d][s].pc = "ended" /\ mem' = Found(d) /\ pc' = [pc EXCEPT ![d] = "writing"]
  BY InventoryAssumption DEF Store, Probed, Asked
<1>2. pc'[d] = "writing"
  BY <1>1 DEF IInv, TypeOK
<1>3. PICK e \in Entry : e = probe[d][s].entry
  BY <1>1, ProbeFields DEF IInv, TypeOK
<1>4. mem'.entries[s] = IF e.failed THEN [e EXCEPT !.tools = previous[d][s]] ELSE e
  BY <1>1, <1>3 DEF Found, Kept
<1>5. CASE e.failed
  <2>1. mem'.entries[s].tools = previous[d][s]
    BY <1>4, <1>5 DEF Entry
  <2> QED BY <1>1, <1>2, <2>1 DEF Disappear
<1>6. CASE ~e.failed
  BY <1>4, <1>6
<1> QED BY <1>5, <1>6

\* Whatever else a step does, it keeps the tool lists, forgets them all, or
\* takes them from the file.
LEMMA OthersKeep ==
    ASSUME IInv, [Next]_vars, NEW s \in Servers, Disappear(s)
    PROVE  mem' = disk' \/ \E d \in Discoveries : Store(d)
<1>1. mem' # mem
  BY DEF Disappear
<1>2. \A d \in Foreground, sn \in Servers \cup {All} : ~AnswerFromCache(d, sn) /\ ~Discover(d, sn)
  BY <1>1 DEF AnswerFromCache, Discover, Begin, stores
<1>3. \A b \in Background : ~Refresh(b) /\ ~RefreshFails(b)
  BY <1>1 DEF Refresh, RefreshFails, Begin, stores
<1>4. \A d \in Discoveries : ~WriteFile(d) /\ ~WriteFails(d) /\ ~Report(d) /\ ~End(d) /\ ~GetsStuck(d)
  BY <1>1 DEF WriteFile, WriteFails, Report, End, GetsStuck, stores
<1>5. \A d \in Discoveries, t \in Servers : ~Probing(d, t) /\ ~Hang(d, t)
  BY <1>1 DEF Probing, ProbeSucceeds, ProbeFails, Hang, Becomes, stores
<1>6. ~Invalidate
  BY DEF Invalidate, Forgotten, Disappear
<1>7. ~TimePasses
  <2>1. ASSUME TimePasses PROVE mem'.entries = mem.entries
    BY <2>1 DEF TimePasses, Older, Disappear, IInv, TypeOK, Inventories
  <2> QED BY <2>1 DEF Disappear
<1>8. Restart => mem' = disk'
  BY DEF Restart, Disappear
<1>9. ~UNCHANGED vars
  BY <1>1 DEF vars, stores
<1> QED BY <1>2, <1>3, <1>4, <1>5, <1>6, <1>7, <1>8, <1>9 DEF Next, Discovery

\* A server that answers no longer keeps the tools it is known for: only its own
\* word, a reload, the file at a restart, or a discovery that began before they
\* were known takes them out of the inventory.
THEOREM ToolsSurvive == Spec => ToolsSurviveFailure
<1>1. ASSUME IInv, [Next]_vars, NEW s \in Servers, Disappear(s)
      PROVE  \/ ~mem'.entries[s].failed
             \/ mem' = disk'
             \/ \E d \in Discoveries : pc[d] = "probing" /\ pc'[d] = "writing" /\ previous[d][s] = NoTools
  BY <1>1, OthersKeep, StoreExplains
<1>2. IInv /\ [Next]_vars => [\A s \in Servers :
        mem # None /\ mem' # None /\ mem.entries[s].tools # NoTools /\ mem'.entries[s].tools = NoTools =>
            \/ ~mem'.entries[s].failed
            \/ mem' = disk'
            \/ \E d \in Discoveries : pc[d] = "probing" /\ pc'[d] = "writing" /\ previous[d][s] = NoTools]_vars
  BY <1>1 DEF Disappear
<1> QED BY <1>2, Invariant, PTL DEF Spec, ToolsSurviveFailure

-----------------------------------------------------------------------------
(* The file and the memory *)

Saving(d) == pc[d] = "writing"

\* While no save has met another or failed, one at most is under way, and the file
\* is to become what the memory holds.
Together == ~apart =>
    /\ \A d, e \in Discoveries : Saving(d) /\ Saving(e) => d = e
    /\ \A d \in Discoveries : Saving(d) => mem = Found(d)
    /\ Quiet => mem = disk

\* A step that neither begins a save nor ends one, and changes no discovery that
\* is at one.
LEMMA StaysTogether ==
    ASSUME Together, UNCHANGED <<mem, disk, apart>>,
           \A d \in Discoveries : /\ Saving(d)' <=> Saving(d)
                                  /\ Saving(d) => probe'[d] = probe[d] /\ previous'[d] = previous[d]
    PROVE  Together'
<1>1. Quiet' <=> Quiet
  BY DEF Quiet, Saving
<1>2. ASSUME NEW d \in Discoveries, Saving(d) PROVE Found(d)' = Found(d)
  <2>1. probe'[d] = probe[d] /\ previous'[d] = previous[d]
    BY <1>2
  <2> QED BY <2>1 DEF Found, Kept
<1> QED BY <1>1, <1>2 DEF Together

LEMMA SaveStep ==
    ASSUME TypeOK, Together, NEW d \in Discoveries, Store(d) \/ WriteFile(d) \/ WriteFails(d)
    PROVE  Together'
<1> USE DEF Saving
<1>1. CASE Store(d)
  <2>1. /\ mem' = Found(d) /\ apart' = ~Quiet /\ Found(d)' = Found(d) /\ d \in Discoveries
        /\ \A e \in Discoveries : Saving(e)' <=> Saving(e) \/ e = d
    BY <1>1 DEF Store, Found, Kept, TypeOK
  <2>2. ~Quiet'
    BY <2>1 DEF Quiet
  <2>3. CASE Quiet
    BY <2>1, <2>2, <2>3 DEF Together, Quiet
  <2>4. CASE ~Quiet
    BY <2>1, <2>4 DEF Together
  <2> QED BY <2>3, <2>4
<1>2. CASE WriteFile(d)
  <2>1. /\ disk' = Found(d) /\ Saving(d) /\ UNCHANGED <<mem, apart>>
        /\ \A e \in Discoveries : Saving(e)' <=> Saving(e) /\ e # d
    BY <1>2 DEF WriteFile, TypeOK, history
  <2>2. ~apart => mem' = disk' /\ \A e \in Discoveries : ~Saving(e)'
    BY <2>1 DEF Together
  <2> QED BY <2>1, <2>2 DEF Together
<1>3. CASE WriteFails(d)
  BY <1>3 DEF WriteFails, Together
<1> QED BY <1>1, <1>2, <1>3

LEMMA TogetherAlways == Spec => []Together
<1>1. Init => Together
  BY DEF Init, Together, Saving
<1>2. TypeOK /\ Together /\ [Next]_vars => Together'
  <2> SUFFICES ASSUME TypeOK, Together, [Next]_vars PROVE Together'
    OBVIOUS
  <2>0. Foreground \subseteq Discoveries /\ Background \subseteq Discoveries
    BY DEF Discoveries
  <2>1. CASE UNCHANGED <<stores, apart, pc, previous, probe>>
    <3>1. UNCHANGED <<mem, disk, apart>>
      BY <2>1 DEF stores
    <3> QED BY <2>1, <3>1, StaysTogether DEF Saving
  \* A discovery whose place changes, away from the saves, with all it knows.
  <2>2. ASSUME NEW d \in Discoveries, NEW to \in {"begin", "probing", "ending", "stuck", "idle"},
               pc[d] # "writing", pc' = [pc EXCEPT ![d] = to], UNCHANGED <<mem, disk, apart>>,
               \A e \in Discoveries \ {d} : probe'[e] = probe[e] /\ previous'[e] = previous[e]
        PROVE  Together'
    <3>1. \A e \in Discoveries : Saving(e)' <=> Saving(e)
      BY <2>2 DEF Saving, TypeOK
    <3>2. \A e \in Discoveries : Saving(e) => e # d
      BY <2>2 DEF Saving
    <3> QED BY <2>2, <3>1, <3>2, StaysTogether
  <2>3. ASSUME NEW d \in Foreground, NEW sn \in Servers \cup {All}, AnswerFromCache(d, sn)
        PROVE  Together'
    <3>1. CASE UNCHANGED pc
      BY <2>1, <2>3, <3>1 DEF AnswerFromCache, history
    <3>2. ASSUME NEW b \in Background, pc[b] = "idle", pc' = [pc EXCEPT ![b] = "begin"]
          PROVE  Together'
      BY <2>0, <2>2, <2>3, <3>2 DEF AnswerFromCache, stores, history
    <3> QED BY <2>3, <3>1, <3>2 DEF AnswerFromCache, StartRefresh
  <2>4. ASSUME NEW d \in Discoveries, NEW sn \in Servers \cup {All}, Begin(d, sn), pc[d] # "writing"
        PROVE  Together'
    <3>1. \A e \in Discoveries \ {d} : probe'[e] = probe[e] /\ previous'[e] = previous[e]
      BY <2>4 DEF Begin, TypeOK
    <3> QED BY <2>2, <2>4, <3>1 DEF Begin, stores
  <2>5. ASSUME NEW d \in Discoveries, RefreshFails(d) \/ Report(d) \/ GetsStuck(d)
        PROVE  Together'
    BY <2>2, <2>5 DEF RefreshFails, Report, GetsStuck, Probed, stores, history
  <2>6. ASSUME NEW d \in Discoveries, End(d) PROVE Together'
    <3>1. \A e \in Discoveries \ {d} : probe'[e] = probe[e] /\ previous'[e] = previous[e]
      BY <2>6 DEF End, TypeOK
    <3> QED BY <2>2, <2>6, <3>1 DEF End, stores, history
  <2>7. ASSUME NEW d \in Discoveries, NEW s \in Servers, Probing(d, s) \/ Hang(d, s)
        PROVE  Together'
    <3>1. /\ pc[d] = "probing" /\ UNCHANGED <<mem, disk, apart, pc, previous>>
          /\ \A e \in Discoveries \ {d} : probe'[e] = probe[e]
      BY <2>7 DEF Probing, ProbeSucceeds, ProbeFails, Hang, Listing, Becomes, stores, history, TypeOK
    <3> QED BY <3>1, StaysTogether DEF Saving
  <2>8. CASE TimePasses
    BY <2>8 DEF TimePasses, Together, Quiet, Saving, history
  <2>9. CASE Invalidate
    BY <2>9 DEF Invalidate, Together
  <2>10. CASE Restart
    <3>1. (apart' = (mem' # disk')) /\ \A d \in Discoveries : pc'[d] = "idle"
      BY <2>10 DEF Restart
    <3>2. ~apart' => mem' = disk'
      BY <3>1, Zenon
    <3> QED BY <3>1, <3>2 DEF Together, Saving
  <2>11. CASE UNCHANGED vars
    BY <2>1, <2>11 DEF vars, history
  <2>12. ASSUME NEW d \in Foreground, NEW sn \in Servers \cup {All}, Discover(d, sn)
         PROVE  Together'
    BY <2>0, <2>4, <2>12 DEF Discover
  <2>13. ASSUME NEW b \in Background, Refresh(b) PROVE Together'
    BY <2>0, <2>4, <2>13 DEF Refresh
  <2> QED BY <2>0, <2>3, <2>5, <2>6, <2>7, <2>8, <2>9, <2>10, <2>11, <2>12, <2>13, SaveStep
          DEF Next, Discovery
<1> QED BY <1>1, <1>2, TypeCorrect, PTL DEF Spec

\* After a save that met no other and did not fail, and until a reload, the file
\* is what the memory holds; hence a restart that can read it loses nothing.
THEOREM FileKept == Spec => []FileIsMemory
<1>1. Together => FileIsMemory
  BY DEF Together, FileIsMemory
<1> QED BY <1>1, TogetherAlways, PTL
=============================================================================
