--------------------------- MODULE SharedFilesProofs ---------------------------
(***************************************************************************)
(* Proofs about the files that the connector and the frontend share without *)
(* a lock between the processes.  The vault of secrets and sessions.json are *)
(* replaced as a whole: for any number of callers of either, only a race the *)
(* model names, or a write that dies, takes anything off them; the client is *)
(* given a value only after an approval, and a failed creation leaves no     *)
(* session behind.  connector.jsonl is appended and rotated by the one and   *)
(* followed by the other: whatever is logged, the viewer sees it in order.   *)
(***************************************************************************)
EXTENDS SecretVault, ChatSessions, EventLog, SequenceTheorems, FiniteSetTheorems, TLAPS

Busy(a) == pc[a] \in {"loaded", "open", "written"}

\* As long as no harm is done, a view that is not stale is the vault as it
\* should be, and a vault opened under such a view is still the truncated one.
FreshViews == ~harmed => \A a \in Actors : Busy(a) /\ a \notin stale =>
    view[a] = expected /\ (pc[a] = "open" => torn)

\* What a thread has in the temporary file is its own change of what it read,
\* if it is its own at all.
OwnTmp == \A h \in Threads : pc[h] = "written" /\ tmp.by = h => tmp.vault = Changed(h, view[h])

\* An actor is at a place of its own kind, with a job that fits.
Places ==
    /\ \A g \in Injectors : pc[g] \in {"idle", "loaded", "open"}
    /\ \A h \in Threads :
         /\ pc[h] # "open"
         /\ pc[h] \in {"loaded", "written"} => job[h].op \in {"save", "delete", "approve"}
         /\ pc[h] \in {"respond", "answering"} =>
              job[h].op \in {"approve", "deny"} /\ job[h].target \in Requests

\* Approvals, wherever they lie.
Approved ==
    /\ \A h \in Threads : job[h].op = "approve" => job[h].target \in approved
    /\ \A r \in Requests : "approved" \in {reply[r], response[r]} => r \in approved
    /\ \A p \in Polls : poll[p] # NoPoll /\ poll[p].answer = "approved" => poll[p].request \in approved
    /\ ValueNeedsApproval

IInv == TypeOK /\ Places /\ FreshViews /\ OwnTmp /\ VaultLosesOnlyToStaleWrites /\ Approved

-----------------------------------------------------------------------------
LEMMA Initially == Init => IInv
<1> SUFFICES ASSUME Init PROVE IInv
  OBVIOUS
<1>1. TypeOK
  <2>1. Idle \in Ops
    BY DEF Ops
  <2>2. /\ poll \in [Polls -> [pc : {"got", "dropped", "returning"}, request : Requests,
                               answer : Answers] \cup {NoPoll}]
        /\ answers \in [Requests -> 0..MaxAnswers]
        /\ told \in [Requests -> SUBSET Answers]
    BY VaultAssumption DEF Init
  <2>3. /\ pc \in [Actors -> {"idle", "loaded", "open", "written", "respond", "answering"}]
        /\ view \in [Actors -> SUBSET Secrets]
        /\ job \in [Threads -> Ops]
        /\ tmp \in [by : Threads \cup {None, "half"}, vault : SUBSET Secrets]
        /\ reply \in [Requests -> Content] /\ response \in [Requests -> Content]
    BY <2>1 DEF Init, NoTmp, Content
  <2> QED BY <2>2, <2>3 DEF Init, TypeOK
<1>2. Places /\ FreshViews /\ OwnTmp
  BY DEF Init, Places, FreshViews, OwnTmp, Busy, Actors
<1>3. VaultLosesOnlyToStaleWrites
  BY DEF Init, VaultLosesOnlyToStaleWrites
<1>4. Approved
  BY VaultAssumption DEF Init, Approved, ValueNeedsApproval, Idle
<1> QED BY <1>1, <1>2, <1>3, <1>4 DEF IInv

\* The fields of a poll that is under way, and of a job.
LEMMA Fields ==
    ASSUME TypeOK
    PROVE  /\ NoPoll.pc = "idle"
           /\ \A p \in Polls : poll[p].pc # "idle" =>
                /\ poll[p] # NoPoll
                /\ poll[p].request \in Requests /\ poll[p].answer \in Answers
           /\ \A h \in Threads : job[h].op \in {"save", "delete"} => job[h].target \in Secrets
           /\ \A h \in Threads : job[h].op \in {"approve", "deny"} => job[h].target \in Requests
           /\ \A h \in Threads : job[h] \in Ops
BY DEF TypeOK, NoPoll, Ops, Idle, Answers

-----------------------------------------------------------------------------
(* The connector and the vault *)

\* A step that leaves the requests alone, as every step of an injecting call does.
LEMMA ApprovedKept ==
    ASSUME Approved, UNCHANGED <<job, reply, response, poll, approved, told>> PROVE Approved'
BY DEF Approved, ValueNeedsApproval

\* Nor does a step of an injecting call touch what the threads are writing.
LEMMA TmpKept ==
    ASSUME TypeOK, OwnTmp, NEW g \in Injectors, UNCHANGED <<job, tmp>>,
           \A a \in Actors \ {g} : pc'[a] = pc[a] /\ view'[a] = view[a]
    PROVE  OwnTmp'
<1>1. \A h \in Threads : h \in Actors \ {g}
  BY VaultAssumption DEF Actors
<1> QED BY <1>1 DEF OwnTmp, Changed

LEMMA LoadStep ==
    ASSUME IInv, NEW g \in Injectors, NEW s \in Secrets, Load(g, s) PROVE IInv'
<1> USE DEF IInv
<1>0. g \in Actors /\ ~torn
  BY DEF Actors, Load
<1>1. TypeOK'
  BY <1>0 DEF Load, TypeOK, requestVars
<1>2. /\ pc'[g] = "loaded" /\ view'[g] = file /\ \A a \in Actors \ {g} : pc'[a] = pc[a] /\ view'[a] = view[a]
  BY <1>0 DEF Load, TypeOK
<1>3. Places'
  BY <1>2, VaultAssumption DEF Load, Places, Actors
<1>4. VaultLosesOnlyToStaleWrites'
  BY <1>0 DEF Load, VaultLosesOnlyToStaleWrites
<1>5. FreshViews'
  BY <1>0, <1>2 DEF Load, FreshViews, Busy, VaultLosesOnlyToStaleWrites
<1> QED BY <1>1, <1>2, <1>3, <1>4, <1>5, TmpKept, ApprovedKept DEF Load, requestVars

LEMMA OpenStep ==
    ASSUME IInv, NEW g \in Injectors, OpenVault(g) PROVE IInv'
<1> USE DEF IInv
<1>0. g \in Actors
  BY DEF Actors
<1>1. TypeOK'
  BY <1>0 DEF OpenVault, TypeOK, requestVars, Others
<1>2. /\ pc[g] = "loaded" /\ pc'[g] = "open"
      /\ \A a \in Actors \ {g} : pc'[a] = pc[a] /\ view'[a] = view[a]
  BY <1>0 DEF OpenVault, TypeOK
<1>3. Places'
  BY <1>2, VaultAssumption DEF OpenVault, Places, Actors
<1>4. VaultLosesOnlyToStaleWrites'
  BY <1>2 DEF OpenVault, VaultLosesOnlyToStaleWrites
<1>5. FreshViews'
  BY <1>2 DEF OpenVault, FreshViews, Busy, Others
<1> QED BY <1>1, <1>2, <1>3, <1>4, <1>5, TmpKept, ApprovedKept DEF OpenVault, requestVars

LEMMA WriteStep ==
    ASSUME IInv, NEW g \in Injectors, WriteVault(g) PROVE IInv'
<1> USE DEF IInv
<1>0. g \in Actors
  BY DEF Actors
<1>1. TypeOK'
  <2>1. torn' \in BOOLEAN /\ file' \subseteq Secrets
    BY <1>0 DEF WriteVault, TypeOK
  <2> QED BY <1>0, <2>1 DEF WriteVault, TypeOK, requestVars, Others, Outdate
<1>2. /\ pc[g] = "open" /\ pc'[g] = "idle"
      /\ \A a \in Actors \ {g} : pc'[a] = pc[a] /\ view'[a] = view[a]
  BY <1>0 DEF WriteVault, TypeOK
<1>3. Places'
  BY <1>2, VaultAssumption DEF WriteVault, Places, Actors
<1>6. OwnTmp'
  BY <1>2, TmpKept DEF WriteVault
<1>4. CASE harmed'
  BY <1>4, <1>1, <1>3, <1>6, ApprovedKept
     DEF WriteVault, requestVars, FreshViews, VaultLosesOnlyToStaleWrites
<1>5. CASE ~harmed'
  <2>1. ~harmed /\ g \notin stale
    BY <1>5 DEF WriteVault
  <2>2. view[g] = expected /\ torn
    BY <1>0, <1>2, <2>1 DEF FreshViews, Busy
  <2>3. ~torn' /\ file' = expected'
    BY <2>2 DEF WriteVault
  <2>4. FreshViews'
    BY <1>2 DEF WriteVault, FreshViews, Busy, Others, Outdate
  <2> QED BY <1>1, <1>3, <1>6, <2>3, <2>4, ApprovedKept
          DEF WriteVault, requestVars, VaultLosesOnlyToStaleWrites
<1> QED BY <1>4, <1>5

LEMMA InjectFailsStep ==
    ASSUME IInv, NEW g \in Injectors, InjectFails(g) PROVE IInv'
<1> USE DEF IInv
<1>0. g \in Actors
  BY DEF Actors
<1>1. TypeOK'
  BY <1>0 DEF InjectFails, TypeOK, requestVars, Others, Outdate
<1>2. /\ pc'[g] = "idle"
      /\ \A a \in Actors \ {g} : pc'[a] = pc[a] /\ view'[a] = view[a]
  BY <1>0 DEF InjectFails, TypeOK
<1>3. Places'
  BY <1>2, VaultAssumption DEF InjectFails, Places, Actors
<1>4. CASE pc[g] = "loaded"
  <2>1. UNCHANGED <<file, torn, stale, harmed, expected>>
    BY <1>4 DEF InjectFails
  <2>2. FreshViews' /\ VaultLosesOnlyToStaleWrites'
    BY <1>2, <1>4, <2>1 DEF FreshViews, Busy, VaultLosesOnlyToStaleWrites, Actors
  <2> QED BY <1>1, <1>2, <1>3, <2>2, TmpKept, ApprovedKept DEF InjectFails, requestVars
<1>5. CASE pc[g] = "open"
  <2>1. harmed'
    BY <1>5 DEF InjectFails
  <2>2. FreshViews' /\ VaultLosesOnlyToStaleWrites'
    BY <2>1 DEF FreshViews, VaultLosesOnlyToStaleWrites
  <2> QED BY <1>1, <1>2, <1>3, <2>2, TmpKept, ApprovedKept DEF InjectFails, requestVars
<1> QED BY <1>4, <1>5 DEF InjectFails

-----------------------------------------------------------------------------
(* The frontend and the vault *)

\* A thread reads the vault: one it cannot read as an empty, stale one.
LEMMA TakeStep ==
    ASSUME IInv, NEW h \in Threads, NEW j \in Ops, j.op \in {"save", "delete", "approve"}, Take(h, j),
           UNCHANGED <<ask, asked, requestFiles, reply, response, poll, told, unheard, crashed>>,
           approved \subseteq approved', approved' \subseteq Requests,
           j.op = "approve" => j.target \in approved',
           answers' \in [Requests -> 0..MaxAnswers]
    PROVE  IInv'
<1> USE DEF IInv
<1>0. h \in Actors
  BY DEF Actors
<1>1. PICK read \in {file, {}} :
         /\ view' = [view EXCEPT ![h] = read]
         /\ stale' = IF torn \/ read # file THEN stale \cup {h} ELSE stale \ {h}
  BY DEF Take
<1>2. TypeOK'
  <2>1. view' \in [Actors -> SUBSET Secrets] /\ stale' \subseteq Actors
    BY <1>0, <1>1 DEF TypeOK
  <2> QED BY <1>0, <2>1 DEF Take, TypeOK
<1>3. /\ pc'[h] = "loaded" /\ view'[h] = read /\ job'[h] = j
      /\ \A a \in Actors \ {h} : pc'[a] = pc[a] /\ view'[a] = view[a]
      /\ \A k \in Threads \ {h} : k \in Actors /\ job'[k] = job[k]
  BY <1>0, <1>1 DEF Take, TypeOK, Actors
<1>4. UNCHANGED <<harmed, expected, torn, file, tmp>>
  BY DEF Take
<1>5. Places'
  <2>1. \A g \in Injectors : pc'[g] \in {"idle", "loaded", "open"}
    BY <1>3, VaultAssumption DEF Places, Actors
  <2> QED BY <1>3, <2>1 DEF Places
<1>6. VaultLosesOnlyToStaleWrites'
  <2>1. \A g \in Injectors : pc[g] = "open" => pc'[g] = "open"
    BY <1>3, VaultAssumption DEF Actors
  <2> QED BY <1>4, <2>1 DEF VaultLosesOnlyToStaleWrites
<1>7. FreshViews'
  <2> SUFFICES ASSUME ~harmed', NEW a \in Actors, Busy(a)', a \notin stale'
               PROVE  view'[a] = expected' /\ (pc'[a] = "open" => torn')
    BY DEF FreshViews
  <2>1. CASE a = h
    <3>1. ~torn /\ read = file
      BY <1>1, <2>1
    <3> QED BY <1>3, <1>4, <2>1, <3>1 DEF VaultLosesOnlyToStaleWrites
  <2>2. CASE a # h
    <3>1. a \notin stale
      BY <1>1, <2>2
    <3> QED BY <1>3, <1>4, <2>2, <3>1 DEF FreshViews, Busy
  <2> QED BY <2>1, <2>2
<1>8. OwnTmp'
  BY <1>3, <1>4 DEF OwnTmp, Changed
<1>9. Approved'
  BY <1>3 DEF Approved, ValueNeedsApproval
<1> QED BY <1>2, <1>5, <1>6, <1>7, <1>8, <1>9

\* What a thread makes of a vault it has read is a vault.
LEMMA ChangedType ==
    ASSUME TypeOK, Places, NEW h \in Threads, pc[h] \in {"loaded", "written"},
           NEW vault \in SUBSET Secrets
    PROVE  Changed(h, vault) \subseteq Secrets
<1>1. job[h].op \in {"save", "delete"} => job[h].target \in Secrets
  BY Fields
<1> QED BY <1>1 DEF Changed

LEMMA WriteTmpStep ==
    ASSUME IInv, NEW h \in Threads, WriteTmp(h) PROVE IInv'
<1> USE DEF IInv
<1>0. h \in Actors
  BY DEF Actors
<1>1. /\ pc[h] = "loaded" /\ pc' = [pc EXCEPT ![h] = "written"]
      /\ UNCHANGED <<file, torn, view, job, stale, expected, harmed, requestVars, crashed>>
      /\ tmp' \in {[by |-> h, vault |-> Changed(h, view[h])], Half}
  BY DEF WriteTmp
<1>2. /\ pc'[h] = "written" /\ \A a \in Actors \ {h} : pc'[a] = pc[a]
      /\ \A k \in Threads : k \in Actors
  BY <1>0, <1>1 DEF TypeOK, Actors
<1>3. TypeOK'
  <2>1. Changed(h, view[h]) \subseteq Secrets
    BY <1>0, <1>1, ChangedType DEF TypeOK
  <2>2. tmp' \in [by : Threads \cup {None, "half"}, vault : SUBSET Secrets]
    BY <1>1, <2>1 DEF Half
  <2> QED BY <1>0, <1>1, <2>2 DEF TypeOK, requestVars
<1>4. Places'
  <2>1. \A g \in Injectors : pc'[g] = pc[g]
    BY <1>2, VaultAssumption DEF Actors
  <2> QED BY <1>1, <1>2, <2>1 DEF Places
<1>5. FreshViews'
  BY <1>1, <1>2 DEF FreshViews, Busy
<1>6. OwnTmp'
  <2> SUFFICES ASSUME NEW k \in Threads, pc'[k] = "written", tmp'.by = k
               PROVE  tmp'.vault = Changed(k, view[k])
    BY <1>1 DEF OwnTmp, Changed
  <2>1. tmp' = [by |-> h, vault |-> Changed(h, view[h])]
    BY <1>1, VaultAssumption DEF Half
  <2> QED BY <2>1
<1>7. VaultLosesOnlyToStaleWrites'
  <2>1. \A g \in Injectors : pc'[g] = pc[g]
    BY <1>2, VaultAssumption DEF Actors
  <2> QED BY <1>1, <2>1 DEF VaultLosesOnlyToStaleWrites
<1> QED BY <1>1, <1>3, <1>4, <1>5, <1>6, <1>7, ApprovedKept DEF requestVars

LEMMA ReplaceStep ==
    ASSUME IInv, NEW h \in Threads, Replace(h) PROVE IInv'
<1> USE DEF IInv
<1>0. h \in Actors
  BY DEF Actors
<1>1. /\ job[h] \in Ops /\ Idle \in Ops
      /\ job[h].op = "approve" => job[h].target \in Requests
  BY Fields DEF Ops
<1>2. Changed(h, expected) \subseteq Secrets
  BY ChangedType DEF Replace, TypeOK
<1>3. \E to \in {"idle", "respond"}, k \in {job[h], Idle} :
         /\ pc' = [pc EXCEPT ![h] = to] /\ view' = [view EXCEPT ![h] = {}]
         /\ job' = [job EXCEPT ![h] = k]
         /\ to = "respond" => k = job[h] /\ job[h].op = "approve"
  <2>1. CASE job[h].op = "approve"
    <3>1. job = [job EXCEPT ![h] = job[h]]
      BY DEF TypeOK
    <3> QED BY <2>1, <3>1 DEF Replace, GoOn
  <2>2. CASE job[h].op # "approve"
    BY <2>2 DEF Replace, Finish
  <2> QED BY <2>1, <2>2
<1>4. PICK to \in {"idle", "respond"}, k \in {job[h], Idle} :
         /\ pc' = [pc EXCEPT ![h] = to] /\ view' = [view EXCEPT ![h] = {}]
         /\ job' = [job EXCEPT ![h] = k]
         /\ to = "respond" => k = job[h] /\ job[h].op = "approve"
  BY <1>3
<1>5. TypeOK'
  <2>1. file' \subseteq Secrets /\ torn' \in BOOLEAN /\ harmed' \in BOOLEAN
    BY DEF Replace, TypeOK
  <2>2. tmp' \in [by : Threads \cup {None, "half"}, vault : SUBSET Secrets]
    BY DEF Replace, NoTmp
  <2>3. stale' \subseteq Actors
    BY DEF Replace, TypeOK, Others, Outdate
  <2>4. job' \in [Threads -> Ops]
    BY <1>1, <1>4 DEF TypeOK
  <2> QED BY <1>0, <1>2, <1>4, <2>1, <2>2, <2>3, <2>4 DEF Replace, TypeOK, requestVars
<1>6. /\ pc'[h] = to /\ job'[h] = k
      /\ \A a \in Actors \ {h} : pc'[a] = pc[a] /\ view'[a] = view[a]
      /\ \A t \in Threads \ {h} : t \in Actors /\ job'[t] = job[t]
  BY <1>0, <1>4 DEF TypeOK, Actors
<1>7. Places'
  <2>1. \A g \in Injectors : pc'[g] \in {"idle", "loaded", "open"}
    BY <1>6, VaultAssumption DEF Places, Actors
  <2> QED BY <1>1, <1>4, <1>6, <2>1 DEF Places
<1>8. FreshViews'
  BY <1>4, <1>6 DEF Replace, FreshViews, Busy, Others, Outdate
<1>9. VaultLosesOnlyToStaleWrites'
  <2> SUFFICES ASSUME ~harmed' PROVE ~torn' /\ file' = expected'
    BY DEF VaultLosesOnlyToStaleWrites
  <2>1. ~harmed /\ h \notin stale /\ tmp.by = h /\ pc[h] = "written"
    BY DEF Replace
  <2>2. view[h] = expected /\ tmp.vault = Changed(h, view[h])
    BY <1>0, <2>1 DEF FreshViews, Busy, OwnTmp
  <2>3. tmp.by # "half"
    BY <2>1, VaultAssumption
  <2> QED BY <2>2, <2>3 DEF Replace
<1>10. OwnTmp'
  <2>1. tmp' = NoTmp
    BY DEF Replace
  <2> QED BY <2>1, VaultAssumption DEF OwnTmp, NoTmp
<1>11. Approved'
  <2>1. UNCHANGED <<reply, response, poll, approved, told>>
    BY DEF Replace, requestVars
  <2>2. k.op = "approve" => k = job[h]
    BY DEF Idle
  <2> QED BY <1>6, <2>1, <2>2 DEF Approved, ValueNeedsApproval
<1> QED BY <1>5, <1>7, <1>8, <1>9, <1>10, <1>11

\* A thread ends without another look at the vault.
LEMMA LeaveStep ==
    ASSUME IInv, NEW h \in Threads, ReplaceFails(h) \/ Respond(h) \/ RespondFails(h) PROVE IInv'
<1> USE DEF IInv
<1>0. h \in Actors
  BY DEF Actors
<1>1. /\ pc' = [pc EXCEPT ![h] = "idle"] /\ view' = [view EXCEPT ![h] = {}]
      /\ job' = [job EXCEPT ![h] = Idle]
      /\ UNCHANGED <<file, torn, stale, expected, harmed, crashed>>
      /\ UNCHANGED <<ask, asked, requestFiles, poll, answers, approved, told, unheard>>
      /\ tmp' \in {tmp, Half}
  BY DEF ReplaceFails, Respond, RespondFails, ReplyStep, Finish, requestVars
<1>2. /\ pc'[h] = "idle" /\ job'[h] = Idle
      /\ \A a \in Actors \ {h} : pc'[a] = pc[a] /\ view'[a] = view[a]
      /\ \A t \in Threads \ {h} : t \in Actors /\ job'[t] = job[t]
  BY <1>0, <1>1 DEF TypeOK, Actors
<1>3. Places'
  <2>1. \A g \in Injectors : pc'[g] \in {"idle", "loaded", "open"}
    BY <1>2, VaultAssumption DEF Places, Actors
  <2> QED BY <1>2, <2>1 DEF Places
<1>4. FreshViews'
  BY <1>1, <1>2 DEF FreshViews, Busy
<1>5. VaultLosesOnlyToStaleWrites'
  <2>1. \A g \in Injectors : pc'[g] = pc[g]
    BY <1>2, VaultAssumption DEF Actors
  <2> QED BY <1>1, <2>1 DEF VaultLosesOnlyToStaleWrites
<1>6. OwnTmp'
  <2>1. \A k \in Threads : k # "half"
    BY VaultAssumption
  <2> QED BY <1>1, <1>2, <2>1 DEF OwnTmp, Changed, Half
<1>7. /\ reply' \in [Requests -> Content] /\ response' \in [Requests -> Content]
      /\ \A r \in Requests : "approved" \in {reply'[r], response'[r]} => r \in approved
  <2>1. CASE ReplaceFails(h)
    BY <2>1 DEF ReplaceFails, requestVars, TypeOK, Approved
  <2>2. CASE Respond(h) \/ RespondFails(h)
    <3>1. job[h].target \in Requests
      BY <2>2 DEF Respond, RespondFails, Places
    <3>2. CASE Respond(h)
      <4>1. /\ response' = [response EXCEPT ![job[h].target] = reply[job[h].target]]
            /\ reply' = [reply EXCEPT ![job[h].target] = None]
        BY <3>2 DEF Respond
      <4>2. reply[job[h].target] \in Content /\ None \in Content
        BY <3>1 DEF TypeOK, Content
      <4>3. reply' \in [Requests -> Content] /\ response' \in [Requests -> Content]
        BY <4>1, <4>2 DEF TypeOK
      <4> QED BY <3>1, <4>1, <4>3, VaultAssumption DEF TypeOK, Approved
    <3>3. CASE RespondFails(h)
      <4>1. /\ response' = response
            /\ reply' \in {reply, [reply EXCEPT ![job[h].target] = "half"]}
        BY <3>3 DEF RespondFails
      <4>2. reply' \in [Requests -> Content] /\ response' \in [Requests -> Content]
        BY <4>1 DEF TypeOK, Content
      <4> QED BY <3>1, <4>1, <4>2 DEF TypeOK, Approved
    <3> QED BY <2>2, <3>2, <3>3
  <2> QED BY <2>1, <2>2
<1>8. Approved'
  BY <1>1, <1>2, <1>7 DEF Approved, ValueNeedsApproval, Idle
<1>9. TypeOK'
  <2>1. Idle \in Ops
    BY DEF Ops
  <2>2. tmp' \in [by : Threads \cup {None, "half"}, vault : SUBSET Secrets]
    BY <1>1 DEF TypeOK, Half
  <2> QED BY <1>0, <1>1, <1>7, <2>1, <2>2 DEF TypeOK
<1> QED BY <1>3, <1>4, <1>5, <1>6, <1>8, <1>9

LEMMA WriteReplyStep ==
    ASSUME IInv, NEW h \in Threads, WriteReply(h) PROVE IInv'
<1> USE DEF IInv
<1>0. h \in Actors
  BY DEF Actors
<1>1. /\ pc[h] = "respond" /\ pc' = [pc EXCEPT ![h] = "answering"]
      /\ UNCHANGED <<file, torn, view, job, stale, expected, tmp, harmed, crashed>>
      /\ UNCHANGED <<ask, asked, requestFiles, response, poll, answers, approved, told, unheard>>
  BY DEF WriteReply, ReplyStep
<1>2. /\ pc'[h] = "answering" /\ \A a \in Actors \ {h} : pc'[a] = pc[a]
      /\ \A k \in Threads : k \in Actors
  BY <1>0, <1>1 DEF TypeOK, Actors
<1>3. job[h].target \in Requests
  BY <1>1 DEF Places
<1>4. PICK content \in {"approved", "denied", "half"} :
         /\ reply' = [reply EXCEPT ![job[h].target] = content]
         /\ content = "approved" => job[h].op = "approve"
  BY DEF WriteReply
<1>5. TypeOK'
  <2>1. reply' \in [Requests -> Content]
    BY <1>4 DEF TypeOK, Content, Answers
  <2> QED BY <1>0, <1>1, <2>1 DEF TypeOK
<1>6. \A g \in Injectors : pc'[g] = pc[g]
  BY <1>2, VaultAssumption DEF Actors
<1>7. Places'
  BY <1>1, <1>2, <1>6 DEF Places
<1>8. FreshViews' /\ VaultLosesOnlyToStaleWrites'
  BY <1>1, <1>2, <1>6 DEF FreshViews, Busy, VaultLosesOnlyToStaleWrites
<1>9. OwnTmp'
  BY <1>1, <1>2 DEF OwnTmp, Changed
<1>10. Approved'
  <2>1. \A r \in Requests : reply'[r] = "approved" => r \in approved
    BY <1>3, <1>4 DEF Approved, TypeOK
  <2> QED BY <1>1, <2>1 DEF Approved, ValueNeedsApproval
<1> QED BY <1>5, <1>7, <1>8, <1>9, <1>10

LEMMA ThreadStep == ASSUME IInv, NEW h \in Threads, Serve(h) PROVE IInv'
<1> USE DEF IInv
<1>1. ASSUME NEW s \in Secrets, Save(h, s) \/ Delete(h, s) PROVE IInv'
  <2>1. PICK op \in {"save", "delete"} : Take(h, [op |-> op, target |-> s])
    BY <1>1 DEF Save, Delete
  <2>2. [op |-> op, target |-> s] \in Ops
    BY DEF Ops
  <2>3. UNCHANGED <<requestVars, crashed>>
    BY <1>1 DEF Save, Delete
  <2>4. answers' \in [Requests -> 0..MaxAnswers]
    BY <2>3 DEF TypeOK, requestVars
  <2> QED BY <2>1, <2>2, <2>3, <2>4, TakeStep DEF requestVars, TypeOK
<1>2. ASSUME NEW r \in Requests, Approve(h, r) PROVE IInv'
  <2>1. [op |-> "approve", target |-> r] \in Ops
    BY DEF Ops
  <2>2. answers' \in [Requests -> 0..MaxAnswers]
    BY <1>2, VaultAssumption DEF Approve, CountAnswer, Answerable, TypeOK
  <2>3. approved' = approved \cup {r}
    BY <1>2 DEF Approve
  <2>4. Take(h, [op |-> "approve", target |-> r])
    BY <1>2 DEF Approve
  <2>5. UNCHANGED <<ask, asked, requestFiles, reply, response, poll, told, unheard, crashed>>
    BY <1>2 DEF Approve, CountAnswer
  <2> QED BY <2>1, <2>2, <2>3, <2>4, <2>5, TakeStep DEF TypeOK
<1>3. ASSUME NEW r \in Requests, Deny(h, r) PROVE IInv'
  <2>0. h \in Actors
    BY DEF Actors
  <2>1. [op |-> "deny", target |-> r] \in Ops
    BY DEF Ops
  <2>2. answers' \in [Requests -> 0..MaxAnswers]
    BY <1>3, VaultAssumption DEF Deny, CountAnswer, Answerable, TypeOK
  <2>3. TypeOK'
    BY <1>3, <2>0, <2>1, <2>2 DEF Deny, CountAnswer, TypeOK
  <2>4. /\ pc'[h] = "respond" /\ job'[h] = [op |-> "deny", target |-> r]
        /\ \A a \in Actors \ {h} : pc'[a] = pc[a]
        /\ view' = view
        /\ \A t \in Threads \ {h} : job'[t] = job[t]
    BY <1>3, <2>0 DEF Deny, TypeOK
  <2>5. Places'
    <3>1. \A g \in Injectors : pc'[g] \in {"idle", "loaded", "open"}
      BY <2>4, VaultAssumption DEF Places, Actors
    <3>2. \A t \in Threads \ {h} : pc'[t] = pc[t] /\ job'[t] = job[t]
      BY <2>4 DEF Actors
    <3> QED BY <2>4, <3>1, <3>2 DEF Places
  <2>6. FreshViews'
    BY <1>3, <2>4 DEF Deny, FreshViews, Busy
  <2>7. VaultLosesOnlyToStaleWrites'
    <3>1. \A g \in Injectors : pc'[g] = pc[g]
      BY <2>4, VaultAssumption DEF Actors
    <3> QED BY <1>3, <3>1 DEF Deny, VaultLosesOnlyToStaleWrites
  <2>8. OwnTmp'
    <3>1. tmp' = tmp
      BY <1>3 DEF Deny
    <3> QED BY <2>4, <3>1 DEF OwnTmp, Changed, Actors
  <2>9. Approved'
    <3>1. UNCHANGED <<reply, response, poll, approved, told>>
      BY <1>3 DEF Deny, CountAnswer
    <3> QED BY <2>4, <3>1 DEF Approved, ValueNeedsApproval
  <2> QED BY <2>3, <2>5, <2>6, <2>7, <2>8, <2>9
<1> QED BY <1>1, <1>2, <1>3, WriteTmpStep, ReplaceStep, LeaveStep, WriteReplyStep DEF Serve

-----------------------------------------------------------------------------
(* credential_value, and the end of the connector *)

LEMMA VaultKept ==
    ASSUME Places, FreshViews, OwnTmp, VaultLosesOnlyToStaleWrites, UNCHANGED vaultVars
    PROVE  Places' /\ FreshViews' /\ OwnTmp' /\ VaultLosesOnlyToStaleWrites'
BY DEF vaultVars, Places, FreshViews, OwnTmp, Changed, Busy, VaultLosesOnlyToStaleWrites

LEMMA AskStep ==
    ASSUME IInv, NEW r \in Requests, AskReturns(r) \/ \E s \in Secrets : Ask(r, s) PROVE IInv'
<1> USE DEF IInv
<1>1. ASSUME NEW s \in Secrets, Ask(r, s) PROVE IInv'
  <2>1. TypeOK'
    BY <1>1 DEF Ask, TypeOK, vaultVars
  <2> QED BY <1>1, <2>1, VaultKept, ApprovedKept DEF Ask, vaultVars
<1>2. CASE AskReturns(r)
  <2>0. response' \in [Requests -> Content] /\ ask' \in [Requests -> {"no", "written", "waiting", "lost"}]
    BY <1>2 DEF AskReturns, TypeOK, Content
  <2>1. TypeOK'
    BY <1>2, <2>0 DEF AskReturns, TypeOK, vaultVars
  <2>2. \A q \in Requests : response'[q] = "approved" => response[q] = "approved"
    BY <1>2, VaultAssumption DEF AskReturns, TypeOK
  <2>3. Approved'
    BY <1>2, <2>2 DEF AskReturns, Approved, ValueNeedsApproval, vaultVars
  <2> QED BY <1>2, <2>1, <2>3, VaultKept DEF AskReturns
<1> QED BY <1>1, <1>2

LEMMA PollStep == ASSUME IInv, NEW p \in Polls, Poll(p) PROVE IInv'
<1> USE DEF IInv
<1>0. UNCHANGED <<vaultVars, ask, asked, reply, answers, approved, crashed>>
  BY DEF Poll, PollReturns, PollReads, DropResponse, DropRequest, Step
<1>1. CASE PollReturns(p)
  <2>1. poll[p] # NoPoll /\ poll[p].request \in Requests /\ poll[p].answer \in Answers
    BY <1>1, Fields DEF PollReturns
  <2>2. TypeOK'
    <3>1. told' \in [Requests -> SUBSET Answers] /\ unheard' \subseteq Requests
      BY <1>1, <2>1 DEF PollReturns, TypeOK, Outcome
    <3> QED BY <1>1, <3>1 DEF PollReturns, TypeOK, vaultVars
  <2>3. \A q \in Polls : poll'[q] # NoPoll => poll'[q] = poll[q]
    BY <1>1 DEF PollReturns, TypeOK
  <2>4. \A r \in Requests : "approved" \in told'[r] =>
            "approved" \in told[r] \/ (r = poll[p].request /\ poll[p].answer = "approved")
    BY <1>1, <2>1 DEF PollReturns, TypeOK, Outcome
  <2>5. Approved'
    <3>1. UNCHANGED <<job, reply, response, approved>>
      BY <1>1 DEF PollReturns, vaultVars
    <3>2. \A r \in Requests : "approved" \in told'[r] => r \in approved
      BY <2>1, <2>4 DEF Approved, ValueNeedsApproval
    <3> QED BY <2>3, <3>1, <3>2 DEF Approved, ValueNeedsApproval
  <2> QED BY <1>0, <2>2, <2>5, VaultKept
<1>2. ASSUME NEW r \in Requests, PollReads(p, r) PROVE IInv'
  <2>1. response[r] \in Answers
    BY <1>2 DEF PollReads, HasAnswer, TypeOK
  <2>2. TypeOK'
    BY <1>2, <2>1 DEF PollReads, TypeOK, vaultVars
  <2>3. /\ poll'[p].request = r /\ poll'[p].answer = response[r]
        /\ \A q \in Polls \ {p} : poll'[q] = poll[q]
    BY <1>2 DEF PollReads, TypeOK
  <2>4. Approved'
    BY <1>2, <2>3 DEF PollReads, Approved, ValueNeedsApproval, vaultVars
  <2> QED BY <1>0, <2>2, <2>4, VaultKept
<1>3. ASSUME NEW r \in Requests, DropResponse(p, r) \/ DropRequest(p, r) PROVE IInv'
  <2>1. PICK to \in {"dropped", "returning"} : poll' = [poll EXCEPT ![p].pc = to]
    BY <1>3 DEF DropResponse, DropRequest, Step
  <2>2. poll[p].pc # "idle"
    BY <1>3 DEF DropResponse, DropRequest, Step
  <2>3. poll[p] # NoPoll /\ poll[p] \in [pc : {"got", "dropped", "returning"}, request : Requests, answer : Answers]
    BY <2>2, Fields DEF TypeOK
  <2>4. /\ poll'[p] \in [pc : {"got", "dropped", "returning"}, request : Requests, answer : Answers]
        /\ poll'[p].request = poll[p].request /\ poll'[p].answer = poll[p].answer
        /\ \A q \in Polls \ {p} : poll'[q] = poll[q]
    BY <2>1, <2>3 DEF TypeOK
  <2>5. poll' \in [Polls -> [pc : {"got", "dropped", "returning"}, request : Requests,
                             answer : Answers] \cup {NoPoll}]
    BY <2>1, <2>4 DEF TypeOK
  <2>6. /\ response' \in [Requests -> Content] /\ requestFiles' \subseteq Requests
        /\ told' = told /\ unheard' = unheard
        /\ \A q \in Requests : response'[q] = "approved" => response[q] = "approved"
    BY <1>3, VaultAssumption DEF DropResponse, DropRequest, Step, TypeOK, Content
  <2>7. TypeOK'
    BY <1>0, <2>5, <2>6 DEF TypeOK, vaultVars
  <2>8. Approved'
    <3>1. \A q \in Requests : "approved" \in {reply[q], response'[q]} => q \in approved
      BY <2>6 DEF Approved
    <3> QED BY <1>0, <2>3, <2>4, <2>6, <3>1 DEF Approved, ValueNeedsApproval, vaultVars
  <2> QED BY <1>0, <2>7, <2>8, VaultKept
<1> QED BY <1>1, <1>2, <1>3 DEF Poll

LEMMA CrashStep == ASSUME IInv, Crash PROVE IInv'
<1> USE DEF IInv
<1>1. TypeOK'
  BY DEF Crash, TypeOK, Actors
<1>2. Places'
  BY VaultAssumption DEF Crash, Places, Actors
<1>3. FreshViews'
  BY DEF Crash, FreshViews, Busy
<1>4. VaultLosesOnlyToStaleWrites'
  BY DEF Crash, VaultLosesOnlyToStaleWrites
<1>5. Approved'
  BY DEF Crash, Approved, ValueNeedsApproval
<1>6. OwnTmp'
  BY VaultAssumption DEF Crash, OwnTmp, Changed, Actors
<1> QED BY <1>1, <1>2, <1>3, <1>4, <1>5, <1>6

-----------------------------------------------------------------------------
LEMMA Inductive == IInv /\ [Next]_vars => IInv'
<1> SUFFICES ASSUME IInv, [Next]_vars PROVE IInv'
  OBVIOUS
<1>1. CASE UNCHANGED vars
  <2>1. TypeOK'
    BY <1>1 DEF IInv, TypeOK, vars, vaultVars, requestVars
  <2> QED BY <1>1, <2>1, VaultKept, ApprovedKept DEF IInv, vars, vaultVars, requestVars
<1>2. CASE Next
  BY <1>2, LoadStep, OpenStep, WriteStep, InjectFailsStep, ThreadStep, AskStep, PollStep, CrashStep DEF Next, Inject
<1> QED BY <1>1, <1>2

LEMMA Invariant == Spec => []IInv
BY Initially, Inductive, PTL DEF Spec

\* Vault, files, polls and threads keep their types, whoever writes last.
THEOREM TypeCorrect == Spec => []TypeOK
<1>1. IInv => TypeOK BY DEF IInv
<1> QED BY <1>1, Invariant, PTL

\* Connector and frontend share the vault without a lock, and what they lose is
\* lost to a write from a stale view, which a failed read makes stale as well, to
\* a temporary file two threads wrote at once, or to a write that died or failed
\* half-way, and to nothing else.
THEOREM NoOtherHarm == Spec => []VaultLosesOnlyToStaleWrites
<1>1. IInv => VaultLosesOnlyToStaleWrites BY DEF IInv
<1> QED BY <1>1, Invariant, PTL

\* No order of answers, polls, crashes and removed files hands out a value that
\* the user has not approved.
THEOREM ApprovedFirst == Spec => []ValueNeedsApproval
<1>1. IInv => ValueNeedsApproval BY DEF IInv, Approved
<1> QED BY <1>1, Invariant, PTL

\* A request file on its way out is in the hands of the poll that will tell.
Answerables == \A r \in Requests :
    ask[r] \in {"written", "waiting"} /\ told[r] = {} =>
        \/ r \in requestFiles \/ crashed \/ r \in unheard
        \/ \E p \in Polls : poll[p].request = r /\ poll[p].pc = "returning"

LEMMA PollAnswerables ==
    ASSUME IInv, Answerables, NEW p \in Polls, Poll(p) PROVE Answerables'
<1>0. UNCHANGED <<ask, crashed>>
  BY DEF Poll, PollReturns, PollReads, DropResponse, DropRequest, Step
<1>1. CASE PollReturns(p)
  <2>1. poll[p].request \in Requests /\ poll[p].answer \in Answers
    BY <1>1, Fields DEF IInv, PollReturns
  <2>2. /\ told'[poll[p].request] # {} \/ poll[p].request \in unheard'
        /\ requestFiles' = requestFiles /\ unheard \subseteq unheard'
        /\ \A r \in Requests : told[r] # {} => told'[r] # {}
        /\ \A q \in Polls \ {p} : poll'[q] = poll[q]
    <3>1. told \in [Requests -> SUBSET Answers] /\ poll = [q \in Polls |-> poll[q]]
      BY DEF IInv, TypeOK
    <3>2. CASE unheard' = unheard
      BY <1>1, <2>1, <3>1, <3>2 DEF PollReturns, Outcome
    <3>3. CASE unheard' = unheard \cup {poll[p].request} /\ told' = told
      BY <1>1, <3>1, <3>3 DEF PollReturns
    <3> QED BY <1>1, <3>2, <3>3 DEF PollReturns
  <2> QED BY <1>0, <2>1, <2>2 DEF Answerables
<1>2. ASSUME NEW r \in Requests, PollReads(p, r) \/ DropResponse(p, r) PROVE Answerables'
  <2>1. poll[p].pc # "returning" /\ UNCHANGED <<told, unheard, requestFiles>>
    BY <1>2 DEF PollReads, DropResponse, Step, NoPoll
  <2>2. \A q \in Polls \ {p} : poll'[q] = poll[q]
    BY <1>2 DEF PollReads, DropResponse, Step, IInv, TypeOK
  <2> QED BY <1>0, <2>1, <2>2 DEF Answerables
<1>3. ASSUME NEW r \in Requests, DropRequest(p, r) PROVE Answerables'
  <2>1. /\ poll[p].pc = "dropped" /\ poll[p].request = r
        /\ poll' = [poll EXCEPT ![p].pc = "returning"]
        /\ requestFiles \ {r} \subseteq requestFiles' /\ UNCHANGED <<told, unheard>>
    BY <1>3 DEF DropRequest, Step
  <2>2. poll[p] \in [pc : {"got", "dropped", "returning"}, request : Requests, answer : Answers]
    BY <2>1, Fields DEF IInv, TypeOK
  <2>3. poll'[p].pc = "returning" /\ poll'[p].request = r /\ \A q \in Polls \ {p} : poll'[q] = poll[q]
    BY <2>1, <2>2 DEF IInv, TypeOK
  <2> QED BY <1>0, <2>1, <2>3 DEF Answerables
<1> QED BY <1>1, <1>2, <1>3 DEF Poll

\* A request whose client does not know the outcome can be answered, whichever
\* polls of other requests, or of its own, run next to it.
THEOREM StillAnswerable == Spec => []UntoldCanBeAnswered
<1>1. Init => Answerables
  BY DEF Init, Answerables
<1>2. IInv /\ Answerables /\ [Next]_vars => Answerables'
  <2> SUFFICES ASSUME IInv, Answerables, [Next]_vars PROVE Answerables'
    OBVIOUS
  <2>1. CASE UNCHANGED <<ask, requestFiles, poll, told, unheard, crashed>>
    BY <2>1 DEF Answerables
  <2>2. CASE UNCHANGED vars
    BY <2>1, <2>2 DEF vars, requestVars
  <2>3. ASSUME NEW g \in Injectors, Inject(g) PROVE Answerables'
    BY <2>1, <2>3 DEF Inject, Load, OpenVault, WriteVault, InjectFails, requestVars
  <2>4. ASSUME NEW h \in Threads, Serve(h) PROVE Answerables'
    BY <2>1, <2>4 DEF Serve, Save, Delete, Approve, Deny, WriteTmp, Replace, ReplaceFails, WriteReply,
                      Respond, RespondFails, ReplyStep, CountAnswer, requestVars
  <2>5. ASSUME NEW r \in Requests, AskReturns(r) \/ \E s \in Secrets : Ask(r, s) PROVE Answerables'
    BY <2>5 DEF AskReturns, Ask, Answerables, IInv, TypeOK
  <2>6. CASE Crash
    BY <2>6 DEF Crash, Answerables
  <2> QED BY <2>2, <2>3, <2>4, <2>5, <2>6, PollAnswerables DEF Next
<1>3. Answerables => UntoldCanBeAnswered
  BY DEF Answerables, UntoldCanBeAnswered
<1> QED BY <1>1, <1>2, <1>3, Invariant, PTL DEF Spec

-----------------------------------------------------------------------------
(* The chat sessions, which the connector and the frontend share in the same *)
(* way: files without a lock. *)

\* What the connector holds in memory and how far its save has come.
Memory ==
    /\ ~up => mem = {} /\ touching = {}
    /\ up => created \ (markers \cup lost) \subseteq mem
    /\ saver # Resting => mem \ markers \subseteq saver.items \cup saver.todo
    /\ saver # Resting => saver.items \cap saver.todo = {}
    /\ saver # Resting => saver.items \cap saver.dead = {} /\ saver.dead \subseteq markers
    /\ saver.pc = "removed" => saver.todo = {}

\* Identifiers are given out once, and all come from session_create.
Given ==
    /\ mem \cup disk \cup created \cup failed \subseteq taken
    /\ frontend.pc = "read" => frontend.kept \subseteq taken
    /\ saver # Resting => saver.of \in taken \ failed

\* A session being created is nowhere but in memory.
Fresh ==
    saver # Resting /\ saver.op = "create" =>
        /\ saver.of \notin disk \cup created
        /\ frontend.pc = "read" => saver.of \notin frontend.kept
        /\ saver.of \notin mem => saver.of \in markers

\* Unless the file has changed since, the frontend is about to take out of it
\* the one session it has marked.
Deletion ==
    /\ frontend # Resting => frontend.of \in markers
    /\ frontend.pc = "read" /\ ~frontend.stale =>
          frontend.kept = disk \ {frontend.of} /\ saver.pc # "removed"

ChatIInv ==
    /\ ChatTypeOK /\ Memory /\ Given /\ Fresh /\ Deletion
    /\ OnlyKnownWaysLose /\ FailedCreateLeavesNothing

LEMMA ChatInitially == ChatInit => ChatIInv
BY DEF ChatInit, ChatIInv, ChatTypeOK, Memory, Given, Fresh, Deletion, OnlyKnownWaysLose,
       FailedCreateLeavesNothing, Resting

-----------------------------------------------------------------------------
\* What the type of the saver and of the frontend means for their fields.
LEMMA ChatFields ==
    ASSUME ChatTypeOK
    PROVE  /\ Resting.pc = "idle"
           /\ saver # Resting <=> saver.pc \in {"checking", "removed"}
           /\ saver # Resting => saver.of \in Sessions /\ saver.op \in {"create", "touch"}
           /\ frontend # Resting <=> frontend.pc \in {"marked", "read"}
           /\ frontend # Resting => frontend.of \in Sessions
BY DEF ChatTypeOK, Saves, Deletions, Resting

LEMMA SaverStep ==
    ASSUME ChatIInv, NEW s \in Sessions,
           Create(s) \/ Touch(s) \/ CheckMarker(s) \/ RemoveOld \/ Rename \/ SaveFails \/ RenameFails
    PROVE  ChatTypeOK'
<1> USE DEF connectorVars, Resting, Saves
<1>1. CASE Create(s)
  BY <1>1 DEF ChatIInv, ChatTypeOK, Create, SaveOf, Locked
<1>2. CASE Touch(s)
  BY <1>2 DEF ChatIInv, ChatTypeOK, Memory, Touch, SaveOf, Locked
<1>3. CASE CheckMarker(s)
  <2>1. saver \in Saves /\ s \in saver.todo
    BY <1>3 DEF ChatIInv, ChatTypeOK, CheckMarker
  <2>2. CASE s \in markers
    <3>1. saver' = [saver EXCEPT !.todo = @ \ {s}] /\ mem' = mem \ {s}
      BY <1>3, <2>2 DEF CheckMarker
    <3>2. s \notin saver.items
      BY <1>3 DEF ChatIInv, Memory, CheckMarker
    <3> QED BY <1>3, <2>1, <3>1, <3>2 DEF ChatIInv, ChatTypeOK, CheckMarker
  <2>3. CASE s \notin markers
    <3>1. saver' = [saver EXCEPT !.todo = @ \ {s}, !.items = @ \cup {s}] /\ mem' = mem
      BY <1>3, <2>3 DEF CheckMarker
    <3>2. PICK x \in Saves : x = saver
      BY <2>1
    <3>3. s \in Sessions /\ x.todo \subseteq Sessions /\ x.items \subseteq Sessions
      BY <3>2
    <3>4. saver' = [x EXCEPT !.todo = @ \ {s}, !.items = @ \cup {s}]
      BY <3>1, <3>2
    <3>5. saver' \in Saves /\ saver'.todo = x.todo \ {s} /\ saver'.items = x.items \cup {s}
      BY <3>3, <3>4
    <3>6. up /\ saver.todo \cup saver.items \subseteq mem /\ s \in mem
      BY <1>3, <2>1 DEF ChatIInv, ChatTypeOK, CheckMarker
    <3>7. up' /\ saver'.todo \cup saver'.items \subseteq mem'
      BY <1>3, <3>1, <3>2, <3>5, <3>6 DEF CheckMarker
    <3> QED BY <1>3, <3>1, <3>5, <3>7 DEF ChatIInv, ChatTypeOK, CheckMarker
  <2> QED BY <2>2, <2>3
<1>4. CASE RemoveOld
  <2>1. saver' \in Saves /\ saver'.todo \cup saver'.items \subseteq mem'
    BY <1>4 DEF ChatIInv, ChatTypeOK, RemoveOld
  <2>2. frontend' \in {Resting} \cup Deletions
    BY <1>4 DEF ChatIInv, ChatTypeOK, RemoveOld, FileChanged, Deletions
  <2> QED BY <1>4, <2>1, <2>2 DEF ChatIInv, ChatTypeOK, RemoveOld
<1>5. CASE Rename
  <2>1. saver \in Saves
    BY <1>5 DEF ChatIInv, ChatTypeOK, Rename
  <2>2. frontend' \in {Resting} \cup Deletions
    BY <1>5 DEF ChatIInv, ChatTypeOK, Rename, FileChanged, Deletions
  <2> QED BY <1>5, <2>1, <2>2 DEF ChatIInv, ChatTypeOK, Rename
<1>6. CASE SaveFails \/ RenameFails
  <2>1. saver \in Saves
    BY <1>6 DEF ChatIInv, ChatTypeOK, SaveFails, RenameFails
  <2> QED BY <1>6, <2>1 DEF ChatIInv, ChatTypeOK, SaveFails, RenameFails, Undo
<1> QED BY <1>1, <1>2, <1>3, <1>4, <1>5, <1>6

LEMMA TypeStep == ASSUME ChatIInv, [ChatNext]_chatVars PROVE ChatTypeOK'
<1> USE DEF connectorVars
<1>1. ASSUME NEW s \in Sessions, TouchCheck(s) \/ TouchDeleted(s) PROVE ChatTypeOK'
  BY <1>1 DEF ChatIInv, ChatTypeOK, TouchCheck, TouchDeleted, Locked
<1>2. CASE ListSessions
  BY <1>2 DEF ChatIInv, ChatTypeOK, ListSessions, Locked
<1>3. CASE ConnectorDies
  BY <1>3 DEF ChatIInv, ChatTypeOK, ConnectorDies
<1>4. CASE Restart
  BY <1>4 DEF ChatIInv, ChatTypeOK, Restart, Resting
<1>5. ASSUME NEW s \in Sessions, Mark(s) PROVE ChatTypeOK'
  BY <1>5 DEF ChatIInv, ChatTypeOK, Mark, Deletions
<1>6. CASE Read
  <2>1. frontend.of \in Sessions
    BY <1>6 DEF ChatIInv, ChatTypeOK, Read, Deletions, Resting
  <2>2. frontend' \in Deletions
    BY <1>6, <2>1 DEF ChatIInv, ChatTypeOK, Read, Deletions
  <2> QED BY <1>6, <2>2 DEF ChatIInv, ChatTypeOK, Read
<1>7. CASE Rewrite
  <2>1. frontend.kept \subseteq Sessions
    BY <1>7 DEF ChatIInv, ChatTypeOK, Rewrite, Deletions, Resting
  <2> QED BY <1>7, <2>1 DEF ChatIInv, ChatTypeOK, Rewrite
<1>8. CASE DeleteFails \/ UNCHANGED chatVars
  BY <1>8 DEF ChatIInv, ChatTypeOK, DeleteFails, chatVars
<1>9. CASE RemoveOld \/ Rename \/ SaveFails \/ RenameFails
  <2>1. saver.of \in Sessions
    BY <1>9, ChatFields DEF ChatIInv, RemoveOld, Rename, SaveFails, RenameFails
  <2> QED BY <1>9, <2>1, SaverStep
<1>10. ASSUME NEW s \in Sessions, Create(s) \/ Touch(s) \/ CheckMarker(s) PROVE ChatTypeOK'
  BY <1>10, SaverStep
<1> QED
  BY <1>1, <1>2, <1>3, <1>4, <1>5, <1>6, <1>7, <1>8, <1>9, <1>10 DEF ChatNext, Connector, Frontend

-----------------------------------------------------------------------------
ChatRest == Memory /\ Given /\ Fresh /\ Deletion /\ OnlyKnownWaysLose /\ FailedCreateLeavesNothing

LEMMA CallStep ==
    ASSUME ChatIInv, NEW s \in Sessions,
           Create(s) \/ TouchCheck(s) \/ TouchDeleted(s) \/ Touch(s) \/ CheckMarker(s)
    PROVE  ChatRest'
<1> USE ChatFields DEF ChatIInv, ChatRest, Memory, Given, Fresh, Deletion, OnlyKnownWaysLose, FailedCreateLeavesNothing
<1>1. CASE Create(s)
  BY <1>1 DEF Create, SaveOf, Locked, Resting
<1>2. CASE TouchCheck(s)
  BY <1>2 DEF TouchCheck
<1>3. CASE TouchDeleted(s)
  BY <1>3 DEF TouchDeleted, Locked
<1>4. CASE Touch(s)
  BY <1>4 DEF Touch, SaveOf, Locked, Resting
<1>5. CASE CheckMarker(s)
  <2>1. saver \in Saves /\ up
    BY <1>5 DEF ChatTypeOK, CheckMarker, Resting
  <2>2. /\ saver'.pc = "checking" /\ saver'.op = saver.op /\ saver'.of = saver.of
        /\ saver'.todo = saver.todo \ {s} /\ saver'.dead = saver.dead
        /\ s \in markers => mem' = mem \ {s} /\ saver'.items = saver.items
        /\ s \notin markers => mem' = mem /\ saver'.items = saver.items \cup {s}
    <3>1. PICK x \in Saves : x = saver
      BY <2>1
    <3>2. x.todo \in SUBSET Sessions /\ x.items \in SUBSET Sessions
      BY <3>1 DEF Saves
    <3>3. CASE s \in markers
      <4>1. mem' = mem \ {s} /\ saver' = [x EXCEPT !.todo = @ \ {s}]
        BY <1>5, <3>1, <3>3 DEF CheckMarker
      <4>2. x.pc = "checking"
        BY <1>5, <3>1 DEF CheckMarker
      <4> QED BY <3>1, <3>3, <4>1, <4>2 DEF Saves
    <3>4. CASE s \notin markers
      <4>1. mem' = mem /\ saver' = [x EXCEPT !.todo = @ \ {s}, !.items = @ \cup {s}]
        BY <1>5, <3>1, <3>4 DEF CheckMarker
      <4>2. x.pc = "checking"
        BY <1>5, <3>1 DEF CheckMarker
      <4> QED BY <3>1, <3>4, <4>1, <4>2 DEF Saves
    <3> QED BY <3>3, <3>4
  <2> QED BY <1>5, <2>1, <2>2 DEF CheckMarker, Resting
<1> QED BY <1>1, <1>2, <1>3, <1>4, <1>5

LEMMA SaveStep ==
    ASSUME ChatIInv, RemoveOld \/ Rename \/ SaveFails \/ RenameFails
    PROVE  ChatRest'
<1> USE ChatFields DEF ChatIInv, ChatRest, Memory, Given, Fresh, Deletion, OnlyKnownWaysLose, FailedCreateLeavesNothing
<1>1. saver \in Saves /\ up /\ saver.items \subseteq mem
  BY DEF ChatTypeOK, RemoveOld, Rename, SaveFails, RenameFails, Resting
<1>2. CASE RemoveOld
  <2>1. /\ saver'.pc = "removed" /\ saver'.op = saver.op /\ saver'.of = saver.of
        /\ saver'.todo = {} /\ saver'.items = saver.items /\ saver'.dead = saver.dead /\ saver' # Resting
    BY <1>1, <1>2 DEF RemoveOld, Saves, Resting
  <2>2. /\ frontend.pc # "read" => frontend' = frontend
        /\ frontend.pc = "read" => frontend'.pc = "read" /\ frontend'.of = frontend.of
                                   /\ frontend'.kept = frontend.kept /\ frontend'.stale
    BY <1>2 DEF RemoveOld, FileChanged, ChatTypeOK, Deletions, Resting
  <2> QED BY <1>1, <1>2, <2>1, <2>2 DEF RemoveOld
<1>3. CASE Rename
  <2>1. /\ frontend.pc # "read" => frontend' = frontend
        /\ frontend.pc = "read" => frontend'.pc = "read" /\ frontend'.of = frontend.of
                                   /\ frontend'.kept = frontend.kept /\ frontend'.stale
    BY <1>3 DEF Rename, FileChanged, ChatTypeOK, Deletions, Resting
  <2> QED BY <1>1, <1>3, <2>1 DEF Rename, Resting
<1>4. CASE SaveFails
  BY <1>1, <1>4 DEF SaveFails, Undo, Resting
<1>5. CASE RenameFails
  BY <1>1, <1>5 DEF RenameFails, Undo, Resting
<1> QED BY <1>2, <1>3, <1>4, <1>5

LEMMA OtherStep ==
    ASSUME ChatIInv, ListSessions \/ ConnectorDies \/ Restart \/ UNCHANGED chatVars
    PROVE  ChatRest'
<1> USE ChatFields DEF ChatIInv, ChatRest, Memory, Given, Fresh, Deletion, OnlyKnownWaysLose, FailedCreateLeavesNothing
<1>1. CASE ListSessions
  BY <1>1 DEF ListSessions, Locked, Resting
<1>2. CASE ConnectorDies
  BY <1>2 DEF ConnectorDies, Resting
<1>3. CASE Restart
  BY <1>3 DEF Restart, ChatTypeOK
<1>4. CASE UNCHANGED chatVars
  BY <1>4 DEF chatVars, connectorVars
<1> QED BY <1>1, <1>2, <1>3, <1>4

LEMMA FrontendStep == ASSUME ChatIInv, Frontend PROVE ChatRest'
<1> USE ChatFields DEF ChatIInv, ChatRest, Memory, Given, Fresh, Deletion, OnlyKnownWaysLose, FailedCreateLeavesNothing, connectorVars
<1>1. ASSUME NEW s \in Sessions, Mark(s) PROVE ChatRest'
  BY <1>1 DEF Mark, Resting
<1>2. CASE Read
  <2>1. PICK seen \in {disk, {}} :
          frontend' = [pc |-> "read", of |-> frontend.of, kept |-> seen \ {frontend.of},
                       stale |-> saver.pc = "removed" \/ seen # disk]
    BY <1>2 DEF Read
  <2>2. /\ frontend'.pc = "read" /\ frontend'.of = frontend.of /\ frontend' # Resting
        /\ frontend'.kept = seen \ {frontend.of} /\ frontend'.kept \subseteq disk
        /\ ~frontend'.stale => seen = disk /\ saver.pc # "removed"
    BY <2>1, Zenon DEF Resting
  <2>3. UNCHANGED <<up, mem, touching, saver, taken, disk, markers, created, failed, lost>>
    BY <1>2 DEF Read
  <2>4. frontend # Resting
    BY <1>2 DEF Read, Resting
  <2> QED BY <2>2, <2>3, <2>4
<1>3. CASE Rewrite
  BY <1>3 DEF Rewrite, Resting
<1>4. CASE DeleteFails
  BY <1>4 DEF DeleteFails, Resting
<1> QED BY <1>1, <1>2, <1>3, <1>4 DEF Frontend

LEMMA ChatInductive == ChatIInv /\ [ChatNext]_chatVars => ChatIInv'
<1> SUFFICES ASSUME ChatIInv, [ChatNext]_chatVars PROVE ChatIInv'
  OBVIOUS
<1>1. ChatRest'
  BY CallStep, SaveStep, OtherStep, FrontendStep DEF ChatNext, Connector
<1> QED BY <1>1, TypeStep DEF ChatIInv, ChatRest

-----------------------------------------------------------------------------
\* There are five ways to lose a session, and no sixth: whatever the client was
\* told of is in sessions.json between two saves, unless it was deleted, a save
\* was cut between its removal and its rename by a crash or an error, the
\* frontend wrote back what it had read before a save or could not read, or the
\* connector could not read the file at its start.
THEOREM NoOtherLoss == ChatSpec => []OnlyKnownWaysLose
<1>1. ChatIInv => OnlyKnownWaysLose
  BY DEF ChatIInv
<1> QED BY ChatInitially, ChatInductive, <1>1, PTL DEF ChatSpec

\* An error of session_create means that there is no session.
THEOREM NoTrace == ChatSpec => []FailedCreateLeavesNothing
<1>1. ChatIInv => FailedCreateLeavesNothing
  BY DEF ChatIInv
<1> QED BY ChatInitially, ChatInductive, <1>1, PTL DEF ChatSpec

\* The connector forgets no live session while it runs.
THEOREM NeverForgotten == ChatSpec => MemoryKeepsLive
<1> DEFINE Keeps == \A s \in mem : up' /\ s \notin mem' =>
                       s \in markers \/ (saver # Resting /\ saver.op = "create" /\ saver.of = s)
<1>1. ChatIInv /\ [ChatNext]_chatVars => [Keeps]_chatVars
  <2> SUFFICES ASSUME ChatIInv, ChatNext, NEW s \in mem, up', s \notin mem', s \notin markers
               PROVE  saver # Resting /\ saver.op = "create" /\ saver.of = s
    BY Zenon
  <2>1. CASE \E r \in Sessions : Create(r) \/ TouchCheck(r) \/ TouchDeleted(r) \/ Touch(r) \/ CheckMarker(r)
    BY <2>1 DEF Create, TouchCheck, TouchDeleted, Touch, CheckMarker
  <2>2. CASE RemoveOld \/ Rename \/ ListSessions \/ ConnectorDies
    BY <2>2 DEF RemoveOld, Rename, ListSessions, ConnectorDies
  <2>3. CASE SaveFails \/ RenameFails
    BY <2>3, ChatFields DEF ChatIInv, SaveFails, RenameFails, Undo
  <2>4. CASE Restart
    BY <2>4 DEF ChatIInv, Memory, Restart
  <2>5. CASE Frontend
    BY <2>5 DEF Frontend, Mark, Read, Rewrite, DeleteFails, connectorVars
  <2> QED BY <2>1, <2>2, <2>3, <2>4, <2>5 DEF ChatNext, Connector
<1> QED BY ChatInitially, ChatInductive, <1>1, PTL DEF ChatSpec, MemoryKeepsLive

\* A finished save has written every live session, whatever went on around it,
\* and none that was deleted before it began.
THEOREM SaveExact == ChatSpec => SaveIsExact
<1>1. ChatIInv /\ [ChatNext]_chatVars => [Rename => mem \ markers \subseteq disk' /\ disk' \cap saver.dead = {}]_chatVars
  BY ChatFields DEF ChatIInv, Memory, Rename
<1> QED BY ChatInitially, ChatInductive, <1>1, PTL DEF ChatSpec, SaveIsExact

\* The types of every variable; while a save goes through the map, what it has
\* yet to look up or to write stays in the map.
THEOREM ChatTypeCorrect == ChatSpec => []ChatTypeOK
<1>1. ChatIInv => ChatTypeOK
  BY DEF ChatIInv
<1> QED BY ChatInitially, ChatInductive, <1>1, PTL DEF ChatSpec

-----------------------------------------------------------------------------
(* The event log, which the connector writes and rotates and the frontend *)
(* follows. *)

\* Output passes a waiting lifecycle event only in the select that the event was
\* too late for, after which the loop comes back to the select with a default.
Flood ==
    /\ overtaken \in Nat /\ FloodOvertakesOnce
    /\ overtaken = 1 => logger = "first" /\ queue # <<>>

Row == [kind : Life \cup {"stream", "dropped"}, call : Calls \cup {Nothing},
        stream : Streams \cup {Nothing}, texts : Seq(Nat), count : Nat]

\* LogTypeOK without its bounds on how many events and lines there can be.
LogTypes ==
    /\ call \in [Calls -> {"new", "running", "yielded", "returned", "killed"}]
    /\ chunks \in [Keys -> Nat]
    /\ queue \in Seq(Life \X Calls) /\ streamQueue \in Seq(Keys \X Nat)
    /\ pending \in [Keys -> [texts : Seq(Nat), count : Nat]]
    /\ journal \in Seq(Row) /\ dropped \in Nat
    /\ viewer \in [at : Nat, shown : Seq(Row)]

LEMMA FloodInvariant == LogSpec => []Flood
<1>1. LogInit => Flood
  BY DEF LogInit, Flood, FloodOvertakesOnce
<1>2. Flood /\ [LogNext]_logVars => Flood'
  <2> SUFFICES ASSUME Flood, [LogNext]_logVars PROVE Flood'
    OBVIOUS
  <2>1. CASE overtaken' = 0
    BY <2>1 DEF Flood, FloodOvertakesOnce
  <2>2. CASE overtaken' = overtaken /\ logger' = logger /\ (queue # <<>> => queue' # <<>>)
    BY <2>2 DEF Flood, FloodOvertakesOnce
  <2>3. ASSUME NEW kind, NEW c, EmitLife(kind, c)
        PROVE  overtaken' = overtaken /\ logger' = logger /\ (queue # <<>> => queue' # <<>>)
    BY <2>3 DEF EmitLife
  <2>4. ASSUME NEW k \in Keys, Output(k) PROVE Flood'
    BY <2>2, <2>4 DEF Output, EmitStream
  <2>5. ASSUME NEW c \in Calls, Start(c) \/ Succeed(c) \/ Yield(c) PROVE Flood'
    BY <2>2, <2>3, <2>5 DEF Start, Succeed, Yield
  <2>6. ASSUME NEW c \in Calls, End(c) PROVE Flood'
    BY <2>2, <2>6 DEF End, loggerVars
  <2>7. CASE Logging(First)
    <3>1. CASE queue # <<>>
      BY <2>1, <2>7, <3>1 DEF Logging, First, WriteHead
    <3>2. CASE queue = <<>>
      BY <2>1, <2>7, <3>2 DEF Logging, First, Flood, FloodOvertakesOnce
    <3> QED BY <3>1, <3>2
  <2>8. CASE Logging(SelectLife)
    BY <2>1, <2>8 DEF Logging, SelectLife, WriteHead
  <2>9. CASE Logging(SelectStream)
    BY <2>9 DEF Logging, SelectStream, TakeStream, Flood, FloodOvertakesOnce
  <2>10. CASE Logging(SelectTick)
    BY <2>10 DEF Logging, SelectTick, Flood, FloodOvertakesOnce
  <2>11. CASE Logging(FlushOne)
    BY <2>2, <2>11 DEF Logging, FlushOne
  <2>12. CASE Logging(Report)
    BY <2>12 DEF Logging, Report, Flood, FloodOvertakesOnce
  <2>13. CASE NewConnector
    BY <2>1, <2>13 DEF NewConnector
  <2>14. CASE Follow \/ UNCHANGED logVars
    BY <2>2, <2>14 DEF Follow, loggerVars, logVars
  <2> QED BY <2>4, <2>5, <2>6, <2>7, <2>8, <2>9, <2>10, <2>11, <2>12, <2>13, <2>14 DEF LogNext, Loop
<1> QED BY <1>1, <1>2, PTL DEF LogSpec

\* While a lifecycle event waits, Logger.run takes at most one more piece of
\* output, whatever the capacity of the queues and however much is printed.
THEOREM NoFlood == LogSpec => []FloodOvertakesOnce
<1>1. Flood => FloodOvertakesOnce BY DEF Flood
<1> QED BY <1>1, FloodInvariant, PTL

-----------------------------------------------------------------------------
(* The order of what a viewer is shown *)

\* Commands that have reached the point where an event of this kind is logged.
Reached(kind, c) == call[c] # "new" /\ (kind # "started" => call[c] \notin {"new", "running"})

\* In the queues and batches all is in order: a command starts before it ends,
\* and the chunks of a stream are numbered as they came.
Waiting ==
    /\ \A i \in DOMAIN queue : Reached(queue[i][1], queue[i][2])
    /\ \A i, j \in DOMAIN queue : i < j /\ queue[i][2] = queue[j][2] =>
         queue[i][1] = "started" /\ queue[j][1] # "started"
    /\ \A i \in DOMAIN streamQueue : streamQueue[i][2] <= chunks[streamQueue[i][1]]
    /\ \A i, j \in DOMAIN streamQueue : i < j /\ streamQueue[i][1] = streamQueue[j][1] =>
         streamQueue[i][2] < streamQueue[j][2]
    /\ \A k \in Keys : Rising(pending[k].texts)
         /\ \A m \in DOMAIN pending[k].texts :
              /\ pending[k].texts[m] <= chunks[k]
              /\ \A i \in DOMAIN streamQueue :
                   streamQueue[i][1] = k => pending[k].texts[m] < streamQueue[i][2]

\* A line that is written lies before everything that still waits.
LifePast(x) == x.kind \in Life =>
    /\ x.call \in Calls /\ Reached(x.kind, x.call)
    /\ \A i \in DOMAIN queue : queue[i][2] = x.call => x.kind = "started" /\ queue[i][1] # "started"
TextPast(x) ==
    /\ Rising(x.texts)
    /\ <<x.call, x.stream>> \notin Keys => DOMAIN x.texts = {}
    /\ \A k \in Keys, m \in DOMAIN x.texts : <<x.call, x.stream>> = k =>
         /\ x.texts[m] <= chunks[k]
         /\ \A n \in DOMAIN pending[k].texts : x.texts[m] < pending[k].texts[n]
         /\ \A i \in DOMAIN streamQueue : streamQueue[i][1] = k => x.texts[m] < streamQueue[i][2]
Past(x) == LifePast(x) /\ TextPast(x)

\* The lines of the file are in order, those a viewer was shown are, and come
\* before those that it will be shown.
Trail ==
    /\ \A i \in DOMAIN journal : Past(journal[i])
    /\ \A i \in DOMAIN viewer.shown : Past(viewer.shown[i])
    /\ \A i, j \in DOMAIN journal : i < j => InOrder(journal[i], journal[j])
    /\ \A i, j \in DOMAIN viewer.shown : i < j => InOrder(viewer.shown[i], viewer.shown[j])
    /\ \A i \in DOMAIN viewer.shown, j \in DOMAIN journal : j > From => InOrder(viewer.shown[i], journal[j])

OrderInv == LogTypes /\ Waiting /\ Trail

LEMMA TailOf ==
    ASSUME NEW S, NEW s \in Seq(S), s # <<>>
    PROVE  /\ Head(s) = s[1] /\ 1 \in DOMAIN s /\ Head(s) \in S
           /\ Tail(s) \in Seq(S)
           /\ \A i \in DOMAIN Tail(s) : i + 1 \in DOMAIN s /\ Tail(s)[i] = s[i + 1] /\ 1 < i + 1
  BY HeadTailProperties

LEMMA AppendOf ==
    ASSUME NEW S, NEW s \in Seq(S), NEW e \in S
    PROVE  /\ Append(s, e) \in Seq(S)
           /\ \A i \in DOMAIN Append(s, e) : (i \in DOMAIN s /\ Append(s, e)[i] = s[i])
                                             \/ (i = Len(s) + 1 /\ Append(s, e)[i] = e)
           /\ \A i \in DOMAIN s : i < Len(s) + 1
  OBVIOUS

LEMMA ConcatOf ==
    ASSUME NEW S, NEW s \in Seq(S), NEW t \in Seq(S)
    PROVE  /\ s \o t \in Seq(S)
           /\ \A i \in DOMAIN (s \o t) : \/ i \in DOMAIN s /\ (s \o t)[i] = s[i]
                                        \/ /\ i > Len(s) /\ i - Len(s) \in 1..Len(t)
                                           /\ (s \o t)[i] = t[i - Len(s)]
<1>1. Len(s) \in Nat /\ Len(t) \in Nat /\ DOMAIN s = 1..Len(s)
  OBVIOUS
<1>2. /\ s \o t \in Seq(S) /\ DOMAIN (s \o t) = 1..Len(s) + Len(t)
      /\ \A i \in 1..Len(s) + Len(t) : (s \o t)[i] = IF i <= Len(s) THEN s[i] ELSE t[i - Len(s)]
  BY ConcatProperties
<1>3. ASSUME NEW i \in 1..Len(s) + Len(t)
      PROVE  \/ i \in DOMAIN s /\ (s \o t)[i] = s[i]
             \/ i > Len(s) /\ i - Len(s) \in 1..Len(t) /\ (s \o t)[i] = t[i - Len(s)]
  <2>1. CASE i <= Len(s)
    BY <1>1, <1>2, <2>1
  <2>2. CASE i > Len(s)
    BY <1>1, <1>2, <2>2
  <2> QED BY <1>1, <2>1, <2>2
<1> QED BY <1>2, <1>3

LEMMA RisingAppend ==
    ASSUME NEW s \in Seq(Nat), NEW n \in Nat, Rising(s), \A m \in DOMAIN s : s[m] < n
    PROVE  Rising(Append(s, n))
  BY DEF Rising

\* The effects of logging on the queues.
LEMMA LifeLogged ==
    ASSUME LogTypes, NEW kind \in Life, NEW c \in Calls, EmitLife(kind, c)
    PROVE  /\ queue' = queue \/ queue' = Append(queue, <<kind, c>>)
           /\ queue' \in Seq(Life \X Calls) /\ dropped' \in Nat
           /\ \A i \in DOMAIN queue' : (i \in DOMAIN queue /\ queue'[i] = queue[i])
                \/ (i = Len(queue) + 1 /\ queue'[i] = <<kind, c>>)
           /\ \A i \in DOMAIN queue : i < Len(queue) + 1
           /\ UNCHANGED <<streamQueue, pending, journal>>
<1>1. <<kind, c>> \in Life \X Calls
  OBVIOUS
<1>2. queue' = queue \/ queue' = Append(queue, <<kind, c>>)
  BY DEF EmitLife
<1>3. dropped' \in Nat /\ UNCHANGED <<streamQueue, pending, journal>>
  BY DEF EmitLife, Refused, LogTypes
<1>4. queue \in Seq(Life \X Calls)
  BY DEF LogTypes
<1>5. CASE queue' = queue
  BY <1>3, <1>4, <1>5
<1>6. CASE queue' = Append(queue, <<kind, c>>)
  <2> DEFINE e == <<kind, c>>
  <2> HIDE DEF e
  <2>1. /\ e \in Life \X Calls /\ queue' = Append(queue, e)
    BY <1>1, <1>6 DEF e
  <2>2. /\ queue' \in Seq(Life \X Calls)
        /\ \A i \in DOMAIN queue' : (i \in DOMAIN queue /\ queue'[i] = queue[i])
                \/ (i = Len(queue) + 1 /\ queue'[i] = e)
        /\ \A i \in DOMAIN queue : i < Len(queue) + 1
    BY <1>4, <2>1, AppendOf
  <2> QED BY <1>3, <1>6, <2>2 DEF e
<1> QED BY <1>2, <1>5, <1>6

\* The events of a call wait in the order in which it logs them.
LEMMA LifeInOrder ==
    ASSUME LogTypes, Waiting, NEW kind \in Life, NEW c \in Calls, EmitLife(kind, c),
           call' = [call EXCEPT ![c] = call'[c]], chunks' = chunks,
           kind = "started" => call[c] = "new" /\ call'[c] = "running",
           kind # "started" => call[c] = "running" /\ call'[c] \notin {"new", "running"}
    PROVE  Waiting' /\ \A x \in Row : Past(x) => Past(x)'
<1>1. \A d \in Calls, k \in Life : Reached(k, d) => Reached(k, d)' /\ (d = c => k = "started" /\ kind # "started")
  BY DEF Reached, LogTypes
<1>2. Reached(kind, c)'
  BY DEF Reached
<1>3. \A i \in DOMAIN queue : queue[i][1] \in Life /\ queue[i][2] \in Calls
  BY DEF LogTypes
<1>4. \A i \in DOMAIN queue', k \in Life, d \in Calls : queue'[i] = <<k, d>> => Reached(k, d)'
  <2> SUFFICES ASSUME NEW i \in DOMAIN queue', NEW k \in Life, NEW d \in Calls, queue'[i] = <<k, d>>
               PROVE  Reached(k, d)'
    OBVIOUS
  <2>1. CASE i \in DOMAIN queue /\ queue'[i] = queue[i]
    BY <1>1, <2>1 DEF Waiting
  <2>2. CASE queue'[i] = <<kind, c>>
    BY <1>2, <2>2
  <2> QED BY <2>1, <2>2, LifeLogged
<1>5. \A i, j \in DOMAIN queue' : i < j /\ queue'[i][2] = queue'[j][2] =>
        queue'[i][1] = "started" /\ queue'[j][1] # "started"
  <2> SUFFICES ASSUME NEW i \in DOMAIN queue', NEW j \in DOMAIN queue', i < j, queue'[i][2] = queue'[j][2]
               PROVE  queue'[i][1] = "started" /\ queue'[j][1] # "started"
    OBVIOUS
  <2>1. i \in DOMAIN queue /\ queue'[i] = queue[i]
    BY LifeLogged DEF LogTypes
  <2>2. CASE j \in DOMAIN queue /\ queue'[j] = queue[j]
    BY <2>1, <2>2 DEF Waiting
  <2>3. CASE queue'[j] = <<kind, c>>
    BY <1>1, <1>3, <2>1, <2>3 DEF Waiting
  <2> QED BY <2>2, <2>3, LifeLogged
<1>6. /\ streamQueue' = streamQueue /\ pending' = pending
      /\ \A i \in DOMAIN queue' : (i \in DOMAIN queue /\ queue'[i] = queue[i]) \/ queue'[i] = <<kind, c>>
  BY LifeLogged
<1>7. \A i \in DOMAIN queue' : queue'[i] = <<queue'[i][1], queue'[i][2]>>
                                /\ queue'[i][1] \in Life /\ queue'[i][2] \in Calls
  BY LifeLogged
<1>8. \A i \in DOMAIN queue' : call'[queue'[i][2]] # "new"
        /\ (queue'[i][1] # "started" => call'[queue'[i][2]] \notin {"new", "running"})
  BY <1>4, <1>7 DEF Reached
<1>9. Waiting'
  BY <1>5, <1>6, <1>8 DEF Waiting, Reached
<1>10. ASSUME NEW x \in Row, Past(x) PROVE Past(x)'
  <2>1. TextPast(x)'
    BY <1>6, <1>10 DEF Past, TextPast
  <2>2. ASSUME x.kind \in Life, NEW i \in DOMAIN queue', queue'[i][2] = x.call
        PROVE  x.kind = "started" /\ queue'[i][1] # "started"
    <3>1. CASE i \in DOMAIN queue /\ queue'[i] = queue[i]
      BY <1>10, <2>2, <3>1 DEF Past, LifePast
    <3>2. CASE queue'[i] = <<kind, c>>
      BY <1>1, <1>10, <2>2, <3>2 DEF Past, LifePast
    <3> QED BY <1>6, <3>1, <3>2
  <2>3. x.kind \in Life => x.call \in Calls /\ Reached(x.kind, x.call)'
    BY <1>1, <1>10 DEF Past, LifePast
  <2>4. LifePast(x)'
    BY <2>2, <2>3 DEF LifePast
  <2> QED BY <2>1, <2>4 DEF Past
<1> QED BY <1>9, <1>10

LEMMA OutputInOrder ==
    ASSUME LogTypes, Waiting, NEW k \in Keys, Output(k)
    PROVE  Waiting' /\ \A x \in Row : Past(x) => Past(x)'
<1> DEFINE n == chunks[k] + 1
           e == <<k, n>>
<1>1. /\ call' = call /\ queue' = queue /\ pending' = pending
      /\ chunks' = [chunks EXCEPT ![k] = n] /\ e \in Keys \X Nat /\ n \in Nat
      /\ streamQueue' = streamQueue \/ streamQueue' = Append(streamQueue, e)
  <2>1. /\ call' = call /\ queue' = queue /\ pending' = pending
        /\ streamQueue' = streamQueue \/ streamQueue' = Append(streamQueue, e)
    BY DEF Output, EmitStream
  <2>2. chunks' = [chunks EXCEPT ![k] = n]
    BY DEF Output
  <2>3. chunks[k] \in Nat
    BY DEF LogTypes
  <2> QED BY <2>1, <2>2, <2>3
<1>2. \A l \in Keys : chunks[l] \in Nat /\ chunks'[l] \in Nat /\ chunks[l] <= chunks'[l]
        /\ (l = k => chunks[l] < n /\ chunks'[l] = n)
  BY <1>1 DEF LogTypes
<1>3. e[1] = k /\ e[2] = n
  OBVIOUS
<1> HIDE DEF n, e
<1>4. /\ \A i \in DOMAIN streamQueue' : (i \in DOMAIN streamQueue /\ streamQueue'[i] = streamQueue[i])
                \/ (i = Len(streamQueue) + 1 /\ streamQueue'[i] = e)
      /\ \A i \in DOMAIN streamQueue : i < Len(streamQueue) + 1
      /\ DOMAIN streamQueue' \subseteq Nat /\ Len(streamQueue) \in Nat
  <2>1. streamQueue \in Seq(Keys \X Nat)
    BY DEF LogTypes
  <2>2. CASE streamQueue' = streamQueue
    BY <2>1, <2>2
  <2>3. CASE streamQueue' = Append(streamQueue, e)
    BY <1>1, <2>1, <2>3, AppendOf
  <2> QED BY <1>1, <2>2, <2>3
<1>5. \A i \in DOMAIN streamQueue : streamQueue[i][1] \in Keys /\ streamQueue[i][2] \in Nat
  <2>1. streamQueue \in Seq(Keys \X Nat)
    BY DEF LogTypes
  <2> QED BY <2>1
<1>6. \A i \in DOMAIN streamQueue' : streamQueue'[i][2] <= chunks'[streamQueue'[i][1]]
  BY <1>2, <1>3, <1>4, <1>5 DEF Waiting
<1>7. \A i, j \in DOMAIN streamQueue' : i < j /\ streamQueue'[i][1] = streamQueue'[j][1] =>
        streamQueue'[i][2] < streamQueue'[j][2]
  <2> SUFFICES ASSUME NEW i \in DOMAIN streamQueue', NEW j \in DOMAIN streamQueue', i < j,
                      streamQueue'[i][1] = streamQueue'[j][1]
               PROVE  streamQueue'[i][2] < streamQueue'[j][2]
    OBVIOUS
  <2>1. i \in DOMAIN streamQueue /\ streamQueue'[i] = streamQueue[i]
    BY <1>4
  <2>2. CASE j \in DOMAIN streamQueue /\ streamQueue'[j] = streamQueue[j]
    BY <2>1, <2>2 DEF Waiting
  <2>3. CASE streamQueue'[j] = e
    <3>1. streamQueue[i][1] = k /\ streamQueue[i][2] <= chunks[k]
      BY <1>3, <2>1, <2>3 DEF Waiting
    <3> QED BY <1>1, <1>2, <1>3, <1>5, <2>1, <2>3, <3>1
  <2> QED BY <1>4, <2>2, <2>3
<1>8. ASSUME NEW l \in Keys, NEW t \in Nat, t <= chunks[l],
             \A i \in DOMAIN streamQueue : streamQueue[i][1] = l => t < streamQueue[i][2]
      PROVE  t <= chunks'[l] /\ \A i \in DOMAIN streamQueue' : streamQueue'[i][1] = l => t < streamQueue'[i][2]
  BY <1>1, <1>2, <1>3, <1>4, <1>8
<1>9. Waiting'
  <2>1. \A l \in Keys : Rising(pending[l].texts) /\ \A m \in DOMAIN pending[l].texts :
          /\ pending[l].texts[m] <= chunks'[l]
          /\ \A i \in DOMAIN streamQueue' : streamQueue'[i][1] = l => pending[l].texts[m] < streamQueue'[i][2]
    <3> SUFFICES ASSUME NEW l \in Keys, NEW m \in DOMAIN pending[l].texts
                 PROVE  /\ pending[l].texts[m] <= chunks'[l]
                        /\ \A i \in DOMAIN streamQueue' :
                             streamQueue'[i][1] = l => pending[l].texts[m] < streamQueue'[i][2]
      BY DEF Waiting
    <3>1. pending[l].texts[m] \in Nat
      BY DEF LogTypes
    <3> QED BY <1>8, <3>1 DEF Waiting
  <2> QED BY <1>1, <1>6, <1>7, <2>1 DEF Waiting, Reached
<1>10. ASSUME NEW x \in Row, Past(x) PROVE Past(x)'
  <2>1. LifePast(x)'
    BY <1>1, <1>10 DEF Past, LifePast, Reached
  <2>2. \A m \in DOMAIN x.texts : x.texts[m] \in Nat
    BY DEF Row
  <2>3. TextPast(x)'
    BY <1>1, <1>8, <1>10, <2>2 DEF Past, TextPast
  <2> QED BY <2>1, <2>3 DEF Past
<1> QED BY <1>9, <1>10

LEMMA TakeInOrder ==
    ASSUME LogTypes, Waiting, TakeStream, UNCHANGED <<call, chunks>>
    PROVE  /\ Waiting' /\ \A x \in Row : Past(x) => Past(x)'
           /\ streamQueue' \in Seq(Keys \X Nat)
           /\ pending' \in [Keys -> [texts : Seq(Nat), count : Nat]]
<1> DEFINE k == Head(streamQueue)[1]
           n == Head(streamQueue)[2]
<1>1. /\ streamQueue \in Seq(Keys \X Nat) /\ streamQueue # <<>> /\ streamQueue' = Tail(streamQueue)
      /\ queue' = queue /\ pending' = [pending EXCEPT ![k] = Coalesce(@, n)]
  BY DEF LogTypes, TakeStream
<1>2. /\ k \in Keys /\ n \in Nat /\ 1 \in DOMAIN streamQueue
      /\ streamQueue[1][1] = k /\ streamQueue[1][2] = n
      /\ streamQueue' \in Seq(Keys \X Nat)
      /\ \A i \in DOMAIN streamQueue' : /\ i + 1 \in DOMAIN streamQueue /\ streamQueue'[i] = streamQueue[i + 1]
                                        /\ 1 < i + 1
  <2>1. Head(streamQueue) \in Keys \X Nat /\ Head(streamQueue) = streamQueue[1]
    BY <1>1, TailOf
  <2> QED BY <1>1, <2>1, TailOf
<1> HIDE DEF k, n
<1>3. \A i \in DOMAIN streamQueue : streamQueue[i][1] \in Keys /\ streamQueue[i][2] \in Nat
  BY <1>1
<1>4. \A i \in DOMAIN streamQueue' : streamQueue'[i][1] = k => n < streamQueue'[i][2]
  BY <1>2, <1>3 DEF Waiting
<1>5. n <= chunks[k]
  BY <1>2 DEF Waiting
<1>6. /\ pending[k] \in [texts : Seq(Nat), count : Nat] /\ pending[k].texts \in Seq(Nat)
      /\ \A m \in DOMAIN pending[k].texts : pending[k].texts[m] \in Nat /\ pending[k].texts[m] < n
  <2>1. pending \in [Keys -> [texts : Seq(Nat), count : Nat]]
    BY DEF LogTypes
  <2>2. pending[k] \in [texts : Seq(Nat), count : Nat]
    BY <1>2, <2>1
  <2>3. \A m \in DOMAIN pending[k].texts : pending[k].texts[m] < n
    BY <1>2 DEF Waiting
  <2> QED BY <2>2, <2>3
<1> DEFINE new == Coalesce(pending[k], n)
<1>7. /\ new \in [texts : Seq(Nat), count : Nat]
      /\ new.texts = pending[k].texts \/ new.texts = Append(pending[k].texts, n)
  BY <1>2, <1>6 DEF Coalesce
<1>8. pending'[k] = new /\ \A l \in Keys \ {k} : pending'[l] = pending[l]
  BY <1>1, <1>2 DEF LogTypes
<1>9. pending' \in [Keys -> [texts : Seq(Nat), count : Nat]]
  BY <1>1, <1>2, <1>7 DEF LogTypes
<1> HIDE DEF new
<1>10. Rising(new.texts) /\ \A m \in DOMAIN new.texts :
         \/ m \in DOMAIN pending[k].texts /\ new.texts[m] = pending[k].texts[m]
         \/ new.texts[m] = n
  <2>1. Rising(pending[k].texts)
    BY <1>2 DEF Waiting
  <2>2. CASE new.texts = pending[k].texts
    BY <2>1, <2>2
  <2>3. CASE new.texts = Append(pending[k].texts, n)
    BY <1>2, <1>6, <2>1, <2>3, RisingAppend, AppendOf
  <2> QED BY <1>7, <2>2, <2>3
<1>11. Waiting'
  <2>1. \A i \in DOMAIN streamQueue' : streamQueue'[i][2] <= chunks[streamQueue'[i][1]]
    BY <1>2 DEF Waiting
  <2>2. \A i, j \in DOMAIN streamQueue' : i < j /\ streamQueue'[i][1] = streamQueue'[j][1] =>
          streamQueue'[i][2] < streamQueue'[j][2]
    <3>1. \A i, j \in DOMAIN streamQueue' : i < j => i + 1 < j + 1
      BY <1>2
    <3> QED BY <1>2, <3>1 DEF Waiting
  <2>3. ASSUME NEW l \in Keys
        PROVE  Rising(pending'[l].texts) /\ \A m \in DOMAIN pending'[l].texts :
                 /\ pending'[l].texts[m] <= chunks[l]
                 /\ \A i \in DOMAIN streamQueue' : streamQueue'[i][1] = l => pending'[l].texts[m] < streamQueue'[i][2]
    <3>1. CASE l = k
      BY <1>2, <1>4, <1>5, <1>8, <1>10, <3>1 DEF Waiting
    <3>2. CASE l # k
      BY <1>2, <1>8, <3>2 DEF Waiting
    <3> QED BY <3>1, <3>2
  <2> QED BY <1>1, <2>1, <2>2, <2>3 DEF Waiting, Reached
<1>12. ASSUME NEW x \in Row, Past(x) PROVE Past(x)'
  <2>1. LifePast(x)'
    BY <1>1, <1>12 DEF Past, LifePast, Reached
  <2>2. ASSUME NEW l \in Keys, NEW m \in DOMAIN x.texts, <<x.call, x.stream>> = l
        PROVE  /\ x.texts[m] <= chunks[l]
               /\ \A i \in DOMAIN pending'[l].texts : x.texts[m] < pending'[l].texts[i]
               /\ \A i \in DOMAIN streamQueue' : streamQueue'[i][1] = l => x.texts[m] < streamQueue'[i][2]
    <3>1. x.texts[m] <= chunks[l]
      BY <1>12, <2>2 DEF Past, TextPast
    <3>2. \A i \in DOMAIN streamQueue' : streamQueue'[i][1] = l => x.texts[m] < streamQueue'[i][2]
      BY <1>2, <1>12, <2>2 DEF Past, TextPast
    <3>3. l = k => x.texts[m] < n
      BY <1>2, <1>12, <2>2 DEF Past, TextPast
    <3>4. \A i \in DOMAIN pending[l].texts : x.texts[m] < pending[l].texts[i]
      BY <1>12, <2>2 DEF Past, TextPast
    <3>5. \A i \in DOMAIN pending'[l].texts : x.texts[m] < pending'[l].texts[i]
      BY <1>8, <1>10, <3>3, <3>4
    <3> QED BY <3>1, <3>2, <3>5
  <2>3. TextPast(x)'
    BY <1>12, <2>2 DEF Past, TextPast
  <2> QED BY <2>1, <2>3 DEF Past
<1> QED BY <1>2, <1>9, <1>11, <1>12

LEMMA HeadInOrder ==
    ASSUME LogTypes, Waiting, queue # <<>>, WriteHead, UNCHANGED <<call, chunks>>,
           NEW l, l = Line(Head(queue)[1], <<Head(queue)[2], Nothing>>, <<>>, 1)
    PROVE  /\ Waiting' /\ \A x \in Row : Past(x) => Past(x)' /\ InOrder(x, l)
           /\ l \in Row /\ Past(l)' /\ queue' \in Seq(Life \X Calls)
<1>1. /\ queue' = Tail(queue) /\ streamQueue' = streamQueue /\ pending' = pending
      /\ call' = call /\ chunks' = chunks
  BY DEF WriteHead
<1>2. /\ queue \in Seq(Life \X Calls) /\ queue' \in Seq(Life \X Calls)
      /\ 1 \in DOMAIN queue /\ queue[1] = Head(queue)
      /\ \A i \in DOMAIN queue' : i + 1 \in DOMAIN queue /\ queue'[i] = queue[i + 1] /\ 1 < i + 1
  <2>1. queue \in Seq(Life \X Calls)
    BY DEF LogTypes
  <2> QED BY <1>1, <2>1, TailOf
<1>3. /\ l.kind = queue[1][1] /\ l.call = queue[1][2] /\ l.stream = Nothing /\ l.texts = <<>>
      /\ queue[1][1] \in Life /\ queue[1][2] \in Calls
  <2>1. queue[1] \in Life \X Calls
    BY <1>2
  <2> QED BY <1>2, <2>1 DEF Line
<1>4. l \in Row
  <2>1. l = [kind |-> queue[1][1], call |-> queue[1][2], stream |-> Nothing, texts |-> <<>>, count |-> 1]
    BY <1>2 DEF Line
  <2> DEFINE none == <<>>
  <2>2. none \in Seq(Nat) /\ l.texts = none
    BY <1>3
  <2> HIDE DEF none
  <2>3. l = [kind |-> l.kind, call |-> l.call, stream |-> l.stream, texts |-> none, count |-> 1]
    BY <2>1, <2>2
  <2>4. l.kind \in Life /\ l.call \in Calls /\ l.stream = Nothing
    BY <1>3
  <2> QED BY <2>2, <2>3, <2>4 DEF Row
<1>5. \A i, j \in DOMAIN queue' : i < j => i + 1 < j + 1
  BY <1>2
<1>6. Waiting'
  <2>1. \A i \in DOMAIN queue' : call[queue'[i][2]] # "new"
          /\ (queue'[i][1] # "started" => call[queue'[i][2]] \notin {"new", "running"})
    BY <1>2 DEF Waiting, Reached
  <2>2. \A i, j \in DOMAIN queue' : i < j /\ queue'[i][2] = queue'[j][2] =>
          queue'[i][1] = "started" /\ queue'[j][1] # "started"
    BY <1>2, <1>5 DEF Waiting
  <2> QED BY <1>1, <2>1, <2>2 DEF Waiting, Reached
<1>7. ASSUME NEW x \in Row, Past(x) PROVE Past(x)' /\ InOrder(x, l)
  <2>1. TextPast(x)'
    BY <1>1, <1>7 DEF Past, TextPast
  <2>2. LifePast(x)'
    BY <1>1, <1>2, <1>7 DEF Past, LifePast, Reached
  <2>3. InOrder(x, l)
    <3>1. ASSUME x.call = l.call, {x.kind, l.kind} \subseteq Life
          PROVE  x.kind = "started" /\ l.kind # "started"
      <4>1. x.kind \in Life
        BY <3>1
      <4> QED BY <1>2, <1>3, <1>7, <3>1, <4>1 DEF Past, LifePast
    <3>2. DOMAIN l.texts = {}
      BY <1>3
    <3> QED BY <3>1, <3>2 DEF InOrder
  <2> QED BY <2>1, <2>2, <2>3 DEF Past
<1>8. Past(l)'
  <2>1. \A i \in DOMAIN queue' : queue'[i][2] = l.call => l.kind = "started" /\ queue'[i][1] # "started"
    BY <1>2, <1>3 DEF Waiting
  <2>2. call[l.call] # "new" /\ (l.kind # "started" => call[l.call] \notin {"new", "running"})
    BY <1>2, <1>3 DEF Waiting, Reached
  <2>3. LifePast(l)'
    BY <1>1, <1>3, <2>1, <2>2 DEF LifePast, Reached
  <2>4. TextPast(l)'
    BY <1>3 DEF TextPast, Rising
  <2> QED BY <2>3, <2>4 DEF Past
<1> QED BY <1>2, <1>4, <1>6, <1>7, <1>8

LEMMA FlushInOrder ==
    ASSUME LogTypes, Waiting, NEW k \in Keys, pending' = [pending EXCEPT ![k] = NoBatch],
           UNCHANGED <<call, chunks, queue, streamQueue>>,
           NEW l, l = Line("stream", k, pending[k].texts, pending[k].count)
    PROVE  /\ Waiting' /\ \A x \in Row : Past(x) => Past(x)' /\ InOrder(x, l)
           /\ l \in Row /\ Past(l)' /\ pending' \in [Keys -> [texts : Seq(Nat), count : Nat]]
<1>1. pending \in [Keys -> [texts : Seq(Nat), count : Nat]] /\ NoBatch \in [texts : Seq(Nat), count : Nat]
  BY DEF LogTypes, NoBatch
<1>2. pending' \in [Keys -> [texts : Seq(Nat), count : Nat]]
  BY <1>1
<1>3. /\ \A i \in Keys \ {k} : pending'[i] = pending[i]
      /\ pending'[k].texts = <<>>
      /\ pending[k].texts \in Seq(Nat) /\ pending[k].count \in Nat
  BY <1>1 DEF NoBatch
<1>4. k[1] \in Calls /\ k[2] \in Streams /\ k = <<k[1], k[2]>>
  BY DEF Keys
<1>5. /\ l.kind = "stream" /\ l.call = k[1] /\ l.stream = k[2] /\ l.texts = pending[k].texts
      /\ "stream" \notin Life /\ l \in Row
  BY <1>3, <1>4 DEF Line, Life, Row
<1>6. <<l.call, l.stream>> = k
  BY <1>4, <1>5
<1>7. \A i \in Keys : \A m \in DOMAIN pending'[i].texts : pending'[i] = pending[i]
  BY <1>3
<1>8. Waiting'
  <2>1. \A i \in Keys : Rising(pending'[i].texts)
    BY <1>3 DEF Waiting, Rising
  <2> QED BY <1>7, <2>1 DEF Waiting, Reached
<1>9. ASSUME NEW x \in Row, Past(x) PROVE Past(x)' /\ InOrder(x, l)
  <2>1. LifePast(x)'
    BY <1>9 DEF Past, LifePast, Reached
  <2>2. TextPast(x)'
    BY <1>7, <1>9 DEF Past, TextPast
  <2>3. InOrder(x, l)
    BY <1>5, <1>6, <1>9 DEF Past, TextPast, InOrder
  <2> QED BY <2>1, <2>2, <2>3 DEF Past
<1>10. Past(l)'
  <2>1. LifePast(l)'
    BY <1>5 DEF LifePast
  <2>2. Rising(l.texts) /\ \A m \in DOMAIN l.texts :
          /\ l.texts[m] <= chunks[k]
          /\ \A i \in DOMAIN streamQueue : streamQueue[i][1] = k => l.texts[m] < streamQueue[i][2]
    BY <1>5 DEF Waiting
  <2>3. DOMAIN pending'[k].texts = {}
    BY <1>3
  <2>4. TextPast(l)'
    BY <1>6, <2>2, <2>3 DEF TextPast
  <2> QED BY <2>1, <2>4 DEF Past
<1> QED BY <1>2, <1>5, <1>8, <1>9, <1>10

LEMMA TrailKept ==
    ASSUME LogTypes, Trail, UNCHANGED <<journal, viewer>>, \A x \in Row : Past(x) => Past(x)'
    PROVE  Trail'
<1>1. /\ \A i \in DOMAIN journal : journal[i] \in Row /\ Past(journal[i])
      /\ \A i \in DOMAIN viewer.shown : viewer.shown[i] \in Row /\ Past(viewer.shown[i])
  BY DEF LogTypes, Trail
<1>2. ASSUME NEW x \in Row, (\E i \in DOMAIN journal : journal[i] = x) \/ (\E i \in DOMAIN viewer.shown : viewer.shown[i] = x)
      PROVE  Past(x)'
  BY <1>1, <1>2
<1>3. (\A i \in DOMAIN journal : Past(journal[i]))'
  BY <1>1, <1>2
<1>4. (\A i \in DOMAIN viewer.shown : Past(viewer.shown[i]))'
  BY <1>1, <1>2
<1>5. /\ (\A i, j \in DOMAIN journal : i < j => InOrder(journal[i], journal[j]))'
      /\ (\A i, j \in DOMAIN viewer.shown : i < j => InOrder(viewer.shown[i], viewer.shown[j]))'
      /\ (\A i \in DOMAIN viewer.shown, j \in DOMAIN journal : j > From => InOrder(viewer.shown[i], journal[j]))'
  BY DEF Trail, From
<1> QED BY <1>3, <1>4, <1>5 DEF Trail

LEMMA LineWritten ==
    ASSUME LogTypes, Trail, NEW l \in Row, journal' = Append(journal, l), viewer' = viewer,
           \A x \in Row : Past(x) => Past(x)' /\ InOrder(x, l), Past(l)'
    PROVE  Trail' /\ journal' \in Seq(Row)
<1>1. /\ journal \in Seq(Row) /\ viewer.shown \in Seq(Row) /\ viewer.at \in Nat
      /\ Len(journal) \in Nat
  BY DEF LogTypes
<1>2. /\ journal' \in Seq(Row) /\ Len(journal') = Len(journal) + 1
      /\ \A i \in DOMAIN journal' : (i \in DOMAIN journal /\ journal'[i] = journal[i])
                                    \/ (i = Len(journal) + 1 /\ journal'[i] = l)
      /\ \A i \in DOMAIN journal : i < Len(journal) + 1
  BY <1>1, AppendOf
<1>3. /\ \A i \in DOMAIN journal : journal[i] \in Row /\ Past(journal[i])
      /\ \A i \in DOMAIN viewer.shown : viewer.shown[i] \in Row /\ Past(viewer.shown[i])
  BY DEF LogTypes, Trail
<1>4. From \in Nat /\ From' \in Nat /\ From <= From'
  BY <1>1, <1>2 DEF From
<1>5. ASSUME NEW x \in Row, (\E i \in DOMAIN journal : journal[i] = x) \/ (\E i \in DOMAIN viewer.shown : viewer.shown[i] = x)
      PROVE  Past(x)' /\ InOrder(x, l)
  BY <1>3, <1>5
<1>6. (\A i \in DOMAIN journal : Past(journal[i]))'
  BY <1>2, <1>3, <1>5
<1>7. (\A i \in DOMAIN viewer.shown : Past(viewer.shown[i]))'
  BY <1>3, <1>5
<1>8. (\A i, j \in DOMAIN journal : i < j => InOrder(journal[i], journal[j]))'
  <2> SUFFICES ASSUME NEW i \in DOMAIN journal', NEW j \in DOMAIN journal', i < j
               PROVE  InOrder(journal'[i], journal'[j])
    BY DEF InOrder
  <2>1. i \in DOMAIN journal /\ journal'[i] = journal[i]
    BY <1>1, <1>2
  <2>2. CASE j \in DOMAIN journal /\ journal'[j] = journal[j]
    BY <2>1, <2>2 DEF Trail
  <2>3. CASE journal'[j] = l
    BY <1>3, <1>5, <2>1, <2>3
  <2> QED BY <1>2, <2>2, <2>3
<1>9. (\A i \in DOMAIN viewer.shown, j \in DOMAIN journal : j > From => InOrder(viewer.shown[i], journal[j]))'
  <2> SUFFICES ASSUME NEW i \in DOMAIN viewer.shown, NEW j \in DOMAIN journal', j > From'
               PROVE  InOrder(viewer.shown[i], journal'[j])
    BY DEF InOrder
  <2>1. CASE j \in DOMAIN journal /\ journal'[j] = journal[j]
    <3>1. j > From
      BY <1>1, <1>4, <2>1
    <3> QED BY <2>1, <3>1 DEF Trail
  <2>2. CASE journal'[j] = l
    BY <1>3, <1>5, <2>2
  <2> QED BY <1>2, <2>1, <2>2
<1>10. (\A i, j \in DOMAIN viewer.shown : i < j => InOrder(viewer.shown[i], viewer.shown[j]))'
  BY DEF Trail
<1> QED BY <1>2, <1>6, <1>7, <1>8, <1>9, <1>10 DEF Trail

\* A new connector: nothing waits, and the file is the old one or empty.
LEMMA RestartInOrder ==
    ASSUME LogTypes, Trail, NewConnector
    PROVE  LogTypes' /\ Waiting' /\ Trail'
<1>1. /\ queue' = <<>> /\ streamQueue' = <<>> /\ pending' = [k \in Keys |-> NoBatch]
      /\ chunks' = chunks /\ viewer' = viewer /\ dropped' = 0
      /\ journal' = <<>> \/ journal' = journal
  BY DEF NewConnector
<1>2. /\ call' \in [Calls -> {"new", "running", "yielded", "returned", "killed"}]
      /\ \A c \in Calls : (call[c] # "new" => call'[c] # "new") /\ call'[c] # "running"
  BY DEF NewConnector, LogTypes
<1>3. \A k \in Keys : pending'[k].texts = <<>>
  BY <1>1 DEF NoBatch
<1>4. LogTypes'
  <2>1. NoBatch \in [texts : Seq(Nat), count : Nat]
    BY DEF NoBatch
  <2>2. pending' \in [Keys -> [texts : Seq(Nat), count : Nat]]
    BY <1>1, <2>1
  <2>3. journal' \in Seq(Row)
    <3>1. journal \in Seq(Row) /\ <<>> \in Seq(Row)
      BY DEF LogTypes
    <3> QED BY <1>1, <3>1
  <2>4. queue' \in Seq(Life \X Calls) /\ streamQueue' \in Seq(Keys \X Nat)
    BY <1>1
  <2> QED BY <1>1, <1>2, <2>2, <2>3, <2>4 DEF LogTypes
<1>5. Waiting'
  <2>1. DOMAIN queue' = {} /\ DOMAIN streamQueue' = {}
    BY <1>1
  <2>2. \A k \in Keys : Rising(pending'[k].texts) /\ DOMAIN pending'[k].texts = {}
    BY <1>3 DEF Rising
  <2> QED BY <2>1, <2>2 DEF Waiting
<1>6. ASSUME NEW x \in Row, Past(x) PROVE Past(x)'
  <2>1. LifePast(x)'
    <3>1. x.kind \in Life => x.call \in Calls /\ Reached(x.kind, x.call)'
      BY <1>2, <1>6 DEF Past, LifePast, Reached
    <3> QED BY <1>1, <3>1 DEF LifePast
  <2>2. TextPast(x)'
    BY <1>1, <1>3, <1>6 DEF Past, TextPast
  <2> QED BY <2>1, <2>2 DEF Past
<1>7. ASSUME journal' = journal PROVE Trail'
  BY <1>1, <1>6, <1>7, TrailKept
<1>8. ASSUME journal' = <<>> PROVE Trail'
  <2>1. DOMAIN journal' = {}
    BY <1>8
  <2>2. \A i \in DOMAIN viewer.shown : viewer.shown[i] \in Row /\ Past(viewer.shown[i])
    BY DEF LogTypes, Trail
  <2>3. (\A i \in DOMAIN viewer.shown : Past(viewer.shown[i]))'
    BY <1>1, <1>6, <2>2
  <2>4. (\A i, j \in DOMAIN viewer.shown : i < j => InOrder(viewer.shown[i], viewer.shown[j]))'
    BY <1>1 DEF Trail
  <2>5. (\A i \in DOMAIN journal : Past(journal[i]))'
    BY <2>1
  <2>6. /\ (\A i, j \in DOMAIN journal : i < j => InOrder(journal[i], journal[j]))'
        /\ (\A i \in DOMAIN viewer.shown, j \in DOMAIN journal : j > From => InOrder(viewer.shown[i], journal[j]))'
    BY <2>1
  <2> QED BY <2>3, <2>4, <2>5, <2>6 DEF Trail
<1> QED BY <1>1, <1>4, <1>5, <1>7, <1>8

\* A round of /events shows all that is unread.
LEMMA FollowInOrder ==
    ASSUME LogTypes, Waiting, Trail, Follow
    PROVE  LogTypes' /\ Waiting' /\ Trail'
<1> DEFINE news == SubSeq(journal, From + 1, Len(journal))
<1>1. /\ call' = call /\ chunks' = chunks /\ queue' = queue /\ streamQueue' = streamQueue
      /\ pending' = pending /\ journal' = journal /\ dropped' = dropped
      /\ viewer' = [at |-> IF Len(journal) > From THEN Len(journal) ELSE From,
                    shown |-> viewer.shown \o news]
  BY DEF Follow, callVars, loggerVars
<1>2. /\ journal \in Seq(Row) /\ viewer.shown \in Seq(Row) /\ viewer.at \in Nat
      /\ Len(journal) \in Nat /\ From \in Nat /\ From <= Len(journal)
  BY DEF LogTypes, From
<1>3. /\ news \in Seq(Row) /\ Len(news) = Len(journal) - From
      /\ \A i \in 1..Len(journal) - From : news[i] = journal[From + i]
  <2>1. \A i \in (From + 1)..Len(journal) : journal[i] \in Row
    BY <1>2
  <2>2. /\ news \in Seq(Row)
        /\ Len(news) = IF From + 1 <= Len(journal) THEN Len(journal) - (From + 1) + 1 ELSE 0
        /\ \A i \in 1..Len(journal) - (From + 1) + 1 : news[i] = journal[From + 1 + i - 1]
    BY <1>2, <2>1, SubSeqProperties
  <2> QED BY <1>2, <2>2
<1> HIDE DEF news
<1>4. /\ viewer'.shown = viewer.shown \o news
      /\ viewer'.at = Len(journal) /\ From' = Len(journal)
  BY <1>1, <1>2 DEF From
<1>5. /\ viewer'.shown \in Seq(Row)
      /\ \A i \in DOMAIN viewer'.shown :
           \/ i \in DOMAIN viewer.shown /\ viewer'.shown[i] = viewer.shown[i]
           \/ /\ i > Len(viewer.shown) /\ i - Len(viewer.shown) + From \in DOMAIN journal
              /\ i - Len(viewer.shown) + From > From
              /\ viewer'.shown[i] = journal[i - Len(viewer.shown) + From]
  <2> DEFINE old == viewer.shown
             now == viewer'.shown
  <2>1. old \in Seq(Row) /\ now = old \o news
    BY <1>2, <1>4
  <2> HIDE DEF old, now
  <2>2. /\ now \in Seq(Row)
        /\ \A i \in DOMAIN now : \/ i \in DOMAIN old /\ now[i] = old[i]
                               \/ /\ i > Len(old) /\ i - Len(old) \in 1..Len(news)
                                  /\ now[i] = news[i - Len(old)]
    BY <1>3, <2>1, ConcatOf
  <2>3. \A m \in 1..Len(news) : /\ m + From \in DOMAIN journal /\ m + From > From
                                 /\ news[m] = journal[m + From]
    BY <1>2, <1>3
  <2>4. \A i \in DOMAIN now : \/ i \in DOMAIN old /\ now[i] = old[i]
                              \/ /\ i > Len(old) /\ i - Len(old) + From \in DOMAIN journal
                                 /\ i - Len(old) + From > From
                                 /\ now[i] = journal[i - Len(old) + From]
    BY <2>2, <2>3
  <2> QED BY <2>2, <2>4 DEF old, now
<1>6. /\ \A i \in DOMAIN journal : journal[i] \in Row /\ Past(journal[i])
      /\ \A i \in DOMAIN viewer.shown : viewer.shown[i] \in Row /\ Past(viewer.shown[i])
  BY DEF LogTypes, Trail
<1>7. LogTypes'
  BY <1>1, <1>4, <1>5, <1>2 DEF LogTypes
<1>8. Waiting' /\ \A x \in Row : Past(x) => Past(x)'
  BY <1>1 DEF Waiting, Past, LifePast, TextPast, Reached
<1>9. (\A i \in DOMAIN journal : Past(journal[i]))'
  BY <1>1, <1>6, <1>8
<1>10. (\A i \in DOMAIN viewer.shown : Past(viewer.shown[i]))'
  BY <1>5, <1>6, <1>8
<1>11. (\A i, j \in DOMAIN journal : i < j => InOrder(journal[i], journal[j]))'
  BY <1>1 DEF Trail
<1>12. (\A i, j \in DOMAIN viewer.shown : i < j => InOrder(viewer.shown[i], viewer.shown[j]))'
  <2> SUFFICES ASSUME NEW i \in DOMAIN viewer'.shown, NEW j \in DOMAIN viewer'.shown, i < j
               PROVE  InOrder(viewer'.shown[i], viewer'.shown[j])
    BY DEF InOrder
  <2> DEFINE a == i - Len(viewer.shown) + From
             b == j - Len(viewer.shown) + From
  <2>1. /\ i \in Nat /\ j \in Nat /\ Len(viewer.shown) \in Nat /\ a < b
        /\ \A m \in DOMAIN viewer.shown : m <= Len(viewer.shown)
    <3>1. /\ Len(viewer.shown) \in Nat /\ DOMAIN viewer.shown = 1..Len(viewer.shown)
      BY <1>2
    <3>2. i \in Nat /\ j \in Nat
      BY <1>5
    <3>3. From \in Nat
      BY <1>2
    <3> QED BY <3>1, <3>2, <3>3
  <2>2. \/ i \in DOMAIN viewer.shown /\ viewer'.shown[i] = viewer.shown[i]
        \/ i > Len(viewer.shown) /\ a \in DOMAIN journal /\ a > From /\ viewer'.shown[i] = journal[a]
    BY <1>5
  <2>3. \/ j \in DOMAIN viewer.shown /\ viewer'.shown[j] = viewer.shown[j]
        \/ j > Len(viewer.shown) /\ b \in DOMAIN journal /\ b > From /\ viewer'.shown[j] = journal[b]
    BY <1>5
  <2> HIDE DEF a, b
  <2>4. CASE i \in DOMAIN viewer.shown /\ viewer'.shown[i] = viewer.shown[i]
    BY <2>3, <2>4 DEF Trail
  <2>5. CASE i > Len(viewer.shown) /\ a \in DOMAIN journal /\ a > From /\ viewer'.shown[i] = journal[a]
    <3>1. j \notin DOMAIN viewer.shown
      BY <2>1, <2>5
    <3> QED BY <2>1, <2>3, <2>5, <3>1 DEF Trail
  <2> QED BY <2>2, <2>4, <2>5
<1>13. (\A i \in DOMAIN viewer.shown, j \in DOMAIN journal : j > From => InOrder(viewer.shown[i], journal[j]))'
  BY <1>1, <1>2, <1>4
<1> QED BY <1>7, <1>8, <1>9, <1>10, <1>11, <1>12, <1>13 DEF Trail

LEMMA OrderInvariant == LogSpec => []OrderInv
<1>1. LogInit => OrderInv
  <2> SUFFICES ASSUME LogInit PROVE OrderInv
    OBVIOUS
  <2>1. LogTypes
    <3>1. NoBatch \in [texts : Seq(Nat), count : Nat] /\ viewer \in [at : Nat, shown : Seq(Row)]
      BY DEF LogInit, NoBatch
    <3> QED BY <3>1 DEF LogInit, LogTypes
  <2>2. /\ DOMAIN queue = {} /\ DOMAIN streamQueue = {} /\ DOMAIN journal = {} /\ DOMAIN viewer.shown = {}
        /\ \A k \in Keys : DOMAIN pending[k].texts = {}
    BY DEF LogInit, NoBatch
  <2>3. Waiting /\ Trail
    BY <2>2 DEF Waiting, Trail, Rising
  <2> QED BY <2>1, <2>3 DEF OrderInv
<1>2. OrderInv /\ [LogNext]_logVars => OrderInv'
  <2> SUFFICES ASSUME OrderInv, [LogNext]_logVars PROVE OrderInv'
    OBVIOUS
  <2>1. LogTypes /\ Waiting /\ Trail
    BY DEF OrderInv
  \* A step that leaves the file and its viewer alone.
  <2>2. ASSUME Waiting', \A x \in Row : Past(x) => Past(x)', UNCHANGED <<journal, viewer>>, LogTypes'
        PROVE  OrderInv'
    BY <2>1, <2>2, TrailKept DEF OrderInv
  <2>3. ASSUME UNCHANGED <<call, chunks, queue, streamQueue, pending, journal, viewer>>, dropped' \in Nat
        PROVE  OrderInv'
    <3>1. LogTypes'
      BY <2>1, <2>3 DEF LogTypes
    <3>2. Waiting' /\ \A x \in Row : Past(x) => Past(x)'
      BY <2>1, <2>3 DEF Waiting, Past, LifePast, TextPast, Reached
    <3> QED BY <2>2, <2>3, <3>1, <3>2
  <2>4. ASSUME NEW l \in Row, Waiting', \A x \in Row : Past(x) => Past(x)' /\ InOrder(x, l), Past(l)',
               journal' = Append(journal, l), viewer' = viewer, UNCHANGED <<call, chunks>>, dropped' \in Nat,
               queue' \in Seq(Life \X Calls), streamQueue' = streamQueue,
               pending' \in [Keys -> [texts : Seq(Nat), count : Nat]]
        PROVE  OrderInv'
    <3>1. Trail' /\ journal' \in Seq(Row)
      BY <2>1, <2>4, LineWritten
    <3>2. LogTypes'
      BY <2>1, <2>4, <3>1 DEF LogTypes
    <3> QED BY <2>4, <3>1, <3>2 DEF OrderInv
  <2>5. ASSUME NEW kind \in Life, NEW c \in Calls, NEW s \in {"running", "yielded", "returned"},
               EmitLife(kind, c), call' = [call EXCEPT ![c] = s], UNCHANGED <<chunks, viewer>>,
               kind = "started" => call[c] = "new" /\ s = "running",
               kind # "started" => call[c] = "running" /\ s # "running"
        PROVE  OrderInv'
    <3>1. call'[c] = s /\ call' \in [Calls -> {"new", "running", "yielded", "returned", "killed"}]
      BY <2>1, <2>5 DEF LogTypes
    <3>2. call' = [call EXCEPT ![c] = call'[c]]
      BY <2>5, <3>1
    <3>3. Waiting' /\ \A x \in Row : Past(x) => Past(x)'
      BY <2>1, <2>5, <3>1, <3>2, LifeInOrder
    <3>4. /\ queue' \in Seq(Life \X Calls) /\ dropped' \in Nat
          /\ UNCHANGED <<streamQueue, pending, journal>>
      BY <2>1, <2>5, LifeLogged
    <3>5. LogTypes'
      BY <2>1, <2>5, <3>1, <3>4 DEF LogTypes
    <3> QED BY <2>2, <2>5, <3>3, <3>4, <3>5
  <2>6. ASSUME NEW k \in Keys, Output(k) PROVE OrderInv'
    <3>1. Waiting' /\ \A x \in Row : Past(x) => Past(x)'
      BY <2>1, <2>6, OutputInOrder
    <3>2. UNCHANGED <<call, queue, pending, journal, viewer>>
      BY <2>6 DEF Output, EmitStream
    <3>3. dropped' \in Nat
      BY <2>1, <2>6 DEF Output, EmitStream, Refused, LogTypes
    <3>4. chunks' \in [Keys -> Nat] /\ chunks[k] \in Nat
      <4>1. chunks' = [chunks EXCEPT ![k] = @ + 1]
        BY <2>6 DEF Output
      <4> QED BY <2>1, <4>1 DEF LogTypes
    <3>5. streamQueue' \in Seq(Keys \X Nat)
      <4> DEFINE e == <<k, chunks[k] + 1>>
      <4>1. e \in Keys \X Nat
        BY <3>4
      <4>2. streamQueue' = streamQueue \/ streamQueue' = Append(streamQueue, e)
        BY <2>6 DEF Output, EmitStream
      <4> HIDE DEF e
      <4>3. streamQueue \in Seq(Keys \X Nat)
        BY <2>1 DEF LogTypes
      <4>4. CASE streamQueue' = streamQueue
        BY <4>3, <4>4
      <4>5. CASE streamQueue' = Append(streamQueue, e)
        BY <4>1, <4>3, <4>5, AppendOf
      <4> QED BY <4>2, <4>4, <4>5
    <3>6. LogTypes'
      BY <2>1, <3>2, <3>3, <3>4, <3>5 DEF LogTypes
    <3> QED BY <2>2, <3>1, <3>2, <3>6
  <2>7. ASSUME NEW c \in Calls, Start(c) PROVE OrderInv'
    BY <2>5, <2>7 DEF Start, Life
  <2>8. ASSUME NEW c \in Calls, Succeed(c) PROVE OrderInv'
    BY <2>5, <2>8 DEF Succeed, Life
  <2>9. ASSUME NEW c \in Calls, Yield(c) PROVE OrderInv'
    BY <2>5, <2>9 DEF Yield, Life
  <2>10. dropped \in Nat
    BY <2>1 DEF LogTypes
  <2>11. ASSUME NEW c \in Calls, End(c) PROVE OrderInv'
    BY <2>3, <2>10, <2>11 DEF End, loggerVars
  \* ... or that would have written a line, and failed to.
  <2>22. ASSUME Waiting', \A x \in Row : Past(x) => Past(x)', journal' = journal, viewer' = viewer,
                UNCHANGED <<call, chunks>>, dropped' \in Nat,
                queue' \in Seq(Life \X Calls), streamQueue' = streamQueue,
                pending' \in [Keys -> [texts : Seq(Nat), count : Nat]]
         PROVE  OrderInv'
    <3>1. LogTypes'
      BY <2>1, <2>22 DEF LogTypes
    <3> QED BY <2>2, <2>22, <3>1
  <2>12. ASSUME queue # <<>>, WriteHead, UNCHANGED <<call, chunks, viewer>> PROVE OrderInv'
    <3>1. PICK l : l = Line(Head(queue)[1], <<Head(queue)[2], Nothing>>, <<>>, 1)
      OBVIOUS
    <3>2. /\ journal' = Append(journal, l) \/ journal' = journal
          /\ streamQueue' = streamQueue /\ pending' = pending /\ dropped' = dropped
      BY <2>12, <3>1 DEF WriteHead, Put
    <3>3. pending' \in [Keys -> [texts : Seq(Nat), count : Nat]]
      BY <2>1, <3>2 DEF LogTypes
    <3>4. UNCHANGED <<call, chunks>>
      BY <2>12
    <3>5. /\ Waiting' /\ \A x \in Row : Past(x) => Past(x)' /\ InOrder(x, l)
          /\ l \in Row /\ Past(l)' /\ queue' \in Seq(Life \X Calls)
      BY <2>1, <2>12, <3>1, <3>4, HeadInOrder
    <3>6. CASE journal' = Append(journal, l)
      BY <2>4, <2>10, <2>12, <3>2, <3>3, <3>5, <3>6
    <3>7. CASE journal' = journal
      BY <2>22, <2>10, <2>12, <3>2, <3>3, <3>5, <3>7
    <3> QED BY <3>2, <3>6, <3>7
  <2>13. CASE Logging(First)
    <3>1. CASE queue # <<>>
      BY <2>12, <2>13, <3>1 DEF Logging, First, callVars
    <3>2. CASE queue = <<>>
      BY <2>3, <2>10, <2>13, <3>2 DEF Logging, First, callVars
    <3> QED BY <3>1, <3>2
  <2>14. CASE Logging(SelectLife)
    BY <2>12, <2>14 DEF Logging, SelectLife, callVars
  <2>15. CASE Logging(SelectStream)
    <3>1. TakeStream /\ UNCHANGED <<call, chunks, viewer>> /\ UNCHANGED <<queue, dropped, journal>>
      BY <2>15 DEF Logging, SelectStream, TakeStream, callVars
    <3>2. UNCHANGED <<call, chunks>>
      BY <3>1
    <3>3. /\ Waiting' /\ \A x \in Row : Past(x) => Past(x)'
          /\ streamQueue' \in Seq(Keys \X Nat)
          /\ pending' \in [Keys -> [texts : Seq(Nat), count : Nat]]
      BY <2>1, <3>1, <3>2, TakeInOrder
    <3>4. LogTypes'
      BY <2>1, <3>1, <3>3 DEF LogTypes
    <3> QED BY <2>2, <3>1, <3>3, <3>4
  <2>16. CASE Logging(SelectTick)
    BY <2>3, <2>10, <2>16 DEF Logging, SelectTick, callVars
  <2>17. CASE Logging(FlushOne)
    <3>1. PICK k \in Keys : /\ Put(Line("stream", k, pending[k].texts, pending[k].count))
                            /\ pending' = [pending EXCEPT ![k] = NoBatch]
      BY <2>17 DEF Logging, FlushOne
    <3>2. PICK l : l = Line("stream", k, pending[k].texts, pending[k].count)
      OBVIOUS
    <3>3. UNCHANGED <<call, chunks, queue, streamQueue>> /\ viewer' = viewer /\ dropped' = dropped
      BY <2>17 DEF Logging, FlushOne, callVars
    <3>4. UNCHANGED <<call, chunks, queue, streamQueue>>
      BY <3>3
    <3>5. /\ Waiting' /\ \A x \in Row : Past(x) => Past(x)' /\ InOrder(x, l)
          /\ l \in Row /\ Past(l)' /\ pending' \in [Keys -> [texts : Seq(Nat), count : Nat]]
      BY <2>1, <3>1, <3>2, <3>4, FlushInOrder
    <3>6. (journal' = Append(journal, l) \/ journal' = journal) /\ queue' \in Seq(Life \X Calls)
      BY <2>1, <3>1, <3>2, <3>3 DEF LogTypes, Put
    <3>7. CASE journal' = Append(journal, l)
      BY <2>4, <2>10, <3>3, <3>5, <3>6, <3>7
    <3>8. CASE journal' = journal
      BY <2>22, <2>10, <3>3, <3>5, <3>6, <3>8
    <3> QED BY <3>6, <3>7, <3>8
  <2>18. CASE Logging(Report)
    <3>1. /\ UNCHANGED <<call, chunks, queue, streamQueue, pending, viewer>> /\ dropped' = 0
          /\ \/ journal' = journal
             \/ /\ dropped # 0
                /\ journal' = Append(journal, Line("dropped", <<Nothing, Nothing>>, <<>>, dropped))
      BY <2>18 DEF Logging, Report, PutDropped, Put, callVars
    <3>2. CASE journal' = journal
      BY <2>3, <3>1, <3>2
    <3>3. CASE /\ dropped # 0
               /\ journal' = Append(journal, Line("dropped", <<Nothing, Nothing>>, <<>>, dropped))
      <4> PICK l : l = Line("dropped", <<Nothing, Nothing>>, <<>>, dropped)
        OBVIOUS
      <4>1. PICK none : none = <<>>
        OBVIOUS
      <4>2. none \in Seq(Nat) /\ DOMAIN none = {} /\ Rising(none)
        BY <4>1 DEF Rising
      <4>3. l = [kind |-> "dropped", call |-> Nothing, stream |-> Nothing, texts |-> none, count |-> dropped]
        BY <4>1 DEF Line
      <4>4. l \in Row /\ l.kind \notin Life /\ l.texts = none
        <5>1. none \in Seq(Nat) /\ dropped \in Nat
          BY <2>10, <4>2
        <5>2. l \in [kind : {"dropped"}, call : {Nothing}, stream : {Nothing}, texts : Seq(Nat), count : Nat]
          BY <4>3, <5>1
        <5>3. l \in Row
          BY <5>2 DEF Row
        <5>4. l.kind = "dropped" /\ l.texts = none
          BY <4>3
        <5> QED BY <5>3, <5>4 DEF Life
      <4>5. Past(l)' /\ \A x \in Row : InOrder(x, l)
        <5>1. LifePast(l)'
          BY <4>4 DEF LifePast
        <5>2. TextPast(l)'
          BY <4>2, <4>4 DEF TextPast
        <5>3. \A x \in Row : InOrder(x, l)
          BY <4>2, <4>4 DEF InOrder
        <5> QED BY <5>1, <5>2, <5>3 DEF Past
      <4>6. Waiting' /\ \A x \in Row : Past(x) => Past(x)'
        BY <2>1, <3>1 DEF Waiting, Past, LifePast, TextPast, Reached
      <4>7. /\ queue' \in Seq(Life \X Calls) /\ pending' \in [Keys -> [texts : Seq(Nat), count : Nat]]
            /\ dropped' \in Nat
        BY <2>1, <3>1 DEF LogTypes
      <4> QED BY <2>4, <3>1, <3>3, <4>4, <4>5, <4>6, <4>7
    <3> QED BY <3>1, <3>2, <3>3
  <2>19. CASE NewConnector
    BY <2>1, <2>19, RestartInOrder DEF OrderInv
  <2>20. CASE Follow
    BY <2>1, <2>20, FollowInOrder DEF OrderInv
  <2>21. CASE UNCHANGED logVars
    BY <2>3, <2>10, <2>21 DEF logVars, callVars, loggerVars
  <2> QED
    BY <2>6, <2>7, <2>8, <2>9, <2>11, <2>13, <2>14, <2>15, <2>16, <2>17, <2>18, <2>19, <2>20, <2>21
    DEF LogNext, Loop
<1> QED BY <1>1, <1>2, PTL DEF LogSpec

\* What /events has shown of a call: the start before the end, and the pieces of
\* each stream in the order in which they came, each once, for queues, batches,
\* files and runs of any length.
THEOREM ShownInOrder == LogSpec => []ViewerShowsInOrder
<1>1. OrderInv => ViewerShowsInOrder
  BY DEF OrderInv, Trail, Past, TextPast, ViewerShowsInOrder
<1> QED BY <1>1, OrderInvariant, PTL

-----------------------------------------------------------------------------
(* The capacities of the logger *)

CallTypes ==
    /\ call \in [Calls -> {"new", "running", "yielded", "returned", "killed"}]
    /\ ended \in [Calls -> BOOLEAN] /\ chunks \in [Keys -> Nat]
    /\ restarts \in 0..MaxRestarts
QueueTypes ==
    /\ queue \in Seq(Life \X Calls) /\ Len(queue) <= LifeCap
    /\ streamQueue \in Seq(Keys \X (Nat \ {0})) /\ Len(streamQueue) <= StreamCap
Batch == [texts : Texts, count : Nat]
BatchTypes ==
    /\ pending \in [Keys -> Batch]
    /\ logger \in {"first", "select", "flush"}
    /\ dropped \in Nat /\ overtaken \in Nat
FileTypes ==
    /\ journal \in Seq(Lines) /\ viewer \in [at : Nat, shown : Seq(Lines)]
    /\ gone \in Nat

LEMMA LogTypeParts == LogTypeOK <=> CallTypes /\ QueueTypes /\ BatchTypes /\ FileTypes
<1>1. {dropped, overtaken, gone} \subseteq Nat <=> dropped \in Nat /\ overtaken \in Nat /\ gone \in Nat
  OBVIOUS
<1> QED BY <1>1, Zenon DEF LogTypeOK, CallTypes, QueueTypes, BatchTypes, Batch, FileTypes

LEMMA Caps == {LifeCap, StreamCap, BatchCap} \subseteq Nat /\ MaxRestarts \in Nat
  BY CapsAssumption

LEMMA NoTexts == <<>> \in Texts /\ NoBatch \in Batch
<1>1. <<>> \in Seq(Nat \ {0}) /\ Len(<<>>) = 0
  OBVIOUS
<1>2. <<>> \in Texts
  BY <1>1, Caps DEF Texts
<1> QED BY <1>2 DEF NoBatch, Batch

LEMMA PushLife ==
    ASSUME QueueTypes, BatchTypes, NEW kind \in Life, NEW c \in Calls, EmitLife(kind, c)
    PROVE  QueueTypes' /\ dropped' \in Nat /\ UNCHANGED <<pending, overtaken, logger, journal>>
<1> DEFINE e == <<kind, c>>
<1>1. e \in Life \X Calls
  OBVIOUS
<1>2. /\ UNCHANGED <<streamQueue, pending, overtaken, logger, journal>> /\ dropped' \in Nat
      /\ \/ queue' = queue
         \/ Len(queue) < LifeCap /\ queue' = Append(queue, e)
  BY DEF EmitLife, Refused, BatchTypes
<1> HIDE DEF e
<1>3. queue \in Seq(Life \X Calls) /\ Len(queue) \in Nat /\ LifeCap \in Nat
  BY Caps DEF QueueTypes
<1>4. queue' \in Seq(Life \X Calls) /\ Len(queue') <= LifeCap
  <2>1. CASE queue' = queue
    BY <2>1 DEF QueueTypes
  <2>2. CASE Len(queue) < LifeCap /\ queue' = Append(queue, e)
    BY <1>1, <1>3, <2>2
  <2> QED BY <1>2, <2>1, <2>2
<1> QED BY <1>2, <1>4 DEF QueueTypes

LEMMA PushStream ==
    ASSUME QueueTypes, BatchTypes, NEW k \in Keys, NEW n \in Nat \ {0}, EmitStream(k, n)
    PROVE  QueueTypes' /\ dropped' \in Nat /\ UNCHANGED <<pending, overtaken, logger, journal>>
<1> DEFINE e == <<k, n>>
<1>1. e \in Keys \X (Nat \ {0})
  OBVIOUS
<1>2. /\ UNCHANGED <<queue, pending, overtaken, logger, journal>> /\ dropped' \in Nat
      /\ \/ streamQueue' = streamQueue
         \/ Len(streamQueue) < StreamCap /\ streamQueue' = Append(streamQueue, e)
  BY DEF EmitStream, Refused, BatchTypes
<1> HIDE DEF e
<1>3. streamQueue \in Seq(Keys \X (Nat \ {0})) /\ Len(streamQueue) \in Nat /\ StreamCap \in Nat
  BY Caps DEF QueueTypes
<1>4. streamQueue' \in Seq(Keys \X (Nat \ {0})) /\ Len(streamQueue') <= StreamCap
  <2>1. CASE streamQueue' = streamQueue
    BY <2>1 DEF QueueTypes
  <2>2. CASE Len(streamQueue) < StreamCap /\ streamQueue' = Append(streamQueue, e)
    BY <1>1, <1>3, <2>2
  <2> QED BY <1>2, <2>1, <2>2
<1> QED BY <1>2, <1>4 DEF QueueTypes

LEMMA CoalesceType ==
    ASSUME NEW b \in Batch, NEW n \in Nat \ {0}
    PROVE  Coalesce(b, n) \in Batch
<1>1. b.texts \in Seq(Nat \ {0}) /\ Len(b.texts) <= BatchCap /\ b.count \in Nat /\ BatchCap \in Nat
  BY Caps DEF Batch, Texts
<1>2. b.texts \in Texts
  BY DEF Batch
<1>3. Len(b.texts) < BatchCap => Append(b.texts, n) \in Texts
  BY <1>1 DEF Texts
<1> QED BY <1>1, <1>2, <1>3 DEF Coalesce, Batch

LEMMA TailFits ==
    ASSUME NEW S, NEW s \in Seq(S), s # <<>>, NEW n \in Nat, Len(s) <= n
    PROVE  Head(s) \in S /\ Tail(s) \in Seq(S) /\ Len(Tail(s)) <= n
  BY HeadTailProperties

\* A line that is written is one more of the file; one that is not is counted.
LEMMA LinePushed ==
    ASSUME FileTypes, NEW l \in Lines, Put(l), viewer' = viewer
    PROVE  FileTypes'
<1>1. l.count \in Nat
  BY DEF Lines
<1>2. Append(journal, l) \in Seq(Lines)
  BY DEF FileTypes
<1>3. CASE journal' = Append(journal, l) /\ gone' = gone
  BY <1>2, <1>3 DEF FileTypes
<1>4. CASE journal' = journal /\ gone' = gone + l.count
  <2>1. gone + l.count \in Nat
    BY <1>1 DEF FileTypes
  <2> QED BY <1>4, <2>1 DEF FileTypes
<1> QED BY <1>3, <1>4 DEF Put

LEMMA HeadTypes ==
    ASSUME QueueTypes, FileTypes, queue # <<>>, WriteHead, viewer' = viewer
    PROVE  QueueTypes' /\ FileTypes' /\ overtaken' = 0 /\ UNCHANGED <<pending, dropped>>
<1> DEFINE l == Line(Head(queue)[1], <<Head(queue)[2], Nothing>>, <<>>, 1)
<1>1. /\ Put(l) /\ queue' = Tail(queue) /\ overtaken' = 0
      /\ UNCHANGED <<streamQueue, pending, dropped>>
  BY DEF WriteHead
<1>2. queue \in Seq(Life \X Calls) /\ Len(queue) <= LifeCap /\ LifeCap \in Nat
  BY Caps DEF QueueTypes
<1>3. Head(queue) \in Life \X Calls /\ queue' \in Seq(Life \X Calls) /\ Len(queue') <= LifeCap
  BY <1>1, <1>2, TailFits
<1>4. Head(queue)[1] \in Life /\ Head(queue)[2] \in Calls
  BY <1>3
<1>5. PICK none \in Texts : none = <<>>
  BY NoTexts
<1>6. l = [kind |-> Head(queue)[1], call |-> Head(queue)[2], stream |-> Nothing, texts |-> none, count |-> 1]
  BY <1>5 DEF Line
<1>7. l \in Lines
  BY <1>4, <1>6 DEF Lines
<1> HIDE DEF l
<1>8. FileTypes'
  BY <1>1, <1>7, LinePushed
<1> QED BY <1>1, <1>3, <1>8 DEF QueueTypes

LEMMA TakeTypes ==
    ASSUME QueueTypes, BatchTypes, TakeStream
    PROVE  QueueTypes' /\ BatchTypes' /\ journal' = journal
<1> DEFINE k == Head(streamQueue)[1]
           n == Head(streamQueue)[2]
<1>1. /\ streamQueue # <<>> /\ streamQueue' = Tail(streamQueue)
      /\ pending' = [pending EXCEPT ![k] = Coalesce(@, n)]
      /\ overtaken' = overtaken + 1 \/ overtaken' = overtaken
      /\ logger' = "first" /\ UNCHANGED <<queue, dropped, journal>>
  BY DEF TakeStream
<1>2. streamQueue \in Seq(Keys \X (Nat \ {0})) /\ Len(streamQueue) <= StreamCap /\ StreamCap \in Nat
  BY Caps DEF QueueTypes
<1>3. /\ Head(streamQueue) \in Keys \X (Nat \ {0})
      /\ streamQueue' \in Seq(Keys \X (Nat \ {0})) /\ Len(streamQueue') <= StreamCap
  BY <1>1, <1>2, TailFits
<1>4. k \in Keys /\ n \in Nat \ {0}
  BY <1>3
<1> HIDE DEF k, n
<1>5. pending \in [Keys -> Batch]
  BY DEF BatchTypes
<1>6. pending' \in [Keys -> Batch]
  <2>1. Coalesce(pending[k], n) \in Batch
    BY <1>4, <1>5, CoalesceType
  <2> QED BY <1>1, <1>4, <1>5, <2>1
<1>7. QueueTypes'
  BY <1>1, <1>3 DEF QueueTypes
<1>8. BatchTypes'
  BY <1>1, <1>6 DEF BatchTypes
<1> QED BY <1>1, <1>7, <1>8

LEMMA FlushTypes ==
    ASSUME BatchTypes, FileTypes, FlushOne, viewer' = viewer
    PROVE  BatchTypes' /\ FileTypes'
<1>1. PICK k \in Keys :
        /\ Flushed(k) /\ pending' = [pending EXCEPT ![k] = NoBatch]
        /\ Put(Line("stream", k, pending[k].texts, pending[k].count))
        /\ UNCHANGED <<logger, dropped, overtaken>>
  BY DEF FlushOne
<1>2. pending \in [Keys -> Batch]
  BY DEF BatchTypes
<1>3. BatchTypes'
  <2>1. pending' \in [Keys -> Batch]
    BY <1>1, <1>2, NoTexts
  <2> QED BY <1>1, <2>1 DEF BatchTypes
<1>4. pending[k].texts \in Texts /\ pending[k].count \in Nat \ {0}
  BY <1>1, <1>2 DEF Batch, Flushed
<1>5. k[1] \in Calls /\ k[2] \in Streams
  BY DEF Keys
<1>6. Line("stream", k, pending[k].texts, pending[k].count) \in Lines
  BY <1>4, <1>5 DEF Line, Lines
<1> QED BY <1>1, <1>3, <1>6, LinePushed

LEMMA ReportTypes ==
    ASSUME BatchTypes, FileTypes, Report, viewer' = viewer
    PROVE  BatchTypes' /\ FileTypes'
<1>1. /\ dropped' = 0 /\ logger' = "first" /\ UNCHANGED <<pending, overtaken>>
      /\ dropped = 0 => UNCHANGED <<journal, gone>>
      /\ dropped # 0 => Put(Line("dropped", <<Nothing, Nothing>>, <<>>, dropped))
  BY DEF Report, PutDropped
<1>2. BatchTypes'
  BY <1>1 DEF BatchTypes
<1>3. ASSUME dropped # 0 PROVE FileTypes'
  <2>1. PICK none \in Texts : none = <<>>
    BY NoTexts
  <2>2. PICK l : l = [kind |-> "dropped", call |-> Nothing, stream |-> Nothing, texts |-> none, count |-> dropped]
    OBVIOUS
  <2>3. dropped \in Nat \ {0}
    BY <1>3 DEF BatchTypes
  <2>4. l \in [kind : {"dropped"}, call : {Nothing}, stream : {Nothing}, texts : Texts, count : Nat \ {0}]
    BY <2>2, <2>3
  <2>5. l \in Lines
    BY <2>4 DEF Lines
  <2>6. Put(l)
    BY <1>1, <1>3, <2>1, <2>2 DEF Line
  <2> QED BY <2>5, <2>6, LinePushed
<1>4. ASSUME dropped = 0 PROVE FileTypes'
  BY <1>1, <1>4 DEF FileTypes
<1> QED BY <1>2, <1>3, <1>4

LEMMA FollowTypes ==
    ASSUME FileTypes, Follow
    PROVE  FileTypes'
<1> DEFINE news == SubSeq(journal, From + 1, Len(journal))
<1>1. /\ journal' = journal /\ gone' = gone
      /\ viewer' = [at |-> IF Len(journal) > From THEN Len(journal) ELSE From, shown |-> viewer.shown \o news]
  BY DEF Follow, loggerVars
<1>2. /\ journal \in Seq(Lines) /\ viewer.shown \in Seq(Lines) /\ Len(journal) \in Nat
      /\ From \in Nat
  BY DEF FileTypes, From
<1>3. news \in Seq(Lines)
  <2>1. \A i \in (From + 1)..Len(journal) : journal[i] \in Lines
    BY <1>2
  <2> QED BY <1>2, <2>1, SubSeqProperties
<1> HIDE DEF news
<1>4. viewer.shown \o news \in Seq(Lines)
  BY <1>2, <1>3, ConcatOf
<1> QED BY <1>1, <1>2, <1>4 DEF FileTypes

LEMMA RestartTypes ==
    ASSUME CallTypes, FileTypes, NewConnector, gone' \in Nat
    PROVE  CallTypes' /\ QueueTypes' /\ BatchTypes' /\ FileTypes'
<1>1. /\ queue' = <<>> /\ streamQueue' = <<>> /\ pending' = [k \in Keys |-> NoBatch]
      /\ dropped' = 0 /\ logger' = "first" /\ overtaken' = 0
      /\ journal' = <<>> \/ journal' = journal
      /\ UNCHANGED <<chunks, viewer>>
  BY DEF NewConnector
<1>2. CallTypes'
  <2>1. call' \in [Calls -> {"new", "running", "yielded", "returned", "killed"}] /\ ended' \in [Calls -> BOOLEAN]
    BY DEF NewConnector, CallTypes
  <2>2. restarts' \in 0..MaxRestarts
    BY Caps DEF NewConnector, CallTypes
  <2> QED BY <1>1, <2>1, <2>2 DEF CallTypes
<1>3. QueueTypes'
  <2>1. queue' \in Seq(Life \X Calls) /\ streamQueue' \in Seq(Keys \X (Nat \ {0}))
    BY <1>1
  <2>2. Len(queue') = 0 /\ Len(streamQueue') = 0
    BY <1>1
  <2> QED BY <2>1, <2>2, Caps DEF QueueTypes
<1>4. BatchTypes'
  BY <1>1, NoTexts DEF BatchTypes
<1>5. FileTypes'
  <2>1. <<>> \in Seq(Lines) /\ journal \in Seq(Lines)
    BY DEF FileTypes
  <2> QED BY <1>1, <2>1 DEF FileTypes
<1> QED BY <1>2, <1>3, <1>4, <1>5

-----------------------------------------------------------------------------
(* Counting events *)

\* A total over a finite domain is a natural number.
LEMMA TotalIsFinite ==
    ASSUME NEW S, IsFiniteSet(S), NEW f \in [S -> Nat]
    PROVE  IsFiniteSet(Units(f)) /\ Total(f) \in Nat
<1> DEFINE block == [x \in S |-> {x} \X (1..f[x])]
           blocks == {{x} \X (1..f[x]) : x \in S}
<1>1. block \in Surjection(S, blocks)
  <2>1. block \in [S -> blocks]
    OBVIOUS
  <2>2. \A b \in blocks : \E x \in S : block[x] = b
    OBVIOUS
  <2> QED BY <2>1, <2>2 DEF Surjection
<1>2. IsFiniteSet(blocks)
  BY <1>1, FS_Surjection
<1>3. \A b \in blocks : IsFiniteSet(b)
  <2> SUFFICES ASSUME NEW x \in S PROVE IsFiniteSet({x} \X (1..f[x]))
    OBVIOUS
  <2>1. f[x] \in Int /\ 1 \in Int
    OBVIOUS
  <2>2. IsFiniteSet(1..f[x])
    BY <2>1, FS_Interval
  <2>3. IsFiniteSet({x})
    BY FS_Singleton
  <2> QED BY <2>2, <2>3, FS_Product
<1>4. IsFiniteSet(UNION blocks)
  BY <1>2, <1>3, FS_UNION
<1>5. Units(f) = UNION blocks
  BY DEF Units
<1> QED BY <1>4, <1>5, FS_CardinalityType DEF Total

\* One term of a total, and the others.
LEMMA TotalSplits ==
    ASSUME NEW S, IsFiniteSet(S), NEW f \in [S -> Nat], NEW x \in S
    PROVE  /\ Total(f) = f[x] + Total([y \in S \ {x} |-> f[y]])
           /\ Total([y \in S \ {x} |-> f[y]]) \in Nat
<1> DEFINE g == [y \in S \ {x} |-> f[y]]
           A == {x} \X (1..f[x])
<1>1. IsFiniteSet(S \ {x}) /\ g \in [S \ {x} -> Nat] /\ \A y \in S \ {x} : g[y] = f[y]
  BY FS_RemoveElement
<1>2. IsFiniteSet(Units(g)) /\ Total(g) \in Nat
  BY <1>1, TotalIsFinite
<1>3. IsFiniteSet(A) /\ Cardinality(A) = f[x]
  <2>1. f[x] \in Nat /\ f[x] \in Int /\ 1 \in Int
    OBVIOUS
  <2>2. IsFiniteSet(1..f[x]) /\ Cardinality(1..f[x]) = IF 1 > f[x] THEN 0 ELSE f[x] - 1 + 1
    BY <2>1, FS_Interval
  <2>3. Cardinality(1..f[x]) = f[x]
    BY <2>1, <2>2
  <2>4. IsFiniteSet({x}) /\ Cardinality({x}) = 1
    BY FS_Singleton
  <2>5. IsFiniteSet(A) /\ Cardinality(A) = 1 * f[x]
    BY <2>2, <2>3, <2>4, FS_Product
  <2> QED BY <2>1, <2>5
<1>4. Units(f) = A \cup Units(g)
  BY <1>1 DEF Units
<1>5. A \cap Units(g) = {}
  BY <1>1 DEF Units
<1> HIDE DEF A, g
<1>6. Cardinality(Units(f)) = Cardinality(A) + Cardinality(Units(g)) - Cardinality({})
  BY <1>2, <1>3, <1>4, <1>5, FS_Union
<1>7. Cardinality({}) = 0
  BY FS_EmptySet
<1> QED BY <1>2, <1>3, <1>6, <1>7 DEF Total, g

\* A total of which one term changes, one that has a term more, and one of nothing.
LEMMA TotalChanges ==
    ASSUME NEW S, IsFiniteSet(S), NEW f \in [S -> Nat], NEW g \in [S -> Nat], NEW x \in S,
           \A y \in S \ {x} : g[y] = f[y]
    PROVE  Total(g) + f[x] = Total(f) + g[x] /\ Total(f) \in Nat /\ Total(g) \in Nat
<1>1. [y \in S \ {x} |-> g[y]] = [y \in S \ {x} |-> f[y]]
  OBVIOUS
<1>2. PICK r : r = Total([y \in S \ {x} |-> f[y]])
  OBVIOUS
<1>3. Total(f) = f[x] + r /\ Total(g) = g[x] + r /\ r \in Nat
  BY <1>1, <1>2, TotalSplits
<1> QED BY <1>3

LEMMA TotalGrows ==
    ASSUME NEW f, NEW g, NEW x, IsFiniteSet(DOMAIN f), x \notin DOMAIN f,
           f \in [DOMAIN f -> Nat], g \in [DOMAIN f \cup {x} -> Nat], \A y \in DOMAIN f : g[y] = f[y]
    PROVE  Total(g) = Total(f) + g[x]
<1> DEFINE S == DOMAIN f
           T == S \cup {x}
<1>1. IsFiniteSet(T) /\ T \ {x} = S /\ x \in T
  BY FS_AddElement
<1>2. [y \in T \ {x} |-> g[y]] = f
  BY <1>1
<1> HIDE DEF T
<1>3. g \in [T -> Nat]
  BY DEF T
<1>4. Total(g) = g[x] + Total(f) /\ Total(f) \in Nat
  BY <1>1, <1>2, <1>3, TotalSplits
<1>5. g[x] \in Nat
  BY <1>1, <1>3
<1> QED BY <1>4, <1>5

LEMMA TotalOfNothing ==
    ASSUME NEW f, \A x \in DOMAIN f : f[x] = 0
    PROVE  Total(f) = 0
<1>1. \A x \in DOMAIN f : 1..f[x] = {}
  OBVIOUS
<1>2. Units(f) = {}
  BY <1>1 DEF Units
<1> QED BY <1>2, FS_EmptySet DEF Total

LEMMA KeysFinite == IsFiniteSet(Keys) /\ IsFiniteSet(Calls)
  BY FiniteAssumption, FS_Product DEF Keys

\* What is produced, batched and written can be counted.
LEMMA CallCounts ==
    ASSUME CallTypes
    PROVE  LifeEvents \in [Calls -> Nat] /\ Total(LifeEvents) \in Nat /\ Total(chunks) \in Nat
<1>1. LifeEvents \in [Calls -> Nat]
  BY DEF LifeEvents
<1>2. chunks \in [Keys -> Nat]
  BY DEF CallTypes
<1> QED BY <1>1, <1>2, KeysFinite, TotalIsFinite

LEMMA BatchCounts ==
    ASSUME BatchTypes
    PROVE  [k \in Keys |-> pending[k].count] \in [Keys -> Nat] /\ Batched \in Nat
<1>1. \A k \in Keys : pending[k].count \in Nat
  BY DEF BatchTypes, Batch
<1>2. [k \in Keys |-> pending[k].count] \in [Keys -> Nat]
  BY <1>1
<1> QED BY <1>2, KeysFinite, TotalIsFinite DEF Batched

LEMMA LineCounts ==
    ASSUME NEW lines \in Seq(Lines)
    PROVE  Counted(lines) \in Nat
<1>1. DOMAIN lines = 1..Len(lines) /\ Len(lines) \in Nat
  OBVIOUS
<1>2. \A i \in DOMAIN lines : lines[i].count \in Nat
  <2> SUFFICES ASSUME NEW i \in DOMAIN lines PROVE lines[i].count \in Nat
    OBVIOUS
  <2>1. lines[i] \in Lines
    BY <1>1
  <2> QED BY <2>1 DEF Lines
<1>3. IsFiniteSet(DOMAIN lines)
  <2>1. IsFiniteSet(1..Len(lines))
    BY <1>1, FS_Interval
  <2> QED BY <1>1, <2>1
<1>4. [i \in DOMAIN lines |-> lines[i].count] \in [DOMAIN lines -> Nat]
  BY <1>2
<1> QED BY <1>3, <1>4, TotalIsFinite DEF Counted

\* A line adds to the file the events that it stands for.
LEMMA LineAdds ==
    ASSUME NEW lines \in Seq(Lines), NEW l \in Lines
    PROVE  Counted(Append(lines, l)) = Counted(lines) + l.count
<1> DEFINE more == Append(lines, l)
           x == Len(lines) + 1
           f == [i \in DOMAIN lines |-> lines[i].count]
           g == [i \in DOMAIN more |-> more[i].count]
<1>1. /\ Len(lines) \in Nat /\ DOMAIN lines = 1..Len(lines) /\ more \in Seq(Lines)
      /\ DOMAIN more = 1..Len(lines) + 1 /\ more[x] = l
      /\ \A i \in 1..Len(lines) : more[i] = lines[i]
  OBVIOUS
<1>2. x \notin DOMAIN lines /\ DOMAIN more = DOMAIN lines \cup {x}
  BY <1>1
<1>3. IsFiniteSet(1..Len(lines))
  BY <1>1, FS_Interval
<1> HIDE DEF more, x
<1>4. (\A i \in DOMAIN lines : lines[i] \in Lines) /\ \A i \in DOMAIN more : more[i] \in Lines
  BY <1>1
<1>5. \A e \in Lines : e.count \in Nat
  BY DEF Lines
<1>6. f \in [DOMAIN lines -> Nat] /\ g \in [DOMAIN lines \cup {x} -> Nat]
  BY <1>2, <1>4, <1>5
<1>7. \A i \in DOMAIN lines : g[i] = f[i]
  BY <1>1, <1>2
<1>8. g[x] = l.count
  BY <1>1, <1>2
<1> HIDE DEF f, g
<1>9. PICK D, z, p, q : D = DOMAIN lines /\ z = x /\ p = f /\ q = g
  OBVIOUS
<1>10. /\ D = DOMAIN p /\ IsFiniteSet(D) /\ z \notin D /\ p \in [D -> Nat]
       /\ q \in [D \cup {z} -> Nat] /\ \A y \in D : q[y] = p[y]
  BY <1>1, <1>2, <1>3, <1>6, <1>7, <1>9
<1>11. Total(q) = Total(p) + q[z]
  BY <1>10, TotalGrows
<1>12. Counted(lines) = Total(f)
  BY DEF Counted, f
<1>13. Counted(more) = Total(g)
  BY DEF Counted, g
<1> QED BY <1>8, <1>9, <1>11, <1>12, <1>13 DEF more

\* The events that are in the file, or gone: a line that is to be written adds
\* what it stands for, whether it can be written or not.
Settled == Counted(journal) + gone

LEMMA LineSettles ==
    ASSUME FileTypes, NEW l \in Lines, Put(l)
    PROVE  Settled \in Nat /\ Settled' \in Nat /\ Settled' = Settled + l.count
<1>1. journal \in Seq(Lines) /\ gone \in Nat
  BY DEF FileTypes
<1>2. l.count \in Nat
  BY DEF Lines
<1>3. PICK j \in Nat, g \in Nat, n \in Nat : j = Counted(journal) /\ g = gone /\ n = l.count
  BY <1>1, <1>2, LineCounts
<1>4. Settled = j + g
  BY <1>3 DEF Settled
<1>5. CASE journal' = Append(journal, l) /\ gone' = gone
  <2>1. Counted(journal)' = j + n
    BY <1>1, <1>3, <1>5, LineAdds
  <2>2. Settled' = (j + n) + g
    BY <1>3, <1>5, <2>1 DEF Settled
  <2> QED BY <1>3, <1>4, <2>2
<1>6. CASE journal' = journal /\ gone' = gone + l.count
  <2>1. Settled' = j + (g + n)
    BY <1>3, <1>6 DEF Settled
  <2> QED BY <1>3, <1>4, <2>1
<1> QED BY <1>5, <1>6 DEF Put

\* Nothing of what is counted changes but the file, the batches or the calls.
LEMMA LifeCounted ==
    ASSUME CallTypes, NEW c \in Calls, NEW s \in {"running", "yielded", "returned"},
           call' = [call EXCEPT ![c] = s], LifeEvents'[c] = LifeEvents[c] + 1
    PROVE  Total(LifeEvents)' = Total(LifeEvents) + 1
<1>1. LifeEvents \in [Calls -> Nat] /\ LifeEvents' \in [Calls -> Nat]
  BY DEF LifeEvents
<1>2. \A d \in Calls \ {c} : LifeEvents'[d] = LifeEvents[d]
  BY DEF LifeEvents, CallTypes
<1>3. PICK f \in [Calls -> Nat], g \in [Calls -> Nat] : f = LifeEvents /\ g = LifeEvents'
  BY <1>1
<1>4. (\A y \in Calls \ {c} : g[y] = f[y]) /\ g[c] = f[c] + 1
  BY <1>2, <1>3
<1>5. Total(g) + f[c] = Total(f) + g[c] /\ Total(f) \in Nat /\ Total(g) \in Nat
  BY <1>4, KeysFinite, TotalChanges
<1>6. f[c] \in Nat
  OBVIOUS
<1>7. Total(g) = Total(f) + 1
  BY <1>4, <1>5, <1>6
<1> QED BY <1>3, <1>7

LEMMA ChunkCounted ==
    ASSUME CallTypes, NEW k \in Keys, chunks' = [chunks EXCEPT ![k] = @ + 1]
    PROVE  Total(chunks)' = Total(chunks) + 1
<1>1. PICK f \in [Keys -> Nat], g \in [Keys -> Nat] : f = chunks /\ g = chunks'
  BY DEF CallTypes
<1>2. (\A y \in Keys \ {k} : g[y] = f[y]) /\ g[k] = f[k] + 1 /\ f[k] \in Nat
  BY <1>1
<1>3. Total(g) + f[k] = Total(f) + g[k] /\ Total(f) \in Nat /\ Total(g) \in Nat
  BY <1>2, KeysFinite, TotalChanges
<1>4. Total(g) = Total(f) + 1
  BY <1>2, <1>3
<1> QED BY <1>1, <1>4

LEMMA BatchCounted ==
    ASSUME BatchTypes, NEW k \in Keys, NEW b \in Batch, pending' = [pending EXCEPT ![k] = b]
    PROVE  Batched' + pending[k].count = Batched + b.count /\ Batched' \in Nat
<1>1. /\ \A j \in Keys : pending[j].count \in Nat
      /\ b.count \in Nat
      /\ \A j \in Keys : pending'[j] = IF j = k THEN b ELSE pending[j]
  BY DEF BatchTypes, Batch
<1>2. PICK f \in [Keys -> Nat] : f = [j \in Keys |-> pending[j].count]
  BY <1>1
<1>3. PICK g \in [Keys -> Nat] : g = [j \in Keys |-> pending'[j].count]
  BY <1>1
<1>4. (\A y \in Keys \ {k} : g[y] = f[y]) /\ g[k] = b.count /\ f[k] = pending[k].count
  BY <1>1, <1>2, <1>3
<1>5. Total(g) + f[k] = Total(f) + g[k] /\ Total(g) \in Nat
  BY <1>4, KeysFinite, TotalChanges
<1> QED BY <1>2, <1>3, <1>4, <1>5 DEF Batched

\* The two sides of the account, and an account that balances.
LEMMA LedgerCounts ==
    ASSUME LogTypeOK
    PROVE  /\ Total(chunks) \in Nat /\ Total(LifeEvents) \in Nat
           /\ Counted(journal) \in Nat /\ Batched \in Nat /\ OnTheWay \in Nat
           /\ Len(queue) \in Nat /\ Len(streamQueue) \in Nat /\ dropped \in Nat /\ gone \in Nat
           /\ Settled \in Nat
<1>1. CallTypes /\ QueueTypes /\ BatchTypes /\ FileTypes
  BY LogTypeParts
<1>2. Total(chunks) \in Nat /\ Total(LifeEvents) \in Nat
  BY <1>1, CallCounts
<1>3. journal \in Seq(Lines)
  BY <1>1 DEF FileTypes
<1>4. Counted(journal) \in Nat /\ Batched \in Nat
  BY <1>1, <1>3, LineCounts, BatchCounts
<1>5. Len(queue) \in Nat /\ Len(streamQueue) \in Nat
  BY <1>1 DEF QueueTypes
<1>6. dropped \in Nat /\ gone \in Nat
  BY <1>1 DEF BatchTypes, FileTypes
<1> QED BY <1>2, <1>4, <1>5, <1>6 DEF OnTheWay, Settled

\* An event that is emitted has a place in its queue, or is counted as dropped.
LEMMA Emitted ==
    ASSUME LogTypeOK
    PROVE  /\ \A kind \in Life, c \in Calls : EmitLife(kind, c) =>
                OnTheWay' = OnTheWay + 1 /\ journal' = journal
           /\ \A k \in Keys, n \in Nat \ {0} : EmitStream(k, n) =>
                OnTheWay' = OnTheWay + 1 /\ journal' = journal
<1>1. Len(queue) \in Nat /\ Len(streamQueue) \in Nat /\ dropped \in Nat /\ Batched \in Nat
  BY LedgerCounts
<1>4. queue \in Seq(Life \X Calls) /\ streamQueue \in Seq(Keys \X (Nat \ {0}))
  BY DEF LogTypeOK
<1>2. ASSUME NEW kind \in Life, NEW c \in Calls, EmitLife(kind, c)
      PROVE  OnTheWay' = OnTheWay + 1 /\ journal' = journal
  <2>1. PICK e \in Life \X Calls : e = <<kind, c>>
    OBVIOUS
  <2>2. \/ queue' = Append(queue, e) /\ dropped' = dropped
        \/ queue' = queue /\ dropped' = dropped + 1
    BY <1>2, <2>1 DEF EmitLife, Refused
  <2>3. UNCHANGED <<streamQueue, pending, journal>>
    BY <1>2 DEF EmitLife
  <2>4. Batched' = Batched
    BY <2>3 DEF Batched
  <2>5. /\ Len(queue') \in Nat /\ dropped' \in Nat
        /\ Len(queue') + dropped' = Len(queue) + dropped + 1
    <3>1. CASE queue' = Append(queue, e) /\ dropped' = dropped
      <4>1. Len(queue') = Len(queue) + 1
        BY <1>4, <2>1, <3>1, AppendProperties
      <4> QED BY <1>1, <3>1, <4>1
    <3>2. CASE queue' = queue /\ dropped' = dropped + 1
      BY <1>1, <3>2
    <3> QED BY <2>2, <3>1, <3>2
  <2>6. Len(streamQueue') = Len(streamQueue)
    BY <2>3
  <2>7. PICK a \in Nat, b \in Nat, x \in Nat, d \in Nat, m \in Nat, w \in Nat :
          /\ a = Len(queue) /\ b = Len(streamQueue) /\ x = dropped /\ d = Batched
          /\ m = Len(queue') /\ w = dropped'
    BY <1>1, <2>5
  <2>8. OnTheWay = a + b + x + d /\ OnTheWay' = m + b + w + d /\ m + w = a + x + 1
    BY <2>4, <2>5, <2>6, <2>7 DEF OnTheWay
  <2>9. OnTheWay' = OnTheWay + 1
    BY <2>8
  <2> QED BY <2>3, <2>9
<1>3. ASSUME NEW k \in Keys, NEW n \in Nat \ {0}, EmitStream(k, n)
      PROVE  OnTheWay' = OnTheWay + 1 /\ journal' = journal
  <2>1. PICK e \in Keys \X (Nat \ {0}) : e = <<k, n>>
    OBVIOUS
  <2>2. \/ streamQueue' = Append(streamQueue, e) /\ dropped' = dropped
        \/ streamQueue' = streamQueue /\ dropped' = dropped + 1
    BY <1>3, <2>1 DEF EmitStream, Refused
  <2>3. UNCHANGED <<queue, pending, journal>>
    BY <1>3 DEF EmitStream
  <2>4. Batched' = Batched
    BY <2>3 DEF Batched
  <2>5. /\ Len(streamQueue') \in Nat /\ dropped' \in Nat
        /\ Len(streamQueue') + dropped' = Len(streamQueue) + dropped + 1
    <3>1. CASE streamQueue' = Append(streamQueue, e) /\ dropped' = dropped
      <4>1. Len(streamQueue') = Len(streamQueue) + 1
        BY <1>4, <2>1, <3>1, AppendProperties
      <4> QED BY <1>1, <3>1, <4>1
    <3>2. CASE streamQueue' = streamQueue /\ dropped' = dropped + 1
      BY <1>1, <3>2
    <3> QED BY <2>2, <3>1, <3>2
  <2>6. Len(queue') = Len(queue)
    BY <2>3
  <2>7. PICK a \in Nat, b \in Nat, c \in Nat, d \in Nat, m \in Nat, w \in Nat :
          /\ a = Len(queue) /\ b = Len(streamQueue) /\ c = dropped /\ d = Batched
          /\ m = Len(streamQueue') /\ w = dropped'
    BY <1>1, <2>5
  <2>8. OnTheWay = a + b + c + d /\ OnTheWay' = a + m + w + d /\ m + w = b + c + 1
    BY <2>4, <2>5, <2>6, <2>7 DEF OnTheWay
  <2>9. OnTheWay' = OnTheWay + 1
    BY <2>8
  <2> QED BY <2>3, <2>9
<1> QED BY <1>2, <1>3

\* Writing moves events from their way to the file.
LEMMA HeadMoves ==
    ASSUME LogTypeOK, queue # <<>>, WriteHead
    PROVE  /\ OnTheWay' + 1 = OnTheWay /\ OnTheWay' \in Nat
           /\ Settled' = Settled + 1 /\ Settled' \in Nat
<1>1. /\ Len(queue) \in Nat /\ Len(streamQueue) \in Nat /\ dropped \in Nat /\ Batched \in Nat
      /\ queue \in Seq(Life \X Calls) /\ FileTypes
  BY LedgerCounts, LogTypeParts DEF LogTypeOK
<1>2. PICK none \in Texts : none = <<>>
  BY NoTexts
<1>3. PICK l : l = Line(Head(queue)[1], <<Head(queue)[2], Nothing>>, none, 1)
  OBVIOUS
<1>4. /\ Put(l) /\ queue' = Tail(queue)
      /\ UNCHANGED <<streamQueue, dropped>> /\ Batched' = Batched
  BY <1>2, <1>3 DEF WriteHead, Batched
<1>5. Head(queue) \in Life \X Calls /\ Len(Tail(queue)) + 1 = Len(queue) /\ Len(Tail(queue)) \in Nat
  BY <1>1, HeadTailProperties
<1>6. Head(queue)[1] \in Life /\ Head(queue)[2] \in Calls
  BY <1>5
<1>7. l \in Lines /\ l.count = 1
  BY <1>3, <1>6 DEF Line, Lines
<1>8. Settled' = Settled + 1 /\ Settled' \in Nat
  BY <1>1, <1>4, <1>7, LineSettles
<1> QED BY <1>1, <1>4, <1>5, <1>8 DEF OnTheWay

LEMMA TakeMoves ==
    ASSUME LogTypeOK, TakeStream
    PROVE  OnTheWay' = OnTheWay /\ Settled' = Settled
<1>1. /\ Len(queue) \in Nat /\ Len(streamQueue) \in Nat /\ dropped \in Nat /\ Batched \in Nat
      /\ streamQueue \in Seq(Keys \X (Nat \ {0}))
  BY LedgerCounts DEF LogTypeOK
<1>2. PICK k, n : k = Head(streamQueue)[1] /\ n = Head(streamQueue)[2]
  OBVIOUS
<1>3. /\ streamQueue # <<>> /\ streamQueue' = Tail(streamQueue)
      /\ pending' = [pending EXCEPT ![k] = Coalesce(@, n)]
      /\ UNCHANGED <<queue, dropped, journal, gone>>
  BY <1>2 DEF TakeStream
<1>4. /\ Head(streamQueue) \in Keys \X (Nat \ {0})
      /\ Len(Tail(streamQueue)) + 1 = Len(streamQueue) /\ Len(Tail(streamQueue)) \in Nat
  BY <1>1, <1>3, HeadTailProperties
<1>5. k \in Keys /\ n \in Nat \ {0} /\ BatchTypes
  BY <1>2, <1>4, LogTypeParts
<1>6. pending[k] \in Batch /\ pending[k].count \in Nat
  BY <1>5 DEF BatchTypes, Batch
<1>7. PICK b : b = Coalesce(pending[k], n)
  OBVIOUS
<1>8. b \in Batch /\ b.count = pending[k].count + 1
  BY <1>5, <1>6, <1>7, CoalesceType DEF Coalesce
<1>9. pending' = [pending EXCEPT ![k] = b]
  BY <1>3, <1>7
<1>10. Batched' + pending[k].count = Batched + b.count /\ Batched' \in Nat
  BY <1>5, <1>8, <1>9, BatchCounted
<1>11. Batched' = Batched + 1
  BY <1>1, <1>6, <1>8, <1>10
<1> QED BY <1>1, <1>3, <1>4, <1>11 DEF OnTheWay, Settled

LEMMA FlushMoves ==
    ASSUME LogTypeOK, FlushOne
    PROVE  /\ OnTheWay' + Settled' = OnTheWay + Settled
           /\ OnTheWay' \in Nat /\ Settled' \in Nat
<1>0. /\ Len(queue) \in Nat /\ Len(streamQueue) \in Nat /\ dropped \in Nat /\ Batched \in Nat
      /\ Settled \in Nat
  BY LedgerCounts
<1>1. FileTypes /\ BatchTypes
  BY LogTypeParts
<1>2. PICK k \in Keys :
        /\ Flushed(k) /\ pending' = [pending EXCEPT ![k] = NoBatch]
        /\ Put(Line("stream", k, pending[k].texts, pending[k].count))
        /\ UNCHANGED <<queue, streamQueue, dropped>>
  BY DEF FlushOne
<1>3. pending[k].texts \in Texts /\ pending[k].count \in Nat \ {0}
  BY <1>1, <1>2 DEF BatchTypes, Batch, Flushed
<1>4. k[1] \in Calls /\ k[2] \in Streams
  BY DEF Keys
<1>5. PICK l : l = Line("stream", k, pending[k].texts, pending[k].count)
  OBVIOUS
<1>6. l \in Lines /\ l.count = pending[k].count
  BY <1>3, <1>4, <1>5 DEF Line, Lines
<1>7. Settled' = Settled + pending[k].count
  BY <1>1, <1>2, <1>5, <1>6, LineSettles
<1>8. NoBatch \in Batch /\ NoBatch.count = 0
  BY NoTexts DEF NoBatch
<1>9. Batched' + pending[k].count = Batched + 0 /\ Batched' \in Nat
  BY <1>1, <1>2, <1>8, BatchCounted
<1>10. PICK a \in Nat, b \in Nat, c \in Nat, d \in Nat, m \in Nat, n \in Nat, w \in Nat :
         /\ a = Len(queue) /\ b = Len(streamQueue) /\ c = dropped /\ d = Batched
         /\ m = Batched' /\ n = pending[k].count /\ w = Settled
  BY <1>0, <1>3, <1>9
<1>11. OnTheWay = a + b + c + d /\ OnTheWay' = a + b + c + m /\ Settled' = w + n
  BY <1>2, <1>7, <1>10 DEF OnTheWay
<1>12. m + n = d
  BY <1>9, <1>10
<1>13. (a + b + c + m) + (w + n) = (a + b + c + d) + w
  BY <1>12
<1>14. a + b + c + m \in Nat /\ w + n \in Nat
  OBVIOUS
<1>15. OnTheWay' + Settled' = OnTheWay + Settled
  BY <1>10, <1>11, <1>13
<1> QED BY <1>11, <1>14, <1>15

LEMMA ReportMoves ==
    ASSUME LogTypeOK, Report
    PROVE  /\ OnTheWay' + Settled' = OnTheWay + Settled
           /\ OnTheWay' \in Nat /\ Settled' \in Nat
<1>1. /\ Len(queue) \in Nat /\ Len(streamQueue) \in Nat /\ dropped \in Nat /\ Batched \in Nat
      /\ Settled \in Nat /\ FileTypes
  BY LedgerCounts, LogTypeParts
<1>2. PICK none \in Texts : none = <<>>
  BY NoTexts
<1>3. PICK l : l = Line("dropped", <<Nothing, Nothing>>, none, dropped)
  OBVIOUS
<1>4. /\ dropped' = 0 /\ UNCHANGED <<queue, streamQueue>> /\ Batched' = Batched
      /\ dropped = 0 => UNCHANGED <<journal, gone>>
      /\ dropped # 0 => Put(l)
  BY <1>2, <1>3 DEF Report, PutDropped, Batched
<1>5. ASSUME dropped # 0 PROVE Settled' = Settled + dropped
  <2>1. dropped \in Nat \ {0}
    BY <1>1, <1>5
  <2>2. l \in [kind : {"dropped"}, call : {Nothing}, stream : {Nothing}, texts : Texts, count : Nat \ {0}]
    BY <1>3, <2>1 DEF Line
  <2>3. l \in Lines /\ l.count = dropped
    BY <1>3, <2>2 DEF Line, Lines
  <2> QED BY <1>1, <1>4, <1>5, <2>3, LineSettles
<1>6. CASE dropped = 0
  BY <1>1, <1>4, <1>6 DEF OnTheWay, Settled
<1>7. CASE dropped # 0
  BY <1>1, <1>4, <1>5, <1>7 DEF OnTheWay
<1> QED BY <1>6, <1>7

LEMMA NoLines == Counted(<<>>) = 0
<1>1. PICK f : f = [i \in DOMAIN <<>> |-> <<>>[i].count]
  OBVIOUS
<1>2. \A i \in DOMAIN f : f[i] = 0
  BY <1>1
<1> QED BY <1>1, <1>2, TotalOfNothing DEF Counted

\* What a restart and a rotation take away is counted as gone.
LEMMA RestartTakes ==
    ASSUME LogTypeOK, NewConnector
    PROVE  /\ gone' \in Nat /\ Settled' \in Nat /\ OnTheWay' = 0
           /\ Settled' = Settled + OnTheWay
           /\ Total(LifeEvents)' = Total(LifeEvents) /\ chunks' = chunks
<1>1. Counted(journal) \in Nat /\ OnTheWay \in Nat /\ gone \in Nat
  BY LedgerCounts
<1>2. OnTheWay' = 0
  <2>1. queue' = <<>> /\ streamQueue' = <<>> /\ dropped' = 0 /\ pending' = [k \in Keys |-> NoBatch]
    BY DEF NewConnector
  <2>2. \A k \in Keys : pending'[k].count = 0
    BY <2>1 DEF NoBatch
  <2>3. Batched' = 0
    <3>1. PICK f : f = [k \in Keys |-> pending'[k].count]
      OBVIOUS
    <3>2. \A k \in DOMAIN f : f[k] = 0
      BY <2>2, <3>1
    <3> QED BY <3>1, <3>2, TotalOfNothing DEF Batched
  <2>4. Len(queue') = 0 /\ Len(streamQueue') = 0
    BY <2>1
  <2> QED BY <2>1, <2>3, <2>4 DEF OnTheWay
<1>4. /\ \/ journal' = journal /\ gone' = gone + OnTheWay
         \/ journal' = <<>> /\ gone' = gone + OnTheWay + Counted(journal)
      /\ chunks' = chunks
  BY DEF NewConnector
<1>3. gone' \in Nat /\ Settled' \in Nat /\ Settled' = Settled + OnTheWay
  <2>1. CASE journal' = <<>> /\ gone' = gone + OnTheWay + Counted(journal)
    BY <1>1, <2>1, NoLines DEF Settled
  <2>2. CASE journal' = journal /\ gone' = gone + OnTheWay
    BY <1>1, <2>2 DEF Settled
  <2> QED BY <1>4, <2>1, <2>2
<1>5. LifeEvents' = LifeEvents
  BY DEF LifeEvents, NewConnector, LogTypeOK
<1> QED BY <1>2, <1>3, <1>4, <1>5

-----------------------------------------------------------------------------
(* The account of the event log *)

\* Queues and batches keep to their capacities, and every line that is written,
\* rotated or shown is one the code writes, for any number of calls.
THEOREM LogTypeCorrect == LogSpec => []LogTypeOK
<1>1. LogInit => LogTypeOK
  <2> SUFFICES ASSUME LogInit PROVE LogTypeOK
    OBVIOUS
  <2>1. CallTypes /\ BatchTypes
    BY Caps, NoTexts DEF LogInit, CallTypes, BatchTypes
  <2>2. QueueTypes
    <3>1. queue \in Seq(Life \X Calls) /\ streamQueue \in Seq(Keys \X (Nat \ {0}))
      BY DEF LogInit
    <3>2. Len(queue) = 0 /\ Len(streamQueue) = 0
      BY DEF LogInit
    <3> QED BY <3>1, <3>2, Caps DEF QueueTypes
  <2>3. FileTypes
    <3>1. <<>> \in Seq(Lines)
      OBVIOUS
    <3> QED BY <3>1 DEF LogInit, FileTypes
  <2> QED BY <2>1, <2>2, <2>3, LogTypeParts
<1>2. LogTypeOK /\ [LogNext]_logVars => LogTypeOK'
  <2> SUFFICES ASSUME LogTypeOK, [LogNext]_logVars PROVE LogTypeOK'
    OBVIOUS
  <2>1. CallTypes /\ QueueTypes /\ BatchTypes /\ FileTypes
    BY LogTypeParts
  <2>2. CallTypes' /\ QueueTypes' /\ BatchTypes' /\ FileTypes' => LogTypeOK'
    BY LogTypeParts, PTL
  <2>3. ASSUME NEW c \in Calls, NEW kind \in Life, NEW s \in {"running", "yielded", "returned"},
               EmitLife(kind, c), call' = [call EXCEPT ![c] = s],
               UNCHANGED <<ended, chunks, restarts, gone, viewer>>
        PROVE  LogTypeOK'
    <3>1. QueueTypes' /\ dropped' \in Nat /\ UNCHANGED <<pending, overtaken, logger, journal>>
      BY <2>1, <2>3, PushLife
    <3>2. CallTypes'
      BY <2>1, <2>3 DEF CallTypes
    <3>3. BatchTypes' /\ FileTypes'
      BY <2>1, <2>3, <3>1 DEF BatchTypes, FileTypes
    <3> QED BY <2>2, <3>1, <3>2, <3>3
  <2>4. ASSUME NEW c \in Calls, Start(c) PROVE LogTypeOK'
    BY <2>3, <2>4 DEF Start, Life
  <2>5. ASSUME NEW c \in Calls, Succeed(c) PROVE LogTypeOK'
    BY <2>3, <2>5 DEF Succeed, Life
  <2>6. ASSUME NEW c \in Calls, Yield(c) PROVE LogTypeOK'
    BY <2>3, <2>6 DEF Yield, Life
  <2>7. ASSUME NEW c \in Calls, End(c) PROVE LogTypeOK'
    <3>1. CallTypes'
      BY <2>1, <2>7 DEF End, CallTypes
    <3>2. QueueTypes' /\ BatchTypes' /\ FileTypes'
      BY <2>1, <2>7 DEF End, loggerVars, QueueTypes, BatchTypes, FileTypes
    <3> QED BY <2>2, <3>1, <3>2
  <2>8. ASSUME NEW k \in Keys, Output(k) PROVE LogTypeOK'
    <3>1. /\ chunks[k] + 1 \in Nat \ {0} /\ chunks' \in [Keys -> Nat]
          /\ UNCHANGED <<call, ended, restarts, gone, viewer>>
      BY <2>1, <2>8 DEF Output, CallTypes
    <3>2. QueueTypes' /\ dropped' \in Nat /\ UNCHANGED <<pending, overtaken, logger, journal>>
      BY <2>1, <2>8, <3>1, PushStream DEF Output
    <3>3. CallTypes' /\ BatchTypes' /\ FileTypes'
      BY <2>1, <3>1, <3>2 DEF CallTypes, BatchTypes, FileTypes
    <3> QED BY <2>2, <3>2, <3>3
  <2>9. ASSUME Loop PROVE CallTypes' /\ viewer' = viewer
    BY <2>1, <2>9 DEF Loop, Logging, callVars, CallTypes
  <2>10. CASE Logging(First) \/ Logging(SelectLife) \/ Logging(SelectTick)
    <3>1. CallTypes' /\ viewer' = viewer
      BY <2>9, <2>10 DEF Loop
    <3>2. CASE queue # <<>> /\ WriteHead /\ logger' = "first"
      <4>1. QueueTypes' /\ FileTypes' /\ overtaken' = 0 /\ UNCHANGED <<pending, dropped>>
        BY <2>1, <3>1, <3>2, HeadTypes
      <4>2. BatchTypes'
        BY <2>1, <3>2, <4>1 DEF BatchTypes
      <4> QED BY <2>2, <3>1, <4>1, <4>2
    <3>3. CASE /\ UNCHANGED <<queue, streamQueue, pending, dropped, journal, overtaken, gone>>
               /\ logger' \in {"select", "flush"}
      <4>1. QueueTypes' /\ BatchTypes' /\ FileTypes'
        BY <2>1, <3>1, <3>3 DEF QueueTypes, BatchTypes, FileTypes
      <4> QED BY <2>2, <3>1, <4>1
    <3> QED BY <2>10, <3>2, <3>3 DEF Logging, First, SelectLife, SelectTick
  <2>11. CASE Logging(SelectStream)
    <3>1. CallTypes' /\ viewer' = viewer /\ TakeStream
      BY <2>9, <2>11 DEF Loop, Logging, SelectStream
    <3>2. QueueTypes' /\ BatchTypes' /\ journal' = journal
      BY <2>1, <3>1, TakeTypes
    <3>3. FileTypes'
      BY <2>1, <3>1, <3>2 DEF FileTypes, TakeStream
    <3> QED BY <2>2, <3>1, <3>2, <3>3
  <2>12. CASE Logging(FlushOne)
    <3>1. CallTypes' /\ viewer' = viewer /\ FlushOne
      BY <2>9, <2>12 DEF Loop, Logging
    <3>2. QueueTypes'
      BY <2>1, <3>1 DEF FlushOne, QueueTypes
    <3> QED BY <2>1, <2>2, <3>1, <3>2, FlushTypes
  <2>13. CASE Logging(Report)
    <3>1. CallTypes' /\ viewer' = viewer /\ Report
      BY <2>9, <2>13 DEF Loop, Logging
    <3>2. QueueTypes'
      BY <2>1, <3>1 DEF Report, QueueTypes
    <3> QED BY <2>1, <2>2, <3>1, <3>2, ReportTypes
  <2>14. CASE NewConnector
    BY <2>1, <2>2, <2>14, RestartTakes, RestartTypes
  <2>15. CASE Follow
    <3>1. CallTypes' /\ QueueTypes' /\ BatchTypes'
      BY <2>1, <2>15 DEF Follow, callVars, loggerVars, CallTypes, QueueTypes, BatchTypes
    <3> QED BY <2>1, <2>2, <2>15, <3>1, FollowTypes
  <2>16. CASE UNCHANGED logVars
    BY <2>16 DEF logVars, callVars, loggerVars, LogTypeOK
  <2> QED
    BY <2>4, <2>5, <2>6, <2>7, <2>8, <2>10, <2>11, <2>12, <2>13, <2>14, <2>15, <2>16 DEF LogNext, Loop
<1> QED BY <1>1, <1>2, PTL DEF LogSpec

\* The account, with one total of what is settled.
Ledger == Total(chunks) + Total(LifeEvents) = Settled + OnTheWay

\* Every event is in the file, on its way, counted or taken, for any number of calls,
\* queues, batches and files of any length, and any number of restarts.
THEOREM Balance == LogSpec => []NothingVanishes
<1>1. LogInit => NothingVanishes
  <2> SUFFICES ASSUME LogInit PROVE NothingVanishes
    OBVIOUS
  <2>1. /\ call = [c \in Calls |-> "new"] /\ chunks = [k \in Keys |-> 0]
        /\ queue = <<>> /\ streamQueue = <<>> /\ pending = [k \in Keys |-> NoBatch]
        /\ dropped = 0 /\ journal = <<>> /\ gone = 0
    BY DEF LogInit
  <2>2. \A c \in Calls : LifeEvents[c] = 0
    BY <2>1 DEF LifeEvents
  <2>3. Total(LifeEvents) = 0
    BY <2>2, TotalOfNothing DEF LifeEvents
  <2>4. Total(chunks) = 0
    <3>1. PICK f : f = [k \in Keys |-> 0]
      OBVIOUS
    <3>2. \A k \in DOMAIN f : f[k] = 0
      BY <3>1
    <3> QED BY <2>1, <3>1, <3>2, TotalOfNothing
  <2>5. Batched = 0
    <3>1. PICK f : f = [k \in Keys |-> pending[k].count]
      OBVIOUS
    <3>2. \A k \in DOMAIN f : f[k] = 0
      BY <2>1, <3>1 DEF NoBatch
    <3> QED BY <3>1, <3>2, TotalOfNothing DEF Batched
  <2>6. Counted(journal) = 0
    BY <2>1, NoLines
  <2>7. Len(queue) = 0 /\ Len(streamQueue) = 0
    BY <2>1
  <2> QED BY <2>1, <2>3, <2>4, <2>5, <2>6, <2>7 DEF NothingVanishes, Produced, OnTheWay
<1>2. LogTypeOK => (NothingVanishes <=> Ledger)
  <2> SUFFICES ASSUME LogTypeOK PROVE NothingVanishes <=> Ledger
    OBVIOUS
  <2>1. PICK j \in Nat, w \in Nat, g \in Nat : j = Counted(journal) /\ w = OnTheWay /\ g = gone
    BY LedgerCounts
  <2>2. j + w + g = (j + g) + w
    OBVIOUS
  <2>3. Counted(journal) + OnTheWay + gone = Settled + OnTheWay
    BY <2>1, <2>2 DEF Settled
  <2> QED BY <2>3 DEF NothingVanishes, Produced, Ledger
<1>3. LogTypeOK /\ LogTypeOK' /\ NothingVanishes /\ [LogNext]_logVars => NothingVanishes'
  <2> SUFFICES ASSUME LogTypeOK, LogTypeOK', NothingVanishes, [LogNext]_logVars PROVE NothingVanishes'
    OBVIOUS
  <2>1. PICK p \in Nat, l \in Nat, j \in Nat, w \in Nat :
          p = Total(chunks) /\ l = Total(LifeEvents) /\ j = Settled /\ w = OnTheWay
    BY LedgerCounts
  <2>2. p + l = j + w
    BY <1>2, <2>1 DEF Ledger
  <2>25. LogTypeOK' => (NothingVanishes' <=> Ledger')
    BY <1>2, PTL
  <2>24. Total(chunks)' + Total(LifeEvents)' = Settled' + OnTheWay' => NothingVanishes'
    BY <2>25 DEF Ledger
  <2>3. CallTypes /\ QueueTypes /\ BatchTypes /\ FileTypes
    BY LogTypeParts
  \* An event is produced, moves, or is taken away.
  <2>4. ASSUME /\ Total(chunks)' + Total(LifeEvents)' = p + l + 1
               /\ Settled' = j /\ OnTheWay' = w + 1
        PROVE  NothingVanishes'
    <3>1. p + l + 1 = j + (w + 1)
      BY <2>2
    <3> QED BY <2>4, <2>24, <3>1
  <2>5. ASSUME NEW m \in Nat, NEW n \in Nat, m + n = j + w,
               Total(chunks)' = p /\ Total(LifeEvents)' = l,
               Settled' = m /\ OnTheWay' = n
        PROVE  NothingVanishes'
    BY <2>2, <2>5, <2>24
  <2>6. ASSUME NEW c \in Calls, NEW kind \in Life, NEW s \in {"running", "yielded", "returned"},
               EmitLife(kind, c), call' = [call EXCEPT ![c] = s], UNCHANGED <<chunks, gone>>,
               LifeEvents'[c] = LifeEvents[c] + 1
        PROVE  NothingVanishes'
    <3>1. OnTheWay' = w + 1 /\ Settled' = j
      BY <2>1, <2>6, Emitted DEF Settled
    <3>2. Total(LifeEvents)' = l + 1
      BY <2>1, <2>3, <2>6, LifeCounted
    <3>3. Total(chunks)' = p
      BY <2>1, <2>6
    <3>4. p + (l + 1) = p + l + 1
      OBVIOUS
    <3> QED BY <2>4, <3>1, <3>2, <3>3, <3>4
  <2>7. ASSUME NEW c \in Calls, Start(c) PROVE NothingVanishes'
    <3>1. EmitLife("started", c) /\ call' = [call EXCEPT ![c] = "running"] /\ UNCHANGED <<chunks, gone>>
      BY <2>7 DEF Start
    <3>2. LifeEvents'[c] = LifeEvents[c] + 1
      BY <2>3, <2>7, <3>1 DEF Start, LifeEvents, CallTypes
    <3> QED BY <2>6, <3>1, <3>2 DEF Life
  <2>8. ASSUME NEW c \in Calls, Succeed(c) PROVE NothingVanishes'
    <3>1. EmitLife("succeeded", c) /\ call' = [call EXCEPT ![c] = "returned"] /\ UNCHANGED <<chunks, gone>>
      BY <2>8 DEF Succeed
    <3>2. LifeEvents'[c] = LifeEvents[c] + 1
      BY <2>3, <2>8, <3>1 DEF Succeed, LifeEvents, CallTypes
    <3> QED BY <2>6, <3>1, <3>2 DEF Life
  <2>9. ASSUME NEW c \in Calls, Yield(c) PROVE NothingVanishes'
    <3>1. EmitLife("yielded", c) /\ call' = [call EXCEPT ![c] = "yielded"] /\ UNCHANGED <<chunks, gone>>
      BY <2>9 DEF Yield
    <3>2. LifeEvents'[c] = LifeEvents[c] + 1
      BY <2>3, <2>9, <3>1 DEF Yield, LifeEvents, CallTypes
    <3> QED BY <2>6, <3>1, <3>2 DEF Life
  <2>10. ASSUME NEW k \in Keys, Output(k) PROVE NothingVanishes'
    <3>1. chunks' = [chunks EXCEPT ![k] = @ + 1] /\ UNCHANGED <<call, gone>> /\ chunks[k] + 1 \in Nat \ {0}
      BY <2>3, <2>10 DEF Output, CallTypes
    <3>2. OnTheWay' = w + 1 /\ Settled' = j
      BY <2>1, <2>10, <3>1, Emitted DEF Output, Settled
    <3>3. Total(chunks)' = p + 1
      BY <2>1, <2>3, <3>1, ChunkCounted
    <3>4. Total(LifeEvents)' = l
      BY <2>1, <3>1 DEF LifeEvents
    <3>5. (p + 1) + l = p + l + 1
      OBVIOUS
    <3> QED BY <2>4, <3>2, <3>3, <3>4, <3>5
  <2>11. ASSUME UNCHANGED <<call, chunks>>
         PROVE  Total(chunks)' = p /\ Total(LifeEvents)' = l
    BY <2>1, <2>11 DEF LifeEvents
  <2>12. ASSUME UNCHANGED <<call, chunks, gone, queue, streamQueue, pending, dropped, journal>>
         PROVE  NothingVanishes'
    <3>1. OnTheWay' = w /\ Settled' = j
      BY <2>1, <2>12 DEF OnTheWay, Batched, Settled
    <3>2. Total(chunks)' = p /\ Total(LifeEvents)' = l
      BY <2>11, <2>12
    <3> QED BY <2>5, <3>1, <3>2
  <2>13. ASSUME NEW c \in Calls, End(c) PROVE NothingVanishes'
    BY <2>12, <2>13 DEF End, loggerVars
  <2>14. ASSUME queue # <<>>, WriteHead, UNCHANGED <<call, chunks>> PROVE NothingVanishes'
    <3>1. OnTheWay' + 1 = w /\ Settled' = j + 1 /\ OnTheWay' \in Nat
      BY <2>1, <2>14, HeadMoves
    <3>2. PICK m \in Nat, n \in Nat : m = j + 1 /\ n = OnTheWay'
      BY <3>1
    <3>3. m = j + 1 /\ w = n + 1
      BY <3>1, <3>2
    <3>4. m + n = j + w
      <4>1. (j + 1) + n = j + (n + 1)
        OBVIOUS
      <4> QED BY <3>3, <4>1
    <3>5. Settled' = m /\ OnTheWay' = n
      BY <3>1, <3>2
    <3>6. Total(chunks)' = p /\ Total(LifeEvents)' = l
      BY <2>11, <2>14
    <3> QED BY <2>5, <3>4, <3>5, <3>6
  <2>15. ASSUME Loop PROVE UNCHANGED <<call, chunks>>
    BY <2>15 DEF Loop, Logging, callVars
  <2>16. CASE Logging(First)
    <3>1. UNCHANGED <<call, chunks>>
      BY <2>15, <2>16 DEF Loop
    <3>2. CASE queue # <<>>
      BY <2>14, <2>16, <3>1, <3>2 DEF Logging, First
    <3>3. CASE queue = <<>>
      BY <2>12, <2>16, <3>1, <3>3 DEF Logging, First
    <3> QED BY <3>2, <3>3
  <2>17. CASE Logging(SelectLife)
    BY <2>14, <2>15, <2>17 DEF Loop, Logging, SelectLife
  <2>18. CASE Logging(SelectStream)
    <3>1. UNCHANGED <<call, chunks>> /\ TakeStream
      BY <2>15, <2>18 DEF Loop, Logging, SelectStream
    <3>2. OnTheWay' = w /\ Settled' = j
      BY <2>1, <3>1, TakeMoves
    <3> QED BY <2>5, <2>11, <3>1, <3>2
  <2>19. CASE Logging(SelectTick)
    <3>1. UNCHANGED <<call, chunks>>
      BY <2>15, <2>19 DEF Loop
    <3> QED BY <2>12, <2>19, <3>1 DEF Logging, SelectTick
  <2>20. CASE Logging(FlushOne)
    <3>1. UNCHANGED <<call, chunks>> /\ FlushOne
      BY <2>15, <2>20 DEF Loop, Logging
    <3>2. PICK m \in Nat, n \in Nat : m = Settled' /\ n = OnTheWay'
      BY <3>1, FlushMoves
    <3>3. n + m = w + j
      BY <2>1, <3>1, <3>2, FlushMoves
    <3>4. m + n = j + w
      BY <3>3
    <3> QED BY <2>5, <2>11, <3>1, <3>2, <3>4
  <2>21. CASE Logging(Report)
    <3>1. UNCHANGED <<call, chunks>> /\ Report
      BY <2>15, <2>21 DEF Loop, Logging
    <3>2. PICK m \in Nat, n \in Nat : m = Settled' /\ n = OnTheWay'
      BY <3>1, ReportMoves
    <3>3. n + m = w + j
      BY <2>1, <3>1, <3>2, ReportMoves
    <3>4. m + n = j + w
      BY <3>3
    <3> QED BY <2>5, <2>11, <3>1, <3>2, <3>4
  <2>22. CASE NewConnector
    <3>1. PICK m \in Nat : m = Settled'
      BY <2>22, RestartTakes
    <3>2. m = j + w /\ OnTheWay' = 0 /\ Total(LifeEvents)' = l /\ Total(chunks)' = p
      BY <2>1, <2>22, <3>1, RestartTakes
    <3>3. p + l = m + 0
      BY <2>2, <3>2
    <3> QED BY <2>24, <3>1, <3>2, <3>3
  <2>23. CASE Follow \/ UNCHANGED logVars
    BY <2>12, <2>23 DEF Follow, logVars, callVars, loggerVars
  <2> QED
    BY <2>7, <2>8, <2>9, <2>10, <2>13, <2>16, <2>17, <2>18, <2>19, <2>20, <2>21, <2>22, <2>23
    DEF LogNext, Loop
<1> QED BY <1>1, <1>3, LogTypeCorrect, PTL DEF LogSpec
=============================================================================
