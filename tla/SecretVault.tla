------------------------------- MODULE SecretVault -------------------------------
(***************************************************************************)
(* The secret vault: vault.json, which the connector and the HTTP threads   *)
(* of the frontend both read, change and write back, and the request and    *)
(* response files by which the client asks the user for a value.            *)
(*                                                                          *)
(* The connector writes vault.json in place, first truncating it; the       *)
(* frontend writes a temporary file and moves it, which Windows refuses     *)
(* while somebody has either open.  The temporary file has the name of the  *)
(* process: all threads share it, and two that write at once may leave a    *)
(* mixture.  A response is written in the same way, with a temporary file   *)
(* for each request.  Of a secret only its presence is kept, not its value, *)
(* texts and use counts.                                                    *)
(***************************************************************************)
EXTENDS Naturals

CONSTANTS
    None,           \* nothing
    Secrets,        \* vault identifiers
    Injectors,      \* command_exec calls with credential_refs, after the approval
    Threads,        \* threads of the HTTP server of the frontend
    Requests,       \* credential_value requests
    Polls,          \* credential_value polls
    MaxAnswers      \* bound: answers the user gives to a request

Actors == Injectors \cup Threads

ASSUME VaultAssumption ==
    /\ Injectors \cap Threads = {} 
    /\ {None, "half"} \cap (Secrets \cup Threads) = {}
    /\ None \notin {"approved", "half"}
    /\ MaxAnswers \in Nat

VARIABLES
    file,           \* the secrets a reader finds in vault.json
    torn,           \* vault.json cannot be parsed; there are none to find then
    pc,             \* where a change of the vault is, per actor
    view,           \* the vault as the actor read it
    job,            \* what a thread of the frontend does
    stale,          \* history: actors whose view is not what the file says
    expected,       \* history: what was saved and not deleted
    tmp,            \* the temporary file of the vault: whose content, and which
    harmed,         \* history: a stale view, half a file or another's was written
    ask,            \* the request action of credential_value
    asked,          \* request files, as written: the secret asked for
    requestFiles,   \* the request files that exist
    reply,          \* the temporary files of the responses
    response,       \* the response files
    poll,           \* the polls
    answers,        \* history: answers the user gave, per request
    approved,       \* history: requests with an approval among them
    told,           \* history: outcomes the client was told
    unheard,        \* history: requests with an outcome that a cancelled poll took
    crashed         \* the connector has died at least once

vaultVars == <<file, torn, pc, view, job, stale, expected, tmp, harmed>>
requestVars == <<ask, asked, requestFiles, reply, response, poll, answers, approved, told, unheard>>
vars == <<vaultVars, requestVars, crashed>>

Idle == [op |-> "none", target |-> None]
Ops == [op : {"save", "delete"}, target : Secrets]
       \cup [op : {"approve", "deny"}, target : Requests] \cup {Idle}
NoPoll == [pc |-> "idle", request |-> None, answer |-> None]
Answers == {"approved", "denied"}
Content == Answers \cup {None, "half"}
NoTmp == [by |-> None, vault |-> {}]
Half == [by |-> "half", vault |-> {}]

TypeOK ==
    /\ file \subseteq Secrets /\ torn \in BOOLEAN
    /\ pc \in [Actors -> {"idle", "loaded", "open", "written", "respond", "answering"}]
    /\ view \in [Actors -> SUBSET Secrets]
    /\ job \in [Threads -> Ops]
    /\ stale \subseteq Actors /\ expected \subseteq Secrets
    /\ tmp \in [by : Threads \cup {None, "half"}, vault : SUBSET Secrets]
    /\ harmed \in BOOLEAN /\ crashed \in BOOLEAN
    /\ ask \in [Requests -> {"no", "written", "waiting", "lost"}]
    /\ asked \in [Requests -> Secrets \cup {None}]
    /\ requestFiles \subseteq Requests /\ approved \subseteq Requests
    /\ unheard \subseteq Requests
    /\ reply \in [Requests -> Content] /\ response \in [Requests -> Content]
    /\ poll \in [Polls -> [pc : {"got", "dropped", "returning"}, request : Requests,
                           answer : Answers] \cup {NoPoll}]
    /\ answers \in [Requests -> 0..MaxAnswers]
    /\ told \in [Requests -> SUBSET Answers]

Init ==
    /\ file = {} /\ torn = FALSE
    /\ pc = [a \in Actors |-> "idle"] /\ view = [a \in Actors |-> {}]
    /\ job = [h \in Threads |-> Idle]
    /\ stale = {} /\ expected = {} /\ tmp = NoTmp
    /\ harmed = FALSE /\ crashed = FALSE
    /\ ask = [r \in Requests |-> "no"] /\ asked = [r \in Requests |-> None]
    /\ requestFiles = {} /\ unheard = {}
    /\ reply = [r \in Requests |-> None] /\ response = [r \in Requests |-> None]
    /\ poll = [p \in Polls |-> NoPoll]
    /\ answers = [r \in Requests |-> 0] /\ approved = {}
    /\ told = [r \in Requests |-> {}]

\* Whoever is about to write back an older view now has a stale one.
Others(a) == {b \in Actors \ {a} : pc[b] # "idle"}
Outdate(a) == stale' = (stale \ {a}) \cup Others(a)

-----------------------------------------------------------------------------
(* The connector: injectSecretRefs *)

\* An unreadable vault and a missing secret are errors, before anything is written.
Load(g, s) ==
    /\ pc[g] = "idle" /\ ~torn /\ s \in file
    /\ pc' = [pc EXCEPT ![g] = "loaded"]
    /\ view' = [view EXCEPT ![g] = file]
    /\ stale' = stale \ {g}
    /\ UNCHANGED <<file, torn, job, expected, tmp, harmed, requestVars, crashed>>

\* os.WriteFile opens the file and truncates it, ...
OpenVault(g) ==
    /\ pc[g] = "loaded"
    /\ pc' = [pc EXCEPT ![g] = "open"]
    /\ file' = {} /\ torn' = TRUE
    /\ stale' = stale \cup Others(g)
    /\ UNCHANGED <<view, job, expected, tmp, harmed, requestVars, crashed>>

\* (Mutation: a secret turns out to be missing only when the vault is open.)
BugWriteVault(g) ==
    /\ pc[g] = "open"
    /\ pc' = [pc EXCEPT ![g] = "idle"] /\ view' = [view EXCEPT ![g] = {}]
    /\ UNCHANGED <<file, torn, job, stale, expected, tmp, harmed, requestVars, crashed>>

\* ... and writes; over what another call has written meanwhile, part of which
\* stays when that was longer.
WriteVault(g) ==
    /\ pc[g] = "open"
    /\ pc' = [pc EXCEPT ![g] = "idle"] /\ view' = [view EXCEPT ![g] = {}]
    /\ torn' \in {FALSE, ~torn}
    /\ file' = IF torn' THEN {} ELSE view[g]
    /\ harmed' = (harmed \/ g \in stale)
    /\ Outdate(g)
    /\ UNCHANGED <<job, expected, tmp, requestVars, crashed>>

\* Either may be an error: nothing is opened, or half is written.
InjectFails(g) ==
    /\ pc[g] \in {"loaded", "open"}
    /\ pc' = [pc EXCEPT ![g] = "idle"] /\ view' = [view EXCEPT ![g] = {}]
    /\ IF pc[g] = "loaded"
       THEN UNCHANGED <<file, torn, stale, harmed>>
       ELSE file' = {} /\ torn' = TRUE /\ harmed' = TRUE /\ Outdate(g)
    /\ UNCHANGED <<job, expected, tmp, requestVars, crashed>>

-----------------------------------------------------------------------------
(* The frontend *)

GoOn(h, to) == pc' = [pc EXCEPT ![h] = to] /\ view' = [view EXCEPT ![h] = {}] /\ job' = job
Finish(h) ==
    /\ pc' = [pc EXCEPT ![h] = "idle"]
    /\ view' = [view EXCEPT ![h] = {}] /\ job' = [job EXCEPT ![h] = Idle]

\* load_secret_vault takes a vault it cannot read or parse for an empty one.
Take(h, j) ==
    /\ pc[h] = "idle"
    /\ pc' = [pc EXCEPT ![h] = "loaded"]
    /\ job' = [job EXCEPT ![h] = j]
    /\ \E read \in {file, {}} :
         /\ view' = [view EXCEPT ![h] = read]
         /\ stale' = IF torn \/ read # file THEN stale \cup {h} ELSE stale \ {h}
    /\ UNCHANGED <<file, torn, expected, tmp, harmed>>

\* /secrets/save: the clock gives the identifier, so every save has its own.
Save(h, s) ==
    /\ s \notin expected \cup file \cup tmp.vault \cup UNION {view[a] : a \in Actors}
    /\ \A k \in Threads : job[k].target # s
    /\ Take(h, [op |-> "save", target |-> s])
    /\ UNCHANGED <<requestVars, crashed>>

\* /secrets/delete
Delete(h, s) ==
    /\ Take(h, [op |-> "delete", target |-> s]) /\ s \in view'[h]
    /\ UNCHANGED <<requestVars, crashed>>

Answerable(r) == r \in requestFiles /\ answers[r] < MaxAnswers

CountAnswer(r) ==
    /\ answers' = [answers EXCEPT ![r] = @ + 1]
    /\ UNCHANGED <<ask, asked, requestFiles, reply, response, poll, told, unheard, crashed>>

\* /secret-request, approve: the use is noted in the vault first.
Approve(h, r) ==
    /\ Answerable(r)
    /\ Take(h, [op |-> "approve", target |-> r]) /\ asked[r] \in view'[h]
    /\ CountAnswer(r) /\ approved' = approved \cup {r}

\* /secret-request, deny
Deny(h, r) ==
    /\ Answerable(r) /\ pc[h] = "idle"
    /\ pc' = [pc EXCEPT ![h] = "respond"]
    /\ job' = [job EXCEPT ![h] = [op |-> "deny", target |-> r]]
    /\ CountAnswer(r) /\ approved' = approved
    /\ UNCHANGED <<file, torn, view, stale, expected, tmp, harmed>>

Changed(h, vault) ==
    CASE job[h].op = "save" -> vault \cup {job[h].target}
      [] job[h].op = "delete" -> vault \ {job[h].target}
      [] OTHER -> vault

\* The connector has the vault open without FILE_SHARE_DELETE.
Movable == \A g \in Injectors : pc[g] # "open"

\* save_secret_vault: the temporary file is written, which another thread may be
\* doing as well, ...
WriteTmp(h) ==
    /\ pc[h] = "loaded" /\ pc' = [pc EXCEPT ![h] = "written"]
    /\ \/ tmp' = [by |-> h, vault |-> Changed(h, view[h])]
       \/ /\ \E k \in Threads \ {h} : pc[k] \in {"loaded", "written"}
          /\ tmp' = Half
    /\ UNCHANGED <<file, torn, view, job, stale, expected, harmed, requestVars, crashed>>

\* ... and moved over the vault, whosever content it has by now.
Replace(h) ==
    /\ pc[h] = "written" /\ Movable /\ tmp # NoTmp
    /\ file' = tmp.vault /\ torn' = (tmp.by = "half") /\ tmp' = NoTmp
    /\ IF job[h].op = "approve" THEN GoOn(h, "respond") ELSE Finish(h)
    /\ expected' = Changed(h, expected)
    /\ harmed' = (harmed \/ h \in stale \/ tmp.by # h)
    /\ Outdate(h)
    /\ UNCHANGED <<requestVars, crashed>>

\* Either may be an error, for the disk is full, the vault open somewhere or the
\* temporary file moved by another: no response then.
ReplaceFails(h) ==
    /\ pc[h] \in {"loaded", "written"} /\ Finish(h)
    /\ tmp' \in IF pc[h] = "loaded" THEN {tmp, Half} ELSE {tmp}
    /\ UNCHANGED <<file, torn, stale, expected, harmed, requestVars, crashed>>

ReplyStep == UNCHANGED <<file, torn, stale, expected, tmp, harmed, ask, asked,
                            requestFiles, poll, answers, approved, told, unheard, crashed>>

\* The end of /secret-request: the response file, in the same two steps.
WriteReply(h) ==
    LET r == job[h].target IN
    /\ pc[h] = "respond" /\ pc' = [pc EXCEPT ![h] = "answering"]
    /\ \/ reply' = [reply EXCEPT ![r] = IF job[h].op = "approve" THEN "approved" ELSE "denied"]
       \/ /\ \E k \in Threads \ {h} : pc[k] \in {"respond", "answering"} /\ job[k].target = r
          /\ reply' = [reply EXCEPT ![r] = "half"]
    /\ UNCHANGED <<view, job, response>> /\ ReplyStep

Respond(h) ==
    LET r == job[h].target IN
    /\ pc[h] = "answering" /\ reply[r] # None /\ Finish(h)
    /\ response' = [response EXCEPT ![r] = reply[r]]
    /\ reply' = [reply EXCEPT ![r] = None]
    /\ ReplyStep

RespondFails(h) ==
    LET r == job[h].target IN
    /\ pc[h] \in {"respond", "answering"} /\ Finish(h)
    /\ reply' \in IF pc[h] = "respond" THEN {reply, [reply EXCEPT ![r] = "half"]} ELSE {reply}
    /\ UNCHANGED response /\ ReplyStep

-----------------------------------------------------------------------------
(* The connector: credential_value *)

\* action=request: the secret is looked up and the request file written, ...
Ask(r, s) ==
    /\ ask[r] = "no" /\ ~torn /\ s \in file
    /\ ask' = [ask EXCEPT ![r] = "written"]
    /\ asked' = [asked EXCEPT ![r] = s]
    /\ requestFiles' = requestFiles \cup {r}
    /\ UNCHANGED <<vaultVars, reply, response, poll, answers, approved, told, unheard, crashed>>

\* (Mutation: it is the request file that is removed.)
BugAskReturns(r) ==
    /\ ask[r] = "written"
    /\ ask' = [ask EXCEPT ![r] = "waiting"]
    /\ requestFiles' = requestFiles \ {r}
    /\ UNCHANGED <<vaultVars, asked, reply, response, poll, answers, approved, told, unheard, crashed>>

\* ... then a response file removed, be it the answer of a quick user, unless that
\* fails.  The client may have cancelled, and does not learn the identifier.
AskReturns(r) ==
    /\ ask[r] = "written"
    /\ ask' \in {[ask EXCEPT ![r] = "waiting"], [ask EXCEPT ![r] = "lost"]}
    /\ response' \in {response, [response EXCEPT ![r] = None]}
    /\ UNCHANGED <<vaultVars, asked, requestFiles, reply, poll, answers, approved, told, unheard, crashed>>

Step(p, r, from, to) ==
    /\ poll[p].pc = from /\ poll[p].request = r
    /\ poll' = [poll EXCEPT ![p].pc = to]
    /\ UNCHANGED <<vaultVars, ask, asked, reply, answers, approved, told, unheard, crashed>>

\* (Mutation: a denial counts as no answer yet.)
BugHasApproval(r) == ask[r] = "waiting" /\ response[r] = "approved"
HasAnswer(r) == ask[r] = "waiting" /\ response[r] \in Answers

\* action=poll: without a response it returns awaiting_user, and an error for one
\* that it cannot read; it removes both files, as far as that succeeds.
PollReads(p, r) ==
    /\ HasAnswer(r) /\ poll[p] = NoPoll
    /\ poll' = [poll EXCEPT ![p] = [pc |-> "got", request |-> r, answer |-> response[r]]]
    /\ UNCHANGED <<vaultVars, ask, asked, requestFiles, reply, response, answers, approved, told,
                   unheard, crashed>>

DropResponse(p, r) ==
    /\ Step(p, r, "got", "dropped")
    /\ response' \in {response, [response EXCEPT ![r] = None]}
    /\ UNCHANGED requestFiles

DropRequest(p, r) ==
    /\ Step(p, r, "dropped", "returning")
    /\ requestFiles' \in {requestFiles, requestFiles \ {r}}
    /\ UNCHANGED response

Outcome(p) == poll[p].answer

\* The answer of a poll that was cancelled meanwhile is dropped.
PollReturns(p) ==
    /\ poll[p].pc = "returning"
    /\ poll' = [poll EXCEPT ![p] = NoPoll]
    /\ \/ told' = [told EXCEPT ![poll[p].request] = @ \cup {Outcome(p)}] /\ unheard' = unheard
       \/ unheard' = unheard \cup {poll[p].request} /\ told' = told
    /\ UNCHANGED <<vaultVars, ask, asked, requestFiles, reply, response, answers, approved, crashed>>

-----------------------------------------------------------------------------
\* The connector dies and is started again: half a file stays half.
Crash ==
    /\ ~crashed /\ crashed' = TRUE
    /\ pc' = [a \in Actors |-> IF a \in Injectors THEN "idle" ELSE pc[a]]
    /\ view' = [a \in Actors |-> IF a \in Injectors THEN {} ELSE view[a]]
    /\ harmed' = (harmed \/ \E g \in Injectors : pc[g] = "open")
    /\ ask' = [r \in Requests |-> IF ask[r] = "written" THEN "lost" ELSE ask[r]]
    /\ poll' = [p \in Polls |-> NoPoll]
    /\ UNCHANGED <<file, torn, job, stale, expected, tmp,
                   asked, requestFiles, reply, response, answers, approved, told, unheard>>

Inject(g) == (\E s \in Secrets : Load(g, s)) \/ OpenVault(g) \/ WriteVault(g) \/ InjectFails(g)
Serve(h) ==
    \/ \E s \in Secrets : Save(h, s) \/ Delete(h, s)
    \/ \E r \in Requests : Approve(h, r) \/ Deny(h, r)
    \/ WriteTmp(h) \/ Replace(h) \/ ReplaceFails(h)
    \/ WriteReply(h) \/ Respond(h) \/ RespondFails(h)
Poll(p) == PollReturns(p) \/ \E r \in Requests :
    PollReads(p, r) \/ DropResponse(p, r) \/ DropRequest(p, r)

Next ==
    \/ \E g \in Injectors : Inject(g)
    \/ \E h \in Threads : Serve(h)
    \/ \E r \in Requests : AskReturns(r) \/ \E s \in Secrets : Ask(r, s)
    \/ \E p \in Polls : Poll(p)
    \/ Crash

Spec == Init /\ [][Next]_vars

\* The client polls while it is told to.
Fairness == \A p \in Polls : WF_vars(Poll(p))
FairSpec == Spec /\ Fairness

-----------------------------------------------------------------------------
(* Properties *)

\* The vault has exactly what was saved and not deleted, and is unreadable only
\* while the connector writes it, as long as nobody has written back a view that
\* another write, half a file or a failed read had made stale, no thread has moved
\* a temporary file another had written, and no write of the connector ended
\* half-way, in an error or with its process.
VaultLosesOnlyToStaleWrites == ~harmed =>
    \/ ~torn /\ file = expected
    \/ torn /\ \E g \in Injectors : pc[g] = "open"

\* The client gets a value only for a request which the user approved, in
\* whatever order answers, polls and the clean-up of the files come.
ValueNeedsApproval == \A r \in Requests : "approved" \in told[r] => r \in approved

\* A request whose client has not been told the outcome can still be answered by
\* the user: its file goes only with the poll that tells, dies telling, or was
\* cancelled before it could.
UntoldCanBeAnswered == \A r \in Requests :
    ask[r] = "waiting" /\ told[r] = {} => \/ r \in requestFiles \/ crashed \/ r \in unheard
        \/ \E p \in Polls : poll[p].request = r /\ poll[p].pc = "returning"

\* The answer to a request the client knows of reaches the client, unless the
\* client cancels the poll that took it, the connector dies, or two answers at
\* once leave a file that cannot be read.
AnswerArrives == \A r \in Requests :
    ask[r] = "waiting" /\ response[r] \in Answers
        ~> told[r] # {} \/ crashed \/ r \in unheard \/ response[r] = "half"
=============================================================================
