-------------------------------- MODULE Inventory --------------------------------
(***************************************************************************)
(* The inventory of downstream MCP servers: mcp_discover probes every       *)
(* configured server, keeps the tools it finds in memory and in             *)
(* mcp_inventory.json, answers from memory while it can and then lets one   *)
(* background refresh run; mcp_reload and mcp_oauth_login forget the        *)
(* memory, a restart brings the file back.                                  *)
(*                                                                          *)
(* A tool list is the number of the reload period in which its probe began, *)
(* counted from 1, or NoTools.  The age of an inventory is new (less than    *)
(* 30 s), middle, or old (more than 5 min).  The configuration stays.       *)
(***************************************************************************)
EXTENDS Naturals, FiniteSets

CONSTANTS
    None,           \* no inventory
    All,            \* no server_name
    Servers,        \* the configured servers
    Foreground,     \* mcp_discover calls
    Background,     \* goroutines of refreshInventoryInBackground
    MaxReloads      \* bound: mcp_reload and mcp_oauth_login calls

Discoveries == Foreground \cup Background

ASSUME InventoryAssumption ==
    Foreground \cap Background = {} /\ All \notin Servers /\ MaxReloads \in Nat

VARIABLES
    mem,            \* s.inventory and s.inventoryAt
    disk,           \* mcp_inventory.json
    refreshing,     \* s.inventoryRefreshing
    pc,             \* where a discovery is
    only,           \* its server_name
    previous,       \* its previousToolsByServer
    probe,          \* its probes
    reloads,        \* invalidations so far
    crossed,        \* history: discoveries an invalidation came across
    excused,        \* history: a crossed discovery or a restart has filled the memory
    apart           \* history: the last save was not alone or did not last, or the
                    \* file could not be read at the start

stores == <<mem, disk>>
history == <<crossed, excused, apart>>
vars == <<stores, refreshing, pc, only, previous, probe, reloads, history>>

NoTools == 0
ToolLists == 0..MaxReloads + 1
Entry == [tools : ToolLists, failed : BOOLEAN]
Inventories == [entries : [Servers -> Entry], age : {"new", "middle", "old"}]

Skipped == [pc |-> "skipped"]
Ended(e) == [pc |-> "ended", entry |-> e]
Probes == {Skipped} \cup {Ended(e) : e \in Entry}
    \cup [pc : {"listing", "hung"}, period : 1..MaxReloads + 1]

TypeOK ==
    /\ mem \in Inventories \cup {None} /\ disk \in Inventories \cup {None}
    /\ refreshing \in BOOLEAN /\ excused \in BOOLEAN /\ apart \in BOOLEAN
    /\ pc \in [Discoveries -> {"idle", "begin", "probing", "writing", "ending", "stuck"}]
    /\ only \in [Discoveries -> Servers \cup {All}]
    /\ previous \in [Discoveries -> [Servers -> ToolLists]]
    /\ probe \in [Discoveries -> [Servers -> Probes]]
    /\ reloads \in 0..MaxReloads /\ crossed \subseteq Discoveries

Init ==
    /\ mem = None /\ disk = None /\ refreshing = FALSE
    /\ pc = [d \in Discoveries |-> "idle"] /\ only = [d \in Discoveries |-> All]
    /\ previous = [d \in Discoveries |-> [s \in Servers |-> NoTools]]
    /\ probe = [d \in Discoveries |-> [s \in Servers |-> Skipped]]
    /\ reloads = 0 /\ crossed = {} /\ excused = FALSE /\ apart = FALSE

-----------------------------------------------------------------------------
(* The cache *)

Asked(sn) == IF sn = All THEN Servers ELSE {sn}

\* cachedInventory: one server asked for with more to say than an error.
Usable(sn) == mem # None /\ \E s \in Asked(sn) :
    ~(mem.entries[s].failed /\ mem.entries[s].tools = NoTools)

\* inventory_stale, which a failed probe leaves in its entry.
MarkedStale(sn) == \E s \in Asked(sn) : mem.entries[s].failed
Due(sn) == mem.age = "old" \/ (MarkedStale(sn) /\ mem.age # "new")

Free == ~refreshing

\* refreshInventoryInBackground
StartRefresh ==
    IF Free /\ \E b \in Background : pc[b] = "idle"
    THEN /\ refreshing' = TRUE
         /\ \E b \in Background : pc[b] = "idle" /\ pc' = [pc EXCEPT ![b] = "begin"]
    ELSE UNCHANGED <<refreshing, pc>>

\* mcp_discover that the cache answers, stale or not.
AnswerFromCache(d, sn) ==
    /\ pc[d] = "idle" /\ Usable(sn)
    /\ IF Due(sn) THEN StartRefresh ELSE UNCHANGED <<refreshing, pc>>
    /\ UNCHANGED <<stores, only, previous, probe, reloads, history>>

-----------------------------------------------------------------------------
(* A discovery that probes *)

Begin(d, sn) ==
    /\ pc' = [pc EXCEPT ![d] = "probing"]
    /\ only' = [only EXCEPT ![d] = sn]
    /\ previous' = [previous EXCEPT ![d] =
            [s \in Servers |-> IF Usable(All) THEN mem.entries[s].tools ELSE NoTools]]
    /\ probe' = [probe EXCEPT ![d] = [s \in Servers |->
            IF s \in Asked(sn) THEN [pc |-> "listing", period |-> reloads + 1] ELSE Skipped]]
    /\ crossed' = crossed \ {d}
    /\ UNCHANGED <<stores, refreshing, reloads, excused, apart>>

\* mcp_discover that nothing in the cache answers.
Discover(d, sn) == pc[d] = "idle" /\ ~Usable(sn) /\ Begin(d, sn)

\* The goroutine of a refresh; it goes past the cache.
Refresh(b) == pc[b] = "begin" /\ Begin(b, All)

\* ... or the configuration cannot be read.
RefreshFails(b) ==
    /\ pc[b] = "begin"
    /\ pc' = [pc EXCEPT ![b] = "ending"]
    /\ UNCHANGED <<stores, refreshing, only, previous, probe, reloads, history>>

Listing(d, s) == pc[d] = "probing" /\ probe[d][s].pc = "listing"
Becomes(d, s, p) ==
    /\ probe' = [probe EXCEPT ![d][s] = p]
    /\ UNCHANGED <<stores, refreshing, pc, only, previous, reloads, history>>

\* initialize and all pages of tools/list; the server may have no tools.
ProbeSucceeds(d, s) == Listing(d, s) /\ \E tools \in {NoTools, probe[d][s].period} :
    Becomes(d, s, Ended([tools |-> tools, failed |-> FALSE]))

\* An error, the end of its output, a repeated cursor, or the timeout.
ProbeFails(d, s) ==
    Listing(d, s) /\ Becomes(d, s, Ended([tools |-> NoTools, failed |-> TRUE]))

\* The server was killed, but a child of it holds its output: Scan or Wait waits.
Hang(d, s) == Listing(d, s) /\ Becomes(d, s, [probe[d][s] EXCEPT !.pc = "hung"])

\* (Mutation: a server that fails keeps nothing.)
BugKept(d, s) == probe[d][s].entry

\* previousToolsByServer stands in for the tools of a server that failed.
Kept(d, s) ==
    LET e == probe[d][s].entry IN
    IF e.failed THEN [e EXCEPT !.tools = previous[d][s]] ELSE e

Found(d) == [entries |-> [s \in Servers |-> Kept(d, s)], age |-> "new"]
Probed(d) == pc[d] = "probing" /\ \A s \in Asked(only[d]) : probe[d][s].pc = "ended"

Quiet == \A d \in Discoveries : pc[d] # "writing"

\* saveInventoryCache: the memory, under inventoryMu, ...
Store(d) ==
    /\ Probed(d) /\ only[d] = All
    /\ mem' = Found(d)
    /\ pc' = [pc EXCEPT ![d] = "writing"]
    /\ excused' = (excused \/ d \in crossed) /\ apart' = ~Quiet
    /\ UNCHANGED <<disk, refreshing, only, previous, probe, reloads, crossed>>

\* (Mutation: the file is written without what stands in for a failed probe.)
BugWriteFile(d) ==
    /\ pc[d] = "writing"
    /\ disk' = [entries |-> [s \in Servers |-> probe[d][s].entry], age |-> "new"]
    /\ pc' = [pc EXCEPT ![d] = "ending"]
    /\ UNCHANGED <<mem, refreshing, only, previous, probe, reloads, history>>

\* ... then, without it, the file.
WriteFile(d) ==
    /\ pc[d] = "writing"
    /\ disk' = Found(d)
    /\ pc' = [pc EXCEPT ![d] = "ending"]
    /\ UNCHANGED <<mem, refreshing, only, previous, probe, reloads, history>>

\* Nobody is told when that fails; part of a file is as good as none.
WriteFails(d) ==
    /\ pc[d] = "writing"
    /\ disk' \in {disk, None} /\ apart' = TRUE
    /\ pc' = [pc EXCEPT ![d] = "ending"]
    /\ UNCHANGED <<mem, refreshing, only, previous, probe, reloads, crossed, excused>>

\* With a server_name nothing is stored.
Report(d) ==
    /\ Probed(d) /\ only[d] # All
    /\ pc' = [pc EXCEPT ![d] = "ending"]
    /\ UNCHANGED <<stores, refreshing, only, previous, probe, reloads, history>>

\* (Mutation: the flag is reset behind the save, not by a defer.)
BugFlagAfter(d) ==
    IF d \in Background /\ \A s \in Servers : probe[d][s] # Skipped THEN FALSE ELSE refreshing
FlagAfter(d) == IF d \in Background THEN FALSE ELSE refreshing

\* "codex mcp list", before the probes, and the request for the apps, behind them,
\* have no timeout: either may keep a discovery for good.
GetsStuck(d) ==
    /\ pc[d] \in {"begin", "ending"}
    /\ pc' = [pc EXCEPT ![d] = "stuck"]
    /\ UNCHANGED <<stores, refreshing, only, previous, probe, reloads, history>>

\* The apps are asked for and the call returns; the deferred reset of the flag.
End(d) ==
    /\ pc[d] = "ending"
    /\ pc' = [pc EXCEPT ![d] = "idle"]
    /\ refreshing' = FlagAfter(d)
    /\ probe' = [probe EXCEPT ![d] = [s \in Servers |-> Skipped]]
    /\ only' = [only EXCEPT ![d] = All]
    /\ previous' = [previous EXCEPT ![d] = [s \in Servers |-> NoTools]]
    /\ UNCHANGED <<stores, reloads, history>>

-----------------------------------------------------------------------------
(* Around it *)

\* (Mutation: the inventory is made old, not forgotten.)
BugForgotten == IF mem = None THEN None ELSE [mem EXCEPT !.age = "old"]
Forgotten == None

\* mcp_reload and mcp_oauth_login, once the app-server has answered.
Invalidate ==
    /\ reloads < MaxReloads
    /\ reloads' = reloads + 1
    /\ mem' = Forgotten
    /\ crossed' = crossed \cup {d \in Discoveries : pc[d] \in {"probing", "writing"}}
    /\ excused' = FALSE /\ apart' = TRUE
    /\ UNCHANGED <<disk, refreshing, pc, only, previous, probe>>

Older(inventory) == IF inventory = None THEN None ELSE
    [inventory EXCEPT !.age = IF @ = "new" THEN "middle" ELSE "old"]
\* Writing the file takes no time that counts.
TimePasses ==
    /\ Quiet
    /\ mem' = Older(mem) /\ disk' = Older(disk)
    /\ UNCHANGED <<refreshing, pc, only, previous, probe, reloads, history>>

\* loadInventoryCache: a file that was being written may be spoilt, and any error of
\* reading it leaves the memory empty.
Restart ==
    /\ disk' \in IF \E d \in Discoveries : pc[d] = "writing" THEN {disk, None} ELSE {disk}
    /\ mem' \in {disk', None} /\ excused' = (reloads > 0) /\ apart' = (mem' # disk')
    /\ refreshing' = FALSE /\ pc' = [d \in Discoveries |-> "idle"]
    /\ only' = [d \in Discoveries |-> All] /\ crossed' = {}
    /\ previous' = [d \in Discoveries |-> [s \in Servers |-> NoTools]]
    /\ probe' = [d \in Discoveries |-> [s \in Servers |-> Skipped]]
    /\ UNCHANGED reloads

Probing(d, s) == ProbeSucceeds(d, s) \/ ProbeFails(d, s)
Discovery(d) == Store(d) \/ WriteFile(d) \/ WriteFails(d) \/ Report(d) \/ End(d)

Next ==
    \/ \E d \in Foreground, sn \in Servers \cup {All} : AnswerFromCache(d, sn) \/ Discover(d, sn)
    \/ \E b \in Background : Refresh(b) \/ RefreshFails(b)
    \/ \E d \in Discoveries : Discovery(d) \/ GetsStuck(d) \/ \E s \in Servers : Probing(d, s) \/ Hang(d, s)
    \/ Invalidate \/ TimePasses \/ Restart

Spec == Init /\ [][Next]_vars

\* The goroutines run, and a probe goes on: the server answers or the timeout ends
\* it.  That codex and the app-server answer is not assumed.
FairSpec ==
    /\ Spec
    /\ \A b \in Background : WF_vars(Refresh(b) \/ RefreshFails(b))
    /\ \A d \in Discoveries :
        /\ WF_vars(Discovery(d))
        /\ \A s \in Servers : WF_vars(Probing(d, s))

-----------------------------------------------------------------------------
(* Properties *)

\* The flag tells whether a refresh runs, and there is never more than one,
\* although any number of calls find the cache stale.
OneRefresh ==
    /\ Cardinality({b \in Background : pc[b] # "idle"}) <= 1
    /\ refreshing <=> \E b \in Background : pc[b] # "idle"

\* What the memory holds was probed after the last mcp_reload, fallbacks of
\* failed probes included, unless a discovery that was under way at the reload
\* has stored its result since, or a restart has brought back the file.
OnlyFlightsRevive == mem # None /\ ~excused =>
    \A s \in Servers : mem.entries[s].tools \in {NoTools, reloads + 1}

\* The file is what the memory holds, once the saves are over: two saves that
\* overlap, a write or a read at the start that fails, and a reload set them apart,
\* and the next save that meets no other brings them together again.
FileIsMemory == ~apart /\ Quiet => mem = disk

\* Known tools of a server disappear from the inventory only because it has been
\* invalidated, because the server says that it has none, by a discovery that began
\* before they were known, or by a restart, which takes what is in the file.
ToolsSurviveFailure == [][\A s \in Servers :
    mem # None /\ mem' # None /\ mem.entries[s].tools # NoTools /\ mem'.entries[s].tools = NoTools =>
        \/ ~mem'.entries[s].failed
        \/ mem' = disk'
        \/ \E d \in Discoveries : pc[d] = "probing" /\ pc'[d] = "writing" /\ previous[d][s] = NoTools]_vars

\* A refresh ends and lets the next one begin, also when it fails before it has
\* probed, unless it waits for good: a probe for an output that nobody closes, or
\* the refresh itself for codex or for the app-server.
RefreshEnds == refreshing ~> ~refreshing \/ \E b \in Background :
    pc[b] = "stuck" \/ \E s \in Servers : probe[b][s].pc = "hung"
=============================================================================
