----------------------------- MODULE ChatSessions -----------------------------
(***************************************************************************)
(* The chat sessions: the connector keeps them in memory under sessionsMu   *)
(* and saves all of them to sessions.json with every creation and every     *)
(* tool call; the frontend, another process, deletes one by leaving a       *)
(* marker file and rewriting sessions.json.  The two processes share no     *)
(* lock, either may die between two file operations, and file operations    *)
(* fail while the other process has the file open.                          *)
(***************************************************************************)
CONSTANT Sessions       \* the identifiers session_create may give

VARIABLES
    up,             \* the connector runs
    mem,            \* Server.sessions
    disk,           \* what sessions.json lists; a missing file lists nothing
    markers,        \* the files in deleted-sessions
    touching,       \* sessions with a tool call that has seen no marker
    saver,          \* the holder of sessionsMu, in saveSessionsLocked
    frontend,       \* delete_persistent_session, under SESSION_STATE_LOCK
    taken,          \* identifiers given out
    \* History, which no action looks at:
    created,        \* sessions whose creation was reported to the client
    failed,         \* sessions whose creation was reported as failed
    lost            \* sessions a crash, an error or a race took, or will take, off the disk

connectorVars == <<up, mem, touching, saver, taken>>
chatVars == <<connectorVars, disk, markers, frontend, created, failed, lost>>

Resting == [pc |-> "idle"]
\* todo: sessions whose marker is yet to be looked up; items: what will be
\* written; dead: the markers when the save began, for the properties.
Saves == [pc : {"checking", "removed"}, op : {"create", "touch"}, of : Sessions,
          todo : SUBSET Sessions, items : SUBSET Sessions, dead : SUBSET Sessions]
\* stale: what was read is not, or no longer, sessions.json, for the properties.
Deletions == [pc : {"marked"}, of : Sessions]
             \cup [pc : {"read"}, of : Sessions, kept : SUBSET Sessions, stale : BOOLEAN]

\* While a save goes through the map, nobody else changes the map.
ChatTypeOK ==
    /\ up \in BOOLEAN
    /\ mem \cup disk \cup markers \cup touching \cup taken \cup created \cup failed \cup lost
          \subseteq Sessions
    /\ saver \in {Resting} \cup Saves
    /\ saver # Resting => up /\ saver.todo \cup saver.items \subseteq mem
    /\ frontend \in {Resting} \cup Deletions

ChatInit ==
    /\ up = TRUE /\ mem = {} /\ disk = {} /\ markers = {}
    /\ touching = {} /\ saver = Resting /\ frontend = Resting
    /\ taken = {} /\ created = {} /\ failed = {} /\ lost = {}

-----------------------------------------------------------------------------
(* The connector. *)

Locked == saver # Resting
FileChanged == frontend' = IF frontend.pc = "read" THEN [frontend EXCEPT !.stale = TRUE] ELSE frontend
SaveOf(op, s) == [pc |-> "checking", op |-> op, of |-> s, todo |-> mem', items |-> {}, dead |-> markers]

\* createSession up to the save.
Create(s) ==
    /\ up /\ ~Locked /\ s \notin taken
    /\ taken' = taken \cup {s}
    /\ mem' = mem \cup {s}
    /\ saver' = SaveOf("create", s)
    /\ UNCHANGED <<up, disk, markers, touching, frontend, created, failed, lost>>

\* touchSession looks for the marker before it takes the lock.
TouchCheck(s) ==
    /\ up /\ s \in taken \ touching /\ s \notin markers
    /\ touching' = touching \cup {s}
    /\ UNCHANGED <<up, mem, disk, markers, saver, frontend, taken, created, failed, lost>>

\* The marker is there: the session is dropped, under the lock.
TouchDeleted(s) ==
    /\ up /\ ~Locked /\ s \in taken /\ s \in markers
    /\ mem' = mem \ {s}
    /\ UNCHANGED <<up, disk, markers, touching, saver, frontend, taken, created, failed, lost>>

Touch(s) ==
    /\ ~Locked /\ s \in touching
    /\ touching' = touching \ {s}
    /\ mem' = mem
    /\ saver' = IF s \in mem THEN SaveOf("touch", s) ELSE Resting
    /\ UNCHANGED <<up, disk, markers, frontend, taken, created, failed, lost>>

\* (Mutation: the markers are not looked up.)
BugCheckMarker(s) ==
    /\ saver.pc = "checking" /\ s \in saver.todo
    /\ saver' = [saver EXCEPT !.todo = @ \ {s}, !.items = @ \cup {s}]
    /\ UNCHANGED <<up, mem, disk, markers, touching, frontend, taken, created, failed, lost>>

\* saveSessionsLocked, one session of the loop.
CheckMarker(s) ==
    /\ saver.pc = "checking" /\ s \in saver.todo
    /\ IF s \in markers
       THEN mem' = mem \ {s} /\ saver' = [saver EXCEPT !.todo = @ \ {s}]
       ELSE saver' = [saver EXCEPT !.todo = @ \ {s}, !.items = @ \cup {s}] /\ UNCHANGED mem
    /\ UNCHANGED <<up, disk, markers, touching, frontend, taken, created, failed, lost>>

\* The new file is written under another name; the old one is removed.
RemoveOld ==
    /\ saver.pc = "checking" /\ saver.todo = {}
    /\ disk' = {}
    /\ saver' = [saver EXCEPT !.pc = "removed"]
    /\ FileChanged
    /\ UNCHANGED <<up, mem, markers, touching, taken, created, failed, lost>>

\* The new file gets the name, and the call reports success.
Rename ==
    /\ saver.pc = "removed"
    /\ disk' = saver.items
    /\ saver' = Resting
    /\ created' = IF saver.op = "create" THEN created \cup {saver.of} ELSE created
    /\ lost' = lost \ saver.items
    /\ FileChanged
    /\ UNCHANGED <<up, mem, markers, touching, taken, failed>>

\* (Mutation: an error of touchSession is treated like one of createSession.)
BugUndo ==
    /\ mem' = mem \ {saver.of}
    /\ failed' = IF saver.op = "create" THEN failed \cup {saver.of} ELSE failed
    /\ saver' = Resting

\* (Mutation: the session stays although its creation failed.)
BugUndoNothing ==
    /\ mem' = mem
    /\ failed' = IF saver.op = "create" THEN failed \cup {saver.of} ELSE failed
    /\ saver' = Resting

\* The error goes up; the caller takes back what it did to the map.
Undo ==
    /\ IF saver.op = "create"
       THEN mem' = mem \ {saver.of} /\ failed' = failed \cup {saver.of}
       ELSE mem' = mem \cup {saver.of} /\ UNCHANGED failed
    /\ saver' = Resting

\* The directory or the new file cannot be written, or the old file removed.
SaveFails ==
    /\ saver.pc = "checking" /\ (saver.todo = {} \/ saver.todo = mem)
    /\ Undo
    /\ UNCHANGED <<up, disk, markers, touching, frontend, taken, created, lost>>

\* The rename fails when the old file is gone already; so is the new one, then.
RenameFails ==
    /\ saver.pc = "removed"
    /\ Undo
    /\ lost' = lost \cup (created \ disk)
    /\ UNCHANGED <<up, disk, markers, touching, frontend, taken, created>>

\* (Mutation: the list takes the file for the truth.)
BugListSessions ==
    /\ up /\ ~Locked
    /\ mem' = (mem \cap disk) \ markers
    /\ UNCHANGED <<up, disk, markers, touching, saver, frontend, taken, created, failed, lost>>

\* listSessions drops what has a marker.
ListSessions ==
    /\ up /\ ~Locked
    /\ mem' = mem \ markers
    /\ UNCHANGED <<up, disk, markers, touching, saver, frontend, taken, created, failed, lost>>

ConnectorDies ==
    /\ up
    /\ up' = FALSE /\ mem' = {} /\ touching' = {} /\ saver' = Resting
    /\ lost' = IF saver.pc = "removed" THEN lost \cup (created \ disk) ELSE lost
    /\ UNCHANGED <<disk, markers, frontend, taken, created, failed>>

\* loadSessions, before the first request.  An error of os.ReadFile leaves the
\* memory empty, and the next save writes that.
Restart ==
    /\ ~up
    /\ up' = TRUE
    /\ \/ mem' = disk \ markers /\ lost' = lost \ disk
       \/ mem' = {} /\ lost' = lost \cup created
    /\ UNCHANGED <<disk, markers, touching, saver, frontend, taken, created, failed>>

-----------------------------------------------------------------------------
(* The frontend: delete_persistent_session. *)

Mark(s) ==
    /\ frontend = Resting /\ s \in taken
    /\ markers' = markers \cup {s}
    /\ frontend' = [pc |-> "marked", of |-> s]
    /\ UNCHANGED <<connectorVars, disk, created, failed, lost>>

\* A file that is not there, or cannot be read, is taken for the empty list.
Read ==
    /\ frontend.pc = "marked"
    /\ \E seen \in {disk, {}} :
          frontend' = [pc |-> "read", of |-> frontend.of, kept |-> seen \ {frontend.of},
                       stale |-> saver.pc = "removed" \/ seen # disk]
    /\ UNCHANGED <<connectorVars, disk, markers, created, failed, lost>>

Rewrite ==
    /\ frontend.pc = "read"
    /\ disk' = frontend.kept
    /\ frontend' = Resting
    /\ lost' = IF frontend.stale THEN lost \cup (created \ frontend.kept) ELSE lost
    /\ UNCHANGED <<connectorVars, markers, created, failed>>

\* An error of a file operation, or the end of the frontend.
DeleteFails ==
    /\ frontend # Resting
    /\ frontend' = Resting
    /\ UNCHANGED <<connectorVars, disk, markers, created, failed, lost>>

-----------------------------------------------------------------------------
Connector == \/ \E s \in Sessions : \/ Create(s) \/ TouchCheck(s) \/ TouchDeleted(s) \/ Touch(s)
                                    \/ CheckMarker(s)
             \/ RemoveOld \/ Rename \/ SaveFails \/ RenameFails
             \/ ListSessions \/ ConnectorDies \/ Restart
Frontend == (\E s \in Sessions : Mark(s)) \/ Read \/ Rewrite \/ DeleteFails

ChatNext == Connector \/ Frontend

ChatSpec == ChatInit /\ [][ChatNext]_chatVars

-----------------------------------------------------------------------------
(* Properties. *)

\* A creation that was reported as failed leaves no session, neither in memory
\* nor on disk nor in what the frontend is about to write.
FailedCreateLeavesNothing ==
    \A s \in failed : s \notin mem \cup disk /\ (frontend.pc = "read" => s \notin frontend.kept)

\* While the connector runs, only a deletion, or the failure of its own
\* creation, takes a session out of memory: no save, list or failed touch does.
MemoryKeepsLive ==
    [][\A s \in mem : up' /\ s \notin mem' =>
          s \in markers \/ (saver # Resting /\ saver.op = "create" /\ saver.of = s)]_chatVars

\* A save ends with every live session of the memory on disk, whatever the
\* frontend wrote in the meantime: the file heals; and without the sessions whose
\* deletion it has seen, which a save in flight may have written back.
SaveIsExact == [][Rename => mem \ markers \subseteq disk' /\ disk' \cap saver.dead = {}]_chatVars

\* A session the client was told of is on disk, unless it was deleted, or one of
\* five things happened: the connector died between removing the old file and
\* renaming the new one; that rename failed; the frontend read the file before
\* such a save and wrote it after; the frontend could not read it; or the
\* connector could not read it at its start.
OnlyKnownWaysLose ==
    saver.pc # "removed" => created \ (markers \cup lost) \subseteq disk
=============================================================================
