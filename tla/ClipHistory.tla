---------------------------- MODULE ClipHistory ----------------------------
(***************************************************************************)
(* The core of the daemon (src/daemon/main.c): what a selection event, a   *)
(* request of an IPC client, a crash and a restart do to the history, to   *)
(* the current entry and to the transient data, and which events they      *)
(* emit.                                                                   *)
(*                                                                         *)
(* The daemon is one thread.  A request handler is one action.  The        *)
(* handler of a selection event, wsignal_selection, blocks while it reads  *)
(* from the copying application and commits more than once, so it is a     *)
(* sequence of steps: nothing but a crash comes between them.              *)
(*                                                                         *)
(*   "idle"     in the event loop                                          *)
(*   "receive"  transaction open, contents being read                      *)
(*   "publish"  entry committed, not yet announced                         *)
(*   "moved"    duplicate moved to the front, not yet announced            *)
(*   "trim"     last call of the handler, database_trim                    *)
(*   "down"     no process                                                 *)
(***************************************************************************)
EXTENDS HistoryDB, Sequences

CONSTANTS
    Configs,  \* the configurations a start of the daemon may find
    Faults    \* the calls that may fail in this instance

Calls == {"begin", "new_entry", "receive", "hash", "commit", "sort", "update", "save", "trim"}

Config == [dedup : {"none", "prev", "all"}, max_entries : Nat \ {0}, set_on_startup : BOOLEAN,
           persist : BOOLEAN]

ASSUME ConfigsAssumption == Configs \subseteq Config /\ Configs # {}
ASSUME FaultsAssumption  == Faults \subseteq Calls

Clear     == -1  \* no current entry
Transient == 0   \* the current entry is the transient data

VARIABLES
    config,     \* state.config
    db,         \* the database as its connection sees it
    disk,       \* the database as last committed
    id,         \* state.id
    cleared,    \* state.cleared
    transient,  \* state.transient, Null when n_mime_types = 0
    pc,         \* where the daemon is, see above
    work,       \* locals of wsignal_selection: contents, id, old_pos
    out         \* the events the last step emitted, in order

vars == <<config, db, disk, id, cleared, transient, pc, work, out>>

NoWork == [content |-> Null, id |-> NoId, pos |-> 0]

-----------------------------------------------------------------------------
(* Events, as src/daemon/ipc.c builds them. *)

Added(i)        == [event |-> "entry_add", id |-> i]
Deleted(S)      == [event |-> "entry_delete", ids |-> S]  \* one per id; -1: all
Updated(i)      == [event |-> "entry_update", id |-> i, fields |-> {"update_time"}]
PinUpdated(i, p) == [event |-> "entry_update", id |-> i, fields |-> {"update_time", "pinned"}, pinned |-> p]
Moved(i, pos)   == [event |-> "entry_move", id |-> i, old_pos |-> pos]
StateOf(i, on)  == [event |-> "entry_state", id |-> i, state |-> on]

-----------------------------------------------------------------------------
(* Mutant of Saved: Last_entry is never written. *)
SavedNever(d, i) == {d}

(* set(): make entry i current on a database d that is committed.  The       *)
(* result of saving Last_entry is ignored.                                   *)
Saved(d, i) == IF i > 0 THEN {SaveLast(d, i)} \cup (IF "save" \in Faults THEN {d} ELSE {})
                        ELSE {d}

Set(d, i) ==
    /\ id' = i
    /\ cleared' = (cleared \/ i = Clear)
    /\ db' \in Saved(d, i)
    /\ disk' = db'

SetEvents(old, new) == (IF old > 0 THEN <<StateOf(old, FALSE)>> ELSE <<>>)
                       \o (IF new > 0 THEN <<StateOf(new, TRUE)>> ELSE <<>>)

-----------------------------------------------------------------------------
(* Selection events: wsignal_selection *)

(* The instance has room for one more entry and one more move. *)
Room == db.seq < MaxId /\ NextSort(db) <= MaxSort

(* A selection that matches a transient filter: the contents stay in memory. *)
CopyTransient(c) ==
    /\ pc = "idle"
    /\ transient' = c
    /\ id' = Transient
    /\ out' = <<>>
    /\ UNCHANGED <<config, db, disk, cleared, pc, work>>

(* Reading them failed: nothing is current and nothing is kept. *)
CopyTransientFails ==
    /\ pc = "idle"
    /\ "receive" \in Faults
    /\ transient' = Null
    /\ id' = Clear
    /\ out' = <<>>
    /\ UNCHANGED <<config, db, disk, cleared, pc, work>>

(* Any other selection: the transient data go, a transaction is opened and   *)
(* the new row is inserted in it.                                            *)
Copy(c) ==
    /\ pc = "idle"
    /\ Room
    /\ transient' = Null
    /\ db' = NewEntry(db)
    /\ work' = [content |-> c, id |-> NewId(db), pos |-> 0]
    /\ pc' = "receive"
    /\ out' = <<>>
    /\ UNCHANGED <<config, disk, id, cleared>>

(* BEGIN IMMEDIATE fails: return at once. *)
CopyBeginFails ==
    /\ pc = "idle"
    /\ "begin" \in Faults
    /\ transient' = Null
    /\ out' = <<>>
    /\ UNCHANGED <<config, db, disk, id, cleared, pc, work>>

(* Mutant of Abort: COMMIT whatever the outcome. *)
AbortCommits ==
    /\ db' = db
    /\ disk' = db
    /\ id' = Clear
    /\ pc' = "trim"
    /\ out' = <<>>
    /\ UNCHANGED <<config, cleared, work>>

(* The exit path of every failure: ROLLBACK, and no entry is current. *)
Abort ==
    /\ db' = disk
    /\ id' = Clear
    /\ pc' = "trim"
    /\ out' = <<>>
    /\ UNCHANGED <<config, disk, cleared, work>>

CopyNewEntryFails ==
    /\ pc = "idle"
    /\ "new_entry" \in Faults
    /\ transient' = Null
    /\ Abort

Partial == db.entries[work.id]

(* One more mime type is read and stored. *)
ReceiveMime(m) ==
    /\ pc = "receive"
    /\ m \in DOMAIN work.content \ DOMAIN Partial.mimes
    /\ db' = NewMimeType(db, work.id, m, work.content[m])
    /\ out' = <<>>
    /\ UNCHANGED <<config, disk, id, cleared, transient, pc, work>>

(* The application does not answer, sends too much or goes away, or the row   *)
(* cannot be stored.                                                          *)
ReceiveFails ==
    /\ pc = "receive"
    /\ "receive" \in Faults
    /\ DOMAIN work.content # DOMAIN Partial.mimes
    /\ Abort
    /\ UNCHANGED transient

Received == pc = "receive" /\ DOMAIN work.content = DOMAIN Partial.mimes

Duplicates == WithHash(db, work.content)

(* The row being inserted is in front of all others and is not counted. *)
OldPosition(i) == Position(db, i) - 1

(* Mutant of IsMoved: the second place counts as the first. *)
IsMovedFromThird(i) == config.dedup = "all" /\ OldPosition(i) > 1

(* The switch on config.dedup, with its three outcomes. *)
IsIgnored(i) == config.dedup \in {"prev", "all"} /\ OldPosition(i) = 0
IsMoved(i)   == config.dedup = "all" /\ OldPosition(i) # 0
IsInserted   == \A i \in Duplicates : ~IsIgnored(i) /\ ~IsMoved(i)

IgnoreDuplicate ==
    /\ Received
    /\ \E i \in Duplicates : IsIgnored(i)
    /\ db' = disk
    /\ pc' = "trim"
    /\ out' = <<>>
    /\ UNCHANGED <<config, disk, id, cleared, transient, work>>

(* Mutant of Hashed: the duplicate keeps its hash. *)
HashedTwice == SetEntryHash(db, work.id, work.content)

(* A duplicate loses its hash to the new row, then the transaction commits. *)
Hashed == SetEntryHash(ClearEntryHash(db, work.content), work.id, work.content)

Insert ==
    /\ Received
    /\ IsInserted
    /\ db' = Hashed
    /\ disk' = db'
    /\ pc' = "publish"
    /\ out' = <<>>
    /\ UNCHANGED <<config, id, cleared, transient, work>>

InsertFails ==
    /\ Received
    /\ IsInserted
    /\ "hash" \in Faults
    /\ Abort
    /\ UNCHANGED transient

(* COMMIT fails and SQLite rolls back; the result is not looked at. *)
CommitFails ==
    /\ Received
    /\ IsInserted
    /\ "commit" \in Faults
    /\ db' = disk
    /\ pc' = "publish"
    /\ out' = <<>>
    /\ UNCHANGED <<config, disk, id, cleared, transient, work>>

(* Mutant of MoveDuplicate: id is not set to dup_id. *)
MoveDuplicateKeepsId ==
    /\ Received
    /\ \E i \in Duplicates :
          /\ IsMoved(i)
          /\ db' = UpdateSortIndex(disk, i)
          /\ disk' = db'
          /\ work' = [work EXCEPT !.pos = OldPosition(i)]
    /\ pc' = "moved"
    /\ out' = <<>>
    /\ UNCHANGED <<config, id, cleared, transient>>

(* The new row is rolled back and the old one moved to the front. *)
MoveDuplicate ==
    /\ Received
    /\ \E i \in Duplicates :
          /\ IsMoved(i)
          /\ db' = UpdateSortIndex(disk, i)
          /\ disk' = db'
          /\ work' = [work EXCEPT !.id = i, !.pos = OldPosition(i)]
    /\ pc' = "moved"
    /\ out' = <<>>
    /\ UNCHANGED <<config, id, cleared, transient>>

MoveFails ==
    /\ Received
    /\ \E i \in Duplicates : IsMoved(i)
    /\ "sort" \in Faults
    /\ db' = disk
    /\ pc' = "trim"
    /\ out' = <<>>
    /\ UNCHANGED <<config, disk, id, cleared, transient, work>>

Publish ==
    /\ pc = "publish"
    /\ Set(db, work.id)
    /\ out' = <<Added(work.id)>> \o SetEvents(id, work.id)
    /\ pc' = "trim"
    /\ UNCHANGED <<config, transient, work>>

PublishMove ==
    /\ pc = "moved"
    /\ Set(db, work.id)
    /\ out' = <<Updated(work.id), Moved(work.id, work.pos)>> \o SetEvents(id, work.id)
    /\ pc' = "trim"
    /\ UNCHANGED <<config, transient, work>>

(* Writing the update time fails: the move stays, and stays unannounced. *)
PublishMoveFails ==
    /\ pc = "moved"
    /\ "update" \in Faults
    /\ pc' = "trim"
    /\ out' = <<>>
    /\ UNCHANGED <<config, db, disk, id, cleared, transient, work>>

(* Mutant of TrimHistory: database_trim is given no callback. *)
TrimSilently ==
    /\ pc = "trim"
    /\ db' = Trim(db, config.max_entries)
    /\ disk' = db'
    /\ pc' = "idle"
    /\ work' = NoWork
    /\ out' = <<>>
    /\ UNCHANGED <<config, id, cleared, transient>>

TrimHistory ==
    /\ pc = "trim"
    /\ LET gone == Excess(db, config.max_entries)
       IN  out' = IF gone = {} THEN <<>> ELSE <<Deleted(gone)>>
    /\ db' = Trim(db, config.max_entries)
    /\ disk' = db'
    /\ pc' = "idle"
    /\ work' = NoWork
    /\ UNCHANGED <<config, id, cleared, transient>>

(* The callback has announced the rows returned before the failure, and the  *)
(* statement is undone as a whole.                                           *)
TrimFails ==
    /\ pc = "trim"
    /\ "trim" \in Faults
    /\ pc' = "idle"
    /\ work' = NoWork
    /\ \E S \in SUBSET Excess(db, config.max_entries) :
           out' = IF S = {} THEN <<>> ELSE <<Deleted(S)>>
    /\ UNCHANGED <<config, db, disk, id, cleared, transient>>

-----------------------------------------------------------------------------
(* Requests of IPC clients: request_callback.  A request that names no entry *)
(* or fails before its first change is answered with an error and changes    *)
(* nothing.                                                                  *)

SetClipboard(i) ==
    /\ pc = "idle"
    /\ IdExists(db, i)
    /\ Set(db, i)
    /\ \/ out' = SetEvents(id, i) \o <<Updated(i)>>
       \/ "update" \in Faults /\ out' = SetEvents(id, i)
    /\ UNCHANGED <<config, transient, pc, work>>

(* id -1 needs no entry, and is "updated" like one: UPDATE finds no row.      *)
ClearClipboard ==
    /\ pc = "idle"
    /\ Set(db, Clear)
    /\ \/ out' = SetEvents(id, Clear) \o <<Updated(Clear)>>
       \/ "update" \in Faults /\ out' = SetEvents(id, Clear)
    /\ UNCHANGED <<config, transient, pc, work>>

RequestDelete(i) ==
    /\ pc = "idle"
    /\ IdExists(db, i)
    /\ db' = DeleteEntry(db, i)
    /\ disk' = db'
    /\ id' = IF id = i THEN Clear ELSE id
    /\ cleared' = (cleared \/ id = i)
    /\ out' = <<Deleted({i})>>
    /\ UNCHANGED <<config, transient, pc, work>>

RequestClear ==
    /\ pc = "idle"
    /\ db' = ClearAll(db)
    /\ disk' = db'
    /\ id' = Clear
    /\ cleared' = TRUE
    /\ out' = <<Deleted({Clear})>>
    /\ UNCHANGED <<config, transient, pc, work>>

PinEntry(i, pin) ==
    /\ pc = "idle"
    /\ IdExists(db, i)
    /\ db' = SetPinned(db, i, pin)
    /\ disk' = db'
    /\ out' = <<PinUpdated(i, pin)>>
    /\ UNCHANGED <<config, id, cleared, transient, pc, work>>

-----------------------------------------------------------------------------
(* The process *)

(* The process ends, in the event loop (SIGTERM) or anywhere else (a crash):  *)
(* an open transaction is rolled back when the database is next opened, and a *)
(* database in memory is gone.                                               *)
Stop ==
    /\ pc # "down"
    /\ disk' = IF config.persist THEN disk ELSE EmptyDatabase
    /\ db' = disk'
    /\ id' = Clear
    /\ cleared' = FALSE
    /\ transient' = Null
    /\ pc' = "down"
    /\ work' = NoWork
    /\ out' = <<>>
    /\ UNCHANGED config

(* main: database_init with its silent trim, whose result is ignored, then the *)
(* last entry.  A user may have edited the configuration, but for the option   *)
(* persist, so that the file of the history stays the one or is never used.    *)
Start(c) ==
    /\ pc = "down"
    /\ c.persist = config.persist
    /\ config' = c
    /\ db' \in {Trim(db, c.max_entries)} \cup (IF "trim" \in Faults THEN {db} ELSE {})
    /\ disk' = db'
    /\ id' = IF c.set_on_startup /\ db'.last # NoId THEN db'.last ELSE Clear
    /\ pc' = "idle"
    /\ out' = <<>>
    /\ UNCHANGED <<cleared, transient, work>>

-----------------------------------------------------------------------------
Init ==
    /\ config \in Configs
    /\ db = EmptyDatabase
    /\ disk = EmptyDatabase
    /\ id = Clear
    /\ cleared = FALSE
    /\ transient = Null
    /\ pc = "down"
    /\ work = NoWork
    /\ out = <<>>

(* The steps of a running wsignal_selection, no crash among them. *)
Handle ==
    \/ \E m \in Mimes : ReceiveMime(m)
    \/ ReceiveFails
    \/ IgnoreDuplicate
    \/ Insert
    \/ InsertFails
    \/ CommitFails
    \/ MoveDuplicate
    \/ MoveFails
    \/ Publish
    \/ PublishMove
    \/ PublishMoveFails
    \/ TrimHistory
    \/ TrimFails

Select ==
    \/ \E c \in Contents : CopyTransient(c)
    \/ CopyTransientFails
    \/ \E c \in Contents : Copy(c)
    \/ CopyBeginFails
    \/ CopyNewEntryFails

Request ==
    \/ \E i \in Ids : SetClipboard(i)
    \/ ClearClipboard
    \/ \E i \in Ids : RequestDelete(i)
    \/ RequestClear
    \/ \E i \in Ids, pin \in BOOLEAN : PinEntry(i, pin)

Next ==
    \/ Handle
    \/ Select
    \/ Request
    \/ Stop
    \/ \E c \in Configs : Start(c)

Spec == Init /\ [][Next]_vars

-----------------------------------------------------------------------------
(* Properties *)

(* Every variable has its type, and outside a transaction nothing is           *)
(* uncommitted.                                                                *)
TypeOK ==
    /\ config \in Configs
    /\ IsDatabase(db) /\ IsDatabase(disk)
    /\ id \in Ids \cup {Clear, Transient}
    /\ cleared \in BOOLEAN
    /\ transient \in Contents \cup {Null}
    /\ pc \in {"idle", "receive", "publish", "moved", "trim", "down"}
    /\ work \in [content : Contents \cup {Null}, id : Ids \cup {NoId}, pos : Nat]
    /\ pc # "receive" => db = disk

(* What dedup looks up is the truth: a hash is the hash of the contents its    *)
(* row has, and of several rows with these contents it is the newest that      *)
(* carries it, so that a position found through the hash is the position of    *)
(* the latest copy.  Two rows never share a place in the order.                *)
(* (wsignal_selection's dedup switch, save_entry_hash, entry_hash_pos)         *)
HashIsOfNewest == HashesNewest(disk)

(* An entry is captured whole or not at all: whatever fails, and wherever the  *)
(* process dies, no committed row has only some of the mime types that were    *)
(* offered, and a hash is never that of other contents.  (the transaction of   *)
(* wsignal_selection.)  A comment in config.h says otherwise of a mime type    *)
(* that is too big: TooBigIsIgnored.                                           *)
EntriesAreWhole == RowsWhole(disk)

(* The shared table Data holds exactly the payloads the entries refer to:      *)
(* deleting an entry leaves no payload behind and takes none another entry     *)
(* still needs.  (triggers del_data_row, ON DELETE CASCADE)                    *)
DataIsReferenced == DataReferenced(disk)

(* A daemon whose history is in memory ends, and its ids with it. *)
Forgets == pc' = "down" /\ ~config.persist

(* The id of an entry that was committed stays good for as long as there is    *)
(* the history: the counter never goes back, the id never comes to name other  *)
(* contents, and once its entry is gone no later entry gets it, through        *)
(* crashes, rollbacks, trims and restarts.  (AUTOINCREMENT; swctl set -d reads *)
(* back the ids of an earlier list.)  An id announced after a COMMIT that      *)
(* failed was never committed: AnnouncedIsUsedUp.                              *)
IdsAreForever ==
    [][~Forgets =>
          /\ disk.seq <= disk'.seq
          /\ \A i \in 1 .. disk.seq :
                i \in Live(disk') => /\ i \in Live(disk)
                                     /\ disk'.entries[i].mimes = disk.entries[i].mimes]_vars

(* Only a user deletes what a user pinned: neither the trim after a selection  *)
(* nor the one of a start under a smaller max_entries nor a failed copy        *)
(* removes a pinned entry.  (statement trim; swctl(1), pin)                    *)
PinnedSurvives ==
    [][pc # "idle" /\ ~Forgets => \A i \in Live(disk) \ Unpinned(disk) :
                                      i \in Live(disk') /\ disk'.entries[i].pinned]_vars

(* The trim that ends a selection event brings the unpinned entries down to    *)
(* max_entries, however many unpinnings came before, and never below it.       *)
(* (database_trim, its LIMIT -1 OFFSET max_entries)                            *)
TrimIsExact ==
    [][pc = "trim" /\ pc' = "idle" /\ "trim" \notin Faults =>
          LET before == Cardinality(Unpinned(db))
              after  == Cardinality(Unpinned(db'))
          IN  after = IF before > config.max_entries THEN config.max_entries ELSE before]_vars

(* What a restart would restore is what is current, after any request or       *)
(* selection that left an entry current.  (set, DB_SETTING_LAST_ENTRY)         *)
LastIsCurrent == pc = "idle" /\ id > 0 => disk.last = id

(* When a copy is about to be announced, the id it is announced under is the   *)
(* front of the history and has the contents that were copied, whether the     *)
(* entry was inserted or an old duplicate moved.  (wsignal_selection, dup_id)  *)
AnnouncedIsCopied ==
    pc \in {"publish", "moved"} =>
        /\ work.id \in Live(disk)
        /\ Position(disk, work.id) = 0
        /\ disk.entries[work.id].mimes = work.content

-----------------------------------------------------------------------------
(* The inductive invariant behind these: the committed database is sound, and  *)
(* an open transaction has added to it one row, holding what has been read of  *)
(* the selection so far.                                                       *)
InTransaction ==
    /\ work.content \in Contents
    /\ work.id = disk.seq + 1 /\ db.seq = work.id
    /\ NextSort(disk) <= MaxSort
    /\ Live(db) = Live(disk) \cup {work.id}
    /\ \A i \in Live(disk) : db.entries[i] = disk.entries[i]
    /\ Partial.sort = NextSort(disk)
    /\ Partial.hash = Null /\ Partial.pinned = FALSE
    /\ DOMAIN Partial.mimes \subseteq DOMAIN work.content
    /\ \A m \in DOMAIN Partial.mimes : Partial.mimes[m] = work.content[m]
    /\ DataReferenced(db)

IInv ==
    /\ TypeOK
    /\ Sound(disk)
    /\ pc = "receive" => InTransaction
    /\ pc \in {"publish", "moved"} => work.id \in Ids

-----------------------------------------------------------------------------
(* What the documentation and the comments say and the code does not do: the   *)
(* runs that expect a violation check these, one each.                         *)

(* The current entry exists.  (swctl(1): current, delete)                      *)
CurrentExists == pc = "idle" /\ id > 0 => IdExists(disk, id)

(* A current transient entry has its data.  (the comment on state.id in main.c *)
(* and on n_mime_types in wsignal_send)                                        *)
TransientHasData == pc = "idle" /\ id = Transient => transient # Null

(* What is trimmed is further back in the history than what is kept.           *)
(* (swayclip(5): max_entries, dedup)                                           *)
TrimTakesOldest ==
    pc = "trim" =>
        LET gone == Excess(db, config.max_entries)
        IN  \A i \in gone, j \in Unpinned(db) \ gone : Sort(db, i) < Sort(db, j)

(* Under dedup "prev" a new entry differs from the one it is put in front of.   *)
(* (swayclip(5), dedup)                                                        *)
PrevIsNotRepeated ==
    pc = "publish" /\ config.dedup = "prev" =>
        \A i \in Live(disk) :
            Position(disk, i) = 1 => disk.entries[i].mimes # work.content

Emitted(event) == {out[n] : n \in {k \in DOMAIN out : out[k].event = event}}

(* An entry that is announced is in the history.  (swctl(1), entry_add)        *)
AddedExists == \A e \in Emitted("entry_add") : IdExists(disk, e.id)

(* An id that was announced is never given to another entry.  The code breaks  *)
(* this after a COMMIT that failed: the counter was rolled back with the row.  *)
(* (AUTOINCREMENT in db_schema.sql)                                            *)
AnnouncedIsUsedUp == \A e \in Emitted("entry_add") : e.id <= disk.seq

(* A mime type whose data are too big is left out of the entry, and the rest   *)
(* is stored.  The code drops the whole selection.  (config.h, max_size: "the  *)
(* mime type will be ignored")                                                 *)
TooBigIsIgnored == [][ReceiveFails => pc' = "receive"]_vars

=============================================================================
