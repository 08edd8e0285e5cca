----------------------------- MODULE HistoryDB -----------------------------
(***************************************************************************)
(* The clipboard history as src/daemon/database.c keeps it in SQLite: one  *)
(* record per database, and one operator per prepared statement that       *)
(* changes or ranks it.  The operators are total functions of the record,  *)
(* so a transaction is a record put aside and, on ROLLBACK, taken back.    *)
(*                                                                         *)
(*   d.entries  table Entries with its rows of Mime_types folded in: a     *)
(*              function from the ids of the rows to                       *)
(*              [sort, pinned, hash, mimes]                                *)
(*   d.data     table Data: the payloads stored once each                  *)
(*   d.seq      the AUTOINCREMENT counter of Entries.Id                    *)
(*   d.last     the setting Last_entry, NoId when the row is absent        *)
(*                                                                         *)
(* A payload stands for its own SHA-256 (Data_id), a selection (function   *)
(* from mime type to payload) for its own entry hash: hashing is injective *)
(* here.  Times, attributes and the order of the mime types in an offer    *)
(* are left out.                                                           *)
(***************************************************************************)
EXTENDS Integers, FiniteSets, FiniteSetsExt, Functions

CONSTANTS
    Mimes,     \* mime types that pass the filters of wayland.c
    Blobs,     \* payloads of at least one byte
    NoBlob,    \* the payload of zero bytes: stored as Data_id = NULL
    Contents,  \* what applications copy: partial functions Mimes -> payload
    Null,      \* the column Hash is NULL, a pointer is NULL
    MaxId,     \* bound on the ids handed out (keeps the instance finite)
    MaxSort    \* bound on Sort_index (keeps the instance finite)

Ids     == 1 .. MaxId
Sorts   == 1 .. MaxSort
NoId    == 0
Payload == Blobs \cup {NoBlob}

(* The rows of Mime_types an entry may have, complete or still being received. *)
MimeRows == UNION {[M -> Payload] : M \in SUBSET Mimes}

ASSUME PayloadAssumption == NoBlob \notin Blobs
ASSUME ContentsAssumption == /\ Contents \subseteq MimeRows
                             /\ \A c \in Contents : DOMAIN c # {}
                             /\ Null \notin MimeRows
ASSUME BoundsAssumption == MaxId \in Nat /\ MaxSort \in Nat

Row == [sort : Sorts, pinned : BOOLEAN, hash : Contents \cup {Null}, mimes : MimeRows]

IsTable(e) == DOMAIN e \subseteq Ids /\ e \in [DOMAIN e -> Row]

IsDatabase(d) ==
    /\ IsTable(d.entries)
    /\ d \in [entries : {d.entries}, data : SUBSET Blobs, seq : 0 .. MaxId, last : Ids \cup {NoId}]

EmptyDatabase == [entries |-> [i \in {} |-> 0], data |-> {}, seq |-> 0, last |-> NoId]

-----------------------------------------------------------------------------
(* Queries *)

Live(d)     == DOMAIN d.entries
Unpinned(d) == {i \in Live(d) : ~d.entries[i].pinned}
Sort(d, i)  == d.entries[i].sort

(* Statement id_exists. *)
IdExists(d, i) == i \in Live(d)

(* The payloads the Mime_types rows of table e refer to; NULL refers to none. *)
Refs(e) == (UNION {{e[i].mimes[m] : m \in DOMAIN e[i].mimes} : i \in DOMAIN e}) \ {NoBlob}

(* Statement entry_hash_pos: how many rows are in front of row i. *)
Position(d, i) == Cardinality({j \in Live(d) : Sort(d, j) > Sort(d, i)})

(* Statement get_entries, with the OFFSET that gives one place: rows by       *)
(* descending Sort_index.                                                     *)
EntryAt(d, place) == CHOOSE i \in Live(d) : Position(d, i) = place - 1

(* The rows statement entry_hash_pos finds for a hash. *)
WithHash(d, c) == {i \in Live(d) : d.entries[i].hash = c}

(* Mutant of NextSort: COUNT where the trigger has MAX. *)
NextSortByCount(d) == Cardinality(Live(d)) + 1

(* COALESCE(MAX(Sort_index), 0) + 1 *)
NextSort(d) == Max({Sort(d, i) : i \in Live(d)} \cup {0}) + 1

-----------------------------------------------------------------------------
(* Statements *)

SetRow(d, i, r) == [d EXCEPT !.entries = [j \in Live(d) \cup {i} |-> IF j = i THEN r ELSE d.entries[j]]]

(* Mutant of NewId: a PRIMARY KEY without AUTOINCREMENT. *)
NewIdReused(d) == Max(Live(d) \cup {0}) + 1

(* database_new_entry: an id above every id ever used, and the trigger      *)
(* set_sort_index puts the row in front of all others.                      *)
NewId(d) == d.seq + 1

NewEntry(d) ==
    [SetRow(d, NewId(d), [sort   |-> NextSort(d),
                          pinned |-> FALSE,
                          hash   |-> Null,
                          mimes  |-> [m \in {} |-> NoBlob]])
        EXCEPT !.seq = NewId(d)]

(* database_new_mime_type: INSERT OR IGNORE into Data unless the payload is  *)
(* empty, then the Mime_types row.                                           *)
NewMimeType(d, i, m, b) ==
    [SetRow(d, i, [d.entries[i] EXCEPT !.mimes = [n \in DOMAIN @ \cup {m} |-> IF n = m THEN b ELSE @[n]]])
        EXCEPT !.data = @ \cup ({b} \ {NoBlob})]

(* database_set_entry_hash with an id: the hash of one row.  (UNIQUE is      *)
(* checked where the statement is used.)                                     *)
SetEntryHash(d, i, c) == SetRow(d, i, [d.entries[i] EXCEPT !.hash = c])

(* database_set_entry_hash with id -1: NULL the hash of the rows that have it. *)
ClearEntryHash(d, c) ==
    [d EXCEPT !.entries = [i \in Live(d) |-> IF d.entries[i].hash = c
                                             THEN [d.entries[i] EXCEPT !.hash = Null]
                                             ELSE d.entries[i]]]

(* database_update_sort_index: move row i to the front. *)
UpdateSortIndex(d, i) == SetRow(d, i, [d.entries[i] EXCEPT !.sort = NextSort(d)])

(* database_update_entry with a pinned value (no row, no effect). *)
SetPinned(d, i, p) == SetRow(d, i, [d.entries[i] EXCEPT !.pinned = p])

(* database_save_setting of Last_entry. *)
SaveLast(d, i) == [d EXCEPT !.last = i]

(* Mutant of DeleteRows: a trigger without its NOT EXISTS. *)
DeleteRowsUnshared(d, S) ==
    [d EXCEPT !.entries = Restrict(d.entries, Live(d) \ S),
              !.data    = @ \ Refs(Restrict(d.entries, Live(d) \cap S))]

(* DELETE FROM Entries for a set of rows: ON DELETE CASCADE drops their      *)
(* Mime_types rows, and for each of those the trigger del_data_row drops the *)
(* Data row no other Mime_types row refers to.                               *)
DeleteRows(d, S) ==
    LET kept    == Restrict(d.entries, Live(d) \ S)
        touched == Refs(Restrict(d.entries, Live(d) \cap S))
    IN  [d EXCEPT !.entries = kept, !.data = @ \ (touched \ Refs(kept))]

DeleteEntry(d, i) == DeleteRows(d, {i})
ClearAll(d)       == DeleteRows(d, Live(d))

(* Mutants of Excess: without WHERE Pinned = 0; with an offset one too far. *)
ExcessOfAll(d, max) == {i \in Live(d) : Cardinality({j \in Live(d) : j > i}) >= max}

ExcessOffByOne(d, max) == {i \in Unpinned(d) : Cardinality({j \in Unpinned(d) : j > i}) > max}

(* The rows statement trim selects: the unpinned ones, by descending Id, from *)
(* offset max on.                                                             *)
Excess(d, max) == {i \in Unpinned(d) : Cardinality({j \in Unpinned(d) : j > i}) >= max}

(* database_trim. *)
Trim(d, max) == DeleteRows(d, Excess(d, max))

-----------------------------------------------------------------------------
(* What makes a committed database a good one. *)

(* Every id was issued by the counter. *)
IdsIssued(d) == \A i \in Live(d) : i <= d.seq

(* A row has all of a content, and no hash but that of its content. *)
RowsWhole(d) ==
    \A i \in Live(d) : /\ d.entries[i].mimes \in Contents
                       /\ d.entries[i].hash \in {Null, d.entries[i].mimes}

(* No two rows share a place in the order, and of the rows with one content    *)
(* only the newest may carry the hash.                                         *)
HashesNewest(d) ==
    \A i \in Live(d) : \A j \in Live(d) \ {i} :
        /\ Sort(d, i) # Sort(d, j)
        /\ d.entries[i].hash = d.entries[j].mimes
              => Sort(d, j) < Sort(d, i) /\ d.entries[j].hash = Null

(* The payloads kept are those some row refers to. *)
DataReferenced(d) == d.data = Refs(d.entries)

Sound(d) == IsDatabase(d) /\ IdsIssued(d) /\ RowsWhole(d) /\ HashesNewest(d) /\ DataReferenced(d)

=============================================================================
