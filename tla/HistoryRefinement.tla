-------------------------- MODULE HistoryRefinement --------------------------
(* The core of the daemon implements History: what is committed to the        *)
(* database, in the order of its places, is that list.                        *)
EXTENDS ClipHistory

Stored(d, i) == [content |-> d.entries[i].mimes, pinned |-> d.entries[i].pinned]

StoredHistory(d) == [k \in 1 .. Cardinality(Live(d)) |-> Stored(d, EntryAt(d, k))]

Promise == INSTANCE History WITH
    Copies  <- Contents,
    Sizes   <- {c.max_entries : c \in Configs},
    Unique  <- \A c \in Configs : c.dedup = "all",
    history <- StoredHistory(disk)

(* Whatever fails and wherever the process dies, every change of the stored    *)
(* history is one that was promised, whole and at once: a copy in front, a     *)
(* duplicate moved to the front with the rest in order, a deletion, a pin, or  *)
(* a trim of unpinned entries down to the limit.  In particular a transaction  *)
(* is never seen half done.  (wsignal_selection, request_callback,             *)
(* database_init)                                                              *)
ImplementsHistory == Promise!Spec

=============================================================================
