------------------------------ MODULE History ------------------------------
(***************************************************************************)
(* What the core of the daemon promises about the clipboard history,       *)
(* without tables, hashes, transactions, handlers or restarts: a list of   *)
(* contents, some of them pinned, the latest in front.                     *)
(* (docs/swayclip.5.scd: dedup, max_entries; docs/swctl.1.scd)             *)
(***************************************************************************)
EXTENDS Ranks

CONSTANTS
    Copies,  \* what may be copied
    Sizes,   \* the values of max_entries
    Unique   \* dedup is "all" throughout

VARIABLE history  \* sequence of [content, pinned]

Places == 1 .. Len(history)

(* A list without the entries at a set of places. *)
Without(list, S) == AtPlaces(list, DOMAIN list \ S)

Unpinned(list) == {p \in DOMAIN list : ~list[p].pinned}

Init == history = <<>>

(* A copy becomes the entry in front. *)
Add(c) ==
    /\ Unique => \A p \in Places : history[p].content # c
    /\ history' = <<[content |-> c, pinned |-> FALSE]>> \o history

(* A copy of what is already there moves that entry to the front. *)
MoveToFront(p) == history' = <<history[p]>> \o Without(history, {p})

(* A user deletes an entry, or all; all go also with a daemon that is not to  *)
(* persist.                                                                  *)
Delete(p) == history' = Without(history, {p})
Empty     == history' = <<>>

Pin(p, on) == history' = [history EXCEPT ![p].pinned = on]

(* Unpinned entries go, until no more than max are left. *)
Trim(max) ==
    \E S \in SUBSET Unpinned(history) :
        /\ Cardinality(Unpinned(history)) - Cardinality(S) = max
        /\ history' = Without(history, S)

(* A step that changes something. *)
Next ==
    /\ history' # history
    /\ \/ \E c \in Copies : Add(c)
       \/ \E p \in Places : MoveToFront(p) \/ Delete(p) \/ Pin(p, TRUE) \/ Pin(p, FALSE)
       \/ Empty
       \/ \E max \in Sizes : Trim(max)

Spec == Init /\ [][Next]_history

=============================================================================
