------------------------------ MODULE MCSwctl ------------------------------
(* An instance of Swctl for TLC: a list from the first entry on, in pages of  *)
(* two, of a history of two entries and the pinned ones.                      *)
EXTENDS Swctl, TLC

CONSTANTS text, x, y, z

MCMimes == {text}
MCBlobs == {x, y, z}

OneX == [m \in {text} |-> x]
OneY == [m \in {text} |-> y]
OneZ == [m \in {text} |-> z]

MCContents == {OneX, OneY, OneZ}

(* Nothing tells the payloads apart. *)
Swapped == Permutations(MCBlobs)

With(dedup, max) ==
    [dedup |-> dedup, max_entries |-> max, set_on_startup |-> FALSE, persist |-> TRUE]
ConfigsAll == {With("all", 2)}

FromFirst == {0}
ThreeOrFour == {3, 4}

NoFaults == {}

(* What the actions and the properties read: all but cleared, transient and   *)
(* out, which the selections and the subscribers of other modules are told by *)
(* and on which no guard, no other variable and no property here depends.     *)
Shown == <<config, db, disk, id, pc, work, attrs, listVars, owed, meanwhile>>

=============================================================================
