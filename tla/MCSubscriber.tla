---------------------------- MODULE MCSubscriber ----------------------------
(* An instance for TLC of Subscriber, and of the refinement ClipHistory is    *)
(* shown to be.                                                              *)
EXTENDS Subscriber, HistoryRefinement

CONSTANTS text, html, x, y

MCMimes == {text, html}
MCBlobs == {x, y}

OneX == [m \in {text} |-> x]
OneY == [m \in {text} |-> y]
Two  == [m \in {html} |-> x]

MCContents == {OneX, OneY, Two}

With(dedup, max) ==
    [dedup |-> dedup, max_entries |-> max, set_on_startup |-> TRUE, persist |-> TRUE]
ConfigsAll == {With("all", 2)}

(* All but a failed COMMIT (AddedExists of ClipHistory), a failed write of    *)
(* Last_entry (LastIsCurrent), a trim that fails halfway (TrimIsExact), and a *)
(* failed write of the update time, after which a move stays unannounced.     *)
MostFaults == Calls \ {"commit", "save", "trim", "update"}

=============================================================================
