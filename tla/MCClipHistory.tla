--------------------------- MODULE MCClipHistory ---------------------------
(* Instances of ClipHistory for TLC.                                        *)
EXTENDS ClipHistory

CONSTANTS text, html,       \* mime types
          x, y              \* payloads

MCMimes == {text, html}
MCBlobs == {x, y}

(* Both contain the payload x, one also the empty payload, and no part of     *)
(* either is a content.                                                       *)
Shared == [m \in MCMimes |-> IF m = text THEN x ELSE y]
Hollow == [m \in MCMimes |-> IF m = text THEN NoBlob ELSE x]

TwoContents == {Shared, Hollow}

With(dedup, max, startup, persist) ==
    [dedup |-> dedup, max_entries |-> max, set_on_startup |-> startup, persist |-> persist]

(* The default of config.c but for the size, and what a user may edit it to   *)
(* between two starts; a history that is kept in memory; and a configuration  *)
(* that never trims here, for PrevIsNotRepeated.                              *)
ConfigsMixed == {With("all", 2, TRUE, TRUE), With("prev", 1, FALSE, TRUE),
                 With("none", 2, TRUE, TRUE), With("all", 2, TRUE, FALSE)}
ConfigsPrev  == {With("prev", 4, TRUE, TRUE)}

AllFaults == Calls

=============================================================================
