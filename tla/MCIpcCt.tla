------------------------------ MODULE MCIpcCt ------------------------------
(* An instance of IpcCt for TLC: three messages, of which the first takes     *)
(* several sends and reads, and one that is too long.                        *)
EXTENDS IpcCt

FdsOnTwo == {1, 3}
Bodies   == <<3, 1, 2, 4>>
=============================================================================
