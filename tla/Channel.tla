------------------------------ MODULE Channel ------------------------------
(***************************************************************************)
(* What one direction of an IPC connection promises: the messages posted   *)
(* arrive in the order they were posted, each with its own file descriptor *)
(* or none, until the connection is cut.  IpcCt implements it.             *)
(***************************************************************************)
EXTENDS Naturals, Sequences

CONSTANT Payloads   \* a message together with its descriptor

VARIABLES posted, received, cut

vars == <<posted, received, cut>>

Init == posted = <<>> /\ received = <<>> /\ cut = FALSE

Post == /\ \E p \in Payloads : posted' = Append(posted, p)
        /\ UNCHANGED <<received, cut>>

Deliver == /\ Len(received) < Len(posted)
           /\ received' = Append(received, posted[Len(received) + 1])
           /\ UNCHANGED <<posted, cut>>

Cut == cut' = TRUE /\ UNCHANGED <<posted, received>>

Next == Post \/ Deliver \/ Cut

Spec == Init /\ [][Next]_vars

(* As long as the connection is up, every message is delivered.              *)
FairSpec == Spec /\ WF_vars(~cut /\ Deliver)
=============================================================================
