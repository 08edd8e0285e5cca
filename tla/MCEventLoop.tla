---------------------------- MODULE MCEventLoop ----------------------------
(* Instances of EventLoop for TLC: the three sources of the daemon's start    *)
(* and others that come and go.  One fd number is left for them, so each of   *)
(* them gets the number of the one before, which may still be waiting in the  *)
(* list of deleted sources.                                                  *)
EXTENDS EventLoop

FourFds == 1 .. 4
FiveIds == 1 .. 5
=============================================================================
