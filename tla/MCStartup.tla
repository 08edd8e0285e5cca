----------------------------- MODULE MCStartup -----------------------------
(* An instance of Startup for TLC.                                           *)
EXTENDS Startup

CONSTANTS first, second, third

ThreeDaemons == {first, second, third}
=============================================================================
