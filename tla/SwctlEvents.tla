---------------------------- MODULE SwctlEvents ----------------------------
(***************************************************************************)
(* "swctl events" (cli/main.c, command_events) against the daemon's server: *)
(* a round trip that subscribes, then a loop that prints what comes.  The  *)
(* program is the client Follower of IpcServer; it reads all that is there at  *)
(* once, and a round trip keeps the last message of what it read.          *)
(***************************************************************************)
EXTENDS IpcServer

CONSTANT Follower

ASSUME FollowerAssumption ==
    Follower \in Clients /\ Requests[Follower] = {<<[type |-> "subscribe"]>>}

VARIABLES phase,    \* "roundtrip", "print", or "failed": the exit status is 1
          printed

allVars == <<vars, phase, printed>>

FollowerInit == Init /\ phase = "roundtrip" /\ printed = <<>>

(* read_msgs: the messages ipc_ct_read finds. *)
Found == SubSeq(conn[Follower].out, read[Follower] + 1, conn[Follower].sent)

(* roundtrip and is_success; the daemon answers "subscribe" with success. *)
RoundtripAny == /\ phase = "roundtrip"
                /\ phase' = "print"
                /\ UNCHANGED printed

Roundtrip == /\ phase = "roundtrip"
             /\ phase' = IF Last(Found).kind = "response" THEN "print" ELSE "failed"
             /\ UNCHANGED printed

(* event_callback *)
PrintFound == /\ phase = "print"
              /\ printed' = printed \o Found
              /\ UNCHANGED phase

FollowerNext ==
    /\ Next
    /\ IF read'[Follower] # read[Follower] THEN Roundtrip \/ PrintFound ELSE UNCHANGED <<phase, printed>>

FollowerSpec == FollowerInit /\ [][FollowerNext]_allVars
FollowerFairSpec == FollowerSpec /\ Fairness

-----------------------------------------------------------------------------
(* Once the loop runs, what was read after the first k messages, which are     *)
(* responses, are events, and all of them are printed, in order.  It holds       *)
(* because the daemon sends no event before the response and the round trip     *)
(* fails on a read that brings more than the response.  (command_events)         *)
PrintsEveryEvent ==
    phase = "print" =>
        LET out == conn[Follower].out
        IN \E k \in 0 .. read[Follower] :
               /\ \A i \in 1 .. read[Follower] : out[i].kind = IF i <= k THEN "response" ELSE "event"
               /\ printed = SubSeq(out, k + 1, read[Follower])

(* A subscription the daemon accepted is followed.  The code breaks this: an    *)
(* event that arrives together with the response replaces it, and the program   *)
(* exits.  (swctl(1), events: "Output a JSON stream of events from the daemon")  *)
SubscribedIsFollowed == Answered(Follower) # {} => phase # "failed"

=============================================================================
