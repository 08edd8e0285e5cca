----------------------------- MODULE IpcServer -----------------------------
(***************************************************************************)
(* daemon/ipc.c: the server side of the daemon's socket.  Clients send     *)
(* requests; the daemon answers each, holds requests back when asked to,   *)
(* and sends events to the clients that subscribed.  What a request does   *)
(* is request_callback of main.c, reduced to what the server is about: a   *)
(* request reads the state, changes it (which emits an event), subscribes, *)
(* or asks to hold.                                                        *)
(*                                                                         *)
(* One callback runs at a time (module EventLoop): client_callback is cut  *)
(* into the messages it reads and the held requests it executes, during    *)
(* which only the clients and the kernel move.  Messages are whole here,   *)
(* but for the last of a client that leaves within one; the mask of events  *)
(* of a client has all of them or none.                                    *)
(***************************************************************************)
EXTENDS Integers, FiniteSets, SequencesExt

CONSTANTS Clients,
          NoClient,
          Requests,      \* Requests[c]: the sequences of requests that c may send, see Request
          MaxCopies,     \* bound on the changes nobody asked for
          Modulus,       \* 2^32: hold is a uint32_t
          Capacity       \* messages the socket takes before write() would block

Request == [type : {"get", "change", "subscribe", "unsubscribe"}] \cup [type : {"hold"}, n : Int]

ASSUME IpcAssumption ==
    /\ NoClient \notin Clients
    /\ Requests \in [Clients -> SUBSET Seq(Request)]
    /\ MaxCopies \in Nat
    /\ Modulus \in Nat /\ Modulus > 1
    /\ Capacity \in Nat \ {0}

VARIABLES asked,    \* asked[c]: the requests c has sent so far
          taken,    \* taken[c]: how many of them the daemon has read
          conn,     \* conn[c]: struct ipc_client, see Init
          changes,  \* who made each change of the daemon's state, a history
          serving,  \* the client whose client_callback runs; batch: it executes held requests
          read      \* read[c]: how many messages c has read

vars == <<asked, taken, conn, changes, serving, read>>

(* Changes that are not c's own: what c cannot know of without asking. *)
Foreign(by, c) == Cardinality({i \in DOMAIN by : by[i].client # c})

-----------------------------------------------------------------------------
(* Functions of ipc.c on d = [conn, changes].                                *)

Queue_NoMod(d, c, msgs) == [d EXCEPT !.conn[c].out = @ \o msgs]

(* ipc_ct_write_msg and eventloop_mod(EPOLLIN | EPOLLOUT) *)
Queue(d, c, msgs) == [d EXCEPT !.conn[c].out = @ \o msgs,
                               !.conn[c].pollout = @ \/ msgs # <<>>]

(* ipc_client_send and its kin: the answer to request k of c.  seen and held   *)
(* are histories: what c was told the state of, and whether k was held.       *)
Respond(d, c, k) ==
    Queue(d, c, <<[kind |-> "response", request |-> k,
                   seen |-> Foreign(d.changes, c), held |-> serving.batch]>>)

Change_Direct(d, c, k) ==
    LET by == Append(d.changes, [client |-> c, request |-> k])
        ev == [kind |-> "event", change |-> Len(by)]
    IN [changes |-> by,
        conn    |-> [e \in Clients |->
            IF ~d.conn[e].subscribed \/ d.conn[e].peer = "freed" THEN d.conn[e]
            ELSE [d.conn[e] EXCEPT !.out = Append(@, ev), !.pollout = TRUE]]]

(* ipc_emit_event: to those who subscribed; held back for the client whose   *)
(* request is being handled.                                                *)
Change(d, c, k) ==
    LET by == Append(d.changes, [client |-> c, request |-> k])
        ev == [kind |-> "event", change |-> Len(by)]
    IN [changes |-> by,
        conn    |-> [e \in Clients |->
            IF ~d.conn[e].subscribed \/ d.conn[e].peer = "freed" THEN d.conn[e] ELSE
            IF e = c THEN [d.conn[e] EXCEPT !.pending = Append(@, ev), !.pollout = TRUE]
                     ELSE [d.conn[e] EXCEPT !.out = Append(@, ev), !.pollout = TRUE]]]

(* ipc_client_set_events: the mask is replaced. *)
Subscribe(d, c, on) ==
    [d EXCEPT !.conn[c].subscribed = on,
              !.conn[c].since = IF d.conn[c].subscribed THEN @ ELSE Len(d.changes)]

AddHold_Short(d, c, n) == [d EXCEPT !.conn[c].hold = (@ + n - 1) % Modulus]

(* ipc_client_add_hold *)
AddHold(d, c, n) == [d EXCEPT !.conn[c].hold = (@ + n) % Modulus]

(* request_callback for request k of c.  A change may fail, and is then       *)
(* answered like a request that only reads.                                  *)
Execute(d, c, k) ==
    LET r == asked[c][k]
    IN CASE r.type = "get"       -> Respond(d, c, k)
         [] r.type = "change"    -> Respond(Change(d, c, k), c, k)
         [] r.type = "subscribe" -> Respond(Subscribe(d, c, TRUE), c, k)
         [] r.type = "unsubscribe" -> Respond(Subscribe(d, c, FALSE), c, k)
         [] r.type = "hold"      -> Respond(IF r.n > Modulus - 1 THEN d ELSE AddHold(d, c, r.n), c, k)

(* ipc_client_flush_events *)
FlushEvents(d, c) == [Queue(d, c, d.conn[c].pending) EXCEPT !.conn[c].pending = <<>>]

Hold(d, c, k) == [d EXCEPT !.conn[c].held = Append(@, k), !.conn[c].hold = @ - 1]

(* message_callback up to the held requests, which ExecuteHeld executes. *)
Message(d, c, k) ==
    LET h == Hold(d, c, k)
    IN IF d.conn[c].hold = 0 THEN FlushEvents(Execute(d, c, k), c)
       ELSE IF h.conn[c].hold = 0 THEN h ELSE FlushEvents(h, c)

-----------------------------------------------------------------------------

Nobody == [client |-> NoClient, in |-> FALSE, write |-> FALSE, hup |-> FALSE, batch |-> FALSE]

(* ipc_add_client: every client is connected. *)
Init ==
    /\ asked = [c \in Clients |-> <<>>]
    /\ taken = [c \in Clients |-> 0]
    /\ conn = [c \in Clients |->
                  [peer       |-> "open",  \* the client: open, left, torn; or the struct: freed
                   subscribed |-> FALSE,
                   since      |-> 0,       \* changes before it subscribed, a history
                   hold       |-> 0,
                   held       |-> <<>>,
                   pending    |-> <<>>,
                   out        |-> <<>>,    \* every message queued; the first "sent" are written
                   sent       |-> 0,
                   pollout    |-> FALSE]]
    /\ changes = <<>>
    /\ serving = Nobody
    /\ read = [c \in Clients |-> 0]

State == [conn |-> conn, changes |-> changes]
Becomes(d) == conn' = d.conn /\ changes' = d.changes

Idle == serving.client = NoClient

(* The clients: send, read whatever is there, or leave. *)
Send(c) ==
    /\ conn[c].peer = "open"
    /\ \E s \in Requests[c] : /\ IsStrictPrefix(asked[c], s)
                             /\ asked' = [asked EXCEPT ![c] = Append(@, s[Len(@) + 1])]
    /\ UNCHANGED <<taken, conn, changes, serving, read>>

Receive(c) ==
    /\ conn[c].peer = "open" /\ read[c] < conn[c].sent
    /\ read' = [read EXCEPT ![c] = conn[c].sent]
    /\ UNCHANGED <<asked, taken, conn, changes, serving>>

(* Between two messages or in a header: both end ipc_ct_read (module IpcCt).   *)
Leave(c) ==
    /\ conn[c].peer = "open"
    /\ conn' = [conn EXCEPT ![c].peer = "left"]
    /\ UNCHANGED <<asked, taken, changes, serving, read>>

(* In the body of a message. *)
LeaveWithin(c) ==
    /\ conn[c].peer = "open"
    /\ conn' = [conn EXCEPT ![c].peer = "torn"]
    /\ UNCHANGED <<asked, taken, changes, serving, read>>

(* A change that no client asked for: something was copied. *)
Copied ==
    /\ Idle /\ Cardinality({i \in DOMAIN changes : changes[i].client = NoClient}) < MaxCopies
    /\ Becomes(Change(State, NoClient, 0))
    /\ UNCHANGED <<asked, taken, serving, read>>

Gone(c) == conn[c].peer \in {"left", "torn"}

Room(c) == conn[c].sent - read[c] < Capacity
Unread(c) == taken[c] < Len(asked[c])
Readable(c) == Unread(c) \/ conn[c].peer = "torn"
Writable(c) == conn[c].pollout /\ (Room(c) \/ Gone(c))

Serve_NoHup(c) ==
    /\ Idle /\ conn[c].peer # "freed"
    /\ Readable(c) \/ Writable(c)
    /\ serving' = [client |-> c, in |-> Readable(c), write |-> Writable(c),
                   hup |-> Gone(c), batch |-> FALSE]
    /\ UNCHANGED <<asked, taken, conn, changes, read>>

(* client_callback: called for input, room to write, or a hang-up. *)
Serve(c) ==
    /\ Idle /\ conn[c].peer # "freed"
    /\ Readable(c) \/ Writable(c) \/ Gone(c)
    /\ serving' = [client |-> c, in |-> Readable(c), write |-> Writable(c),
                   hup |-> Gone(c), batch |-> FALSE]
    /\ UNCHANGED <<asked, taken, conn, changes, read>>

(* ipc_ct_read: one message after the other until there is none.  The last     *)
(* request to hold starts the execution of those held.  A body that is never   *)
(* completed stays to be read: ipc_ct_read does not return.                  *)
ReadMessage(c) ==
    /\ serving.client = c /\ ~serving.batch /\ serving.in /\ Unread(c)
    /\ taken' = [taken EXCEPT ![c] = @ + 1]
    /\ Becomes(Message(State, c, taken[c] + 1))
    /\ serving' = [serving EXCEPT !.batch = conn[c].hold = 1]
    /\ UNCHANGED <<asked, read>>

TakeHeld_Kept(d, c) == [d EXCEPT !.conn[c].held = IF Len(@) > 1 THEN Tail(@) ELSE @]

(* The next of hold_arr. *)
TakeHeld(d, c) == [d EXCEPT !.conn[c].held = Tail(@)]

ExecuteHeld_NoFlush(c) ==
    /\ serving.client = c /\ serving.batch
    /\ Becomes(Execute(TakeHeld(State, c), c, Head(conn[c].held)))
    /\ serving' = [serving EXCEPT !.batch = Len(conn[c].held) > 1]
    /\ UNCHANGED <<asked, taken, read>>

(* message_callback once the last request to hold came: the held requests one  *)
(* by one, and what they emitted after the last.                             *)
ExecuteHeld(c) ==
    LET d    == Execute(TakeHeld(State, c), c, Head(conn[c].held))
        more == Len(conn[c].held) > 1
    IN /\ serving.client = c /\ serving.batch
       /\ Becomes(IF more THEN d ELSE FlushEvents(d, c))
       /\ serving' = [serving EXCEPT !.batch = more]
       /\ UNCHANGED <<asked, taken, read>>

(* ipc_ct_write: until the queue is empty or the socket full; it fails when    *)
(* the peer is gone.                                                         *)
Written(c) == IF serving.write THEN Min({Len(conn[c].out), read[c] + Capacity}) ELSE conn[c].sent
Broken(c) == Gone(c) /\ serving.write /\ conn[c].sent < Len(conn[c].out)

(* The rest of client_callback: write, and stop polling for room once there   *)
(* is nothing to write.                                                      *)
ServeEnds(c) ==
    /\ serving.client = c /\ ~serving.batch /\ (serving.in => ~Readable(c))
    /\ ~serving.hup /\ ~Broken(c)
    /\ conn' = [conn EXCEPT ![c].sent = Written(c),
                            ![c].pollout = @ /\ Written(c) < Len(conn[c].out)]
    /\ serving' = Nobody
    /\ UNCHANGED <<asked, taken, changes, read>>

(* EPOLLHUP or an error: ipc_client_free. *)
ServeHangup(c) ==
    /\ serving.client = c /\ ~serving.batch /\ (serving.in => ~Readable(c))
    /\ serving.hup \/ Broken(c)
    /\ conn' = [conn EXCEPT ![c].peer = "freed", ![c].held = <<>>, ![c].pending = <<>>]
    /\ serving' = Nobody
    /\ UNCHANGED <<asked, taken, changes, read>>

Daemon(c) == Serve(c) \/ ReadMessage(c) \/ ExecuteHeld(c) \/ ServeEnds(c) \/ ServeHangup(c)

Next == Copied \/ \E c \in Clients : Send(c) \/ Receive(c) \/ Leave(c) \/ LeaveWithin(c) \/ Daemon(c)

(* The loop serves what is ready (EventLoop!ReadyIsServed) and a client that   *)
(* stays reads what it is sent.                                              *)
Fairness == \A c \in Clients : SF_vars(Serve(c)) /\ WF_vars(ReadMessage(c)) /\ WF_vars(ExecuteHeld(c))
                               /\ WF_vars(ServeEnds(c)) /\ WF_vars(ServeHangup(c))
                               /\ WF_vars(Receive(c))

Spec == Init /\ [][Next]_vars
FairSpec == Spec /\ Fairness

-----------------------------------------------------------------------------
(* Properties                                                                *)

(* Where the responses and the events are in what was queued for c. *)
Responses(c) == {i \in DOMAIN conn[c].out : conn[c].out[i].kind = "response"}
Events(c)    == {i \in DOMAIN conn[c].out : conn[c].out[i].kind = "event"}
Answered(c)  == {conn[c].out[i].request : i \in Responses(c)}
Announced(c) == {conn[c].out[i].change : i \in Events(c)}

(* Every request is answered once, in the order of the requests, whether it    *)
(* was held or not, but for those still held.  (message_callback)             *)
AnsweredInOrder ==
    \A c \in Clients :
        /\ \A i, j \in Responses(c) : i < j => conn[c].out[i].request < conn[c].out[j].request
        /\ \E n \in 0 .. taken[c] :
               /\ Answered(c) = 1 .. n
               /\ conn[c].peer # "freed" => n = taken[c] - Len(conn[c].held)

(* What a request changed is announced to its own client after its response.  *)
(* (handling_req, pending_events: "Events are always emitted after a IPC       *)
(* request")                                                                 *)
OwnEventsFollow ==
    \A c \in Clients : \A i \in Events(c) :
        LET change == changes[conn[c].out[i].change]
        IN change.client = c =>
               \E j \in Responses(c) : j < i /\ conn[c].out[j].request = change.request

(* Outside client_callback a subscriber has been sent every change since it    *)
(* last subscribed, once and in the order they were made, its own among them,   *)
(* whatever it has been sent before.  (ipc_emit_event, ipc_client_flush_events) *)
NoEventIsLost ==
    \A c \in Clients : conn[c].subscribed /\ conn[c].peer # "freed" /\ Idle =>
        /\ \A i, j \in Events(c) : i < j => conn[c].out[i].change < conn[c].out[j].change
        /\ conn[c].since + 1 .. Len(changes) \subseteq Announced(c)

(* The n requests after an accepted "hold n" see one and the same state: what   *)
(* others change falls before all of them or after.  Not so after a hold that   *)
(* was held itself: the requests it holds back join those held with it.  (hold, *)
(* hold_arr: "Number of requests to hold before executing all of them at once") *)
Window(c, k) ==
    IF asked[c][k].type = "hold" /\ asked[c][k].n \in 1 .. Modulus - 1
    THEN k + 1 .. k + asked[c][k].n ELSE {}
HeldSeeOneState ==
    \A c \in Clients : \A h, i, j \in Responses(c) :
        LET out == conn[c].out
        IN ~out[h].held /\ {out[i].request, out[j].request} \subseteq Window(c, out[h].request) =>
               out[i].seen = out[j].seen

(* The daemon reads a message that will never be whole, and does nothing else  *)
(* any more.  (ipc_ct_read; module IpcCt says so of the stream)               *)
Hung == \E c \in Clients : serving.client = c /\ serving.in /\ conn[c].peer = "torn"

(* A message queued reaches a client that stays, if only none leaves within a  *)
(* message.                                                                  *)
QueuedArrives ==
    \A c \in Clients : read[c] < Len(conn[c].out) ~>
        read[c] = Len(conn[c].out) \/ conn[c].peer # "open" \/ Hung

(* A client that is gone is freed, and nothing but a client that left within a  *)
(* message keeps the daemon from it.  (client_callback, ipc_client_free)       *)
GoneIsFreed == \A c \in Clients : Gone(c) ~> conn[c].peer = "freed" \/ Hung

(* What is still to be held is what the answered requests asked for, less what  *)
(* has been held.  The code breaks this for a negative number, which it        *)
(* accepts.  (main.c: "number of requests to hold exceeds UINT32_MAX")         *)
HoldIsAsAsked ==
    \A c \in Clients : Idle /\ conn[c].hold > 0 =>
        \E k \in Answered(c) : asked[c][k].type = "hold" /\ asked[c][k].n >= conn[c].hold

=============================================================================
