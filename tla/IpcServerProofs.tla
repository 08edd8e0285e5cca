-------------------------- MODULE IpcServerProofs --------------------------
(***************************************************************************)
(* Theorems about daemon/ipc.c: IpcServer with SwctlEvents, then Startup.  *)
(*                                                                         *)
(* About the server everything is said of one client at a time: its        *)
(* struct ipc_client k, the history by of the changes, the requests as it   *)
(* sent, the number t of those that were read, and whether its held         *)
(* requests are being executed.                                            *)
(***************************************************************************)
EXTENDS SwctlEvents, Startup, SequenceTheorems, FiniteSetTheorems, TLAPS

Response == [kind : {"response"}, request : Nat \ {0}, seen : Nat, held : BOOLEAN]
Event    == [kind : {"event"}, change : Nat \ {0}]
Queued   == Response \cup Event

Conn == [peer : {"open", "left", "torn", "freed"}, subscribed : BOOLEAN, since : Nat, hold : Nat,
         held : Seq(Nat), pending : Seq(Event), out : Seq(Queued), sent : Nat, pollout : BOOLEAN]

By == [client : Clients \cup {NoClient}, request : Nat]

Data == [conn : [Clients -> Conn], changes : Seq(By)]

Res(out) == {i \in DOMAIN out : out[i].kind = "response"}
Evs(out) == {i \in DOMAIN out : out[i].kind = "event"}

-----------------------------------------------------------------------------
(* Sequences of messages.                                                    *)

(* One more element. *)
LEMMA Appended ==
    ASSUME NEW S, NEW s \in Seq(S), NEW x \in S, NEW t, t = Append(s, x)
    PROVE  /\ t \in Seq(S) /\ Len(s) \in Nat /\ Len(t) = Len(s) + 1
           /\ DOMAIN s = 1 .. Len(s) /\ DOMAIN t = DOMAIN s \cup {Len(s) + 1} /\ Len(s) + 1 \notin DOMAIN s
           /\ t[Len(s) + 1] = x /\ \A i \in DOMAIN s : t[i] = s[i] /\ i < Len(s) + 1
<1>1. /\ t \in Seq(S) /\ Len(t) = Len(s) + 1 /\ t[Len(s) + 1] = x
      /\ \A i \in 1 .. Len(s) : t[i] = s[i]
  BY AppendProperties
<1>2. Len(s) \in Nat /\ DOMAIN s = 1 .. Len(s) /\ DOMAIN t = 1 .. Len(t)
  BY <1>1, LenProperties
<1>3. 1 .. Len(s) + 1 = (1 .. Len(s)) \cup {Len(s) + 1} /\ Len(s) + 1 \notin 1 .. Len(s)
  BY <1>2
<1> QED
  BY <1>1, <1>2, <1>3

(* A message is a response or an event. *)
LEMMA Kinds ==
    ASSUME NEW out \in Seq(Queued)
    PROVE  /\ \A i \in Res(out) : out[i] \in Response /\ i \in DOMAIN out /\ i \in Nat
           /\ \A i \in Evs(out) : out[i] \in Event /\ i \in DOMAIN out /\ i \in Nat
           /\ Res(out) \cap Evs(out) = {} /\ Res(out) \cup Evs(out) = DOMAIN out
<1>1. DOMAIN out = 1 .. Len(out) /\ Len(out) \in Nat
  BY LenProperties
<1>2. \A i \in DOMAIN out : out[i] \in Queued
  BY <1>1, ElementOfSeq
<1>3. /\ \A m \in Response : m.kind = "response"
      /\ \A m \in Event : m.kind = "event"
  BY DEF Response, Event
<1> QED
  BY <1>1, <1>2, <1>3 DEF Res, Evs, Queued

(* What a response adds. *)
Answers(out, t, m, z) ==
    /\ Res(t) = Res(out) \cup {z} /\ Evs(t) = Evs(out) /\ z \in Nat /\ z \notin DOMAIN out
    /\ t[z] = m /\ \A i \in DOMAIN out : t[i] = out[i] /\ i < z

LEMMA ResponseAppended ==
    ASSUME NEW out \in Seq(Queued), NEW m \in Response, NEW t, t = Append(out, m)
    PROVE  Answers(out, t, m, Len(out) + 1)
<1>1. m \in Queued /\ m.kind = "response"
  BY DEF Queued, Response
<1>2. /\ Len(out) \in Nat /\ DOMAIN t = DOMAIN out \cup {Len(out) + 1} /\ Len(out) + 1 \notin DOMAIN out
      /\ t[Len(out) + 1] = m /\ \A i \in DOMAIN out : t[i] = out[i] /\ i < Len(out) + 1
  BY <1>1, Appended
<1> QED
  BY <1>1, <1>2 DEF Answers, Res, Evs

(* What events add: nothing to the responses. *)
Announces(out, t) ==
    /\ Res(t) = Res(out) /\ Evs(out) \subseteq Evs(t) /\ \A i \in DOMAIN out : t[i] = out[i]
    /\ \A i \in Evs(t) \ Evs(out) : \A j \in DOMAIN out : j < i

(* One event. *)
LEMMA EventAppended ==
    ASSUME NEW out \in Seq(Queued), NEW m \in Event, NEW t, t = Append(out, m)
    PROVE  /\ t \in Seq(Queued) /\ Announces(out, t) /\ Evs(t) = Evs(out) \cup {Len(out) + 1}
           /\ Len(out) \in Nat /\ Len(out) + 1 \notin DOMAIN out /\ t[Len(out) + 1] = m
<1>1. m \in Queued /\ m.kind = "event"
  BY DEF Queued, Event
<1>2. /\ t \in Seq(Queued) /\ Len(out) \in Nat
      /\ DOMAIN t = DOMAIN out \cup {Len(out) + 1} /\ Len(out) + 1 \notin DOMAIN out
      /\ t[Len(out) + 1] = m /\ \A i \in DOMAIN out : t[i] = out[i] /\ i < Len(out) + 1
  BY <1>1, Appended
<1>3. Res(t) = Res(out) /\ Evs(t) = Evs(out) \cup {Len(out) + 1}
  BY <1>1, <1>2 DEF Res, Evs
<1> QED
  BY <1>2, <1>3 DEF Announces

(* Those of a client's pending_events. *)
Joins(out, evs, t, z) ==
    /\ Announces(out, t) /\ z \in Nat /\ DOMAIN evs \subseteq Nat
    /\ Evs(t) = Evs(out) \cup {z + j : j \in DOMAIN evs}
    /\ \A j \in DOMAIN evs : t[z + j] = evs[j] /\ z + j \notin DOMAIN out

LEMMA EventsJoined ==
    ASSUME NEW out \in Seq(Queued), NEW evs \in Seq(Event), NEW t, t = out \o evs
    PROVE  Joins(out, evs, t, Len(out))
<1> DEFINE l == Len(out)
           n == Len(evs)
<1>1. evs \in Seq(Queued)
  BY SeqMonotonic DEF Queued
<1>2. /\ t \in Seq(Queued) /\ Len(t) = l + n
      /\ \A i \in 1 .. l + n : t[i] = IF i <= l THEN out[i] ELSE evs[i - l]
  BY <1>1, ConcatProperties
<1>3. /\ DOMAIN out = 1 .. l /\ DOMAIN evs = 1 .. n /\ DOMAIN t = 1 .. l + n
      /\ l \in Nat /\ n \in Nat
  BY <1>1, <1>2, LenProperties
<1>4. \A j \in DOMAIN evs : evs[j].kind = "event"
  <2>1. \A j \in DOMAIN evs : evs[j] \in Event
    BY <1>3, ElementOfSeq
  <2> QED
    BY <2>1 DEF Event
<1> HIDE DEF l, n
<1>5. /\ \A i \in DOMAIN out : i \in DOMAIN t /\ t[i] = out[i]
      /\ \A j \in DOMAIN evs : l + j \in DOMAIN t /\ t[l + j] = evs[j] /\ l + j \notin DOMAIN out
      /\ \A i \in DOMAIN t \ DOMAIN out : i - l \in DOMAIN evs /\ i = l + (i - l) /\ \A j \in DOMAIN out : j < i
  BY <1>2, <1>3
<1>6. \A i \in DOMAIN t \ DOMAIN out : t[i].kind = "event"
  BY <1>4, <1>5
<1>7. Res(t) = Res(out)
  BY <1>5, <1>6 DEF Res
<1>8. Evs(t) = Evs(out) \cup {l + j : j \in DOMAIN evs}
  BY <1>4, <1>5, <1>6 DEF Evs
<1>9. Announces(out, t)
  BY <1>5, <1>7, <1>8 DEF Announces, Evs
<1> QED
  BY <1>2, <1>3, <1>5, <1>8, <1>9 DEF l, n, Joins

(* c's own change is not foreign to c. *)
LEMMA ForeignKept ==
    ASSUME NEW by \in Seq(By), NEW x \in By
    PROVE  Foreign(Append(by, x), x.client) = Foreign(by, x.client)
<1> DEFINE t == Append(by, x)
<1>1. /\ DOMAIN t = DOMAIN by \cup {Len(by) + 1} /\ t[Len(by) + 1] = x
      /\ \A i \in DOMAIN by : t[i] = by[i]
  BY Appended
<1> HIDE DEF t
<1>2. {i \in DOMAIN t : t[i].client # x.client} = {i \in DOMAIN by : by[i].client # x.client}
  BY <1>1
<1> QED
  BY <1>2 DEF Foreign, t

(* The count of the foreign changes is a number. *)
LEMMA ForeignType ==
    ASSUME NEW by \in Seq(By), NEW c
    PROVE  Foreign(by, c) \in Nat
<1>1. IsFiniteSet(DOMAIN by)
  BY LenProperties, FS_Interval
<1>2. IsFiniteSet({i \in DOMAIN by : by[i].client # c})
  BY <1>1, FS_Subset
<1> QED
  BY <1>2, FS_CardinalityType DEF Foreign

-----------------------------------------------------------------------------
(* What the functions of ipc.c do to the data.                               *)

(* Of the data of d only the record of c is replaced, by k.  Nothing depends on *)
(* pollout here.                                                             *)
Only(d, x, c, k) ==
    /\ x \in Data /\ x.changes = d.changes
    /\ \A e \in Clients \ {c} : x.conn[e] = d.conn[e]
    /\ x.conn[c] = [k EXCEPT !.pollout = x.conn[c].pollout]

LEMMA OnlyConn ==
    ASSUME NEW d \in Data, NEW c \in Clients, NEW k \in Conn, NEW x, x = [d EXCEPT !.conn[c] = k]
    PROVE  Only(d, x, c, k)
BY DEF Data, Only, Conn

(* ipc_ct_write_msg *)
LEMMA QueueEffect ==
    ASSUME NEW d \in Data, NEW c \in Clients, NEW msgs \in Seq(Queued), NEW x, x = Queue(d, c, msgs)
    PROVE  Only(d, x, c, [d.conn[c] EXCEPT !.out = d.conn[c].out \o msgs])
<1> DEFINE k == d.conn[c]
           b == k.pollout \/ msgs # <<>>
           l == [k EXCEPT !.out = k.out \o msgs, !.pollout = b]
<1>1. k \in Conn
  BY DEF Data
<1>2. k.out \o msgs \in Seq(Queued)
  BY <1>1, ConcatProperties DEF Conn
<1>3. b \in BOOLEAN
  OBVIOUS
<1>4. x = [d EXCEPT !.conn[c] = l]
  BY DEF Queue, Data
<1> HIDE DEF b
<1>5. l \in Conn
  BY <1>1, <1>2, <1>3 DEF Conn
<1> HIDE DEF l
<1>6. /\ x \in Data /\ x.changes = d.changes /\ x.conn[c] = l
      /\ \A e \in Clients \ {c} : x.conn[e] = d.conn[e]
  BY <1>4, <1>5 DEF Data
<1>7. l = [[k EXCEPT !.out = k.out \o msgs] EXCEPT !.pollout = l.pollout]
  BY <1>1 DEF l, Conn
<1> QED
  BY <1>6, <1>7 DEF Only

(* A response. *)
LEMMA RespondEffect ==
    ASSUME NEW d \in Data, NEW c \in Clients, NEW k \in Nat \ {0}, serving.batch \in BOOLEAN,
           NEW x, x = Respond(d, c, k)
    PROVE  Only(d, x, c, [d.conn[c] EXCEPT !.out = Append(@,
                  [kind |-> "response", request |-> k, seen |-> Foreign(d.changes, c),
                   held |-> serving.batch])])
<1> DEFINE m == [kind |-> "response", request |-> k, seen |-> Foreign(d.changes, c), held |-> serving.batch]
<1>1. m \in Queued
  BY ForeignType DEF Data, Response, Queued
<1>2. d.conn[c].out \in Seq(Queued)
  BY DEF Data, Conn
<1>3. x = Queue(d, c, <<m>>)
  BY DEF Respond
<1> HIDE DEF m
<1>4. Append(d.conn[c].out, m) = d.conn[c].out \o <<m>>
  BY <1>1, <1>2, AppendIsConcat
<1>5. <<m>> \in Seq(Queued)
  BY <1>1
<1>6. Only(d, x, c, [d.conn[c] EXCEPT !.out = d.conn[c].out \o <<m>>])
  BY <1>3, <1>5, QueueEffect
<1> QED
  BY <1>4, <1>6 DEF m

(* ipc_client_flush_events *)
LEMMA FlushEffect ==
    ASSUME NEW d \in Data, NEW c \in Clients, NEW x, x = FlushEvents(d, c)
    PROVE  Only(d, x, c, [d.conn[c] EXCEPT !.out = @ \o d.conn[c].pending, !.pending = <<>>])
<1> DEFINE q == Queue(d, c, d.conn[c].pending)
           k == [d.conn[c] EXCEPT !.out = @ \o d.conn[c].pending]
           l == [q.conn[c] EXCEPT !.pending = <<>>]
<1>1. d.conn[c] \in Conn /\ d.conn[c].pending \in Seq(Queued)
  BY SeqMonotonic DEF Data, Conn, Queued
<1>2. Only(d, q, c, k)
  BY <1>1, QueueEffect
<1>3. x = [q EXCEPT !.conn[c] = l]
  BY <1>2 DEF FlushEvents, Data, Only
<1> HIDE DEF q
<1>4. q \in Data /\ q.conn[c] \in Conn
  BY <1>2 DEF Data, Only
<1>5. l \in Conn
  BY <1>4, EmptySeq DEF Conn
<1>6. /\ x \in Data /\ x.changes = q.changes /\ x.conn[c] = l
      /\ \A e \in Clients \ {c} : x.conn[e] = q.conn[e]
  BY <1>3, <1>4, <1>5, ZenonT(60) DEF Data
<1>7. x.conn[c] = [[d.conn[c] EXCEPT !.out = @ \o d.conn[c].pending, !.pending = <<>>]
                       EXCEPT !.pollout = x.conn[c].pollout]
  BY <1>1, <1>2, <1>4, <1>6, ZenonT(60) DEF Conn, Only
<1> QED
  BY <1>2, <1>6, <1>7 DEF Only

(* message_callback, hold *)
LEMMA HoldEffect ==
    ASSUME NEW d \in Data, NEW c \in Clients, NEW k \in Nat, d.conn[c].hold # 0, NEW x, x = Hold(d, c, k)
    PROVE  Only(d, x, c, [d.conn[c] EXCEPT !.held = Append(@, k), !.hold = @ - 1])
<1> DEFINE o == d.conn[c]
           l == [o EXCEPT !.held = Append(@, k), !.hold = @ - 1]
<1>1. o \in Conn
  BY DEF Data
<1>2. Append(o.held, k) \in Seq(Nat) /\ o.hold - 1 \in Nat
  BY <1>1, AppendProperties DEF Conn
<1>3. l \in Conn
  BY <1>1, <1>2 DEF Conn
<1>4. x = [d EXCEPT !.conn[c] = l]
  BY DEF Hold, Data
<1> QED
  BY <1>3, <1>4, OnlyConn

(* The next of hold_arr. *)
LEMMA TakeHeldEffect ==
    ASSUME NEW d \in Data, NEW c \in Clients, d.conn[c].held # <<>>, NEW x, x = TakeHeld(d, c)
    PROVE  Only(d, x, c, [d.conn[c] EXCEPT !.held = Tail(@)])
<1> DEFINE o == d.conn[c]
           l == [o EXCEPT !.held = Tail(@)]
<1>1. o \in Conn
  BY DEF Data
<1>2. Tail(o.held) \in Seq(Nat)
  BY <1>1, HeadTailProperties DEF Conn
<1>3. l \in Conn
  BY <1>1, <1>2 DEF Conn
<1>4. x = [d EXCEPT !.conn[c] = l]
  BY DEF TakeHeld, Data
<1> QED
  BY <1>3, <1>4, OnlyConn

(* A number of requests to hold that is not refused. *)
Wide(as, r) == IF as[r].type = "hold" /\ as[r].n \in 1 .. Modulus - 1 THEN as[r].n ELSE 0

(* What remains of a number in uint32_t. *)
LEMMA HoldFits ==
    /\ Modulus \in Nat /\ Modulus > 1
    /\ \A n \in Int : n % Modulus \in 0 .. Modulus - 1
    /\ \A n \in 0 .. Modulus - 1 : n % Modulus = n
<1>1. Modulus \in Nat /\ Modulus > 1
  BY IpcAssumption
<1>2. \A n \in Int : n % Modulus \in 0 .. Modulus - 1
  BY <1>1
<1>3. \A n \in 0 .. Modulus - 1 : n % Modulus = n
  BY <1>1
<1> QED
  BY <1>1, <1>2, <1>3

(* ipc_client_set_events *)
LEMMA SubscribeEffect ==
    ASSUME NEW d \in Data, NEW c \in Clients, NEW on \in BOOLEAN, NEW x, x = Subscribe(d, c, on)
    PROVE  Only(d, x, c, [d.conn[c] EXCEPT !.subscribed = on,
                                           !.since = IF d.conn[c].subscribed THEN @ ELSE Len(d.changes)])
<1> DEFINE o == d.conn[c]
           l == [o EXCEPT !.subscribed = on, !.since = IF o.subscribed THEN @ ELSE Len(d.changes)]
<1>1. o \in Conn /\ Len(d.changes) \in Nat
  BY LenProperties DEF Data
<1>2. l \in Conn
  BY <1>1 DEF Conn
<1>3. x = [d EXCEPT !.conn[c] = l]
  BY DEF Subscribe, Data
<1> QED
  BY <1>2, <1>3, OnlyConn

(* ipc_client_add_hold *)
LEMMA AddHoldEffect ==
    ASSUME NEW d \in Data, NEW c \in Clients, NEW n \in Int, NEW x, x = AddHold(d, c, n)
    PROVE  Only(d, x, c, [d.conn[c] EXCEPT !.hold = (@ + n) % Modulus])
<1> DEFINE o == d.conn[c]
           l == [o EXCEPT !.hold = (@ + n) % Modulus]
<1>1. o \in Conn
  BY DEF Data
<1>2. (o.hold + n) % Modulus \in Nat
  <2>1. o.hold + n \in Int
    BY <1>1 DEF Conn
  <2>2. (o.hold + n) % Modulus \in 0 .. Modulus - 1
    BY <2>1, HoldFits
  <2> QED
    BY <2>2, HoldFits
<1>3. l \in Conn
  BY <1>1, <1>2 DEF Conn
<1>4. x = [d EXCEPT !.conn[c] = l]
  BY DEF AddHold, Data
<1> QED
  BY <1>3, <1>4, OnlyConn

(* What a change is to a client: the n-th change is announced to it, at once ... *)
Told(k, l, n) ==
    IF ~k.subscribed \/ k.peer = "freed" THEN l = k
    ELSE l = [k EXCEPT !.out = Append(@, [kind |-> "event", change |-> n]), !.pollout = l.pollout]

(* ... or after the request that is being handled. *)
Pushed(k, n) ==
    IF ~k.subscribed \/ k.peer = "freed" THEN k.pending
    ELSE Append(k.pending, [kind |-> "event", change |-> n])

(* ipc_emit_event *)
Changed(d, x, c, k) ==
    /\ x \in Data
    /\ x.changes = Append(d.changes, [client |-> c, request |-> k])
    /\ \A e \in Clients \ {c} : Told(d.conn[e], x.conn[e], Len(d.changes) + 1)
    /\ c \in Clients =>
           x.conn[c] = [d.conn[c] EXCEPT !.pending = Pushed(d.conn[c], Len(d.changes) + 1),
                                         !.pollout = x.conn[c].pollout]

LEMMA ChangeEffect ==
    ASSUME NEW d \in Data, NEW c \in Clients \cup {NoClient}, NEW k \in Nat, NEW x, x = Change(d, c, k)
    PROVE  Changed(d, x, c, k)
<1> DEFINE b == [client |-> c, request |-> k]
           by == Append(d.changes, b)
           ev == [kind |-> "event", change |-> Len(d.changes) + 1]
           L(e) == IF ~d.conn[e].subscribed \/ d.conn[e].peer = "freed" THEN d.conn[e] ELSE
                   IF e = c THEN [d.conn[e] EXCEPT !.pending = Append(@, ev), !.pollout = TRUE]
                            ELSE [d.conn[e] EXCEPT !.out = Append(@, ev), !.pollout = TRUE]
<1>1. b \in By /\ d.changes \in Seq(By)
  BY DEF By, Data
<1>2. by \in Seq(By) /\ Len(by) = Len(d.changes) + 1 /\ Len(d.changes) \in Nat
  BY <1>1, Appended
<1>3. ev \in Event /\ ev \in Queued
  BY <1>2 DEF Event, Queued
<1>4. x = [changes |-> by, conn |-> [e \in Clients |-> L(e)]]
  BY <1>2 DEF Change
<1>5. \A e \in Clients : d.conn[e] \in Conn
  BY DEF Data
<1>6. ASSUME NEW e \in Clients PROVE L(e) \in Conn
  <2> DEFINE o == d.conn[e]
  <2>1. o \in Conn /\ Append(o.pending, ev) \in Seq(Event) /\ Append(o.out, ev) \in Seq(Queued)
    BY <1>3, <1>5, Appended DEF Conn
  <2> HIDE DEF ev
  <2>2. [o EXCEPT !.pending = Append(@, ev), !.pollout = TRUE] \in Conn
    BY <2>1 DEF Conn
  <2>3. [o EXCEPT !.out = Append(@, ev), !.pollout = TRUE] \in Conn
    BY <2>1 DEF Conn
  <2> QED
    BY <2>1, <2>2, <2>3
<1> HIDE DEF by
<1>7. ASSUME NEW e \in Clients, e # c PROVE Told(d.conn[e], L(e), Len(d.changes) + 1)
  BY <1>5, <1>7 DEF Told, Conn
<1>8. ASSUME c \in Clients
      PROVE  L(c) = [d.conn[c] EXCEPT !.pending = Pushed(d.conn[c], Len(d.changes) + 1),
                                      !.pollout = L(c).pollout]
  BY <1>5, <1>8 DEF Pushed, Conn
<1> HIDE DEF L
<1>9. x \in Data /\ x.changes = by /\ \A e \in Clients : x.conn[e] = L(e)
  BY <1>2, <1>4, <1>6 DEF Data
<1> QED
  BY <1>7, <1>8, <1>9 DEF by, Changed

(* What the execution of request r of c makes of the record k of c, and of the  *)
(* changes by.                                                               *)
Answer(c, k, l, by, by2, as, r, batch) ==
    /\ l.out = Append(k.out, [kind |-> "response", request |-> r, seen |-> Foreign(by, c), held |-> batch])
    /\ l.peer = k.peer /\ l.held = k.held /\ l.sent = k.sent
    /\ IF as[r].type = "change"
       THEN /\ by2 = Append(by, [client |-> c, request |-> r])
            /\ l.pending = Pushed(k, Len(by) + 1)
       ELSE by2 = by /\ l.pending = k.pending
    /\ IF as[r].type \in {"subscribe", "unsubscribe"}
       THEN /\ l.subscribed = (as[r].type = "subscribe")
            /\ l.since = IF k.subscribed THEN k.since ELSE Len(by)
       ELSE l.subscribed = k.subscribed /\ l.since = k.since
    /\ k.hold = 0 /\ Wide(as, r) > 0 => l.hold = Wide(as, r)

(* What becomes of another client's record. *)
Overhears(c, k, l, by, by2) ==
    \/ by2 = by /\ l = k
    \/ \E r \in Nat : by2 = Append(by, [client |-> c, request |-> r]) /\ Told(k, l, Len(by) + 1)

(* The kinds of requests. *)
LEMMA RequestKinds ==
    ASSUME NEW as \in Seq(Request), NEW r \in DOMAIN as
    PROVE  /\ as[r].type \in {"get", "change", "subscribe", "unsubscribe", "hold"}
           /\ as[r].type = "hold" => as[r].n \in Int
           /\ r \in Nat \ {0} /\ Wide(as, r) \in Nat
<1>1. as[r] \in Request /\ r \in Nat \ {0}
  <2>1. DOMAIN as = 1 .. Len(as) /\ Len(as) \in Nat
    BY LenProperties
  <2>2. r \in Nat \ {0}
    BY <2>1
  <2>3. as[r] \in Request
    BY <2>1, ElementOfSeq
  <2> QED
    BY <2>2, <2>3
<1>2. /\ as[r].type \in {"get", "change", "subscribe", "unsubscribe", "hold"}
      /\ as[r].type = "hold" => as[r].n \in Int
  BY <1>1 DEF Request
<1>3. Wide(as, r) \in Nat
  <2>1. Modulus \in Nat
    BY HoldFits
  <2>2. CASE as[r].type = "hold" /\ as[r].n \in 1 .. Modulus - 1
    <3>1. \A n \in 1 .. Modulus - 1 : n \in Nat
      BY <2>1
    <3> QED
      BY <2>2, <3>1 DEF Wide
  <2>3. CASE ~ (as[r].type = "hold" /\ as[r].n \in 1 .. Modulus - 1)
    BY <2>3 DEF Wide
  <2> QED
    BY <2>2, <2>3
<1> QED
  BY <1>1, <1>2, <1>3

(* What a response changes of the record of c. *)
Responded(d, x, c, r) ==
    /\ x \in Data /\ x.changes = d.changes
    /\ \A e \in Clients \ {c} : x.conn[e] = d.conn[e]
    /\ x.conn[c].out = Append(d.conn[c].out,
           [kind |-> "response", request |-> r, seen |-> Foreign(d.changes, c), held |-> serving.batch])
    /\ x.conn[c].peer = d.conn[c].peer /\ x.conn[c].held = d.conn[c].held
    /\ x.conn[c].sent = d.conn[c].sent /\ x.conn[c].pending = d.conn[c].pending
    /\ x.conn[c].subscribed = d.conn[c].subscribed /\ x.conn[c].since = d.conn[c].since
    /\ x.conn[c].hold = d.conn[c].hold

LEMMA Responds ==
    ASSUME NEW d \in Data, NEW c \in Clients, NEW r \in Nat \ {0}, serving.batch \in BOOLEAN,
           NEW x, x = Respond(d, c, r)
    PROVE  Responded(d, x, c, r)
<1> DEFINE m == [kind |-> "response", request |-> r, seen |-> Foreign(d.changes, c), held |-> serving.batch]
<1>1. Only(d, x, c, [d.conn[c] EXCEPT !.out = Append(@, m)])
  BY RespondEffect
<1>2. d.conn[c] \in Conn
  BY DEF Data
<1> HIDE DEF m
<1>3. /\ x \in Data /\ x.changes = d.changes
      /\ \A e \in Clients \ {c} : x.conn[e] = d.conn[e]
      /\ x.conn[c].out = Append(d.conn[c].out, m)
      /\ x.conn[c].peer = d.conn[c].peer /\ x.conn[c].held = d.conn[c].held
      /\ x.conn[c].sent = d.conn[c].sent /\ x.conn[c].pending = d.conn[c].pending
      /\ x.conn[c].subscribed = d.conn[c].subscribed /\ x.conn[c].since = d.conn[c].since
      /\ x.conn[c].hold = d.conn[c].hold
  BY <1>1, <1>2 DEF Only, Conn
<1> QED
  BY <1>3 DEF m, Responded

(* request_callback *)
LEMMA ExecuteEffect ==
    ASSUME NEW d \in Data, NEW c \in Clients, asked[c] \in Seq(Request), NEW r \in DOMAIN asked[c],
           serving.batch \in BOOLEAN, NEW x, x = Execute(d, c, r)
    PROVE  /\ x \in Data
           /\ Answer(c, d.conn[c], x.conn[c], d.changes, x.changes, asked[c], r, serving.batch)
           /\ \A e \in Clients \ {c} : Overhears(c, d.conn[e], x.conn[e], d.changes, x.changes)
<1> DEFINE as == asked[c]
           k == d.conn[c]
<1>1. /\ as[r].type \in {"get", "change", "subscribe", "unsubscribe", "hold"}
      /\ as[r].type = "hold" => as[r].n \in Int
      /\ r \in Nat \ {0} /\ Wide(as, r) \in Nat
  BY RequestKinds
<1>2. k \in Conn /\ d.changes \in Seq(By)
  BY DEF Data
<1>3. CASE as[r].type = "get"
  <2>1. x = Respond(d, c, r)
    BY <1>3 DEF Execute
  <2>2. Wide(as, r) = 0
    BY <1>3 DEF Wide
  <2>3. Responded(d, x, c, r)
    BY <1>1, <2>1, Responds
  <2> QED
    BY <1>3, <2>2, <2>3 DEF Answer, Overhears, Responded
<1>4. CASE as[r].type = "change"
  <2> DEFINE y == Change(d, c, r)
             b == [client |-> c, request |-> r]
  <2>1. x = Respond(y, c, r)
    BY <1>4 DEF Execute
  <2>2. Changed(d, y, c, r)
    BY <1>1, ChangeEffect
  <2>3. Wide(as, r) = 0
    BY <1>4 DEF Wide
  <2>4. Foreign(y.changes, c) = Foreign(d.changes, c)
    <3>1. b \in By /\ b.client = c
      BY <1>1 DEF By
    <3> QED
      BY <1>2, <2>2, <3>1, ForeignKept DEF Changed
  <2> HIDE DEF y
  <2>5. /\ y.conn[c].out = k.out /\ y.conn[c].peer = k.peer /\ y.conn[c].held = k.held
        /\ y.conn[c].sent = k.sent /\ y.conn[c].subscribed = k.subscribed
        /\ y.conn[c].since = k.since /\ y.conn[c].pending = Pushed(k, Len(d.changes) + 1)
        /\ y \in Data
    BY <1>2, <2>2 DEF Conn, Changed
  <2>6. Responded(y, x, c, r)
    BY <1>1, <2>1, <2>5, Responds
  <2> HIDE DEF k, as
  <2>7. Answer(c, k, x.conn[c], d.changes, x.changes, as, r, serving.batch) /\ x \in Data
    BY <1>4, <2>2, <2>3, <2>4, <2>5, <2>6 DEF Answer, Responded, Changed
  <2>8. ASSUME NEW e \in Clients \ {c} PROVE Overhears(c, d.conn[e], x.conn[e], d.changes, x.changes)
    BY <1>1, <2>2, <2>6 DEF Overhears, Responded, Changed
  <2> QED
    BY <2>7, <2>8 DEF k, as
<1>5. CASE as[r].type \in {"subscribe", "unsubscribe"}
  <2> DEFINE on == as[r].type = "subscribe"
             y == Subscribe(d, c, on)
  <2>1. x = Respond(y, c, r)
    BY <1>5 DEF Execute
  <2>2. Only(d, y, c, [k EXCEPT !.subscribed = on, !.since = IF k.subscribed THEN @ ELSE Len(d.changes)])
    BY SubscribeEffect
  <2>3. Wide(as, r) = 0
    BY <1>5 DEF Wide
  <2> HIDE DEF y
  <2>4. /\ y.conn[c].out = k.out /\ y.conn[c].peer = k.peer /\ y.conn[c].held = k.held
        /\ y.conn[c].sent = k.sent /\ y.conn[c].subscribed = on
        /\ y.conn[c].since = (IF k.subscribed THEN k.since ELSE Len(d.changes)) /\ y.conn[c].pending = k.pending
        /\ y \in Data /\ y.changes = d.changes /\ \A e \in Clients \ {c} : y.conn[e] = d.conn[e]
    BY <1>2, <2>2 DEF Conn, Only
  <2>5. Responded(y, x, c, r)
    BY <1>1, <2>1, <2>4, Responds
  <2> HIDE DEF k, as
  <2>6. Answer(c, k, x.conn[c], d.changes, x.changes, as, r, serving.batch)
    <3>1. as[r].type # "change" /\ x.conn[c].subscribed = on
      BY <1>5, <2>4, <2>5 DEF Responded
    <3>2. x.conn[c].since = IF k.subscribed THEN k.since ELSE Len(d.changes)
      BY <2>4, <2>5 DEF Responded
    <3> QED
      BY <1>5, <2>3, <2>4, <2>5, <3>1, <3>2 DEF Answer, Responded
  <2> QED
    BY <2>4, <2>5, <2>6 DEF Overhears, Responded, k, as
<1>6. CASE as[r].type = "hold" /\ as[r].n > Modulus - 1
  <2>1. x = Respond(d, c, r)
    BY <1>6 DEF Execute
  <2>2. Wide(as, r) = 0
    <3>1. Modulus \in Nat /\ as[r].n \in Int
      BY <1>1, <1>6, HoldFits
    <3>2. as[r].n \notin 1 .. Modulus - 1
      BY <1>6, <3>1
    <3> QED
      BY <3>2 DEF Wide
  <2>3. Responded(d, x, c, r)
    BY <1>1, <2>1, Responds
  <2> QED
    BY <1>6, <2>2, <2>3 DEF Answer, Overhears, Responded
<1>7. CASE as[r].type = "hold" /\ ~ (as[r].n > Modulus - 1)
  <2> DEFINE y == AddHold(d, c, as[r].n)
  <2>1. x = Respond(y, c, r)
    BY <1>7 DEF Execute
  <2>2. Only(d, y, c, [k EXCEPT !.hold = (@ + as[r].n) % Modulus])
    BY <1>1, <1>7, AddHoldEffect
  <2> HIDE DEF y
  <2>3. /\ y.conn[c].out = k.out /\ y.conn[c].peer = k.peer /\ y.conn[c].held = k.held
        /\ y.conn[c].sent = k.sent /\ y.conn[c].subscribed = k.subscribed
        /\ y.conn[c].since = k.since /\ y.conn[c].pending = k.pending
        /\ y.conn[c].hold = (k.hold + as[r].n) % Modulus
        /\ y \in Data /\ y.changes = d.changes /\ \A e \in Clients \ {c} : y.conn[e] = d.conn[e]
    BY <1>2, <2>2 DEF Conn, Only
  <2>4. k.hold = 0 /\ Wide(as, r) > 0 => y.conn[c].hold = Wide(as, r)
    <3> SUFFICES ASSUME k.hold = 0, Wide(as, r) > 0 PROVE y.conn[c].hold = Wide(as, r)
      OBVIOUS
    <3>1. as[r].n \in 1 .. Modulus - 1 /\ Wide(as, r) = as[r].n
      BY DEF Wide
    <3>2. k.hold + as[r].n = as[r].n /\ as[r].n \in 0 .. Modulus - 1
      BY <3>1
    <3> QED
      BY <2>3, <3>1, <3>2, HoldFits
  <2>5. Responded(y, x, c, r)
    BY <1>1, <2>1, <2>3, Responds
  <2> HIDE DEF k, as
  <2>6. Answer(c, k, x.conn[c], d.changes, x.changes, as, r, serving.batch)
    BY <1>7, <2>3, <2>4, <2>5 DEF Answer, Responded
  <2> QED
    BY <2>3, <2>5, <2>6 DEF Overhears, Responded, k, as
<1> QED
  BY <1>1, <1>3, <1>4, <1>5, <1>6, <1>7

-----------------------------------------------------------------------------
(* What holds of a client, part by part.                                     *)

(* The responses answer the requests 1 .. n, in order. *)
AnswersTo(out, n) ==
    /\ \A i, j \in Res(out) : i < j => out[i].request < out[j].request
    /\ \A i \in Res(out) : out[i].request \in 1 .. n
    /\ \A r \in 1 .. n : \E i \in Res(out) : out[i].request = r

AnswersOK(k, t) ==
    \E n \in 0 .. t : AnswersTo(k.out, n) /\ (k.peer # "freed" => n = t - Len(k.held))

(* The held requests are the last ones that were read. *)
HeldOK(k, t) == Len(k.held) <= t /\ \A i \in DOMAIN k.held : k.held[i] = t - Len(k.held) + i

(* Outside message_callback nothing is pending, and nothing held but what hold   *)
(* counts down to; a batch has something to execute.                         *)
QuietOK(k, b) ==
    /\ ~b => k.pending = <<>> /\ (k.hold = 0 => k.held = <<>>)
    /\ b => k.held # <<>> /\ k.peer # "freed"

(* Request x is one of those that r, a request to hold, was to hold. *)
InWindow(as, r, x) == r < x /\ x <= r + Wide(as, r)

SeenOK(out, as) ==
    \A h, i, j \in Res(out) :
        /\ ~out[h].held
        /\ InWindow(as, out[h].request, out[i].request)
        /\ InWindow(as, out[h].request, out[j].request)
        => out[i].seen = out[j].seen

(* The window that request r opened is still to be filled, or is being executed. *)
Filling(k, as, t, b, r) == ~b /\ k.hold = r + Wide(as, r) - t /\ t - Len(k.held) = r
Executing(e, k, by, as, b, r) ==
    b /\ \A i \in Res(k.out) : InWindow(as, r, k.out[i].request) => k.out[i].seen = Foreign(by, e)

WindowOK(e, k, by, as, t, b) ==
    k.peer # "freed" => \A h \in Res(k.out) :
        LET r == k.out[h].request
        IN /\ ~k.out[h].held /\ t < r + Wide(as, r) => Filling(k, as, t, b, r)
           /\ ~k.out[h].held /\ t >= r + Wide(as, r) /\ r + Wide(as, r) > t - Len(k.held) =>
                  Executing(e, k, by, as, b, r)

(* The changes that were announced to the client, or are to be. *)
EventsOK(k, by) ==
    /\ \A i, j \in Evs(k.out) : i < j => k.out[i].change < k.out[j].change
    /\ \A i, j \in DOMAIN k.pending : i < j => k.pending[i].change < k.pending[j].change
    /\ \A i \in Evs(k.out) : \A j \in DOMAIN k.pending : k.out[i].change < k.pending[j].change
    /\ \A i \in Evs(k.out) : k.out[i].change \in 1 .. Len(by)
    /\ \A j \in DOMAIN k.pending : k.pending[j].change \in 1 .. Len(by)
    /\ k.since <= Len(by)
    /\ k.subscribed /\ k.peer # "freed" => \A n \in k.since + 1 .. Len(by) :
           \/ \E i \in Evs(k.out) : k.out[i].change = n
           \/ \E j \in DOMAIN k.pending : k.pending[j].change = n

(* What the client changed itself is announced after the response. *)
OwnOK(e, k, by) ==
    /\ \A i \in Evs(k.out) : by[k.out[i].change].client = e =>
           \E j \in Res(k.out) : j < i /\ k.out[j].request = by[k.out[i].change].request
    /\ \A i \in DOMAIN k.pending :
           /\ by[k.pending[i].change].client = e
           /\ \E j \in Res(k.out) : k.out[j].request = by[k.pending[i].change].request

(* There is, or is to be, something to announce. *)
Follows(k) == k.subscribed \/ DOMAIN k.pending # {}

(* Nothing is announced before the response to a subscription. *)
SubscribedOK(k, as) ==
    /\ Follows(k) => \E j \in Res(k.out) : as[k.out[j].request].type = "subscribe"
    /\ \A i \in Evs(k.out) : \E j \in Res(k.out) : j < i /\ as[k.out[j].request].type = "subscribe"

(* Requests that stay what they were: c only adds to what it asked. *)
SameRequests(as, as2, t) == \A r \in 1 .. t : as2[r] = as[r]

-----------------------------------------------------------------------------
(* A step that neither answers c nor reads its requests.                     *)

LEMMA RequestsInRange ==
    ASSUME NEW k \in Conn, NEW t \in Nat, AnswersOK(k, t)
    PROVE  \A i \in Res(k.out) : k.out[i].request \in 1 .. t
BY DEF AnswersOK, AnswersTo

(* Its answers. *)
LEMMA AnswersKept ==
    ASSUME NEW k \in Conn, NEW l \in Conn, NEW t \in Nat, AnswersOK(k, t), HeldOK(k, t),
           Announces(k.out, l.out), l.peer # "freed" => k.peer # "freed" /\ l.held = k.held
    PROVE  AnswersOK(l, t)
<1>1. PICK n \in 0 .. t : AnswersTo(k.out, n) /\ (k.peer # "freed" => n = t - Len(k.held))
  BY DEF AnswersOK
<1>2. AnswersTo(l.out, n)
  BY <1>1 DEF AnswersTo, Announces, Res
<1> QED
  BY <1>1, <1>2 DEF AnswersOK

(* What it saw. *)
LEMMA SeenKept ==
    ASSUME NEW k \in Conn, NEW l \in Conn, NEW t \in Nat, NEW as, NEW as2, AnswersOK(k, t), SeenOK(k.out, as),
           Announces(k.out, l.out), SameRequests(as, as2, t)
    PROVE  SeenOK(l.out, as2)
<1>1. /\ Res(l.out) = Res(k.out) /\ \A i \in Res(k.out) : l.out[i] = k.out[i]
  BY DEF Announces, Res
<1>2. \A i \in Res(k.out) : Wide(as2, k.out[i].request) = Wide(as, k.out[i].request)
  BY RequestsInRange DEF SameRequests, Wide
<1>3. \A i, j \in Res(k.out) : InWindow(as2, l.out[i].request, l.out[j].request)
                                     <=> InWindow(as, k.out[i].request, k.out[j].request)
  BY <1>1, <1>2 DEF InWindow
<1> SUFFICES ASSUME NEW h \in Res(l.out), NEW i \in Res(l.out), NEW j \in Res(l.out), ~l.out[h].held,
                    InWindow(as2, l.out[h].request, l.out[i].request),
                    InWindow(as2, l.out[h].request, l.out[j].request)
             PROVE  l.out[i].seen = l.out[j].seen
  BY DEF SeenOK
<1>4. ~k.out[h].held /\ l.out[i].seen = k.out[i].seen /\ l.out[j].seen = k.out[j].seen
  BY <1>1
<1> QED
  BY <1>1, <1>3, <1>4 DEF SeenOK

(* Its window. *)
LEMMA WindowKept ==
    ASSUME NEW e, NEW k \in Conn, NEW l \in Conn, NEW t \in Nat, NEW as, NEW as2, NEW by, NEW by2,
           NEW b \in BOOLEAN, AnswersOK(k, t), WindowOK(e, k, by, as, t, b),
           Announces(k.out, l.out), SameRequests(as, as2, t),
           l.peer # "freed" => k.peer # "freed" /\ l.held = k.held /\ l.hold = k.hold,
           b => Foreign(by2, e) = Foreign(by, e)
    PROVE  WindowOK(e, l, by2, as2, t, b)
<1> SUFFICES ASSUME l.peer # "freed", NEW h \in Res(l.out), ~l.out[h].held
             PROVE  LET r == l.out[h].request
                    IN /\ t < r + Wide(as2, r) => Filling(l, as2, t, b, r)
                       /\ t >= r + Wide(as2, r) /\ r + Wide(as2, r) > t - Len(l.held) =>
                              Executing(e, l, by2, as2, b, r)
  BY DEF WindowOK
<1> DEFINE r == l.out[h].request
<1>1. /\ Res(l.out) = Res(k.out) /\ \A i \in Res(k.out) : l.out[i] = k.out[i]
  BY DEF Announces, Res
<1>2. Wide(as2, r) = Wide(as, r) /\ r = k.out[h].request
  BY <1>1, RequestsInRange DEF SameRequests, Wide
<1>3. /\ t < r + Wide(as, r) => Filling(k, as, t, b, r)
      /\ t >= r + Wide(as, r) /\ r + Wide(as, r) > t - Len(k.held) => Executing(e, k, by, as, b, r)
  BY <1>1, <1>2 DEF WindowOK
<1> HIDE DEF r
<1>4. Filling(k, as, t, b, r) => Filling(l, as2, t, b, r)
  BY <1>2 DEF Filling
<1>5. Executing(e, k, by, as, b, r) => Executing(e, l, by2, as2, b, r)
  BY <1>1, <1>2 DEF Executing, InWindow
<1> QED
  BY <1>2, <1>3, <1>4, <1>5 DEF r

(* What is announced before its response. *)
LEMMA SubscribedKept ==
    ASSUME NEW k \in Conn, NEW l \in Conn, NEW t \in Nat, NEW as, NEW as2, AnswersOK(k, t), SubscribedOK(k, as),
           Announces(k.out, l.out), SameRequests(as, as2, t), Follows(l) => Follows(k),
           Evs(l.out) # Evs(k.out) => Follows(k)
    PROVE  SubscribedOK(l, as2)
<1>1. /\ Res(l.out) = Res(k.out) /\ \A i \in Res(k.out) : l.out[i] = k.out[i] /\ i \in DOMAIN k.out
      /\ \A i \in Evs(l.out) \ Evs(k.out) : \A j \in DOMAIN k.out : j < i
  BY DEF Announces, Res
<1>2. \A i \in Res(k.out) : as2[k.out[i].request] = as[k.out[i].request]
  BY RequestsInRange DEF SameRequests
<1>3. Follows(k) => \E j \in Res(l.out) : as2[l.out[j].request].type = "subscribe"
  BY <1>1, <1>2 DEF SubscribedOK
<1>4. ASSUME NEW i \in Evs(l.out)
      PROVE  \E j \in Res(l.out) : j < i /\ as2[l.out[j].request].type = "subscribe"
  <2>1. CASE i \in Evs(k.out)
    <3>1. PICK j \in Res(k.out) : j < i /\ as[k.out[j].request].type = "subscribe"
      BY <2>1 DEF SubscribedOK
    <3>2. j \in Res(l.out) /\ as2[l.out[j].request].type = "subscribe"
      BY <1>1, <1>2, <3>1
    <3> QED
      BY <3>1, <3>2
  <2>2. CASE i \notin Evs(k.out)
    BY <1>1, <1>2, <1>3, <2>2 DEF SubscribedOK
  <2> QED
    BY <2>1, <2>2
<1> QED
  BY <1>3, <1>4 DEF SubscribedOK

-----------------------------------------------------------------------------
(* The events of a client.                                                   *)

(* Nothing is announced, or the client is freed. *)
LEMMA EventsFrame ==
    ASSUME NEW e, NEW k \in Conn, NEW l \in Conn, NEW by, EventsOK(k, by), OwnOK(e, k, by),
           l.out = k.out, l.subscribed = k.subscribed, l.since = k.since,
           \/ l.pending = k.pending /\ (l.peer # "freed" => k.peer # "freed")
           \/ l.pending = <<>> /\ l.peer = "freed"
    PROVE  EventsOK(l, by) /\ OwnOK(e, l, by)
<1>1. EventsOK(l, by)
  BY DEF EventsOK
<1>2. OwnOK(e, l, by)
  BY DEF OwnOK
<1> QED
  BY <1>1, <1>2

(* Somebody else made a change while nothing is pending. *)
Adds(by, b, by2, n) == by2 = Append(by, b) /\ n = Len(by) + 1

Hears(k, l) ==
    /\ Announces(k.out, l.out)
    /\ l.pending = <<>> /\ l.peer = k.peer /\ l.held = k.held /\ l.hold = k.hold
    /\ l.subscribed = k.subscribed
    /\ Evs(l.out) # Evs(k.out) => k.subscribed

LEMMA ForeignChange ==
    ASSUME NEW e, NEW k \in Conn, NEW l \in Conn, NEW by \in Seq(By), NEW b \in By, b.client # e,
           NEW by2, NEW n, Adds(by, b, by2, n), Told(k, l, n), k.pending = <<>>,
           EventsOK(k, by), OwnOK(e, k, by)
    PROVE  EventsOK(l, by2) /\ OwnOK(e, l, by2) /\ Hears(k, l)
<1>1. /\ Len(by) \in Nat /\ n \in Nat /\ n > Len(by) /\ Len(by2) = n /\ DOMAIN by = 1 .. Len(by) /\ by2[n] = b
      /\ \A i \in 1 .. Len(by) : by2[i] = by[i]
  BY Appended DEF Adds
<1>2. /\ k.out \in Seq(Queued) /\ k.since \in Nat /\ k.since <= Len(by)
      /\ \A i \in Evs(k.out) : k.out[i].change \in 1 .. Len(by)
  BY DEF Conn, EventsOK
<1>3. CASE ~k.subscribed \/ k.peer = "freed"
  <2>1. l = k
    BY <1>3 DEF Told
  <2>2. Announces(k.out, l.out)
    BY <2>1, Kinds DEF Announces
  <2>3. EventsOK(l, by2)
    BY <1>1, <1>2, <1>3, <2>1 DEF EventsOK
  <2>4. OwnOK(e, l, by2)
    BY <1>1, <1>2, <1>3, <2>1, SMTT(60) DEF OwnOK
  <2> QED
    BY <1>3, <2>1, <2>2, <2>3, <2>4 DEF Hears
<1>4. CASE ~ (~k.subscribed \/ k.peer = "freed")
  <2> DEFINE m == [kind |-> "event", change |-> n]
  <2>1. l = [k EXCEPT !.out = Append(@, m), !.pollout = l.pollout]
    BY <1>4 DEF Told
  <2>2. /\ l.out = Append(k.out, m) /\ l.pending = <<>> /\ l.peer = k.peer /\ l.held = k.held
        /\ l.hold = k.hold /\ l.subscribed = k.subscribed /\ l.since = k.since
    BY <2>1 DEF Conn
  <2>3. m \in Event /\ m.change = n
    BY <1>1 DEF Event
  <2> HIDE DEF m
  <2>4. /\ Announces(k.out, l.out) /\ Evs(l.out) = Evs(k.out) \cup {Len(k.out) + 1}
        /\ Len(k.out) + 1 \notin DOMAIN k.out /\ l.out[Len(k.out) + 1] = m
    BY <1>2, <2>2, <2>3, EventAppended, ZenonT(60)
  <2> DEFINE z == Len(k.out) + 1
  <2> HIDE DEF z
  <2>5. /\ Evs(l.out) = Evs(k.out) \cup {z} /\ z \notin Evs(k.out) /\ l.out[z].change = n /\ z \in Evs(l.out) /\ z \in Nat
        /\ \A i \in Evs(k.out) : l.out[i] = k.out[i] /\ i < z /\ ~ (z < i) /\ i \in Evs(l.out)
    <3>1. \A i \in Evs(k.out) : i \in DOMAIN k.out /\ i \in Nat
      BY <1>2, Kinds
    <3>2. z \in Evs(l.out) \ Evs(k.out) /\ l.out[z].change = n
      BY <2>3, <2>4, <3>1 DEF z
    <3>3. \A i \in DOMAIN k.out : i < z
      BY <2>4, <3>2 DEF Announces
    <3>4. z \in Nat
      <4>1. l.out \in Seq(Queued)
        BY DEF Conn
      <4> QED
        BY <3>2, <4>1, Kinds
    <3> QED
      BY <2>4, <3>1, <3>2, <3>3, <3>4 DEF Announces, z
  <2>6. EventsOK(l, by2)
    <3>0. \A i \in Evs(k.out) : /\ k.out[i].change < n /\ k.out[i].change \in 1 .. n
                               /\ l.out[i].change = k.out[i].change
      BY <1>1, <1>2, <2>5
    <3>1. ASSUME NEW i \in Evs(l.out), NEW j \in Evs(l.out), i < j PROVE l.out[i].change < l.out[j].change
      <4>1. i \in Evs(k.out)
        BY <2>5, <3>1
      <4>2. CASE j = z
        BY <2>5, <3>0, <4>1, <4>2
      <4>3. CASE j \in Evs(k.out)
        BY <3>0, <3>1, <4>1, <4>3 DEF EventsOK
      <4> QED
        BY <2>5, <4>2, <4>3
    <3>2. ASSUME NEW i \in Evs(l.out) PROVE l.out[i].change \in 1 .. Len(by2)
      <4>1. n \in 1 .. n
        BY <1>1, <1>2
      <4> QED
        BY <1>1, <2>2, <2>5, <3>0, <4>1
    <3>3. ASSUME NEW x \in l.since + 1 .. Len(by2) PROVE \E i \in Evs(l.out) : l.out[i].change = x
      <4>1. CASE x = n
        BY <2>5, <4>1
      <4>2. CASE x # n
        <5>1. x \in k.since + 1 .. Len(by)
          <6>1. n = Len(by) + 1
            BY DEF Adds
          <6> QED
            BY <1>1, <1>2, <2>2, <4>2, <6>1
        <5>2. PICK i \in Evs(k.out) : k.out[i].change = x
          BY <1>4, <5>1 DEF EventsOK
        <5> QED
          BY <2>5, <5>2
      <4> QED
        BY <4>1, <4>2
    <3>4. l.since <= Len(by2)
      BY <1>1, <1>2, <2>2
    <3> QED
      <4>1. l.subscribed /\ DOMAIN l.pending = {}
        BY <1>4, <2>2
      <4> QED
        BY <3>1, <3>2, <3>3, <3>4, <4>1 DEF EventsOK
  <2>7. OwnOK(e, l, by2)
    <3>1. ASSUME NEW i \in Evs(l.out), by2[l.out[i].change].client = e
          PROVE  \E j \in Res(l.out) : j < i /\ l.out[j].request = by2[l.out[i].change].request
      <4>1. i \in Evs(k.out) /\ l.out[i] = k.out[i]
        BY <1>1, <2>5, <3>1
      <4>2. by2[k.out[i].change] = by[k.out[i].change]
        BY <1>1, <1>2, <4>1
      <4>3. PICK j \in Res(k.out) : j < i /\ k.out[j].request = by[k.out[i].change].request
        BY <3>1, <4>1, <4>2 DEF OwnOK
      <4>4. j \in Res(l.out) /\ l.out[j] = k.out[j]
        BY <2>4, <4>3 DEF Announces, Res
      <4> QED
        BY <4>1, <4>2, <4>3, <4>4
    <3> QED
      <4>1. DOMAIN l.pending = {}
        BY <2>2
      <4> QED
        BY <3>1, <4>1 DEF OwnOK
  <2> QED
    BY <1>4, <2>2, <2>4, <2>6, <2>7 DEF Hears
<1> QED
  BY <1>3, <1>4

(* The client is answered. *)
LEMMA AnswerEvents ==
    ASSUME NEW e, NEW k \in Conn, NEW l \in Conn, NEW by \in Seq(By), NEW by2, NEW as \in Seq(Request),
           NEW r \in DOMAIN as, NEW batch \in BOOLEAN, e \in Clients, k.peer # "freed",
           Answer(e, k, l, by, by2, as, r, batch),
           EventsOK(k, by), OwnOK(e, k, by), SubscribedOK(k, as)
    PROVE  EventsOK(l, by2) /\ OwnOK(e, l, by2) /\ SubscribedOK(l, as)
<1> DEFINE m == [kind |-> "response", request |-> r, seen |-> Foreign(by, e), held |-> batch]
           z == Len(k.out) + 1
<1>1. m \in Response /\ m.request = r
  BY RequestKinds, ForeignType DEF Response
<1> HIDE DEF m
<1>2. k.out \in Seq(Queued) /\ k.since \in Nat /\ Len(by) \in Nat /\ k.pending \in Seq(Event) /\ k.subscribed \in BOOLEAN
  BY LenProperties DEF Conn
<1>3. l.out = Append(k.out, m)
  BY DEF Answer, m
<1>4. /\ Res(l.out) = Res(k.out) \cup {z} /\ Evs(l.out) = Evs(k.out) /\ z \notin DOMAIN k.out
      /\ l.out[z] = m /\ \A i \in DOMAIN k.out : l.out[i] = k.out[i] /\ i < z
  <2>1. Answers(k.out, l.out, m, z)
    BY <1>1, <1>2, <1>3, ResponseAppended
  <2> HIDE DEF z
  <2> QED
    BY <2>1 DEF Answers
<1> HIDE DEF z
<1>5. /\ Evs(k.out) \subseteq DOMAIN k.out /\ Res(k.out) \subseteq DOMAIN k.out
      /\ \A i \in DOMAIN k.out : l.out[i] = k.out[i] /\ i < z
      /\ z \in Res(l.out) /\ l.out[z].request = r /\ Res(k.out) \subseteq Res(l.out)
  BY <1>1, <1>4 DEF Evs, Res
<1>6. \A i \in Evs(k.out) : k.out[i].change \in 1 .. Len(by)
  BY DEF EventsOK
<1>7. \A i \in DOMAIN k.pending : k.pending[i].change \in 1 .. Len(by)
  BY DEF EventsOK
<1>8. l.peer = k.peer
  BY DEF Answer
<1>9. CASE as[r].type = "change"
  <2> DEFINE n == Len(by) + 1
             b == [client |-> e, request |-> r]
             ev == [kind |-> "event", change |-> n]
  <2>1. by2 = Append(by, b) /\ l.pending = Pushed(k, n) /\ l.subscribed = k.subscribed /\ l.since = k.since
    BY <1>9 DEF Answer
  <2>2. b \in By /\ b.client = e /\ b.request = r
    BY RequestKinds DEF By
  <2>3. ev \in Event /\ ev.change = n
    BY <1>2 DEF Event
  <2> HIDE DEF b, ev
  <2>4. /\ n \in Nat /\ n > Len(by) /\ Len(by2) = n /\ DOMAIN by = 1 .. Len(by) /\ by2[n] = b
        /\ \A i \in 1 .. Len(by) : by2[i] = by[i]
    BY <1>2, <2>1, <2>2, Appended
  <2>5. \A x \in 1 .. Len(by) : by2[x] = by[x] /\ x \in 1 .. n /\ x < n
    BY <1>2, <2>4
  <2>6. /\ \A i, j \in Evs(l.out) : i < j => l.out[i].change < l.out[j].change
        /\ \A i \in Evs(l.out) : l.out[i].change \in 1 .. Len(by2)
        /\ l.since <= Len(by2)
    <3>1. \A i, j \in Evs(k.out) : i < j => k.out[i].change < k.out[j].change
      BY DEF EventsOK
    <3>2. k.since <= Len(by)
      BY DEF EventsOK
    <3> QED
      BY <1>2, <1>4, <1>5, <1>6, <2>1, <2>4, <2>5, <3>1, <3>2, SMTT(60)
  <2>7. CASE ~k.subscribed
    <3>1. l.pending = k.pending /\ ~l.subscribed
      BY <2>1, <2>7 DEF Pushed
    <3>2. EventsOK(l, by2)
      <4>1. \A j \in DOMAIN k.pending : k.pending[j].change \in 1 .. Len(by2)
        BY <1>7, <2>4, <2>5
      <4> QED
        BY <1>4, <1>5, <2>6, <3>1, <4>1 DEF EventsOK
    <3>3. OwnOK(e, l, by2)
      <4>1. ASSUME NEW i \in Evs(l.out), by2[l.out[i].change].client = e
            PROVE  \E j \in Res(l.out) : j < i /\ l.out[j].request = by2[l.out[i].change].request
        <5>1. i \in Evs(k.out) /\ l.out[i] = k.out[i] /\ by2[k.out[i].change] = by[k.out[i].change]
          BY <1>4, <1>5, <1>6, <2>5
        <5>2. PICK j \in Res(k.out) : j < i /\ k.out[j].request = by[k.out[i].change].request
          BY <4>1, <5>1 DEF OwnOK
        <5> QED
          BY <1>5, <5>1, <5>2
      <4>2. ASSUME NEW i \in DOMAIN l.pending
            PROVE  /\ by2[l.pending[i].change].client = e
                   /\ \E j \in Res(l.out) : l.out[j].request = by2[l.pending[i].change].request
        <5>1. l.pending[i] = k.pending[i] /\ by2[k.pending[i].change] = by[k.pending[i].change]
          BY <1>7, <2>5, <3>1
        <5>2. by[k.pending[i].change].client = e
          BY <3>1 DEF OwnOK
        <5>3. PICK j \in Res(k.out) : k.out[j].request = by[k.pending[i].change].request
          BY <3>1 DEF OwnOK
        <5> QED
          BY <1>5, <5>1, <5>2, <5>3
      <4> QED
        BY <4>1, <4>2 DEF OwnOK
    <3>4. SubscribedOK(l, as)
      <4>1. Follows(l) => Follows(k)
        BY <3>1 DEF Follows
      <4> QED
        BY <1>4, <1>5, <4>1, ZenonT(60) DEF SubscribedOK
    <3> QED
      BY <3>2, <3>3, <3>4
  <2>8. CASE k.subscribed
    <3> DEFINE y == Len(k.pending) + 1
    <3>1. l.pending = Append(k.pending, ev)
      BY <2>1, <2>8 DEF Pushed, ev
    <3>2. /\ DOMAIN l.pending = DOMAIN k.pending \cup {y} /\ l.pending[y] = ev /\ y \in Nat
          /\ DOMAIN k.pending \subseteq Nat
          /\ \A i \in DOMAIN k.pending : l.pending[i] = k.pending[i] /\ i < y /\ ~ (y < i) /\ i # y
      <4>1. /\ DOMAIN l.pending = DOMAIN k.pending \cup {y} /\ l.pending[y] = ev /\ y \notin DOMAIN k.pending
            /\ \A i \in DOMAIN k.pending : l.pending[i] = k.pending[i] /\ i < y
            /\ DOMAIN k.pending = 1 .. Len(k.pending) /\ Len(k.pending) \in Nat
        BY <1>2, <2>3, <3>1, Appended
      <4> QED
        BY <4>1
    <3> HIDE DEF y
    <3>3. \A i \in DOMAIN k.pending : k.pending[i].change < n /\ k.pending[i].change \in 1 .. n
      BY <1>7, <2>5
    <3>4. \A i \in Evs(k.out) : k.out[i].change < n
      BY <1>6, <2>5
    <3>5. ASSUME NEW i \in DOMAIN l.pending, NEW j \in DOMAIN l.pending, i < j
          PROVE  l.pending[i].change < l.pending[j].change
      <4>1. i \in DOMAIN k.pending
        BY <3>2, <3>5
      <4>2. CASE j = y
        BY <2>3, <3>2, <3>3, <4>1, <4>2
      <4>3. CASE j \in DOMAIN k.pending
        BY <3>2, <3>5, <4>1, <4>3 DEF EventsOK
      <4> QED
        BY <3>2, <4>2, <4>3
    <3>6. ASSUME NEW i \in Evs(l.out), NEW j \in DOMAIN l.pending
          PROVE  l.out[i].change < l.pending[j].change
      <4>1. i \in Evs(k.out) /\ l.out[i] = k.out[i]
        BY <1>4, <1>5
      <4>2. CASE j = y
        BY <2>3, <3>2, <3>4, <4>1, <4>2
      <4>3. CASE j \in DOMAIN k.pending
        BY <3>2, <4>1, <4>3 DEF EventsOK
      <4> QED
        BY <3>2, <4>2, <4>3
    <3>7. ASSUME NEW j \in DOMAIN l.pending PROVE l.pending[j].change \in 1 .. Len(by2)
      <4>1. n \in 1 .. n
        BY <1>2
      <4> QED
        BY <2>1, <2>3, <2>4, <3>2, <3>3, <4>1
    <3>8. ASSUME NEW x \in l.since + 1 .. Len(by2)
          PROVE  \/ \E i \in Evs(l.out) : l.out[i].change = x
                 \/ \E j \in DOMAIN l.pending : l.pending[j].change = x
      <4>1. CASE x = n
        BY <2>3, <3>2, <4>1
      <4>2. CASE x # n
        <5>1. x \in k.since + 1 .. Len(by)
          BY <1>2, <2>1, <2>4, <4>2
        <5>2. \/ \E i \in Evs(k.out) : k.out[i].change = x
              \/ \E j \in DOMAIN k.pending : k.pending[j].change = x
          BY <2>8, <5>1 DEF EventsOK
        <5>3. CASE \E i \in Evs(k.out) : k.out[i].change = x
          BY <1>4, <1>5, <5>3
        <5>4. CASE \E j \in DOMAIN k.pending : k.pending[j].change = x
          BY <3>2, <5>4
        <5> QED
          BY <5>2, <5>3, <5>4
      <4> QED
        BY <4>1, <4>2
    <3>9. EventsOK(l, by2)
      <4>1. l.subscribed
        BY <2>1, <2>8
      <4> QED
        BY <2>6, <3>5, <3>6, <3>7, <3>8, <4>1 DEF EventsOK
    <3>10. OwnOK(e, l, by2)
      <4>1. ASSUME NEW i \in Evs(l.out), by2[l.out[i].change].client = e
            PROVE  \E j \in Res(l.out) : j < i /\ l.out[j].request = by2[l.out[i].change].request
        <5>1. i \in Evs(k.out) /\ l.out[i] = k.out[i] /\ by2[k.out[i].change] = by[k.out[i].change]
          BY <1>4, <1>5, <1>6, <2>5
        <5>2. PICK j \in Res(k.out) : j < i /\ k.out[j].request = by[k.out[i].change].request
          BY <4>1, <5>1 DEF OwnOK
        <5> QED
          BY <1>5, <5>1, <5>2
      <4>2. ASSUME NEW i \in DOMAIN l.pending
            PROVE  /\ by2[l.pending[i].change].client = e
                   /\ \E j \in Res(l.out) : l.out[j].request = by2[l.pending[i].change].request
        <5>1. CASE i = y
          BY <1>5, <2>2, <2>3, <2>4, <3>2, <5>1
        <5>2. CASE i \in DOMAIN k.pending
          <6>1. l.pending[i] = k.pending[i] /\ by2[k.pending[i].change] = by[k.pending[i].change]
            BY <1>7, <2>5, <3>2, <5>2
          <6>2. by[k.pending[i].change].client = e
            BY <5>2 DEF OwnOK
          <6>3. PICK j \in Res(k.out) : k.out[j].request = by[k.pending[i].change].request
            BY <5>2 DEF OwnOK
          <6> QED
            BY <1>5, <6>1, <6>2, <6>3
        <5> QED
          BY <3>2, <5>1, <5>2
      <4> QED
        BY <4>1, <4>2 DEF OwnOK
    <3>11. SubscribedOK(l, as)
      <4>1. Follows(k)
        BY <2>8 DEF Follows
      <4> QED
        BY <1>4, <1>5, <4>1, ZenonT(60) DEF SubscribedOK
    <3> QED
      BY <3>9, <3>10, <3>11
  <2> QED
    BY <1>2, <2>7, <2>8
<1>10. CASE as[r].type # "change"
  <2>1. by2 = by /\ l.pending = k.pending
    BY <1>10 DEF Answer
  <2>2. \/ l.subscribed = k.subscribed /\ l.since = k.since
        \/ ~k.subscribed /\ l.subscribed /\ l.since = Len(by) /\ as[r].type = "subscribe"
        \/ ~l.subscribed /\ l.since \in {k.since, Len(by)}
    BY <1>2, <1>10 DEF Answer
  <2>3. /\ \A i, j \in Evs(l.out) : i < j => l.out[i].change < l.out[j].change
        /\ \A i \in Evs(l.out) : \A j \in DOMAIN l.pending : l.out[i].change < l.pending[j].change
    BY <1>4, <1>5, <2>1 DEF EventsOK
  <2>4. EventsOK(l, by2)
    <3>1. CASE l.subscribed = k.subscribed /\ l.since = k.since
      BY <1>4, <1>5, <1>8, <2>1, <2>3, <3>1 DEF EventsOK
    <3>2. CASE l.since = Len(by)
      <4>1. l.since + 1 .. Len(by2) = {} /\ l.since <= Len(by2)
        BY <1>2, <2>1, <3>2
      <4> QED
        BY <1>4, <1>5, <2>1, <2>3, <4>1 DEF EventsOK
    <3>3. CASE ~l.subscribed /\ l.since = k.since
      BY <1>4, <1>5, <2>1, <2>3, <3>3 DEF EventsOK
    <3> QED
      BY <2>2, <3>1, <3>2, <3>3
  <2>5. OwnOK(e, l, by2)
    <3>1. ASSUME NEW i \in Evs(l.out), by2[l.out[i].change].client = e
          PROVE  \E j \in Res(l.out) : j < i /\ l.out[j].request = by2[l.out[i].change].request
      <4>1. i \in Evs(k.out) /\ l.out[i] = k.out[i]
        BY <1>4, <1>5
      <4>2. PICK j \in Res(k.out) : j < i /\ k.out[j].request = by[k.out[i].change].request
        BY <2>1, <3>1, <4>1 DEF OwnOK
      <4> QED
        BY <1>5, <2>1, <4>1, <4>2
    <3>2. ASSUME NEW i \in DOMAIN l.pending
          PROVE  /\ by2[l.pending[i].change].client = e
                 /\ \E j \in Res(l.out) : l.out[j].request = by2[l.pending[i].change].request
      <4>1. by[k.pending[i].change].client = e
        BY <2>1 DEF OwnOK
      <4>2. PICK j \in Res(k.out) : k.out[j].request = by[k.pending[i].change].request
        BY <2>1 DEF OwnOK
      <4> QED
        BY <1>5, <2>1, <4>1, <4>2
    <3> QED
      BY <3>1, <3>2 DEF OwnOK
  <2>6. SubscribedOK(l, as)
    <3>1. CASE Follows(l) => Follows(k)
      BY <1>4, <1>5, <3>1, ZenonT(60) DEF SubscribedOK
    <3>2. CASE as[r].type = "subscribe"
      BY <1>4, <1>5, <3>2, ZenonT(60) DEF SubscribedOK
    <3> QED
      BY <2>1, <2>2, <3>1, <3>2 DEF Follows
  <2> QED
    BY <2>4, <2>5, <2>6
<1> QED
  BY <1>9, <1>10

(* What was pending is sent. *)
LEMMA FlushEvs ==
    ASSUME NEW e, NEW k \in Conn, NEW l \in Conn, NEW by, NEW as,
           l.out = k.out \o k.pending, l.pending = <<>>, l.peer = k.peer, l.held = k.held, l.hold = k.hold,
           l.subscribed = k.subscribed, l.since = k.since,
           EventsOK(k, by), OwnOK(e, k, by), SubscribedOK(k, as)
    PROVE  /\ EventsOK(l, by) /\ OwnOK(e, l, by) /\ Announces(k.out, l.out)
           /\ Evs(l.out) # Evs(k.out) => Follows(k)
<1> DEFINE z == Len(k.out)
<1>1. k.out \in Seq(Queued) /\ k.pending \in Seq(Event) /\ l.out \in Seq(Queued) /\ k.subscribed \in BOOLEAN
  BY DEF Conn
<1>2. /\ Announces(k.out, l.out) /\ z \in Nat /\ DOMAIN k.pending \subseteq Nat
      /\ Evs(l.out) = Evs(k.out) \cup {z + j : j \in DOMAIN k.pending}
      /\ \A j \in DOMAIN k.pending : l.out[z + j] = k.pending[j] /\ z + j \notin DOMAIN k.out
  <2>1. Joins(k.out, k.pending, l.out, z)
    BY <1>1, EventsJoined
  <2> HIDE DEF z
  <2> QED
    BY <2>1 DEF Joins
<1>3. DOMAIN l.pending = {}
  OBVIOUS
<1> HIDE DEF z
<1>4. /\ \A i \in Evs(k.out) : i \in Evs(l.out) /\ l.out[i] = k.out[i] /\ i \in DOMAIN k.out /\ i \in Nat
      /\ \A i \in Res(k.out) : i \in Res(l.out) /\ l.out[i] = k.out[i] /\ i \in DOMAIN k.out
  BY <1>1, <1>2, Kinds DEF Announces
<1>5. ASSUME NEW i \in Evs(l.out), i \notin Evs(k.out)
      PROVE  /\ i - z \in DOMAIN k.pending /\ l.out[i] = k.pending[i - z] /\ i \in Nat
             /\ \A j \in DOMAIN k.out : j < i
  <2>1. PICK j \in DOMAIN k.pending : i = z + j
    BY <1>2, <1>5
  <2>2. j \in Nat /\ i - z = j
    BY <1>2, <2>1
  <2>3. \A x \in DOMAIN k.out : x < i
    BY <1>2, <1>5 DEF Announces
  <2>4. i \in Nat /\ i - z \in DOMAIN k.pending
    BY <1>2, <2>1, <2>2
  <2>5. l.out[i] = k.pending[i - z]
    BY <1>2, <2>1, <2>2
  <2> QED
    BY <2>3, <2>4, <2>5
<1>6. Evs(l.out) # Evs(k.out) => Follows(k)
  <2> SUFFICES ASSUME ~Follows(k) PROVE Evs(l.out) = Evs(k.out)
    OBVIOUS
  <2>1. DOMAIN k.pending = {}
    BY DEF Follows
  <2> QED
    BY <1>2, <2>1
<1>7. ASSUME NEW i \in Evs(l.out), NEW j \in Evs(l.out), i < j PROVE l.out[i].change < l.out[j].change
  <2>1. CASE i \in Evs(k.out) /\ j \in Evs(k.out)
    BY <1>4, <1>7, <2>1 DEF EventsOK
  <2>2. CASE i \in Evs(k.out) /\ j \notin Evs(k.out)
    BY <1>4, <1>5, <2>2, ZenonT(60) DEF EventsOK
  <2>3. CASE i \notin Evs(k.out) /\ j \in Evs(k.out)
    <3>1. j < i /\ i \in Nat /\ j \in Nat
      BY <1>4, <1>5, <2>3
    <3> QED
      BY <1>7, <3>1
  <2>4. CASE i \notin Evs(k.out) /\ j \notin Evs(k.out)
    <3>1. i - z \in DOMAIN k.pending /\ j - z \in DOMAIN k.pending /\ i - z < j - z
      BY <1>2, <1>5, <1>7, <2>4
    <3>2. l.out[i] = k.pending[i - z] /\ l.out[j] = k.pending[j - z]
      BY <1>5, <2>4
    <3> QED
      BY <3>1, <3>2 DEF EventsOK
  <2> QED
    BY <2>1, <2>2, <2>3, <2>4
<1>8. ASSUME NEW i \in Evs(l.out) PROVE l.out[i].change \in 1 .. Len(by)
  <2>1. CASE i \in Evs(k.out)
    BY <1>4, <2>1 DEF EventsOK
  <2>2. CASE i \notin Evs(k.out)
    BY <1>5, <2>2 DEF EventsOK
  <2> QED
    BY <2>1, <2>2
<1>9. ASSUME l.subscribed, l.peer # "freed", NEW n \in l.since + 1 .. Len(by)
      PROVE  \E i \in Evs(l.out) : l.out[i].change = n
  <2>1. \/ \E i \in Evs(k.out) : k.out[i].change = n
        \/ \E j \in DOMAIN k.pending : k.pending[j].change = n
    BY <1>9 DEF EventsOK
  <2>2. CASE \E i \in Evs(k.out) : k.out[i].change = n
    BY <1>4, <2>2
  <2>3. CASE \E j \in DOMAIN k.pending : k.pending[j].change = n
    BY <1>2, <2>3
  <2> QED
    BY <2>1, <2>2, <2>3
<1>10. EventsOK(l, by)
  <2>1. l.since <= Len(by)
    BY DEF EventsOK
  <2> QED
    BY <1>3, <1>7, <1>8, <1>9, <2>1 DEF EventsOK
<1>11. ASSUME NEW i \in Evs(l.out), by[l.out[i].change].client = e
       PROVE  \E j \in Res(l.out) : j < i /\ l.out[j].request = by[l.out[i].change].request
  <2>1. CASE i \in Evs(k.out)
    <3>1. PICK j \in Res(k.out) : j < i /\ k.out[j].request = by[k.out[i].change].request
      BY <1>4, <1>11, <2>1 DEF OwnOK
    <3> QED
      BY <1>4, <2>1, <3>1
  <2>2. CASE i \notin Evs(k.out)
    <3>1. i - z \in DOMAIN k.pending /\ l.out[i] = k.pending[i - z]
      BY <1>5, <2>2
    <3>2. PICK j \in Res(k.out) : k.out[j].request = by[k.pending[i - z].change].request
      BY <3>1 DEF OwnOK
    <3>3. j < i
      BY <1>4, <1>5, <2>2
    <3> QED
      BY <1>4, <3>1, <3>2, <3>3
  <2> QED
    BY <2>1, <2>2
<1>12. OwnOK(e, l, by)
  BY <1>3, <1>11 DEF OwnOK
<1> QED
  BY <1>2, <1>6, <1>10, <1>12

-----------------------------------------------------------------------------
(* The answer to a request.                                                  *)

(* It is the next one. *)
LEMMA AnsweredNext ==
    ASSUME NEW e, NEW k \in Conn, NEW l \in Conn, NEW by \in Seq(By), NEW by2, NEW as \in Seq(Request),
           NEW r \in DOMAIN as, NEW batch \in BOOLEAN,
           Answer(e, k, l, by, by2, as, r, batch), AnswersTo(k.out, r - 1)
    PROVE  AnswersTo(l.out, r)
<1> DEFINE m == [kind |-> "response", request |-> r, seen |-> Foreign(by, e), held |-> batch]
           z == Len(k.out) + 1
<1>1. m \in Response /\ m.request = r /\ r \in Nat \ {0}
  BY RequestKinds, ForeignType DEF Response
<1> HIDE DEF m
<1>2. k.out \in Seq(Queued)
  BY DEF Conn
<1>3. l.out = Append(k.out, m)
  BY DEF Answer, m
<1>4. /\ Res(l.out) = Res(k.out) \cup {z} /\ z \in Nat /\ l.out[z].request = r
      /\ \A i \in Res(k.out) : l.out[i] = k.out[i] /\ i < z /\ i \in Nat
  <2>1. Answers(k.out, l.out, m, z)
    BY <1>1, <1>2, <1>3, ResponseAppended
  <2> HIDE DEF z
  <2>2. \A i \in Res(k.out) : i \in DOMAIN k.out /\ i \in Nat
    BY <1>2, Kinds
  <2> QED
    BY <1>1, <2>1, <2>2 DEF Answers
<1> HIDE DEF z
<1>5. ASSUME NEW i \in Res(l.out), NEW j \in Res(l.out), i < j PROVE l.out[i].request < l.out[j].request
  <2>1. i \in Res(k.out) /\ l.out[i].request = k.out[i].request /\ k.out[i].request \in 1 .. r - 1
    BY <1>4, <1>5 DEF AnswersTo
  <2>2. CASE j = z
    BY <1>1, <1>4, <2>1, <2>2
  <2>3. CASE j \in Res(k.out)
    BY <1>4, <1>5, <2>1, <2>3 DEF AnswersTo
  <2> QED
    BY <1>4, <2>2, <2>3
<1>6. ASSUME NEW i \in Res(l.out) PROVE l.out[i].request \in 1 .. r
  BY <1>1, <1>4 DEF AnswersTo
<1>7. ASSUME NEW x \in 1 .. r PROVE \E i \in Res(l.out) : l.out[i].request = x
  <2>1. CASE x = r
    BY <1>4, <2>1
  <2>2. CASE x # r
    <3>1. x \in 1 .. r - 1
      BY <1>1, <2>2
    <3>2. PICK i \in Res(k.out) : k.out[i].request = x
      BY <3>1 DEF AnswersTo
    <3> QED
      BY <1>4, <3>2
  <2> QED
    BY <2>1, <2>2
<1> QED
  BY <1>5, <1>6, <1>7 DEF AnswersTo

(* What is new after an answer: one response, the last. *)
AnsweredBy(k, l, r, s, batch, z) ==
    /\ Res(l.out) = Res(k.out) \cup {z} /\ z \notin Res(k.out)
    /\ l.out[z].request = r /\ l.out[z].seen = s /\ l.out[z].held = batch
    /\ \A i \in Res(k.out) : l.out[i] = k.out[i]

LEMMA AnswerAdds ==
    ASSUME NEW e, NEW k \in Conn, NEW l \in Conn, NEW by \in Seq(By), NEW by2, NEW as \in Seq(Request),
           NEW r \in DOMAIN as, NEW batch \in BOOLEAN, Answer(e, k, l, by, by2, as, r, batch)
    PROVE  \E z : AnsweredBy(k, l, r, Foreign(by, e), batch, z)
<1> DEFINE m == [kind |-> "response", request |-> r, seen |-> Foreign(by, e), held |-> batch]
           z == Len(k.out) + 1
<1>1. m \in Response /\ m.request = r /\ m.seen = Foreign(by, e) /\ m.held = batch
  BY RequestKinds, ForeignType DEF Response
<1> HIDE DEF m
<1>2. k.out \in Seq(Queued)
  BY DEF Conn
<1>3. l.out = Append(k.out, m)
  BY DEF Answer, m
<1>4. Answers(k.out, l.out, m, z)
  BY <1>1, <1>2, <1>3, ResponseAppended
<1> HIDE DEF z
<1>5. \A i \in Res(k.out) : i \in DOMAIN k.out
  BY DEF Res
<1>6. AnsweredBy(k, l, r, Foreign(by, e), batch, z)
  BY <1>1, <1>4, <1>5 DEF Answers, AnsweredBy
<1> QED
  BY <1>6

(* A request that is executed when it comes: no window is open, and it may open   *)
(* one.                                                                      *)
LEMMA AnswerNow ==
    ASSUME NEW e, NEW k \in Conn, NEW l \in Conn, NEW by \in Seq(By), NEW by2, NEW as \in Seq(Request),
           NEW t \in Nat, NEW r \in DOMAIN as, r = t + 1, Answer(e, k, l, by, by2, as, r, FALSE),
           k.peer # "freed", k.hold = 0, k.held = <<>>,
           AnswersOK(k, t), SeenOK(k.out, as), WindowOK(e, k, by, as, t, FALSE)
    PROVE  /\ HeldOK(l, r) /\ AnswersOK(l, r) /\ SeenOK(l.out, as)
           /\ WindowOK(e, l, by2, as, r, FALSE)
<1>0. r \in Nat /\ r - 1 = t /\ t < r
  OBVIOUS
<1>00. Len(k.held) = 0
  OBVIOUS
<1>01. \A q \in 1 .. t : q \in DOMAIN as
  <2> DEFINE n == Len(as)
  <2>1. DOMAIN as = 1 .. n /\ n \in Nat
    BY LenProperties
  <2> HIDE DEF n
  <2>2. r <= n
    BY <2>1
  <2>3. \A q \in 1 .. t : q \in 1 .. n
    BY <1>0, <2>1, <2>2
  <2> QED
    BY <2>1, <2>3
<1>1. l.held = <<>> /\ Len(l.held) = 0 /\ DOMAIN l.held = {} /\ l.peer = k.peer
  BY DEF Answer
<1>2. Wide(as, r) \in Nat /\ (Wide(as, r) > 0 => l.hold = Wide(as, r))
  BY RequestKinds DEF Answer
<1>3. AnswersTo(k.out, t)
  <2>1. PICK n \in 0 .. t : AnswersTo(k.out, n) /\ (k.peer # "freed" => n = t - Len(k.held))
    BY DEF AnswersOK
  <2>2. n = t
    BY <1>00, <2>1
  <2> QED
    BY <2>1, <2>2
<1>4. AnswersTo(l.out, r)
  BY <1>0, <1>3, AnsweredNext
<1>5. PICK z : AnsweredBy(k, l, r, Foreign(by, e), FALSE, z)
  BY AnswerAdds
<1>6. /\ Res(l.out) = Res(k.out) \cup {z} /\ l.out[z].request = r
      /\ \A i \in Res(k.out) : l.out[i] = k.out[i] /\ k.out[i].request \in 1 .. t
  BY <1>3, <1>5 DEF AnsweredBy, AnswersTo
<1>7. ASSUME NEW h \in Res(k.out), ~k.out[h].held, NEW q, q = k.out[h].request,
             NEW w, w = Wide(as, q)
      PROVE  q \in Nat /\ w \in Nat /\ ~ (t < q + w)
  <2>1. q \in 1 .. t
    BY <1>6, <1>7
  <2>2. q \in DOMAIN as
    BY <1>01, <2>1
  <2>3. w \in Nat
    BY <1>7, <2>2, RequestKinds
  <2>4. t < q + w => 0 = q + w - t
    BY <1>7 DEF WindowOK, Filling
  <2>5. ~ (t < q + w)
    BY <2>1, <2>3, <2>4
  <2> QED
    BY <2>1, <2>3, <2>5
<1>8. HeldOK(l, r)
  <2>1. Len(l.held) <= r
    BY <1>0, <1>1
  <2> QED
    BY <1>1, <2>1 DEF HeldOK
<1>9. AnswersOK(l, r)
  <2>1. r \in 0 .. r /\ r = r - Len(l.held)
    BY <1>0, <1>1
  <2> QED
    BY <1>4, <2>1 DEF AnswersOK
<1>10. SeenOK(l.out, as)
  <2> SUFFICES ASSUME NEW h \in Res(l.out), NEW i \in Res(l.out), NEW j \in Res(l.out), ~l.out[h].held,
                      InWindow(as, l.out[h].request, l.out[i].request),
                      InWindow(as, l.out[h].request, l.out[j].request)
               PROVE  l.out[i].seen = l.out[j].seen
    BY DEF SeenOK
  <2>1. h \in Res(k.out)
    <3>1. \A x \in Res(l.out) : l.out[x].request \in 1 .. r
      BY <1>4 DEF AnswersTo
    <3>2. ~ (r < l.out[i].request)
      BY <1>0, <3>1
    <3> QED
      BY <1>6, <3>2 DEF InWindow
  <2>2. ~ InWindow(as, l.out[h].request, r)
    <3> DEFINE q == k.out[h].request
               w == Wide(as, q)
    <3>1. ~k.out[h].held /\ l.out[h].request = q
      BY <1>6, <2>1
    <3>2. q \in Nat /\ w \in Nat /\ ~ (t < q + w)
      BY <1>7, <2>1, <3>1
    <3>3. InWindow(as, q, r) => r <= q + w
      BY DEF InWindow
    <3> HIDE DEF q, w
    <3>4. ~ (r <= q + w)
      BY <1>0, <3>2
    <3> QED
      BY <3>1, <3>3, <3>4
  <2>3. i \in Res(k.out) /\ j \in Res(k.out)
    BY <1>6, <2>2
  <2>4. l.out[h] = k.out[h] /\ l.out[i] = k.out[i] /\ l.out[j] = k.out[j]
    BY <1>6, <2>1, <2>3
  <2>5. ~k.out[h].held /\ InWindow(as, k.out[h].request, k.out[i].request)
                       /\ InWindow(as, k.out[h].request, k.out[j].request)
    BY <2>4
  <2>6. k.out[i].seen = k.out[j].seen
    BY <2>1, <2>3, <2>5 DEF SeenOK
  <2> QED
    BY <2>4, <2>6
<1>11. WindowOK(e, l, by2, as, r, FALSE)
  <2>3. SUFFICES ASSUME NEW h \in Res(l.out), ~l.out[h].held, NEW q, q = l.out[h].request,
                      NEW w, w = Wide(as, q)
               PROVE  /\ r < q + w => Filling(l, as, r, FALSE, q)
                      /\ ~ (r >= q + w /\ q + w > r - Len(l.held))
    BY DEF WindowOK
  <2>0. Len(l.held) = 0
    BY <1>1
  <2>1. CASE h \in Res(k.out)
    <3>1. q \in Nat /\ w \in Nat /\ ~ (t < q + w)
      BY <1>6, <1>7, <2>1, <2>3
    <3>2. ~ (r < q + w) /\ ~ (r >= q + w /\ q + w > r - 0)
      BY <1>0, <3>1
    <3> QED
      BY <2>0, <3>2
  <2>2. CASE h = z
    <3>1. q = r /\ w \in Nat /\ (w > 0 => l.hold = w)
      BY <1>2, <1>6, <2>2, <2>3
    <3>2. ~ (r >= q + w /\ q + w > r - 0)
      BY <1>0, <3>1
    <3>3. ASSUME r < q + w PROVE l.hold = q + w - r /\ r - 0 = q
      <4>1. w > 0
        BY <1>0, <3>1, <3>3
      <4>2. l.hold = w
        BY <3>1, <4>1
      <4> QED
        BY <1>0, <3>1, <4>2
    <3> QED
      BY <2>0, <2>3, <3>2, <3>3 DEF Filling
  <2> QED
    BY <1>6, <2>1, <2>2, <2>3
<1> QED
  BY <1>8, <1>9, <1>10, <1>11

(* A request is held, b: it is the last to hold. *)
HoldsOne(k, l, t, u, b) ==
    /\ u = t + 1 /\ l.held = Append(k.held, u) /\ l.hold = k.hold - 1 /\ l.out = k.out /\ l.peer = k.peer
    /\ k.peer # "freed" /\ k.hold # 0 /\ (b <=> k.hold = 1)

(* What opened the window counts down with it. *)
CountsDown(e, l, by, as, u, b) ==
    /\ HeldOK(l, u) /\ AnswersOK(l, u) /\ WindowOK(e, l, by, as, u, b)
    /\ l.held # <<>> /\ (~b => l.hold # 0)

LEMMA HoldsMore ==
    ASSUME NEW e, NEW k \in Conn, NEW l \in Conn, NEW by, NEW as \in Seq(Request),
           NEW t \in Nat, NEW u \in DOMAIN as, NEW b \in BOOLEAN, HoldsOne(k, l, t, u, b),
           HeldOK(k, t), AnswersOK(k, t), WindowOK(e, k, by, as, t, FALSE)
    PROVE  CountsDown(e, l, by, as, u, b)
<1> DEFINE n == Len(k.held)
           a == t - n
<1>0. /\ u = t + 1 /\ l.held = Append(k.held, u) /\ l.hold = k.hold - 1 /\ l.out = k.out /\ l.peer = k.peer
      /\ k.peer # "freed" /\ k.hold # 0 /\ (b <=> k.hold = 1)
  BY DEF HoldsOne
<1>1. /\ DOMAIN l.held = DOMAIN k.held \cup {n + 1} /\ l.held[n + 1] = u /\ Len(l.held) = n + 1
      /\ \A i \in DOMAIN k.held : l.held[i] = k.held[i]
      /\ DOMAIN k.held = 1 .. n
  <2>1. k.held \in Seq(Nat) /\ u \in Nat
    BY <1>0 DEF Conn
  <2> QED
    BY <1>0, <2>1, Appended
<1>2. n \in Nat /\ u \in Nat /\ u = t + 1 /\ l.held # <<>>
  <2>1. k.held \in Seq(Nat) /\ u \in Nat
    BY <1>0 DEF Conn
  <2>2. n \in Nat
    BY <1>0, <2>1, LenProperties
  <2>3. l.held # <<>>
    <3>1. n + 1 \in DOMAIN l.held /\ DOMAIN <<>> = {}
      BY <1>1
    <3> QED
      BY <3>1
  <2> QED
    BY <1>0, <2>1, <2>2, <2>3
<1>3. n <= t /\ \A i \in 1 .. n : k.held[i] = t - n + i
  BY <1>0, <1>1 DEF HeldOK
<1>4. k.hold \in Nat /\ k.hold # 0 /\ l.hold = k.hold - 1 /\ (b <=> k.hold = 1)
  BY <1>0 DEF Conn
<1>5. AnswersTo(k.out, a)
  BY <1>0 DEF AnswersOK
<1> HIDE DEF n
<1>6. u - Len(l.held) = a /\ a \in 0 .. u
  <2>1. Len(l.held) = n + 1
    BY <1>0, <1>1
  <2>2. u - (n + 1) = a /\ a \in 0 .. u
    BY <1>0, <1>2, <1>3
  <2> QED
    BY <1>0, <2>1, <2>2
<1>7. HeldOK(l, u)
  <2>1. n + 1 <= u
    BY <1>0, <1>2, <1>3
  <2>2. \A i \in 1 .. n : l.held[i] = u - (n + 1) + i
    BY <1>0, <1>1, <1>2, <1>3
  <2>3. l.held[n + 1] = u - (n + 1) + (n + 1)
    BY <1>0, <1>1, <1>2
  <2> QED
    BY <1>0, <1>1, <2>1, <2>2, <2>3 DEF HeldOK
<1>8. AnswersOK(l, u)
  BY <1>0, <1>5, <1>6 DEF AnswersOK
<1> HIDE DEF a
<1>9. WindowOK(e, l, by, as, u, b)
  <2>1. SUFFICES ASSUME NEW h \in Res(l.out), ~l.out[h].held, NEW q, q = l.out[h].request,
                        NEW w, w = Wide(as, q)
                 PROVE  /\ u < q + w => Filling(l, as, u, b, q)
                        /\ u >= q + w /\ q + w > u - Len(l.held) => Executing(e, l, by, as, b, q)
    BY <1>0 DEF WindowOK
  <2>2. q \in 1 .. a /\ a <= t /\ a \in Nat
    <3>1. h \in Res(k.out) /\ q = k.out[h].request
      BY <1>0, <2>1
    <3>2. a <= t /\ a \in Nat
      BY <1>0, <1>2, <1>3 DEF a
    <3> QED
      BY <1>0, <1>5, <3>1, <3>2 DEF AnswersTo
  <2>3. w \in Nat
    <3> DEFINE len == Len(as)
    <3>1. DOMAIN as = 1 .. len /\ len \in Nat
      BY <1>0, LenProperties
    <3> HIDE DEF len
    <3>2. u <= len
      BY <1>0, <3>1
    <3>3. q \in 1 .. len
      BY <1>0, <1>2, <2>2, <3>1, <3>2
    <3> QED
      BY <1>0, <2>1, <3>1, <3>3, RequestKinds
  <2>4. t < q + w => k.hold = q + w - t /\ a = q
    <3>1. h \in Res(k.out) /\ q = k.out[h].request /\ ~k.out[h].held
      BY <1>0, <2>1
    <3>2. t < q + w => k.hold = q + w - t /\ t - Len(k.held) = q
      BY <1>0, <2>1, <3>1 DEF WindowOK, Filling
    <3> QED
      BY <1>0, <3>2 DEF a, n
  <2>5. ~ (t >= q + w /\ q + w > a)
    <3>1. h \in Res(k.out) /\ q = k.out[h].request /\ ~k.out[h].held
      BY <1>0, <2>1
    <3>2. t >= q + w /\ q + w > t - Len(k.held) => Executing(e, k, by, as, FALSE, q)
      BY <1>0, <2>1, <3>1 DEF WindowOK
    <3> QED
      BY <1>0, <3>2 DEF a, n, Executing
  <2>6. ASSUME u < q + w PROVE Filling(l, as, u, b, q)
    <3>1. t < q + w
      BY <1>0, <1>2, <2>2, <2>3, <2>6
    <3>2. k.hold = q + w - t /\ a = q
      BY <1>0, <2>4, <3>1
    <3>3. ~b /\ l.hold = q + w - u
      BY <1>0, <1>2, <1>4, <2>2, <2>3, <2>6, <3>2
    <3> QED
      BY <1>0, <1>6, <2>1, <3>2, <3>3 DEF Filling
  <2>7. ASSUME u >= q + w, q + w > a PROVE Executing(e, l, by, as, b, q)
    <3>1. t < q + w
      BY <1>0, <1>2, <2>2, <2>3, <2>5, <2>7
    <3>2. k.hold = q + w - t /\ a = q
      BY <1>0, <2>4, <3>1
    <3>3. b
      BY <1>0, <1>2, <1>4, <2>2, <2>3, <2>7, <3>1, <3>2
    <3>4. ASSUME NEW i \in Res(l.out) PROVE ~ InWindow(as, q, l.out[i].request)
      <4>1. l.out[i].request \in 1 .. a
        BY <1>0, <1>5 DEF AnswersTo
      <4>2. ~ (q < l.out[i].request)
        BY <1>0, <2>2, <3>2, <4>1
      <4> QED
        BY <1>0, <4>2 DEF InWindow
    <3> QED
      BY <1>0, <3>3, <3>4 DEF Executing
  <2> QED
    BY <1>0, <1>6, <2>1, <2>6, <2>7
<1>10. ~b => l.hold # 0
  BY <1>0, <1>4
<1> QED
  BY <1>0, <1>2, <1>7, <1>8, <1>9, <1>10 DEF CountsDown

(* A held request is executed, b: there are more. *)
TakesHeld(k0, k, r, b) ==
    /\ k0.held # <<>> /\ r = Head(k0.held) /\ k.held = Tail(k0.held) /\ k.out = k0.out
    /\ k.peer = k0.peer /\ k0.peer # "freed" /\ (b <=> Len(k0.held) > 1)

(* It sees what the others of its window see. *)
SeesTheSame(e, l, by, as, t, b) ==
    /\ HeldOK(l, t) /\ AnswersOK(l, t) /\ SeenOK(l.out, as) /\ WindowOK(e, l, by, as, t, b)
    /\ b => l.held # <<>>
    /\ ~b => l.held = <<>>

LEMMA AnswerHeld ==
    ASSUME NEW e, NEW k0 \in Conn, NEW k \in Conn, NEW l \in Conn, NEW by \in Seq(By), NEW by2,
           NEW as \in Seq(Request), NEW t \in Nat, NEW r \in DOMAIN as,
           NEW b \in BOOLEAN, TakesHeld(k0, k, r, b), Answer(e, k, l, by, by2, as, r, TRUE),
           Foreign(by2, e) = Foreign(by, e), t \in 0 .. Len(as),
           HeldOK(k0, t), AnswersOK(k0, t), SeenOK(k0.out, as), WindowOK(e, k0, by, as, t, TRUE)
    PROVE  SeesTheSame(e, l, by2, as, t, b)
<1> DEFINE n == Len(k0.held)
           a == t - n
           W(q) == Wide(as, q)
<1>0. /\ k0.held # <<>> /\ r = Head(k0.held) /\ k.held = Tail(k0.held) /\ k.out = k0.out
      /\ k.peer = k0.peer /\ k0.peer # "freed" /\ (b <=> Len(k0.held) > 1)
  BY DEF TakesHeld
<1>1. /\ n \in Nat \ {0} /\ Len(l.held) = n - 1 /\ DOMAIN k0.held = 1 .. n /\ DOMAIN l.held = 1 .. n - 1
      /\ \A i \in 1 .. n - 1 : l.held[i] = k0.held[i + 1]
      /\ r = k0.held[1] /\ l.peer = k.peer
  <2>1. k0.held \in Seq(Nat)
    BY <1>0 DEF Conn
  <2>2. l.held = Tail(k0.held) /\ l.peer = k.peer
    BY <1>0 DEF Answer
  <2>3. Tail(k0.held) \in Seq(Nat) /\ Len(Tail(k0.held)) = n - 1 /\ \A i \in 1 .. n - 1 : Tail(k0.held)[i] = k0.held[i + 1]
    BY <1>0, <2>1, HeadTailProperties
  <2>4. n \in Nat /\ DOMAIN k0.held = 1 .. n /\ n # 0
    BY <1>0, <2>1, LenProperties, EmptySeq
  <2>5. DOMAIN Tail(k0.held) = 1 .. n - 1
    BY <1>0, <2>3, LenProperties
  <2>6. r = k0.held[1]
    BY <1>0, <2>1
  <2> QED
    BY <1>0, <2>2, <2>3, <2>4, <2>5, <2>6
<1>2. n <= t /\ \A i \in 1 .. n : k0.held[i] = t - n + i
  BY <1>0, <1>1 DEF HeldOK
<1> HIDE DEF n
<1>3. r = a + 1 /\ a \in Nat /\ r \in Nat /\ r <= t /\ t - (n - 1) = r
  BY <1>0, <1>1, <1>2
<1>4. AnswersTo(k.out, a)
  BY <1>0 DEF AnswersOK, n
<1> HIDE DEF a
<1>5. AnswersTo(l.out, r)
  <2>1. r - 1 = a
    BY <1>0, <1>3
  <2> QED
    BY <1>0, <1>4, <2>1, AnsweredNext
<1>6. PICK z : AnsweredBy(k, l, r, Foreign(by, e), TRUE, z)
  BY <1>0, AnswerAdds
<1>7. /\ Res(l.out) = Res(k.out) \cup {z} /\ l.out[z].request = r /\ l.out[z].seen = Foreign(by, e)
      /\ l.out[z].held
      /\ \A i \in Res(k.out) : l.out[i] = k.out[i] /\ k.out[i].request \in 1 .. a
  BY <1>0, <1>4, <1>6 DEF AnsweredBy, AnswersTo
<1>8. ASSUME NEW h \in Res(k.out), ~k.out[h].held, NEW q, q = k.out[h].request, NEW w, w = Wide(as, q)
      PROVE  /\ q \in Nat /\ w \in Nat /\ ~ (t < q + w)
             /\ q + w > a => \A i \in Res(k.out) : InWindow(as, q, k.out[i].request) => k.out[i].seen = Foreign(by, e)
  <2>1. q \in 1 .. a
    BY <1>0, <1>7, <1>8
  <2>2. w \in Nat
    <3> DEFINE len == Len(as)
    <3>1. DOMAIN as = 1 .. len /\ len \in Nat /\ t \in 0 .. len
      BY <1>0, LenProperties
    <3> HIDE DEF len
    <3>2. q \in 1 .. len
      BY <1>0, <1>3, <2>1, <3>1
    <3> QED
      BY <1>0, <1>8, <3>1, <3>2, RequestKinds
  <2>3. ~ (t < q + w)
    BY <1>0, <1>8 DEF WindowOK, Filling
  <2>4. t >= q + w /\ q + w > a => Executing(e, k, by, as, TRUE, q)
    <3>1. t >= q + w /\ q + w > t - Len(k0.held) => Executing(e, k0, by, as, TRUE, q)
      BY <1>0, <1>8 DEF WindowOK
    <3> QED
      BY <1>0, <3>1 DEF Executing, a, n
  <2>5. q + w > a => Executing(e, k, by, as, TRUE, q)
    <3>1. t >= q + w
      BY <1>0, <1>3, <2>1, <2>2, <2>3
    <3> QED
      BY <1>0, <2>4, <3>1
  <2>6. q \in Nat
    BY <1>0, <2>1
  <2> QED
    BY <1>0, <2>2, <2>3, <2>5, <2>6 DEF Executing
<1>9. HeldOK(l, t)
  <2>1. n <= t /\ \A i \in 1 .. n : k0.held[i] = t - n + i
    BY <1>1, <1>2
  <2>2. n - 1 <= t
    BY <1>1, <2>1
  <2>3. ASSUME NEW i \in 1 .. n - 1
        PROVE  l.held[i] = t - (n - 1) + i
    <3>1. i + 1 \in 1 .. n /\ l.held[i] = k0.held[i + 1]
      BY <1>1
    <3>2. k0.held[i + 1] = t - n + (i + 1)
      BY <2>1, <3>1
    <3> QED
      BY <1>1, <3>1, <3>2
  <2> QED
    BY <1>0, <1>1, <2>2, <2>3 DEF HeldOK
<1>10. AnswersOK(l, t)
  <2>1. r \in 0 .. t /\ r = t - Len(l.held)
    BY <1>0, <1>1, <1>3
  <2> QED
    BY <1>0, <1>5, <2>1 DEF AnswersOK
<1>11. SeenOK(l.out, as)
  <2>1. SUFFICES ASSUME NEW h \in Res(l.out), NEW i \in Res(l.out), NEW j \in Res(l.out), ~l.out[h].held,
                        InWindow(as, l.out[h].request, l.out[i].request),
                        InWindow(as, l.out[h].request, l.out[j].request)
                 PROVE  l.out[i].seen = l.out[j].seen
    BY <1>0 DEF SeenOK
  <2> DEFINE q == l.out[h].request
  <2>2. h \in Res(k.out) /\ q = k.out[h].request /\ ~k.out[h].held
    BY <1>0, <1>7, <2>1
  <2>3. CASE InWindow(as, q, r)
    <3> DEFINE w == Wide(as, q)
    <3>1. r <= q + w
      BY <1>0, <2>3 DEF InWindow
    <3>2. q \in Nat /\ w \in Nat
      BY <1>0, <1>8, <2>2
    <3>3. q + w > a => \A x \in Res(k.out) : InWindow(as, q, k.out[x].request) => k.out[x].seen = Foreign(by, e)
      BY <1>0, <1>8, <2>2
    <3> HIDE DEF w
    <3>4. ASSUME NEW x \in Res(l.out), InWindow(as, q, l.out[x].request) PROVE l.out[x].seen = Foreign(by, e)
      <4> HIDE DEF q
      <4>1. q + w > a
        BY <1>0, <1>3, <3>1, <3>2
      <4> QED
        BY <1>0, <1>7, <3>3, <3>4, <4>1
    <3> QED
      BY <1>0, <2>1, <3>4
  <2>4. CASE ~ InWindow(as, q, r)
    <3>1. i \in Res(k.out) /\ j \in Res(k.out)
      BY <1>0, <1>7, <2>1, <2>4
    <3>2. l.out[i] = k.out[i] /\ l.out[j] = k.out[j]
      BY <1>0, <1>7, <3>1
    <3>3. InWindow(as, k.out[h].request, k.out[i].request) /\ InWindow(as, k.out[h].request, k.out[j].request)
      BY <1>0, <2>1, <2>2, <3>2
    <3>4. SeenOK(k.out, as)
      BY <1>0
    <3>5. k.out[i].seen = k.out[j].seen
      BY <1>0, <2>2, <3>1, <3>3, <3>4 DEF SeenOK
    <3> QED
      BY <1>0, <3>2, <3>5
  <2> QED
    BY <1>0, <2>3, <2>4
<1>12. WindowOK(e, l, by2, as, t, b)
  <2>1. SUFFICES ASSUME NEW h \in Res(l.out), ~l.out[h].held, NEW q, q = l.out[h].request,
                        NEW w, w = Wide(as, q)
                 PROVE  /\ ~ (t < q + w)
                        /\ q + w > t - Len(l.held) => Executing(e, l, by2, as, b, q)
    BY <1>0 DEF WindowOK
  <2>2. h \in Res(k.out) /\ q = k.out[h].request /\ ~k.out[h].held
    BY <1>0, <1>7, <2>1
  <2>3. /\ q \in Nat /\ w \in Nat /\ ~ (t < q + w)
        /\ q + w > a => \A x \in Res(k.out) : InWindow(as, q, k.out[x].request) => k.out[x].seen = Foreign(by, e)
    BY <1>0, <1>8, <2>1, <2>2
  <2>4. ASSUME q + w > t - Len(l.held) PROVE Executing(e, l, by2, as, b, q)
    <3>1. q \in Nat /\ w \in Nat /\ ~ (t < q + w) /\ q + w > t - (n - 1)
      BY <1>0, <1>1, <2>3, <2>4
    <3>2. q + w > a /\ n > 1
      BY <1>0, <1>1, <1>3, <3>1
    <3>3. b
      BY <1>0, <3>2 DEF n
    <3>4. ASSUME NEW x \in Res(l.out), InWindow(as, q, l.out[x].request) PROVE l.out[x].seen = Foreign(by2, e)
      BY <1>0, <1>7, <2>3, <3>2, <3>4
    <3> QED
      BY <1>0, <3>3, <3>4 DEF Executing
  <2> QED
    BY <1>0, <2>3, <2>4
<1>13. b <=> n > 1
  BY <1>0 DEF n
<1>14. b => l.held # <<>>
  <2>1. b => Len(l.held) # 0
    BY <1>0, <1>1, <1>13
  <2> QED
    BY <1>0, <2>1
<1>15. ~b => l.held = <<>>
  <2>1. ~b => Len(l.held) = 0
    BY <1>0, <1>1, <1>13
  <2>2. l.held \in Seq(Nat)
    BY <1>0 DEF Conn
  <2> QED
    BY <1>0, <2>1, <2>2, EmptySeq
<1> QED
  BY <1>0, <1>9, <1>10, <1>11, <1>12, <1>14, <1>15 DEF SeesTheSame

-----------------------------------------------------------------------------
(* A client as a whole.                                                      *)

Consistent(e, k, by, as, t, b) ==
    /\ HeldOK(k, t) /\ AnswersOK(k, t) /\ SeenOK(k.out, as) /\ WindowOK(e, k, by, as, t, b)
    /\ EventsOK(k, by) /\ OwnOK(e, k, by) /\ SubscribedOK(k, as)

ClientOK(e, k, by, as, t, b) == Consistent(e, k, by, as, t, b) /\ QuietOK(k, b)

(* What was queued stays. *)
Grows(out, t) == Len(out) <= Len(t) /\ \A i \in 1 .. Len(out) : t[i] = out[i]

LEMMA GrowsByOne ==
    ASSUME NEW out \in Seq(Queued), NEW m \in Queued, NEW t, t = Append(out, m)
    PROVE  Grows(out, t)
<1>1. /\ Len(out) \in Nat /\ Len(t) = Len(out) + 1 /\ DOMAIN out = 1 .. Len(out)
      /\ \A i \in DOMAIN out : t[i] = out[i]
  BY Appended
<1>2. Len(out) <= Len(t)
  BY <1>1
<1> QED
  BY <1>1, <1>2 DEF Grows

LEMMA GrowsByMany ==
    ASSUME NEW out \in Seq(Queued), NEW evs \in Seq(Event), NEW t, t = out \o evs
    PROVE  Grows(out, t)
<1>1. evs \in Seq(Queued)
  BY SeqMonotonic DEF Queued
<1>2. /\ Len(t) = Len(out) + Len(evs) /\ Len(out) \in Nat /\ Len(evs) \in Nat
      /\ \A i \in 1 .. Len(out) + Len(evs) : t[i] = IF i <= Len(out) THEN out[i] ELSE evs[i - Len(out)]
  BY <1>1, ConcatProperties, LenProperties
<1> QED
  BY <1>2 DEF Grows

LEMMA GrowsTwice ==
    ASSUME NEW o1, NEW o2, NEW o3, Grows(o1, o2), Grows(o2, o3),
           o1 \in Seq(Queued), o2 \in Seq(Queued), o3 \in Seq(Queued)
    PROVE  Grows(o1, o3)
<1>1. Len(o1) \in Nat /\ Len(o2) \in Nat /\ Len(o3) \in Nat
  BY LenProperties
<1>2. Len(o1) <= Len(o3) /\ \A i \in 1 .. Len(o1) : i \in 1 .. Len(o2)
  BY <1>1 DEF Grows
<1> QED
  BY <1>2 DEF Grows

(* The client leaves, asks more, or what it was sent is written. *)
LEMMA ClientFrame ==
    ASSUME NEW e, NEW k \in Conn, NEW l \in Conn, NEW by, NEW as, NEW as2, NEW t \in Nat, NEW b \in BOOLEAN,
           l.out = k.out, l.pending = k.pending, l.held = k.held, l.hold = k.hold,
           l.subscribed = k.subscribed, l.since = k.since, l.peer = "freed" <=> k.peer = "freed",
           SameRequests(as, as2, t), ClientOK(e, k, by, as, t, b)
    PROVE  ClientOK(e, l, by, as2, t, b)
<1>1. Announces(k.out, l.out)
  BY DEF Announces
<1>2. /\ HeldOK(k, t) /\ AnswersOK(k, t) /\ SeenOK(k.out, as) /\ WindowOK(e, k, by, as, t, b)
      /\ EventsOK(k, by) /\ OwnOK(e, k, by) /\ SubscribedOK(k, as) /\ QuietOK(k, b)
  BY DEF ClientOK, Consistent
<1>3. HeldOK(l, t) /\ QuietOK(l, b)
  BY <1>2 DEF HeldOK, QuietOK
<1>4. AnswersOK(l, t)
  BY <1>2 DEF AnswersOK
<1>5. SeenOK(l.out, as2)
  BY <1>1, <1>2, SeenKept
<1>6. WindowOK(e, l, by, as2, t, b)
  BY <1>1, <1>2, WindowKept
<1>7. EventsOK(l, by) /\ OwnOK(e, l, by)
  BY <1>2, EventsFrame
<1>8. SubscribedOK(l, as2)
  BY <1>1, <1>2, SubscribedKept DEF Follows
<1> QED
  BY <1>3, <1>4, <1>5, <1>6, <1>7, <1>8 DEF ClientOK, Consistent

(* It is freed. *)
LEMMA ClientFreed ==
    ASSUME NEW e, NEW k \in Conn, NEW l \in Conn, NEW by, NEW as, NEW t \in Nat,
           l.out = k.out, l.pending = <<>>, l.held = <<>>,
           l.subscribed = k.subscribed, l.since = k.since, l.peer = "freed",
           ClientOK(e, k, by, as, t, FALSE)
    PROVE  ClientOK(e, l, by, as, t, FALSE)
<1>1. Announces(k.out, l.out) /\ SameRequests(as, as, t)
  BY DEF Announces, SameRequests
<1>2. /\ HeldOK(k, t) /\ AnswersOK(k, t) /\ SeenOK(k.out, as) /\ WindowOK(e, k, by, as, t, FALSE)
      /\ EventsOK(k, by) /\ OwnOK(e, k, by) /\ SubscribedOK(k, as) /\ QuietOK(k, FALSE)
  BY DEF ClientOK, Consistent
<1>3. HeldOK(l, t) /\ QuietOK(l, FALSE)
  <2>1. Len(l.held) = 0 /\ DOMAIN l.held = {} /\ 0 <= t
    OBVIOUS
  <2> QED
    BY <2>1 DEF HeldOK, QuietOK
<1>4. AnswersOK(l, t)
  <2>1. l.peer # "freed" => k.peer # "freed" /\ l.held = k.held
    OBVIOUS
  <2> QED
    BY <1>1, <1>2, <2>1, AnswersKept
<1>5. SeenOK(l.out, as)
  BY <1>1, <1>2, SeenKept
<1>6. WindowOK(e, l, by, as, t, FALSE)
  BY DEF WindowOK
<1>7. EventsOK(l, by) /\ OwnOK(e, l, by)
  BY <1>2, EventsFrame
<1>8. SubscribedOK(l, as)
  <2>1. Follows(l) => Follows(k)
    BY DEF Follows
  <2> QED
    BY <1>1, <1>2, <2>1, SubscribedKept
<1> QED
  BY <1>3, <1>4, <1>5, <1>6, <1>7, <1>8 DEF ClientOK, Consistent

(* Somebody else's step. *)
Overheard(e, k, l, by, as, t) ==
    ClientOK(e, l, by, as, t, FALSE) /\ Grows(k.out, l.out) /\ l.sent = k.sent /\ l.peer = k.peer

LEMMA ClientOverhears ==
    ASSUME NEW c \in Clients \cup {NoClient}, NEW e, e # c, NEW k \in Conn, NEW l \in Conn,
           NEW by \in Seq(By), NEW by2, NEW as, NEW t \in Nat,
           Overhears(c, k, l, by, by2), ClientOK(e, k, by, as, t, FALSE)
    PROVE  Overheard(e, k, l, by2, as, t)
<1>1. CASE by2 = by /\ l = k
  <2>1. Grows(k.out, k.out)
    <3>1. Len(k.out) \in Nat
      BY LenProperties DEF Conn
    <3> QED
      BY <3>1 DEF Grows
  <2> QED
    BY <1>1, <2>1 DEF Overheard
<1>2. ASSUME NEW r \in Nat, by2 = Append(by, [client |-> c, request |-> r]), Told(k, l, Len(by) + 1)
      PROVE  Overheard(e, k, l, by2, as, t)
  <2> DEFINE b == [client |-> c, request |-> r]
  <2>1. b \in By /\ b.client # e
    BY DEF By
  <2>2. by2 = Append(by, b)
    BY <1>2
  <2> HIDE DEF b
  <2>3. /\ HeldOK(k, t) /\ AnswersOK(k, t) /\ SeenOK(k.out, as) /\ WindowOK(e, k, by, as, t, FALSE)
        /\ EventsOK(k, by) /\ OwnOK(e, k, by) /\ SubscribedOK(k, as) /\ QuietOK(k, FALSE)
    BY DEF ClientOK, Consistent
  <2>4. k.pending = <<>>
    BY <2>3 DEF QuietOK
  <2>49. EventsOK(l, by2) /\ OwnOK(e, l, by2) /\ Hears(k, l)
    <3>1. EventsOK(k, by) /\ OwnOK(e, k, by)
      BY <2>3
    <3> DEFINE n == Len(by) + 1
    <3>2. Told(k, l, n) /\ Adds(by, b, by2, n)
      BY <1>2, <2>2 DEF Adds
    <3> HIDE DEF n
    <3> QED
      BY <2>1, <2>2, <2>4, <3>1, <3>2, ForeignChange
  <2>5. /\ EventsOK(l, by2) /\ OwnOK(e, l, by2) /\ Announces(k.out, l.out)
        /\ l.pending = <<>> /\ l.peer = k.peer /\ l.held = k.held /\ l.hold = k.hold
        /\ l.subscribed = k.subscribed
        /\ Evs(l.out) # Evs(k.out) => k.subscribed
    BY <2>49 DEF Hears
  <2>50. l.peer # "freed" => k.peer # "freed" /\ l.held = k.held /\ l.hold = k.hold
    BY <2>5
  <2>6. SameRequests(as, as, t)
    BY DEF SameRequests
  <2>7. HeldOK(l, t) /\ QuietOK(l, FALSE)
    BY <2>3, <2>5 DEF HeldOK, QuietOK
  <2>8. AnswersOK(l, t)
    BY <2>3, <2>5, <2>50, AnswersKept
  <2>9. SeenOK(l.out, as)
    BY <2>3, <2>5, <2>6, SeenKept
  <2>10. WindowOK(e, l, by2, as, t, FALSE)
    BY <2>3, <2>5, <2>6, WindowKept
  <2>11. SubscribedOK(l, as)
    <3>1. (Follows(l) => Follows(k)) /\ (Evs(l.out) # Evs(k.out) => Follows(k))
      BY <2>5 DEF Follows
    <3> QED
      BY <2>3, <2>5, <2>6, <3>1, SubscribedKept
  <2>12. Grows(k.out, l.out) /\ l.sent = k.sent
    <3>1. CASE l = k
      BY <3>1 DEF Grows
    <3>2. CASE l = [k EXCEPT !.out = Append(@, [kind |-> "event", change |-> Len(by) + 1]), !.pollout = l.pollout]
      <4> DEFINE m == [kind |-> "event", change |-> Len(by) + 1]
      <4>1. m \in Queued
        BY LenProperties DEF Event, Queued
      <4>2. l.out = Append(k.out, m) /\ l.sent = k.sent /\ k.out \in Seq(Queued)
        BY <3>2 DEF Conn
      <4> HIDE DEF m
      <4> QED
        BY <4>1, <4>2, GrowsByOne
    <3> QED
      BY <1>2, <3>1, <3>2 DEF Told
  <2> QED
    BY <2>5, <2>7, <2>8, <2>9, <2>10, <2>11, <2>12, <2>3 DEF ClientOK, Consistent, Overheard
<1> QED
  BY <1>1, <1>2 DEF Overhears

(* ipc_client_flush_events *)
Sends(k, l) ==
    /\ l.out = k.out \o k.pending /\ l.pending = <<>>
    /\ l.peer = k.peer /\ l.held = k.held /\ l.hold = k.hold /\ l.sent = k.sent
    /\ l.subscribed = k.subscribed /\ l.since = k.since

LEMMA SendsGrow ==
    ASSUME NEW k \in Conn, NEW l \in Conn, Sends(k, l)
    PROVE  Grows(k.out, l.out)
<1>1. k.out \in Seq(Queued) /\ k.pending \in Seq(Event) /\ l.out = k.out \o k.pending
  BY DEF Conn, Sends
<1> QED
  BY <1>1, GrowsByMany

LEMMA ClientFlushed ==
    ASSUME NEW e, NEW k \in Conn, NEW l \in Conn, NEW by, NEW as, NEW t \in Nat, NEW b \in BOOLEAN,
           Sends(k, l), Consistent(e, k, by, as, t, b)
    PROVE  Consistent(e, l, by, as, t, b)
<1>1. /\ HeldOK(k, t) /\ AnswersOK(k, t) /\ SeenOK(k.out, as) /\ WindowOK(e, k, by, as, t, b)
      /\ EventsOK(k, by) /\ OwnOK(e, k, by) /\ SubscribedOK(k, as)
  BY DEF Consistent
<1>2. /\ EventsOK(l, by) /\ OwnOK(e, l, by) /\ Announces(k.out, l.out)
      /\ Evs(l.out) # Evs(k.out) => Follows(k)
  BY <1>1, FlushEvs DEF Sends
<1>3. SameRequests(as, as, t)
  BY DEF SameRequests
<1>30. /\ l.peer # "freed" => k.peer # "freed" /\ l.held = k.held /\ l.hold = k.hold
       /\ l.held = k.held /\ (Follows(l) => Follows(k))
  BY DEF Sends, Follows
<1>4. HeldOK(l, t)
  BY <1>1, <1>30 DEF HeldOK
<1>5. AnswersOK(l, t)
  BY <1>1, <1>2, <1>30, AnswersKept
<1>6. SeenOK(l.out, as)
  BY <1>1, <1>2, <1>3, SeenKept
<1>7. WindowOK(e, l, by, as, t, b)
  <2>1. ASSUME NEW as2, SameRequests(as, as2, t) PROVE WindowOK(e, l, by, as2, t, b)
    BY <1>1, <1>2, <1>30, <2>1, WindowKept
  <2> QED
    BY <1>3, <2>1
<1>8. SubscribedOK(l, as)
  BY <1>1, <1>2, <1>3, <1>30, SubscribedKept
<1> QED
  BY <1>2, <1>4, <1>5, <1>6, <1>7, <1>8 DEF Consistent

-----------------------------------------------------------------------------
(* A step of the daemon for client c, on the data.                           *)

Stepped(c, d, x, as, t, b) ==
    /\ x \in Data /\ ClientOK(c, x.conn[c], x.changes, as, t, b)
    /\ Grows(d.conn[c].out, x.conn[c].out)
    /\ x.conn[c].sent = d.conn[c].sent /\ x.conn[c].peer = d.conn[c].peer
    /\ \A e \in Clients \ {c} : Overhears(c, d.conn[e], x.conn[e], d.changes, x.changes)

(* ipc_client_flush_events *)
Flushed(d, x, c) ==
    /\ x \in Data /\ x.changes = d.changes
    /\ \A e \in Clients \ {c} : x.conn[e] = d.conn[e]
    /\ Sends(d.conn[c], x.conn[c])

LEMMA Flushes ==
    ASSUME NEW d \in Data, NEW c \in Clients, NEW x, x = FlushEvents(d, c)
    PROVE  Flushed(d, x, c)
<1>1. Only(d, x, c, [d.conn[c] EXCEPT !.out = @ \o d.conn[c].pending, !.pending = <<>>])
  BY FlushEffect
<1>2. d.conn[c] \in Conn
  BY DEF Data
<1> QED
  BY <1>1, <1>2 DEF Only, Conn, Flushed, Sends

(* The last step of every other one. *)
LEMMA FlushStep ==
    ASSUME NEW c \in Clients, NEW d \in Data, NEW y \in Data, NEW x, Flushed(y, x, c),
           NEW as, NEW t \in Nat, NEW b \in BOOLEAN, Consistent(c, y.conn[c], y.changes, as, t, b),
           QuietOK(x.conn[c], b), Grows(d.conn[c].out, y.conn[c].out),
           y.conn[c].sent = d.conn[c].sent, y.conn[c].peer = d.conn[c].peer,
           \A e \in Clients \ {c} : Overhears(c, d.conn[e], y.conn[e], d.changes, y.changes)
    PROVE  Stepped(c, d, x, as, t, b)
<1> DEFINE k == y.conn[c]
           l == x.conn[c]
<1>1. x \in Data /\ k \in Conn /\ l \in Conn /\ d.conn[c].out \in Seq(Queued)
  <2>1. x \in Data
    BY DEF Flushed
  <2> QED
    BY <2>1 DEF Data, Conn
<1>2. Sends(k, l) /\ x.changes = y.changes /\ \A e \in Clients \ {c} : x.conn[e] = y.conn[e]
  BY DEF Flushed
<1>20. l.peer = k.peer /\ l.sent = k.sent
  BY <1>2 DEF Sends
<1> DEFINE by == y.changes
<1>3. Consistent(c, k, by, as, t, b)
  OBVIOUS
<1> HIDE DEF k, l, by
<1>4. Consistent(c, l, by, as, t, b) /\ Grows(k.out, l.out)
  BY <1>1, <1>2, <1>3, ClientFlushed, SendsGrow
<1>5. Grows(d.conn[c].out, l.out)
  <2>1. k.out \in Seq(Queued) /\ l.out \in Seq(Queued)
    BY <1>1 DEF Conn
  <2>2. Grows(d.conn[c].out, k.out)
    BY DEF k
  <2> QED
    BY <1>1, <1>4, <2>1, <2>2, GrowsTwice
<1> QED
  BY <1>1, <1>2, <1>20, <1>4, <1>5 DEF Stepped, ClientOK, k, l, by

(* A request that is executed when it is read. *)
LEMMA ExecutesNow ==
    ASSUME NEW d \in Data, NEW c \in Clients, asked[c] \in Seq(Request), NEW t \in Nat,
           NEW r \in DOMAIN asked[c], r = t + 1, serving.batch = FALSE,
           d.conn[c].peer # "freed", d.conn[c].hold = 0,
           ClientOK(c, d.conn[c], d.changes, asked[c], t, FALSE),
           NEW x, x = FlushEvents(Execute(d, c, r), c)
    PROVE  Stepped(c, d, x, asked[c], r, FALSE)
<1> DEFINE y == Execute(d, c, r)
           k == d.conn[c]
           l == y.conn[c]
           as == asked[c]
           by == d.changes
           by2 == y.changes
<1>1. /\ y \in Data /\ Answer(c, k, l, by, by2, as, r, FALSE)
      /\ \A e \in Clients \ {c} : Overhears(c, d.conn[e], y.conn[e], by, by2)
  <2>1. serving.batch \in BOOLEAN
    OBVIOUS
  <2> QED
    BY <2>1, ExecuteEffect
<1>2. x = FlushEvents(y, c) /\ r \in Nat
  <2>1. r \in Nat
    BY RequestKinds
  <2> QED
    BY <2>1
<1> HIDE DEF y
<1>3. Flushed(y, x, c)
  BY <1>1, <1>2, Flushes
<1>4. k \in Conn /\ l \in Conn /\ by \in Seq(By) /\ x.conn[c] \in Conn
  BY <1>1, <1>3 DEF Data, Flushed
<1>5. /\ HeldOK(k, t) /\ AnswersOK(k, t) /\ SeenOK(k.out, as) /\ WindowOK(c, k, by, as, t, FALSE)
      /\ EventsOK(k, by) /\ OwnOK(c, k, by) /\ SubscribedOK(k, as) /\ QuietOK(k, FALSE)
      /\ k.peer # "freed" /\ k.hold = 0 /\ as \in Seq(Request) /\ r \in DOMAIN as
  BY DEF ClientOK, Consistent
<1>6. k.held = <<>> /\ k.pending = <<>>
  BY <1>5 DEF QuietOK
<1> HIDE DEF k, l, as, by, by2
<1>7. HeldOK(l, r) /\ AnswersOK(l, r) /\ SeenOK(l.out, as) /\ WindowOK(c, l, by2, as, r, FALSE)
  <2>1. /\ k \in Conn /\ l \in Conn /\ by \in Seq(By) /\ as \in Seq(Request) /\ r \in DOMAIN as
        /\ Answer(c, k, l, by, by2, as, r, FALSE) /\ k.peer # "freed" /\ k.hold = 0 /\ k.held = <<>>
    BY <1>1, <1>4, <1>5, <1>6
  <2>2. AnswersOK(k, t) /\ SeenOK(k.out, as) /\ WindowOK(c, k, by, as, t, FALSE)
    BY <1>5
  <2> QED
    BY <2>1, <2>2, AnswerNow
<1>8. EventsOK(l, by2) /\ OwnOK(c, l, by2) /\ SubscribedOK(l, as)
  BY <1>1, <1>4, <1>5, AnswerEvents
<1>9. l.held = <<>> /\ l.sent = k.sent /\ l.peer = k.peer
  BY <1>1, <1>6 DEF Answer
<1>10. Grows(k.out, l.out)
  <2> DEFINE m == [kind |-> "response", request |-> r, seen |-> Foreign(by, c), held |-> FALSE]
  <2>1. m \in Queued
    BY <1>4, <1>5, RequestKinds, ForeignType DEF Response, Queued
  <2>2. l.out = Append(k.out, m) /\ k.out \in Seq(Queued)
    BY <1>1, <1>4 DEF Answer, Conn
  <2> HIDE DEF m
  <2> QED
    BY <2>1, <2>2, GrowsByOne
<1>11. QuietOK(x.conn[c], FALSE)
  BY <1>3, <1>9 DEF QuietOK, Flushed, Sends, l
<1>12. Consistent(c, l, by2, as, r, FALSE)
  BY <1>7, <1>8 DEF Consistent
<1>13. Stepped(c, d, x, as, r, FALSE)
  BY <1>1, <1>2, <1>3, <1>9, <1>10, <1>11, <1>12, FlushStep DEF k, l, by, by2
<1> QED
  BY <1>13 DEF as

(* A request that is held when it is read; b: it is the last to hold. *)
LEMMA Holds ==
    ASSUME NEW d \in Data, NEW c \in Clients, asked[c] \in Seq(Request), NEW t \in Nat,
           NEW r \in DOMAIN asked[c], r = t + 1, d.conn[c].peer # "freed", d.conn[c].hold # 0,
           ClientOK(c, d.conn[c], d.changes, asked[c], t, FALSE),
           NEW b \in BOOLEAN, b <=> d.conn[c].hold = 1, NEW y, y = Hold(d, c, r),
           NEW x, x = IF y.conn[c].hold = 0 THEN y ELSE FlushEvents(y, c)
    PROVE  Stepped(c, d, x, asked[c], r, b)
<1> DEFINE k == d.conn[c]
           l == y.conn[c]
           as == asked[c]
           by == d.changes
<1>1. k \in Conn /\ r \in Nat /\ k.hold \in Nat /\ k.hold # 0
  <2>1. r \in Nat
    BY RequestKinds
  <2> QED
    BY <2>1 DEF Data, Conn
<1>2. Only(d, y, c, [k EXCEPT !.held = Append(@, r), !.hold = @ - 1])
  BY <1>1, HoldEffect
<1>3. /\ y \in Data /\ y.changes = by /\ \A e \in Clients \ {c} : y.conn[e] = d.conn[e]
      /\ l.held = Append(k.held, r) /\ l.hold = k.hold - 1 /\ l.out = k.out /\ l.peer = k.peer
      /\ l.pending = k.pending /\ l.subscribed = k.subscribed /\ l.since = k.since /\ l.sent = k.sent
  BY <1>1, <1>2 DEF Only, Conn
<1>4. l \in Conn
  BY <1>3 DEF Data
<1>5. /\ HeldOK(k, t) /\ AnswersOK(k, t) /\ SeenOK(k.out, as) /\ WindowOK(c, k, by, as, t, FALSE)
      /\ EventsOK(k, by) /\ OwnOK(c, k, by) /\ SubscribedOK(k, as) /\ QuietOK(k, FALSE)
      /\ k.peer # "freed" /\ as \in Seq(Request) /\ r \in DOMAIN as
  BY DEF ClientOK, Consistent
<1>6. k.pending = <<>> /\ l.pending = <<>>
  BY <1>3, <1>5 DEF QuietOK
<1>7. b <=> k.hold = 1
  OBVIOUS
<1> HIDE DEF k, l, as, by
<1>8. /\ HeldOK(l, r) /\ AnswersOK(l, r) /\ WindowOK(c, l, by, as, r, b)
      /\ l.held # <<>> /\ (~b => l.hold # 0)
  <2>1. HoldsOne(k, l, t, r, b)
    BY <1>3, <1>1, <1>5, <1>7 DEF HoldsOne
  <2>2. CountsDown(c, l, by, as, r, b)
    BY <1>1, <1>4, <1>5, <2>1, HoldsMore
  <2> QED
    BY <2>2 DEF CountsDown
<1>9. Announces(k.out, l.out) /\ SameRequests(as, as, t)
  BY <1>3 DEF Announces, SameRequests
<1>10. SeenOK(l.out, as)
  BY <1>3, <1>5
<1>11. EventsOK(l, by) /\ OwnOK(c, l, by)
  <2>1. /\ l.out = k.out /\ l.subscribed = k.subscribed /\ l.since = k.since
        /\ l.pending = k.pending /\ (l.peer # "freed" => k.peer # "freed")
    BY <1>3
  <2>2. k \in Conn /\ EventsOK(k, by) /\ OwnOK(c, k, by)
    BY <1>1, <1>5
  <2> QED
    BY <1>4, <2>1, <2>2, EventsFrame
<1>12. SubscribedOK(l, as)
  <2>1. l.out = k.out /\ Follows(l) = Follows(k)
    BY <1>3 DEF Follows
  <2>2. SubscribedOK(k, as)
    BY <1>5
  <2> QED
    BY <2>1, <2>2 DEF SubscribedOK
<1>13. Consistent(c, l, by, as, r, b)
  BY <1>8, <1>10, <1>11, <1>12 DEF Consistent
<1>14. Grows(k.out, l.out)
  <2>1. Len(k.out) \in Nat
    BY <1>1, LenProperties DEF Conn
  <2> QED
    BY <1>3, <2>1 DEF Grows
<1>15. \A e \in Clients \ {c} : Overhears(c, d.conn[e], y.conn[e], by, y.changes)
  BY <1>3 DEF Overhears
<1>16. CASE b
  <2>1. l.hold = 0
    BY <1>1, <1>3, <1>7, <1>16
  <2>2. x = y
    BY <2>1 DEF l
  <2>3. QuietOK(l, b)
    BY <1>3, <1>5, <1>8, <1>16 DEF QuietOK
  <2>4. Stepped(c, d, x, as, r, b)
    BY <1>3, <1>13, <1>14, <1>15, <2>2, <2>3 DEF Stepped, ClientOK, k, l, by
  <2> QED
    BY <2>4 DEF as
<1>17. CASE ~b
  <2>1. l.hold # 0
    BY <1>8, <1>17
  <2>2. x = FlushEvents(y, c)
    BY <2>1 DEF l
  <2>3. Flushed(y, x, c)
    BY <1>3, <2>2, Flushes
  <2>4. QuietOK(x.conn[c], b)
    BY <1>17, <2>1, <2>3 DEF QuietOK, Flushed, Sends, l
  <2>5. Consistent(c, y.conn[c], y.changes, as, r, b) /\ Grows(d.conn[c].out, y.conn[c].out)
    BY <1>3, <1>13, <1>14 DEF k, l, by
  <2>6. /\ y.conn[c].sent = d.conn[c].sent /\ y.conn[c].peer = d.conn[c].peer
        /\ \A e \in Clients \ {c} : Overhears(c, d.conn[e], y.conn[e], d.changes, y.changes)
    BY <1>3, <1>15 DEF k, l, by
  <2>7. Stepped(c, d, x, as, r, b)
    BY <1>1, <1>3, <2>3, <2>4, <2>5, <2>6, FlushStep
  <2> QED
    BY <2>7 DEF as
<1> QED
  BY <1>16, <1>17

(* A held request; b: there are more. *)
LEMMA ExecutesHeld ==
    ASSUME NEW d \in Data, NEW c \in Clients, asked[c] \in Seq(Request), NEW t \in 0 .. Len(asked[c]),
           serving.batch = TRUE, ClientOK(c, d.conn[c], d.changes, asked[c], t, TRUE),
           NEW b \in BOOLEAN, b <=> Len(d.conn[c].held) > 1,
           NEW y, y = Execute(TakeHeld(d, c), c, Head(d.conn[c].held)),
           NEW x, x = IF b THEN y ELSE FlushEvents(y, c)
    PROVE  Stepped(c, d, x, asked[c], t, b)
<1> DEFINE z == TakeHeld(d, c)
           k0 == d.conn[c]
           k == z.conn[c]
           l == y.conn[c]
           as == asked[c]
           by == d.changes
           by2 == y.changes
           r == Head(k0.held)
<1>1. /\ k0 \in Conn /\ by \in Seq(By)
      /\ HeldOK(k0, t) /\ AnswersOK(k0, t) /\ SeenOK(k0.out, as) /\ WindowOK(c, k0, by, as, t, TRUE)
      /\ EventsOK(k0, by) /\ OwnOK(c, k0, by) /\ SubscribedOK(k0, as) /\ QuietOK(k0, TRUE)
      /\ as \in Seq(Request) /\ t \in 0 .. Len(as) /\ (b <=> Len(k0.held) > 1)
  BY DEF ClientOK, Consistent, Data
<1>2. k0.held # <<>> /\ k0.peer # "freed" /\ t \in Nat
  <2>1. Len(asked[c]) \in Nat
    BY LenProperties
  <2> QED
    BY <1>1, <2>1 DEF QuietOK
<1>3. Only(d, z, c, [k0 EXCEPT !.held = Tail(@)])
  BY <1>2, TakeHeldEffect
<1> HIDE DEF z
<1>4. /\ z \in Data /\ z.changes = by /\ \A e \in Clients \ {c} : z.conn[e] = d.conn[e]
      /\ k.held = Tail(k0.held) /\ k.hold = k0.hold /\ k.out = k0.out /\ k.peer = k0.peer
      /\ k.pending = k0.pending /\ k.subscribed = k0.subscribed /\ k.since = k0.since /\ k.sent = k0.sent
  <2>1. k0 \in Conn
    BY <1>1
  <2>2. /\ z \in Data /\ z.changes = by /\ \A e \in Clients \ {c} : z.conn[e] = d.conn[e]
        /\ k = [[k0 EXCEPT !.held = Tail(@)] EXCEPT !.pollout = k.pollout]
    BY <1>3 DEF Only
  <2> HIDE DEF k0, k
  <2>3. /\ k.held = Tail(k0.held) /\ k.hold = k0.hold /\ k.out = k0.out /\ k.peer = k0.peer
        /\ k.pending = k0.pending /\ k.subscribed = k0.subscribed /\ k.since = k0.since /\ k.sent = k0.sent
    BY <2>1, <2>2 DEF Conn
  <2> QED
    BY <2>2, <2>3
<1>5. r \in DOMAIN as /\ r \in Nat
  <2> DEFINE n == Len(k0.held)
             m == Len(as)
  <2>1. k0.held \in Seq(Nat)
    BY <1>1 DEF Conn
  <2>2. n \in Nat /\ DOMAIN k0.held = 1 .. n /\ n # 0 /\ r = k0.held[1] /\ m \in Nat /\ DOMAIN as = 1 .. m
    BY <1>1, <1>2, <2>1, LenProperties, EmptySeq
  <2>3. n <= t /\ \A i \in 1 .. n : k0.held[i] = t - n + i
    BY <1>1, <2>2 DEF HeldOK
  <2>4. t \in 0 .. m
    OBVIOUS
  <2> HIDE DEF n, m
  <2>5. r = t - n + 1 /\ r \in 1 .. m
    BY <2>2, <2>3, <2>4
  <2> QED
    BY <2>2, <2>5
<1>6. /\ y \in Data /\ Answer(c, k, l, z.changes, by2, as, r, TRUE)
      /\ \A e \in Clients \ {c} : Overhears(c, z.conn[e], y.conn[e], z.changes, by2)
  <2>1. y = Execute(z, c, r)
    BY DEF z
  <2>2. serving.batch \in BOOLEAN /\ r \in DOMAIN asked[c]
    BY <1>5
  <2> HIDE DEF r
  <2> QED
    BY <1>4, <2>1, <2>2, ExecuteEffect
<1>7. /\ Answer(c, k, l, by, by2, as, r, TRUE)
      /\ \A e \in Clients \ {c} : Overhears(c, d.conn[e], y.conn[e], by, by2)
  BY <1>4, <1>6
<1>8. k \in Conn /\ l \in Conn /\ by2 \in Seq(By)
  BY <1>4, <1>6 DEF Data
<1>9. r = Head(k0.held)
  OBVIOUS
<1> HIDE DEF k0, k, l, as, by, by2, r
<1>10. Foreign(by2, c) = Foreign(by, c)
  <2>1. CASE by2 = by
    BY <2>1
  <2>2. CASE by2 = Append(by, [client |-> c, request |-> r])
    <3> DEFINE w == [client |-> c, request |-> r]
    <3>1. w \in By /\ w.client = c
      BY <1>5 DEF By
    <3>2. by2 = Append(by, w)
      BY <2>2
    <3> HIDE DEF w
    <3> QED
      BY <1>1, <3>1, <3>2, ForeignKept
  <2> QED
    BY <1>7, <2>1, <2>2 DEF Answer
<1>11. /\ HeldOK(l, t) /\ AnswersOK(l, t) /\ SeenOK(l.out, as) /\ WindowOK(c, l, by2, as, t, b)
       /\ b => l.held # <<>>
       /\ ~b => l.held = <<>>
  <2>1. TakesHeld(k0, k, r, b)
    BY <1>1, <1>2, <1>4, <1>9 DEF TakesHeld
  <2>2. SeesTheSame(c, l, by2, as, t, b)
    BY <1>1, <1>2, <1>5, <1>7, <1>8, <1>10, <2>1, AnswerHeld, ZenonT(60)
  <2> QED
    BY <2>2 DEF SeesTheSame
<1>12. EventsOK(k, by) /\ OwnOK(c, k, by) /\ SubscribedOK(k, as)
  <2>1. EventsOK(k, by) /\ OwnOK(c, k, by)
    BY <1>1, <1>4, <1>8, EventsFrame
  <2>2. SubscribedOK(k, as)
    <3>1. Follows(k) = Follows(k0) /\ k.out = k0.out
      BY <1>4 DEF Follows
    <3> QED
      BY <1>1, <3>1 DEF SubscribedOK
  <2> QED
    BY <2>1, <2>2
<1>13. EventsOK(l, by2) /\ OwnOK(c, l, by2) /\ SubscribedOK(l, as)
  <2>1. k.peer # "freed"
    BY <1>2, <1>4
  <2> QED
    BY <1>1, <1>5, <1>7, <1>8, <1>12, <2>1, AnswerEvents
<1>14. Consistent(c, l, by2, as, t, b)
  BY <1>11, <1>13 DEF Consistent
<1>15. l.sent = k0.sent /\ l.peer = k0.peer
  BY <1>4, <1>7 DEF Answer
<1>16. Grows(k0.out, l.out)
  <2> DEFINE m == [kind |-> "response", request |-> r, seen |-> Foreign(by, c), held |-> TRUE]
  <2>1. m \in Queued
    BY <1>1, <1>5, RequestKinds, ForeignType DEF Response, Queued
  <2>2. l.out = Append(k0.out, m) /\ k0.out \in Seq(Queued)
    BY <1>1, <1>4, <1>7 DEF Answer, Conn
  <2> HIDE DEF m
  <2> QED
    BY <2>1, <2>2, GrowsByOne
<1>17. CASE b
  <2>1. x = y
    BY <1>17
  <2>2. QuietOK(l, b)
    BY <1>2, <1>11, <1>15, <1>17 DEF QuietOK
  <2>3. Stepped(c, d, x, as, t, b)
    BY <1>6, <1>7, <1>14, <1>15, <1>16, <2>1, <2>2 DEF Stepped, ClientOK, k0, l, by, by2
  <2> QED
    BY <2>3 DEF as
<1>18. CASE ~b
  <2>1. x = FlushEvents(y, c)
    BY <1>18
  <2>2. Flushed(y, x, c)
    BY <1>6, <2>1, Flushes
  <2>3. QuietOK(x.conn[c], b)
    BY <1>11, <1>18, <2>2 DEF QuietOK, Flushed, Sends, l
  <2>4. Consistent(c, y.conn[c], y.changes, as, t, b) /\ Grows(d.conn[c].out, y.conn[c].out)
    BY <1>14, <1>16 DEF k0, l, by2
  <2>5. /\ y.conn[c].sent = d.conn[c].sent /\ y.conn[c].peer = d.conn[c].peer
        /\ \A e \in Clients \ {c} : Overhears(c, d.conn[e], y.conn[e], d.changes, y.changes)
    BY <1>7, <1>15 DEF k0, l, by, by2
  <2>6. Stepped(c, d, x, as, t, b)
    BY <1>2, <1>6, <2>2, <2>3, <2>4, <2>5, FlushStep
  <2> QED
    BY <2>6 DEF as
<1> QED
  BY <1>17, <1>18

-----------------------------------------------------------------------------
(* The invariant.                                                            *)

InBatch(e) == serving.client = e /\ serving.batch

TypeInv ==
    /\ asked \in [Clients -> Seq(Request)]
    /\ taken \in [Clients -> Nat]
    /\ State \in Data
    /\ serving \in [client : Clients \cup {NoClient}, in : BOOLEAN, write : BOOLEAN, hup : BOOLEAN,
                    batch : BOOLEAN]
    /\ read \in [Clients -> Nat]

(* No more is read than was written; the client being served is there. *)
SocketOK(e) ==
    /\ taken[e] <= Len(asked[e])
    /\ read[e] <= conn[e].sent /\ conn[e].sent <= Len(conn[e].out)
    /\ serving.client = e => conn[e].peer # "freed"

ConnOK(e) == SocketOK(e) /\ ClientOK(e, conn[e], changes, asked[e], taken[e], InBatch(e))

IInv == TypeInv /\ \A e \in Clients : ConnOK(e)

(* What was queued for a client stays. *)
Kept == \A e \in Clients : Grows(conn[e].out, conn'[e].out)

LEMMA GrowsNot ==
    ASSUME NEW out \in Seq(Queued)
    PROVE  Grows(out, out)
<1>1. Len(out) \in Nat
  BY LenProperties
<1> QED
  BY <1>1 DEF Grows

(* The invariant, for one client. *)
LEMMA Given ==
    ASSUME IInv, NEW e \in Clients
    PROVE  /\ asked[e] \in Seq(Request) /\ taken[e] \in Nat /\ read[e] \in Nat /\ conn[e] \in Conn
           /\ SocketOK(e) /\ ClientOK(e, conn[e], changes, asked[e], taken[e], InBatch(e))
           /\ changes \in Seq(By) /\ conn \in [Clients -> Conn] /\ State \in Data
           /\ State.conn = conn /\ State.changes = changes
           /\ Len(asked[e]) \in Nat /\ conn[e].sent \in Nat /\ Len(conn[e].out) \in Nat /\ conn[e].out \in Seq(Queued)
<1>1. State.conn = conn /\ State.changes = changes
  BY DEF State
<1>2. /\ asked[e] \in Seq(Request) /\ taken[e] \in Nat /\ read[e] \in Nat
      /\ State \in Data /\ SocketOK(e) /\ ClientOK(e, conn[e], changes, asked[e], taken[e], InBatch(e))
  BY DEF IInv, TypeInv, ConnOK
<1>3. conn \in [Clients -> Conn] /\ changes \in Seq(By) /\ conn[e] \in Conn
  BY <1>1, <1>2 DEF Data
<1>4. conn[e].sent \in Nat /\ conn[e].out \in Seq(Queued)
  BY <1>3 DEF Conn
<1>5. Len(asked[e]) \in Nat /\ Len(conn[e].out) \in Nat
  BY <1>2, <1>4, LenProperties
<1> QED
  BY <1>1, <1>2, <1>3, <1>4, <1>5

(* Clients whose record is not touched. *)
LEMMA Untouched ==
    ASSUME IInv, NEW e \in Clients, conn'[e] = conn[e], changes' = changes, asked'[e] = asked[e],
           taken'[e] = taken[e], read'[e] = read[e], InBatch(e)' <=> InBatch(e),
           (serving.client = e)' => serving.client = e \/ conn[e].peer # "freed"
    PROVE  ConnOK(e)' /\ Grows(conn[e].out, conn'[e].out)
<1>1. ClientOK(e, conn[e], changes, asked[e], taken[e], InBatch(e)) /\ SocketOK(e) /\ conn[e].out \in Seq(Queued)
  BY Given
<1>2. InBatch(e)' = InBatch(e)
  BY DEF InBatch, IInv, TypeInv
<1>3. SocketOK(e)'
  BY <1>1 DEF SocketOK
<1> QED
  BY <1>1, <1>2, <1>3, GrowsNot DEF ConnOK

(* The steps of the daemon that read or answer a request of c. *)
LEMMA StepDaemon ==
    ASSUME IInv, NEW c \in Clients, NEW x, Becomes(x), NEW b \in BOOLEAN, NEW t \in Nat, t <= Len(asked[c]),
           Stepped(c, State, x, asked[c], t, b), serving.client = c,
           serving' = [serving EXCEPT !.batch = b], asked' = asked, read' = read,
           taken' = [taken EXCEPT ![c] = t]
    PROVE  IInv' /\ Kept
<1>1. /\ x \in Data /\ ClientOK(c, x.conn[c], x.changes, asked[c], t, b)
      /\ Grows(conn[c].out, x.conn[c].out) /\ x.conn[c].sent = conn[c].sent /\ x.conn[c].peer = conn[c].peer
      /\ \A e \in Clients \ {c} : Overhears(c, conn[e], x.conn[e], changes, x.changes)
  BY Given DEF Stepped
<1>2. conn' = x.conn /\ changes' = x.changes /\ x.conn \in [Clients -> Conn]
  BY <1>1 DEF Becomes, Data
<1>3. TypeInv'
  <2>1. (State \in Data)'
    BY <1>1, <1>2 DEF State, Data
  <2>2. taken' \in [Clients -> Nat] /\ asked' \in [Clients -> Seq(Request)] /\ read' \in [Clients -> Nat]
    BY DEF IInv, TypeInv
  <2>3. serving' \in [client : Clients \cup {NoClient}, in : BOOLEAN, write : BOOLEAN, hup : BOOLEAN, batch : BOOLEAN]
    BY DEF IInv, TypeInv
  <2> QED
    BY <2>1, <2>2, <2>3 DEF TypeInv
<1>4. serving'.client = c /\ serving'.batch = b
  BY DEF IInv, TypeInv
<1>5. ConnOK(c)' /\ Grows(conn[c].out, conn'[c].out)
  <2>1. InBatch(c)' = b
    BY <1>4 DEF InBatch
  <2>2. taken'[c] = t
    BY DEF IInv, TypeInv
  <2>3. SocketOK(c)'
    <3>1. SocketOK(c) /\ conn[c].sent \in Nat /\ Len(conn[c].out) \in Nat /\ read[c] \in Nat
      BY Given
    <3>2. Len(x.conn[c].out) \in Nat
      BY <1>2, LenProperties DEF Conn
    <3>3. Len(conn[c].out) <= Len(x.conn[c].out)
      BY <1>1 DEF Grows
    <3>4. conn[c].sent <= Len(x.conn[c].out)
      BY <3>1, <3>2, <3>3, SMTT(60) DEF SocketOK
    <3> QED
      BY <1>1, <1>2, <2>2, <3>1, <3>4 DEF SocketOK
  <2> QED
    BY <1>1, <1>2, <2>1, <2>2, <2>3 DEF ConnOK
<1>6. ASSUME NEW e \in Clients, e # c PROVE ConnOK(e)' /\ Grows(conn[e].out, conn'[e].out)
  <2>1. InBatch(e)' = FALSE /\ InBatch(e) = FALSE /\ serving'.client # e /\ taken'[e] = taken[e]
    BY <1>4, <1>6 DEF InBatch, IInv, TypeInv
  <2>2. /\ conn[e] \in Conn /\ changes \in Seq(By) /\ taken[e] \in Nat /\ SocketOK(e)
        /\ ClientOK(e, conn[e], changes, asked[e], taken[e], FALSE)
        /\ conn[e].sent \in Nat /\ Len(conn[e].out) \in Nat
    BY <2>1, Given
  <2>3. x.conn[e] \in Conn /\ Overhears(c, conn[e], x.conn[e], changes, x.changes)
    BY <1>1, <1>2, <1>6
  <2>4. /\ ClientOK(e, x.conn[e], x.changes, asked[e], taken[e], FALSE) /\ Grows(conn[e].out, x.conn[e].out)
        /\ x.conn[e].sent = conn[e].sent
    <3>1. Overheard(e, conn[e], x.conn[e], x.changes, asked[e], taken[e])
      BY <1>6, <2>2, <2>3, ClientOverhears
    <3> QED
      BY <3>1 DEF Overheard
  <2>5. SocketOK(e)'
    <3>1. Len(x.conn[e].out) \in Nat
      BY <2>3, LenProperties DEF Conn
    <3>2. Len(conn[e].out) <= Len(x.conn[e].out)
      BY <2>4 DEF Grows
    <3>3. conn[e].sent <= Len(conn[e].out)
      BY <2>2 DEF SocketOK
    <3>4. conn[e].sent <= Len(x.conn[e].out)
      <4>1. conn[e].sent \in Nat /\ Len(conn[e].out) \in Nat
        BY <2>2
      <4> QED
        BY <3>1, <3>2, <3>3, <4>1, SMTT(60)
    <3> QED
      BY <1>2, <2>1, <2>2, <2>4, <3>4 DEF SocketOK
  <2> QED
    BY <1>2, <2>1, <2>4, <2>5 DEF ConnOK
<1> QED
  BY <1>3, <1>5, <1>6 DEF IInv, Kept

(* ipc_add_client *)
LEMMA InitConnOK == Init => IInv
<1> SUFFICES ASSUME Init PROVE IInv
  OBVIOUS
<1>1. TypeInv
  <2>1. asked \in [Clients -> Seq(Request)] /\ taken \in [Clients -> Nat] /\ read \in [Clients -> Nat]
    BY EmptySeq DEF Init
  <2>2. State \in Data
    <3>1. <<>> \in Seq(Nat) /\ <<>> \in Seq(Event) /\ <<>> \in Seq(Queued) /\ <<>> \in Seq(By)
      BY EmptySeq
    <3> QED
      BY <3>1 DEF Init, State, Data, Conn
  <2>3. serving \in [client : Clients \cup {NoClient}, in : BOOLEAN, write : BOOLEAN, hup : BOOLEAN, batch : BOOLEAN]
    BY DEF Init, Nobody
  <2> QED
    BY <2>1, <2>2, <2>3 DEF TypeInv
<1>2. ASSUME NEW e \in Clients PROVE ConnOK(e)
  <2> DEFINE k == conn[e]
  <2>1. /\ k.out = <<>> /\ k.pending = <<>> /\ k.held = <<>> /\ k.hold = 0 /\ k.sent = 0 /\ k.since = 0
        /\ k.subscribed = FALSE /\ k.peer = "open"
        /\ taken[e] = 0 /\ read[e] = 0 /\ asked[e] = <<>> /\ changes = <<>>
    BY <1>2 DEF Init
  <2>2. ~ InBatch(e) /\ serving.client # e
    BY <1>2, IpcAssumption DEF Init, Nobody, InBatch
  <2>3. DOMAIN <<>> = {} /\ Len(<<>>) = 0
    OBVIOUS
  <2> HIDE DEF k
  <2>4. Res(k.out) = {} /\ Evs(k.out) = {} /\ DOMAIN k.pending = {} /\ DOMAIN k.held = {}
    BY <2>1, <2>3 DEF Res, Evs
  <2>5. HeldOK(k, 0) /\ QuietOK(k, FALSE)
    BY <2>1, <2>3, <2>4 DEF HeldOK, QuietOK
  <2>6. AnswersOK(k, 0)
    <3>1. AnswersTo(k.out, 0)
      BY <2>4 DEF AnswersTo
    <3>2. Len(k.held) = 0
      BY <2>1, <2>3
    <3>3. 0 \in 0 .. 0 /\ 0 = 0 - 0
      OBVIOUS
    <3> QED
      BY <3>1, <3>2, <3>3 DEF AnswersOK
  <2>7. SeenOK(k.out, asked[e]) /\ WindowOK(e, k, changes, asked[e], 0, FALSE)
    BY <2>4 DEF SeenOK, WindowOK
  <2>8. EventsOK(k, changes)
    <3>1. k.since <= Len(changes) /\ k.since + 1 .. Len(changes) = {}
      BY <2>1, <2>3
    <3> QED
      BY <2>1, <2>4, <3>1 DEF EventsOK
  <2>9. OwnOK(e, k, changes) /\ SubscribedOK(k, asked[e])
    BY <2>1, <2>4 DEF OwnOK, SubscribedOK, Follows
  <2>10. ClientOK(e, k, changes, asked[e], 0, FALSE)
    BY <2>5, <2>6, <2>7, <2>8, <2>9 DEF ClientOK, Consistent
  <2>11. SocketOK(e)
    BY <2>1, <2>2, <2>3 DEF SocketOK, k
  <2>12. InBatch(e) = FALSE
    BY <2>2 DEF InBatch, Init, Nobody
  <2> QED
    BY <2>1, <2>10, <2>11, <2>12 DEF ConnOK, k
<1> QED
  BY <1>1, <1>2 DEF IInv

(* A sequence goes on behind a strict prefix. *)
LEMMA LongerThanPrefix ==
    ASSUME NEW S, NEW s \in Seq(S), NEW t \in Seq(S), IsStrictPrefix(s, t)
    PROVE  Len(s) + 1 \in 1 .. Len(t) /\ Len(s) < Len(t)
<1>1. Len(s) \in Nat /\ Len(t) \in Nat /\ DOMAIN s = 1 .. Len(s) /\ DOMAIN t = 1 .. Len(t)
  BY LenProperties
<1>2. Len(s) <= Len(t) /\ s = SubSeq(t, 1, Len(s)) /\ s # t
  BY DEF IsStrictPrefix, IsPrefix
<1>3. Len(s) # Len(t)
  <2>1. SubSeq(t, 1, Len(t)) = t
    BY SubSeqFull
  <2> QED
    BY <1>2, <2>1
<1>4. \A m, n \in Nat : m <= n /\ m # n => m + 1 \in 1 .. n /\ m < n
  OBVIOUS
<1> QED
  BY <1>1, <1>2, <1>3, <1>4

(* The client asks. *)
LEMMA SendKeeps ==
    ASSUME IInv, NEW c \in Clients, Send(c)
    PROVE  IInv' /\ Kept
<1>1. PICK s \in Requests[c] : /\ IsStrictPrefix(asked[c], s)
                               /\ asked' = [asked EXCEPT ![c] = Append(@, s[Len(@) + 1])]
  BY DEF Send
<1>2. UNCHANGED <<taken, conn, changes, serving, read>> /\ conn[c].peer = "open"
  BY DEF Send
<1> DEFINE r == s[Len(asked[c]) + 1]
<1>3. r \in Request
  <2>1. s \in Seq(Request) /\ asked[c] \in Seq(Request)
    BY Given, IpcAssumption
  <2>2. Len(asked[c]) + 1 \in 1 .. Len(s)
    BY <1>1, <2>1, LongerThanPrefix
  <2> QED
    BY <2>1, <2>2, ElementOfSeq
<1>30. asked' = [asked EXCEPT ![c] = Append(asked[c], r)]
  BY <1>1, Given
<1> HIDE DEF r
<1> DEFINE as2 == Append(asked[c], r)
<1>4. /\ as2 \in Seq(Request) /\ Len(asked[c]) \in Nat /\ Len(as2) = Len(asked[c]) + 1
      /\ \A i \in 1 .. Len(asked[c]) : as2[i] = asked[c][i]
  BY <1>3, Given, AppendProperties
<1>5. asked' \in [Clients -> Seq(Request)] /\ asked'[c] = as2 /\ \A e \in Clients \ {c} : asked'[e] = asked[e]
  BY <1>30, <1>4 DEF IInv, TypeInv
<1> HIDE DEF as2
<1>6. TypeInv'
  BY <1>2, <1>5 DEF IInv, TypeInv, State
<1>7. ConnOK(c)' /\ Grows(conn[c].out, conn'[c].out)
  <2>1. /\ taken[c] \in Nat /\ conn[c] \in Conn /\ SocketOK(c)
        /\ ClientOK(c, conn[c], changes, asked[c], taken[c], InBatch(c)) /\ conn[c].out \in Seq(Queued)
    BY Given
  <2>2. taken[c] <= Len(asked[c])
    BY <2>1 DEF SocketOK
  <2>3. SameRequests(asked[c], as2, taken[c])
    BY <1>4, <2>1, <2>2 DEF SameRequests
  <2>4. InBatch(c) \in BOOLEAN /\ InBatch(c)' = InBatch(c)
    BY <1>2 DEF InBatch, IInv, TypeInv
  <2>5. ClientOK(c, conn[c], changes, as2, taken[c], InBatch(c))
    BY <2>1, <2>3, <2>4, ClientFrame
  <2>6. taken[c] <= Len(as2)
    BY <1>4, <2>1, <2>2
  <2>7. SocketOK(c)'
    BY <1>2, <1>5, <2>1, <2>6 DEF SocketOK
  <2> QED
    BY <1>2, <1>5, <2>1, <2>4, <2>5, <2>7, GrowsNot DEF ConnOK
<1>8. ASSUME NEW e \in Clients, e # c PROVE ConnOK(e)' /\ Grows(conn[e].out, conn'[e].out)
  <2>1. conn'[e] = conn[e] /\ changes' = changes /\ asked'[e] = asked[e] /\ taken'[e] = taken[e] /\ read'[e] = read[e]
    BY <1>2, <1>5, <1>8
  <2>2. (InBatch(e)' <=> InBatch(e)) /\ ((serving.client = e)' => serving.client = e \/ conn[e].peer # "freed")
    BY <1>2 DEF InBatch
  <2> QED
    BY <2>1, <2>2, Untouched
<1> QED
  BY <1>6, <1>7, <1>8 DEF IInv, Kept

(* It reads. *)
LEMMA ReceiveKeeps ==
    ASSUME IInv, NEW c \in Clients, Receive(c)
    PROVE  IInv' /\ Kept
<1>1. /\ read' = [read EXCEPT ![c] = conn[c].sent] /\ UNCHANGED <<asked, taken, conn, changes, serving>>
      /\ conn[c].sent \in Nat /\ read \in [Clients -> Nat]
  BY Given DEF Receive, IInv, TypeInv
<1>2. TypeInv'
  BY <1>1 DEF IInv, TypeInv, State
<1>3. ASSUME NEW e \in Clients PROVE ConnOK(e)' /\ Grows(conn[e].out, conn'[e].out)
  <2>1. /\ SocketOK(e) /\ ClientOK(e, conn[e], changes, asked[e], taken[e], InBatch(e))
        /\ conn[e].out \in Seq(Queued) /\ conn[e].sent \in Nat
    BY Given
  <2>2. InBatch(e)' = InBatch(e)
    BY <1>1 DEF InBatch
  <2>3. read'[e] = read[e] \/ read'[e] = conn[e].sent
    BY <1>1
  <2>4. SocketOK(e)'
    BY <1>1, <2>1, <2>3 DEF SocketOK
  <2> QED
    BY <1>1, <2>1, <2>2, <2>4, GrowsNot DEF ConnOK
<1> QED
  BY <1>2, <1>3 DEF IInv, Kept

(* It leaves. *)
LEMMA LeaveKeeps ==
    ASSUME IInv, NEW c \in Clients, Leave(c) \/ LeaveWithin(c)
    PROVE  IInv' /\ Kept
<1>0. PICK p \in {"left", "torn"} : conn' = [conn EXCEPT ![c].peer = p]
  BY DEF Leave, LeaveWithin
<1> DEFINE l == [conn[c] EXCEPT !.peer = p]
<1>1. /\ conn' = [conn EXCEPT ![c] = l] /\ conn[c].peer = "open" /\ UNCHANGED <<asked, taken, changes, serving, read>>
      /\ conn[c] \in Conn /\ conn \in [Clients -> Conn] /\ changes \in Seq(By)
  BY <1>0, Given DEF Leave, LeaveWithin
<1>2. /\ l \in Conn /\ l.out = conn[c].out /\ l.pending = conn[c].pending /\ l.held = conn[c].held
      /\ l.hold = conn[c].hold /\ l.subscribed = conn[c].subscribed /\ l.since = conn[c].since
      /\ l.sent = conn[c].sent /\ l.peer # "freed"
  BY <1>1 DEF Conn
<1> HIDE DEF l
<1>3. conn' \in [Clients -> Conn] /\ conn'[c] = l /\ \A e \in Clients \ {c} : conn'[e] = conn[e]
  BY <1>1, <1>2
<1>4. TypeInv'
  <2>1. (State \in Data)'
    BY <1>1, <1>3 DEF State, Data
  <2> QED
    BY <1>1, <2>1 DEF IInv, TypeInv
<1>5. ConnOK(c)' /\ Grows(conn[c].out, conn'[c].out)
  <2>1. /\ taken[c] \in Nat /\ SocketOK(c)
        /\ ClientOK(c, conn[c], changes, asked[c], taken[c], InBatch(c)) /\ conn[c].out \in Seq(Queued)
    BY Given
  <2>2. SameRequests(asked[c], asked[c], taken[c])
    BY DEF SameRequests
  <2>3. InBatch(c) \in BOOLEAN /\ InBatch(c)' = InBatch(c)
    BY <1>1 DEF InBatch, IInv, TypeInv
  <2>4. l.peer = "freed" <=> conn[c].peer = "freed"
    BY <1>1, <1>2
  <2>5. ClientOK(c, l, changes, asked[c], taken[c], InBatch(c))
    BY <1>1, <1>2, <2>1, <2>2, <2>3, <2>4, ClientFrame
  <2>6. SocketOK(c)'
    BY <1>1, <1>2, <1>3, <2>1 DEF SocketOK
  <2> QED
    BY <1>1, <1>2, <1>3, <2>1, <2>3, <2>5, <2>6, GrowsNot DEF ConnOK
<1>6. ASSUME NEW e \in Clients, e # c PROVE ConnOK(e)' /\ Grows(conn[e].out, conn'[e].out)
  <2>1. conn'[e] = conn[e] /\ changes' = changes /\ asked'[e] = asked[e] /\ taken'[e] = taken[e] /\ read'[e] = read[e]
    BY <1>1, <1>3, <1>6
  <2>2. (InBatch(e)' <=> InBatch(e)) /\ ((serving.client = e)' => serving.client = e \/ conn[e].peer # "freed")
    BY <1>1 DEF InBatch
  <2> QED
    BY <2>1, <2>2, Untouched
<1> QED
  BY <1>4, <1>5, <1>6 DEF IInv, Kept

(* Something is copied. *)
LEMMA CopiedKeeps ==
    ASSUME IInv, Copied
    PROVE  IInv' /\ Kept
<1> DEFINE x == Change(State, NoClient, 0)
<1>1. Becomes(x) /\ Idle /\ UNCHANGED <<asked, taken, serving, read>>
  BY DEF Copied
<1>2. State \in Data /\ State.conn = conn /\ State.changes = changes
  BY DEF State, IInv, TypeInv
<1>3. Changed(State, x, NoClient, 0)
  BY <1>2, ChangeEffect
<1> HIDE DEF x
<1>4. /\ x \in Data /\ conn' = x.conn /\ changes' = x.changes /\ conn' \in [Clients -> Conn]
      /\ changes' = Append(changes, [client |-> NoClient, request |-> 0])
      /\ \A e \in Clients : e # NoClient /\ Told(conn[e], conn'[e], Len(changes) + 1)
  BY <1>1, <1>2, <1>3, IpcAssumption DEF Changed, Becomes, Data
<1>5. TypeInv'
  <2>1. (State \in Data)'
    BY <1>4 DEF State, Data
  <2> QED
    BY <1>1, <2>1 DEF IInv, TypeInv
<1>6. ASSUME NEW e \in Clients PROVE ConnOK(e)' /\ Grows(conn[e].out, conn'[e].out)
  <2>1. InBatch(e)' = FALSE /\ InBatch(e) = FALSE /\ serving'.client # e
    BY <1>1, <1>4, <1>6 DEF InBatch, Idle
  <2>2. /\ conn[e] \in Conn /\ changes \in Seq(By) /\ taken[e] \in Nat /\ SocketOK(e)
        /\ ClientOK(e, conn[e], changes, asked[e], taken[e], FALSE)
        /\ conn[e].sent \in Nat /\ Len(conn[e].out) \in Nat
    BY <2>1, Given
  <2>3. conn'[e] \in Conn /\ Overhears(NoClient, conn[e], conn'[e], changes, changes')
    BY <1>4 DEF Overhears
  <2>4. /\ ClientOK(e, conn'[e], changes', asked[e], taken[e], FALSE) /\ Grows(conn[e].out, conn'[e].out)
        /\ conn'[e].sent = conn[e].sent
    <3>1. Overheard(e, conn[e], conn'[e], changes', asked[e], taken[e])
      BY <1>4, <2>2, <2>3, ClientOverhears
    <3> QED
      BY <3>1 DEF Overheard
  <2>5. SocketOK(e)'
    <3>1. Len(conn'[e].out) \in Nat
      BY <2>3, LenProperties DEF Conn
    <3>2. Len(conn[e].out) <= Len(conn'[e].out)
      BY <2>4 DEF Grows
    <3>3. conn[e].sent <= Len(conn[e].out) /\ conn[e].sent \in Nat /\ Len(conn[e].out) \in Nat
      BY <2>2 DEF SocketOK
    <3>4. conn[e].sent <= Len(conn'[e].out)
      BY <3>1, <3>2, <3>3
    <3> QED
      BY <1>1, <2>1, <2>2, <2>4, <3>4 DEF SocketOK
  <2> QED
    BY <1>1, <2>1, <2>4, <2>5 DEF ConnOK
<1> QED
  BY <1>5, <1>6 DEF IInv, Kept

(* client_callback begins ... *)
LEMMA ServeKeeps ==
    ASSUME IInv, NEW c \in Clients, Serve(c)
    PROVE  IInv' /\ Kept
<1>1. /\ UNCHANGED <<asked, taken, conn, changes, read>> /\ Idle /\ conn[c].peer # "freed"
      /\ serving' = [client |-> c, in |-> Readable(c), write |-> Writable(c),
                     hup |-> Gone(c), batch |-> FALSE]
  BY DEF Serve
<1>2. serving'.client = c /\ ~serving'.batch
  BY <1>1
<1>3. TypeInv'
  <2>1. Readable(c) \in BOOLEAN /\ Gone(c) \in BOOLEAN
    BY DEF Readable, Gone
  <2>2. Writable(c) \in BOOLEAN
    <3>1. conn[c].pollout \in BOOLEAN
      BY Given DEF Conn
    <3> QED
      BY <3>1 DEF Writable
  <2>3. serving' \in [client : Clients \cup {NoClient}, in : BOOLEAN, write : BOOLEAN, hup : BOOLEAN, batch : BOOLEAN]
    BY <1>1, <2>1, <2>2
  <2> QED
    BY <1>1, <2>3 DEF IInv, TypeInv, State
<1>4. ASSUME NEW e \in Clients PROVE ConnOK(e)' /\ Grows(conn[e].out, conn'[e].out)
  <2>1. conn'[e] = conn[e] /\ changes' = changes /\ asked'[e] = asked[e] /\ taken'[e] = taken[e] /\ read'[e] = read[e]
    BY <1>1
  <2>2. InBatch(e)' <=> InBatch(e)
    BY <1>1, <1>2, IpcAssumption DEF InBatch, Idle
  <2>3. (serving.client = e)' => serving.client = e \/ conn[e].peer # "freed"
    BY <1>1, <1>2
  <2> QED
    BY <2>1, <2>2, <2>3, Untouched
<1> QED
  BY <1>3, <1>4 DEF IInv, Kept

(* ... reads a message ... *)
LEMMA ReadMessageKeeps ==
    ASSUME IInv, NEW c \in Clients, ReadMessage(c)
    PROVE  IInv' /\ Kept
<1> DEFINE t == taken[c]
           r == t + 1
           x == Message(State, c, r)
           y == Hold(State, c, r)
           b == conn[c].hold = 1
<1>1. /\ serving.client = c /\ ~serving.batch /\ Unread(c) /\ Becomes(x)
      /\ taken' = [taken EXCEPT ![c] = r] /\ serving' = [serving EXCEPT !.batch = b]
      /\ asked' = asked /\ read' = read
  BY DEF ReadMessage
<1>2. /\ asked[c] \in Seq(Request) /\ t \in Nat /\ State \in Data /\ State.conn = conn /\ State.changes = changes
      /\ ClientOK(c, conn[c], changes, asked[c], t, InBatch(c)) /\ conn[c].peer # "freed"
  BY <1>1, Given DEF SocketOK
<1>3. serving.batch = FALSE /\ InBatch(c) = FALSE /\ b \in BOOLEAN
  BY <1>1 DEF InBatch, IInv, TypeInv
<1>4. ClientOK(c, State.conn[c], State.changes, asked[c], t, FALSE)
  BY <1>2, <1>3
<1>5. r \in DOMAIN asked[c] /\ r \in Nat /\ r <= Len(asked[c])
  <2>1. Len(asked[c]) \in Nat /\ DOMAIN asked[c] = 1 .. Len(asked[c])
    BY <1>2, LenProperties
  <2>2. t < Len(asked[c])
    BY <1>1 DEF Unread
  <2> QED
    BY <1>2, <2>1, <2>2
<1>6. CASE conn[c].hold = 0
  <2>1. x = FlushEvents(Execute(State, c, r), c) /\ b = FALSE
    BY <1>2, <1>6 DEF Message
  <2> HIDE DEF x, b
  <2>2. Stepped(c, State, x, asked[c], r, FALSE)
    BY <1>2, <1>3, <1>4, <1>5, <1>6, <2>1, ExecutesNow
  <2> HIDE DEF r
  <2> QED
    BY <1>1, <1>5, <2>1, <2>2, StepDaemon
<1>7. CASE conn[c].hold # 0
  <2>1. x = IF y.conn[c].hold = 0 THEN y ELSE FlushEvents(y, c)
    BY <1>2, <1>7 DEF Message
  <2>2. (b <=> State.conn[c].hold = 1) /\ State.conn[c].hold # 0 /\ State.conn[c].peer # "freed"
    BY <1>2, <1>7
  <2>3. y = Hold(State, c, r) /\ r = t + 1
    OBVIOUS
  <2> HIDE DEF x, b, y
  <2>4. Stepped(c, State, x, asked[c], r, b)
    BY <1>2, <1>3, <1>4, <1>5, <2>1, <2>2, <2>3, Holds
  <2> HIDE DEF r
  <2> QED
    BY <1>1, <1>3, <1>5, <2>4, StepDaemon
<1> QED
  BY <1>6, <1>7

(* ... executes a held request ... *)
LEMMA ExecuteHeldKeeps ==
    ASSUME IInv, NEW c \in Clients, ExecuteHeld(c)
    PROVE  IInv' /\ Kept
<1> DEFINE t == taken[c]
           y == Execute(TakeHeld(State, c), c, Head(conn[c].held))
           b == Len(conn[c].held) > 1
           x == IF b THEN y ELSE FlushEvents(y, c)
<1>1. /\ serving.client = c /\ serving.batch /\ Becomes(x) /\ serving' = [serving EXCEPT !.batch = b]
      /\ asked' = asked /\ taken' = taken /\ read' = read
  BY DEF ExecuteHeld
<1>2. /\ asked[c] \in Seq(Request) /\ t \in Nat /\ State \in Data /\ State.conn = conn /\ State.changes = changes
      /\ ClientOK(c, conn[c], changes, asked[c], t, InBatch(c)) /\ t <= Len(asked[c]) /\ Len(asked[c]) \in Nat
  BY Given DEF SocketOK
<1>3. serving.batch = TRUE /\ InBatch(c) = TRUE /\ b \in BOOLEAN
  BY <1>1 DEF InBatch, IInv, TypeInv
<1>4. ClientOK(c, State.conn[c], State.changes, asked[c], t, TRUE)
  BY <1>2, <1>3
<1>5. t \in 0 .. Len(asked[c])
  BY <1>2
<1>6. taken' = [taken EXCEPT ![c] = t]
  BY <1>1 DEF IInv, TypeInv
<1>7. /\ y = Execute(TakeHeld(State, c), c, Head(State.conn[c].held))
      /\ (b <=> Len(State.conn[c].held) > 1) /\ x = IF b THEN y ELSE FlushEvents(y, c)
  BY <1>2
<1> HIDE DEF x, b, y, t
<1>8. Stepped(c, State, x, asked[c], t, b)
  <2> DEFINE d == State
  <2>1. /\ d \in Data /\ asked[c] \in Seq(Request) /\ t \in 0 .. Len(asked[c]) /\ serving.batch = TRUE
        /\ ClientOK(c, d.conn[c], d.changes, asked[c], t, TRUE) /\ b \in BOOLEAN
    BY <1>2, <1>3, <1>4, <1>5
  <2>2. /\ y = Execute(TakeHeld(d, c), c, Head(d.conn[c].held))
        /\ (b <=> Len(d.conn[c].held) > 1) /\ x = IF b THEN y ELSE FlushEvents(y, c)
    BY <1>7
  <2> HIDE DEF d
  <2>3. Stepped(c, d, x, asked[c], t, b)
    BY <2>1, <2>2, ExecutesHeld
  <2> QED
    BY <2>3 DEF d
<1>9. /\ serving.client = c /\ Becomes(x) /\ serving' = [serving EXCEPT !.batch = b]
      /\ asked' = asked /\ read' = read
  BY <1>1
<1>10. t \in Nat /\ t <= Len(asked[c]) /\ b \in BOOLEAN
  BY <1>2, <1>3
<1> QED
  BY <1>6, <1>8, <1>9, <1>10, StepDaemon

(* What ipc_ct_write writes is there, and was not read. *)
LEMMA WrittenFits ==
    ASSUME IInv, NEW c \in Clients
    PROVE  /\ Written(c) \in Nat /\ Written(c) <= Len(conn[c].out) /\ read[c] <= Written(c)
<1>1. /\ read[c] \in Nat /\ conn[c].sent \in Nat /\ Len(conn[c].out) \in Nat
      /\ read[c] <= conn[c].sent /\ conn[c].sent <= Len(conn[c].out)
  BY Given DEF SocketOK
<1>2. CASE serving.write
  <2> DEFINE S == {Len(conn[c].out), read[c] + Capacity}
  <2>1. Capacity \in Nat
    BY IpcAssumption
  <2>2. \E m \in S : \A n \in S : m <= n
    <3> DEFINE p == Len(conn[c].out)
               q == read[c] + Capacity
    <3>1. p \in Nat /\ q \in Nat
      BY <1>1, <2>1
    <3>2. S = {p, q}
      OBVIOUS
    <3> HIDE DEF p, q, S
    <3>3. CASE p <= q
      <4>1. \A n \in S : p <= n
        BY <3>1, <3>2, <3>3
      <4> QED
        BY <3>2, <4>1
    <3>4. CASE ~ (p <= q)
      <4>1. \A n \in S : q <= n
        BY <3>1, <3>2, <3>4
      <4> QED
        BY <3>2, <4>1
    <3> QED
      BY <3>3, <3>4
  <2>3. Written(c) = Min(S)
    BY <1>2 DEF Written
  <2>4. Min(S) \in S /\ \A n \in S : Min(S) <= n
    <3> HIDE DEF S
    <3> QED
      BY <2>2 DEF Min
  <2> QED
    BY <1>1, <2>1, <2>3, <2>4
<1>3. CASE ~serving.write
  BY <1>1, <1>3 DEF Written
<1> QED
  BY <1>2, <1>3

(* ... writes ... *)
LEMMA ServeEndsKeeps ==
    ASSUME IInv, NEW c \in Clients, ServeEnds(c)
    PROVE  IInv' /\ Kept
<1> DEFINE w == Written(c)
           l == [conn[c] EXCEPT !.sent = w, !.pollout = @ /\ w < Len(conn[c].out)]
<1>1. /\ serving.client = c /\ ~serving.batch /\ serving' = Nobody /\ UNCHANGED <<asked, taken, changes, read>>
      /\ conn[c] \in Conn /\ conn \in [Clients -> Conn] /\ changes \in Seq(By)
  BY Given DEF ServeEnds
<1>2. conn' = [conn EXCEPT ![c] = l]
  BY <1>1 DEF ServeEnds
<1>3. w \in Nat /\ w <= Len(conn[c].out) /\ read[c] <= w
  BY WrittenFits
<1> HIDE DEF w
<1>4. /\ l \in Conn /\ l.out = conn[c].out /\ l.pending = conn[c].pending /\ l.held = conn[c].held
      /\ l.hold = conn[c].hold /\ l.subscribed = conn[c].subscribed /\ l.since = conn[c].since
      /\ l.sent = w /\ l.peer = conn[c].peer
  <2> DEFINE p == conn[c].pollout /\ w < Len(conn[c].out)
  <2>1. p \in BOOLEAN
    OBVIOUS
  <2>2. l = [conn[c] EXCEPT !.sent = w, !.pollout = p]
    OBVIOUS
  <2> HIDE DEF p
  <2> QED
    BY <1>1, <1>3, <2>1, <2>2 DEF Conn
<1> HIDE DEF l
<1>5. conn' \in [Clients -> Conn] /\ conn'[c] = l /\ \A e \in Clients \ {c} : conn'[e] = conn[e]
  BY <1>1, <1>2, <1>4
<1>6. serving'.client = NoClient /\ serving'.batch = FALSE /\ ~serving'.batch /\ NoClient \notin Clients
  BY <1>1, IpcAssumption DEF Nobody
<1>7. TypeInv'
  <2>1. (State \in Data)'
    BY <1>1, <1>5 DEF State, Data
  <2>2. serving' \in [client : Clients \cup {NoClient}, in : BOOLEAN, write : BOOLEAN, hup : BOOLEAN, batch : BOOLEAN]
    BY <1>1 DEF Nobody
  <2> QED
    BY <1>1, <2>1, <2>2 DEF IInv, TypeInv
<1>8. ConnOK(c)' /\ Grows(conn[c].out, conn'[c].out)
  <2>0. InBatch(c) = FALSE /\ InBatch(c)' = FALSE
    BY <1>1, <1>6 DEF InBatch
  <2>1. /\ taken[c] \in Nat /\ SocketOK(c)
        /\ ClientOK(c, conn[c], changes, asked[c], taken[c], FALSE) /\ conn[c].out \in Seq(Queued)
    BY <2>0, Given
  <2>2. SameRequests(asked[c], asked[c], taken[c])
    BY DEF SameRequests
  <2>4. l.peer = "freed" <=> conn[c].peer = "freed"
    BY <1>4
  <2>5. ClientOK(c, l, changes, asked[c], taken[c], FALSE)
    BY <1>1, <1>4, <2>1, <2>2, <2>4, ClientFrame
  <2>6. SocketOK(c)'
    BY <1>1, <1>3, <1>4, <1>5, <1>6, <2>1 DEF SocketOK
  <2> QED
    BY <1>1, <1>4, <1>5, <2>0, <2>1, <2>5, <2>6, GrowsNot DEF ConnOK
<1>9. ASSUME NEW e \in Clients, e # c PROVE ConnOK(e)' /\ Grows(conn[e].out, conn'[e].out)
  <2>1. conn'[e] = conn[e] /\ changes' = changes /\ asked'[e] = asked[e] /\ taken'[e] = taken[e] /\ read'[e] = read[e]
    BY <1>1, <1>5, <1>9
  <2>2. InBatch(e)' <=> InBatch(e)
    BY <1>1, <1>6 DEF InBatch
  <2>3. (serving.client = e)' => serving.client = e \/ conn[e].peer # "freed"
    BY <1>6
  <2> QED
    BY <2>1, <2>2, <2>3, Untouched
<1> QED
  BY <1>7, <1>8, <1>9 DEF IInv, Kept

(* ... or frees the client. *)
LEMMA ServeHangupKeeps ==
    ASSUME IInv, NEW c \in Clients, ServeHangup(c)
    PROVE  IInv' /\ Kept
<1> DEFINE l == [conn[c] EXCEPT !.peer = "freed", !.held = <<>>, !.pending = <<>>]
<1>1. /\ serving.client = c /\ ~serving.batch /\ serving' = Nobody /\ UNCHANGED <<asked, taken, changes, read>>
      /\ conn[c] \in Conn /\ conn \in [Clients -> Conn] /\ changes \in Seq(By)
  BY Given DEF ServeHangup
<1>2. conn' = [conn EXCEPT ![c] = l]
  BY <1>1 DEF ServeHangup
<1>3. <<>> \in Seq(Nat) /\ <<>> \in Seq(Event)
  BY EmptySeq
<1>4. /\ l \in Conn /\ l.out = conn[c].out /\ l.pending = <<>> /\ l.held = <<>>
      /\ l.subscribed = conn[c].subscribed /\ l.since = conn[c].since
      /\ l.sent = conn[c].sent /\ l.peer = "freed"
  BY <1>1, <1>3 DEF Conn
<1> HIDE DEF l
<1>5. conn' \in [Clients -> Conn] /\ conn'[c] = l /\ \A e \in Clients \ {c} : conn'[e] = conn[e]
  BY <1>1, <1>2, <1>4
<1>6. serving'.client = NoClient /\ serving'.batch = FALSE /\ ~serving'.batch /\ NoClient \notin Clients
  BY <1>1, IpcAssumption DEF Nobody
<1>7. TypeInv'
  <2>1. (State \in Data)'
    BY <1>1, <1>5 DEF State, Data
  <2>2. serving' \in [client : Clients \cup {NoClient}, in : BOOLEAN, write : BOOLEAN, hup : BOOLEAN, batch : BOOLEAN]
    BY <1>1 DEF Nobody
  <2> QED
    BY <1>1, <2>1, <2>2 DEF IInv, TypeInv
<1>8. ConnOK(c)' /\ Grows(conn[c].out, conn'[c].out)
  <2>0. InBatch(c) = FALSE /\ InBatch(c)' = FALSE
    BY <1>1, <1>6 DEF InBatch
  <2>1. /\ taken[c] \in Nat /\ SocketOK(c)
        /\ ClientOK(c, conn[c], changes, asked[c], taken[c], FALSE) /\ conn[c].out \in Seq(Queued)
    BY <2>0, Given
  <2>2. ClientOK(c, l, changes, asked[c], taken[c], FALSE)
    BY <1>1, <1>4, <2>1, ClientFreed
  <2>3. SocketOK(c)'
    BY <1>1, <1>4, <1>5, <1>6, <2>1 DEF SocketOK
  <2> QED
    BY <1>1, <1>4, <1>5, <2>0, <2>1, <2>2, <2>3, GrowsNot DEF ConnOK
<1>9. ASSUME NEW e \in Clients, e # c PROVE ConnOK(e)' /\ Grows(conn[e].out, conn'[e].out)
  <2>1. conn'[e] = conn[e] /\ changes' = changes /\ asked'[e] = asked[e] /\ taken'[e] = taken[e] /\ read'[e] = read[e]
    BY <1>1, <1>5, <1>9
  <2>2. InBatch(e)' <=> InBatch(e)
    BY <1>1, <1>6 DEF InBatch
  <2>3. (serving.client = e)' => serving.client = e \/ conn[e].peer # "freed"
    BY <1>6
  <2> QED
    BY <2>1, <2>2, <2>3, Untouched
<1> QED
  BY <1>7, <1>8, <1>9 DEF IInv, Kept

(* Every step keeps the invariant and what was queued. *)
LEMMA NextKeeps ==
    ASSUME IInv, [Next]_vars
    PROVE  IInv' /\ Kept
<1>1. CASE Copied
  BY <1>1, CopiedKeeps
<1>2. ASSUME NEW c \in Clients, Send(c) \/ Receive(c) \/ Leave(c) \/ LeaveWithin(c) \/ Daemon(c) PROVE IInv' /\ Kept
  BY <1>2, SendKeeps, ReceiveKeeps, LeaveKeeps, ServeKeeps, ReadMessageKeeps, ExecuteHeldKeeps,
     ServeEndsKeeps, ServeHangupKeeps DEF Daemon
<1>3. CASE UNCHANGED vars
  <2>1. IInv'
    BY <1>3 DEF vars, IInv, TypeInv, State, ConnOK, SocketOK, InBatch
  <2>2. Kept
    BY <1>3, Given, GrowsNot DEF vars, Kept
  <2> QED
    BY <2>1, <2>2
<1> QED
  BY <1>1, <1>2, <1>3 DEF Next

LEMMA AlwaysConnOK == Spec => []IInv
<1>1. Init => IInv
  BY InitConnOK
<1>2. IInv /\ [Next]_vars => IInv'
  BY NextKeeps
<1> QED
  BY <1>1, <1>2, PTL DEF Spec

-----------------------------------------------------------------------------
(* Theorems about IpcServer.                                                 *)

(* Every request is answered once and in order, held or not: for any requests, any *)
(* number of clients, and any bound.  (message_callback)                      *)
THEOREM AllAnsweredInOrder == Spec => []AnsweredInOrder
<1>1. IInv => AnsweredInOrder
  <2> SUFFICES ASSUME IInv, NEW c \in Clients
               PROVE  /\ \A i, j \in Responses(c) : i < j => conn[c].out[i].request < conn[c].out[j].request
                      /\ \E n \in 0 .. taken[c] :
                             /\ Answered(c) = 1 .. n
                             /\ conn[c].peer # "freed" => n = taken[c] - Len(conn[c].held)
    BY DEF AnsweredInOrder
  <2>1. AnswersOK(conn[c], taken[c])
    BY Given DEF ClientOK, Consistent
  <2>2. PICK n \in 0 .. taken[c] : /\ AnswersTo(conn[c].out, n)
                                   /\ conn[c].peer # "freed" => n = taken[c] - Len(conn[c].held)
    BY <2>1 DEF AnswersOK
  <2>3. Responses(c) = Res(conn[c].out)
    BY DEF Responses, Res
  <2>4. Answered(c) = 1 .. n
    BY <2>2, <2>3 DEF AnswersTo, Answered
  <2>5. \A i, j \in Responses(c) : i < j => conn[c].out[i].request < conn[c].out[j].request
    BY <2>2, <2>3 DEF AnswersTo
  <2> QED
    BY <2>2, <2>4, <2>5
<1> QED
  BY <1>1, AlwaysConnOK, PTL

(* A client hears of what its own request changed only after the answer to it.   *)
(* (ipc_emit_event, ipc_client_flush_events)                                  *)
THEOREM OwnEventsAlwaysFollow == Spec => []OwnEventsFollow
<1>1. IInv => OwnEventsFollow
  <2>1. SUFFICES ASSUME IInv, NEW c \in Clients, NEW i \in Events(c),
                        NEW b, b = changes[conn[c].out[i].change], b.client = c
                 PROVE  \E j \in Responses(c) : j < i /\ conn[c].out[j].request = b.request
    BY DEF OwnEventsFollow
  <2>2. OwnOK(c, conn[c], changes)
    BY <2>1, Given DEF ClientOK, Consistent
  <2>3. Responses(c) = Res(conn[c].out) /\ Events(c) = Evs(conn[c].out)
    BY DEF Responses, Res, Events, Evs
  <2> QED
    BY <2>1, <2>2, <2>3 DEF OwnOK
<1> QED
  BY <1>1, AlwaysConnOK, PTL

(* A subscriber misses no change, hears of none twice, and of all in order.       *)
(* (ipc_emit_event, ipc_client_flush_events)                                  *)
THEOREM NoEventIsEverLost == Spec => []NoEventIsLost
<1>1. IInv => NoEventIsLost
  <2>1. SUFFICES ASSUME IInv, NEW c \in Clients, conn[c].subscribed, conn[c].peer # "freed", Idle
                 PROVE  /\ \A i, j \in Events(c) : i < j => conn[c].out[i].change < conn[c].out[j].change
                        /\ conn[c].since + 1 .. Len(changes) \subseteq Announced(c)
    BY DEF NoEventIsLost
  <2>2. EventsOK(conn[c], changes) /\ QuietOK(conn[c], InBatch(c))
    BY <2>1, Given DEF ClientOK, Consistent
  <2>3. ~InBatch(c)
    BY <2>1, IpcAssumption DEF InBatch, Idle
  <2>4. DOMAIN conn[c].pending = {}
    <3>1. conn[c].pending = <<>>
      BY <2>2, <2>3 DEF QuietOK
    <3> QED
      BY <3>1
  <2>5. Events(c) = Evs(conn[c].out)
    BY DEF Events, Evs
  <2>6. \A i, j \in Events(c) : i < j => conn[c].out[i].change < conn[c].out[j].change
    BY <2>2, <2>5 DEF EventsOK
  <2>7. \A n \in conn[c].since + 1 .. Len(changes) : \E i \in Events(c) : conn[c].out[i].change = n
    BY <2>1, <2>2, <2>4, <2>5 DEF EventsOK
  <2> QED
    BY <2>6, <2>7 DEF Announced
<1> QED
  BY <1>1, AlwaysConnOK, PTL

(* The requests that a hold holds back see the state with nobody else's change   *)
(* between them.  (message_callback, hold_arr)                                *)
THEOREM HeldAlwaysSeeOneState == Spec => []HeldSeeOneState
<1>1. IInv => HeldSeeOneState
  <2>1. SUFFICES ASSUME IInv, NEW c \in Clients,
                        NEW h \in Responses(c), NEW i \in Responses(c), NEW j \in Responses(c),
                        NEW out, out = conn[c].out, ~out[h].held,
                        out[i].request \in Window(c, out[h].request), out[j].request \in Window(c, out[h].request)
                 PROVE  out[i].seen = out[j].seen
    BY DEF HeldSeeOneState
  <2>2. SeenOK(out, asked[c]) /\ out \in Seq(Queued) /\ AnswersOK(conn[c], taken[c]) /\ conn[c] \in Conn
        /\ taken[c] \in Nat
    BY <2>1, Given DEF ClientOK, Consistent
  <2>3. Responses(c) = Res(out)
    BY <2>1 DEF Responses, Res
  <2>4. out[h].request \in Nat
    BY <2>1, <2>2, <2>3, RequestsInRange
  <2>5. ASSUME NEW x \in Window(c, out[h].request) PROVE InWindow(asked[c], out[h].request, x)
    <3> DEFINE q == out[h].request
               n == asked[c][q].n
    <3>1. asked[c][q].type = "hold" /\ n \in 1 .. Modulus - 1 /\ x \in q + 1 .. q + n
      BY <2>5 DEF Window
    <3>2. Wide(asked[c], q) = n
      BY <3>1 DEF Wide
    <3>3. q \in Nat
      BY <2>4
    <3> HIDE DEF q, n
    <3>4. n \in Int /\ Modulus \in Nat
      BY <3>1, HoldFits
    <3>5. q < x /\ x <= q + n
      BY <3>1, <3>3, <3>4
    <3> QED
      BY <3>2, <3>5 DEF InWindow, q
  <2>6. InWindow(asked[c], out[h].request, out[i].request) /\ InWindow(asked[c], out[h].request, out[j].request)
    BY <2>1, <2>5
  <2> QED
    BY <2>1, <2>2, <2>3, <2>6 DEF SeenOK
<1> QED
  BY <1>1, AlwaysConnOK, PTL

-----------------------------------------------------------------------------
(* "swctl events".                                                           *)

(* It asks once; before the loop nothing was read, in the loop all of what was   *)
(* read but the first message is printed.                                    *)
FollowerInv ==
    /\ Len(asked[Follower]) <= 1
    /\ phase = "roundtrip" => read[Follower] = 0 /\ printed = <<>>
    /\ phase = "print" =>
           read[Follower] > 0 /\ printed = SubSeq(conn[Follower].out, 2, read[Follower])

(* Only the first message is a response. *)
LEMMA OneResponse ==
    ASSUME IInv, Len(asked[Follower]) <= 1
    PROVE  \A i \in 1 .. Len(conn[Follower].out) :
               conn[Follower].out[i].kind = IF i <= 1 THEN "response" ELSE "event"
<1> DEFINE k == conn[Follower]
           as == asked[Follower]
           t == taken[Follower]
<1>0. Follower \in Clients
  BY FollowerAssumption
<1>1. /\ AnswersOK(k, t) /\ SubscribedOK(k, as) /\ k \in Conn /\ k.out \in Seq(Queued)
  BY <1>0, Given DEF ClientOK, Consistent, SocketOK
<1>9. t \in Nat /\ t <= Len(as) /\ Len(as) \in Nat /\ Len(as) <= 1
  BY <1>0, Given DEF ClientOK, Consistent, SocketOK
<1> HIDE DEF k, as, t
<1>2. /\ DOMAIN k.out = 1 .. Len(k.out) /\ Len(k.out) \in Nat
      /\ Res(k.out) \cup Evs(k.out) = DOMAIN k.out
  BY <1>1, Kinds, LenProperties
<1>10. t \in Nat /\ t <= 1
  <2> DEFINE l == Len(as)
  <2>1. t \in Nat /\ t <= l /\ l \in Nat /\ l <= 1
    BY <1>9
  <2> HIDE DEF l
  <2> QED
    BY <2>1
<1>3. ASSUME NEW i \in Res(k.out) PROVE k.out[i].request = 1
  <2>1. PICK n \in 0 .. t : AnswersTo(k.out, n)
    BY <1>1 DEF AnswersOK
  <2> DEFINE q == k.out[i].request
  <2>2. q \in 1 .. n
    BY <1>3, <2>1 DEF AnswersTo
  <2> HIDE DEF q
  <2>3. q = 1
    BY <1>10, <2>1, <2>2
  <2> QED
    BY <2>3 DEF q
<1>4. \A i, j \in Res(k.out) : ~ (i < j)
  <2>1. \A i, j \in Res(k.out) : i < j => k.out[i].request < k.out[j].request
    BY <1>1 DEF AnswersOK, AnswersTo
  <2> QED
    BY <1>3, <2>1
<1>5. ASSUME NEW i \in 1 .. Len(k.out) PROVE k.out[i].kind = IF i <= 1 THEN "response" ELSE "event"
  <2>1. 1 \in DOMAIN k.out /\ i \in DOMAIN k.out
    BY <1>2, <1>5
  <2>2. 1 \in Res(k.out)
    <3>1. ASSUME 1 \in Evs(k.out) PROVE FALSE
      <4>1. PICK j \in Res(k.out) : j < 1
        BY <1>1, <3>1 DEF SubscribedOK
      <4>2. j \in 1 .. Len(k.out)
        BY <1>2
      <4> QED
        BY <4>1, <4>2
    <3> QED
      BY <1>2, <2>1, <3>1
  <2>3. CASE i <= 1
    <3>1. i = 1
      BY <1>5, <2>3
    <3> QED
      BY <2>2, <3>1 DEF Res
  <2>4. CASE ~ (i <= 1)
    <3>1. 1 < i
      BY <1>5, <2>4
    <3>2. i \notin Res(k.out)
      BY <1>4, <2>2, <3>1
    <3>3. i \in Evs(k.out)
      BY <1>2, <2>1, <3>2
    <3> QED
      BY <2>4, <3>3 DEF Evs
  <2> QED
    BY <2>3, <2>4
<1> QED
  BY <1>5 DEF k

(* What was read of a queue stays what it was. *)
LEMMA ReadStays ==
    ASSUME NEW out \in Seq(Queued), NEW t \in Seq(Queued), Grows(out, t), NEW n \in 0 .. Len(out)
    PROVE  SubSeq(t, 2, n) = SubSeq(out, 2, n)
<1>1. Len(out) \in Nat /\ Len(t) \in Nat /\ Len(out) <= Len(t) /\ \A i \in 1 .. Len(out) : t[i] = out[i]
  BY LenProperties DEF Grows
<1>2. \A i \in 2 .. n : i \in 1 .. Len(out) /\ i \in 1 .. Len(t) /\ t[i] = out[i]
  BY <1>1
<1>3. \A i \in 2 .. n : out[i] \in Queued /\ t[i] \in Queued
  BY <1>2, ElementOfSeq
<1>4. n \in Int /\ 2 \in Int
  BY <1>1
<1> DEFINE a == SubSeq(t, 2, n)
           b == SubSeq(out, 2, n)
<1>5. /\ a \in Seq(Queued) /\ Len(a) = (IF 2 <= n THEN n - 2 + 1 ELSE 0)
      /\ \A i \in 1 .. n - 2 + 1 : a[i] = t[2 + i - 1]
  BY <1>3, <1>4, SubSeqProperties
<1>6. /\ b \in Seq(Queued) /\ Len(b) = (IF 2 <= n THEN n - 2 + 1 ELSE 0)
      /\ \A i \in 1 .. n - 2 + 1 : b[i] = out[2 + i - 1]
  BY <1>3, <1>4, SubSeqProperties
<1> HIDE DEF a, b
<1>7. \A i \in 1 .. Len(a) : i \in 1 .. n - 2 + 1 /\ 2 + i - 1 \in 2 .. n
  BY <1>4, <1>5
<1>8. Len(a) = Len(b) /\ \A i \in 1 .. Len(a) : a[i] = b[i]
  BY <1>2, <1>5, <1>6, <1>7
<1>9. a = b
  BY <1>5, <1>6, <1>8, SeqEqual
<1> QED
  BY <1>9 DEF a, b

(* It is not asked again. *)
LEMMA AsksOnce ==
    ASSUME IInv, [Next]_vars, Len(asked[Follower]) <= 1
    PROVE  Len(asked'[Follower]) <= 1
<1>1. CASE asked' = asked
  BY <1>1
<1>2. ASSUME NEW c \in Clients, Send(c) PROVE Len(asked'[Follower]) <= 1
  <2>1. PICK r : asked' = [asked EXCEPT ![c] = Append(@, r)]
    BY <1>2 DEF Send
  <2>2. asked \in [Clients -> Seq(Request)] /\ Follower \in Clients
    BY FollowerAssumption DEF IInv, TypeInv
  <2>3. CASE c # Follower
    BY <2>1, <2>2, <2>3
  <2>4. CASE c = Follower
    <3>1. PICK s \in Requests[Follower] : IsStrictPrefix(asked[Follower], s)
      BY <1>2, <2>4 DEF Send
    <3>2. Len(asked[Follower]) < 1
      <4>1. s \in Seq(Request) /\ s = <<[type |-> "subscribe"]>>
        BY <2>2, <3>1, IpcAssumption, FollowerAssumption
      <4>2. Len(asked[Follower]) < Len(s)
        BY <2>2, <3>1, <4>1, LongerThanPrefix
      <4>3. Len(s) = 1
        BY <4>1
      <4> QED
        BY <4>2, <4>3
    <3>3. asked'[Follower] = Append(asked[Follower], r)
      BY <2>1, <2>2, <2>4
    <3>4. Len(asked'[Follower]) = Len(asked[Follower]) + 1 /\ Len(asked[Follower]) \in Nat
      BY <2>2, <3>3, LenProperties
    <3> QED
      BY <3>2, <3>4
  <2> QED
    BY <2>3, <2>4
<1>3. CASE Copied
  BY <1>1, <1>3 DEF Copied
<1>4. ASSUME NEW c \in Clients, Send(c) \/ Receive(c) \/ Leave(c) \/ LeaveWithin(c) \/ Daemon(c) PROVE Len(asked'[Follower]) <= 1
  BY <1>1, <1>2, <1>4 DEF Receive, Leave, LeaveWithin, Daemon, Serve, ReadMessage, ExecuteHeld, ServeEnds, ServeHangup
<1>5. CASE UNCHANGED vars
  BY <1>1, <1>5 DEF vars
<1> QED
  BY <1>3, <1>4, <1>5 DEF Next

(* It reads all that was written. *)
LEMMA ReadsAll ==
    ASSUME IInv, [Next]_vars, read'[Follower] # read[Follower]
    PROVE  conn' = conn /\ read'[Follower] = conn[Follower].sent /\ read[Follower] < conn[Follower].sent
<1>1. read' # read
  OBVIOUS
<1>2. PICK c \in Clients : Receive(c)
  BY <1>1 DEF Next, vars, Copied, Send, Leave, LeaveWithin, Daemon, Serve, ReadMessage, ExecuteHeld, ServeEnds, ServeHangup
<1>3. read' = [read EXCEPT ![c] = conn[c].sent] /\ conn' = conn /\ read[c] < conn[c].sent
  BY <1>2 DEF Receive
<1>4. read \in [Clients -> Nat] /\ Follower \in Clients
  BY FollowerAssumption DEF IInv, TypeInv
<1>5. c = Follower
  BY <1>3, <1>4
<1> QED
  BY <1>3, <1>4, <1>5

(* The follower's invariant. *)
LEMMA FollowerKeeps ==
    ASSUME IInv, FollowerInv, [FollowerNext]_allVars
    PROVE  IInv' /\ FollowerInv'
<1> DEFINE F == Follower
           out == conn[F].out
           n == read[F]
           w == conn[F].sent
<1>1. [Next]_vars /\ F \in Clients
  BY FollowerAssumption DEF FollowerNext, allVars
<1>2. IInv' /\ Kept
  BY <1>1, NextKeeps
<1>3. Len(asked'[F]) <= 1
  BY <1>1, AsksOnce DEF FollowerInv
<1>4. /\ out \in Seq(Queued) /\ n \in Nat /\ w \in Nat /\ n <= w /\ w <= Len(out) /\ Len(out) \in Nat
  BY <1>1, Given DEF SocketOK
<1>5. CASE read'[F] = n
  <2>1. phase' = phase /\ printed' = printed
    BY <1>5 DEF FollowerNext, allVars
  <2>2. Grows(out, conn'[F].out) /\ conn'[F].out \in Seq(Queued) /\ n \in 0 .. Len(out)
    <3>1. conn' \in [Clients -> Conn]
      BY <1>2 DEF IInv, TypeInv, State, Data
    <3> QED
      BY <1>1, <1>2, <1>4, <3>1 DEF Kept, Conn
  <2>3. SubSeq(conn'[F].out, 2, n) = SubSeq(out, 2, n)
    BY <1>4, <2>2, ReadStays
  <2> QED
    BY <1>2, <1>3, <1>5, <2>1, <2>3 DEF FollowerInv
<1>6. CASE read'[F] # n
  <2>1. conn' = conn /\ read'[F] = w /\ n < w
    BY <1>1, <1>6, ReadsAll
  <2>2. Roundtrip \/ PrintFound
    BY <1>6 DEF FollowerNext, allVars, vars
  <2>3. CASE Roundtrip
    <3>1. phase = "roundtrip" /\ printed' = printed /\ phase' = IF Last(Found).kind = "response" THEN "print" ELSE "failed"
      BY <2>3 DEF Roundtrip
    <3>2. n = 0 /\ printed = <<>>
      BY <3>1 DEF FollowerInv
    <3>3. ASSUME phase' = "print" PROVE w = 1
      <4>1. Last(Found).kind = "response"
        BY <3>1, <3>3
      <4>2. Found = SubSeq(out, 1, w)
        BY <3>2 DEF Found
      <4>3. \A i \in 1 .. w : out[i] \in Queued
        BY <1>4, ElementOfSeq
      <4>4. /\ Len(SubSeq(out, 1, w)) = (IF 1 <= w THEN w - 1 + 1 ELSE 0)
            /\ \A i \in 1 .. w - 1 + 1 : SubSeq(out, 1, w)[i] = out[1 + i - 1]
        BY <1>4, <4>3, SubSeqProperties
      <4>5. Len(Found) = w /\ Found[w] = out[w]
        BY <1>4, <2>1, <3>2, <4>2, <4>4
      <4>6. out[w].kind = "response"
        BY <4>1, <4>5 DEF Last
      <4>7. w \in 1 .. Len(out)
        BY <1>4, <2>1
      <4>8. \A i \in 1 .. Len(out) : out[i].kind = IF i <= 1 THEN "response" ELSE "event"
        BY OneResponse DEF FollowerInv
      <4>9. w <= 1
        BY <4>6, <4>7, <4>8
      <4> QED
        BY <1>4, <4>7, <4>9
    <3>4. SubSeq(out, 2, 1) = <<>>
      BY SubSeqEmpty
    <3>5. phase' # "roundtrip"
      BY <3>1
    <3> QED
      BY <1>2, <1>3, <2>1, <3>1, <3>2, <3>3, <3>4, <3>5 DEF FollowerInv
  <2>4. CASE PrintFound
    <3>1. phase = "print" /\ phase' = "print" /\ printed' = printed \o Found
      BY <2>4 DEF PrintFound
    <3>2. n > 0 /\ printed = SubSeq(out, 2, n) /\ Found = SubSeq(out, n + 1, w)
      BY <3>1 DEF FollowerInv, Found
    <3>3. 2 \in 1 .. Len(out) + 1 /\ n \in 2 - 1 .. Len(out) /\ w \in n .. Len(out)
      BY <1>4, <2>1, <3>2
    <3>4. SubSeq(out, 2, n) \o SubSeq(out, n + 1, w) = SubSeq(out, 2, w)
      BY <1>4, <3>3, ConcatAdjacentSubSeq
    <3>5. w > 0
      BY <1>4, <2>1
    <3>6. printed' = SubSeq(out, 2, w)
      BY <3>1, <3>2, <3>4
    <3> QED
      BY <1>2, <1>3, <2>1, <3>1, <3>5, <3>6 DEF FollowerInv
  <2> QED
    BY <2>2, <2>3, <2>4
<1> QED
  BY <1>5, <1>6

(* Once "swctl events" prints, it has printed every event that it read, in order.  *)
(* (command_events, roundtrip, event_callback)                                *)
THEOREM AlwaysPrintsEveryEvent == FollowerSpec => []PrintsEveryEvent
<1>1. FollowerInit => IInv /\ FollowerInv
  <2>1. FollowerInit => IInv
    BY InitConnOK DEF FollowerInit
  <2>2. FollowerInit => FollowerInv
    BY FollowerAssumption DEF FollowerInit, Init, FollowerInv
  <2> QED
    BY <2>1, <2>2
<1>2. IInv /\ FollowerInv /\ [FollowerNext]_allVars => IInv' /\ FollowerInv'
  BY FollowerKeeps
<1>3. IInv /\ FollowerInv => PrintsEveryEvent
  <2>1. SUFFICES ASSUME IInv, FollowerInv, phase = "print", NEW out, out = conn[Follower].out
                 PROVE  \E k \in 0 .. read[Follower] :
                            /\ \A i \in 1 .. read[Follower] : out[i].kind = IF i <= k THEN "response" ELSE "event"
                            /\ printed = SubSeq(out, k + 1, read[Follower])
    BY DEF PrintsEveryEvent
  <2>2. \A i \in 1 .. Len(out) : out[i].kind = IF i <= 1 THEN "response" ELSE "event"
    BY <2>1, OneResponse DEF FollowerInv
  <2>3. /\ read[Follower] \in Nat /\ conn[Follower].sent \in Nat /\ Len(out) \in Nat
        /\ read[Follower] <= conn[Follower].sent /\ conn[Follower].sent <= Len(out)
    BY <2>1, FollowerAssumption, Given DEF SocketOK
  <2>4. read[Follower] > 0 /\ printed = SubSeq(out, 1 + 1, read[Follower])
    BY <2>1 DEF FollowerInv
  <2>5. 1 \in 0 .. read[Follower] /\ \A i \in 1 .. read[Follower] : i \in 1 .. Len(out)
    BY <2>3, <2>4
  <2> QED
    BY <2>2, <2>4, <2>5
<1> QED
  BY <1>1, <1>2, <1>3, PTL DEF FollowerSpec

-----------------------------------------------------------------------------
(***************************************************************************)
(* The start and the end of the server, any number of which may be under    *)
(* way at a time: a process that met no other between its look at the lock  *)
(* and the lock itself is the only one that is in until it gives the lock   *)
(* back, since whoever looks meanwhile finds the lock held.                 *)
(*                                                                         *)
(* The inductive invariant says so of the process at each of its labels,    *)
(* with what it has done to the paths so far.                              *)
(***************************************************************************)

Outside == {"new", "database", "wayland", "ipc", "undo", "exited"}

(* Where a process may hold the lock.                                        *)
HoldsLock == {"bind", "listen", "fail2", "fail2 close", "run", "close"}

Labels == Outside \cup HoldsLock \cup {"unlink socket", "unlink lock", "create lock", "lock",
                                       "remove socket", "remove lock"}

Made == 1 .. made

TypesOK ==
    /\ pc \in [Daemons -> Labels]
    /\ made \in 0 .. MaxFiles
    /\ lock_path \in Made \cup {NoFile} /\ sock_path \in Made \cup {NoFile}
    /\ lock_fd \in [Daemons -> Made \cup {NoFile}]
    /\ sock_fd \in [Daemons -> Made \cup {NoFile}]
    /\ locked \subseteq Daemons /\ listening \subseteq Daemons

Held == \A d \in locked : pc[d] \in HoldsLock

(* The process is the only one that is in, and has done its work so far.      *)
Alone(d) ==
    /\ Entered = {d}
    /\ pc[d] \in {"unlink lock", "create lock", "lock", "bind"} => sock_path = NoFile
    /\ pc[d] = "create lock" => lock_path = NoFile
    /\ pc[d] \in HoldsLock \cup {"lock"} => lock_path = lock_fd[d] /\ lock_path # NoFile
    /\ pc[d] \in HoldsLock => d \in locked
    /\ pc[d] \in {"listen", "run"} => sock_path = sock_fd[d]
    /\ pc[d] = "run" => d \in listening

(* In "fail2 close" a process has its lock, but the path to it is gone.       *)
Unmet == {d \in Entered \ met : pc[d] # "fail2 close"}

StartupIInv == TypesOK /\ Held /\ (\A d \in Unmet : Alone(d)) /\ StaleFilesDoNotRefuse

-----------------------------------------------------------------------------
(* Constants, and steps from label to label                                  *)

LEMMA NoFileIsNone == NoFile \notin 1 .. MaxFiles /\ MaxFiles \in Nat
BY StartupAssumption DEF Files

LEMMA Goes ==
    ASSUME TypesOK, NEW d \in Daemons, NEW l \in Labels, pc' = [pc EXCEPT ![d] = l]
    PROVE  /\ pc' \in [Daemons -> Labels] /\ pc'[d] = l
           /\ \A e \in Daemons \ {d} : pc'[e] = pc[e]
           /\ Entered' = IF l \in Outside THEN Entered \ {d} ELSE Entered \cup {d}
<1>1. /\ pc' \in [Daemons -> Labels] /\ pc'[d] = l
      /\ \A e \in Daemons \ {d} : pc'[e] = pc[e]
  BY DEF TypesOK
<1> QED
  BY <1>1 DEF Entered, Outside

(* Whoever has the lock is in. *)
LEMMA HoldersAreIn ==
    ASSUME Held, TypesOK, NEW e \in locked
    PROVE  e \in Entered
BY DEF Held, TypesOK, Entered, HoldsLock

(* A step of one that is in: if another one is in as well, nothing is said of  *)
(* that other, who has met this one or is in "fail2 close".                   *)
LEMMA GoesInside ==
    ASSUME StartupIInv, NEW d \in Entered, NEW l \in Labels, pc' = [pc EXCEPT ![d] = l], UNCHANGED met,
           TypesOK',
           \A e \in locked' : IF e = d THEN l \in HoldsLock ELSE e \in locked,
           refused' \subseteq met, pc[d] = "fail2 close" => l \in Outside,
           (l \notin Outside \cup {"fail2 close"} /\ d \in Unmet /\ Entered' = {d}) => Alone(d)'
    PROVE  StartupIInv'
<1>1. d \in Daemons
  BY DEF Entered
<1>2. /\ pc' \in [Daemons -> Labels] /\ pc'[d] = l
      /\ \A e \in Daemons \ {d} : pc'[e] = pc[e]
      /\ Entered' = IF l \in Outside THEN Entered \ {d} ELSE Entered \cup {d}
  BY <1>1, Goes DEF StartupIInv
<1>3. Held'
  BY <1>2 DEF StartupIInv, Held, TypesOK
<1>4. ASSUME NEW e \in Unmet'
      PROVE  Alone(e)'
  <2>1. e \in Entered' /\ e \notin met /\ pc'[e] # "fail2 close" /\ e \in Daemons
    BY DEF Unmet, Entered
  <2>2. e = d
    <3>1. SUFFICES ASSUME e # d
                   PROVE  FALSE
      OBVIOUS
    <3>2. e \in Unmet
      BY <1>2, <2>1, <3>1 DEF Unmet
    <3> QED
      BY <3>1, <3>2 DEF StartupIInv, Alone
  <2>3. l \notin Outside \cup {"fail2 close"}
    BY <1>2, <2>1, <2>2
  <2>4. d \in Unmet
    BY <2>1, <2>2, <2>3 DEF Unmet
  <2> QED
    BY <2>1, <2>2, <2>3, <2>4, <1>2 DEF StartupIInv, Alone
<1> QED
  BY <1>3, <1>4 DEF StartupIInv, StaleFilesDoNotRefuse

(* main, before and after the IPC server: no file is touched. *)
LEMMA GoesQuietly ==
    ASSUME StartupIInv, NEW d \in Daemons, NEW l \in Outside, pc' = [pc EXCEPT ![d] = l],
           pc[d] \in Outside, UNCHANGED <<files, ipc, met>>, refused' \subseteq met
    PROVE  StartupIInv'
<1> USE DEF StartupIInv
<1>1. /\ pc' \in [Daemons -> Labels] /\ pc'[d] = l
      /\ \A e \in Daemons \ {d} : pc'[e] = pc[e]
      /\ Entered' = Entered
  <2>1. l \in Labels /\ Entered \ {d} = Entered
    BY DEF Labels, Outside, Entered
  <2>2. /\ pc' \in [Daemons -> Labels] /\ pc'[d] = l
        /\ \A e \in Daemons \ {d} : pc'[e] = pc[e]
        /\ Entered' = IF l \in Outside THEN Entered \ {d} ELSE Entered \cup {d}
    BY <2>1, Goes
  <2> QED
    BY <2>1, <2>2
<1>2. TypesOK'
  BY <1>1 DEF files, ipc, TypesOK, Made
<1>3. Held'
  BY <1>1 DEF ipc, TypesOK, Held, Outside, HoldsLock
<1>4. ASSUME NEW e \in Unmet'
      PROVE  Alone(e)'
  <2>1. e \in Daemons /\ e # d
    BY <1>1 DEF Unmet, Entered, Outside
  <2>2. e \in Unmet /\ pc'[e] = pc[e]
    BY <1>1, <2>1 DEF Unmet
  <2> QED
    BY <1>1, <2>2 DEF Alone, files, ipc
<1> QED
  BY <1>2, <1>3, <1>4 DEF StaleFilesDoNotRefuse

-----------------------------------------------------------------------------
(* ipc_init                                                                  *)

(* The look at the lock. One that has met no other and holds the lock is      *)
(* seen; one that does not hold it yet, or any more, meets the new one here.  *)
LEMMA StepCheckLock ==
    ASSUME StartupIInv, NEW d \in Daemons, CheckLock(d)
    PROVE  StartupIInv'
<1>1. pc[d] = "ipc" /\ d \notin Entered /\ d \notin locked
  BY DEF CheckLock, Entered, StartupIInv, Held, HoldsLock
<1>2. CASE IsLocked(d)
  <2>1. pc' = [pc EXCEPT ![d] = "undo"] /\ UNCHANGED <<files, ipc, met>> /\ Refuse(d)
    BY <1>2 DEF CheckLock, Goto
  <2>2. PICK e \in locked : e # d
    BY <1>2 DEF IsLocked, Holder
  <2>3. refused' = refused
    BY <2>1, <2>2, HoldersAreIn DEF Refuse, StartupIInv
  <2> QED
    BY <1>1, <2>1, <2>3, GoesQuietly DEF Outside, StartupIInv, StaleFilesDoNotRefuse
<1>3. CASE ~IsLocked(d)
  <2>1. /\ pc' = [pc EXCEPT ![d] = "unlink socket"] /\ UNCHANGED <<files, ipc, refused>>
        /\ met' = IF Entered = {} THEN met ELSE met \cup {d} \cup (Entered \ locked)
    BY <1>3 DEF CheckLock, Goto
  <2> USE DEF StartupIInv
  <2>2. /\ pc' \in [Daemons -> Labels] /\ pc'[d] = "unlink socket"
        /\ \A e \in Daemons \ {d} : pc'[e] = pc[e]
        /\ Entered' = Entered \cup {d}
    BY <2>1, Goes DEF Labels, Outside
  <2>3. TypesOK'
    BY <2>1, <2>2 DEF files, ipc, TypesOK, Made
  <2>4. Held'
    BY <1>1, <2>1, <2>2 DEF ipc, TypesOK, Held
  <2>5. StaleFilesDoNotRefuse'
    BY <2>1 DEF StaleFilesDoNotRefuse
  <2>6. ASSUME NEW e \in Unmet'
        PROVE  Alone(e)'
    <3>1. e \in Entered' /\ e \notin met' /\ pc'[e] # "fail2 close"
      BY DEF Unmet
    <3>2. CASE e = d
      <4>1. Entered' = {d}
        BY <2>1, <2>2, <3>1, <3>2
      <4> QED
        BY <2>2, <3>2, <4>1 DEF Alone, HoldsLock
    <3>3. CASE e # d
      <4>1. e \in Unmet /\ e \in locked /\ pc[e] \in HoldsLock
        BY <2>1, <2>2, <3>1, <3>3 DEF Unmet, Held, Entered
      <4>2. lock_path = lock_fd[e] /\ lock_path # NoFile
        BY <4>1 DEF Alone
      <4> QED
        BY <1>3, <3>3, <4>1, <4>2 DEF IsLocked, Holder
    <3> QED
      BY <3>2, <3>3
  <2> QED
    BY <2>3, <2>4, <2>5, <2>6
<1> QED
  BY <1>2, <1>3

LEMMA StepUnlinkSocket ==
    ASSUME StartupIInv, NEW d \in Daemons, UnlinkSocket(d)
    PROVE  StartupIInv'
<1>1. pc[d] = "unlink socket" /\ d \in Entered /\ pc' = [pc EXCEPT ![d] = "unlink lock"]
  BY DEF UnlinkSocket, At, Goto, Entered
<1>2. "unlink lock" \in Labels /\ UNCHANGED history
  BY DEF UnlinkSocket, Labels, Outside, HoldsLock
<1>3. pc' \in [Daemons -> Labels] /\ pc'[d] = "unlink lock"
  BY <1>1, <1>2, Goes DEF StartupIInv
<1>4. TypesOK'
  BY <1>3 DEF UnlinkSocket, files, ipc, StartupIInv, TypesOK, Made
<1>5. \A e \in locked' : IF e = d THEN "unlink lock" \in HoldsLock ELSE e \in locked
  BY <1>1 DEF UnlinkSocket, files, ipc, StartupIInv, Held, HoldsLock
<1>6. ASSUME d \in Unmet, Entered' = {d}
      PROVE  Alone(d)' \/ "unlink lock" \in Outside \cup {"fail2 close"}
  BY <1>1, <1>3, <1>6 DEF UnlinkSocket, files, ipc, StartupIInv, TypesOK, Alone, HoldsLock, Outside
<1> QED
  BY <1>1, <1>2, <1>4, <1>5, <1>6, GoesInside DEF history, Outside, StartupIInv, StaleFilesDoNotRefuse

LEMMA StepUnlinkLock ==
    ASSUME StartupIInv, NEW d \in Daemons, UnlinkLock(d)
    PROVE  StartupIInv'
<1>1. pc[d] = "unlink lock" /\ d \in Entered /\ pc' = [pc EXCEPT ![d] = "create lock"]
  BY DEF UnlinkLock, At, Goto, Entered
<1>2. "create lock" \in Labels /\ UNCHANGED history
  BY DEF UnlinkLock, Labels, Outside, HoldsLock
<1>3. pc' \in [Daemons -> Labels] /\ pc'[d] = "create lock"
  BY <1>1, <1>2, Goes DEF StartupIInv
<1>4. TypesOK'
  BY <1>3 DEF UnlinkLock, files, ipc, StartupIInv, TypesOK, Made
<1>5. \A e \in locked' : IF e = d THEN "create lock" \in HoldsLock ELSE e \in locked
  BY <1>1 DEF UnlinkLock, files, ipc, StartupIInv, Held, HoldsLock
<1>6. ASSUME d \in Unmet, Entered' = {d}
      PROVE  Alone(d)' \/ "create lock" \in Outside \cup {"fail2 close"}
  BY <1>1, <1>3, <1>6 DEF UnlinkLock, files, ipc, StartupIInv, TypesOK, Alone, HoldsLock, Outside
<1> QED
  BY <1>1, <1>2, <1>4, <1>5, <1>6, GoesInside DEF history, Outside, StartupIInv, StaleFilesDoNotRefuse

(* A process that is alone makes the file; another one may have the path. *)
LEMMA StepOpenLock ==
    ASSUME StartupIInv, NEW d \in Daemons, OpenLock(d)
    PROVE  StartupIInv'
<1>1. pc[d] = "create lock" /\ d \in Entered /\ pc' = [pc EXCEPT ![d] = "lock"]
  BY DEF OpenLock, At, Goto, Entered
<1>2. "lock" \in Labels /\ UNCHANGED <<history, sock_path, sock_fd, locked, listening>>
  BY DEF OpenLock, files, Labels
<1>3. pc' \in [Daemons -> Labels] /\ pc'[d] = "lock"
  BY <1>1, <1>2, Goes DEF StartupIInv
<1>4. /\ made' \in 0 .. MaxFiles /\ Made \subseteq Made'
      /\ lock_path' \in Made' /\ lock_fd' = [lock_fd EXCEPT ![d] = lock_path']
  <2>1. CASE lock_path # NoFile
    BY <2>1 DEF OpenLock, files, StartupIInv, TypesOK, Made
  <2>2. CASE lock_path = NoFile
    <3>1. made < MaxFiles /\ made' = made + 1 /\ lock_path' = made + 1
          /\ lock_fd' = [lock_fd EXCEPT ![d] = made + 1] /\ made \in 0 .. MaxFiles
      BY <2>2 DEF OpenLock, StartupIInv, TypesOK
    <3> QED
      BY <3>1, NoFileIsNone DEF Made
  <2> QED
    BY <2>1, <2>2
<1>5. TypesOK'
  BY <1>2, <1>3, <1>4 DEF StartupIInv, TypesOK
<1>6. locked' = locked /\ d \notin locked
  BY <1>1, <1>2 DEF StartupIInv, Held, HoldsLock
<1>7. ASSUME d \in Unmet, Entered' = {d}
      PROVE  Alone(d)'
  <2>1. sock_path = NoFile
    BY <1>1, <1>7 DEF StartupIInv, Alone
  <2>2. lock_fd'[d] = lock_path' /\ lock_path' # NoFile
    BY <1>4, NoFileIsNone DEF Made, StartupIInv, TypesOK
  <2> QED
    BY <1>2, <1>3, <1>7, <2>1, <2>2 DEF Alone, HoldsLock
<1> QED
  BY <1>1, <1>2, <1>5, <1>6, <1>7, GoesInside DEF history, Outside, StartupIInv, StaleFilesDoNotRefuse

(* Whoever holds the lock on the file is in. *)
LEMMA StepSetLock ==
    ASSUME StartupIInv, NEW d \in Daemons, SetLock(d)
    PROVE  StartupIInv'
<1>1. pc[d] = "lock" /\ d \in Entered /\ d \notin locked /\ UNCHANGED <<has, files, sock_fd, listening, met>>
  BY DEF SetLock, Entered, StartupIInv, Held, HoldsLock
<1>2. CASE Holder(lock_fd[d]) = {}
  <2>1. pc' = [pc EXCEPT ![d] = "bind"] /\ locked' = locked \cup {d} /\ UNCHANGED <<lock_fd, refused>>
    BY <1>2 DEF SetLock, Goto
  <2>2. "bind" \in Labels
    BY DEF Labels, HoldsLock
  <2>3. pc' \in [Daemons -> Labels] /\ pc'[d] = "bind"
    BY <2>1, <2>2, Goes DEF StartupIInv
  <2>4. TypesOK'
    BY <1>1, <2>1, <2>3 DEF files, StartupIInv, TypesOK, Made
  <2>5. \A e \in locked' : IF e = d THEN "bind" \in HoldsLock ELSE e \in locked
    BY <2>1 DEF HoldsLock
  <2>6. ASSUME d \in Unmet, Entered' = {d}
        PROVE  Alone(d)'
    BY <1>1, <2>1, <2>3, <2>6 DEF files, StartupIInv, Alone, HoldsLock
  <2> QED
    BY <1>1, <2>1, <2>2, <2>4, <2>5, <2>6, GoesInside DEF StartupIInv, StaleFilesDoNotRefuse
<1>3. CASE Holder(lock_fd[d]) # {}
  <2>1. /\ pc' = [pc EXCEPT ![d] = "undo"] /\ lock_fd' = [lock_fd EXCEPT ![d] = NoFile]
        /\ Refuse(d) /\ UNCHANGED locked
    BY <1>3 DEF SetLock, Goto
  <2>2. "undo" \in Labels /\ "undo" \in Outside
    BY DEF Labels, Outside
  <2>3. pc' \in [Daemons -> Labels]
    BY <2>1, <2>2, Goes DEF StartupIInv
  <2>4. TypesOK'
    BY <1>1, <2>1, <2>3 DEF files, StartupIInv, TypesOK, Made
  <2>5. refused' = refused
    <3>1. PICK e \in locked : e \in Holder(lock_fd[d])
      BY <1>3 DEF Holder
    <3>2. e \in Entered \ {d}
      BY <1>1, HoldersAreIn DEF StartupIInv
    <3> QED
      BY <2>1, <3>2 DEF Refuse
  <2>6. \A e \in locked' : e # d /\ e \in locked
    BY <1>1, <2>1
  <2> QED
    BY <1>1, <2>1, <2>2, <2>4, <2>5, <2>6, GoesInside DEF StartupIInv, StaleFilesDoNotRefuse
<1> QED
  BY <1>2, <1>3

(* One that is alone has removed the socket; for another one it may be there. *)
LEMMA StepBind ==
    ASSUME StartupIInv, NEW d \in Daemons, Bind(d)
    PROVE  StartupIInv'
<1>1. pc[d] = "bind" /\ d \in Entered /\ UNCHANGED <<has, lock_path, lock_fd, locked, listening, met>>
  BY DEF Bind, Entered
<1>2. CASE sock_path = NoFile
  <2>1. /\ made < MaxFiles /\ made' = made + 1 /\ UNCHANGED refused
        /\ sock_path' = made + 1 /\ sock_fd' = [sock_fd EXCEPT ![d] = made + 1]
        /\ pc' = [pc EXCEPT ![d] = "listen"]
    BY <1>2 DEF Bind, Goto
  <2>2. "listen" \in Labels /\ "listen" \in HoldsLock
    BY DEF Labels, HoldsLock
  <2>3. pc' \in [Daemons -> Labels] /\ pc'[d] = "listen"
    BY <2>1, <2>2, Goes DEF StartupIInv
  <2>4. made' \in 0 .. MaxFiles /\ Made \subseteq Made' /\ made + 1 \in Made'
    BY <2>1, NoFileIsNone DEF StartupIInv, TypesOK, Made
  <2>5. TypesOK'
    BY <1>1, <2>1, <2>3, <2>4 DEF StartupIInv, TypesOK
  <2>6. ASSUME d \in Unmet, Entered' = {d}
        PROVE  Alone(d)'
    <3>1. sock_fd'[d] = sock_path'
      BY <2>1 DEF StartupIInv, TypesOK
    <3> QED
      BY <1>1, <2>3, <2>6, <3>1 DEF StartupIInv, Alone, HoldsLock
  <2> QED
    BY <1>1, <2>1, <2>2, <2>5, <2>6, GoesInside DEF StartupIInv, StaleFilesDoNotRefuse
<1>3. CASE sock_path # NoFile
  <2>1. pc' = [pc EXCEPT ![d] = "fail2"] /\ Refuse(d) /\ UNCHANGED <<made, sock_path, sock_fd>>
    BY <1>3 DEF Bind, Goto
  <2>2. "fail2" \in Labels /\ "fail2" \in HoldsLock
    BY DEF Labels, HoldsLock
  <2>3. pc' \in [Daemons -> Labels] /\ pc'[d] = "fail2"
    BY <2>1, <2>2, Goes DEF StartupIInv
  <2>4. TypesOK'
    BY <1>1, <2>1, <2>3 DEF StartupIInv, TypesOK, Made
  <2>5. d \notin Unmet /\ d \in met
    BY <1>1, <1>3 DEF StartupIInv, Alone, Unmet
  <2>6. refused' \subseteq met
    BY <2>1, <2>5 DEF Refuse, StartupIInv, StaleFilesDoNotRefuse
  <2> QED
    BY <1>1, <2>1, <2>2, <2>4, <2>5, <2>6, GoesInside
<1> QED
  BY <1>2, <1>3

(* The daemon serves, with everything in place. *)
LEMMA StepListen ==
    ASSUME StartupIInv, NEW d \in Daemons, Listen(d)
    PROVE  StartupIInv'
<1>1. pc[d] = "listen" /\ d \in Entered /\ pc' = [pc EXCEPT ![d] = "run"]
  BY DEF Listen, At, Goto, Entered
<1>2. "run" \in Labels /\ UNCHANGED history
  BY DEF Listen, Labels, Outside, HoldsLock
<1>3. pc' \in [Daemons -> Labels] /\ pc'[d] = "run"
  BY <1>1, <1>2, Goes DEF StartupIInv
<1>4. TypesOK'
  BY <1>3 DEF Listen, files, ipc, StartupIInv, TypesOK, Made
<1>5. \A e \in locked' : IF e = d THEN "run" \in HoldsLock ELSE e \in locked
  BY <1>1 DEF Listen, files, ipc, StartupIInv, Held, HoldsLock
<1>6. ASSUME d \in Unmet, Entered' = {d}
      PROVE  Alone(d)' \/ "run" \in Outside \cup {"fail2 close"}
  BY <1>1, <1>3, <1>6 DEF Listen, files, ipc, StartupIInv, TypesOK, Alone, HoldsLock, Outside
<1> QED
  BY <1>1, <1>2, <1>4, <1>5, <1>6, GoesInside DEF history, Outside, StartupIInv, StaleFilesDoNotRefuse

(* socket, listen or what follows fails. *)
LEMMA StepSocketFails ==
    ASSUME StartupIInv, NEW d \in Daemons, SocketFails(d)
    PROVE  StartupIInv'
<1>1. pc[d] \in {"bind", "listen"} /\ d \in Entered /\ pc' = [pc EXCEPT ![d] = "fail2"]
  BY DEF SocketFails, At, Goto, Entered
<1>2. "fail2" \in Labels /\ "fail2" \in HoldsLock /\ UNCHANGED <<files, ipc, history>>
  BY DEF SocketFails, Labels, HoldsLock
<1>3. pc' \in [Daemons -> Labels] /\ pc'[d] = "fail2"
  BY <1>1, <1>2, Goes DEF StartupIInv
<1>4. TypesOK'
  BY <1>2, <1>3 DEF files, ipc, StartupIInv, TypesOK, Made
<1>5. ASSUME d \in Unmet, Entered' = {d}
      PROVE  Alone(d)'
  BY <1>1, <1>2, <1>3, <1>5 DEF files, ipc, StartupIInv, Alone, HoldsLock
<1> QED
  BY <1>1, <1>2, <1>4, <1>5, GoesInside DEF ipc, history, StartupIInv, StaleFilesDoNotRefuse

LEMMA StepFail2 ==
    ASSUME StartupIInv, NEW d \in Daemons, Fail2(d)
    PROVE  StartupIInv'
<1>1. pc[d] = "fail2" /\ d \in Entered /\ pc' = [pc EXCEPT ![d] = "fail2 close"]
  BY DEF Fail2, At, Goto, Entered
<1>2. "fail2 close" \in Labels /\ UNCHANGED history
  BY DEF Fail2, Labels, Outside, HoldsLock
<1>3. pc' \in [Daemons -> Labels] /\ pc'[d] = "fail2 close"
  BY <1>1, <1>2, Goes DEF StartupIInv
<1>4. TypesOK'
  BY <1>3 DEF Fail2, files, ipc, StartupIInv, TypesOK, Made
<1>5. \A e \in locked' : IF e = d THEN "fail2 close" \in HoldsLock ELSE e \in locked
  BY <1>1 DEF Fail2, files, ipc, StartupIInv, Held, HoldsLock
<1>6. ASSUME d \in Unmet, Entered' = {d}
      PROVE  Alone(d)' \/ "fail2 close" \in Outside \cup {"fail2 close"}
  BY <1>1, <1>3, <1>6 DEF Fail2, files, ipc, StartupIInv, TypesOK, Alone, HoldsLock, Outside
<1> QED
  BY <1>1, <1>2, <1>4, <1>5, <1>6, GoesInside DEF history, Outside, StartupIInv, StaleFilesDoNotRefuse

LEMMA StepFail2Close ==
    ASSUME StartupIInv, NEW d \in Daemons, Fail2Close(d)
    PROVE  StartupIInv'
<1>1. pc[d] = "fail2 close" /\ d \in Entered /\ pc' = [pc EXCEPT ![d] = "undo"]
  BY DEF Fail2Close, At, Goto, Entered
<1>2. "undo" \in Labels /\ UNCHANGED history
  BY DEF Fail2Close, Labels, Outside, HoldsLock
<1>3. pc' \in [Daemons -> Labels] /\ pc'[d] = "undo"
  BY <1>1, <1>2, Goes DEF StartupIInv
<1>4. TypesOK'
  BY <1>3 DEF Fail2Close, CloseAll, files, ipc, StartupIInv, TypesOK, Made
<1>5. \A e \in locked' : IF e = d THEN "undo" \in HoldsLock ELSE e \in locked
  BY <1>1 DEF Fail2Close, CloseAll, files, ipc, StartupIInv, Held, HoldsLock
<1>6. ASSUME d \in Unmet, Entered' = {d}
      PROVE  Alone(d)' \/ "undo" \in Outside \cup {"fail2 close"}
  BY <1>1, <1>3, <1>6 DEF Fail2Close, CloseAll, files, ipc, StartupIInv, TypesOK, Alone, HoldsLock, Outside
<1> QED
  BY <1>1, <1>2, <1>4, <1>5, <1>6, GoesInside DEF history, Outside, StartupIInv, StaleFilesDoNotRefuse

-----------------------------------------------------------------------------
(* The end                                                                   *)

(* main leaves its loop. *)
LEMMA StepStopMain ==
    ASSUME StartupIInv, NEW d \in Daemons, StopMain(d)
    PROVE  StartupIInv'
<1>1. pc[d] = "run" /\ d \in Entered /\ pc' = [pc EXCEPT ![d] = "close"]
  BY DEF StopMain, At, Goto, Entered
<1>2. "close" \in Labels /\ UNCHANGED history
  BY DEF StopMain, Labels, Outside, HoldsLock
<1>3. pc' \in [Daemons -> Labels] /\ pc'[d] = "close"
  BY <1>1, <1>2, Goes DEF StartupIInv
<1>4. TypesOK'
  BY <1>3 DEF StopMain, files, ipc, StartupIInv, TypesOK, Made
<1>5. \A e \in locked' : IF e = d THEN "close" \in HoldsLock ELSE e \in locked
  BY <1>1 DEF StopMain, files, ipc, StartupIInv, Held, HoldsLock
<1>6. ASSUME d \in Unmet, Entered' = {d}
      PROVE  Alone(d)' \/ "close" \in Outside \cup {"fail2 close"}
  BY <1>1, <1>3, <1>6 DEF StopMain, files, ipc, StartupIInv, TypesOK, Alone, HoldsLock, Outside
<1> QED
  BY <1>1, <1>2, <1>4, <1>5, <1>6, GoesInside DEF history, Outside, StartupIInv, StaleFilesDoNotRefuse

(* ipc_uninit *)
LEMMA StepCloseServer ==
    ASSUME StartupIInv, NEW d \in Daemons, CloseServer(d)
    PROVE  StartupIInv'
<1>1. pc[d] = "close" /\ d \in Entered /\ pc' = [pc EXCEPT ![d] = "remove socket"]
  BY DEF CloseServer, At, Goto, Entered
<1>2. "remove socket" \in Labels /\ UNCHANGED history
  BY DEF CloseServer, Labels, Outside, HoldsLock
<1>3. pc' \in [Daemons -> Labels] /\ pc'[d] = "remove socket"
  BY <1>1, <1>2, Goes DEF StartupIInv
<1>4. TypesOK'
  BY <1>3 DEF CloseServer, CloseAll, files, ipc, StartupIInv, TypesOK, Made
<1>5. \A e \in locked' : IF e = d THEN "remove socket" \in HoldsLock ELSE e \in locked
  BY <1>1 DEF CloseServer, CloseAll, files, ipc, StartupIInv, Held, HoldsLock
<1>6. ASSUME d \in Unmet, Entered' = {d}
      PROVE  Alone(d)' \/ "remove socket" \in Outside \cup {"fail2 close"}
  BY <1>1, <1>3, <1>6 DEF CloseServer, CloseAll, files, ipc, StartupIInv, TypesOK, Alone, HoldsLock, Outside
<1> QED
  BY <1>1, <1>2, <1>4, <1>5, <1>6, GoesInside DEF history, Outside, StartupIInv, StaleFilesDoNotRefuse

LEMMA StepRemoveSocket ==
    ASSUME StartupIInv, NEW d \in Daemons, RemoveSocket(d)
    PROVE  StartupIInv'
<1>1. pc[d] = "remove socket" /\ d \in Entered /\ pc' = [pc EXCEPT ![d] = "remove lock"]
  BY DEF RemoveSocket, At, Goto, Entered
<1>2. "remove lock" \in Labels /\ UNCHANGED history
  BY DEF RemoveSocket, Labels, Outside, HoldsLock
<1>3. pc' \in [Daemons -> Labels] /\ pc'[d] = "remove lock"
  BY <1>1, <1>2, Goes DEF StartupIInv
<1>4. TypesOK'
  BY <1>3 DEF RemoveSocket, files, ipc, StartupIInv, TypesOK, Made
<1>5. \A e \in locked' : IF e = d THEN "remove lock" \in HoldsLock ELSE e \in locked
  BY <1>1 DEF RemoveSocket, files, ipc, StartupIInv, Held, HoldsLock
<1>6. ASSUME d \in Unmet, Entered' = {d}
      PROVE  Alone(d)' \/ "remove lock" \in Outside \cup {"fail2 close"}
  BY <1>1, <1>3, <1>6 DEF RemoveSocket, files, ipc, StartupIInv, TypesOK, Alone, HoldsLock, Outside
<1> QED
  BY <1>1, <1>2, <1>4, <1>5, <1>6, GoesInside DEF history, Outside, StartupIInv, StaleFilesDoNotRefuse

LEMMA StepRemoveLock ==
    ASSUME StartupIInv, NEW d \in Daemons, RemoveLock(d)
    PROVE  StartupIInv'
<1>1. pc[d] = "remove lock" /\ d \in Entered /\ pc' = [pc EXCEPT ![d] = "undo"]
  BY DEF RemoveLock, At, Goto, Entered
<1>2. "undo" \in Labels /\ UNCHANGED history
  BY DEF RemoveLock, Labels, Outside, HoldsLock
<1>3. pc' \in [Daemons -> Labels] /\ pc'[d] = "undo"
  BY <1>1, <1>2, Goes DEF StartupIInv
<1>4. TypesOK'
  BY <1>3 DEF RemoveLock, files, ipc, StartupIInv, TypesOK, Made
<1>5. \A e \in locked' : IF e = d THEN "undo" \in HoldsLock ELSE e \in locked
  BY <1>1 DEF RemoveLock, files, ipc, StartupIInv, Held, HoldsLock
<1>6. ASSUME d \in Unmet, Entered' = {d}
      PROVE  Alone(d)' \/ "undo" \in Outside \cup {"fail2 close"}
  BY <1>1, <1>3, <1>6 DEF RemoveLock, files, ipc, StartupIInv, TypesOK, Alone, HoldsLock, Outside
<1> QED
  BY <1>1, <1>2, <1>4, <1>5, <1>6, GoesInside DEF history, Outside, StartupIInv, StaleFilesDoNotRefuse

(* The kernel closes what a killed process had; its files stay, and nobody   *)
(* takes them for his own.                                                   *)
LEMMA StepKilled ==
    ASSUME StartupIInv, NEW d \in Daemons, Killed(d)
    PROVE  StartupIInv'
<1> USE DEF StartupIInv
<1>1. pc' = [pc EXCEPT ![d] = "exited"] /\ "exited" \in Labels /\ "exited" \in Outside
  BY DEF Killed, Goto, Labels, Outside
<1>2. /\ pc' \in [Daemons -> Labels] /\ pc'[d] = "exited"
      /\ \A e \in Daemons \ {d} : pc'[e] = pc[e]
      /\ Entered' = Entered \ {d}
  BY <1>1, Goes
<1>3. TypesOK'
  BY <1>2 DEF Killed, CloseAll, files, TypesOK, Made
<1>4. Held'
  BY <1>2 DEF Killed, CloseAll, TypesOK, Held
<1>5. ASSUME NEW e \in Unmet'
      PROVE  Alone(e)'
  <2>1. e \in Daemons /\ e # d /\ e \in Unmet /\ pc'[e] = pc[e]
    BY <1>2 DEF Unmet, Entered, Killed, history
  <2>2. /\ UNCHANGED files /\ lock_fd'[e] = lock_fd[e] /\ sock_fd'[e] = sock_fd[e]
        /\ (e \in locked => e \in locked') /\ (e \in listening => e \in listening')
    BY <2>1 DEF Killed, CloseAll, TypesOK
  <2> QED
    BY <1>2, <2>1, <2>2 DEF Alone, files
<1> QED
  BY <1>3, <1>4, <1>5 DEF Killed, history, StaleFilesDoNotRefuse

-----------------------------------------------------------------------------
LEMMA InitKeeps ==
    ASSUME StartupInit
    PROVE  StartupIInv
<1>1. TypesOK
  BY NoFileIsNone DEF StartupInit, TypesOK, Labels, Outside, Made
<1>2. Unmet = {}
  BY DEF StartupInit, Unmet, Entered
<1> QED
  BY <1>1, <1>2 DEF StartupInit, StartupIInv, Held, StaleFilesDoNotRefuse

LEMMA StepKeeps ==
    ASSUME StartupIInv, StartupNext
    PROVE  StartupIInv'
<1>1. ASSUME NEW d \in Daemons,
             \/ StartMain(d) \/ InitFails(d, "database") \/ InitFails(d, "wayland") \/ Undo(d)
             \/ Initialise(d, "database", "wayland") \/ Initialise(d, "wayland", "ipc")
      PROVE  StartupIInv'
  <2>1. PICK l \in Outside : pc' = [pc EXCEPT ![d] = l] /\ pc[d] \in Outside /\ UNCHANGED <<files, ipc, history>>
    BY <1>1 DEF StartMain, InitFails, Undo, Initialise, At, Goto, Outside
  <2> QED
    BY <2>1, GoesQuietly DEF history, StartupIInv, StaleFilesDoNotRefuse
<1>2. ASSUME NEW d \in Daemons, Server(d)
      PROVE  StartupIInv'
  BY <1>2, StepCheckLock, StepUnlinkSocket, StepUnlinkLock, StepOpenLock, StepSetLock, StepBind, StepListen,
     StepFail2, StepFail2Close, StepCloseServer, StepRemoveSocket, StepRemoveLock DEF Server
<1>3. ASSUME NEW d \in Daemons, StopMain(d) \/ Killed(d) \/ SocketFails(d)
      PROVE  StartupIInv'
  BY <1>3, StepStopMain, StepKilled, StepSocketFails
<1> QED
  BY <1>1, <1>2, <1>3 DEF StartupNext, Proceed, Connect

LEMMA StutterKeeps ==
    ASSUME StartupIInv, UNCHANGED startupVars
    PROVE  StartupIInv'
BY DEF startupVars, files, ipc, history, StartupIInv, TypesOK, Held, Unmet, Alone, Entered,
       StaleFilesDoNotRefuse, Made

LEMMA InvariantHolds == StartupSpec => []StartupIInv
<1>1. StartupInit => StartupIInv
  BY InitKeeps
<1>2. StartupIInv /\ [StartupNext]_startupVars => StartupIInv'
  BY StepKeeps, StutterKeeps
<1> QED
  BY <1>1, <1>2, PTL DEF StartupSpec

-----------------------------------------------------------------------------
(* Whatever starts, ends and is killed meanwhile, and in whatever order: a     *)
(* daemon that met no other between its look at the lock and the lock is the   *)
(* only one that serves, has the socket and the lock that the paths lead to,   *)
(* and keeps every later start away.  (ipc_init, ipc_uninit)                  *)
THEOREM ServerIsAlwaysFound == StartupSpec => []ServerIsFound
<1>1. StartupIInv => ServerIsFound
  <2> SUFFICES ASSUME StartupIInv, NEW d \in Running \ met
               PROVE  /\ Running = {d} /\ sock_path = sock_fd[d] /\ d \in listening
                      /\ lock_path = lock_fd[d] /\ d \in locked
    BY DEF ServerIsFound
  <2>1. d \in Unmet /\ pc[d] = "run" /\ Running \subseteq Entered
    BY DEF Running, Unmet, Entered
  <2> QED
    BY <2>1 DEF StartupIInv, Alone, HoldsLock
<1> QED
  BY <1>1, InvariantHolds, PTL

(* A start that is refused meets another process at work on the server, before *)
(* or behind the lock: neither a socket nor a lock file of a daemon that is    *)
(* gone is in its way.  (lock_is_locked, create_lock, bind)                   *)
THEOREM StaleFilesNeverRefuse == StartupSpec => []StaleFilesDoNotRefuse
<1>1. StartupIInv => StaleFilesDoNotRefuse
  BY DEF StartupIInv
<1> QED
  BY <1>1, InvariantHolds, PTL

=============================================================================
