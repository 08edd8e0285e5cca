-------------------------- MODULE SelectionsProofs --------------------------
(***************************************************************************)
(* The safety of Selections, for any number of seats and contents and any  *)
(* traffic between the daemon and the compositor.                          *)
(*                                                                         *)
(* The properties are about a connection at rest.  The invariant says what  *)
(* each message under way stands for: who destroys a source, who cancels it *)
(* and which request is the last word on a selection.  First come queues    *)
(* and what each handler does to the two of them, then the parts of the     *)
(* invariant, each followed through the actions.                           *)
(***************************************************************************)
EXTENDS Selections, RanksProofs, TLAPS

-----------------------------------------------------------------------------
(* Queues.  A queue evolves: some of its elements are taken out and new ones   *)
(* are put at its end.  g[i] is the new place of the element at i, 0 if it is  *)
(* taken out, and the first k elements of the new queue are old.              *)

Evolves(q, p, g, k) ==
    /\ k \in 0 .. Len(p)
    /\ g \in [DOMAIN q -> 0 .. k]
    /\ \A i \in DOMAIN q : g[i] # 0 => p[g[i]] = q[i]
    /\ \A j \in 1 .. k : \E i \in DOMAIN q : g[i] = j
    /\ \A i, j \in DOMAIN q : g[i] # 0 /\ g[j] # 0 => (i < j <=> g[i] < g[j])

LEMMA SameEvolves ==
    ASSUME NEW T, NEW q \in Seq(T)
    PROVE  \E g, k : /\ Evolves(q, q, g, k)
                     /\ k = Len(q)
                     /\ \A i \in DOMAIN q : g[i] # 0
<1> DEFINE g == [i \in DOMAIN q |-> i]
<1>1. Len(q) \in Nat /\ DOMAIN q = 1 .. Len(q)
  OBVIOUS
<1>2. \A i \in DOMAIN q : g[i] = i
  OBVIOUS
<1>3. g \in [DOMAIN q -> 0 .. Len(q)]
  BY <1>1
<1> HIDE DEF g
<1>4. Evolves(q, q, g, Len(q))
  BY <1>1, <1>2, <1>3 DEF Evolves
<1> QED
  BY <1>1, <1>2, <1>4

LEMMA TailEvolves ==
    ASSUME NEW T, NEW q \in Seq(T), q # <<>>
    PROVE  \E g, k : /\ Evolves(q, Tail(q), g, k)
                     /\ k = Len(Tail(q))
                     /\ \A i \in DOMAIN q : g[i] = 0 <=> i = 1
<1> DEFINE g == [i \in DOMAIN q |-> i - 1]
           t == Tail(q)
<1>1. /\ Len(q) \in Nat /\ DOMAIN q = 1 .. Len(q) /\ Len(q) # 0
      /\ Len(t) = Len(q) - 1
      /\ \A j \in 1 .. Len(q) - 1 : t[j] = q[j + 1]
  OBVIOUS
<1>2. \A i \in DOMAIN q : g[i] = i - 1
  OBVIOUS
<1>3. g \in [DOMAIN q -> 0 .. Len(q) - 1]
  BY <1>1
<1> HIDE DEF g, t
<1>4. \A j \in 1 .. Len(q) - 1 : j + 1 \in DOMAIN q /\ g[j + 1] = j
  BY <1>1, <1>2
<1>5. \A i \in DOMAIN q : g[i] # 0 => t[g[i]] = q[i]
  BY <1>1, <1>2
<1>6. Evolves(q, t, g, Len(t))
  <2>1. Len(t) \in 0 .. Len(t) /\ g \in [DOMAIN q -> 0 .. Len(t)]
    BY <1>1, <1>3
  <2>2. \A j \in 1 .. Len(t) : \E i \in DOMAIN q : g[i] = j
    BY <1>1, <1>4
  <2>3. \A i, j \in DOMAIN q : g[i] # 0 /\ g[j] # 0 => (i < j <=> g[i] < g[j])
    BY <1>1, <1>2
  <2> QED
    BY <1>5, <2>1, <2>2, <2>3 DEF Evolves
<1>7. \A i \in DOMAIN q : g[i] = 0 <=> i = 1
  BY <1>1, <1>2
<1> QED
  BY <1>6, <1>7 DEF t

LEMMA ConcatEvolves ==
    ASSUME NEW T, NEW q \in Seq(T), NEW r \in Seq(T)
    PROVE  \E g, k : /\ Evolves(q, q \o r, g, k)
                     /\ k = Len(q)
                     /\ \A i \in DOMAIN q : g[i] # 0
<1> DEFINE g == [i \in DOMAIN q |-> i]
           p == q \o r
<1>1. /\ Len(q) \in Nat /\ DOMAIN q = 1 .. Len(q) /\ Len(r) \in Nat
      /\ Len(p) = Len(q) + Len(r)
      /\ \A i \in 1 .. Len(q) : p[i] = q[i]
  OBVIOUS
<1>2. \A i \in DOMAIN q : g[i] = i
  OBVIOUS
<1>3. g \in [DOMAIN q -> 0 .. Len(q)]
  BY <1>1
<1> HIDE DEF g, p
<1>4. Evolves(q, p, g, Len(q))
  BY <1>1, <1>2, <1>3 DEF Evolves
<1>5. \A i \in DOMAIN q : g[i] # 0
  BY <1>1, <1>2
<1> QED
  BY <1>4, <1>5 DEF p

(* What a concatenation adds. *)
LEMMA ConcatNew ==
    ASSUME NEW T, NEW q \in Seq(T), NEW r \in Seq(T)
    PROVE  /\ q \o r \in Seq(T) /\ Len(q \o r) = Len(q) + Len(r) /\ Len(q) \in Nat
           /\ \A n \in 1 .. Len(q) : (q \o r)[n] = q[n]
           /\ \A n \in Len(q) + 1 .. Len(q \o r) : \E j \in DOMAIN r : (q \o r)[n] = r[j] /\ n = Len(q) + j
           /\ \A j \in DOMAIN r : /\ Len(q) + j \in Len(q) + 1 .. Len(q \o r)
                                  /\ (q \o r)[Len(q) + j] = r[j]
<1> DEFINE p == q \o r
<1>1. /\ Len(q) \in Nat /\ Len(r) \in Nat /\ DOMAIN r = 1 .. Len(r)
      /\ p \in Seq(T)
      /\ Len(p) = Len(q) + Len(r)
      /\ \A n \in 1 .. Len(q) : p[n] = q[n]
      /\ \A n \in 1 .. Len(q) + Len(r) : n > Len(q) => p[n] = r[n - Len(q)]
  OBVIOUS
<1> HIDE DEF p
<1>2. ASSUME NEW n \in Len(q) + 1 .. Len(p)
      PROVE  \E j \in DOMAIN r : p[n] = r[j] /\ n = Len(q) + j
  <2>1. n - Len(q) \in DOMAIN r /\ p[n] = r[n - Len(q)] /\ n = Len(q) + (n - Len(q))
    BY <1>1
  <2> QED
    BY <2>1
<1>3. ASSUME NEW j \in DOMAIN r
      PROVE  Len(q) + j \in Len(q) + 1 .. Len(p) /\ p[Len(q) + j] = r[j]
  <2>1. Len(q) + j \in Len(q) + 1 .. Len(p) /\ (Len(q) + j) - Len(q) = j
    BY <1>1
  <2>2. p[Len(q) + j] = r[(Len(q) + j) - Len(q)]
    BY <1>1, <2>1
  <2> QED
    BY <2>1, <2>2
<1> QED
  BY <1>1, <1>2, <1>3 DEF p

LEMMA KeepEvolves ==
    ASSUME NEW T, NEW q \in Seq(T), NEW P
    PROVE  /\ Keep(q, P) \in Seq(T)
           /\ \E g, k : /\ Evolves(q, Keep(q, P), g, k)
                        /\ k = Len(Keep(q, P))
                        /\ \A i \in DOMAIN q : g[i] = 0 <=> q[i] \notin P
<1> DEFINE S == {i \in DOMAIN q : q[i] \in P}
           p == Keep(q, P)
           size == Cardinality(S)
           g == [i \in DOMAIN q |-> IF i \in S THEN Rank(S, i) ELSE 0]
<1>1. /\ Len(q) \in Nat /\ DOMAIN q = 1 .. Len(q)
      /\ S \in SUBSET Nat /\ S \in SUBSET (DOMAIN q)
  OBVIOUS
<1>2. IsFiniteSet(S)
  <2>1. IsFiniteSet(1 .. Len(q))
    BY <1>1, UpTo
  <2> HIDE DEF S
  <2> QED
    BY <1>1, <2>1, FS_Subset
<1>3. size \in Nat
  BY <1>2, FS_CardinalityType
<1>4. p \in Seq(T)
  BY KeepOfList
<1>5. Len(p) = size
  BY <1>1, AtPlacesOfList DEF Keep
<1>6. \A j \in 1 .. size : p[j] = q[Nth(S, j)]
  BY DEF Keep, AtPlaces
<1>7. \A i \in S : Rank(S, i) \in 1 .. size
  BY <1>1, <1>2, RankOrder
<1>8. \A i, j \in S : i < j <=> Rank(S, i) < Rank(S, j)
  BY <1>1, <1>2, RankOrder
<1>9. \A i \in S : Nth(S, Rank(S, i)) = i
  BY <1>1, <1>2, NthOfRank
<1>10. \A j \in 1 .. size : Nth(S, j) \in S /\ Rank(S, Nth(S, j)) = j
  BY <1>1, <1>2, NthElement
<1>11. \A i \in DOMAIN q : g[i] = IF i \in S THEN Rank(S, i) ELSE 0
  OBVIOUS
<1>12. \A i \in DOMAIN q : i \in S <=> q[i] \in P
  OBVIOUS
<1> HIDE DEF S, p, size
<1>13. g \in [DOMAIN q -> 0 .. size]
  BY <1>3, <1>7
<1> HIDE DEF g
<1>14. \A i \in DOMAIN q : g[i] # 0 <=> i \in S
  BY <1>3, <1>7, <1>11
<1>15. \A i \in DOMAIN q : g[i] # 0 => p[g[i]] = q[i]
  BY <1>6, <1>7, <1>9, <1>11, <1>14
<1>16. \A j \in 1 .. size : \E i \in DOMAIN q : g[i] = j
  BY <1>1, <1>10, <1>11
<1>17. \A i, j \in DOMAIN q : g[i] # 0 /\ g[j] # 0 => (i < j <=> g[i] < g[j])
  BY <1>8, <1>11, <1>14
<1>18. Evolves(q, p, g, size)
  <2>1. size \in 0 .. Len(p)
    BY <1>3, <1>5
  <2> QED
    BY <1>13, <1>15, <1>16, <1>17, <2>1 DEF Evolves
<1>19. \A i \in DOMAIN q : g[i] = 0 <=> q[i] \notin P
  BY <1>12, <1>14
<1> QED
  BY <1>4, <1>5, <1>18, <1>19 DEF p

(* Two steps in one, of which the first adds nothing. *)
LEMMA TwiceEvolves ==
    ASSUME NEW T, NEW q \in Seq(T), NEW p \in Seq(T), NEW r \in Seq(T),
           NEW g, NEW h, NEW l,
           Evolves(q, p, g, Len(p)), Evolves(p, r, h, l)
    PROVE  \E d : /\ Evolves(q, r, d, l)
                  /\ \A i \in DOMAIN q : d[i] = 0 <=> g[i] = 0 \/ h[g[i]] = 0
<1> DEFINE d == [i \in DOMAIN q |-> IF g[i] = 0 THEN 0 ELSE h[g[i]]]
<1>1. /\ Len(q) \in Nat /\ DOMAIN q = 1 .. Len(q)
      /\ Len(p) \in Nat /\ DOMAIN p = 1 .. Len(p)
      /\ Len(r) \in Nat
  OBVIOUS
<1>2. \A i \in DOMAIN q : d[i] = IF g[i] = 0 THEN 0 ELSE h[g[i]]
  OBVIOUS
<1>3. \A i \in DOMAIN q : g[i] # 0 => g[i] \in DOMAIN p
  BY <1>1 DEF Evolves
<1>4. l \in Nat /\ \A j \in DOMAIN p : h[j] \in 0 .. l
  BY <1>1 DEF Evolves
<1>5. d \in [DOMAIN q -> 0 .. l]
  BY <1>3, <1>4
<1> HIDE DEF d
<1>6. \A i \in DOMAIN q : d[i] # 0 => r[d[i]] = q[i]
  BY <1>2, <1>3 DEF Evolves
<1>7. ASSUME NEW j \in 1 .. l
      PROVE  \E i \in DOMAIN q : d[i] = j
  <2>1. PICK m \in DOMAIN p : h[m] = j
    BY DEF Evolves
  <2>2. PICK i \in DOMAIN q : g[i] = m
    BY <1>1 DEF Evolves
  <2>3. d[i] = j
    BY <1>1, <1>2, <2>1, <2>2
  <2> QED
    BY <2>3
<1>8. \A i, j \in DOMAIN q : d[i] # 0 /\ d[j] # 0 => (i < j <=> d[i] < d[j])
  <2> SUFFICES ASSUME NEW i \in DOMAIN q, NEW j \in DOMAIN q, d[i] # 0, d[j] # 0
               PROVE  i < j <=> d[i] < d[j]
    OBVIOUS
  <2>1. /\ g[i] # 0 /\ d[i] = h[g[i]] /\ g[i] \in DOMAIN p
        /\ g[j] # 0 /\ d[j] = h[g[j]] /\ g[j] \in DOMAIN p
    BY <1>2, <1>3
  <2>2. i < j <=> g[i] < g[j]
    BY <2>1 DEF Evolves
  <2>3. g[i] < g[j] <=> h[g[i]] < h[g[j]]
    BY <2>1 DEF Evolves
  <2> QED
    BY <2>1, <2>2, <2>3
<1>9. Evolves(q, r, d, l)
  BY <1>5, <1>6, <1>7, <1>8 DEF Evolves
<1>10. \A i \in DOMAIN q : d[i] = 0 <=> g[i] = 0 \/ h[g[i]] = 0
  BY <1>2
<1> QED
  BY <1>9, <1>10

-----------------------------------------------------------------------------
(* Messages *)

Requests ==
    {DeviceRequest(s) : s \in Seats}
    \cup {DestroyRequest(sel, k) : sel \in Selection, k \in SourceIds}
    \cup {SetRequest(sel, None, None) : sel \in Selection}
    \cup {SetRequest(sel, k, c) : sel \in Selection, k \in SourceIds, c \in Contents}

Events ==
    {SeatEvent(t, s) : t \in {"name", "removed"}, s \in Seats}
    \cup {SelectionEvent(sel, c) : sel \in Selection, c \in Contents \cup {None}}
    \cup {Cancelled(sel, k) : sel \in Selection, k \in SourceIds}

Owners ==
    {Empty} \cup {AppOwner(c) : c \in Contents}
            \cup {DaemonOwner(k, c) : k \in SourceIds, c \in Contents}

(* A set or destroy request, or an event, about a selection. *)
IsSet(q, sel)     == q.op = "set" /\ q.sel = sel
IsNews(e, sel)    == e.type = "selection" /\ e.sel = sel

LEMMA RequestsMade ==
    /\ \A s \in Seats : DeviceRequest(s) \in Requests
    /\ \A sel \in Selection :
           /\ SetRequest(sel, None, None) \in Requests
           /\ \A k \in SourceIds : /\ DestroyRequest(sel, k) \in Requests
                                   /\ \A c \in Contents : SetRequest(sel, k, c) \in Requests
BY DEF Requests

LEMMA EventsMade ==
    /\ \A s \in Seats : SeatEvent("name", s) \in Events /\ SeatEvent("removed", s) \in Events
    /\ \A sel \in Selection :
           /\ \A c \in Contents \cup {None} : SelectionEvent(sel, c) \in Events
           /\ \A k \in SourceIds : Cancelled(sel, k) \in Events
BY DEF Events

LEMMA RequestFields ==
    /\ \A s : DeviceRequest(s).op = "device" /\ DeviceRequest(s).seat = s
    /\ \A sel, k : /\ DestroyRequest(sel, k).op = "destroy"
                   /\ DestroyRequest(sel, k).sel = sel /\ DestroyRequest(sel, k).source = k
    /\ \A sel, k, c : /\ SetRequest(sel, k, c).op = "set" /\ SetRequest(sel, k, c).sel = sel
                      /\ SetRequest(sel, k, c).source = k /\ SetRequest(sel, k, c).content = c
BY DEF DeviceRequest, DestroyRequest, SetRequest

LEMMA EventFields ==
    /\ \A t, s : SeatEvent(t, s).type = t /\ SeatEvent(t, s).seat = s
    /\ \A sel, c : /\ SelectionEvent(sel, c).type = "selection"
                   /\ SelectionEvent(sel, c).sel = sel /\ SelectionEvent(sel, c).content = c
    /\ \A sel, k : /\ Cancelled(sel, k).type = "cancelled"
                   /\ Cancelled(sel, k).sel = sel /\ Cancelled(sel, k).source = k
BY DEF SeatEvent, SelectionEvent, Cancelled

LEMMA OwnerFields ==
    /\ Empty.by = "none" /\ Empty.content = None /\ Empty.source = None
    /\ \A c : AppOwner(c).by = "app" /\ AppOwner(c).content = c /\ AppOwner(c).source = None
    /\ \A k, c : /\ DaemonOwner(k, c).by = "daemon"
                 /\ DaemonOwner(k, c).content = c /\ DaemonOwner(k, c).source = k
BY DEF Empty, AppOwner, DaemonOwner

LEMMA IdsAreSome == None \notin Contents /\ None \notin SourceIds /\ SourceIds \in SUBSET Nat
BY NoneAssumption, BoundsAssumption

LEMMA RequestIs ==
    ASSUME NEW q \in Requests
    PROVE  \/ q.op = "device" /\ q.seat \in Seats /\ q = DeviceRequest(q.seat)
           \/ /\ q.op = "destroy" /\ q.sel \in Selection /\ q.source \in SourceIds
              /\ q = DestroyRequest(q.sel, q.source)
           \/ /\ q.op = "set" /\ q.sel \in Selection
              /\ q = SetRequest(q.sel, q.source, q.content)
              /\ \/ q.source = None /\ q.content = None
                 \/ q.source \in SourceIds /\ q.content \in Contents
<1>1. CASE \E s \in Seats : q = DeviceRequest(s)
  BY <1>1, RequestFields
<1>2. CASE \E sel \in Selection, k \in SourceIds : q = DestroyRequest(sel, k)
  BY <1>2, RequestFields
<1>3. CASE \E sel \in Selection : q = SetRequest(sel, None, None)
  BY <1>3, RequestFields
<1>4. CASE \E sel \in Selection, k \in SourceIds, c \in Contents : q = SetRequest(sel, k, c)
  BY <1>4, RequestFields
<1> QED
  BY <1>1, <1>2, <1>3, <1>4 DEF Requests

LEMMA EventIs ==
    ASSUME NEW e \in Events
    PROVE  \/ e.type \in {"name", "removed"} /\ e.seat \in Seats /\ e = SeatEvent(e.type, e.seat)
           \/ /\ e.type = "selection" /\ e.sel \in Selection /\ e.content \in Contents \cup {None}
              /\ e = SelectionEvent(e.sel, e.content)
           \/ /\ e.type = "cancelled" /\ e.sel \in Selection /\ e.source \in SourceIds
              /\ e = Cancelled(e.sel, e.source)
<1>1. CASE \E t \in {"name", "removed"}, s \in Seats : e = SeatEvent(t, s)
  BY <1>1, EventFields
<1>2. CASE \E sel \in Selection, c \in Contents \cup {None} : e = SelectionEvent(sel, c)
  BY <1>2, EventFields
<1>3. CASE \E sel \in Selection, k \in SourceIds : e = Cancelled(sel, k)
  BY <1>3, EventFields
<1> QED
  BY <1>1, <1>2, <1>3 DEF Events

LEMMA OwnerIs ==
    ASSUME NEW o \in Owners
    PROVE  \/ o = Empty
           \/ o.by = "app" /\ o.content \in Contents /\ o.source = None /\ o = AppOwner(o.content)
           \/ /\ o.by = "daemon" /\ o.content \in Contents /\ o.source \in SourceIds
              /\ o = DaemonOwner(o.source, o.content)
<1>1. CASE o = Empty
  BY <1>1
<1>2. CASE \E c \in Contents : o = AppOwner(c)
  BY <1>2, OwnerFields
<1>3. CASE \E k \in SourceIds, c \in Contents : o = DaemonOwner(k, c)
  BY <1>3, OwnerFields
<1> QED
  BY <1>1, <1>2, <1>3 DEF Owners

-----------------------------------------------------------------------------
(* What a handler sends for a set of selections *)

LEMMA OrderOfSet ==
    ASSUME NEW S, IsFiniteSet(S)
    PROVE  /\ SetToSeq(S) \in Seq(S)
           /\ \A x \in S : \E j \in DOMAIN SetToSeq(S) : SetToSeq(S)[j] = x
<1> DEFINE n == Cardinality(S)
           o == SetToSeq(S)
<1>1. n \in Nat /\ ExistsBijection(1 .. n, S)
  BY FS_CardinalityType
<1>2. PICK b \in Bijection(1 .. n, S) : TRUE
  BY <1>1 DEF ExistsBijection
<1>3. b \in [1 .. n -> S] /\ IsInjective(b)
  BY <1>2 DEF Bijection, Injection
<1>4. o \in [1 .. n -> S] /\ IsInjective(o)
  BY <1>3 DEF SetToSeq
<1>5. o \in Injection(1 .. n, S)
  BY <1>4 DEF Injection
<1> HIDE DEF o, n
<1>6. Cardinality(1 .. n) = n
  BY <1>1, UpTo
<1>7. o \in Surjection(1 .. n, S)
  BY <1>5, <1>6, FS_Injection DEF n
<1>8. \A x \in S : \E j \in 1 .. n : o[j] = x
  BY <1>7 DEF Surjection
<1>9. o \in Seq(S) /\ DOMAIN o = 1 .. n
  BY <1>1, <1>4
<1> QED
  BY <1>8, <1>9 DEF o

LEMMA SelectionsAreFinite ==
    ASSUME NEW S \in SUBSET Selection
    PROVE  IsFiniteSet(S)
<1>1. IsFiniteSet({"regular", "primary"})
  <2>1. IsFiniteSet({"regular"}) /\ IsFiniteSet({"primary"})
    BY FS_Singleton
  <2>2. IsFiniteSet({"regular"} \cup {"primary"})
    BY <2>1, FS_Union
  <2>3. {"regular", "primary"} = {"regular"} \cup {"primary"}
    OBVIOUS
  <2> QED
    BY <2>2, <2>3
<1>2. IsFiniteSet(Selection)
  BY <1>1, SeatsAssumption, FS_Product DEF Selection
<1> QED
  BY <1>2, FS_Subset

LEMMA DestroysMade ==
    ASSUME source \in [Selection -> Source], NEW S \in SUBSET Selection
    PROVE  LET r == DestroyRequests(S)
           IN  /\ r \in Seq(Requests)
               /\ \A j \in DOMAIN r : \E sel \in S : source[sel] # None /\ r[j] = DestroyRequest(sel, source[sel])
               /\ \A sel \in S : source[sel] # None =>
                      \E j \in DOMAIN r : r[j] = DestroyRequest(sel, source[sel])
<1> DEFINE U == {sel \in S : source[sel] # None}
           order == SetToSeq(U)
           r == DestroyRequests(S)
<1>1. U \in SUBSET S /\ U \in SUBSET Selection /\ \A sel \in U : source[sel] \in SourceIds
  BY DEF Source
<1>2. \A sel \in S : sel \in U <=> source[sel] # None
  OBVIOUS
<1>3. r = [n \in DOMAIN order |-> DestroyRequest(order[n], source[order[n]])]
  BY DEF DestroyRequests
<1> HIDE DEF U, r
<1>4. order \in Seq(U) /\ \A x \in U : \E j \in DOMAIN order : order[j] = x
  BY <1>1, SelectionsAreFinite, OrderOfSet
<1> HIDE DEF order
<1>5. Len(order) \in Nat /\ DOMAIN order = 1 .. Len(order) /\ \A j \in DOMAIN order : order[j] \in U
  BY <1>4
<1>6. \A j \in DOMAIN order : r[j] = DestroyRequest(order[j], source[order[j]]) /\ r[j] \in Requests
  BY <1>1, <1>3, <1>5, RequestsMade
<1>7. r \in [1 .. Len(order) -> Requests]
  BY <1>3, <1>5, <1>6
<1>8. r \in Seq(Requests) /\ DOMAIN r = DOMAIN order
  BY <1>5, <1>7
<1> QED
  BY <1>1, <1>2, <1>4, <1>5, <1>6, <1>8 DEF r

(* The requests of r set the selections of S to their next sources for c.      *)
Sent(r, S, next, c) ==
    /\ r \in Seq(Requests)
    /\ \A j \in DOMAIN r : \E sel \in S :
           \/ r[j] = SetRequest(sel, next[sel], c)
           \/ source[sel] # None /\ r[j] = DestroyRequest(sel, source[sel])
    /\ \A sel \in S :
           /\ \E j \in DOMAIN r : r[j] = SetRequest(sel, next[sel], c)
           /\ source[sel] # None => \E j \in DOMAIN r : r[j] = DestroyRequest(sel, source[sel])

LEMMA SetsMade ==
    ASSUME source \in [Selection -> Source], NEW S \in SUBSET Selection,
           NEW c \in Contents \cup {None}, NEW next,
           \A sel \in S : IF c = None THEN next[sel] = None ELSE next[sel] \in SourceIds
    PROVE  Sent(SetRequests(S, next, c), S, next, c)
<1> DEFINE order == SetToSeq(S)
           Each(n) == LET sel == order[(n + 1) \div 2]
                      IN  IF n % 2 = 1 THEN DestroyRequest(sel, source[sel])
                                       ELSE SetRequest(sel, next[sel], c)
           all == [n \in 1 .. 2 * Len(order) |-> Each(n)]
           P == {q \in ToSet(all) : q.op = "destroy" => q.source # None}
           r == SetRequests(S, next, c)
<1>1. r = Keep(all, P)
  BY DEF SetRequests
<1>2. order \in Seq(S) /\ \A x \in S : \E j \in DOMAIN order : order[j] = x
  BY SelectionsAreFinite, OrderOfSet
<1> HIDE DEF order
<1>3. Len(order) \in Nat /\ DOMAIN order = 1 .. Len(order) /\ \A j \in DOMAIN order : order[j] \in S
  BY <1>2
<1>4. ASSUME NEW n \in 1 .. 2 * Len(order)
      PROVE  \E sel \in S : Each(n) = DestroyRequest(sel, source[sel]) \/ Each(n) = SetRequest(sel, next[sel], c)
  <2>1. (n + 1) \div 2 \in 1 .. Len(order)
    BY <1>3
  <2>2. order[(n + 1) \div 2] \in S
    BY <1>3, <2>1
  <2> QED
    BY <2>2
<1>5. ASSUME NEW j \in 1 .. Len(order)
      PROVE  /\ 2 * j \in 1 .. 2 * Len(order) /\ 2 * j - 1 \in 1 .. 2 * Len(order)
             /\ Each(2 * j) = SetRequest(order[j], next[order[j]], c)
             /\ Each(2 * j - 1) = DestroyRequest(order[j], source[order[j]])
  <2>1. /\ 2 * j \in 1 .. 2 * Len(order) /\ 2 * j - 1 \in 1 .. 2 * Len(order)
        /\ (2 * j + 1) \div 2 = j /\ (2 * j) % 2 = 0
        /\ ((2 * j - 1) + 1) \div 2 = j /\ (2 * j - 1) % 2 = 1
    BY <1>3
  <2> QED
    BY <2>1
<1> HIDE DEF Each
<1>6. ToSet(all) = {Each(n) : n \in 1 .. 2 * Len(order)}
  BY DEF ToSet
<1>7. all \in Seq(ToSet(all))
  <2>1. 2 * Len(order) \in Nat
    BY <1>3
  <2>2. all \in [1 .. 2 * Len(order) -> ToSet(all)]
    BY <1>6
  <2> HIDE DEF all
  <2> QED
    BY <2>1, <2>2
<1> HIDE DEF all
<1>8. r \in Seq(ToSet(all)) /\ ToSet(r) = ToSet(all) \cap P
  BY <1>1, <1>7, KeepOfList
<1>9. ToSet(r) = P
  BY <1>8
<1>10. \A j \in DOMAIN r : r[j] \in P
  BY <1>9 DEF ToSet
<1>11. \A x \in P : \E j \in DOMAIN r : r[j] = x
  BY <1>9 DEF ToSet
<1>12. ASSUME NEW x \in P
       PROVE  \E sel \in S : \/ x = SetRequest(sel, next[sel], c)
                             \/ source[sel] # None /\ x = DestroyRequest(sel, source[sel])
  <2>1. PICK sel \in S : x = DestroyRequest(sel, source[sel]) \/ x = SetRequest(sel, next[sel], c)
    BY <1>4, <1>6
  <2>2. x.op = "destroy" => x.source # None
    OBVIOUS
  <2> QED
    BY <2>1, <2>2, RequestFields
<1>13. ASSUME NEW sel \in S
       PROVE  /\ SetRequest(sel, next[sel], c) \in P
              /\ source[sel] # None => DestroyRequest(sel, source[sel]) \in P
  <2>1. PICK j \in 1 .. Len(order) : order[j] = sel
    BY <1>2, <1>3
  <2>2. SetRequest(sel, next[sel], c) \in ToSet(all) /\ DestroyRequest(sel, source[sel]) \in ToSet(all)
    BY <1>5, <1>6, <2>1
  <2> QED
    BY <2>2, RequestFields
<1> HIDE DEF P
<1>14. ASSUME NEW x \in P PROVE x \in Requests
  <2>1. PICK sel \in S : \/ x = SetRequest(sel, next[sel], c)
                         \/ source[sel] # None /\ x = DestroyRequest(sel, source[sel])
    BY <1>12
  <2>2. source[sel] # None => source[sel] \in SourceIds
    BY DEF Source
  <2>3. sel \in Selection /\ (c = None => next[sel] = None) /\ (c # None => next[sel] \in SourceIds /\ c \in Contents)
    OBVIOUS
  <2> QED
    BY <2>1, <2>2, <2>3, RequestsMade
<1>15. r \in Seq(Requests)
  <2>1. Len(r) \in Nat /\ DOMAIN r = 1 .. Len(r) /\ r = [n \in 1 .. Len(r) |-> r[n]]
    BY <1>8
  <2>2. \A n \in 1 .. Len(r) : r[n] \in Requests
    BY <1>10, <1>14, <2>1
  <2>3. r \in [1 .. Len(r) -> Requests]
    BY <2>1, <2>2
  <2> QED
    BY <2>1, <2>3
<1> HIDE DEF r
<1>16. ASSUME NEW j \in DOMAIN r
       PROVE  \E sel \in S : \/ r[j] = SetRequest(sel, next[sel], c)
                             \/ source[sel] # None /\ r[j] = DestroyRequest(sel, source[sel])
  BY <1>10, <1>12
<1>17. ASSUME NEW sel \in S
       PROVE  /\ \E j \in DOMAIN r : r[j] = SetRequest(sel, next[sel], c)
              /\ source[sel] # None => \E j \in DOMAIN r : r[j] = DestroyRequest(sel, source[sel])
  BY <1>11, <1>13
<1>18. Sent(r, S, next, c)
  BY <1>15, <1>16, <1>17 DEF Sent
<1> QED
  BY <1>18 DEF r

-----------------------------------------------------------------------------
(* The invariant *)

In(x, q)    == \E n \in DOMAIN q : q[n] = x
Grown(q, p) == Len(q) <= Len(p) /\ \A i \in 1 .. Len(q) : p[i] = q[i]
New(q, p)   == Len(q) + 1 .. Len(p)

TypesOK ==
    /\ present \in [Seats -> {"absent", "present", "gone"}]
    /\ device \in [Seats -> BOOLEAN] /\ seat \in [Seats -> BOOLEAN]
    /\ owner \in [Selection -> Owners]
    /\ requests \in Seq(Requests)
    /\ events \in Seq(Events)
    /\ source \in [Selection -> Source]
    /\ offer \in [Selection -> BOOLEAN] /\ timer \in [Selection -> BOOLEAN]
    /\ blocked \in [Seats -> BOOLEAN]
    /\ current \in Contents \cup {None} /\ newest \in Contents \cup {None}
    /\ history \in SUBSET Contents
    /\ cleared \in BOOLEAN

(* A seat: its name comes before its removal and once; it has a device, or     *)
(* will, from its name to its removal.                                        *)
Removed(s) == In(SeatEvent("removed", s), events)
Named(s)   == In(SeatEvent("name", s), events)
Asked(s)   == In(DeviceRequest(s), requests)

OrderOK(s) ==
    /\ \A m, n \in DOMAIN events :
           events[m] = SeatEvent("name", s) /\ events[n] = SeatEvent("name", s) => m = n
    /\ \A m, n \in DOMAIN events :
           events[m] = SeatEvent("name", s) /\ events[n] = SeatEvent("removed", s) => m < n

SeatOK(s) ==
    /\ OrderOK(s)
    /\ present[s] = "absent" => ~Named(s) /\ ~seat[s]
    /\ Named(s) => ~seat[s]
    /\ Removed(s) => present[s] = "gone"
    /\ present[s] = "gone" /\ (seat[s] \/ Named(s)) => Removed(s)
    /\ present[s] = "present" => Named(s) \/ (seat[s] /\ (device[s] \/ Asked(s)))
    /\ device[s] => seat[s] /\ present[s] = "present"
    /\ Asked(s) => seat[s] \/ present[s] = "gone"

(* What there is of a selection there is only while its seat is started.       *)
BelongsOK(sel) ==
    /\ present[sel[1]] # "present" => owner[sel] = Empty
    /\ source[sel] # None \/ timer[sel] => sel \in Enabled /\ seat[sel[1]]
    /\ owner[sel].source # None => seat[sel[1]]
    /\ \A n \in DOMAIN events : IsNews(events[n], sel) => seat[sel[1]]
    /\ \A n \in DOMAIN requests : IsSet(requests[n], sel) => seat[sel[1]] \/ present[sel[1]] = "gone"

(* A source the daemon keeps is about to be set, is the compositor's, or is    *)
(* about to be cancelled or removed with its seat.                            *)
NoSet(sel) == \A n \in DOMAIN requests : ~IsSet(requests[n], sel)

LastSet(sel, n) ==
    /\ IsSet(requests[n], sel) /\ requests[n].source = source[sel]
    /\ \A m \in DOMAIN requests : IsSet(requests[m], sel) /\ n < m => requests[m].source = source[sel]

KnownOK(sel) ==
    source[sel] # None =>
        \/ \E n \in DOMAIN requests : LastSet(sel, n)
        \/ NoSet(sel) /\ owner[sel].source = source[sel]
        \/ In(Cancelled(sel, source[sel]), events)
        \/ Removed(sel[1])

(* A source it does not keep is about to be destroyed, and no other is.        *)
DestroyedOK(sel) ==
    /\ owner[sel].source # None =>
           \/ owner[sel].source = source[sel]
           \/ In(DestroyRequest(sel, owner[sel].source), requests)
    /\ \A n \in DOMAIN requests : IsSet(requests[n], sel) /\ requests[n].source # None =>
           \/ requests[n].source = source[sel]
           \/ \E m \in DOMAIN requests : n < m /\ requests[m] = DestroyRequest(sel, requests[n].source)
    /\ source[sel] # None => ~In(DestroyRequest(sel, source[sel]), requests)

(* The source it keeps offers the current entry.                              *)
OfferedOK(sel) ==
    source[sel] # None =>
        /\ owner[sel].source = source[sel] => current \in {None, owner[sel].content}
        /\ \A n \in DOMAIN requests :
               IsSet(requests[n], sel) /\ requests[n].source = source[sel] =>
                   current \in {None, requests[n].content}

SourceOK(sel) == KnownOK(sel) /\ DestroyedOK(sel) /\ OfferedOK(sel)

-----------------------------------------------------------------------------
(* Setting selections, as the invariant sees it *)

LEMMA NewIdIsFree ==
    ASSUME NEW sel \in Selection, FreeIds(sel) # {}
    PROVE  NewId(sel) \in FreeIds(sel) /\ NewId(sel) \in SourceIds
<1>1. FreeIds(sel) \in SUBSET SourceIds
  BY DEF FreeIds
<1>2. FreeIds(sel) \in SUBSET Nat
  BY <1>1, IdsAreSome
<1>3. \E m \in FreeIds(sel) : \A n \in FreeIds(sel) : m <= n
  BY <1>2, LeastNatural
<1>4. NewId(sel) \in FreeIds(sel)
  BY <1>3 DEF NewId
<1> QED
  BY <1>1, <1>4

(* A free id is in nothing that travels, and is not the compositor's. *)
LEMMA FreeIsUnused ==
    ASSUME TypesOK, NEW sel \in Selection, NEW k \in FreeIds(sel)
    PROVE  /\ k # None /\ k # source[sel] /\ k # owner[sel].source
           /\ ~In(DestroyRequest(sel, k), requests)
           /\ ~In(Cancelled(sel, k), events)
           /\ \A n \in DOMAIN requests : IsSet(requests[n], sel) => requests[n].source # k
<1>1. /\ k \in SourceIds /\ source[sel] # k /\ owner[sel].source # k
      /\ \A q \in Range(requests) : q.op # "device" => <<q.sel, q.source>> # <<sel, k>>
      /\ \A e \in Range(events) : e.type = "cancelled" => <<e.sel, e.source>> # <<sel, k>>
  BY DEF FreeIds
<1>2. \A n \in DOMAIN requests : requests[n] \in Range(requests)
  BY DEF Range
<1>3. \A n \in DOMAIN events : events[n] \in Range(events)
  BY DEF Range
<1>4. ASSUME NEW n \in DOMAIN requests, requests[n].op # "device", requests[n].sel = sel, requests[n].source = k
      PROVE  FALSE
  BY <1>1, <1>2, <1>4
<1>5. ~In(DestroyRequest(sel, k), requests)
  <2> SUFFICES ASSUME NEW n \in DOMAIN requests, requests[n] = DestroyRequest(sel, k) PROVE FALSE
    BY DEF In
  <2>1. requests[n].op = "destroy" /\ requests[n].sel = sel /\ requests[n].source = k
    BY RequestFields
  <2> QED
    BY <1>4, <2>1
<1>6. ~In(Cancelled(sel, k), events)
  <2> SUFFICES ASSUME NEW n \in DOMAIN events, events[n] = Cancelled(sel, k) PROVE FALSE
    BY DEF In
  <2>1. events[n].type = "cancelled" /\ events[n].sel = sel /\ events[n].source = k
    BY EventFields
  <2> QED
    BY <1>1, <1>3, <2>1
<1>7. \A n \in DOMAIN requests : IsSet(requests[n], sel) => requests[n].source # k
  BY <1>4 DEF IsSet
<1> QED
  BY <1>1, <1>5, <1>6, <1>7, IdsAreSome

(* The selections of S get a new source for c, or none if c is none. *)
Reset(S, c) ==
    /\ source' \in [Selection -> Source]
    /\ \A sel \in Selection \ S : source'[sel] = source[sel]
    /\ \A sel \in S : IF c = None THEN source'[sel] = None ELSE source'[sel] \in FreeIds(sel)

(* What is requested for that, and for the devices of the seats D. *)
Requested(S, c, D) ==
    /\ requests' \in Seq(Requests)
    /\ Grown(requests, requests')
    /\ \A n \in New(requests, requests') :
           \/ \E s \in D : requests'[n] = DeviceRequest(s)
           \/ \E sel \in S : \/ requests'[n] = SetRequest(sel, source'[sel], c)
                             \/ source[sel] # None /\ requests'[n] = DestroyRequest(sel, source[sel])
    /\ \A s \in D : \E n \in New(requests, requests') : requests'[n] = DeviceRequest(s)
    /\ \A sel \in S :
           /\ \E n \in New(requests, requests') : requests'[n] = SetRequest(sel, source'[sel], c)
           /\ source[sel] # None =>
                  \E n \in New(requests, requests') : requests'[n] = DestroyRequest(sel, source[sel])

(* The events that are left: those at H are handled, and a source that is      *)
(* destroyed takes its own with it.                                           *)
Taken(g, H, S) ==
    /\ events' \in Seq(Events)
    /\ Evolves(events, events', g, Len(events'))
    /\ \A i \in DOMAIN events :
           g[i] = 0 <=> i \in H \/ \E sel \in S : events[i] = Cancelled(sel, source[sel])

Sets(S, c, D, H) == Reset(S, c) /\ Requested(S, c, D) /\ \E g : Taken(g, H, S)

(* The connection as a handler has left it before it sets selections. *)
Left(D, H, reqs, evs) ==
    /\ \/ D = {} /\ reqs = requests
       \/ \E s \in Seats : D = {s} /\ reqs = Append(requests, DeviceRequest(s))
    /\ \/ H = {} /\ evs = events
       \/ H = {1} /\ events # <<>> /\ evs = Tail(events)

LEMMA LeftEvents ==
    ASSUME TypesOK, NEW D, NEW H, NEW reqs, NEW evs, Left(D, H, reqs, evs)
    PROVE  /\ evs \in Seq(Events)
           /\ \E g : /\ Evolves(events, evs, g, Len(evs))
                     /\ \A i \in DOMAIN events : g[i] = 0 <=> i \in H
<1>1. events \in Seq(Events)
  BY DEF TypesOK
<1>2. CASE H = {} /\ evs = events
  <2>1. PICK g, k : /\ Evolves(events, events, g, k)
                    /\ k = Len(events)
                    /\ \A i \in DOMAIN events : g[i] # 0
    BY <1>1, SameEvolves
  <2> QED
    BY <1>1, <1>2, <2>1
<1>3. CASE H = {1} /\ events # <<>> /\ evs = Tail(events)
  <2>1. PICK g, k : /\ Evolves(events, Tail(events), g, k)
                    /\ k = Len(Tail(events))
                    /\ \A i \in DOMAIN events : g[i] = 0 <=> i = 1
    BY <1>1, <1>3, TailEvolves
  <2>2. Tail(events) \in Seq(Events)
    BY <1>1, <1>3
  <2> QED
    BY <1>3, <2>1, <2>2
<1> QED
  BY <1>2, <1>3 DEF Left

LEMMA LeftRequests ==
    ASSUME TypesOK, NEW D, NEW H, NEW reqs, NEW evs, Left(D, H, reqs, evs)
    PROVE  /\ reqs \in Seq(Requests)
           /\ Grown(requests, reqs)
           /\ \A n \in New(requests, reqs) : \E s \in D : reqs[n] = DeviceRequest(s)
           /\ \A s \in D : \E n \in New(requests, reqs) : reqs[n] = DeviceRequest(s)
<1>1. requests \in Seq(Requests)
  BY DEF TypesOK
<1>2. CASE D = {} /\ reqs = requests
  BY <1>1, <1>2 DEF Grown, New
<1>3. CASE \E s \in Seats : D = {s} /\ reqs = Append(requests, DeviceRequest(s))
  <2>1. PICK s \in Seats : D = {s} /\ reqs = Append(requests, DeviceRequest(s))
    BY <1>3
  <2>2. DeviceRequest(s) \in Requests
    BY RequestsMade
  <2>3. /\ reqs \in Seq(Requests) /\ Len(reqs) = Len(requests) + 1 /\ Len(requests) \in Nat
        /\ \A i \in 1 .. Len(requests) : reqs[i] = requests[i]
        /\ reqs[Len(requests) + 1] = DeviceRequest(s)
    BY <1>1, <2>1, <2>2
  <2>4. New(requests, reqs) = {Len(requests) + 1}
    BY <2>3 DEF New
  <2>5. Grown(requests, reqs)
    BY <2>3 DEF Grown
  <2> QED
    BY <2>1, <2>3, <2>4, <2>5
<1> QED
  BY <1>2, <1>3 DEF Left

LEMMA SetSelectionsDoes ==
    ASSUME TypesOK, NEW S \in SUBSET Selection, NEW c \in Contents \cup {None}, NEW clr,
           NEW D, NEW H, NEW reqs, NEW evs, Left(D, H, reqs, evs),
           SetSelections(S, c, clr, reqs, evs)
    PROVE  \/ c = None /\ ~clr /\ Sets({}, c, D, H)
           \/ ~(c = None /\ ~clr) /\ Sets(S, c, D, H)
<1>1. source \in [Selection -> Source]
  BY DEF TypesOK
<1>2. /\ reqs \in Seq(Requests)
      /\ Grown(requests, reqs)
      /\ \A n \in New(requests, reqs) : \E s \in D : reqs[n] = DeviceRequest(s)
      /\ \A s \in D : \E n \in New(requests, reqs) : reqs[n] = DeviceRequest(s)
  BY LeftRequests
<1>3. PICK g : /\ evs \in Seq(Events)
               /\ Evolves(events, evs, g, Len(evs))
               /\ \A i \in DOMAIN events : g[i] = 0 <=> i \in H
  BY LeftEvents
<1>4. CASE c = None /\ ~clr
  <2>1. source' = source /\ requests' = reqs /\ events' = evs
    BY <1>4 DEF SetSelections
  <2>2. Reset({}, c)
    BY <1>1, <2>1 DEF Reset
  <2>3. Requested({}, c, D)
    BY <1>2, <2>1 DEF Requested
  <2>4. Taken(g, H, {})
    BY <1>3, <2>1 DEF Taken
  <2> QED
    BY <1>4, <2>2, <2>3, <2>4 DEF Sets
<1>5. CASE ~(c = None /\ ~clr)
  <2> DEFINE next == [sel \in S |-> IF c = None THEN None ELSE NewId(sel)]
             r == SetRequests(S, next, c)
  <2>1. /\ \A sel \in S : FreeIds(sel) # {}
        /\ source' = [sel \in Selection |-> IF sel \in S THEN next[sel] ELSE source[sel]]
        /\ requests' = reqs \o r
        /\ events' = Without(evs, S)
    BY <1>5 DEF SetSelections
  <2>2. \A sel \in S : IF c = None THEN next[sel] = None
                       ELSE next[sel] \in SourceIds /\ next[sel] \in FreeIds(sel)
    BY <2>1, NewIdIsFree
  <2> HIDE DEF next, r
  <2>3. \A sel \in S : source'[sel] = next[sel]
    BY <2>1
  <2>4. Reset(S, c)
    <3>1. \A sel \in S : next[sel] \in Source
      BY <2>2 DEF Source
    <3>2. source' \in [Selection -> Source]
      BY <1>1, <2>1, <3>1
    <3>3. \A sel \in Selection \ S : source'[sel] = source[sel]
      BY <2>1
    <3>4. \A sel \in S : IF c = None THEN source'[sel] = None ELSE source'[sel] \in FreeIds(sel)
      BY <2>2, <2>3
    <3> QED
      BY <3>2, <3>3, <3>4 DEF Reset
  <2>5. /\ r \in Seq(Requests)
        /\ \A j \in DOMAIN r : \E sel \in S :
               \/ r[j] = SetRequest(sel, next[sel], c)
               \/ source[sel] # None /\ r[j] = DestroyRequest(sel, source[sel])
        /\ \A sel \in S :
               /\ \E j \in DOMAIN r : r[j] = SetRequest(sel, next[sel], c)
               /\ source[sel] # None => \E j \in DOMAIN r : r[j] = DestroyRequest(sel, source[sel])
    <3>1. \A sel \in S : IF c = None THEN next[sel] = None ELSE next[sel] \in SourceIds
      BY <2>2
    <3>2. Sent(r, S, next, c)
      BY <1>1, <3>1, SetsMade DEF r
    <3> QED
      BY <3>2 DEF Sent
  <2>6. Requested(S, c, D)
    <3>1. /\ requests' \in Seq(Requests)
          /\ \A n \in Len(reqs) + 1 .. Len(requests') : \E j \in DOMAIN r : requests'[n] = r[j] /\ n = Len(reqs) + j
          /\ \A j \in DOMAIN r : /\ Len(reqs) + j \in Len(reqs) + 1 .. Len(requests')
                                 /\ requests'[Len(reqs) + j] = r[j]
      <4>1. requests' = reqs \o r /\ reqs \in Seq(Requests) /\ r \in Seq(Requests)
        BY <1>2, <2>1, <2>5
      <4> QED
        BY <4>1, ConcatNew
    <3>2. /\ Len(requests) \in Nat /\ Len(reqs) \in Nat /\ Len(requests') \in Nat
          /\ Len(reqs) <= Len(requests')
          /\ \A i \in 1 .. Len(reqs) : requests'[i] = reqs[i]
      <4>1. requests \in Seq(Requests)
        BY DEF TypesOK
      <4> QED
        BY <1>2, <2>1, <2>5, <4>1
    <3>3. Grown(requests, requests')
      BY <1>2, <3>2 DEF Grown
    <3>4. \A n \in New(requests, requests') : n \in New(requests, reqs) \/ n \in Len(reqs) + 1 .. Len(requests')
      BY <3>2 DEF New
    <3>5. /\ \A n \in New(requests, reqs) : n \in New(requests, requests') /\ requests'[n] = reqs[n]
          /\ \A n \in Len(reqs) + 1 .. Len(requests') : n \in New(requests, requests')
      BY <1>2, <3>2 DEF New, Grown
    <3>6. ASSUME NEW n \in New(requests, requests')
          PROVE  \/ \E s \in D : requests'[n] = DeviceRequest(s)
                 \/ \E sel \in S : \/ requests'[n] = SetRequest(sel, source'[sel], c)
                                   \/ source[sel] # None /\ requests'[n] = DestroyRequest(sel, source[sel])
      <4>1. CASE n \in New(requests, reqs)
        BY <1>2, <3>5, <4>1
      <4>2. CASE n \in Len(reqs) + 1 .. Len(requests')
        <5>1. PICK j \in DOMAIN r : requests'[n] = r[j]
          BY <3>1, <4>2
        <5>2. PICK sel \in S : \/ r[j] = SetRequest(sel, next[sel], c)
                               \/ source[sel] # None /\ r[j] = DestroyRequest(sel, source[sel])
          BY <2>5
        <5> QED
          BY <2>3, <5>1, <5>2
      <4> QED
        BY <3>4, <4>1, <4>2
    <3>7. ASSUME NEW s \in D
          PROVE  \E n \in New(requests, requests') : requests'[n] = DeviceRequest(s)
      BY <1>2, <3>5
    <3>8. ASSUME NEW j \in DOMAIN r
          PROVE  \E n \in New(requests, requests') : requests'[n] = r[j]
      BY <3>1, <3>5
    <3>9. ASSUME NEW sel \in S
          PROVE  /\ \E n \in New(requests, requests') : requests'[n] = SetRequest(sel, source'[sel], c)
                 /\ source[sel] # None =>
                        \E n \in New(requests, requests') : requests'[n] = DestroyRequest(sel, source[sel])
      <4>1. PICK j \in DOMAIN r : r[j] = SetRequest(sel, source'[sel], c)
        BY <2>3, <2>5
      <4>2. source[sel] # None => \E l \in DOMAIN r : r[l] = DestroyRequest(sel, source[sel])
        BY <2>5
      <4> QED
        BY <3>8, <4>1, <4>2
    <3> QED
      BY <3>1, <3>3, <3>6, <3>7, <3>9 DEF Requested
  <2>7. \E d : Taken(d, H, S)
    <3> DEFINE P == {e \in ToSet(evs) : ~(e.type = "cancelled" /\ e.sel \in S /\ e.source = source[e.sel])}
    <3>1. events' = Keep(evs, P)
      BY <2>1 DEF Without
    <3>2. \A i \in DOMAIN evs : evs[i] \in ToSet(evs)
      BY DEF ToSet
    <3>3. ASSUME NEW i \in DOMAIN evs
          PROVE  evs[i] \notin P <=> \E sel \in S : evs[i] = Cancelled(sel, source[sel])
      <4>1. evs[i] \in Events
        BY <1>3
      <4>2. evs[i] \notin P <=> evs[i].type = "cancelled" /\ evs[i].sel \in S /\ evs[i].source = source[evs[i].sel]
        BY <3>2
      <4> HIDE DEF P
      <4>3. evs[i].type = "cancelled" => evs[i] = Cancelled(evs[i].sel, evs[i].source)
        BY <4>1, EventIs
      <4> QED
        BY <4>2, <4>3, EventFields
    <3> HIDE DEF P
    <3>4. PICK h, l : /\ events' \in Seq(Events)
                      /\ Evolves(evs, events', h, l)
                      /\ l = Len(events')
                      /\ \A i \in DOMAIN evs : h[i] = 0 <=> evs[i] \notin P
      BY <1>3, <3>1, KeepEvolves
    <3>5. events \in Seq(Events)
      BY DEF TypesOK
    <3>6. PICK d : /\ Evolves(events, events', d, Len(events'))
                   /\ \A i \in DOMAIN events : d[i] = 0 <=> g[i] = 0 \/ h[g[i]] = 0
      BY <1>3, <3>4, <3>5, TwiceEvolves
    <3>7. \A i \in DOMAIN events : g[i] # 0 => g[i] \in DOMAIN evs /\ evs[g[i]] = events[i]
      BY <1>3 DEF Evolves
    <3>8. ASSUME NEW i \in DOMAIN events
          PROVE  d[i] = 0 <=> i \in H \/ \E sel \in S : events[i] = Cancelled(sel, source[sel])
      <4>1. CASE i \in H
        BY <1>3, <3>6, <4>1
      <4>2. CASE i \notin H
        <5>1. g[i] # 0 /\ g[i] \in DOMAIN evs /\ evs[g[i]] = events[i]
          BY <1>3, <3>7, <4>2
        <5>2. d[i] = 0 <=> h[g[i]] = 0
          BY <3>6, <5>1
        <5>3. h[g[i]] = 0 <=> evs[g[i]] \notin P
          BY <3>4, <5>1
        <5> QED
          BY <3>3, <4>2, <5>1, <5>2, <5>3
      <4> QED
        BY <4>1, <4>2
    <3>9. Taken(d, H, S)
      BY <3>4, <3>6, <3>8 DEF Taken
    <3> QED
      BY <3>9
  <2> QED
    BY <1>5, <2>4, <2>6, <2>7 DEF Sets
<1> QED
  BY <1>4, <1>5

-----------------------------------------------------------------------------
(* Sources *)

(* A step that has nothing to do with sel. *)
LEMMA NeutralKeepsSource ==
    ASSUME TypesOK, TypesOK', NEW sel \in Selection, SourceOK(sel),
           source'[sel] = source[sel], owner'[sel] = owner[sel],
           source[sel] # None => current' \in {None, current},
           Grown(requests, requests'),
           \A n \in New(requests, requests') :
               /\ ~IsSet(requests'[n], sel)
               /\ requests'[n] # DestroyRequest(sel, source[sel]),
           In(Cancelled(sel, source[sel]), events) => In(Cancelled(sel, source[sel]), events'),
           Removed(sel[1]) => Removed(sel[1])'
    PROVE  SourceOK(sel)'
<1>1. /\ Len(requests) \in Nat /\ DOMAIN requests = 1 .. Len(requests)
      /\ Len(requests') \in Nat /\ DOMAIN requests' = 1 .. Len(requests')
  BY DEF TypesOK
<1>2. /\ \A n \in DOMAIN requests : n \in DOMAIN requests' /\ requests'[n] = requests[n]
      /\ \A n \in DOMAIN requests' : n \in DOMAIN requests \/ n \in New(requests, requests')
      /\ \A m \in DOMAIN requests, n \in New(requests, requests') : m < n
  BY <1>1 DEF Grown, New
<1>3. \A n \in DOMAIN requests' : IsSet(requests'[n], sel) => n \in DOMAIN requests
  BY <1>2
<1> DEFINE k == source[sel]
<1>4. source'[sel] = k /\ owner'[sel] = owner[sel]
  OBVIOUS
<1>5. KnownOK(sel)'
  <2> SUFFICES ASSUME k # None
               PROVE  \/ \E n \in DOMAIN requests' : LastSet(sel, n)'
                      \/ NoSet(sel)' /\ owner'[sel].source = k
                      \/ In(Cancelled(sel, k), events')
                      \/ Removed(sel[1])'
    BY <1>4 DEF KnownOK
  <2>1. ASSUME NEW n \in DOMAIN requests, LastSet(sel, n)
        PROVE  LastSet(sel, n)'
    BY <1>2, <1>3, <1>4, <2>1 DEF LastSet
  <2>2. NoSet(sel) => NoSet(sel)'
    BY <1>2, <1>3 DEF NoSet
  <2>3. \/ \E n \in DOMAIN requests : LastSet(sel, n)
        \/ NoSet(sel) /\ owner[sel].source = k
        \/ In(Cancelled(sel, k), events)
        \/ Removed(sel[1])
    BY DEF SourceOK, KnownOK
  <2> QED
    BY <1>2, <1>4, <2>1, <2>2, <2>3
<1>6. DestroyedOK(sel)'
  <2>1. ASSUME NEW x, In(x, requests) PROVE In(x, requests')
    BY <1>2, <2>1 DEF In
  <2>2. owner'[sel].source # None => \/ owner'[sel].source = source'[sel]
                                     \/ In(DestroyRequest(sel, owner'[sel].source), requests')
    BY <1>4, <2>1 DEF SourceOK, DestroyedOK
  <2>3. ASSUME NEW n \in DOMAIN requests', IsSet(requests'[n], sel), requests'[n].source # None
        PROVE  \/ requests'[n].source = source'[sel]
               \/ \E m \in DOMAIN requests' : n < m /\ requests'[m] = DestroyRequest(sel, requests'[n].source)
    <3>1. n \in DOMAIN requests /\ requests'[n] = requests[n]
      BY <1>2, <1>3, <2>3
    <3>2. \/ requests[n].source = source[sel]
          \/ \E m \in DOMAIN requests : n < m /\ requests[m] = DestroyRequest(sel, requests[n].source)
      BY <2>3, <3>1 DEF SourceOK, DestroyedOK
    <3> QED
      BY <1>2, <1>4, <3>1, <3>2
  <2>4. ASSUME k # None, In(DestroyRequest(sel, k), requests')
        PROVE  FALSE
    <3>1. PICK n \in DOMAIN requests' : requests'[n] = DestroyRequest(sel, k)
      BY <2>4 DEF In
    <3>2. n \in DOMAIN requests
      BY <1>2, <3>1
    <3>3. In(DestroyRequest(sel, k), requests)
      BY <1>2, <3>1, <3>2 DEF In
    <3> QED
      BY <2>4, <3>3 DEF SourceOK, DestroyedOK
  <2> QED
    BY <1>4, <2>2, <2>3, <2>4 DEF DestroyedOK
<1>7. OfferedOK(sel)'
  <2> SUFFICES ASSUME k # None
               PROVE  /\ owner[sel].source = k => current' \in {None, owner[sel].content}
                      /\ \A n \in DOMAIN requests' :
                             IsSet(requests'[n], sel) /\ requests'[n].source = k =>
                                 current' \in {None, requests'[n].content}
    BY <1>4 DEF OfferedOK
  <2>1. current' \in {None, current}
    OBVIOUS
  <2>2. /\ owner[sel].source = k => current \in {None, owner[sel].content}
        /\ \A n \in DOMAIN requests :
               IsSet(requests[n], sel) /\ requests[n].source = k =>
                   current \in {None, requests[n].content}
    BY DEF SourceOK, OfferedOK
  <2> QED
    BY <1>2, <1>3, <2>1, <2>2
<1> QED
  BY <1>5, <1>6, <1>7 DEF SourceOK

(* A selection that is set, or gives up its source.  k is what it had.         *)
LEMMA ResetKeepsSource ==
    ASSUME TypesOK, TypesOK', NEW sel \in Selection, DestroyedOK(sel),
           owner'[sel] = owner[sel],
           Grown(requests, requests'),
           source'[sel] # None =>
               /\ source'[sel] \in FreeIds(sel)
               /\ \E n \in New(requests, requests') : IsSet(requests'[n], sel),
           \A n \in New(requests, requests') :
               /\ IsSet(requests'[n], sel) =>
                      /\ requests'[n].source = source'[sel]
                      /\ source'[sel] # None => requests'[n].content = current'
               /\ requests'[n] # DestroyRequest(sel, source'[sel]),
           source[sel] # None =>
               \E n \in New(requests, requests') : requests'[n] = DestroyRequest(sel, source[sel])
    PROVE  SourceOK(sel)'
<1>1. /\ Len(requests) \in Nat /\ DOMAIN requests = 1 .. Len(requests)
      /\ Len(requests') \in Nat /\ DOMAIN requests' = 1 .. Len(requests')
  BY DEF TypesOK
<1>2. /\ \A n \in DOMAIN requests : n \in DOMAIN requests' /\ requests'[n] = requests[n]
      /\ \A n \in DOMAIN requests' : n \in DOMAIN requests \/ n \in New(requests, requests')
      /\ \A n \in New(requests, requests') : n \in DOMAIN requests'
      /\ \A m \in DOMAIN requests, n \in New(requests, requests') : m < n
  BY <1>1 DEF Grown, New
<1> DEFINE k == source'[sel]
<1>3. k # None => /\ k # source[sel] /\ k # owner[sel].source
                  /\ ~In(DestroyRequest(sel, k), requests)
                  /\ \A n \in DOMAIN requests : IsSet(requests[n], sel) => requests[n].source # k
  BY FreeIsUnused
<1>4. KnownOK(sel)'
  <2> SUFFICES ASSUME k # None
               PROVE  \E n \in DOMAIN requests' : LastSet(sel, n)'
    BY DEF KnownOK
  <2>1. PICK n \in New(requests, requests') : IsSet(requests'[n], sel)
    OBVIOUS
  <2>2. ASSUME NEW m \in DOMAIN requests', n < m
        PROVE  m \in New(requests, requests')
    BY <1>1, <2>2 DEF New
  <2>3. \A m \in DOMAIN requests' : IsSet(requests'[m], sel) /\ n < m => requests'[m].source = k
    BY <2>2
  <2>4. LastSet(sel, n)'
    BY <2>1, <2>3 DEF LastSet
  <2> QED
    BY <1>2, <2>4
<1>5. DestroyedOK(sel)'
  <2>1. ASSUME NEW x, In(x, requests) PROVE In(x, requests')
    BY <1>2, <2>1 DEF In
  <2>2. source[sel] # None => In(DestroyRequest(sel, source[sel]), requests')
    BY <1>2 DEF In
  <2>3. owner[sel].source # None => \/ owner[sel].source = source[sel]
                                    \/ In(DestroyRequest(sel, owner[sel].source), requests)
    BY DEF DestroyedOK
  <2>4. owner[sel].source # None => In(DestroyRequest(sel, owner[sel].source), requests')
    BY <2>1, <2>2, <2>3
  <2>5. ASSUME NEW n \in DOMAIN requests', IsSet(requests'[n], sel), requests'[n].source # None
        PROVE  \/ requests'[n].source = k
               \/ \E m \in DOMAIN requests' : n < m /\ requests'[m] = DestroyRequest(sel, requests'[n].source)
    <3>1. CASE n \in New(requests, requests')
      BY <2>5, <3>1
    <3>2. CASE n \in DOMAIN requests
      <4>1. \/ requests[n].source = source[sel]
            \/ \E m \in DOMAIN requests : n < m /\ requests[m] = DestroyRequest(sel, requests[n].source)
        BY <1>2, <2>5, <3>2 DEF DestroyedOK
      <4>2. requests'[n] = requests[n]
        BY <1>2, <3>2
      <4>3. CASE requests[n].source = source[sel]
        <5>1. PICK m \in New(requests, requests') : requests'[m] = DestroyRequest(sel, source[sel])
          BY <2>5, <4>2, <4>3
        <5> QED
          BY <1>2, <3>2, <4>2, <4>3, <5>1
      <4>4. CASE \E m \in DOMAIN requests : n < m /\ requests[m] = DestroyRequest(sel, requests[n].source)
        BY <1>2, <4>2, <4>4
      <4> QED
        BY <4>1, <4>3, <4>4
    <3> QED
      BY <1>2, <3>1, <3>2
  <2>6. ASSUME k # None, In(DestroyRequest(sel, k), requests')
        PROVE  FALSE
    <3>1. PICK n \in DOMAIN requests' : requests'[n] = DestroyRequest(sel, k)
      BY <2>6 DEF In
    <3>2. n \in DOMAIN requests /\ requests[n] = DestroyRequest(sel, k)
      BY <1>2, <3>1
    <3> QED
      BY <1>3, <2>6, <3>2 DEF In
  <2> QED
    BY <2>4, <2>5, <2>6 DEF DestroyedOK
<1>6. OfferedOK(sel)'
  <2> SUFFICES ASSUME k # None
               PROVE  /\ owner[sel].source # k
                      /\ \A n \in DOMAIN requests' :
                             IsSet(requests'[n], sel) /\ requests'[n].source = k =>
                                 current' = requests'[n].content
    BY DEF OfferedOK
  <2> QED
    BY <1>2, <1>3
<1> QED
  BY <1>4, <1>5, <1>6 DEF SourceOK

(* An event that is not handled and not of a destroyed source is still there.  *)
LEMMA TakenStays ==
    ASSUME TypesOK, NEW S, NEW H, NEW g, Taken(g, H, S), NEW x, In(x, events),
           \A i \in H \cap DOMAIN events : events[i] # x,
           \A sel \in S : x # Cancelled(sel, source[sel])
    PROVE  In(x, events')
<1>1. PICK i \in DOMAIN events : events[i] = x
  BY DEF In
<1>2. g[i] # 0
  BY <1>1 DEF Taken
<1>3. g[i] \in 1 .. Len(events') /\ events'[g[i]] = x
  BY <1>1, <1>2 DEF Taken, Evolves
<1>4. g[i] \in DOMAIN events'
  BY <1>3 DEF Taken
<1> QED
  BY <1>3, <1>4 DEF In

LEMMA SetsKeepSource ==
    ASSUME TypesOK, TypesOK', NEW sel \in Selection, SourceOK(sel),
           NEW S \in SUBSET Selection, NEW c \in Contents \cup {None}, NEW D, NEW H, Sets(S, c, D, H),
           owner'[sel] = owner[sel],
           H = {} \/ (H = {1} /\ events[1].type \notin {"cancelled", "removed"}),
           sel \in S => c \in {None, current'},
           sel \notin S /\ source[sel] # None => current' \in {None, current}
    PROVE  SourceOK(sel)'
<1>1. /\ Grown(requests, requests')
      /\ \A n \in New(requests, requests') :
             \/ \E s \in D : requests'[n] = DeviceRequest(s)
             \/ \E t \in S : \/ requests'[n] = SetRequest(t, source'[t], c)
                             \/ source[t] # None /\ requests'[n] = DestroyRequest(t, source[t])
      /\ \A t \in S :
             /\ \E n \in New(requests, requests') : requests'[n] = SetRequest(t, source'[t], c)
             /\ source[t] # None =>
                    \E n \in New(requests, requests') : requests'[n] = DestroyRequest(t, source[t])
  BY DEF Sets, Requested
<1>2. \A n \in New(requests, requests') :
          /\ IsSet(requests'[n], sel) => sel \in S /\ requests'[n] = SetRequest(sel, source'[sel], c)
          /\ \A k : requests'[n] = DestroyRequest(sel, k) => sel \in S /\ k = source[sel] /\ source[sel] # None
  BY <1>1, RequestFields DEF IsSet
<1>3. CASE sel \notin S
  <2>1. source'[sel] = source[sel]
    BY <1>3 DEF Sets, Reset
  <2>2. PICK g : Taken(g, H, S)
    BY DEF Sets
  <2>3. In(Cancelled(sel, source[sel]), events) => In(Cancelled(sel, source[sel]), events')
    <3>1. \A i \in H \cap DOMAIN events : events[i] # Cancelled(sel, source[sel])
      BY EventFields
    <3>2. \A t \in S : Cancelled(sel, source[sel]) # Cancelled(t, source[t])
      BY <1>3, EventFields
    <3> QED
      BY <2>2, <3>1, <3>2, TakenStays
  <2>4. Removed(sel[1]) => Removed(sel[1])'
    <3>1. \A i \in H \cap DOMAIN events : events[i] # SeatEvent("removed", sel[1])
      BY EventFields
    <3>2. \A t \in S : SeatEvent("removed", sel[1]) # Cancelled(t, source[t])
      BY EventFields
    <3>3. In(SeatEvent("removed", sel[1]), events) => In(SeatEvent("removed", sel[1]), events')
      BY <2>2, <3>1, <3>2, TakenStays
    <3> QED
      BY <3>3 DEF Removed
  <2>5. \A n \in New(requests, requests') :
            ~IsSet(requests'[n], sel) /\ requests'[n] # DestroyRequest(sel, source[sel])
    BY <1>2, <1>3
  <2>6. source[sel] # None => current' \in {None, current}
    BY <1>3
  <2> QED
    BY <1>1, <2>1, <2>3, <2>4, <2>5, <2>6, NeutralKeepsSource
<1>4. CASE sel \in S
  <2>1. IF c = None THEN source'[sel] = None ELSE source'[sel] \in FreeIds(sel)
    BY <1>4 DEF Sets, Reset
  <2>2. source'[sel] # None =>
            /\ source'[sel] \in FreeIds(sel)
            /\ \E n \in New(requests, requests') : IsSet(requests'[n], sel)
    BY <1>1, <1>4, <2>1, RequestFields DEF IsSet
  <2>3. source[sel] # None => source'[sel] # source[sel]
    BY <2>1, FreeIsUnused
  <2>4. \A n \in New(requests, requests') :
            /\ IsSet(requests'[n], sel) =>
                   /\ requests'[n].source = source'[sel]
                   /\ source'[sel] # None => requests'[n].content = current'
            /\ requests'[n] # DestroyRequest(sel, source'[sel])
    <3>1. source'[sel] # None => c = current'
      BY <1>4, <2>1
    <3> QED
      BY <1>2, <2>3, <3>1, RequestFields
  <2>5. source[sel] # None =>
            \E n \in New(requests, requests') : requests'[n] = DestroyRequest(sel, source[sel])
    BY <1>1, <1>4
  <2>6. DestroyedOK(sel)
    BY DEF SourceOK
  <2> QED
    BY <1>1, <2>2, <2>4, <2>5, <2>6, ResetKeepsSource
<1> QED
  BY <1>3, <1>4

(* Events that are sent do not get lost. *)
LEMMA GrownKeeps ==
    ASSUME NEW T, NEW q \in Seq(T), NEW p \in Seq(T), Grown(q, p), NEW x, In(x, q)
    PROVE  In(x, p)
<1>1. Len(q) \in Nat /\ DOMAIN q = 1 .. Len(q) /\ Len(p) \in Nat /\ DOMAIN p = 1 .. Len(p)
  OBVIOUS
<1>2. \A i \in DOMAIN q : i \in DOMAIN p /\ p[i] = q[i]
  BY <1>1 DEF Grown
<1> QED
  BY <1>2 DEF In

(* Applications and seats: the compositor tells the daemon of what it loses.   *)
LEMMA UsersKeepSource ==
    ASSUME TypesOK, TypesOK', NEW sel \in Selection, SourceOK(sel),
           requests' = requests, source' = source, current' = current, Grown(events, events'),
           \/ owner'[sel] = owner[sel]
           \/ /\ owner'[sel].source = None
              /\ owner[sel].source # None => \/ In(Cancelled(sel, owner[sel].source), events')
                                             \/ Removed(sel[1])'
    PROVE  SourceOK(sel)'
<1>1. \A x : In(x, events) => In(x, events')
  BY GrownKeeps DEF TypesOK
<1>2. Removed(sel[1]) => Removed(sel[1])'
  BY <1>1 DEF Removed
<1>3. (NoSet(sel) <=> NoSet(sel)') /\ \A n : LastSet(sel, n) <=> LastSet(sel, n)'
  BY DEF NoSet, LastSet
<1>4. KnownOK(sel)'
  BY <1>1, <1>2, <1>3 DEF KnownOK, SourceOK
<1>5. DestroyedOK(sel)'
  BY DEF DestroyedOK, SourceOK
<1>6. OfferedOK(sel)'
  BY DEF OfferedOK, SourceOK
<1> QED
  BY <1>4, <1>5, <1>6 DEF SourceOK

LEMMA OneMore ==
    ASSUME NEW T, NEW q \in Seq(T), NEW t \in Seq(T), Len(t) = 1
    PROVE  /\ q \o t \in Seq(T) /\ Grown(q, q \o t)
           /\ New(q, q \o t) = {Len(q) + 1}
           /\ (q \o t)[Len(q) + 1] = t[1]
<1> DEFINE p == q \o t
<1>1. /\ Len(q) \in Nat /\ p \in Seq(T) /\ Len(p) = Len(q) + Len(t)
      /\ \A n \in 1 .. Len(q) : p[n] = q[n]
      /\ \A j \in DOMAIN t : p[Len(q) + j] = t[j]
  BY ConcatNew
<1>2. 1 \in DOMAIN t
  OBVIOUS
<1> HIDE DEF p
<1>3. Len(q) + 1 .. Len(p) = {Len(q) + 1} /\ Len(q) <= Len(p)
  BY <1>1
<1> QED
  BY <1>1, <1>2, <1>3 DEF Grown, New, p

LEMMA TwoMore ==
    ASSUME NEW T, NEW q \in Seq(T), NEW t \in Seq(T)
    PROVE  Len(t) = 2 => /\ q \o t \in Seq(T) /\ Grown(q, q \o t)
                         /\ New(q, q \o t) = {Len(q) + 1, Len(q) + 2}
                         /\ (q \o t)[Len(q) + 1] = t[1] /\ (q \o t)[Len(q) + 2] = t[2]
<1> DEFINE p == q \o t
<1>1. /\ Len(q) \in Nat /\ p \in Seq(T) /\ Len(p) = Len(q) + Len(t)
      /\ \A n \in 1 .. Len(q) : p[n] = q[n]
      /\ \A j \in DOMAIN t : p[Len(q) + j] = t[j]
  BY ConcatNew
<1>2. Len(t) = 2 => 1 \in DOMAIN t /\ 2 \in DOMAIN t
  OBVIOUS
<1> HIDE DEF p
<1>3. Len(t) = 2 => Len(q) + 1 .. Len(p) = {Len(q) + 1, Len(q) + 2} /\ Len(q) <= Len(p)
  BY <1>1
<1> QED
  BY <1>1, <1>2, <1>3 DEF Grown, New, p

(* What the compositor tells the daemon of a new owner. *)
Tells(sel, new) ==
    /\ \A n \in New(events, events') :
          \/ owner[sel].by = "daemon" /\ events'[n] = Cancelled(sel, owner[sel].source)
          \/ device[sel[1]] /\ events'[n] = SelectionEvent(sel, new.content)
    /\ owner[sel].by = "daemon" =>
          \E n \in New(events, events') : events'[n] = Cancelled(sel, owner[sel].source)
    /\ device[sel[1]] =>
          \E n \in New(events, events') :
             /\ events'[n] = SelectionEvent(sel, new.content)
             /\ \A m \in New(events, events') : m <= n
             /\ owner[sel].by = "daemon" =>
                   \E m \in New(events, events') : m < n /\ events'[m] = Cancelled(sel, owner[sel].source)

LEMMA GiveTells ==
    ASSUME TypesOK, NEW sel \in Selection, NEW new \in Owners, events' = events \o Told(sel, new)
    PROVE  events' \in Seq(Events) /\ Grown(events, events') /\ Tells(sel, new)
<1> DEFINE x == Cancelled(sel, owner[sel].source)
           y == SelectionEvent(sel, new.content)
           l == Len(events)
<1>1. events \in Seq(Events) /\ owner[sel] \in Owners /\ l \in Nat
  BY DEF TypesOK
<1>2. owner[sel].by = "daemon" => owner[sel].source \in SourceIds
  BY <1>1, OwnerIs, OwnerFields
<1>3. owner[sel].by = "daemon" => x \in Events
  BY <1>2, EventsMade
<1>4. y \in Events
  BY OwnerIs, OwnerFields, EventsMade
<1> DEFINE t == Told(sel, new)
<1>5. t = (IF owner[sel].by = "daemon" THEN <<x>> ELSE <<>>) \o (IF device[sel[1]] THEN <<y>> ELSE <<>>)
      /\ events' = events \o t
  BY DEF Told
<1> HIDE DEF x, y, l, t
<1>6. l + 1 < l + 2 /\ l + 1 <= l + 2 /\ l + 2 <= l + 2 /\ l + 1 <= l + 1
  BY <1>1
<1>7. CASE owner[sel].by = "daemon" /\ device[sel[1]]
  <2>1. t \in Seq(Events) /\ Len(t) = 2 /\ t[1] = x /\ t[2] = y
    BY <1>3, <1>4, <1>5, <1>7
  <2>2. /\ events \o t \in Seq(Events) /\ Grown(events, events \o t)
        /\ New(events, events \o t) = {l + 1, l + 2}
        /\ (events \o t)[l + 1] = x /\ (events \o t)[l + 2] = y
    BY <1>1, <2>1, TwoMore DEF l
  <2>3. /\ events' \in Seq(Events) /\ Grown(events, events')
        /\ New(events, events') = {l + 1, l + 2}
        /\ events'[l + 1] = x /\ events'[l + 2] = y
    BY <1>5, <2>2
  <2>4. \A m \in New(events, events') : m <= l + 2
    BY <1>6, <2>3
  <2> QED
    BY <1>6, <1>7, <2>3, <2>4 DEF Tells, x, y
<1>8. CASE owner[sel].by # "daemon" /\ device[sel[1]]
  <2>1. t \in Seq(Events) /\ Len(t) = 1 /\ t[1] = y
    BY <1>4, <1>5, <1>8
  <2>2. /\ events \o t \in Seq(Events) /\ Grown(events, events \o t)
        /\ New(events, events \o t) = {l + 1} /\ (events \o t)[l + 1] = y
    BY <1>1, <2>1, OneMore DEF l
  <2>3. /\ events' \in Seq(Events) /\ Grown(events, events')
        /\ New(events, events') = {l + 1} /\ events'[l + 1] = y
    BY <1>5, <2>2
  <2>4. \A m \in New(events, events') : m <= l + 1
    BY <1>6, <2>3
  <2> QED
    BY <1>8, <2>3, <2>4 DEF Tells, y
<1>9. CASE owner[sel].by = "daemon" /\ ~device[sel[1]]
  <2>1. t \in Seq(Events) /\ Len(t) = 1 /\ t[1] = x
    BY <1>3, <1>5, <1>9
  <2>2. /\ events \o t \in Seq(Events) /\ Grown(events, events \o t)
        /\ New(events, events \o t) = {l + 1} /\ (events \o t)[l + 1] = x
    BY <1>1, <2>1, OneMore DEF l
  <2>3. /\ events' \in Seq(Events) /\ Grown(events, events')
        /\ New(events, events') = {l + 1} /\ events'[l + 1] = x
    BY <1>5, <2>2
  <2> QED
    BY <1>9, <2>3 DEF Tells, x
<1>10. CASE owner[sel].by # "daemon" /\ ~device[sel[1]]
  <2>1. <<>> \o <<>> = <<>> /\ events \o <<>> = events
    BY <1>1
  <2>2. events' = events
    BY <1>5, <1>10, <2>1
  <2>3. New(events, events') = {} /\ Grown(events, events')
    BY <1>1, <2>2 DEF New, Grown, l
  <2> QED
    BY <1>1, <1>10, <2>2, <2>3 DEF Tells
<1> QED
  BY <1>7, <1>8, <1>9, <1>10

(* What the compositor makes of the first request, for a seat, for a selection. *)
Devised(s) == device'[s] <=> device[s] \/ (requests[1] = DeviceRequest(s) /\ present[s] = "present")

Owned(sel) ==
    \/ /\ owner'[sel] = owner[sel]
       /\ IsSet(requests[1], sel) =>
              \/ present[sel[1]] # "present"
              \/ requests[1].content = None /\ owner[sel] = Empty
       /\ requests[1] # DestroyRequest(sel, owner[sel].source)
    \/ requests[1] = DestroyRequest(sel, owner[sel].source) /\ owner'[sel] = Empty
    \/ /\ IsSet(requests[1], sel) /\ present[sel[1]] = "present"
       /\ owner'[sel] = IF requests[1].content = None THEN Empty
                        ELSE DaemonOwner(requests[1].source, requests[1].content)

LEMMA HandleDoes ==
    ASSUME TypesOK, HandleRequest
    PROVE  /\ requests # <<>> /\ requests' = Tail(requests)
           /\ requests[1] \in Requests
           /\ events' \in Seq(Events) /\ Grown(events, events')
           /\ UNCHANGED <<present, daemonVars, coreVars, steps>>
           /\ owner' \in [Selection -> Owners] /\ device' \in [Seats -> BOOLEAN]
           /\ \A s \in Seats : Devised(s)
           /\ \A sel \in Selection : Owned(sel)
<1> DEFINE q == requests[1]
<1>1. requests \in Seq(Requests) /\ events \in Seq(Events) /\ owner \in [Selection -> Owners]
      /\ device \in [Seats -> BOOLEAN]
  BY DEF TypesOK
<1>2. requests # <<>> /\ requests' = Tail(requests) /\ Handle(q)
      /\ UNCHANGED <<present, daemonVars, coreVars, steps>>
  <2>1. requests # <<>> /\ Head(requests) = requests[1]
    BY <1>1 DEF HandleRequest
  <2> QED
    BY <2>1 DEF HandleRequest
<1>3. q \in Requests
  BY <1>1, <1>2
<1> HIDE DEF q
<1>4. ASSUME NEW r \in Seq(Events) PROVE events \o r \in Seq(Events) /\ Grown(events, events \o r)
  <2>1. Len(events) \in Nat /\ Len(r) \in Nat /\ events \o r \in Seq(Events)
        /\ Len(events \o r) = Len(events) + Len(r)
        /\ \A n \in 1 .. Len(events) : (events \o r)[n] = events[n]
    BY <1>1
  <2> QED
    BY <2>1 DEF Grown
<1>5. events \in Seq(Events) /\ Grown(events, events)
  BY <1>1 DEF Grown
<1>6. \A sel \in Selection : owner[sel] \in Owners /\ owner[sel].content \in Contents \cup {None}
  BY <1>1, OwnerIs, OwnerFields
<1>7. CASE q.op = "device"
  <2>1. /\ q.seat \in Seats
        /\ \A sel : ~IsSet(q, sel) /\ \A k : q # DestroyRequest(sel, k)
    BY <1>3, <1>7, RequestIs, RequestFields DEF IsSet
  <2>2. <<q.seat, "regular">> \in Selection /\ <<q.seat, "primary">> \in Selection
    BY <2>1 DEF Selection
  <2>3. IF present[q.seat] # "present" THEN UNCHANGED <<owner, device, events>>
        ELSE /\ device' = [device EXCEPT ![q.seat] = TRUE]
             /\ events' = events \o <<SelectionEvent(<<q.seat, "regular">>, owner[<<q.seat, "regular">>].content),
                                      SelectionEvent(<<q.seat, "primary">>, owner[<<q.seat, "primary">>].content)>>
             /\ UNCHANGED owner
    BY <1>2, <1>7 DEF Handle
  <2> DEFINE e == SelectionEvent(<<q.seat, "regular">>, owner[<<q.seat, "regular">>].content)
             f == SelectionEvent(<<q.seat, "primary">>, owner[<<q.seat, "primary">>].content)
  <2>4. e \in Events /\ f \in Events
    BY <1>6, <2>2, EventsMade
  <2> HIDE DEF e, f
  <2>5. <<e, f>> \in Seq(Events)
    BY <2>4
  <2>6. owner' = owner /\ device' \in [Seats -> BOOLEAN] /\ events' \in Seq(Events) /\ Grown(events, events')
    BY <1>1, <1>4, <1>5, <2>3, <2>5 DEF e, f
  <2>7. \A s \in Seats : q = DeviceRequest(s) <=> s = q.seat
    BY <1>3, <1>7, RequestIs, RequestFields
  <2>8. \A s \in Seats : device'[s] <=> device[s] \/ (q = DeviceRequest(s) /\ present[s] = "present")
    BY <1>1, <2>1, <2>3, <2>7
  <2>9. \A s \in Seats : Devised(s)
    BY <2>8 DEF Devised, q
  <2>10. \A sel \in Selection : Owned(sel)
    BY <2>1, <2>6 DEF Owned, q
  <2> QED
    BY <1>1, <1>2, <1>3, <2>6, <2>9, <2>10 DEF q
<1>8. CASE q.op = "destroy"
  <2>1. q.sel \in Selection /\ q.source \in SourceIds /\ q = DestroyRequest(q.sel, q.source)
    BY <1>3, <1>8, RequestIs, RequestFields
  <2>2. IF owner[q.sel].source # q.source THEN UNCHANGED <<owner, device, events>>
        ELSE /\ owner' = [owner EXCEPT ![q.sel] = Empty]
             /\ events' = Append(events, SelectionEvent(q.sel, None))
             /\ UNCHANGED device
    BY <1>2, <1>8 DEF Handle
  <2>3. SelectionEvent(q.sel, None) \in Events
    BY <2>1, EventsMade
  <2>4. events' \in Seq(Events) /\ Grown(events, events')
    <3> DEFINE e == SelectionEvent(q.sel, None)
    <3> HIDE DEF e
    <3>1. e \in Events /\ (events' = events \/ events' = Append(events, e))
      BY <2>2, <2>3 DEF e
    <3>2. CASE events' = Append(events, e)
      <4>1. /\ events' \in Seq(Events) /\ Len(events) \in Nat /\ Len(events') = Len(events) + 1
            /\ \A n \in 1 .. Len(events) : events'[n] = events[n]
        BY <1>1, <3>1, <3>2
      <4> QED
        BY <4>1 DEF Grown
    <3> QED
      BY <1>5, <3>1, <3>2
  <2>5. /\ \A sel : ~IsSet(q, sel) /\ \A k : q = DestroyRequest(sel, k) => sel = q.sel /\ k = q.source
        /\ \A s : q # DeviceRequest(s)
    BY <1>8, RequestFields DEF IsSet
  <2>6. owner' \in [Selection -> Owners] /\ device' = device
    BY <1>1, <2>2 DEF Owners
  <2>7. ASSUME NEW sel \in Selection
        PROVE  \/ owner'[sel] = owner[sel] /\ q # DestroyRequest(sel, owner[sel].source)
               \/ q = DestroyRequest(sel, owner[sel].source) /\ owner'[sel] = Empty
    <3>1. CASE owner[q.sel].source # q.source
      BY <2>2, <2>5, <3>1
    <3>2. CASE owner[q.sel].source = q.source /\ sel = q.sel
      BY <1>1, <2>1, <2>2, <3>2
    <3>3. CASE owner[q.sel].source = q.source /\ sel # q.sel
      BY <1>1, <2>2, <2>5, <3>3
    <3> QED
      BY <3>1, <3>2, <3>3
  <2>8. \A s \in Seats : Devised(s)
    BY <2>5, <2>6 DEF Devised, q
  <2>9. \A sel \in Selection : Owned(sel)
    BY <2>5, <2>7 DEF Owned, q
  <2> QED
    BY <1>1, <1>2, <1>3, <2>4, <2>6, <2>8, <2>9 DEF q
<1>9. CASE q.op = "set"
  <2> DEFINE new == IF q.content = None THEN Empty ELSE DaemonOwner(q.source, q.content)
  <2>1. /\ q.sel \in Selection
        /\ \/ q.source = None /\ q.content = None
           \/ q.source \in SourceIds /\ q.content \in Contents
    BY <1>3, <1>9, RequestIs, RequestFields
  <2>2. new \in Owners /\ new.content \in Contents \cup {None}
    BY <2>1, OwnerFields, IdsAreSome DEF Owners
  <2>3. IF present[q.sel[1]] # "present" \/ (q.content = None /\ owner[q.sel] = Empty)
        THEN UNCHANGED <<owner, device, events>>
        ELSE Give(q.sel, new) /\ UNCHANGED device
    BY <1>2, <1>9 DEF Handle
  <2>4. /\ \A sel : (IsSet(q, sel) <=> sel = q.sel) /\ \A k : q # DestroyRequest(sel, k)
        /\ \A s : q # DeviceRequest(s)
    BY <1>9, RequestFields DEF IsSet
  <2> HIDE DEF new
  <2>5. CASE present[q.sel[1]] # "present" \/ (q.content = None /\ owner[q.sel] = Empty)
    <3>1. owner' = owner /\ device' = device /\ events' = events
      BY <2>3, <2>5
    <3>2. \A s \in Seats : Devised(s)
      BY <2>4, <3>1 DEF Devised, q
    <3>3. \A sel \in Selection : Owned(sel)
      BY <2>4, <2>5, <3>1 DEF Owned, q
    <3> QED
      BY <1>1, <1>2, <1>3, <1>5, <3>1, <3>2, <3>3 DEF q
  <2>6. CASE ~(present[q.sel[1]] # "present" \/ (q.content = None /\ owner[q.sel] = Empty))
    <3>1. owner' = [owner EXCEPT ![q.sel] = new] /\ events' = events \o Told(q.sel, new) /\ device' = device
      BY <2>3, <2>6 DEF Give
    <3>3. events' \in Seq(Events) /\ Grown(events, events')
      BY <2>1, <2>2, <3>1, GiveTells
    <3>4. owner' \in [Selection -> Owners] /\ owner'[q.sel] = new
          /\ \A sel \in Selection : sel # q.sel => owner'[sel] = owner[sel]
      BY <1>1, <2>1, <2>2, <3>1
    <3>5. owner'[q.sel] = IF q.content = None THEN Empty ELSE DaemonOwner(q.source, q.content)
      BY <3>4 DEF new
    <3>6. \A s \in Seats : Devised(s)
      BY <2>4, <3>1 DEF Devised, q
    <3>7. \A sel \in Selection : Owned(sel)
      BY <2>4, <2>6, <3>4, <3>5 DEF Owned, q
    <3> QED
      BY <1>1, <1>2, <1>3, <3>1, <3>3, <3>4, <3>6, <3>7 DEF q
  <2> QED
    BY <2>5, <2>6
<1> QED
  BY <1>3, <1>7, <1>8, <1>9, RequestIs

(* What the compositor tells the daemon when it handles the first request. *)
Announced(sel) ==
    \/ requests[1] = DeviceRequest(sel[1]) /\ present[sel[1]] = "present"
    \/ requests[1] = DestroyRequest(sel, owner[sel].source)
    \/ IsSet(requests[1], sel) /\ present[sel[1]] = "present"

LEMMA HandleTells ==
    ASSUME TypesOK, HandleRequest
    PROVE  /\ \A n \in New(events, events') : \E sel \in Selection :
                 \/ Announced(sel) /\ events'[n] = SelectionEvent(sel, owner'[sel].content)
                 \/ events'[n] = Cancelled(sel, owner[sel].source)
           /\ \A sel \in Selection :
                 requests[1] = DeviceRequest(sel[1]) /\ present[sel[1]] = "present" =>
                     \E n \in New(events, events') :
                        /\ events'[n] = SelectionEvent(sel, owner'[sel].content)
                        /\ \A m \in New(events, events') : IsNews(events'[m], sel) => m <= n
<1> DEFINE q == requests[1]
           l == Len(events)
<1>1. /\ requests \in Seq(Requests) /\ events \in Seq(Events) /\ owner \in [Selection -> Owners]
      /\ l \in Nat
  BY DEF TypesOK
<1>2. q \in Requests /\ Handle(q)
  <2>1. requests # <<>> /\ Head(requests) = requests[1] /\ requests[1] \in Requests
    BY <1>1 DEF HandleRequest
  <2> QED
    BY <2>1 DEF HandleRequest
<1> HIDE DEF q, l
<1>3. events' = events => New(events, events') = {}
  BY <1>1 DEF New, l
<1>4. \A sel \in Selection : owner[sel] \in Owners /\ owner[sel].content \in Contents \cup {None}
  BY <1>1, OwnerIs, OwnerFields
<1>5. CASE q.op = "device"
  <2>1. q.seat \in Seats /\ q = DeviceRequest(q.seat) /\ \A s : q = DeviceRequest(s) => s = q.seat
    BY <1>2, <1>5, RequestIs, RequestFields
  <2> DEFINE s == q.seat
             r == <<s, "regular">>
             p == <<s, "primary">>
             e == SelectionEvent(r, owner[r].content)
             f == SelectionEvent(p, owner[p].content)
             t == <<e, f>>
  <2>2. /\ r \in Selection /\ p \in Selection /\ r # p /\ r[1] = s /\ p[1] = s
        /\ \A sel \in Selection : sel[1] = s => sel = r \/ sel = p
    BY <2>1 DEF Selection
  <2>3. IF present[s] # "present" THEN owner' = owner /\ events' = events
        ELSE owner' = owner /\ events' = events \o t
    BY <1>2, <1>5 DEF Handle
  <2> HIDE DEF s, r, p
  <2>4. e \in Events /\ f \in Events
    BY <1>4, <2>2, EventsMade
  <2>5. e.sel = r /\ f.sel = p
    BY EventFields
  <2> HIDE DEF e, f
  <2>6. t \in Seq(Events) /\ Len(t) = 2 /\ t[1] = e /\ t[2] = f
    BY <2>4
  <2> HIDE DEF t
  <2>7. CASE present[s] # "present"
    <3>1. New(events, events') = {} /\ \A sel \in Selection : q = DeviceRequest(sel[1]) => present[sel[1]] # "present"
      BY <1>3, <2>1, <2>3, <2>7 DEF s
    <3> QED
      BY <3>1 DEF q
  <2>8. CASE present[s] = "present"
    <3>1. owner' = owner /\ events' = events \o t
      BY <2>3, <2>8
    <3>2. /\ New(events, events \o t) = {l + 1, l + 2}
          /\ (events \o t)[l + 1] = e /\ (events \o t)[l + 2] = f
      BY <1>1, <2>6, TwoMore DEF l
    <3>3. New(events, events') = {l + 1, l + 2} /\ events'[l + 1] = e /\ events'[l + 2] = f
      BY <3>1, <3>2
    <3>4. Announced(r) /\ Announced(p)
      BY <2>1, <2>2, <2>8 DEF Announced, q, s
    <3>5. events'[l + 1] = SelectionEvent(r, owner'[r].content) /\ events'[l + 2] = SelectionEvent(p, owner'[p].content)
      BY <3>1, <3>3 DEF e, f
    <3>6. \A n \in New(events, events') : \E sel \in Selection :
              Announced(sel) /\ events'[n] = SelectionEvent(sel, owner'[sel].content)
      BY <2>2, <3>3, <3>4, <3>5
    <3>7. /\ \A m \in New(events, events') : IsNews(events'[m], r) => m <= l + 1
          /\ \A m \in New(events, events') : IsNews(events'[m], p) => m <= l + 2
      <4>1. ~IsNews(events'[l + 2], r)
        BY <2>2, <2>5, <3>3 DEF IsNews
      <4>2. l + 1 <= l + 1 /\ l + 1 <= l + 2 /\ l + 2 <= l + 2
        BY <1>1
      <4> QED
        BY <3>3, <4>1, <4>2
    <3>8. \A sel \in Selection : q = DeviceRequest(sel[1]) => sel = r \/ sel = p
      BY <2>1, <2>2 DEF s
    <3>9. l + 1 \in New(events, events') /\ l + 2 \in New(events, events')
      BY <3>3
    <3> QED
      BY <3>5, <3>6, <3>7, <3>8, <3>9 DEF q
  <2> QED
    BY <2>7, <2>8
<1>6. CASE q.op = "destroy"
  <2>1. q.sel \in Selection /\ q.source \in SourceIds /\ q = DestroyRequest(q.sel, q.source)
        /\ \A s : q # DeviceRequest(s)
    BY <1>2, <1>6, RequestIs, RequestFields
  <2> DEFINE x == SelectionEvent(q.sel, None)
             t == <<x>>
  <2>2. x \in Events
    BY <2>1, EventsMade
  <2>3. IF owner[q.sel].source # q.source THEN events' = events
        ELSE owner' = [owner EXCEPT ![q.sel] = Empty] /\ events' = Append(events, x)
    BY <1>2, <1>6 DEF Handle
  <2> HIDE DEF x
  <2>4. Append(events, x) = events \o t
    BY <1>1, <2>2
  <2>5. t \in Seq(Events) /\ Len(t) = 1 /\ t[1] = x
    BY <2>2
  <2> HIDE DEF t
  <2>6. CASE owner[q.sel].source # q.source
    BY <1>3, <2>1, <2>3, <2>6 DEF q
  <2>7. CASE owner[q.sel].source = q.source
    <3>1. owner' = [owner EXCEPT ![q.sel] = Empty] /\ events' = events \o t
      BY <2>3, <2>4, <2>7
    <3>2. New(events, events \o t) = {l + 1} /\ (events \o t)[l + 1] = x
      BY <1>1, <2>5, OneMore DEF l
    <3>3. New(events, events') = {l + 1} /\ events'[l + 1] = x
      BY <3>1, <3>2
    <3>4. owner'[q.sel].content = None
      BY <1>1, <2>1, <3>1, OwnerFields
    <3>5. Announced(q.sel) /\ x = SelectionEvent(q.sel, owner'[q.sel].content)
      BY <2>1, <2>7, <3>4 DEF Announced, q, x
    <3> QED
      BY <2>1, <3>3, <3>5 DEF q
  <2> QED
    BY <2>6, <2>7
<1>7. CASE q.op = "set"
  <2> DEFINE new == IF q.content = None THEN Empty ELSE DaemonOwner(q.source, q.content)
  <2>1. /\ q.sel \in Selection /\ IsSet(q, q.sel)
        /\ \/ q.source = None /\ q.content = None
           \/ q.source \in SourceIds /\ q.content \in Contents
        /\ \A s : q # DeviceRequest(s)
    BY <1>2, <1>7, RequestIs, RequestFields DEF IsSet
  <2>2. new \in Owners
    BY <2>1, OwnerFields, IdsAreSome DEF Owners
  <2>3. IF present[q.sel[1]] # "present" \/ (q.content = None /\ owner[q.sel] = Empty)
        THEN events' = events
        ELSE Give(q.sel, new)
    BY <1>2, <1>7 DEF Handle
  <2> HIDE DEF new
  <2>4. CASE present[q.sel[1]] # "present" \/ (q.content = None /\ owner[q.sel] = Empty)
    BY <1>3, <2>1, <2>3, <2>4 DEF q
  <2>5. CASE ~(present[q.sel[1]] # "present" \/ (q.content = None /\ owner[q.sel] = Empty))
    <3>1. owner' = [owner EXCEPT ![q.sel] = new] /\ events' = events \o Told(q.sel, new)
      BY <2>3, <2>5 DEF Give
    <3>2. \A n \in New(events, events') :
             \/ events'[n] = Cancelled(q.sel, owner[q.sel].source)
             \/ events'[n] = SelectionEvent(q.sel, new.content)
      <4>1. Tells(q.sel, new)
        BY <2>1, <2>2, <3>1, GiveTells
      <4> QED
        BY <4>1 DEF Tells
    <3>3. owner'[q.sel].content = new.content
      BY <1>1, <2>1, <3>1
    <3>4. Announced(q.sel)
      BY <2>1, <2>5 DEF Announced, q
    <3> QED
      BY <2>1, <3>2, <3>3, <3>4 DEF q
  <2> QED
    BY <2>4, <2>5
<1> QED
  BY <1>2, <1>5, <1>6, <1>7, RequestIs

LEMMA HandleKeepsSource ==
    ASSUME TypesOK, TypesOK', NEW sel \in Selection,
           SourceOK(sel), BelongsOK(sel), SeatOK(sel[1]), HandleRequest
    PROVE  SourceOK(sel)'
<1> DEFINE k == source[sel]
           q == requests[1]
<1>1. /\ requests # <<>> /\ requests' = Tail(requests) /\ q \in Requests
      /\ Grown(events, events') /\ source' = source /\ current' = current
      /\ \/ /\ owner'[sel] = owner[sel]
            /\ IsSet(q, sel) => present[sel[1]] # "present" \/ q.content = None
            /\ q # DestroyRequest(sel, owner[sel].source)
         \/ /\ q = DestroyRequest(sel, owner[sel].source)
            /\ owner'[sel] = Empty
         \/ /\ IsSet(q, sel) /\ present[sel[1]] = "present"
            /\ owner'[sel] = IF q.content = None THEN Empty ELSE DaemonOwner(q.source, q.content)
  BY HandleDoes DEF daemonVars, coreVars, Owned
<1>2. /\ Len(requests) \in Nat /\ DOMAIN requests = 1 .. Len(requests) /\ Len(requests) # 0
      /\ DOMAIN requests' = 1 .. Len(requests) - 1
      /\ \A n \in 1 .. Len(requests) - 1 : requests'[n] = requests[n + 1]
  <2>1. requests \in Seq(Requests) /\ requests # <<>>
    BY <1>1 DEF TypesOK
  <2> QED
    BY <1>1, <2>1
<1>3. /\ 1 \in DOMAIN requests
      /\ \A n \in DOMAIN requests' : n + 1 \in DOMAIN requests /\ requests'[n] = requests[n + 1] /\ 1 < n + 1
      /\ \A n \in DOMAIN requests : n # 1 => n - 1 \in DOMAIN requests' /\ requests'[n - 1] = requests[n]
      /\ \A m \in DOMAIN requests', n \in DOMAIN requests' : m < n => m + 1 < n + 1
      /\ \A m \in DOMAIN requests, n \in DOMAIN requests : m < n => m - 1 < n - 1 /\ n # 1
  BY <1>2
<1>4. \A m \in DOMAIN requests', n \in DOMAIN requests : n - 1 < m => n < m + 1
  BY <1>2
<1>5. \A x : In(x, events) => In(x, events')
  BY <1>1, GrownKeeps DEF TypesOK
<1>6. Removed(sel[1]) => Removed(sel[1])'
  BY <1>5 DEF Removed
<1>7. IsSet(q, sel) => \/ q.source = None /\ q.content = None
                       \/ q.source \in SourceIds /\ q.content \in Contents
  BY <1>1, RequestIs, RequestFields DEF IsSet
<1>8. \A n \in DOMAIN requests' : IsSet(requests'[n], sel) => IsSet(requests[n + 1], sel)
  BY <1>3
<1> HIDE DEF q
<1>9. KnownOK(sel)'
  <2> SUFFICES ASSUME k # None
               PROVE  \/ \E n \in DOMAIN requests' : LastSet(sel, n)'
                      \/ NoSet(sel)' /\ owner'[sel].source = k
                      \/ In(Cancelled(sel, k), events')
                      \/ Removed(sel[1])'
    BY <1>1 DEF KnownOK
  <2>1. CASE \E n \in DOMAIN requests : LastSet(sel, n)
    <3>1. PICK n \in DOMAIN requests : LastSet(sel, n)
      BY <2>1
    <3>2. CASE n # 1
      <4>1. n - 1 \in DOMAIN requests' /\ requests'[n - 1] = requests[n]
        BY <1>3, <3>2
      <4>2. \A m \in DOMAIN requests' : IsSet(requests'[m], sel) /\ n - 1 < m => requests'[m].source = k
        BY <1>3, <1>4, <1>8, <3>1 DEF LastSet
      <4>3. LastSet(sel, n - 1)'
        BY <1>1, <3>1, <4>1, <4>2 DEF LastSet
      <4> QED
        BY <4>1, <4>3
    <3>3. CASE n = 1
      <4>1. IsSet(q, sel) /\ q.source = k /\ q.content # None
        BY <1>7, <3>1, <3>3, IdsAreSome DEF LastSet, q
      <4>2. CASE present[sel[1]] # "present"
        <5>1. seat[sel[1]] /\ sel[1] \in Seats
          BY DEF BelongsOK, Selection
        <5>2. Removed(sel[1])
          BY <4>2, <5>1 DEF SeatOK, TypesOK
        <5> QED
          BY <1>6, <5>2
      <4>3. CASE present[sel[1]] = "present"
        <5>1. owner'[sel].source = k
          BY <1>1, <4>1, <4>3, OwnerFields, RequestFields DEF IsSet
        <5>2. \A m \in DOMAIN requests' : IsSet(requests'[m], sel) => requests'[m].source = k
          BY <1>3, <1>8, <3>1, <3>3 DEF LastSet
        <5>3. CASE NoSet(sel)'
          BY <5>1, <5>3
        <5>4. CASE ~NoSet(sel)'
          <6>1. PICK m \in DOMAIN requests' : IsSet(requests'[m], sel)
            BY <5>4 DEF NoSet
          <6>2. LastSet(sel, m)'
            BY <1>1, <5>2, <6>1 DEF LastSet
          <6> QED
            BY <6>2
        <5> QED
          BY <5>3, <5>4
      <4> QED
        BY <4>2, <4>3
    <3> QED
      BY <3>2, <3>3
  <2>2. CASE NoSet(sel) /\ owner[sel].source = k
    <3>1. NoSet(sel)' /\ ~IsSet(q, sel)
      BY <1>3, <1>8, <2>2 DEF NoSet, q
    <3>2. q # DestroyRequest(sel, owner[sel].source)
      BY <1>3, <2>2 DEF SourceOK, DestroyedOK, In, q
    <3> QED
      BY <1>1, <2>2, <3>1, <3>2
  <2>3. \/ \E n \in DOMAIN requests : LastSet(sel, n)
        \/ NoSet(sel) /\ owner[sel].source = k
        \/ In(Cancelled(sel, k), events)
        \/ Removed(sel[1])
    BY DEF SourceOK, KnownOK
  <2> QED
    BY <1>5, <1>6, <2>1, <2>2, <2>3
<1>10. DestroyedOK(sel)'
  <2>1. ASSUME NEW x, In(x, requests), x # q PROVE In(x, requests')
    <3>1. PICK n \in DOMAIN requests : requests[n] = x
      BY <2>1 DEF In
    <3>2. n - 1 \in DOMAIN requests' /\ requests'[n - 1] = x
      BY <1>3, <2>1, <3>1 DEF q
    <3> QED
      BY <3>2 DEF In
  <2>2. ASSUME owner'[sel].source # None
        PROVE  \/ owner'[sel].source = k
               \/ In(DestroyRequest(sel, owner'[sel].source), requests')
    <3>1. CASE owner'[sel] = owner[sel] /\ q # DestroyRequest(sel, owner[sel].source)
      <4>1. \/ owner[sel].source = k \/ In(DestroyRequest(sel, owner[sel].source), requests)
        BY <2>2, <3>1 DEF SourceOK, DestroyedOK
      <4> QED
        BY <2>1, <3>1, <4>1
    <3>2. CASE owner'[sel] = Empty
      BY <2>2, <3>2, OwnerFields
    <3>3. CASE IsSet(q, sel) /\ owner'[sel] = DaemonOwner(q.source, q.content)
      <4>1. owner'[sel].source = q.source
        BY <3>3, OwnerFields
      <4>2. \/ q.source = k
            \/ \E m \in DOMAIN requests : 1 < m /\ requests[m] = DestroyRequest(sel, q.source)
        BY <1>3, <2>2, <3>3, <4>1 DEF SourceOK, DestroyedOK, q
      <4>3. ASSUME NEW m \in DOMAIN requests, 1 < m, requests[m] = DestroyRequest(sel, q.source)
            PROVE  In(DestroyRequest(sel, q.source), requests')
        <5>1. m - 1 \in DOMAIN requests' /\ requests'[m - 1] = DestroyRequest(sel, q.source)
          BY <1>3, <4>3
        <5> QED
          BY <5>1 DEF In
      <4> QED
        BY <4>1, <4>2, <4>3
    <3> QED
      BY <1>1, <3>1, <3>2, <3>3
  <2>3. ASSUME NEW n \in DOMAIN requests', IsSet(requests'[n], sel), requests'[n].source # None
        PROVE  \/ requests'[n].source = k
               \/ \E m \in DOMAIN requests' : n < m /\ requests'[m] = DestroyRequest(sel, requests'[n].source)
    <3>1. n + 1 \in DOMAIN requests /\ requests'[n] = requests[n + 1]
      BY <1>3
    <3>2. \/ requests[n + 1].source = k
          \/ \E m \in DOMAIN requests : n + 1 < m /\ requests[m] = DestroyRequest(sel, requests[n + 1].source)
      BY <2>3, <3>1 DEF SourceOK, DestroyedOK
    <3>3. ASSUME NEW m \in DOMAIN requests, n + 1 < m
          PROVE  m - 1 \in DOMAIN requests' /\ n < m - 1 /\ requests'[m - 1] = requests[m]
      BY <1>2, <3>3
    <3> QED
      BY <3>1, <3>2, <3>3
  <2>4. k # None => ~In(DestroyRequest(sel, k), requests')
    BY <1>3 DEF SourceOK, DestroyedOK, In
  <2> QED
    BY <1>1, <2>2, <2>3, <2>4 DEF DestroyedOK
<1>11. OfferedOK(sel)'
  <2> SUFFICES ASSUME k # None
               PROVE  /\ owner'[sel].source = k => current \in {None, owner'[sel].content}
                      /\ \A n \in DOMAIN requests' :
                             IsSet(requests'[n], sel) /\ requests'[n].source = k =>
                                 current \in {None, requests'[n].content}
    BY <1>1 DEF OfferedOK
  <2>1. /\ owner[sel].source = k => current \in {None, owner[sel].content}
        /\ \A n \in DOMAIN requests :
               IsSet(requests[n], sel) /\ requests[n].source = k =>
                   current \in {None, requests[n].content}
    BY DEF SourceOK, OfferedOK
  <2>2. ASSUME owner'[sel].source = k PROVE current \in {None, owner'[sel].content}
    <3>1. CASE owner'[sel] = owner[sel]
      BY <2>1, <2>2, <3>1
    <3>2. CASE owner'[sel] = Empty
      BY <2>2, <3>2, OwnerFields
    <3>3. CASE IsSet(q, sel) /\ owner'[sel] = DaemonOwner(q.source, q.content)
      <4>1. owner'[sel].source = q.source /\ owner'[sel].content = q.content
        BY <3>3, OwnerFields
      <4> QED
        BY <1>3, <2>1, <2>2, <3>3, <4>1 DEF q
    <3> QED
      BY <1>1, <3>1, <3>2, <3>3
  <2> QED
    BY <1>3, <1>8, <2>1, <2>2
<1> QED
  BY <1>9, <1>10, <1>11 DEF SourceOK

(* An event that is handled without setting anything. *)
LEMMA TailIsTaken ==
    ASSUME TypesOK, events # <<>>, events' = Tail(events)
    PROVE  /\ \E g : Taken(g, {1}, {})
           /\ events[1] \in Events /\ Head(events) = events[1] /\ 1 \in DOMAIN events
<1>1. Left({}, {1}, requests, Tail(events))
  BY DEF Left
<1>2. PICK g : /\ Tail(events) \in Seq(Events)
               /\ Evolves(events, Tail(events), g, Len(Tail(events)))
               /\ \A i \in DOMAIN events : g[i] = 0 <=> i \in {1}
  BY <1>1, LeftEvents
<1>3. Taken(g, {1}, {})
  BY <1>2 DEF Taken
<1>4. events[1] \in Events /\ Head(events) = events[1] /\ 1 \in DOMAIN events
  BY DEF TypesOK
<1> QED
  BY <1>3, <1>4

LEMMA HandledSets ==
    ASSUME TypesOK, events # <<>>, events' = Tail(events), requests' = requests, source' = source
    PROVE  Sets({}, None, {}, {1})
<1>1. \E g : Taken(g, {1}, {})
  BY TailIsTaken
<1>2. Reset({}, None)
  BY DEF Reset, TypesOK
<1>3. requests \in Seq(Requests)
  BY DEF TypesOK
<1>4. Grown(requests, requests') /\ New(requests, requests') = {}
  BY <1>3 DEF Grown, New
<1>5. Requested({}, None, {})
  BY <1>3, <1>4 DEF Requested
<1> QED
  BY <1>1, <1>2, <1>5 DEF Sets

LEMMA CancelledDoes ==
    ASSUME TypesOK, SourceCancelled
    PROVE  \E e \in Events :
              /\ events[1] = e /\ 1 \in DOMAIN events
              /\ e.sel \in Selection /\ e.source \in SourceIds /\ e = Cancelled(e.sel, e.source)
              /\ source' = IF source[e.sel] = e.source THEN [source EXCEPT ![e.sel] = None] ELSE source
              /\ requests' \in Seq(Requests) /\ Grown(requests, requests')
              /\ \A n \in New(requests, requests') : requests'[n] = DestroyRequest(e.sel, e.source)
              /\ \E n \in New(requests, requests') : requests'[n] = DestroyRequest(e.sel, e.source)
              /\ \E g : Taken(g, {1}, {})
              /\ UNCHANGED <<compositorVars, seat, offer, timer, blocked, coreVars, steps>>
<1> DEFINE e == events[1]
<1>1. events # <<>> /\ events' = Tail(events) /\ Head(events).type = "cancelled"
      /\ UNCHANGED <<compositorVars, seat, offer, timer, blocked, coreVars, steps>>
  BY DEF SourceCancelled, Arrived
<1>2. e \in Events /\ Head(events) = e /\ 1 \in DOMAIN events /\ \E g : Taken(g, {1}, {})
  BY <1>1, TailIsTaken
<1>3. /\ source' = IF source[e.sel] = e.source THEN [source EXCEPT ![e.sel] = None] ELSE source
      /\ requests' = Append(requests, DestroyRequest(e.sel, e.source))
  BY <1>2 DEF SourceCancelled
<1> HIDE DEF e
<1>4. e.sel \in Selection /\ e.source \in SourceIds /\ e = Cancelled(e.sel, e.source)
  BY <1>1, <1>2, EventIs, EventFields
<1>5. DestroyRequest(e.sel, e.source) \in Requests
  BY <1>4, RequestsMade
<1> DEFINE d == DestroyRequest(e.sel, e.source)
<1> HIDE DEF d
<1>6. /\ requests' \in Seq(Requests) /\ Len(requests) \in Nat /\ Len(requests') = Len(requests) + 1
      /\ \A n \in 1 .. Len(requests) : requests'[n] = requests[n]
      /\ requests'[Len(requests) + 1] = d
  BY <1>3, <1>5 DEF TypesOK, d
<1>7. New(requests, requests') = {Len(requests) + 1} /\ Grown(requests, requests')
  BY <1>6 DEF New, Grown
<1>8. /\ \A n \in New(requests, requests') : requests'[n] = d
      /\ \E n \in New(requests, requests') : requests'[n] = d
  BY <1>6, <1>7
<1> QED
  BY <1>1, <1>2, <1>3, <1>4, <1>6, <1>7, <1>8 DEF d, e

LEMMA CancelledKeepsSource ==
    ASSUME TypesOK, TypesOK', NEW sel \in Selection, SourceOK(sel), SourceCancelled
    PROVE  SourceOK(sel)'
<1>1. PICK e \in Events :
          /\ events[1] = e /\ 1 \in DOMAIN events
          /\ e.sel \in Selection /\ e.source \in SourceIds /\ e = Cancelled(e.sel, e.source)
          /\ source' = IF source[e.sel] = e.source THEN [source EXCEPT ![e.sel] = None] ELSE source
          /\ requests' \in Seq(Requests) /\ Grown(requests, requests')
          /\ \A n \in New(requests, requests') : requests'[n] = DestroyRequest(e.sel, e.source)
          /\ \E n \in New(requests, requests') : requests'[n] = DestroyRequest(e.sel, e.source)
          /\ \E g : Taken(g, {1}, {})
          /\ UNCHANGED <<compositorVars, seat, offer, timer, blocked, coreVars, steps>>
  BY CancelledDoes
<1>2. owner' = owner /\ current' = current
  BY <1>1 DEF compositorVars, coreVars
<1>3. PICK g : Taken(g, {1}, {})
  BY <1>1
<1>4. \A x : In(x, events) /\ x # e => In(x, events')
  BY <1>1, <1>3, TakenStays
<1>5. source \in [Selection -> Source]
  BY DEF TypesOK
<1>6. CASE e.sel = sel /\ source[sel] = e.source
  <2>1. source'[sel] = None /\ source[sel] # None
    BY <1>1, <1>5, <1>6, IdsAreSome
  <2>2. \A n \in New(requests, requests') :
            ~IsSet(requests'[n], sel) /\ requests'[n] # DestroyRequest(sel, source'[sel])
    BY <1>1, <1>6, <2>1, RequestFields DEF IsSet
  <2>3. DestroyedOK(sel)
    BY DEF SourceOK
  <2> QED
    BY <1>1, <1>2, <1>6, <2>1, <2>2, <2>3, ResetKeepsSource
<1>7. CASE ~(e.sel = sel /\ source[sel] = e.source)
  <2>1. source'[sel] = source[sel]
    BY <1>1, <1>5, <1>7
  <2>2. \A n \in New(requests, requests') :
            ~IsSet(requests'[n], sel) /\ requests'[n] # DestroyRequest(sel, source[sel])
    BY <1>1, <1>7, RequestFields DEF IsSet
  <2>3. In(Cancelled(sel, source[sel]), events) => In(Cancelled(sel, source[sel]), events')
    <3>1. Cancelled(sel, source[sel]) # e
      BY <1>1, <1>7, EventFields
    <3> QED
      BY <1>4, <3>1
  <2>4. Removed(sel[1]) => Removed(sel[1])'
    <3>1. SeatEvent("removed", sel[1]) # e
      BY <1>1, EventFields
    <3> QED
      BY <1>4, <3>1 DEF Removed
  <2> QED
    BY <1>1, <1>2, <2>1, <2>2, <2>3, <2>4, NeutralKeepsSource
<1> QED
  BY <1>6, <1>7

LEMMA RemoveDoes ==
    ASSUME TypesOK, SeatRemove
    PROVE  \E s \in Seats :
              /\ events[1] = SeatEvent("removed", s) /\ 1 \in DOMAIN events
              /\ seat' = [seat EXCEPT ![s] = FALSE]
              /\ source' = [sel \in Selection |-> IF sel[1] = s THEN None ELSE source[sel]]
              /\ timer' = [sel \in Selection |-> timer[sel] /\ sel[1] # s]
              /\ offer' = [sel \in Selection |-> offer[sel] /\ sel[1] # s]
              /\ blocked' = [blocked EXCEPT ![s] = FALSE]
              /\ requests' \in Seq(Requests) /\ Grown(requests, requests')
              /\ \A n \in New(requests, requests') : \E sel \in SelectionsOf(s) :
                     source[sel] # None /\ requests'[n] = DestroyRequest(sel, source[sel])
              /\ \A sel \in SelectionsOf(s) : source[sel] # None =>
                     \E n \in New(requests, requests') : requests'[n] = DestroyRequest(sel, source[sel])
              /\ events' \in Seq(Events)
              /\ \E g : /\ Evolves(events, events', g, Len(events'))
                        /\ \A i \in DOMAIN events :
                              g[i] = 0 <=> \/ i = 1
                                           \/ /\ events[i].type \in {"selection", "cancelled"}
                                              /\ events[i].sel \in SelectionsOf(s)
              /\ UNCHANGED <<compositorVars, coreVars, steps>>
<1> DEFINE s == events[1].seat
           t == Tail(events)
           P == {e \in ToSet(t) : e.type \in {"selection", "cancelled"} => e.sel \notin SelectionsOf(s)}
           r == DestroyRequests(SelectionsOf(s))
<1>1. events \in Seq(Events) /\ requests \in Seq(Requests) /\ source \in [Selection -> Source]
  BY DEF TypesOK
<1>2. events # <<>> /\ Head(events).type = "removed" /\ Head(events) = events[1] /\ 1 \in DOMAIN events
      /\ events[1] \in Events
  BY <1>1 DEF SeatRemove, Arrived
<1>3. /\ seat' = [seat EXCEPT ![s] = FALSE]
      /\ source' = [sel \in Selection |-> IF sel \in SelectionsOf(s) THEN None ELSE source[sel]]
      /\ offer' = [sel \in Selection |-> offer[sel] /\ sel \notin SelectionsOf(s)]
      /\ timer' = [sel \in Selection |-> timer[sel] /\ sel \notin SelectionsOf(s)]
      /\ blocked' = [blocked EXCEPT ![s] = FALSE]
      /\ requests' = requests \o r
      /\ events' = Keep(t, P)
      /\ UNCHANGED <<compositorVars, coreVars, steps>>
  BY <1>2 DEF SeatRemove
<1>4. s \in Seats /\ events[1] = SeatEvent("removed", s)
  BY <1>2, EventIs, EventFields
<1>5. \A sel \in Selection : sel \in SelectionsOf(s) <=> sel[1] = s
  BY DEF SelectionsOf
<1>6. SelectionsOf(s) \in SUBSET Selection
  BY DEF SelectionsOf
<1>7. \A e \in ToSet(t) : e \in P <=> ~(e.type \in {"selection", "cancelled"} /\ e.sel \in SelectionsOf(s))
  OBVIOUS
<1>8. PICK g, k : /\ Evolves(events, t, g, k)
                  /\ k = Len(t)
                  /\ \A i \in DOMAIN events : g[i] = 0 <=> i = 1
  BY <1>1, <1>2, TailEvolves
<1>9. t \in Seq(Events)
  BY <1>1, <1>2
<1> HIDE DEF s, t, P, r
<1>10. /\ r \in Seq(Requests)
       /\ \A j \in DOMAIN r : \E sel \in SelectionsOf(s) : source[sel] # None /\ r[j] = DestroyRequest(sel, source[sel])
       /\ \A sel \in SelectionsOf(s) : source[sel] # None =>
              \E j \in DOMAIN r : r[j] = DestroyRequest(sel, source[sel])
  BY <1>1, <1>6, DestroysMade DEF r
<1>11. /\ requests' \in Seq(Requests)
       /\ \A n \in New(requests, requests') : \E j \in DOMAIN r : requests'[n] = r[j] /\ n = Len(requests) + j
       /\ \A j \in DOMAIN r : /\ Len(requests) + j \in New(requests, requests')
                              /\ requests'[Len(requests) + j] = r[j]
  <2>1. requests' = requests \o r /\ requests \in Seq(Requests) /\ r \in Seq(Requests)
    BY <1>1, <1>3, <1>10
  <2>2. /\ requests' \in Seq(Requests)
        /\ \A n \in Len(requests) + 1 .. Len(requests') :
               \E j \in DOMAIN r : requests'[n] = r[j] /\ n = Len(requests) + j
        /\ \A j \in DOMAIN r : /\ Len(requests) + j \in Len(requests) + 1 .. Len(requests')
                               /\ requests'[Len(requests) + j] = r[j]
    BY <2>1, ConcatNew
  <2> QED
    BY <2>2 DEF New
<1>12. Grown(requests, requests')
  <2>1. Len(requests) \in Nat /\ Len(r) \in Nat /\ Len(requests') = Len(requests) + Len(r)
        /\ \A n \in 1 .. Len(requests) : requests'[n] = requests[n]
    BY <1>1, <1>3, <1>10
  <2> QED
    BY <2>1 DEF Grown
<1>13. ASSUME NEW n \in New(requests, requests')
       PROVE  \E sel \in SelectionsOf(s) : source[sel] # None /\ requests'[n] = DestroyRequest(sel, source[sel])
  <2>1. PICK j \in DOMAIN r : requests'[n] = r[j]
    BY <1>11
  <2>2. PICK sel \in SelectionsOf(s) : source[sel] # None /\ r[j] = DestroyRequest(sel, source[sel])
    BY <1>10
  <2> QED
    BY <2>1, <2>2
<1>14. ASSUME NEW sel \in SelectionsOf(s), source[sel] # None
       PROVE  \E n \in New(requests, requests') : requests'[n] = DestroyRequest(sel, source[sel])
  <2>1. PICK j \in DOMAIN r : r[j] = DestroyRequest(sel, source[sel])
    BY <1>10, <1>14
  <2>2. Len(requests) + j \in New(requests, requests') /\ requests'[Len(requests) + j] = r[j]
    BY <1>11
  <2> QED
    BY <2>1, <2>2
<1>15. PICK h, l : /\ events' \in Seq(Events)
                   /\ Evolves(t, events', h, l)
                   /\ l = Len(events')
                   /\ \A i \in DOMAIN t : h[i] = 0 <=> t[i] \notin P
  BY <1>3, <1>9, KeepEvolves
<1>16. PICK d : /\ Evolves(events, events', d, Len(events'))
                /\ \A i \in DOMAIN events : d[i] = 0 <=> g[i] = 0 \/ h[g[i]] = 0
  BY <1>1, <1>8, <1>9, <1>15, TwiceEvolves
<1>17. \A i \in DOMAIN events : g[i] # 0 => g[i] \in DOMAIN t /\ t[g[i]] = events[i]
  <2>1. Len(t) \in Nat /\ DOMAIN t = 1 .. Len(t)
    BY <1>9
  <2> QED
    BY <1>8, <2>1 DEF Evolves
<1>18. \A i \in DOMAIN t : t[i] \in ToSet(t)
  BY DEF ToSet
<1>19. ASSUME NEW i \in DOMAIN events
       PROVE  d[i] = 0 <=> \/ i = 1
                           \/ /\ events[i].type \in {"selection", "cancelled"}
                              /\ events[i].sel \in SelectionsOf(s)
  <2>1. CASE i = 1
    BY <1>8, <1>16, <2>1
  <2>2. CASE i # 1
    <3>1. g[i] # 0 /\ g[i] \in DOMAIN t /\ t[g[i]] = events[i]
      BY <1>8, <1>17, <2>2
    <3>2. d[i] = 0 <=> events[i] \notin P
      BY <1>15, <1>16, <3>1
    <3>3. events[i] \in ToSet(t)
      BY <1>18, <3>1
    <3> QED
      BY <1>7, <2>2, <3>2, <3>3
  <2> QED
    BY <2>1, <2>2
<1>20. \E f : /\ Evolves(events, events', f, Len(events'))
              /\ \A i \in DOMAIN events :
                    f[i] = 0 <=> \/ i = 1
                                 \/ /\ events[i].type \in {"selection", "cancelled"}
                                    /\ events[i].sel \in SelectionsOf(s)
  BY <1>16, <1>19
<1>21. /\ source' = [sel \in Selection |-> IF sel[1] = s THEN None ELSE source[sel]]
       /\ timer' = [sel \in Selection |-> timer[sel] /\ sel[1] # s]
       /\ offer' = [sel \in Selection |-> offer[sel] /\ sel[1] # s]
  BY <1>3, <1>5
<1> QED
  BY <1>2, <1>3, <1>4, <1>11, <1>12, <1>13, <1>14, <1>15, <1>20, <1>21

LEMMA RemoveKeepsSource ==
    ASSUME TypesOK, TypesOK', NEW sel \in Selection, SourceOK(sel), SeatRemove
    PROVE  SourceOK(sel)'
<1>1. PICK s \in Seats :
          /\ events[1] = SeatEvent("removed", s) /\ 1 \in DOMAIN events
          /\ source' = [t \in Selection |-> IF t[1] = s THEN None ELSE source[t]]
          /\ requests' \in Seq(Requests) /\ Grown(requests, requests')
          /\ \A n \in New(requests, requests') : \E t \in SelectionsOf(s) :
                 source[t] # None /\ requests'[n] = DestroyRequest(t, source[t])
          /\ \A t \in SelectionsOf(s) : source[t] # None =>
                 \E n \in New(requests, requests') : requests'[n] = DestroyRequest(t, source[t])
          /\ events' \in Seq(Events)
          /\ \E g : /\ Evolves(events, events', g, Len(events'))
                    /\ \A i \in DOMAIN events :
                          g[i] = 0 <=> \/ i = 1
                                       \/ /\ events[i].type \in {"selection", "cancelled"}
                                          /\ events[i].sel \in SelectionsOf(s)
          /\ UNCHANGED <<compositorVars, coreVars, steps>>
  BY RemoveDoes
<1>2. owner' = owner /\ current' = current
  BY <1>1 DEF compositorVars, coreVars
<1>3. \A n \in New(requests, requests') : ~IsSet(requests'[n], sel)
  BY <1>1, RequestFields DEF IsSet
<1>4. CASE sel[1] = s
  <2>1. source'[sel] = None /\ sel \in SelectionsOf(s)
    BY <1>1, <1>4 DEF SelectionsOf
  <2>2. \A n \in New(requests, requests') : requests'[n] # DestroyRequest(sel, source'[sel])
    BY <1>1, <2>1, RequestFields
  <2>3. DestroyedOK(sel)
    BY DEF SourceOK
  <2> QED
    BY <1>1, <1>2, <1>3, <2>1, <2>2, <2>3, ResetKeepsSource
<1>5. CASE sel[1] # s
  <2>1. source'[sel] = source[sel] /\ sel \notin SelectionsOf(s)
    BY <1>1, <1>5 DEF SelectionsOf
  <2>2. \A n \in New(requests, requests') : requests'[n] # DestroyRequest(sel, source[sel])
    BY <1>1, <2>1, RequestFields
  <2>3. PICK g : /\ Evolves(events, events', g, Len(events'))
                 /\ \A i \in DOMAIN events :
                       g[i] = 0 <=> \/ i = 1
                                    \/ /\ events[i].type \in {"selection", "cancelled"}
                                       /\ events[i].sel \in SelectionsOf(s)
    BY <1>1
  <2>4. ASSUME NEW i \in DOMAIN events, i # 1,
               ~(events[i].type \in {"selection", "cancelled"} /\ events[i].sel \in SelectionsOf(s))
        PROVE  In(events[i], events')
    <3>1. g[i] # 0
      BY <2>3, <2>4
    <3>2. g[i] \in 1 .. Len(events') /\ events'[g[i]] = events[i]
      BY <2>3, <3>1 DEF Evolves
    <3>3. g[i] \in DOMAIN events'
      BY <1>1, <3>2
    <3> QED
      BY <3>2, <3>3 DEF In
  <2>5. In(Cancelled(sel, source[sel]), events) => In(Cancelled(sel, source[sel]), events')
    <3> SUFFICES ASSUME NEW i \in DOMAIN events, events[i] = Cancelled(sel, source[sel])
                 PROVE  In(Cancelled(sel, source[sel]), events')
      BY DEF In
    <3>1. events[i].type = "cancelled" /\ events[i].sel = sel
      BY EventFields
    <3>2. i # 1
      BY <1>1, <3>1, EventFields
    <3> QED
      BY <2>1, <2>4, <3>1, <3>2
  <2>6. Removed(sel[1]) => Removed(sel[1])'
    <3> SUFFICES ASSUME NEW i \in DOMAIN events, events[i] = SeatEvent("removed", sel[1])
                 PROVE  In(SeatEvent("removed", sel[1]), events')
      BY DEF In, Removed
    <3>1. events[i].type = "removed" /\ events[i].seat = sel[1]
      BY EventFields
    <3>2. i # 1
      BY <1>1, <1>5, <3>1, EventFields
    <3> QED
      BY <2>4, <3>1, <3>2
  <2> QED
    BY <1>1, <1>2, <1>3, <2>1, <2>2, <2>5, <2>6, NeutralKeepsSource
<1> QED
  BY <1>4, <1>5

-----------------------------------------------------------------------------
(* Steps, as the rest of the invariant sees them *)

LEMMA SeatStartDoes ==
    ASSUME TypesOK, SeatStart
    PROVE  \E s \in Seats, S \in SUBSET Selection :
              /\ events[1] = SeatEvent("name", s) /\ 1 \in DOMAIN events
              /\ seat' = [seat EXCEPT ![s] = TRUE]
              /\ \A sel \in S : sel \in Enabled /\ sel[1] = s
              /\ Sets(S, current, {s}, {1})
              /\ UNCHANGED <<compositorVars, offer, timer, blocked, coreVars, steps>>
<1> DEFINE s == events[1].seat
<1>1. events # <<>> /\ Head(events) = events[1] /\ events[1].type = "name" /\ 1 \in DOMAIN events
      /\ events[1] \in Events
  <2>1. events # <<>> /\ Head(events).type = "name"
    BY DEF SeatStart, Arrived
  <2> QED
    BY <2>1 DEF TypesOK
<1>2. s \in Seats /\ events[1] = SeatEvent("name", s)
  BY <1>1, EventIs, EventFields
<1>3. /\ seat' = [seat EXCEPT ![s] = TRUE]
      /\ SetSelections(Configured(s), current, cleared, Append(requests, DeviceRequest(s)), Tail(events))
      /\ UNCHANGED <<compositorVars, offer, timer, blocked, coreVars, steps>>
  BY <1>1 DEF SeatStart
<1> HIDE DEF s
<1>4. Left({s}, {1}, Append(requests, DeviceRequest(s)), Tail(events))
  BY <1>1, <1>2 DEF Left
<1>5. Configured(s) \in SUBSET Selection /\ {} \in SUBSET Selection
      /\ \A sel \in Configured(s) : sel \in Enabled /\ sel[1] = s
  BY DEF Configured, SelectionsOf
<1>6. current \in Contents \cup {None}
  BY DEF TypesOK
<1>7. Sets({}, current, {s}, {1}) \/ Sets(Configured(s), current, {s}, {1})
  BY <1>3, <1>4, <1>5, <1>6, SetSelectionsDoes
<1> QED
  BY <1>1, <1>2, <1>3, <1>5, <1>7

LEMMA SelectionArrived ==
    ASSUME TypesOK, Arrived("selection")
    PROVE  /\ events # <<>> /\ 1 \in DOMAIN events /\ Head(events) = events[1]
           /\ events[1].sel \in Selection /\ events[1].content \in Contents \cup {None}
           /\ events[1] = SelectionEvent(events[1].sel, events[1].content)
           /\ events[1].sel[1] \in Seats
<1>1. events # <<>> /\ Head(events) = events[1] /\ events[1] \in Events /\ 1 \in DOMAIN events
      /\ events[1].type = "selection"
  <2>1. events # <<>> /\ Head(events).type = "selection"
    BY DEF Arrived
  <2> QED
    BY <2>1 DEF TypesOK
<1>2. /\ events[1].sel \in Selection /\ events[1].content \in Contents \cup {None}
      /\ events[1] = SelectionEvent(events[1].sel, events[1].content)
  BY <1>1, EventIs, EventFields
<1> QED
  BY <1>1, <1>2 DEF Selection

(* A selection event after which nothing is set. *)
LEMMA NewsDoes ==
    ASSUME TypesOK, SelectionIgnored \/ SelectionEmptied \/ SelectionPassed \/ SelectionFails
    PROVE  \E sel \in Selection, c \in Contents \cup {None} :
              /\ events[1] = SelectionEvent(sel, c) /\ 1 \in DOMAIN events
              /\ Sets({}, None, {}, {1})
              /\ UNCHANGED <<compositorVars, seat, cleared, newest, history, steps>>
              /\ current' \in {current, None}
              /\ offer' \in [Selection -> BOOLEAN] /\ blocked' \in [Seats -> BOOLEAN]
              /\ timer' \in [Selection -> BOOLEAN]
              /\ \A t \in Selection : timer'[t] => timer[t] \/ (t = sel /\ sel \in Enabled)
              /\ sel \in Enabled /\ source[sel] = None /\ c \in Storable /\ "begin" \notin Faults =>
                     c = newest \/ current' = None
<1> DEFINE e == events[1]
<1>1. Arrived("selection") /\ events' = Tail(events) /\ requests' = requests /\ source' = source
      /\ UNCHANGED <<compositorVars, seat, cleared, newest, history, steps>>
  BY DEF SelectionIgnored, SelectionEmptied, SelectionPassed, SelectionFails, Copied, coreVars
<1>2. /\ events # <<>> /\ 1 \in DOMAIN events /\ Head(events) = e
      /\ e.sel \in Selection /\ e.content \in Contents \cup {None} /\ e = SelectionEvent(e.sel, e.content)
      /\ e.sel[1] \in Seats
  BY <1>1, SelectionArrived
<1>3. Sets({}, None, {}, {1})
  BY <1>1, <1>2, HandledSets
<1>4. \/ /\ ~Listened(e)
         /\ blocked' = [blocked EXCEPT ![e.sel[1]] = BlockedAfter(e)]
         /\ offer' = IF e.sel \in Enabled THEN [offer EXCEPT ![e.sel] = FALSE] ELSE offer
         /\ timer' = timer /\ current' = current
      \/ /\ Listened(e) /\ e.content = None
         /\ offer' = [offer EXCEPT ![e.sel] = FALSE]
         /\ timer' = [timer EXCEPT ![e.sel] = @ \/ NullArms(e.sel)]
         /\ blocked' = blocked /\ current' = current
      \/ /\ Listened(e) /\ e.content # None
         /\ offer' = [offer EXCEPT ![e.sel] = TRUE]
         /\ blocked' = [blocked EXCEPT ![e.sel[1]] = FALSE]
         /\ timer' = timer
         /\ \/ e.content \in Unlisted \cup {newest} /\ current' = current
            \/ \E f \in Faults : current' = IF f = "begin" THEN current ELSE None
  BY <1>2 DEF SelectionIgnored, SelectionEmptied, SelectionPassed, SelectionFails, Copied, coreVars
<1> HIDE DEF e
<1>5. BlockedAfter(e) \in BOOLEAN /\ NullArms(e.sel) \in BOOLEAN
  <2>1. blocked[e.sel[1]] \in BOOLEAN
    BY <1>2 DEF TypesOK
  <2>2. NullArms(e.sel) \in BOOLEAN
    BY DEF NullArms
  <2>3. CASE e.content = None
    BY <2>1, <2>2, <2>3 DEF BlockedAfter
  <2>4. CASE e.content # None
    BY <2>2, <2>4 DEF BlockedAfter
  <2> QED
    BY <2>3, <2>4
<1>6. current' \in {current, None}
  BY <1>4
<1>7. offer' \in [Selection -> BOOLEAN] /\ blocked' \in [Seats -> BOOLEAN]
  BY <1>2, <1>4, <1>5 DEF TypesOK
<1>8. timer' \in [Selection -> BOOLEAN]
  BY <1>2, <1>4, <1>5 DEF TypesOK
<1>9. \A t \in Selection : timer'[t] => timer[t] \/ (t = e.sel /\ e.sel \in Enabled)
  BY <1>2, <1>4 DEF Listened, TypesOK
<1>10. e.sel \in Enabled /\ source[e.sel] = None /\ e.content \in Storable /\ "begin" \notin Faults =>
           e.content = newest \/ current' = None
  <2> SUFFICES ASSUME e.sel \in Enabled, source[e.sel] = None, e.content \in Storable, "begin" \notin Faults
               PROVE  e.content = newest \/ current' = None
    OBVIOUS
  <2>1. e.content # None /\ e.content \notin Blocked /\ e.content \notin Unlisted
    BY IdsAreSome DEF Storable
  <2>2. Listened(e)
    BY <2>1 DEF Listened, Ignored, BlockedAfter
  <2> QED
    BY <1>4, <2>1, <2>2
<1> QED
  BY <1>1, <1>2, <1>3, <1>6, <1>7, <1>8, <1>9, <1>10 DEF e

LEMMA StoredDoes ==
    ASSUME TypesOK, SelectionStored
    PROVE  \E sel \in Selection, c \in Contents :
              /\ events[1] = SelectionEvent(sel, c) /\ 1 \in DOMAIN events
              /\ sel \in Enabled /\ source[sel] = None
              /\ Sets(Started \ {sel}, c, {}, {1})
              /\ current' = c /\ newest' = c /\ history' = history \cup {c}
              /\ offer' \in [Selection -> BOOLEAN] /\ blocked' \in [Seats -> BOOLEAN]
              /\ UNCHANGED <<compositorVars, seat, timer, cleared, steps>>
<1> DEFINE e == events[1]
<1>1. Arrived("selection")
  BY DEF SelectionStored
<1>2. /\ events # <<>> /\ 1 \in DOMAIN events /\ Head(events) = e
      /\ e.sel \in Selection /\ e.content \in Contents \cup {None} /\ e = SelectionEvent(e.sel, e.content)
      /\ e.sel[1] \in Seats
  BY <1>1, SelectionArrived
<1>3. /\ Copied(e) /\ current' = e.content /\ newest' = e.content
      /\ history' = history \cup {e.content}
      /\ SetSelections(Others(e.sel), e.content, cleared, requests, Tail(events))
  BY <1>2 DEF SelectionStored
<1> HIDE DEF e
<1>4. /\ Listened(e) /\ e.content # None
      /\ offer' = [offer EXCEPT ![e.sel] = TRUE]
      /\ blocked' = [blocked EXCEPT ![e.sel[1]] = FALSE]
      /\ UNCHANGED <<compositorVars, seat, timer, cleared, steps>>
  BY <1>3 DEF Copied
<1>5. e.sel \in Enabled /\ source[e.sel] = None /\ e.content \in Contents
  BY <1>2, <1>4 DEF Listened, Ignored
<1>6. Started \ {e.sel} \in SUBSET Selection
  BY EnabledAssumption DEF Started
<1>7. Left({}, {1}, requests, Tail(events))
  BY <1>2 DEF Left
<1>8. Sets(Started \ {e.sel}, e.content, {}, {1})
  BY <1>3, <1>4, <1>5, <1>6, <1>7, SetSelectionsDoes DEF Others
<1>9. offer' \in [Selection -> BOOLEAN] /\ blocked' \in [Seats -> BOOLEAN]
  BY <1>2, <1>4 DEF TypesOK
<1> QED
  BY <1>2, <1>3, <1>4, <1>5, <1>8, <1>9 DEF e

LEMMA TimerDoes ==
    ASSUME TypesOK, NEW sel \in Selection, NullTimer(sel)
    PROVE  /\ timer[sel] /\ timer' = [timer EXCEPT ![sel] = FALSE]
           /\ Sets({}, current, {}, {}) \/ Sets({sel}, current, {}, {})
           /\ UNCHANGED <<compositorVars, seat, offer, blocked, coreVars, steps>>
<1>1. Left({}, {}, requests, events)
  BY DEF Left
<1>2. current \in Contents \cup {None}
  BY DEF TypesOK
<1>3. {} \in SUBSET Selection /\ {sel} \in SUBSET Selection
  OBVIOUS
<1>4. /\ timer[sel] /\ timer' = [timer EXCEPT ![sel] = FALSE]
      /\ UNCHANGED <<compositorVars, seat, offer, blocked, coreVars, steps>>
      /\ \/ SetSelections({}, current, cleared, requests, events)
         \/ SetSelections({sel}, current, cleared, requests, events)
  <2>1. CASE offer[sel]
    BY <2>1 DEF NullTimer
  <2>2. CASE ~offer[sel]
    BY <2>2 DEF NullTimer
  <2> QED
    BY <2>1, <2>2
<1>5. CASE SetSelections({}, current, cleared, requests, events)
  BY <1>1, <1>2, <1>3, <1>4, <1>5, SetSelectionsDoes
<1>6. CASE SetSelections({sel}, current, cleared, requests, events)
  BY <1>1, <1>2, <1>3, <1>4, <1>6, SetSelectionsDoes
<1> QED
  BY <1>4, <1>5, <1>6

LEMMA ClipboardDoes ==
    ASSUME TypesOK, NEW c \in history \cup {None}, SetClipboard(c)
    PROVE  /\ current' = c /\ c \in Contents \cup {None} /\ cleared' \in BOOLEAN
           /\ Sets(Started, c, {}, {})
           /\ UNCHANGED <<compositorVars, seat, offer, timer, blocked, newest, history>>
<1>1. /\ current' = c /\ cleared' = (cleared \/ c = None)
      /\ SetSelections(Started, c, cleared', requests, events)
      /\ UNCHANGED <<compositorVars, seat, offer, timer, blocked, newest, history>>
  BY DEF SetClipboard
<1>2. c \in Contents \cup {None} /\ Started \in SUBSET Selection
  BY EnabledAssumption DEF TypesOK, Started
<1>3. Left({}, {}, requests, events)
  BY DEF Left
<1>4. ~(c = None /\ ~cleared')
  BY <1>1
<1>5. Sets(Started, c, {}, {})
  BY <1>1, <1>2, <1>3, <1>4, SetSelectionsDoes
<1> QED
  BY <1>1, <1>2, <1>5 DEF TypesOK

LEMMA UsersDo ==
    /\ \A sel \in Selection, c \in Contents :
           TypesOK /\ AppCopies(sel, c) =>
               /\ present[sel[1]] = "present"
               /\ owner' = [owner EXCEPT ![sel] = AppOwner(c)] /\ AppOwner(c) \in Owners
               /\ events' = events \o Told(sel, AppOwner(c))
               /\ UNCHANGED <<present, device, requests, daemonVars, coreVars>>
    /\ \A sel \in Selection :
           TypesOK /\ AppCloses(sel) =>
               /\ owner[sel].by = "app"
               /\ owner' = [owner EXCEPT ![sel] = Empty] /\ Empty \in Owners
               /\ events' = events \o Told(sel, Empty)
               /\ UNCHANGED <<present, device, requests, daemonVars, coreVars>>
BY DEF AppCopies, AppCloses, Give, Owners

LEMMA SeatsDo ==
    ASSUME TypesOK, NEW s \in Seats, NEW e, e \in {SeatEvent("name", s), SeatEvent("removed", s)},
           events' = Append(events, e)
    PROVE  /\ events' \in Seq(Events) /\ Grown(events, events')
           /\ New(events, events') = {Len(events) + 1} /\ events'[Len(events) + 1] = e
<1>1. events \in Seq(Events) /\ e \in Events
  BY EventsMade DEF TypesOK
<1>2. Append(events, e) = events \o <<e>>
  BY <1>1
<1>3. <<e>> \in Seq(Events) /\ Len(<<e>>) = 1 /\ <<e>>[1] = e
  BY <1>1
<1> DEFINE t == <<e>>
<1> HIDE DEF t
<1>4. t \in Seq(Events) /\ Len(t) = 1 /\ t[1] = e /\ events' = events \o t
  BY <1>2, <1>3 DEF t
<1>5. /\ events \o t \in Seq(Events) /\ Grown(events, events \o t)
      /\ New(events, events \o t) = {Len(events) + 1} /\ (events \o t)[Len(events) + 1] = t[1]
  BY <1>1, <1>4, OneMore
<1> QED
  BY <1>4, <1>5

-----------------------------------------------------------------------------
(* Every step keeps the types. *)

LEMMA TypesKept ==
    ASSUME TypesOK, [Next]_vars
    PROVE  TypesOK'
<1> USE DEF TypesOK
<1>1. CASE SeatStart
  <2>1. PICK s \in Seats, S \in SUBSET Selection :
              /\ seat' = [seat EXCEPT ![s] = TRUE]
              /\ Sets(S, current, {s}, {1})
              /\ UNCHANGED <<compositorVars, offer, timer, blocked, coreVars, steps>>
    BY <1>1, SeatStartDoes
  <2>2. source' \in [Selection -> Source] /\ requests' \in Seq(Requests) /\ events' \in Seq(Events)
    BY <2>1 DEF Sets, Reset, Requested, Taken
  <2> QED
    BY <2>1, <2>2 DEF compositorVars, coreVars
<1>2. CASE SeatRemove
  <2>1. PICK s \in Seats :
              /\ seat' = [seat EXCEPT ![s] = FALSE]
              /\ source' = [sel \in Selection |-> IF sel[1] = s THEN None ELSE source[sel]]
              /\ timer' = [sel \in Selection |-> timer[sel] /\ sel[1] # s]
              /\ offer' = [sel \in Selection |-> offer[sel] /\ sel[1] # s]
              /\ blocked' = [blocked EXCEPT ![s] = FALSE]
              /\ requests' \in Seq(Requests) /\ events' \in Seq(Events)
              /\ UNCHANGED <<compositorVars, coreVars, steps>>
    BY <1>2, RemoveDoes
  <2>2. timer' \in [Selection -> BOOLEAN] /\ offer' \in [Selection -> BOOLEAN]
    BY <2>1, Zenon
  <2>3. source' \in [Selection -> Source]
    BY <2>1 DEF Source
  <2> QED
    BY <2>1, <2>2, <2>3 DEF compositorVars, coreVars
<1>3. CASE SourceCancelled
  <2>1. PICK e \in Events :
              /\ source' = IF source[e.sel] = e.source THEN [source EXCEPT ![e.sel] = None] ELSE source
              /\ requests' \in Seq(Requests)
              /\ \E g : Taken(g, {1}, {})
              /\ UNCHANGED <<compositorVars, seat, offer, timer, blocked, coreVars, steps>>
    BY <1>3, CancelledDoes
  <2>2. events' \in Seq(Events)
    BY <2>1 DEF Taken
  <2>3. source' \in [Selection -> Source]
    BY <2>1 DEF Source
  <2> QED
    BY <2>1, <2>2, <2>3 DEF compositorVars, coreVars
<1>4. CASE SelectionIgnored \/ SelectionEmptied \/ SelectionPassed \/ SelectionFails
  <2>1. /\ Sets({}, None, {}, {1})
        /\ UNCHANGED <<compositorVars, seat, cleared, newest, history, steps>>
        /\ current' \in {current, None}
        /\ offer' \in [Selection -> BOOLEAN] /\ blocked' \in [Seats -> BOOLEAN]
        /\ timer' \in [Selection -> BOOLEAN]
    BY <1>4, NewsDoes
  <2>2. source' \in [Selection -> Source] /\ requests' \in Seq(Requests) /\ events' \in Seq(Events)
    BY <2>1 DEF Sets, Reset, Requested, Taken
  <2> QED
    BY <2>1, <2>2 DEF compositorVars
<1>5. CASE SelectionStored
  <2>1. PICK sel \in Selection, c \in Contents :
              /\ Sets(Started \ {sel}, c, {}, {1})
              /\ current' = c /\ newest' = c /\ history' = history \cup {c}
              /\ offer' \in [Selection -> BOOLEAN] /\ blocked' \in [Seats -> BOOLEAN]
              /\ UNCHANGED <<compositorVars, seat, timer, cleared, steps>>
    BY <1>5, StoredDoes
  <2>2. source' \in [Selection -> Source] /\ requests' \in Seq(Requests) /\ events' \in Seq(Events)
    BY <2>1 DEF Sets, Reset, Requested, Taken
  <2> QED
    BY <2>1, <2>2 DEF compositorVars
<1>6. ASSUME NEW sel \in Selection, NullTimer(sel)
      PROVE  TypesOK'
  <2>1. /\ timer' = [timer EXCEPT ![sel] = FALSE]
        /\ Sets({}, current, {}, {}) \/ Sets({sel}, current, {}, {})
        /\ UNCHANGED <<compositorVars, seat, offer, blocked, coreVars, steps>>
    BY <1>6, TimerDoes
  <2>2. source' \in [Selection -> Source] /\ requests' \in Seq(Requests) /\ events' \in Seq(Events)
    BY <2>1 DEF Sets, Reset, Requested, Taken
  <2> QED
    BY <2>1, <2>2 DEF compositorVars, coreVars
<1>7. ASSUME NEW c \in history \cup {None}, SetClipboard(c)
      PROVE  TypesOK'
  <2>1. /\ current' = c /\ c \in Contents \cup {None} /\ cleared' \in BOOLEAN
        /\ Sets(Started, c, {}, {})
        /\ UNCHANGED <<compositorVars, seat, offer, timer, blocked, newest, history>>
    BY <1>7, ClipboardDoes
  <2>2. source' \in [Selection -> Source] /\ requests' \in Seq(Requests) /\ events' \in Seq(Events)
    BY <2>1 DEF Sets, Reset, Requested, Taken
  <2> QED
    BY <2>1, <2>2 DEF compositorVars
<1>8. CASE HandleRequest
  <2>1. /\ requests # <<>> /\ requests' = Tail(requests)
        /\ events' \in Seq(Events)
        /\ UNCHANGED <<present, daemonVars, coreVars, steps>>
        /\ owner' \in [Selection -> Owners] /\ device' \in [Seats -> BOOLEAN]
    BY <1>8, HandleDoes
  <2>2. requests' \in Seq(Requests)
    BY <2>1
  <2> QED
    BY <2>1, <2>2 DEF daemonVars, coreVars
<1>9. ASSUME NEW sel \in Selection, NEW c \in Contents, AppCopies(sel, c)
      PROVE  TypesOK'
  <2>1. /\ owner' = [owner EXCEPT ![sel] = AppOwner(c)] /\ AppOwner(c) \in Owners
        /\ events' = events \o Told(sel, AppOwner(c))
        /\ UNCHANGED <<present, device, requests, daemonVars, coreVars>>
    BY <1>9, UsersDo
  <2>2. events' \in Seq(Events)
    BY <2>1, GiveTells
  <2> QED
    BY <2>1, <2>2 DEF daemonVars, coreVars
<1>10. ASSUME NEW sel \in Selection, AppCloses(sel)
       PROVE  TypesOK'
  <2>1. /\ owner' = [owner EXCEPT ![sel] = Empty] /\ Empty \in Owners
        /\ events' = events \o Told(sel, Empty)
        /\ UNCHANGED <<present, device, requests, daemonVars, coreVars>>
    BY <1>10, UsersDo
  <2>2. events' \in Seq(Events)
    BY <2>1, GiveTells
  <2> QED
    BY <2>1, <2>2 DEF daemonVars, coreVars
<1>11. ASSUME NEW s \in Seats, Plug(s)
       PROVE  TypesOK'
  <2>1. events' \in Seq(Events)
    BY <1>11, SeatsDo DEF Plug
  <2> QED
    BY <1>11, <2>1 DEF Plug, daemonVars, coreVars
<1>12. ASSUME NEW s \in Seats, Unplug(s)
       PROVE  TypesOK'
  <2>1. events' \in Seq(Events)
    BY <1>12, SeatsDo DEF Unplug
  <2>2. owner' \in [Selection -> Owners]
    <3>1. owner' = [sel \in Selection |-> IF sel[1] = s THEN Empty ELSE owner[sel]]
      BY <1>12 DEF Unplug
    <3>2. Empty \in Owners /\ \A sel \in Selection : owner[sel] \in Owners
      BY DEF Owners
    <3> HIDE DEF TypesOK
    <3> QED
      BY <3>1, <3>2
  <2> QED
    BY <1>12, <2>1, <2>2 DEF Unplug, daemonVars, coreVars
<1>13. CASE UNCHANGED vars
  BY <1>13 DEF vars, compositorVars, daemonVars, coreVars
<1> QED
  BY <1>1, <1>2, <1>3, <1>4, <1>5, <1>6, <1>7, <1>8, <1>9, <1>10, <1>11, <1>12, <1>13
     DEF Next, Daemon, Users

-----------------------------------------------------------------------------
(* Every step keeps what is known of a seat. *)

LEMMA GrownEvolves ==
    ASSUME NEW T, NEW q \in Seq(T), NEW p \in Seq(T), Grown(q, p)
    PROVE  \E g, k : /\ Evolves(q, p, g, k)
                     /\ k = Len(q)
                     /\ k + 1 .. Len(p) = New(q, p)
                     /\ \A i \in DOMAIN q : g[i] # 0
<1> DEFINE g == [i \in DOMAIN q |-> i]
<1>1. /\ Len(q) \in Nat /\ Len(p) \in Nat /\ DOMAIN q = 1 .. Len(q)
      /\ Len(q) <= Len(p) /\ \A i \in 1 .. Len(q) : p[i] = q[i]
  BY DEF Grown
<1>2. \A i \in DOMAIN q : g[i] = i
  OBVIOUS
<1>3. g \in [DOMAIN q -> 0 .. Len(q)]
  BY <1>1
<1> HIDE DEF g
<1>4. Evolves(q, p, g, Len(q))
  BY <1>1, <1>2, <1>3 DEF Evolves
<1>5. \A i \in DOMAIN q : g[i] # 0
  BY <1>1, <1>2
<1> QED
  BY <1>4, <1>5 DEF New

LEMMA OldOrNew ==
    ASSUME NEW T, NEW q \in Seq(T), NEW p \in Seq(T), NEW g, NEW k, Evolves(q, p, g, k), NEW n \in DOMAIN p
    PROVE  n \in k + 1 .. Len(p) \/ \E i \in DOMAIN q : g[i] = n /\ n # 0 /\ p[n] = q[i]
<1>1. k \in Nat /\ n \in 1 .. Len(p) /\ Len(p) \in Nat
  BY DEF Evolves
<1>2. CASE n \in 1 .. k
  <2>1. PICK i \in DOMAIN q : g[i] = n
    BY <1>2 DEF Evolves
  <2>2. n # 0
    BY <1>2
  <2>3. p[n] = q[i]
    BY <2>1, <2>2 DEF Evolves
  <2> QED
    BY <2>1, <2>2, <2>3
<1>3. CASE n \notin 1 .. k
  <2>1. n \in k + 1 .. Len(p)
    BY <1>1, <1>3
  <2> QED
    BY <2>1
<1> QED
  BY <1>2, <1>3

LEMMA StaysIn ==
    ASSUME NEW T, NEW q \in Seq(T), NEW p \in Seq(T), NEW g, NEW k, Evolves(q, p, g, k),
           NEW i \in DOMAIN q, g[i] # 0
    PROVE  g[i] \in DOMAIN p /\ g[i] \in 1 .. k /\ p[g[i]] = q[i]
<1>1. k \in 0 .. Len(p) /\ g[i] \in 0 .. k /\ p[g[i]] = q[i] /\ Len(p) \in Nat /\ DOMAIN p = 1 .. Len(p)
  BY DEF Evolves
<1> QED
  BY <1>1

(* The events of a seat keep their order. *)
LEMMA OrderMoves ==
    ASSUME TypesOK, TypesOK', NEW s \in Seats, OrderOK(s), NEW g, NEW k, Evolves(events, events', g, k),
           \A n \in k + 1 .. Len(events') : events'[n] \notin {SeatEvent("name", s), SeatEvent("removed", s)}
    PROVE  /\ OrderOK(s)'
           /\ Named(s)' => Named(s)
           /\ Removed(s)' => Removed(s)
           /\ (\A i \in DOMAIN events : g[i] = 0 => events[i] # SeatEvent("name", s)) =>
                  (Named(s) => Named(s)')
           /\ (\A i \in DOMAIN events : g[i] = 0 => events[i] # SeatEvent("removed", s)) =>
                  (Removed(s) => Removed(s)')
<1> DEFINE a == SeatEvent("name", s)
           r == SeatEvent("removed", s)
<1>1. events \in Seq(Events) /\ events' \in Seq(Events)
  BY DEF TypesOK
<1> HIDE DEF a, r
<1>2. ASSUME NEW n \in DOMAIN events', events'[n] \in {a, r}
      PROVE  \E i \in DOMAIN events : g[i] = n /\ n # 0 /\ events'[n] = events[i]
  BY <1>1, <1>2, OldOrNew DEF a, r
<1>3. ASSUME NEW i \in DOMAIN events, g[i] # 0
      PROVE  g[i] \in DOMAIN events' /\ events'[g[i]] = events[i]
  BY <1>1, <1>3, StaysIn
<1>4. ASSUME NEW m \in DOMAIN events', NEW n \in DOMAIN events', events'[m] = a, events'[n] = a
      PROVE  m = n
  <2>1. PICK i \in DOMAIN events : g[i] = m /\ events[i] = a
    BY <1>2, <1>4
  <2>2. PICK j \in DOMAIN events : g[j] = n /\ events[j] = a
    BY <1>2, <1>4
  <2>3. i = j
    BY <2>1, <2>2 DEF OrderOK, a
  <2> QED
    BY <2>1, <2>2, <2>3
<1>5. ASSUME NEW m \in DOMAIN events', NEW n \in DOMAIN events', events'[m] = a, events'[n] = r
      PROVE  m < n
  <2>1. PICK i \in DOMAIN events : g[i] = m /\ m # 0 /\ events[i] = a
    BY <1>2, <1>5
  <2>2. PICK j \in DOMAIN events : g[j] = n /\ n # 0 /\ events[j] = r
    BY <1>2, <1>5
  <2>3. i < j
    BY <2>1, <2>2 DEF OrderOK, a, r
  <2> QED
    BY <2>1, <2>2, <2>3 DEF Evolves
<1>6. OrderOK(s)'
  BY <1>4, <1>5 DEF OrderOK, a, r
<1>7. (Named(s)' => Named(s)) /\ (Removed(s)' => Removed(s))
  BY <1>2 DEF Named, Removed, In, a, r
<1>8. (\A i \in DOMAIN events : g[i] = 0 => events[i] # a) => (Named(s) => Named(s)')
  BY <1>3 DEF Named, In, a
<1>9. (\A i \in DOMAIN events : g[i] = 0 => events[i] # r) => (Removed(s) => Removed(s)')
  BY <1>3 DEF Removed, In, r
<1> QED
  BY <1>6, <1>7, <1>8, <1>9 DEF a, r

LEMMA SeatStays ==
    ASSUME TypesOK, TypesOK', NEW s \in Seats, SeatOK(s), NEW g, NEW k, Evolves(events, events', g, k),
           \A n \in k + 1 .. Len(events') : events'[n] \notin {SeatEvent("name", s), SeatEvent("removed", s)},
           \A i \in DOMAIN events : g[i] = 0 => events[i] \notin {SeatEvent("name", s), SeatEvent("removed", s)},
           present'[s] = present[s], device'[s] = device[s], seat'[s] = seat[s],
           Asked(s)' <=> Asked(s)
    PROVE  SeatOK(s)'
<1>1. OrderOK(s)
  BY DEF SeatOK
<1>2. OrderOK(s)' /\ (Named(s)' <=> Named(s)) /\ (Removed(s)' <=> Removed(s))
  BY <1>1, OrderMoves
<1> QED
  BY <1>2 DEF SeatOK

(* Requests that are added ask for no device of s. *)
LEMMA AskedStays ==
    ASSUME TypesOK, TypesOK', NEW s, Grown(requests, requests')
    PROVE  /\ Asked(s) => Asked(s)'
           /\ (\A n \in New(requests, requests') : requests'[n] # DeviceRequest(s)) => (Asked(s)' => Asked(s))
<1>1. /\ requests \in Seq(Requests) /\ requests' \in Seq(Requests)
      /\ Len(requests) \in Nat /\ Len(requests') \in Nat
      /\ DOMAIN requests = 1 .. Len(requests) /\ DOMAIN requests' = 1 .. Len(requests')
  BY DEF TypesOK
<1>2. \A n \in DOMAIN requests' : n \in New(requests, requests') \/ n \in DOMAIN requests
  BY <1>1 DEF New
<1>3. Asked(s) => Asked(s)'
  BY <1>1, GrownKeeps DEF Asked
<1>4. (\A n \in New(requests, requests') : requests'[n] # DeviceRequest(s)) => (Asked(s)' => Asked(s))
  BY <1>1, <1>2 DEF Asked, In, Grown
<1> QED
  BY <1>3, <1>4

LEMMA SetsKeepSeat ==
    ASSUME TypesOK, TypesOK', NEW s \in Seats, SeatOK(s),
           NEW S \in SUBSET Selection, NEW c \in Contents \cup {None}, NEW D, NEW H, Sets(S, c, D, H),
           s \notin D,
           H = {} \/ (H = {1} /\ events[1] \notin {SeatEvent("name", s), SeatEvent("removed", s)}),
           present'[s] = present[s], device'[s] = device[s], seat'[s] = seat[s]
    PROVE  SeatOK(s)'
<1>1. PICK g : Taken(g, H, S)
  BY DEF Sets
<1>2. /\ Evolves(events, events', g, Len(events'))
      /\ \A i \in DOMAIN events :
             g[i] = 0 <=> i \in H \/ \E sel \in S : events[i] = Cancelled(sel, source[sel])
  BY <1>1 DEF Taken
<1>3. Len(events') \in Nat
  BY DEF TypesOK
<1>4. \A n \in Len(events') + 1 .. Len(events') : FALSE
  BY <1>3
<1>5. ASSUME NEW i \in DOMAIN events, g[i] = 0, NEW t \in {"name", "removed"}, events[i] = SeatEvent(t, s)
      PROVE  FALSE
  <2>1. events[i].type = t
    BY <1>5, EventFields
  <2>2. \A sel \in S : events[i] # Cancelled(sel, source[sel])
    BY <2>1, EventFields
  <2>3. i \in H
    BY <1>2, <1>5, <2>2
  <2> QED
    BY <1>5, <2>3
<1>6. /\ Grown(requests, requests')
      /\ \A n \in New(requests, requests') : requests'[n] # DeviceRequest(s)
  <2>1. /\ Grown(requests, requests')
        /\ \A n \in New(requests, requests') :
               \/ \E t \in D : requests'[n] = DeviceRequest(t)
               \/ \E sel \in S : \/ requests'[n] = SetRequest(sel, source'[sel], c)
                                 \/ source[sel] # None /\ requests'[n] = DestroyRequest(sel, source[sel])
    BY DEF Sets, Requested
  <2> QED
    BY <2>1, RequestFields
<1>7. Asked(s)' <=> Asked(s)
  BY <1>6, AskedStays
<1> QED
  BY <1>2, <1>4, <1>5, <1>7, SeatStays

LEMMA StartKeepsSeat ==
    ASSUME TypesOK, TypesOK', NEW s \in Seats, SeatOK(s), SeatStart
    PROVE  SeatOK(s)'
<1>1. PICK t \in Seats, S \in SUBSET Selection :
              /\ events[1] = SeatEvent("name", t) /\ 1 \in DOMAIN events
              /\ seat' = [seat EXCEPT ![t] = TRUE]
              /\ Sets(S, current, {t}, {1})
              /\ UNCHANGED <<compositorVars, offer, timer, blocked, coreVars, steps>>
  BY SeatStartDoes
<1>2. present'[s] = present[s] /\ device'[s] = device[s] /\ current \in Contents \cup {None}
  BY <1>1 DEF compositorVars, TypesOK
<1>3. CASE s # t
  <2>1. seat'[s] = seat[s]
    BY <1>1, <1>3 DEF TypesOK
  <2>2. events[1] \notin {SeatEvent("name", s), SeatEvent("removed", s)}
    BY <1>1, <1>3, EventFields
  <2>3. s \notin {t}
    BY <1>3
  <2> QED
    BY <1>1, <1>2, <2>1, <2>2, <2>3, SetsKeepSeat
<1>4. CASE s = t
  <2>1. seat'[s]
    BY <1>1, <1>4 DEF TypesOK
  <2>2. PICK g : Taken(g, {1}, S)
    BY <1>1 DEF Sets
  <2>3. /\ Evolves(events, events', g, Len(events'))
        /\ \A i \in DOMAIN events :
               g[i] = 0 <=> i \in {1} \/ \E sel \in S : events[i] = Cancelled(sel, source[sel])
    BY <2>2 DEF Taken
  <2>4. Len(events') \in Nat
    BY DEF TypesOK
  <2>5. \A n \in Len(events') + 1 .. Len(events') : FALSE
    BY <2>4
  <2>6. OrderOK(s) /\ Named(s)
    BY <1>1, <1>4 DEF SeatOK, Named, In
  <2>7. OrderOK(s)' /\ (Removed(s)' => Removed(s))
        /\ ((\A i \in DOMAIN events : g[i] = 0 => events[i] # SeatEvent("removed", s)) =>
                  (Removed(s) => Removed(s)'))
    BY <2>3, <2>5, <2>6, OrderMoves
  <2>8. \A i \in DOMAIN events : g[i] = 0 => events[i] # SeatEvent("removed", s)
    BY <1>1, <2>3, EventFields
  <2>9. ~Named(s)'
    <3> SUFFICES ASSUME NEW n \in DOMAIN events', events'[n] = SeatEvent("name", s) PROVE FALSE
      BY DEF Named, In
    <3>1. PICK i \in DOMAIN events : g[i] = n /\ n # 0 /\ events'[n] = events[i]
      <4>1. events \in Seq(Events) /\ events' \in Seq(Events)
        BY DEF TypesOK
      <4> QED
        BY <2>3, <2>5, <4>1, OldOrNew
    <3>2. i = 1
      BY <1>1, <1>4, <2>6, <3>1 DEF OrderOK
    <3> QED
      BY <2>3, <3>1, <3>2
  <2>10. Asked(s)'
    <3>1. \E n \in New(requests, requests') : requests'[n] = DeviceRequest(s)
      BY <1>1, <1>4 DEF Sets, Requested
    <3>2. \A n \in New(requests, requests') : n \in DOMAIN requests'
      <4>1. Len(requests) \in Nat /\ Len(requests') \in Nat /\ DOMAIN requests' = 1 .. Len(requests')
        BY DEF TypesOK
      <4> QED
        BY <4>1 DEF New
    <3> QED
      BY <3>1, <3>2 DEF Asked, In
  <2>11. present[s] # "absent" /\ (device[s] => present[s] = "present")
    BY <2>6 DEF SeatOK
  <2>12. (Removed(s)' <=> Removed(s)) /\ (Removed(s) => present[s] = "gone") /\ (present[s] = "gone" => Removed(s))
    BY <2>6, <2>7, <2>8 DEF SeatOK
  <2> QED
    BY <1>2, <2>1, <2>7, <2>9, <2>10, <2>11, <2>12 DEF SeatOK
<1> QED
  BY <1>3, <1>4

LEMMA RemoveKeepsSeat ==
    ASSUME TypesOK, TypesOK', NEW s \in Seats, SeatOK(s), SeatRemove
    PROVE  SeatOK(s)'
<1>1. PICK t \in Seats :
          /\ events[1] = SeatEvent("removed", t) /\ 1 \in DOMAIN events
          /\ seat' = [seat EXCEPT ![t] = FALSE]
          /\ Grown(requests, requests')
          /\ \A n \in New(requests, requests') : \E sel \in SelectionsOf(t) :
                 source[sel] # None /\ requests'[n] = DestroyRequest(sel, source[sel])
          /\ \E g : /\ Evolves(events, events', g, Len(events'))
                    /\ \A i \in DOMAIN events :
                          g[i] = 0 <=> \/ i = 1
                                       \/ /\ events[i].type \in {"selection", "cancelled"}
                                          /\ events[i].sel \in SelectionsOf(t)
          /\ UNCHANGED <<compositorVars, coreVars, steps>>
  BY RemoveDoes
<1>2. PICK g : /\ Evolves(events, events', g, Len(events'))
               /\ \A i \in DOMAIN events :
                     g[i] = 0 => i = 1 \/ events[i].type \in {"selection", "cancelled"}
               /\ g[1] = 0
  BY <1>1
<1>3. present'[s] = present[s] /\ device'[s] = device[s]
  BY <1>1 DEF compositorVars
<1>4. Asked(s)' <=> Asked(s)
  <2>1. \A n \in New(requests, requests') : requests'[n] # DeviceRequest(s)
    BY <1>1, RequestFields
  <2> QED
    BY <1>1, <2>1, AskedStays
<1>5. Len(events') \in Nat
  BY DEF TypesOK
<1>6. \A n \in Len(events') + 1 .. Len(events') : FALSE
  BY <1>5
<1>7. CASE s # t
  <2>1. seat'[s] = seat[s]
    BY <1>1, <1>7 DEF TypesOK
  <2>2. \A i \in DOMAIN events : g[i] = 0 => events[i] \notin {SeatEvent("name", s), SeatEvent("removed", s)}
    BY <1>1, <1>2, <1>7, EventFields
  <2> QED
    BY <1>2, <1>3, <1>4, <1>6, <2>1, <2>2, SeatStays
<1>8. CASE s = t
  <2>1. ~seat'[s]
    BY <1>1, <1>8 DEF TypesOK
  <2>2. OrderOK(s) /\ Removed(s) /\ present[s] = "gone" /\ ~device[s]
    BY <1>1, <1>8 DEF SeatOK, Removed, In
  <2>3. OrderOK(s)' /\ (Named(s)' => Named(s))
    BY <1>2, <1>6, <2>2, OrderMoves
  <2>4. ~Named(s)
    <3> SUFFICES ASSUME NEW n \in DOMAIN events, events[n] = SeatEvent("name", s) PROVE FALSE
      BY DEF Named, In
    <3>1. n < 1
      BY <1>1, <1>8, <2>2 DEF OrderOK
    <3>2. n \in Nat /\ n # 0
      BY DEF TypesOK
    <3> QED
      BY <3>1, <3>2
  <2> QED
    BY <1>3, <2>1, <2>2, <2>3, <2>4 DEF SeatOK
<1> QED
  BY <1>7, <1>8

LEMMA HandleKeepsSeat ==
    ASSUME TypesOK, TypesOK', NEW s \in Seats, SeatOK(s), HandleRequest
    PROVE  SeatOK(s)'
<1>1. /\ requests # <<>> /\ requests' = Tail(requests)
      /\ Grown(events, events')
      /\ UNCHANGED <<present, seat>>
      /\ Devised(s)
  BY HandleDoes DEF daemonVars
<1>2. \A n \in New(events, events') : events'[n] \notin {SeatEvent("name", s), SeatEvent("removed", s)}
  <2>1. \A n \in New(events, events') : \E sel \in Selection :
           \/ events'[n] = SelectionEvent(sel, owner'[sel].content)
           \/ events'[n] = Cancelled(sel, owner[sel].source)
    BY HandleTells
  <2> QED
    BY <2>1, EventFields
<1>3. events \in Seq(Events) /\ events' \in Seq(Events)
  BY DEF TypesOK
<1>4. PICK g, k : /\ Evolves(events, events', g, k)
                  /\ k + 1 .. Len(events') = New(events, events')
                  /\ \A i \in DOMAIN events : g[i] # 0
  BY <1>1, <1>3, GrownEvolves
<1>5. /\ \A n \in k + 1 .. Len(events') : events'[n] \notin {SeatEvent("name", s), SeatEvent("removed", s)}
      /\ \A i \in DOMAIN events : g[i] = 0 => events[i] \notin {SeatEvent("name", s), SeatEvent("removed", s)}
  BY <1>2, <1>4
<1>6. OrderOK(s)
  BY DEF SeatOK
<1>7. OrderOK(s)' /\ (Named(s)' <=> Named(s)) /\ (Removed(s)' <=> Removed(s))
  BY <1>4, <1>5, <1>6, OrderMoves
<1>8. Asked(s) <=> requests[1] = DeviceRequest(s) \/ Asked(s)'
  <2>1. requests \in Seq(Requests) /\ requests # <<>>
    BY <1>1 DEF TypesOK
  <2>2. /\ Len(requests) \in Nat /\ Len(requests) # 0 /\ DOMAIN requests = 1 .. Len(requests)
        /\ DOMAIN requests' = 1 .. Len(requests) - 1
        /\ \A n \in 1 .. Len(requests) - 1 : requests'[n] = requests[n + 1]
    BY <1>1, <2>1
  <2>3. Asked(s)' => Asked(s)
    <3> SUFFICES ASSUME NEW n \in DOMAIN requests', requests'[n] = DeviceRequest(s) PROVE Asked(s)
      BY DEF Asked, In
    <3>1. n + 1 \in DOMAIN requests /\ requests[n + 1] = DeviceRequest(s)
      BY <2>2
    <3> QED
      BY <3>1 DEF Asked, In
  <2>4. Asked(s) => requests[1] = DeviceRequest(s) \/ Asked(s)'
    <3> SUFFICES ASSUME NEW n \in DOMAIN requests, requests[n] = DeviceRequest(s), n # 1 PROVE Asked(s)'
      BY DEF Asked, In
    <3>1. n - 1 \in DOMAIN requests' /\ requests'[n - 1] = requests[(n - 1) + 1] /\ (n - 1) + 1 = n
      BY <2>2
    <3> QED
      BY <3>1 DEF Asked, In
  <2>5. requests[1] = DeviceRequest(s) => Asked(s)
    BY <2>2 DEF Asked, In
  <2> QED
    BY <2>3, <2>4, <2>5
<1>9. /\ Asked(s) => seat[s] \/ present[s] = "gone"
      /\ device[s] => seat[s] /\ present[s] = "present"
      /\ present[s] = "present" => Named(s) \/ (seat[s] /\ (device[s] \/ Asked(s)))
  BY DEF SeatOK
<1>10. device'[s] => seat[s] /\ present[s] = "present"
  BY <1>1, <1>8, <1>9 DEF Devised
<1>11. present[s] = "present" => Named(s) \/ (seat[s] /\ (device'[s] \/ Asked(s)'))
  BY <1>1, <1>8, <1>9 DEF Devised
<1> QED
  BY <1>1, <1>7, <1>8, <1>10, <1>11 DEF SeatOK

(* An application, or another seat, adds events. *)
LEMMA GrownKeepsSeat ==
    ASSUME TypesOK, TypesOK', NEW s \in Seats, SeatOK(s), Grown(events, events'),
           \A n \in New(events, events') : events'[n] \notin {SeatEvent("name", s), SeatEvent("removed", s)},
           requests' = requests, seat' = seat, present'[s] = present[s], device'[s] = device[s]
    PROVE  SeatOK(s)'
<1>1. events \in Seq(Events) /\ events' \in Seq(Events)
  BY DEF TypesOK
<1>2. PICK g, k : /\ Evolves(events, events', g, k)
                  /\ k + 1 .. Len(events') = New(events, events')
                  /\ \A i \in DOMAIN events : g[i] # 0
  BY <1>1, GrownEvolves
<1>3. Asked(s)' <=> Asked(s)
  BY DEF Asked, In
<1> QED
  BY <1>2, <1>3, SeatStays

LEMMA PlugsKeepSeat ==
    ASSUME TypesOK, TypesOK', NEW s \in Seats, SeatOK(s), Plug(s) \/ Unplug(s)
    PROVE  SeatOK(s)'
<1> DEFINE l == Len(events)
<1>1. PICK e \in {SeatEvent("name", s), SeatEvent("removed", s)} :
          /\ events' = Append(events, e)
          /\ \/ /\ e = SeatEvent("name", s) /\ present[s] = "absent" /\ present'[s] = "present"
                /\ device'[s] = device[s]
             \/ /\ e = SeatEvent("removed", s) /\ present[s] = "present" /\ present'[s] = "gone"
                /\ ~device'[s]
          /\ requests' = requests /\ seat' = seat
  BY DEF Plug, Unplug, TypesOK, daemonVars
<1>2. /\ Grown(events, events') /\ New(events, events') = {l + 1} /\ events'[l + 1] = e
  BY <1>1, SeatsDo
<1>3. l \in Nat /\ DOMAIN events = 1 .. l /\ Len(events') \in Nat /\ DOMAIN events' = 1 .. Len(events')
  BY DEF TypesOK
<1> HIDE DEF l
<1>4. \A n \in 1 .. l : events'[n] = events[n] /\ n \in DOMAIN events'
  BY <1>2, <1>3 DEF Grown, l
<1>5. \A n \in DOMAIN events' : n \in DOMAIN events \/ n = l + 1
  <2>1. \A n \in DOMAIN events' : n \in 1 .. l \/ n \in New(events, events')
    BY <1>3 DEF New, l
  <2> QED
    BY <1>2, <1>3, <2>1
<1>6. l + 1 \in DOMAIN events'
  <2>1. l + 1 \in New(events, events')
    BY <1>2
  <2> QED
    BY <1>3, <2>1 DEF New, l
<1>7. SeatEvent("name", s) # SeatEvent("removed", s)
  BY EventFields
<1>8. Asked(s)' <=> Asked(s)
  BY <1>1 DEF Asked, In
<1>9. OrderOK(s) /\ ~Removed(s)
  BY <1>1 DEF SeatOK
<1>10. \A n \in DOMAIN events : events[n] # SeatEvent("removed", s)
  BY <1>9 DEF Removed, In
<1>11. CASE e = SeatEvent("name", s) /\ present[s] = "absent" /\ present'[s] = "present" /\ device'[s] = device[s]
  <2>1. ~Named(s) /\ ~seat[s] /\ ~device[s] /\ ~Asked(s)
    BY <1>11 DEF SeatOK
  <2>2. \A n \in DOMAIN events : events[n] # SeatEvent("name", s)
    BY <2>1 DEF Named, In
  <2>3. \A n \in DOMAIN events' : events'[n] # SeatEvent("removed", s) /\ (events'[n] = SeatEvent("name", s) => n = l + 1)
    BY <1>2, <1>3, <1>4, <1>5, <1>7, <1>10, <1>11, <2>2
  <2>4. OrderOK(s)'
    BY <2>3 DEF OrderOK
  <2>5. Named(s)' /\ ~Removed(s)'
    BY <1>2, <1>6, <1>11, <2>3 DEF Named, Removed, In
  <2> QED
    BY <1>1, <1>8, <1>11, <2>1, <2>4, <2>5 DEF SeatOK
<1>12. CASE e = SeatEvent("removed", s) /\ present[s] = "present" /\ present'[s] = "gone" /\ ~device'[s]
  <2>1. \A n \in DOMAIN events' : /\ events'[n] = SeatEvent("removed", s) => n = l + 1
                                  /\ events'[n] = SeatEvent("name", s) => n \in DOMAIN events /\ events[n] = SeatEvent("name", s)
    BY <1>2, <1>3, <1>4, <1>5, <1>7, <1>10, <1>12
  <2>2. \A n \in DOMAIN events : n < l + 1
    BY <1>3
  <2>3. OrderOK(s)'
    BY <1>9, <2>1, <2>2 DEF OrderOK
  <2>4. Removed(s)'
    BY <1>2, <1>6, <1>12 DEF Removed, In
  <2>5. Named(s)' => Named(s)
    BY <2>1 DEF Named, In
  <2>6. Named(s) => ~seat[s]
    BY DEF SeatOK
  <2> QED
    BY <1>1, <1>12, <2>3, <2>4, <2>5, <2>6 DEF SeatOK
<1> QED
  BY <1>1, <1>11, <1>12

LEMMA CancelledKeepsSeat ==
    ASSUME TypesOK, TypesOK', NEW s \in Seats, SeatOK(s), SourceCancelled
    PROVE  SeatOK(s)'
<1>1. PICK e \in Events :
          /\ events[1] = e /\ 1 \in DOMAIN events
          /\ e = Cancelled(e.sel, e.source)
          /\ Grown(requests, requests')
          /\ \A n \in New(requests, requests') : requests'[n] = DestroyRequest(e.sel, e.source)
          /\ \E g : Taken(g, {1}, {})
          /\ UNCHANGED <<compositorVars, seat, offer, timer, blocked, coreVars, steps>>
  BY CancelledDoes
<1>2. PICK g : Taken(g, {1}, {})
  BY <1>1
<1>3. Evolves(events, events', g, Len(events')) /\ \A i \in DOMAIN events : g[i] = 0 => i = 1
  BY <1>2 DEF Taken
<1>4. Len(events') \in Nat
  BY DEF TypesOK
<1>5. \A n \in Len(events') + 1 .. Len(events') : FALSE
  BY <1>4
<1>6. \A i \in DOMAIN events : g[i] = 0 => events[i] \notin {SeatEvent("name", s), SeatEvent("removed", s)}
  BY <1>1, <1>3, EventFields
<1>7. \A n \in New(requests, requests') : requests'[n] # DeviceRequest(s)
  BY <1>1, RequestFields
<1>8. Asked(s)' <=> Asked(s)
  BY <1>1, <1>7, AskedStays
<1>9. present'[s] = present[s] /\ device'[s] = device[s] /\ seat'[s] = seat[s]
  BY <1>1 DEF compositorVars
<1> QED
  BY <1>3, <1>5, <1>6, <1>8, <1>9, SeatStays

LEMMA SeatKept ==
    ASSUME TypesOK, TypesOK', NEW s \in Seats, SeatOK(s), [Next]_vars
    PROVE  SeatOK(s)'
<1>1. CASE SeatStart
  BY <1>1, StartKeepsSeat
<1>2. CASE SeatRemove
  BY <1>2, RemoveKeepsSeat
<1>3. CASE SourceCancelled
  BY <1>3, CancelledKeepsSeat
<1>4. CASE SelectionIgnored \/ SelectionEmptied \/ SelectionPassed \/ SelectionFails
  <2>1. PICK sel \in Selection, c \in Contents \cup {None} :
              /\ events[1] = SelectionEvent(sel, c) /\ 1 \in DOMAIN events
              /\ Sets({}, None, {}, {1})
              /\ UNCHANGED <<compositorVars, seat, cleared, newest, history, steps>>
    BY <1>4, NewsDoes
  <2>2. events[1] \notin {SeatEvent("name", s), SeatEvent("removed", s)}
    BY <2>1, EventFields
  <2>3. present'[s] = present[s] /\ device'[s] = device[s] /\ seat'[s] = seat[s]
    BY <2>1 DEF compositorVars
  <2>4. {} \in SUBSET Selection /\ None \in Contents \cup {None} /\ s \notin {}
    OBVIOUS
  <2> QED
    BY <2>1, <2>2, <2>3, <2>4, SetsKeepSeat
<1>5. CASE SelectionStored
  <2>1. PICK sel \in Selection, c \in Contents :
              /\ events[1] = SelectionEvent(sel, c) /\ 1 \in DOMAIN events
              /\ Sets(Started \ {sel}, c, {}, {1})
              /\ UNCHANGED <<compositorVars, seat, timer, cleared, steps>>
    BY <1>5, StoredDoes
  <2>2. events[1] \notin {SeatEvent("name", s), SeatEvent("removed", s)}
    BY <2>1, EventFields
  <2>3. present'[s] = present[s] /\ device'[s] = device[s] /\ seat'[s] = seat[s]
    BY <2>1 DEF compositorVars
  <2>4. Started \ {sel} \in SUBSET Selection /\ c \in Contents \cup {None} /\ s \notin {}
    BY EnabledAssumption DEF Started
  <2> QED
    BY <2>1, <2>2, <2>3, <2>4, SetsKeepSeat
<1>6. ASSUME NEW sel \in Selection, NullTimer(sel)
      PROVE  SeatOK(s)'
  <2>1. PICK S \in SUBSET Selection :
        /\ Sets(S, current, {}, {})
        /\ UNCHANGED <<compositorVars, seat, offer, blocked, coreVars, steps>>
    <3>1. {} \in SUBSET Selection /\ {sel} \in SUBSET Selection
      OBVIOUS
    <3> QED
      BY <1>6, <3>1, TimerDoes
  <2>2. present'[s] = present[s] /\ device'[s] = device[s] /\ seat'[s] = seat[s]
    BY <2>1 DEF compositorVars
  <2>3. current \in Contents \cup {None} /\ s \notin {}
    BY DEF TypesOK
  <2> QED
    BY <2>1, <2>2, <2>3, SetsKeepSeat
<1>7. ASSUME NEW c \in history \cup {None}, SetClipboard(c)
      PROVE  SeatOK(s)'
  <2>1. /\ c \in Contents \cup {None}
        /\ Sets(Started, c, {}, {})
        /\ UNCHANGED <<compositorVars, seat, offer, timer, blocked, newest, history>>
    BY <1>7, ClipboardDoes
  <2>2. present'[s] = present[s] /\ device'[s] = device[s] /\ seat'[s] = seat[s]
    BY <2>1 DEF compositorVars
  <2>3. Started \in SUBSET Selection /\ s \notin {}
    BY EnabledAssumption DEF Started
  <2> QED
    BY <2>1, <2>2, <2>3, SetsKeepSeat
<1>8. CASE HandleRequest
  BY <1>8, HandleKeepsSeat
<1>9. ASSUME NEW sel \in Selection, NEW new \in Owners, events' = events \o Told(sel, new),
             UNCHANGED <<present, device, requests, daemonVars, coreVars>>
      PROVE  SeatOK(s)'
  <2>1. /\ Grown(events, events')
        /\ \A n \in New(events, events') :
              \/ events'[n] = Cancelled(sel, owner[sel].source)
              \/ events'[n] = SelectionEvent(sel, new.content)
    <3>1. Grown(events, events') /\ Tells(sel, new)
      BY <1>9, GiveTells
    <3> QED
      BY <3>1 DEF Tells
  <2>2. \A n \in New(events, events') : events'[n] \notin {SeatEvent("name", s), SeatEvent("removed", s)}
    BY <2>1, EventFields
  <2>3. requests' = requests /\ seat' = seat /\ present'[s] = present[s] /\ device'[s] = device[s]
    BY <1>9 DEF daemonVars
  <2> QED
    BY <2>1, <2>2, <2>3, GrownKeepsSeat
<1>10. ASSUME NEW sel \in Selection, NEW c \in Contents, AppCopies(sel, c)
       PROVE  SeatOK(s)'
  BY <1>9, <1>10, UsersDo
<1>11. ASSUME NEW sel \in Selection, AppCloses(sel)
       PROVE  SeatOK(s)'
  BY <1>9, <1>11, UsersDo
<1>12. ASSUME NEW t \in Seats, Plug(t) \/ Unplug(t)
       PROVE  SeatOK(s)'
  <2>1. CASE s = t
    BY <1>12, <2>1, PlugsKeepSeat
  <2>2. CASE s # t
    <3>1. PICK e \in {SeatEvent("name", t), SeatEvent("removed", t)} : events' = Append(events, e)
      BY <1>12 DEF Plug, Unplug
    <3>2. Grown(events, events') /\ \A n \in New(events, events') : events'[n] = e
      BY <3>1, SeatsDo
    <3>3. \A n \in New(events, events') : events'[n] \notin {SeatEvent("name", s), SeatEvent("removed", s)}
      <4>1. e.seat = t
        BY <3>1, EventFields
      <4>2. e \notin {SeatEvent("name", s), SeatEvent("removed", s)}
        BY <2>2, <4>1, EventFields
      <4> QED
        BY <3>2, <4>2
    <3>4. requests' = requests /\ seat' = seat /\ present'[s] = present[s] /\ device'[s] = device[s]
      BY <1>12, <2>2 DEF Plug, Unplug, daemonVars, TypesOK
    <3> QED
      BY <3>2, <3>3, <3>4, GrownKeepsSeat
  <2> QED
    BY <2>1, <2>2
<1>13. CASE UNCHANGED vars
  <2>1. events' = events /\ requests' = requests /\ present' = present /\ device' = device /\ seat' = seat
    BY <1>13 DEF vars, compositorVars, daemonVars
  <2>2. SeatOK(s)
    OBVIOUS
  <2> QED
    BY <2>1, <2>2 DEF SeatOK, OrderOK, Named, Removed, Asked, In
<1> QED
  BY <1>1, <1>2, <1>3, <1>4, <1>5, <1>6, <1>7, <1>8, <1>10, <1>11, <1>12, <1>13
     DEF Next, Daemon, Users

-----------------------------------------------------------------------------
(* Every step keeps what there is of a selection to started seats. *)

LEMMA SetsKeepBelongs ==
    ASSUME TypesOK, TypesOK', NEW sel \in Selection, BelongsOK(sel),
           NEW S \in SUBSET Selection, NEW c \in Contents \cup {None}, NEW D, NEW H, Sets(S, c, D, H),
           sel \in S => sel \in Enabled /\ seat'[sel[1]],
           seat[sel[1]] => seat'[sel[1]],
           timer'[sel] => timer[sel] \/ (sel \in Enabled /\ seat[sel[1]]),
           owner'[sel] = owner[sel], present'[sel[1]] = present[sel[1]]
    PROVE  BelongsOK(sel)'
<1>1. source'[sel] # None => sel \in Enabled /\ seat'[sel[1]]
  BY DEF BelongsOK, Sets, Reset
<1>2. ASSUME NEW n \in DOMAIN events', IsNews(events'[n], sel)
      PROVE  seat'[sel[1]]
  <2>1. PICK g : Taken(g, H, S)
    BY DEF Sets
  <2>2. Evolves(events, events', g, Len(events')) /\ events \in Seq(Events) /\ events' \in Seq(Events)
    BY <2>1 DEF Taken, TypesOK
  <2>3. Len(events') \in Nat
    BY <2>2
  <2>4. n \notin Len(events') + 1 .. Len(events')
    BY <2>3
  <2>5. PICK i \in DOMAIN events : events'[n] = events[i]
    BY <2>2, <2>4, OldOrNew
  <2> QED
    BY <1>2, <2>5 DEF BelongsOK
<1>3. ASSUME NEW n \in DOMAIN requests', IsSet(requests'[n], sel)
      PROVE  seat'[sel[1]] \/ present'[sel[1]] = "gone"
  <2>1. /\ Grown(requests, requests')
        /\ \A m \in New(requests, requests') :
               \/ \E s \in D : requests'[m] = DeviceRequest(s)
               \/ \E t \in S : \/ requests'[m] = SetRequest(t, source'[t], c)
                               \/ requests'[m] = DestroyRequest(t, source[t])
    BY DEF Sets, Requested
  <2>2. n \in New(requests, requests') \/ n \in DOMAIN requests
    <3>1. Len(requests) \in Nat /\ Len(requests') \in Nat
          /\ DOMAIN requests = 1 .. Len(requests) /\ DOMAIN requests' = 1 .. Len(requests')
      BY DEF TypesOK
    <3> QED
      BY <3>1 DEF New
  <2>3. CASE n \in New(requests, requests')
    BY <1>3, <2>1, <2>3, RequestFields DEF IsSet
  <2>4. CASE n \in DOMAIN requests
    <3>1. requests'[n] = requests[n]
      <4>1. DOMAIN requests = 1 .. Len(requests)
        BY DEF TypesOK
      <4> QED
        BY <2>1, <2>4, <4>1 DEF Grown
    <3> QED
      BY <1>3, <2>4, <3>1 DEF BelongsOK
  <2> QED
    BY <2>2, <2>3, <2>4
<1> QED
  BY <1>1, <1>2, <1>3 DEF BelongsOK

LEMMA RemoveKeepsBelongs ==
    ASSUME TypesOK, TypesOK', NEW sel \in Selection, BelongsOK(sel), SeatOK(sel[1]), SeatRemove
    PROVE  BelongsOK(sel)'
<1>1. PICK t \in Seats :
          /\ events[1] = SeatEvent("removed", t) /\ 1 \in DOMAIN events
          /\ seat' = [seat EXCEPT ![t] = FALSE]
          /\ source' = [u \in Selection |-> IF u[1] = t THEN None ELSE source[u]]
          /\ timer' = [u \in Selection |-> timer[u] /\ u[1] # t]
          /\ Grown(requests, requests')
          /\ \A n \in New(requests, requests') : \E u \in SelectionsOf(t) :
                 source[u] # None /\ requests'[n] = DestroyRequest(u, source[u])
          /\ \E g : /\ Evolves(events, events', g, Len(events'))
                    /\ \A i \in DOMAIN events :
                          g[i] = 0 <=> \/ i = 1
                                       \/ /\ events[i].type \in {"selection", "cancelled"}
                                          /\ events[i].sel \in SelectionsOf(t)
          /\ UNCHANGED <<compositorVars, coreVars, steps>>
  BY RemoveDoes
<1>2. owner' = owner /\ present' = present /\ sel[1] \in Seats
  BY <1>1 DEF compositorVars, Selection
<1>3. PICK g : /\ Evolves(events, events', g, Len(events'))
               /\ \A i \in DOMAIN events :
                     g[i] = 0 <=> \/ i = 1
                                  \/ /\ events[i].type \in {"selection", "cancelled"}
                                     /\ events[i].sel \in SelectionsOf(t)
  BY <1>1
<1>4. /\ events \in Seq(Events) /\ events' \in Seq(Events) /\ Len(events') \in Nat
      /\ Len(requests) \in Nat /\ Len(requests') \in Nat
      /\ DOMAIN requests = 1 .. Len(requests) /\ DOMAIN requests' = 1 .. Len(requests')
  BY DEF TypesOK
<1>5. ASSUME NEW n \in DOMAIN events'
      PROVE  \E i \in DOMAIN events : g[i] # 0 /\ events'[n] = events[i]
  <2>1. n \notin Len(events') + 1 .. Len(events')
    BY <1>4
  <2> QED
    BY <1>3, <1>4, <2>1, OldOrNew
<1>6. ASSUME NEW n \in DOMAIN requests', IsSet(requests'[n], sel)
      PROVE  n \in DOMAIN requests /\ IsSet(requests[n], sel)
  <2>1. n \notin New(requests, requests')
    BY <1>1, <1>6, RequestFields DEF IsSet
  <2>2. n \in 1 .. Len(requests)
    BY <1>4, <2>1 DEF New
  <2> QED
    BY <1>1, <1>4, <1>6, <2>2 DEF Grown
<1>7. CASE sel[1] = t
  <2>1. present[t] = "gone"
    BY <1>1, <1>7 DEF SeatOK, Removed, In
  <2>2. owner[sel] = Empty /\ owner[sel].source = None
    BY <1>7, <2>1, OwnerFields DEF BelongsOK
  <2>3. source'[sel] = None /\ ~timer'[sel]
    BY <1>1, <1>7
  <2>4. \A n \in DOMAIN events' : ~IsNews(events'[n], sel)
    <3> SUFFICES ASSUME NEW n \in DOMAIN events', IsNews(events'[n], sel) PROVE FALSE
      OBVIOUS
    <3>1. PICK i \in DOMAIN events : g[i] # 0 /\ events'[n] = events[i]
      BY <1>5
    <3>2. events[i].type = "selection" /\ events[i].sel \in SelectionsOf(t)
      BY <1>7, <3>1 DEF IsNews, SelectionsOf
    <3> QED
      BY <1>3, <3>1, <3>2
  <2> QED
    BY <1>2, <1>7, <2>1, <2>2, <2>3, <2>4 DEF BelongsOK
<1>8. CASE sel[1] # t
  <2>1. source'[sel] = source[sel] /\ (timer'[sel] => timer[sel]) /\ seat'[sel[1]] = seat[sel[1]]
    BY <1>1, <1>2, <1>8 DEF TypesOK
  <2>2. \A n \in DOMAIN events' : IsNews(events'[n], sel) => seat[sel[1]]
    BY <1>5 DEF BelongsOK
  <2>3. \A n \in DOMAIN requests' : IsSet(requests'[n], sel) => seat[sel[1]] \/ present[sel[1]] = "gone"
    BY <1>6 DEF BelongsOK
  <2> QED
    BY <1>2, <2>1, <2>2, <2>3 DEF BelongsOK
<1> QED
  BY <1>7, <1>8

LEMMA HandleKeepsBelongs ==
    ASSUME TypesOK, TypesOK', NEW sel \in Selection, BelongsOK(sel), SeatOK(sel[1]), HandleRequest
    PROVE  BelongsOK(sel)'
<1>1. /\ requests # <<>> /\ requests' = Tail(requests)
      /\ requests[1] \in Requests
      /\ Grown(events, events')
      /\ UNCHANGED <<present, daemonVars, coreVars, steps>>
      /\ Owned(sel)
  BY HandleDoes
<1>2. present' = present /\ seat' = seat /\ source' = source /\ timer' = timer
  BY <1>1 DEF daemonVars
<1>3. /\ requests \in Seq(Requests) /\ Len(requests) \in Nat /\ Len(requests) # 0
      /\ DOMAIN requests = 1 .. Len(requests) /\ DOMAIN requests' = 1 .. Len(requests) - 1
      /\ \A n \in 1 .. Len(requests) - 1 : requests'[n] = requests[n + 1]
  <2>1. requests \in Seq(Requests) /\ requests # <<>>
    BY <1>1 DEF TypesOK
  <2> QED
    BY <1>1, <2>1
<1>4. 1 \in DOMAIN requests
      /\ \A n \in DOMAIN requests' : n + 1 \in DOMAIN requests /\ requests'[n] = requests[n + 1]
  BY <1>3
<1>5. IsSet(requests[1], sel) /\ present[sel[1]] = "present" => seat[sel[1]]
  BY <1>4 DEF BelongsOK
<1>6. requests[1] = DestroyRequest(sel, owner[sel].source) => seat[sel[1]]
  <2> SUFFICES ASSUME requests[1] = DestroyRequest(sel, owner[sel].source) PROVE seat[sel[1]]
    OBVIOUS
  <2>1. requests[1].op = "destroy" /\ requests[1].source = owner[sel].source
    BY RequestFields
  <2>2. owner[sel].source \in SourceIds
    BY <1>1, <2>1, RequestIs
  <2> QED
    BY <2>2, IdsAreSome DEF BelongsOK
<1>7. requests[1] = DeviceRequest(sel[1]) /\ present[sel[1]] = "present" => seat[sel[1]]
  BY <1>4 DEF SeatOK, Asked, In
<1>8. /\ present[sel[1]] # "present" => owner'[sel] = Empty
      /\ owner'[sel].source # None => seat[sel[1]]
  <2>1. CASE owner'[sel] = owner[sel]
    BY <2>1 DEF BelongsOK
  <2>2. CASE owner'[sel] = Empty
    BY <2>2, OwnerFields
  <2>3. CASE IsSet(requests[1], sel) /\ present[sel[1]] = "present"
    BY <1>5, <2>3
  <2> QED
    BY <1>1, <2>1, <2>2, <2>3 DEF Owned
<1>9. ASSUME NEW n \in DOMAIN events', IsNews(events'[n], sel)
      PROVE  seat[sel[1]]
  <2>1. n \in New(events, events') \/ (n \in DOMAIN events /\ events'[n] = events[n])
    <3>1. Len(events) \in Nat /\ Len(events') \in Nat
          /\ DOMAIN events = 1 .. Len(events) /\ DOMAIN events' = 1 .. Len(events')
      BY DEF TypesOK
    <3> QED
      BY <1>1, <3>1 DEF New, Grown
  <2>2. CASE n \in New(events, events')
    <3>1. PICK t \in Selection : \/ Announced(t) /\ events'[n] = SelectionEvent(t, owner'[t].content)
                                 \/ events'[n] = Cancelled(t, owner[t].source)
      BY <2>2, HandleTells
    <3>2. t = sel /\ Announced(sel)
      BY <1>9, <3>1, EventFields DEF IsNews
    <3> QED
      BY <1>5, <1>6, <1>7, <3>2 DEF Announced
  <2>3. CASE n \in DOMAIN events /\ events'[n] = events[n]
    BY <1>9, <2>3 DEF BelongsOK
  <2> QED
    BY <2>1, <2>2, <2>3
<1>10. \A n \in DOMAIN requests' : IsSet(requests'[n], sel) => seat[sel[1]] \/ present[sel[1]] = "gone"
  BY <1>4 DEF BelongsOK
<1>11. source[sel] # None \/ timer[sel] => sel \in Enabled /\ seat[sel[1]]
  BY DEF BelongsOK
<1> QED
  BY <1>2, <1>8, <1>9, <1>10, <1>11 DEF BelongsOK

LEMMA CancelledKeepsBelongs ==
    ASSUME TypesOK, TypesOK', NEW sel \in Selection, BelongsOK(sel), SourceCancelled
    PROVE  BelongsOK(sel)'
<1>1. PICK e \in Events :
          /\ e.sel \in Selection
          /\ source' = IF source[e.sel] = e.source THEN [source EXCEPT ![e.sel] = None] ELSE source
          /\ Grown(requests, requests')
          /\ \A n \in New(requests, requests') : requests'[n] = DestroyRequest(e.sel, e.source)
          /\ \E g : Taken(g, {1}, {})
          /\ UNCHANGED <<compositorVars, seat, offer, timer, blocked, coreVars, steps>>
  BY CancelledDoes
<1>2. owner' = owner /\ present' = present /\ seat' = seat /\ timer' = timer
  BY <1>1 DEF compositorVars
<1>3. source'[sel] # None => source[sel] # None
  BY <1>1 DEF TypesOK
<1>4. /\ events \in Seq(Events) /\ events' \in Seq(Events) /\ Len(events') \in Nat
      /\ Len(requests) \in Nat /\ Len(requests') \in Nat
      /\ DOMAIN requests = 1 .. Len(requests) /\ DOMAIN requests' = 1 .. Len(requests')
  BY DEF TypesOK
<1>5. ASSUME NEW n \in DOMAIN events', IsNews(events'[n], sel)
      PROVE  seat[sel[1]]
  <2>1. PICK g : Taken(g, {1}, {})
    BY <1>1
  <2>2. Evolves(events, events', g, Len(events'))
    BY <2>1 DEF Taken
  <2>3. n \notin Len(events') + 1 .. Len(events')
    BY <1>4
  <2>4. PICK i \in DOMAIN events : events'[n] = events[i]
    BY <1>4, <2>2, <2>3, OldOrNew
  <2> QED
    BY <1>5, <2>4 DEF BelongsOK
<1>6. ASSUME NEW n \in DOMAIN requests', IsSet(requests'[n], sel)
      PROVE  n \in DOMAIN requests /\ IsSet(requests[n], sel)
  <2>1. n \notin New(requests, requests')
    BY <1>1, <1>6, RequestFields DEF IsSet
  <2>2. n \in 1 .. Len(requests)
    BY <1>4, <2>1 DEF New
  <2> QED
    BY <1>1, <1>4, <1>6, <2>2 DEF Grown
<1>7. \A n \in DOMAIN requests' : IsSet(requests'[n], sel) => seat[sel[1]] \/ present[sel[1]] = "gone"
  BY <1>6 DEF BelongsOK
<1> QED
  BY <1>2, <1>3, <1>5, <1>7 DEF BelongsOK

(* An application gives a selection to itself, or to nobody. *)
LEMMA UsersKeepBelongs ==
    ASSUME TypesOK, TypesOK', NEW sel \in Selection, BelongsOK(sel), SeatOK(sel[1]),
           NEW t \in Selection, NEW new \in Owners, new.source = None,
           new = Empty \/ present[t[1]] = "present",
           owner' = [owner EXCEPT ![t] = new], events' = events \o Told(t, new),
           UNCHANGED <<present, device, requests, daemonVars, coreVars>>
    PROVE  BelongsOK(sel)'
<1>1. requests' = requests /\ present' = present /\ seat' = seat /\ source' = source /\ timer' = timer
  BY DEF daemonVars
<1>2. owner'[sel] = IF sel = t THEN new ELSE owner[sel]
  BY DEF TypesOK
<1>3. /\ present[sel[1]] # "present" => owner'[sel] = Empty
      /\ owner'[sel].source # None => seat[sel[1]]
  BY <1>2 DEF BelongsOK
<1>4. /\ Grown(events, events')
      /\ \A n \in New(events, events') :
            \/ events'[n] = Cancelled(t, owner[t].source)
            \/ device[t[1]] /\ events'[n] = SelectionEvent(t, new.content)
  <2>1. Grown(events, events') /\ Tells(t, new)
    BY GiveTells
  <2> QED
    BY <2>1 DEF Tells
<1>5. ASSUME NEW n \in DOMAIN events', IsNews(events'[n], sel)
      PROVE  seat[sel[1]]
  <2>1. n \in New(events, events') \/ (n \in DOMAIN events /\ events'[n] = events[n])
    <3>1. Len(events) \in Nat /\ Len(events') \in Nat
          /\ DOMAIN events = 1 .. Len(events) /\ DOMAIN events' = 1 .. Len(events')
      BY DEF TypesOK
    <3> QED
      BY <1>4, <3>1 DEF New, Grown
  <2>2. CASE n \in New(events, events')
    <3>1. t = sel /\ device[sel[1]]
      BY <1>4, <1>5, <2>2, EventFields DEF IsNews
    <3> QED
      BY <3>1 DEF SeatOK
  <2>3. CASE n \in DOMAIN events /\ events'[n] = events[n]
    BY <1>5, <2>3 DEF BelongsOK
  <2> QED
    BY <2>1, <2>2, <2>3
<1> QED
  BY <1>1, <1>3, <1>5 DEF BelongsOK

LEMMA PlugsKeepBelongs ==
    ASSUME TypesOK, TypesOK', NEW sel \in Selection, BelongsOK(sel), NEW s \in Seats, Plug(s) \/ Unplug(s)
    PROVE  BelongsOK(sel)'
<1>1. requests' = requests /\ seat' = seat /\ source' = source /\ timer' = timer
  BY DEF Plug, Unplug, daemonVars
<1>2. sel[1] \in Seats
  BY DEF Selection
<1>3. /\ present'[sel[1]] # "present" => owner'[sel] = Empty
      /\ owner'[sel].source # None => owner[sel].source # None
      /\ present[sel[1]] = "gone" => present'[sel[1]] = "gone"
  <2>1. CASE Plug(s)
    BY <1>2, <2>1 DEF Plug, TypesOK, BelongsOK
  <2>2. CASE Unplug(s)
    <3>1. /\ present' = [present EXCEPT ![s] = "gone"]
          /\ owner'[sel] = IF sel[1] = s THEN Empty ELSE owner[sel]
      BY <2>2 DEF Unplug
    <3> QED
      BY <1>2, <3>1, OwnerFields DEF TypesOK, BelongsOK
  <2> QED
    BY <2>1, <2>2
<1>4. PICK e \in {SeatEvent("name", s), SeatEvent("removed", s)} : events' = Append(events, e)
  BY DEF Plug, Unplug
<1>5. Grown(events, events') /\ \A n \in New(events, events') : events'[n] = e
  BY <1>4, SeatsDo
<1>6. ~IsNews(e, sel)
  BY <1>4, EventFields DEF IsNews
<1>7. \A n \in DOMAIN events' : n \in New(events, events') \/ (n \in DOMAIN events /\ events'[n] = events[n])
  <2>1. Len(events) \in Nat /\ Len(events') \in Nat
        /\ DOMAIN events = 1 .. Len(events) /\ DOMAIN events' = 1 .. Len(events')
    BY DEF TypesOK
  <2> QED
    BY <1>5, <2>1 DEF New, Grown
<1>8. \A n \in DOMAIN events' : IsNews(events'[n], sel) => seat[sel[1]]
  BY <1>5, <1>6, <1>7 DEF BelongsOK
<1> QED
  BY <1>1, <1>3, <1>8 DEF BelongsOK

LEMMA BelongsKept ==
    ASSUME TypesOK, TypesOK', NEW sel \in Selection, BelongsOK(sel), SeatOK(sel[1]), [Next]_vars
    PROVE  BelongsOK(sel)'
<1> DEFINE s == sel[1]
<1>1. CASE SeatStart
  <2>1. PICK t \in Seats, S \in SUBSET Selection :
              /\ seat' = [seat EXCEPT ![t] = TRUE]
              /\ \A u \in S : u \in Enabled /\ u[1] = t
              /\ Sets(S, current, {t}, {1})
              /\ UNCHANGED <<compositorVars, offer, timer, blocked, coreVars, steps>>
    BY <1>1, SeatStartDoes
  <2>2. seat \in [Seats -> BOOLEAN] /\ s \in Seats /\ current \in Contents \cup {None}
    BY DEF TypesOK, Selection
  <2>3. /\ sel \in S => sel \in Enabled /\ seat'[s]
        /\ seat[s] => seat'[s]
    BY <2>1, <2>2
  <2>4. timer' = timer /\ owner' = owner /\ present' = present
    BY <2>1 DEF compositorVars
  <2> QED
    BY <2>1, <2>2, <2>3, <2>4, SetsKeepBelongs
<1>2. CASE SeatRemove
  BY <1>2, RemoveKeepsBelongs
<1>3. CASE SourceCancelled
  BY <1>3, CancelledKeepsBelongs
<1>4. CASE SelectionIgnored \/ SelectionEmptied \/ SelectionPassed \/ SelectionFails
  <2>1. PICK t \in Selection, c \in Contents \cup {None} :
              /\ events[1] = SelectionEvent(t, c) /\ 1 \in DOMAIN events
              /\ Sets({}, None, {}, {1})
              /\ UNCHANGED <<compositorVars, seat, cleared, newest, history, steps>>
              /\ \A u \in Selection : timer'[u] => timer[u] \/ (u = t /\ t \in Enabled)
    BY <1>4, NewsDoes
  <2>2. IsNews(events[1], t)
    BY <2>1, EventFields DEF IsNews
  <2>3. timer'[sel] => timer[sel] \/ (sel \in Enabled /\ seat[s])
    BY <2>1, <2>2 DEF BelongsOK
  <2>4. seat' = seat /\ owner' = owner /\ present' = present
    BY <2>1 DEF compositorVars
  <2>5. {} \in SUBSET Selection /\ None \in Contents \cup {None} /\ sel \notin {}
    OBVIOUS
  <2> QED
    BY <2>1, <2>3, <2>4, <2>5, SetsKeepBelongs
<1>5. CASE SelectionStored
  <2>1. PICK t \in Selection, c \in Contents :
              /\ Sets(Started \ {t}, c, {}, {1})
              /\ UNCHANGED <<compositorVars, seat, timer, cleared, steps>>
    BY <1>5, StoredDoes
  <2>2. seat' = seat /\ timer' = timer /\ owner' = owner /\ present' = present
    BY <2>1 DEF compositorVars
  <2>3. Started \ {t} \in SUBSET Selection /\ c \in Contents \cup {None}
    BY EnabledAssumption DEF Started
  <2>4. sel \in Started \ {t} => sel \in Enabled /\ seat[s]
    BY DEF Started
  <2> QED
    BY <2>1, <2>2, <2>3, <2>4, SetsKeepBelongs
<1>6. ASSUME NEW t \in Selection, NullTimer(t)
      PROVE  BelongsOK(sel)'
  <2>1. /\ timer[t] /\ timer' = [timer EXCEPT ![t] = FALSE]
        /\ Sets({}, current, {}, {}) \/ Sets({t}, current, {}, {})
        /\ UNCHANGED <<compositorVars, seat, offer, blocked, coreVars, steps>>
    BY <1>6, TimerDoes
  <2>2. {} \in SUBSET Selection /\ {t} \in SUBSET Selection /\ current \in Contents \cup {None}
    BY DEF TypesOK
  <2>3. PICK S \in {{}, {t}} : Sets(S, current, {}, {})
    BY <2>1
  <2>4. sel \in S => sel \in Enabled /\ seat[s]
    BY <2>1 DEF BelongsOK
  <2>5. (timer'[sel] => timer[sel]) /\ seat' = seat /\ owner' = owner /\ present' = present
    BY <2>1 DEF compositorVars, TypesOK
  <2> QED
    BY <2>2, <2>3, <2>4, <2>5, SetsKeepBelongs
<1>7. ASSUME NEW c \in history \cup {None}, SetClipboard(c)
      PROVE  BelongsOK(sel)'
  <2>1. /\ c \in Contents \cup {None}
        /\ Sets(Started, c, {}, {})
        /\ UNCHANGED <<compositorVars, seat, offer, timer, blocked, newest, history>>
    BY <1>7, ClipboardDoes
  <2>2. seat' = seat /\ timer' = timer /\ owner' = owner /\ present' = present
    BY <2>1 DEF compositorVars
  <2>3. Started \in SUBSET Selection
    BY EnabledAssumption DEF Started
  <2>4. sel \in Started => sel \in Enabled /\ seat[s]
    BY DEF Started
  <2> QED
    BY <2>1, <2>2, <2>3, <2>4, SetsKeepBelongs
<1>8. CASE HandleRequest
  BY <1>8, HandleKeepsBelongs
<1>9. ASSUME NEW t \in Selection, NEW c \in Contents, AppCopies(t, c)
      PROVE  BelongsOK(sel)'
  <2>1. AppOwner(c).source = None
    BY OwnerFields
  <2>2. /\ present[t[1]] = "present"
        /\ owner' = [owner EXCEPT ![t] = AppOwner(c)] /\ AppOwner(c) \in Owners
        /\ events' = events \o Told(t, AppOwner(c))
        /\ UNCHANGED <<present, device, requests, daemonVars, coreVars>>
    BY <1>9, UsersDo
  <2> QED
    BY <2>1, <2>2, UsersKeepBelongs
<1>10. ASSUME NEW t \in Selection, AppCloses(t)
       PROVE  BelongsOK(sel)'
  <2>1. Empty.source = None
    BY OwnerFields
  <2>2. /\ owner' = [owner EXCEPT ![t] = Empty] /\ Empty \in Owners
        /\ events' = events \o Told(t, Empty)
        /\ UNCHANGED <<present, device, requests, daemonVars, coreVars>>
    BY <1>10, UsersDo
  <2> QED
    BY <2>1, <2>2, UsersKeepBelongs
<1>11. ASSUME NEW t \in Seats, Plug(t) \/ Unplug(t)
       PROVE  BelongsOK(sel)'
  BY <1>11, PlugsKeepBelongs
<1>12. CASE UNCHANGED vars
  <2>1. /\ events' = events /\ requests' = requests /\ present' = present /\ seat' = seat
        /\ owner' = owner /\ source' = source /\ timer' = timer
    BY <1>12 DEF vars, compositorVars, daemonVars
  <2> QED
    BY <2>1 DEF BelongsOK
<1> QED
  BY <1>1, <1>2, <1>3, <1>4, <1>5, <1>6, <1>7, <1>8, <1>9, <1>10, <1>11, <1>12
     DEF Next, Daemon, Users

-----------------------------------------------------------------------------
(* Every step keeps what is known of a source. *)

LEMMA GivenKeepsSource ==
    ASSUME TypesOK, TypesOK', NEW sel \in Selection, SourceOK(sel),
           NEW t \in Selection, NEW new \in Owners, new.source = None,
           owner' = [owner EXCEPT ![t] = new], events' = events \o Told(t, new),
           UNCHANGED <<present, device, requests, daemonVars, coreVars>>
    PROVE  SourceOK(sel)'
<1>1. requests' = requests /\ source' = source /\ current' = current
  BY DEF daemonVars, coreVars
<1>2. /\ Grown(events, events')
      /\ owner[t].by = "daemon" =>
            \E n \in New(events, events') : events'[n] = Cancelled(t, owner[t].source)
  <2>1. Grown(events, events') /\ Tells(t, new)
    BY GiveTells
  <2> QED
    BY <2>1 DEF Tells
<1>3. CASE sel # t
  <2>1. owner'[sel] = owner[sel]
    BY <1>3 DEF TypesOK
  <2> QED
    BY <1>1, <1>2, <2>1, UsersKeepSource
<1>4. CASE sel = t
  <2>1. owner'[sel].source = None /\ owner[sel] \in Owners
    BY <1>4 DEF TypesOK
  <2>2. owner[sel].source # None => owner[sel].by = "daemon"
    BY <2>1, OwnerIs, OwnerFields
  <2>3. \A n \in New(events, events') : n \in DOMAIN events'
    <3>1. Len(events) \in Nat /\ Len(events') \in Nat /\ DOMAIN events' = 1 .. Len(events')
      BY DEF TypesOK
    <3> QED
      BY <3>1 DEF New
  <2>4. owner[sel].source # None => In(Cancelled(sel, owner[sel].source), events')
    BY <1>2, <1>4, <2>2, <2>3 DEF In
  <2> QED
    BY <1>1, <1>2, <2>1, <2>4, UsersKeepSource
<1> QED
  BY <1>3, <1>4

LEMMA PlugsKeepSource ==
    ASSUME TypesOK, TypesOK', NEW sel \in Selection, SourceOK(sel), NEW s \in Seats, Plug(s) \/ Unplug(s)
    PROVE  SourceOK(sel)'
<1>1. requests' = requests /\ source' = source /\ current' = current
  BY DEF Plug, Unplug, daemonVars, coreVars
<1>2. PICK e \in {SeatEvent("name", s), SeatEvent("removed", s)} :
          events' = Append(events, e) /\ (Unplug(s) => e = SeatEvent("removed", s))
  <2>1. CASE Unplug(s)
    BY <2>1 DEF Unplug
  <2>2. CASE ~Unplug(s)
    BY <2>2 DEF Plug
  <2> QED
    BY <2>1, <2>2
<1>3. /\ Grown(events, events')
      /\ New(events, events') = {Len(events) + 1} /\ events'[Len(events) + 1] = e
  BY <1>2, SeatsDo
<1>4. CASE owner'[sel] = owner[sel]
  BY <1>1, <1>3, <1>4, UsersKeepSource
<1>5. CASE owner'[sel] # owner[sel]
  <2>1. Unplug(s)
    BY <1>5 DEF Plug
  <2>2. sel[1] = s /\ owner'[sel] = Empty
    BY <1>5, <2>1 DEF Unplug
  <2>3. Len(events) + 1 \in DOMAIN events'
    <3>1. Len(events) \in Nat /\ Len(events') \in Nat /\ DOMAIN events' = 1 .. Len(events')
      BY DEF TypesOK
    <3>2. Len(events) + 1 \in New(events, events')
      BY <1>3
    <3> QED
      BY <3>1, <3>2 DEF New
  <2>4. Removed(sel[1])'
    BY <1>2, <1>3, <2>1, <2>2, <2>3 DEF Removed, In
  <2> QED
    BY <1>1, <1>3, <2>2, <2>4, OwnerFields, UsersKeepSource
<1> QED
  BY <1>4, <1>5

LEMMA SourceKept ==
    ASSUME TypesOK, TypesOK', NEW sel \in Selection, SourceOK(sel), BelongsOK(sel), SeatOK(sel[1]), [Next]_vars
    PROVE  SourceOK(sel)'
<1>1. source[sel] # None => sel \in Started
  BY DEF BelongsOK, Started
<1>2. None \in Contents \cup {None} /\ {} \in SUBSET Selection /\ current \in Contents \cup {None}
  BY DEF TypesOK
<1>3. CASE SeatStart
  <2>1. PICK t \in Seats, S \in SUBSET Selection :
              /\ events[1] = SeatEvent("name", t)
              /\ Sets(S, current, {t}, {1})
              /\ UNCHANGED <<compositorVars, offer, timer, blocked, coreVars, steps>>
    BY <1>3, SeatStartDoes
  <2>2. events[1].type = "name" /\ owner'[sel] = owner[sel] /\ current' = current
    BY <2>1, EventFields DEF compositorVars, coreVars
  <2> QED
    BY <1>2, <2>1, <2>2, SetsKeepSource
<1>4. CASE SeatRemove
  BY <1>4, RemoveKeepsSource
<1>5. CASE SourceCancelled
  BY <1>5, CancelledKeepsSource
<1>6. CASE SelectionIgnored \/ SelectionEmptied \/ SelectionPassed \/ SelectionFails
  <2>1. PICK t \in Selection, c \in Contents \cup {None} :
              /\ events[1] = SelectionEvent(t, c)
              /\ Sets({}, None, {}, {1})
              /\ UNCHANGED <<compositorVars, seat, cleared, newest, history, steps>>
              /\ current' \in {current, None}
    BY <1>6, NewsDoes
  <2>2. events[1].type = "selection" /\ owner'[sel] = owner[sel]
    BY <2>1, EventFields DEF compositorVars
  <2> QED
    BY <1>2, <2>1, <2>2, SetsKeepSource
<1>7. CASE SelectionStored
  <2>1. PICK t \in Selection, c \in Contents :
              /\ events[1] = SelectionEvent(t, c)
              /\ source[t] = None
              /\ Sets(Started \ {t}, c, {}, {1})
              /\ current' = c
              /\ UNCHANGED <<compositorVars, seat, timer, cleared, steps>>
    BY <1>7, StoredDoes
  <2>2. events[1].type = "selection" /\ owner'[sel] = owner[sel]
    BY <2>1, EventFields DEF compositorVars
  <2>3. Started \ {t} \in SUBSET Selection /\ c \in Contents \cup {None}
    BY EnabledAssumption DEF Started
  <2>4. source[sel] # None => sel \in Started \ {t}
    BY <1>1, <2>1
  <2> QED
    BY <2>1, <2>2, <2>3, <2>4, SetsKeepSource
<1>8. ASSUME NEW t \in Selection, NullTimer(t)
      PROVE  SourceOK(sel)'
  <2>1. PICK S \in SUBSET Selection :
        /\ Sets(S, current, {}, {})
        /\ UNCHANGED <<compositorVars, seat, offer, blocked, coreVars, steps>>
    <3>1. {} \in SUBSET Selection /\ {t} \in SUBSET Selection
      OBVIOUS
    <3> QED
      BY <1>8, <3>1, TimerDoes
  <2>2. owner'[sel] = owner[sel] /\ current' = current
    BY <2>1 DEF compositorVars, coreVars
  <2> QED
    BY <1>2, <2>1, <2>2, SetsKeepSource
<1>9. ASSUME NEW c \in history \cup {None}, SetClipboard(c)
      PROVE  SourceOK(sel)'
  <2>1. /\ current' = c /\ c \in Contents \cup {None}
        /\ Sets(Started, c, {}, {})
        /\ UNCHANGED <<compositorVars, seat, offer, timer, blocked, newest, history>>
    BY <1>9, ClipboardDoes
  <2>2. owner'[sel] = owner[sel]
    BY <2>1 DEF compositorVars
  <2>3. Started \in SUBSET Selection
    BY EnabledAssumption DEF Started
  <2> QED
    BY <1>1, <2>1, <2>2, <2>3, SetsKeepSource
<1>10. CASE HandleRequest
  BY <1>10, HandleKeepsSource
<1>11. ASSUME NEW t \in Selection, NEW c \in Contents, AppCopies(t, c)
       PROVE  SourceOK(sel)'
  <2>1. AppOwner(c).source = None
    BY OwnerFields
  <2> QED
    BY <1>11, <2>1, UsersDo, GivenKeepsSource
<1>12. ASSUME NEW t \in Selection, AppCloses(t)
       PROVE  SourceOK(sel)'
  <2>1. Empty.source = None
    BY OwnerFields
  <2> QED
    BY <1>12, <2>1, UsersDo, GivenKeepsSource
<1>13. ASSUME NEW t \in Seats, Plug(t) \/ Unplug(t)
       PROVE  SourceOK(sel)'
  BY <1>13, PlugsKeepSource
<1>14. CASE UNCHANGED vars
  <2>1. /\ events' = events /\ requests' = requests /\ owner' = owner /\ source' = source
        /\ current' = current
    BY <1>14 DEF vars, compositorVars, daemonVars, coreVars
  <2> QED
    BY <2>1 DEF SourceOK, KnownOK, DestroyedOK, OfferedOK, LastSet, NoSet, Removed, In
<1> QED
  BY <1>3, <1>4, <1>5, <1>6, <1>7, <1>8, <1>9, <1>10, <1>11, <1>12, <1>13, <1>14
     DEF Next, Daemon, Users

-----------------------------------------------------------------------------
(* Every step keeps what is known of a content that an application holds.      *)

(* Its news is on the way, and will be listened to. *)
NoNews(sel) == \A n \in DOMAIN events : ~IsNews(events[n], sel)

LastNews(sel, n) ==
    /\ IsNews(events[n], sel)
    /\ \A m \in DOMAIN events : IsNews(events[m], sel) => m <= n

Pending(sel) ==
    \E n \in DOMAIN events :
        /\ LastNews(sel, n)
        /\ events[n].content = owner[sel].content
        /\ source[sel] = None \/ \E m \in DOMAIN events : m < n /\ events[m] = Cancelled(sel, source[sel])

(* It is about to be replaced, will be announced, is announced, or is kept.    *)
KeptOK(sel) ==
    sel \in Started /\ owner[sel].by = "app" /\ owner[sel].content \in Storable =>
        \/ ~NoSet(sel)
        \/ ~device[sel[1]] /\ Asked(sel[1])
        \/ Pending(sel)
        \/ NoNews(sel) /\ (current = None \/ owner[sel].content \in {current, newest})

LEMMA KeptMoves ==
    ASSUME TypesOK, TypesOK', NEW sel \in Selection, KeptOK(sel),
           seat'[sel[1]] => seat[sel[1]],
           owner'[sel] = owner[sel], device'[sel[1]] = device[sel[1]],
           Asked(sel[1]) => Asked(sel[1])', ~NoSet(sel) => ~NoSet(sel)',
           NEW g, NEW k, Evolves(events, events', g, k),
           \A n \in k + 1 .. Len(events') : ~IsNews(events'[n], sel),
           \A i \in DOMAIN events : g[i] = 0 /\ IsNews(events[i], sel) =>
               /\ i = 1
               /\ source[sel] = None /\ sel \in Enabled /\ events[1].content \in Storable =>
                      current' = None \/ events[1].content \in {current', newest'},
           \/ source'[sel] = None
           \/ /\ source'[sel] = source[sel]
              /\ \A i \in DOMAIN events : g[i] = 0 => events[i] # Cancelled(sel, source[sel]),
           NoNews(sel) => current' = None \/ (current' = current /\ newest' = newest)
    PROVE  KeptOK(sel)'
<1> DEFINE c == owner[sel].content
<1> SUFFICES ASSUME sel \in Started', owner[sel].by = "app", c \in Storable
             PROVE  \/ ~NoSet(sel)'
                    \/ ~device'[sel[1]] /\ Asked(sel[1])'
                    \/ Pending(sel)'
                    \/ NoNews(sel)' /\ (current' = None \/ c \in {current', newest'})
  BY DEF KeptOK
<1>1. sel \in Started /\ sel \in Enabled
  BY DEF Started
<1>2. events \in Seq(Events) /\ events' \in Seq(Events)
  BY DEF TypesOK
<1>3. ASSUME NEW n \in DOMAIN events', IsNews(events'[n], sel)
      PROVE  \E i \in DOMAIN events : g[i] = n /\ n # 0 /\ events'[n] = events[i]
  <2>1. n \notin k + 1 .. Len(events')
    BY <1>3
  <2> QED
    BY <1>2, <2>1, OldOrNew
<1>4. ASSUME NEW i \in DOMAIN events, g[i] # 0
      PROVE  g[i] \in DOMAIN events' /\ events'[g[i]] = events[i]
  BY <1>2, <1>4, StaysIn
<1>5. \A i \in DOMAIN events : i \in Nat /\ i # 0
  BY <1>2
<1>6. \A i \in DOMAIN events : g[i] \in Nat
  BY DEF Evolves
<1>7. CASE Pending(sel)
  <2>1. PICK n \in DOMAIN events :
          /\ LastNews(sel, n)
          /\ events[n].content = c
          /\ source[sel] = None \/ \E m \in DOMAIN events : m < n /\ events[m] = Cancelled(sel, source[sel])
    BY <1>7 DEF Pending
  <2>2. IsNews(events[n], sel)
    BY <2>1 DEF LastNews
  <2>3. CASE g[n] # 0
    <3>1. g[n] \in DOMAIN events' /\ events'[g[n]] = events[n]
      BY <1>4, <2>3
    <3>2. LastNews(sel, g[n])'
      <4> SUFFICES ASSUME NEW m \in DOMAIN events', IsNews(events'[m], sel) PROVE m <= g[n]
        BY <2>2, <3>1 DEF LastNews
      <4>1. PICK i \in DOMAIN events : g[i] = m /\ m # 0 /\ events'[m] = events[i]
        BY <1>3
      <4>2. i <= n
        BY <2>1, <4>1 DEF LastNews
      <4>3. i < n => g[i] < g[n]
        BY <2>3, <4>1 DEF Evolves
      <4> QED
        BY <1>5, <1>6, <4>1, <4>2, <4>3
    <3>3. source'[sel] = None \/ \E m \in DOMAIN events' : m < g[n] /\ events'[m] = Cancelled(sel, source'[sel])
      <4> SUFFICES ASSUME source'[sel] = source[sel], source[sel] # None,
                          \A i \in DOMAIN events : g[i] = 0 => events[i] # Cancelled(sel, source[sel])
                   PROVE  \E m \in DOMAIN events' : m < g[n] /\ events'[m] = Cancelled(sel, source[sel])
        OBVIOUS
      <4>1. PICK m \in DOMAIN events : m < n /\ events[m] = Cancelled(sel, source[sel])
        BY <2>1
      <4>2. g[m] # 0
        BY <4>1
      <4>3. g[m] < g[n]
        BY <2>3, <4>1, <4>2 DEF Evolves
      <4> QED
        BY <1>4, <4>1, <4>2, <4>3
    <3>4. Pending(sel)'
      BY <2>1, <3>1, <3>2, <3>3 DEF Pending
    <3> QED
      BY <3>4
  <2>4. CASE g[n] = 0
    <3>1. n = 1
      BY <2>2, <2>4
    <3>2. source[sel] = None
      BY <1>5, <2>1, <3>1
    <3>3. current' = None \/ c \in {current', newest'}
      BY <1>1, <2>1, <2>2, <2>4, <3>1, <3>2
    <3>4. NoNews(sel)'
      <4> SUFFICES ASSUME NEW m \in DOMAIN events', IsNews(events'[m], sel) PROVE FALSE
        BY DEF NoNews
      <4>1. PICK i \in DOMAIN events : g[i] = m /\ m # 0 /\ events'[m] = events[i]
        BY <1>3
      <4>2. i <= 1
        BY <2>1, <3>1, <4>1 DEF LastNews
      <4>3. i = 1
        BY <1>5, <4>2
      <4> QED
        BY <2>4, <3>1, <4>1, <4>3
    <3> QED
      BY <3>3, <3>4
  <2> QED
    BY <2>3, <2>4
<1>8. CASE NoNews(sel) /\ (current = None \/ c \in {current, newest})
  <2>1. current' = None \/ c \in {current', newest'}
    BY <1>8
  <2>2. NoNews(sel)'
    BY <1>3, <1>8 DEF NoNews
  <2> QED
    BY <2>1, <2>2
<1>9. \/ ~NoSet(sel)
      \/ ~device[sel[1]] /\ Asked(sel[1])
      \/ Pending(sel)
      \/ NoNews(sel) /\ (current = None \/ c \in {current, newest})
  BY <1>1 DEF KeptOK
<1> QED
  BY <1>7, <1>8, <1>9

LEMMA SetStays ==
    ASSUME TypesOK, TypesOK', NEW sel, Grown(requests, requests')
    PROVE  ~NoSet(sel) => ~NoSet(sel)'
<1>1. /\ Len(requests) \in Nat /\ Len(requests') \in Nat
      /\ DOMAIN requests = 1 .. Len(requests) /\ DOMAIN requests' = 1 .. Len(requests')
  BY DEF TypesOK
<1> QED
  BY <1>1 DEF NoSet, Grown

(* A handler that sets selections; sel is of the event, or is one of them, or  *)
(* nothing happens to it.                                                     *)
LEMMA SetsKeepKept ==
    ASSUME TypesOK, TypesOK', NEW sel \in Selection, KeptOK(sel),
           NEW S \in SUBSET Selection, NEW c \in Contents \cup {None}, NEW D, NEW H, Sets(S, c, D, H),
           seat'[sel[1]] => seat[sel[1]],
           owner'[sel] = owner[sel], device'[sel[1]] = device[sel[1]],
           H = {} \/ (H = {1} /\ events[1].type # "cancelled"),
           H = {1} /\ IsNews(events[1], sel) /\ sel \in Enabled
                   /\ source[sel] = None /\ events[1].content \in Storable =>
               current' = None \/ events[1].content \in {current', newest'},
           sel \in S \/ (NoNews(sel) /\ sel \in Started => current' = None \/ (current' = current /\ newest' = newest))
    PROVE  KeptOK(sel)'
<1>1. /\ Grown(requests, requests')
      /\ \A t \in S : \E n \in New(requests, requests') : requests'[n] = SetRequest(t, source'[t], c)
  BY DEF Sets, Requested
<1>2. CASE sel \in S
  <2>1. PICK n \in New(requests, requests') : requests'[n] = SetRequest(sel, source'[sel], c)
    BY <1>1, <1>2
  <2>2. n \in DOMAIN requests'
    <3>1. Len(requests) \in Nat /\ Len(requests') \in Nat /\ DOMAIN requests' = 1 .. Len(requests')
      BY DEF TypesOK
    <3> QED
      BY <3>1 DEF New
  <2>3. ~NoSet(sel)'
    BY <2>1, <2>2, RequestFields DEF NoSet, IsSet
  <2> QED
    BY <2>3 DEF KeptOK
<1>3. CASE sel \notin S /\ sel \in Started
  <2>1. PICK g : Taken(g, H, S)
    BY DEF Sets
  <2>2. /\ Evolves(events, events', g, Len(events'))
        /\ \A i \in DOMAIN events :
               g[i] = 0 <=> i \in H \/ \E t \in S : events[i] = Cancelled(t, source[t])
    BY <2>1 DEF Taken
  <2>3. Len(events') \in Nat
    BY DEF TypesOK
  <2>4. \A n \in Len(events') + 1 .. Len(events') : ~IsNews(events'[n], sel)
    BY <2>3
  <2>5. ASSUME NEW i \in DOMAIN events, g[i] = 0, IsNews(events[i], sel)
        PROVE  /\ i = 1
               /\ source[sel] = None /\ sel \in Enabled /\ events[1].content \in Storable =>
                      current' = None \/ events[1].content \in {current', newest'}
    <3>1. \A t \in S : events[i] # Cancelled(t, source[t])
      BY <2>5, EventFields DEF IsNews
    <3>2. i \in H
      BY <2>2, <2>5, <3>1
    <3>3. i = 1 /\ H = {1}
      BY <3>2
    <3> QED
      BY <2>5, <3>3
  <2>6. ASSUME NEW i \in DOMAIN events, g[i] = 0, events[i] = Cancelled(sel, source[sel])
        PROVE  FALSE
    <3>1. events[i].type = "cancelled" /\ events[i].sel = sel
      BY <2>6, EventFields
    <3>2. i \notin H
      BY <3>1
    <3>3. PICK t \in S : events[i] = Cancelled(t, source[t])
      BY <2>2, <2>6, <3>2
    <3> QED
      BY <1>3, <3>1, <3>3, EventFields
  <2>7. source'[sel] = source[sel]
    BY <1>3 DEF Sets, Reset
  <2>8. (Asked(sel[1]) => Asked(sel[1])') /\ (~NoSet(sel) => ~NoSet(sel)')
    BY <1>1, AskedStays, SetStays
  <2>9. NoNews(sel) => current' = None \/ (current' = current /\ newest' = newest)
    BY <1>3
  <2>10. \A i \in DOMAIN events : g[i] = 0 => events[i] # Cancelled(sel, source[sel])
    BY <2>6
  <2>11. \A i \in DOMAIN events : g[i] = 0 /\ IsNews(events[i], sel) =>
               /\ i = 1
               /\ source[sel] = None /\ sel \in Enabled /\ events[1].content \in Storable =>
                      current' = None \/ events[1].content \in {current', newest'}
    BY <2>5
  <2> QED
    BY <2>2, <2>4, <2>7, <2>8, <2>9, <2>10, <2>11, KeptMoves
<1>4. CASE sel \notin Started
  <2>1. sel \notin Started'
    BY <1>4 DEF Started
  <2> QED
    BY <2>1 DEF KeptOK
<1> QED
  BY <1>2, <1>3, <1>4

LEMMA StartKeepsKept ==
    ASSUME TypesOK, TypesOK', NEW sel \in Selection, KeptOK(sel), SeatOK(sel[1]), SeatStart
    PROVE  KeptOK(sel)'
<1>1. PICK t \in Seats, S \in SUBSET Selection :
              /\ events[1] = SeatEvent("name", t) /\ 1 \in DOMAIN events
              /\ seat' = [seat EXCEPT ![t] = TRUE]
              /\ Sets(S, current, {t}, {1})
              /\ UNCHANGED <<compositorVars, offer, timer, blocked, coreVars, steps>>
  BY SeatStartDoes
<1>2. owner' = owner /\ device' = device /\ current' = current /\ newest' = newest
  BY <1>1 DEF compositorVars, coreVars
<1>3. events[1].type = "name" /\ ~IsNews(events[1], sel) /\ current \in Contents \cup {None}
  BY <1>1, EventFields DEF IsNews, TypesOK
<1>4. sel[1] \in Seats
  BY DEF Selection
<1>5. CASE sel[1] # t
  <2>1. seat'[sel[1]] = seat[sel[1]]
    BY <1>1, <1>4, <1>5 DEF TypesOK
  <2> QED
    BY <1>1, <1>2, <1>3, <2>1, SetsKeepKept
<1>6. CASE sel[1] = t
  <2>1. Named(sel[1])
    BY <1>1, <1>6 DEF Named, In
  <2>2. ~device'[sel[1]]
    BY <1>2, <2>1 DEF SeatOK
  <2>3. PICK n \in New(requests, requests') : requests'[n] = DeviceRequest(t)
    BY <1>1 DEF Sets, Requested
  <2>4. n \in DOMAIN requests'
    <3>1. Len(requests) \in Nat /\ Len(requests') \in Nat /\ DOMAIN requests' = 1 .. Len(requests')
      BY DEF TypesOK
    <3> QED
      BY <3>1 DEF New
  <2>5. Asked(sel[1])'
    BY <1>6, <2>3, <2>4 DEF Asked, In
  <2> QED
    BY <2>2, <2>5 DEF KeptOK
<1> QED
  BY <1>5, <1>6

LEMMA RemoveKeepsKept ==
    ASSUME TypesOK, TypesOK', NEW sel \in Selection, KeptOK(sel), SeatRemove
    PROVE  KeptOK(sel)'
<1>1. PICK t \in Seats :
          /\ events[1] = SeatEvent("removed", t) /\ 1 \in DOMAIN events
          /\ seat' = [seat EXCEPT ![t] = FALSE]
          /\ source' = [u \in Selection |-> IF u[1] = t THEN None ELSE source[u]]
          /\ Grown(requests, requests')
          /\ \E g : /\ Evolves(events, events', g, Len(events'))
                    /\ \A i \in DOMAIN events :
                          g[i] = 0 <=> \/ i = 1
                                       \/ /\ events[i].type \in {"selection", "cancelled"}
                                          /\ events[i].sel \in SelectionsOf(t)
          /\ UNCHANGED <<compositorVars, coreVars, steps>>
  BY RemoveDoes
<1>2. owner' = owner /\ device' = device /\ current' = current /\ newest' = newest
  BY <1>1 DEF compositorVars, coreVars
<1>3. sel[1] \in Seats
  BY DEF Selection
<1>4. CASE sel[1] = t
  <2>1. ~seat'[sel[1]]
    BY <1>1, <1>3, <1>4 DEF TypesOK
  <2> QED
    BY <2>1 DEF KeptOK, Started
<1>5. CASE sel[1] # t
  <2>1. seat'[sel[1]] = seat[sel[1]] /\ source'[sel] = source[sel]
    BY <1>1, <1>3, <1>5 DEF TypesOK
  <2>2. PICK g : /\ Evolves(events, events', g, Len(events'))
                 /\ \A i \in DOMAIN events :
                       g[i] = 0 => \/ i = 1
                                   \/ /\ events[i].type \in {"selection", "cancelled"}
                                      /\ events[i].sel \in SelectionsOf(t)
    BY <1>1
  <2>3. \A i \in DOMAIN events : g[i] = 0 => events[i].type = "removed" \/ events[i].sel # sel
    BY <1>1, <1>5, <2>2, EventFields DEF SelectionsOf
  <2>4. \A i \in DOMAIN events : g[i] = 0 => ~IsNews(events[i], sel) /\ events[i] # Cancelled(sel, source[sel])
    BY <2>3, EventFields DEF IsNews
  <2>5. Len(events') \in Nat
    BY DEF TypesOK
  <2>6. \A n \in Len(events') + 1 .. Len(events') : ~IsNews(events'[n], sel)
    BY <2>5
  <2>7. (Asked(sel[1]) => Asked(sel[1])') /\ (~NoSet(sel) => ~NoSet(sel)')
    BY <1>1, AskedStays, SetStays
  <2> QED
    BY <1>2, <2>1, <2>2, <2>4, <2>6, <2>7, KeptMoves
<1> QED
  BY <1>4, <1>5

LEMMA CancelledKeepsKept ==
    ASSUME TypesOK, TypesOK', NEW sel \in Selection, KeptOK(sel), SourceCancelled
    PROVE  KeptOK(sel)'
<1>1. PICK e \in Events :
          /\ events[1] = e /\ 1 \in DOMAIN events
          /\ e.sel \in Selection /\ e = Cancelled(e.sel, e.source)
          /\ source' = IF source[e.sel] = e.source THEN [source EXCEPT ![e.sel] = None] ELSE source
          /\ Grown(requests, requests')
          /\ \E g : Taken(g, {1}, {})
          /\ UNCHANGED <<compositorVars, seat, offer, timer, blocked, coreVars, steps>>
  BY CancelledDoes
<1>2. owner' = owner /\ device' = device /\ seat' = seat /\ current' = current /\ newest' = newest
  BY <1>1 DEF compositorVars, coreVars
<1>3. PICK g : Taken(g, {1}, {})
  BY <1>1
<1>4. Evolves(events, events', g, Len(events')) /\ \A i \in DOMAIN events : g[i] = 0 => i = 1
  BY <1>3 DEF Taken
<1>5. ~IsNews(events[1], sel)
  BY <1>1, EventFields DEF IsNews
<1>6. \A i \in DOMAIN events : g[i] = 0 => ~IsNews(events[i], sel)
  BY <1>4, <1>5
<1>7. source'[sel] = None \/ (source'[sel] = source[sel] /\ e # Cancelled(sel, source[sel]))
  BY <1>1, EventFields DEF TypesOK
<1>8. \/ source'[sel] = None
      \/ /\ source'[sel] = source[sel]
         /\ \A i \in DOMAIN events : g[i] = 0 => events[i] # Cancelled(sel, source[sel])
  BY <1>1, <1>4, <1>7
<1>9. Len(events') \in Nat
  BY DEF TypesOK
<1>10. \A n \in Len(events') + 1 .. Len(events') : ~IsNews(events'[n], sel)
  BY <1>9
<1>11. (Asked(sel[1]) => Asked(sel[1])') /\ (~NoSet(sel) => ~NoSet(sel)')
  BY <1>1, AskedStays, SetStays
<1> QED
  BY <1>2, <1>4, <1>6, <1>8, <1>10, <1>11, KeptMoves

(* Events are added, none of them news of sel. *)
LEMMA GrownKeepsKept ==
    ASSUME TypesOK, TypesOK', NEW sel \in Selection, KeptOK(sel), Grown(events, events'),
           \A n \in New(events, events') : ~IsNews(events'[n], sel),
           UNCHANGED <<requests, seat, source, current, newest>>,
           owner'[sel] = owner[sel], device'[sel[1]] = device[sel[1]]
    PROVE  KeptOK(sel)'
<1>1. events \in Seq(Events) /\ events' \in Seq(Events)
  BY DEF TypesOK
<1>2. PICK g, k : /\ Evolves(events, events', g, k)
                  /\ k + 1 .. Len(events') = New(events, events')
                  /\ \A i \in DOMAIN events : g[i] # 0
  BY <1>1, GrownEvolves
<1>3. (Asked(sel[1]) => Asked(sel[1])') /\ (~NoSet(sel) => ~NoSet(sel)')
  BY DEF Asked, In, NoSet
<1> QED
  BY <1>2, <1>3, KeptMoves

(* The compositor announces what the application holds: either the daemon has  *)
(* no source by then, or a set request replaces it.                           *)
LEMMA AnnouncedIsKept ==
    ASSUME TypesOK, TypesOK', NEW sel \in Selection, SourceOK(sel), SeatOK(sel[1]),
           present[sel[1]] = "present", Grown(events, events'), source' = source,
           ~NoSet(sel) => ~NoSet(sel)',
           NEW n \in New(events, events'), events'[n] = SelectionEvent(sel, owner'[sel].content),
           \A m \in New(events, events') : IsNews(events'[m], sel) => m <= n,
           \/ owner[sel].source = None
           \/ \E m \in New(events, events') : m < n /\ events'[m] = Cancelled(sel, owner[sel].source)
    PROVE  KeptOK(sel)'
<1>1. /\ Len(events) \in Nat /\ Len(events') \in Nat
      /\ DOMAIN events = 1 .. Len(events) /\ DOMAIN events' = 1 .. Len(events')
  BY DEF TypesOK
<1>2. /\ \A m \in New(events, events') : m \in DOMAIN events' /\ \A i \in DOMAIN events : i < m
      /\ \A m \in DOMAIN events' : m \in New(events, events') \/ m \in DOMAIN events
      /\ \A m \in DOMAIN events : m \in DOMAIN events' /\ events'[m] = events[m]
  BY <1>1 DEF New, Grown
<1>3. \A m \in DOMAIN events : m <= n
  BY <1>1, <1>2 DEF New
<1>4. LastNews(sel, n)'
  BY <1>2, <1>3, EventFields DEF LastNews, IsNews
<1>5. events'[n].content = owner'[sel].content
  BY EventFields
<1>6. CASE source[sel] = None
  <2>1. Pending(sel)'
    BY <1>2, <1>4, <1>5, <1>6 DEF Pending
  <2> QED
    BY <2>1 DEF KeptOK
<1>7. CASE \E m \in DOMAIN requests : LastSet(sel, m)
  <2>1. ~NoSet(sel)
    BY <1>7 DEF NoSet, LastSet
  <2> QED
    BY <2>1 DEF KeptOK
<1>8. CASE source[sel] # None /\ owner[sel].source = source[sel]
  <2>1. Pending(sel)'
    BY <1>2, <1>4, <1>5, <1>8 DEF Pending
  <2> QED
    BY <2>1 DEF KeptOK
<1>9. CASE In(Cancelled(sel, source[sel]), events)
  <2>1. PICK m \in DOMAIN events : events[m] = Cancelled(sel, source[sel])
    BY <1>9 DEF In
  <2>2. m \in DOMAIN events' /\ events'[m] = Cancelled(sel, source[sel]) /\ m < n
    BY <1>2, <2>1
  <2>3. Pending(sel)'
    BY <1>2, <1>4, <1>5, <2>2 DEF Pending
  <2> QED
    BY <2>3 DEF KeptOK
<1>10. ~Removed(sel[1])
  BY DEF SeatOK
<1> QED
  BY <1>6, <1>7, <1>8, <1>9, <1>10 DEF SourceOK, KnownOK

LEMMA HandleKeepsKept ==
    ASSUME TypesOK, TypesOK', NEW sel \in Selection, KeptOK(sel), SourceOK(sel), BelongsOK(sel), SeatOK(sel[1]),
           HandleRequest
    PROVE  KeptOK(sel)'
<1> SUFFICES ASSUME owner'[sel].by = "app" PROVE KeptOK(sel)'
  BY DEF KeptOK
<1>1. /\ requests # <<>> /\ requests' = Tail(requests)
      /\ Grown(events, events')
      /\ UNCHANGED <<present, daemonVars, coreVars, steps>>
      /\ Owned(sel) /\ Devised(sel[1])
  <2>1. sel[1] \in Seats
    BY DEF Selection
  <2> QED
    BY <2>1, HandleDoes
<1>2. seat' = seat /\ source' = source /\ current' = current /\ newest' = newest
  BY <1>1 DEF daemonVars, coreVars
<1>3. /\ owner'[sel] = owner[sel]
      /\ IsSet(requests[1], sel) => present[sel[1]] # "present" \/ owner[sel] = Empty
      /\ requests[1] # DestroyRequest(sel, owner[sel].source)
  BY <1>1, OwnerFields DEF Owned
<1>4. owner[sel] \in Owners /\ owner[sel].source = None /\ owner[sel] # Empty
  <2>1. owner[sel] \in Owners /\ owner[sel].by = "app"
    BY <1>3 DEF TypesOK
  <2> QED
    BY <2>1, OwnerIs, OwnerFields
<1>5. present[sel[1]] = "present"
  BY <1>4 DEF BelongsOK
<1>6. ~IsSet(requests[1], sel)
  BY <1>3, <1>4, <1>5
<1>7. /\ Len(requests) \in Nat /\ Len(requests) # 0
      /\ DOMAIN requests = 1 .. Len(requests) /\ DOMAIN requests' = 1 .. Len(requests) - 1
      /\ \A n \in 1 .. Len(requests) - 1 : requests'[n] = requests[n + 1]
  <2>1. requests \in Seq(Requests) /\ requests # <<>>
    BY <1>1 DEF TypesOK
  <2> QED
    BY <1>1, <2>1
<1>8. \A n \in DOMAIN requests : n # 1 => n - 1 \in DOMAIN requests' /\ requests'[n - 1] = requests[n]
  <2>1. \A n \in DOMAIN requests : n # 1 => n - 1 \in DOMAIN requests' /\ requests'[n - 1] = requests[(n - 1) + 1] /\ (n - 1) + 1 = n
    BY <1>7
  <2> QED
    BY <2>1
<1>9. ~NoSet(sel) => ~NoSet(sel)'
  <2> SUFFICES ASSUME NEW n \in DOMAIN requests, IsSet(requests[n], sel)
               PROVE  \E m \in DOMAIN requests' : IsSet(requests'[m], sel)
    BY DEF NoSet
  <2>1. n # 1
    BY <1>6
  <2> QED
    BY <1>8, <2>1
<1>10. CASE requests[1] = DeviceRequest(sel[1])
  <2>1. PICK n \in New(events, events') :
           /\ events'[n] = SelectionEvent(sel, owner'[sel].content)
           /\ \A m \in New(events, events') : IsNews(events'[m], sel) => m <= n
    BY <1>5, <1>10, HandleTells
  <2> QED
    BY <1>1, <1>2, <1>4, <1>5, <1>9, <2>1, AnnouncedIsKept
<1>11. CASE requests[1] # DeviceRequest(sel[1])
  <2>1. \A n \in New(events, events') : ~IsNews(events'[n], sel)
    <3> SUFFICES ASSUME NEW n \in New(events, events'), IsNews(events'[n], sel) PROVE FALSE
      OBVIOUS
    <3>1. PICK t \in Selection : \/ Announced(t) /\ events'[n] = SelectionEvent(t, owner'[t].content)
                                 \/ events'[n] = Cancelled(t, owner[t].source)
      BY HandleTells
    <3>2. Announced(sel)
      BY <3>1, EventFields DEF IsNews
    <3> QED
      BY <1>3, <1>6, <1>11, <3>2 DEF Announced
  <2>2. device'[sel[1]] = device[sel[1]]
    <3>1. device[sel[1]] \in BOOLEAN /\ device'[sel[1]] \in BOOLEAN
      BY DEF TypesOK, Selection
    <3> QED
      BY <1>1, <1>11, <3>1 DEF Devised
  <2>3. Asked(sel[1]) => Asked(sel[1])'
    <3> SUFFICES ASSUME NEW n \in DOMAIN requests, requests[n] = DeviceRequest(sel[1]) PROVE Asked(sel[1])'
      BY DEF Asked, In
    <3>1. n # 1
      BY <1>11
    <3> QED
      BY <1>8, <3>1 DEF Asked, In
  <2>4. PICK g, k : /\ Evolves(events, events', g, k)
                    /\ k + 1 .. Len(events') = New(events, events')
                    /\ \A i \in DOMAIN events : g[i] # 0
    <3>1. events \in Seq(Events) /\ events' \in Seq(Events)
      BY DEF TypesOK
    <3> QED
      BY <1>1, <3>1, GrownEvolves
  <2> QED
    BY <1>2, <1>3, <1>9, <2>1, <2>2, <2>3, <2>4, KeptMoves
<1> QED
  BY <1>10, <1>11

LEMMA GivenKeepsKept ==
    ASSUME TypesOK, TypesOK', NEW sel \in Selection, KeptOK(sel), SourceOK(sel), SeatOK(sel[1]),
           NEW t \in Selection, NEW new \in Owners, new = Empty \/ present[t[1]] = "present",
           owner' = [owner EXCEPT ![t] = new], events' = events \o Told(t, new),
           UNCHANGED <<present, device, requests, daemonVars, coreVars>>
    PROVE  KeptOK(sel)'
<1>1. UNCHANGED <<requests, device, seat, source, current, newest>>
  BY DEF daemonVars, coreVars
<1>2. /\ Grown(events, events')
      /\ \A n \in New(events, events') :
            \/ events'[n] = Cancelled(t, owner[t].source)
            \/ events'[n] = SelectionEvent(t, new.content)
      /\ device[t[1]] =>
            \E n \in New(events, events') :
               /\ events'[n] = SelectionEvent(t, new.content)
               /\ \A m \in New(events, events') : m <= n
               /\ owner[t].by = "daemon" =>
                     \E m \in New(events, events') : m < n /\ events'[m] = Cancelled(t, owner[t].source)
  <2>1. Grown(events, events') /\ Tells(t, new)
    BY GiveTells
  <2> QED
    BY <2>1 DEF Tells
<1>3. CASE sel # t
  <2>1. owner'[sel] = owner[sel]
    BY <1>3 DEF TypesOK
  <2>2. \A n \in New(events, events') : ~IsNews(events'[n], sel)
    <3>1. \A k : ~IsNews(Cancelled(t, k), sel)
      BY EventFields DEF IsNews
    <3>2. \A c : ~IsNews(SelectionEvent(t, c), sel)
      BY <1>3, EventFields DEF IsNews
    <3> QED
      BY <1>2, <3>1, <3>2
  <2> QED
    BY <1>1, <1>2, <2>1, <2>2, GrownKeepsKept
<1>4. CASE sel = t
  <2>1. owner'[sel] = new /\ owner[sel] \in Owners
    BY <1>4 DEF TypesOK
  <2>2. CASE new = Empty
    BY <2>1, <2>2, OwnerFields DEF KeptOK
  <2>3. CASE new # Empty /\ sel \notin Started
    BY <1>1, <2>3 DEF KeptOK, Started
  <2>4. CASE new # Empty /\ sel \in Started
    <3>1. present[sel[1]] = "present" /\ seat[sel[1]]
      BY <1>4, <2>4 DEF Started
    <3>2. CASE device[sel[1]]
      <4>1. PICK n \in New(events, events') :
               /\ events'[n] = SelectionEvent(sel, owner'[sel].content)
               /\ \A m \in New(events, events') : m <= n
               /\ owner[sel].by = "daemon" =>
                     \E m \in New(events, events') : m < n /\ events'[m] = Cancelled(sel, owner[sel].source)
        <5>1. PICK n \in New(events, events') :
                 /\ events'[n] = SelectionEvent(t, new.content)
                 /\ \A m \in New(events, events') : m <= n
                 /\ owner[t].by = "daemon" =>
                       \E m \in New(events, events') : m < n /\ events'[m] = Cancelled(t, owner[t].source)
          BY <1>2, <1>4, <3>2
        <5> QED
          BY <1>4, <2>1, <5>1
      <4>2. owner[sel].source # None => owner[sel].by = "daemon"
        BY <2>1, OwnerIs, OwnerFields
      <4>3. \/ owner[sel].source = None
            \/ \E m \in New(events, events') : m < n /\ events'[m] = Cancelled(sel, owner[sel].source)
        BY <4>1, <4>2
      <4>4. ~NoSet(sel) => ~NoSet(sel)'
        BY <1>1 DEF NoSet
      <4> QED
        BY <1>1, <1>2, <3>1, <4>1, <4>3, <4>4, AnnouncedIsKept
    <3>3. CASE ~device[sel[1]]
      <4>1. Asked(sel[1])
        BY <3>1, <3>3 DEF SeatOK
      <4>2. Asked(sel[1])' /\ ~device'[sel[1]]
        BY <1>1, <3>3, <4>1 DEF Asked, In
      <4> QED
        BY <4>2 DEF KeptOK
    <3> QED
      BY <3>2, <3>3
  <2> QED
    BY <2>2, <2>3, <2>4
<1> QED
  BY <1>3, <1>4

LEMMA PlugsKeepKept ==
    ASSUME TypesOK, TypesOK', NEW sel \in Selection, KeptOK(sel), SeatOK(sel[1]),
           NEW s \in Seats, Plug(s) \/ Unplug(s)
    PROVE  KeptOK(sel)'
<1>1. UNCHANGED <<requests, seat, source, current, newest>>
  BY DEF Plug, Unplug, daemonVars, coreVars
<1>2. PICK e \in {SeatEvent("name", s), SeatEvent("removed", s)} : events' = Append(events, e)
  BY DEF Plug, Unplug
<1>3. Grown(events, events') /\ \A n \in New(events, events') : events'[n] = e
  BY <1>2, SeatsDo
<1>4. ~IsNews(e, sel)
  BY <1>2, EventFields DEF IsNews
<1>5. CASE Unplug(s) /\ sel[1] = s
  <2>1. owner'[sel] = Empty
    BY <1>5 DEF Unplug
  <2> QED
    BY <2>1, OwnerFields DEF KeptOK
<1>6. CASE Plug(s) \/ sel[1] # s
  <2>1. owner'[sel] = owner[sel] /\ device'[sel[1]] = device[sel[1]]
    BY <1>6 DEF Plug, Unplug, TypesOK, Selection
  <2> QED
    BY <1>1, <1>3, <1>4, <2>1, GrownKeepsKept
<1> QED
  BY <1>5, <1>6

LEMMA KeptKept ==
    ASSUME "begin" \notin Faults, TypesOK, TypesOK', NEW sel \in Selection,
           KeptOK(sel), SourceOK(sel), BelongsOK(sel), SeatOK(sel[1]), [Next]_vars
    PROVE  KeptOK(sel)'
<1>1. None \in Contents \cup {None} /\ {} \in SUBSET Selection /\ current \in Contents \cup {None}
  BY DEF TypesOK
<1>2. CASE SeatStart
  BY <1>2, StartKeepsKept
<1>3. CASE SeatRemove
  BY <1>3, RemoveKeepsKept
<1>4. CASE SourceCancelled
  BY <1>4, CancelledKeepsKept
<1>5. CASE SelectionIgnored \/ SelectionEmptied \/ SelectionPassed \/ SelectionFails
  <2>1. PICK t \in Selection, c \in Contents \cup {None} :
              /\ events[1] = SelectionEvent(t, c)
              /\ Sets({}, None, {}, {1})
              /\ UNCHANGED <<compositorVars, seat, cleared, newest, history, steps>>
              /\ current' \in {current, None}
              /\ t \in Enabled /\ source[t] = None /\ c \in Storable => c = newest \/ current' = None
    BY <1>5, NewsDoes
  <2>2. /\ events[1].type = "selection" /\ events[1].sel = t /\ events[1].content = c
        /\ owner' = owner /\ device' = device
    BY <2>1, EventFields DEF compositorVars
  <2>3. IsNews(events[1], sel) /\ sel \in Enabled /\ source[sel] = None /\ events[1].content \in Storable =>
            current' = None \/ events[1].content \in {current', newest'}
    BY <2>1, <2>2 DEF IsNews
  <2> QED
    BY <1>1, <2>1, <2>2, <2>3, SetsKeepKept
<1>6. CASE SelectionStored
  <2>1. PICK t \in Selection, c \in Contents :
              /\ events[1] = SelectionEvent(t, c) /\ 1 \in DOMAIN events
              /\ Sets(Started \ {t}, c, {}, {1})
              /\ current' = c
              /\ UNCHANGED <<compositorVars, seat, timer, cleared, steps>>
    BY <1>6, StoredDoes
  <2>2. /\ events[1].type = "selection" /\ events[1].sel = t /\ events[1].content = c
        /\ owner' = owner /\ device' = device
    BY <2>1, EventFields DEF compositorVars
  <2>3. Started \ {t} \in SUBSET Selection /\ c \in Contents \cup {None}
    BY EnabledAssumption DEF Started
  <2>4. events[1].content \in {current', newest'}
    BY <2>1, <2>2
  <2>5. sel \in Started \ {t} \/ ~(NoNews(sel) /\ sel \in Started)
    BY <2>1, <2>2 DEF NoNews, IsNews
  <2> QED
    BY <2>1, <2>2, <2>3, <2>4, <2>5, SetsKeepKept
<1>7. ASSUME NEW t \in Selection, NullTimer(t)
      PROVE  KeptOK(sel)'
  <2>1. PICK S \in SUBSET Selection :
        /\ Sets(S, current, {}, {})
        /\ UNCHANGED <<compositorVars, seat, offer, blocked, coreVars, steps>>
    <3>1. {} \in SUBSET Selection /\ {t} \in SUBSET Selection
      OBVIOUS
    <3> QED
      BY <1>7, <3>1, TimerDoes
  <2>2. owner' = owner /\ device' = device /\ current' = current /\ newest' = newest
    BY <2>1 DEF compositorVars, coreVars
  <2>3. {} # {1}
    OBVIOUS
  <2> QED
    BY <1>1, <2>1, <2>2, <2>3, SetsKeepKept
<1>8. ASSUME NEW c \in history \cup {None}, SetClipboard(c)
      PROVE  KeptOK(sel)'
  <2>1. /\ c \in Contents \cup {None}
        /\ Sets(Started, c, {}, {})
        /\ UNCHANGED <<compositorVars, seat, offer, timer, blocked, newest, history>>
    BY <1>8, ClipboardDoes
  <2>2. owner' = owner /\ device' = device
    BY <2>1 DEF compositorVars
  <2>3. Started \in SUBSET Selection /\ {} # {1}
    BY EnabledAssumption DEF Started
  <2> QED
    BY <2>1, <2>2, <2>3, SetsKeepKept
<1>9. CASE HandleRequest
  BY <1>9, HandleKeepsKept
<1>10. ASSUME NEW t \in Selection, NEW c \in Contents, AppCopies(t, c)
       PROVE  KeptOK(sel)'
  BY <1>10, UsersDo, GivenKeepsKept
<1>11. ASSUME NEW t \in Selection, AppCloses(t)
       PROVE  KeptOK(sel)'
  BY <1>11, UsersDo, GivenKeepsKept
<1>12. ASSUME NEW t \in Seats, Plug(t) \/ Unplug(t)
       PROVE  KeptOK(sel)'
  BY <1>12, PlugsKeepKept
<1>13. CASE UNCHANGED vars
  <2>1. UNCHANGED <<events, requests, device, owner, seat, source, current, newest>>
    BY <1>13 DEF vars, compositorVars, daemonVars, coreVars
  <2> QED
    BY <2>1 DEF KeptOK, Started, NoSet, Asked, Pending, LastNews, NoNews, In
<1> QED
  BY <1>2, <1>3, <1>4, <1>5, <1>6, <1>7, <1>8, <1>9, <1>10, <1>11, <1>12, <1>13
     DEF Next, Daemon, Users

-----------------------------------------------------------------------------
(* Theorems *)

IInv ==
    /\ TypesOK
    /\ \A s \in Seats : SeatOK(s)
    /\ \A sel \in Selection : BelongsOK(sel) /\ SourceOK(sel)

LEMMA InitInv == Init => IInv
<1> SUFFICES ASSUME Init PROVE IInv
  OBVIOUS
<1>1. TypesOK
  <2>1. history \in SUBSET Contents /\ newest \in Contents \cup {None} /\ current \in Contents \cup {None}
    BY HistoriesAssumption DEF Init, Storable
  <2>2. owner \in [Selection -> Owners] /\ source \in [Selection -> Source]
    BY DEF Init, Owners, Source
  <2>3. requests \in Seq(Requests) /\ events \in Seq(Events)
    BY DEF Init
  <2> QED
    BY <2>1, <2>2, <2>3 DEF Init, TypesOK
<1>2. DOMAIN events = {} /\ DOMAIN requests = {}
  <2>1. events = <<>> /\ requests = <<>>
    BY DEF Init
  <2> QED
    BY <2>1
<1>3. ASSUME NEW s \in Seats PROVE SeatOK(s)
  <2>1. present[s] = "absent" /\ ~device[s] /\ ~seat[s]
    BY DEF Init
  <2> QED
    BY <1>2, <2>1 DEF SeatOK, OrderOK, Named, Removed, Asked, In
<1>4. ASSUME NEW sel \in Selection PROVE BelongsOK(sel) /\ SourceOK(sel)
  <2>1. owner[sel] = Empty /\ source[sel] = None /\ ~timer[sel]
    BY DEF Init
  <2> QED
    BY <1>2, <2>1, OwnerFields DEF BelongsOK, SourceOK, KnownOK, DestroyedOK, OfferedOK
<1> QED
  BY <1>1, <1>3, <1>4 DEF IInv

LEMMA NextInv == IInv /\ [Next]_vars => IInv'
<1> SUFFICES ASSUME IInv, [Next]_vars PROVE IInv'
  OBVIOUS
<1>1. TypesOK'
  BY TypesKept DEF IInv
<1>2. \A s \in Seats : SeatOK(s)'
  BY <1>1, SeatKept DEF IInv
<1>3. ASSUME NEW sel \in Selection PROVE BelongsOK(sel)' /\ SourceOK(sel)'
  <2>1. sel[1] \in Seats
    BY DEF Selection
  <2> QED
    BY <1>1, <2>1, BelongsKept, SourceKept DEF IInv
<1> QED
  BY <1>1, <1>2, <1>3 DEF IInv

LEMMA AtRestIsEmpty ==
    ASSUME AtRest
    PROVE  DOMAIN events = {} /\ DOMAIN requests = {}
<1>1. events = <<>> /\ requests = <<>>
  BY DEF AtRest
<1> QED
  BY <1>1

(* At rest the daemon's sources are the compositor's, and the compositor has   *)
(* none besides (selection_set, data_source_event_cancelled), with any number  *)
(* of seats, of copies and of crossings of requests and events.               *)
THEOREM SourceIsAlwaysOwner == Spec => []SourceIsOwner
<1>1. IInv => SourceIsOwner
  <2> SUFFICES ASSUME IInv, AtRest, NEW sel \in Selection PROVE owner[sel].source = source[sel]
    BY DEF SourceIsOwner
  <2>1. DOMAIN events = {} /\ DOMAIN requests = {}
    BY AtRestIsEmpty
  <2>2. SourceOK(sel)
    BY DEF IInv
  <2>3. owner[sel].source # None => owner[sel].source = source[sel]
    BY <2>1, <2>2 DEF SourceOK, DestroyedOK, In
  <2>4. source[sel] # None => owner[sel].source = source[sel] \/ Removed(sel[1])
    BY <2>1, <2>2 DEF SourceOK, KnownOK, In
  <2>5. ~Removed(sel[1])
    BY <2>1 DEF Removed, In
  <2> QED
    BY <2>3, <2>4, <2>5
<1> QED
  BY <1>1, InitInv, NextInv, PTL DEF Spec

(* At rest what the daemon holds, in any selection, is the current entry, if   *)
(* there is one (wayland_set, seat_start, wsignal_selection).                 *)
THEOREM HeldIsAlwaysCurrent == Spec => []HeldIsCurrent
<1>1. IInv => HeldIsCurrent
  <2> SUFFICES ASSUME IInv, AtRest, NEW sel \in Selection, owner[sel].by = "daemon"
               PROVE  current \in {None, owner[sel].content}
    BY DEF HeldIsCurrent
  <2>1. DOMAIN events = {} /\ DOMAIN requests = {}
    BY AtRestIsEmpty
  <2>2. SourceOK(sel) /\ owner[sel] \in Owners
    BY DEF IInv, TypesOK
  <2>3. owner[sel].source # None
    BY <2>2, OwnerIs, OwnerFields, IdsAreSome
  <2>4. owner[sel].source = source[sel]
    BY <2>1, <2>2, <2>3 DEF SourceOK, DestroyedOK, In
  <2> QED
    BY <2>2, <2>3, <2>4 DEF SourceOK, OfferedOK
<1> QED
  BY <1>1, InitInv, NextInv, PTL DEF Spec

(* At rest what an application holds in a selection that is listened to is the *)
(* current entry or the newest, unless there is no current entry: in no order  *)
(* of copies, echoes, set requests and cancelled sources does a copy go by     *)
(* unnoticed (selection_event, wsignal_selection).  A transaction that does    *)
(* not begin drops the copy and leaves the current entry alone: the property  *)
(* is about those that do begin.                                              *)
THEOREM AppHeldIsAlwaysKept ==
    ASSUME "begin" \notin Faults
    PROVE  Spec => []AppHeldIsKept
<1> DEFINE KInv == IInv /\ \A sel \in Selection : KeptOK(sel)
<1>1. Init => KInv
  <2> SUFFICES ASSUME Init PROVE KInv
    OBVIOUS
  <2>1. ASSUME NEW sel \in Selection PROVE KeptOK(sel)
    <3>1. owner[sel] = Empty
      BY DEF Init
    <3> QED
      BY <3>1, OwnerFields DEF KeptOK
  <2> QED
    BY <2>1, InitInv
<1>2. KInv /\ [Next]_vars => KInv'
  <2> SUFFICES ASSUME KInv, [Next]_vars PROVE KInv'
    OBVIOUS
  <2>1. IInv'
    BY NextInv
  <2>2. ASSUME NEW sel \in Selection PROVE KeptOK(sel)'
    <3>1. sel[1] \in Seats
      BY DEF Selection
    <3> QED
      BY <2>1, <3>1, KeptKept DEF IInv
  <2> QED
    BY <2>1, <2>2
<1>3. KInv => AppHeldIsKept
  <2> SUFFICES ASSUME KInv, AtRest, NEW sel \in Started, owner[sel].by = "app", owner[sel].content \in Storable
               PROVE  current = None \/ owner[sel].content \in {current, newest}
    BY DEF AppHeldIsKept
  <2>1. DOMAIN events = {} /\ DOMAIN requests = {}
    BY AtRestIsEmpty
  <2>2. sel \in Selection
    BY EnabledAssumption DEF Started
  <2>3. KeptOK(sel)
    BY <2>2
  <2> QED
    BY <2>1, <2>3 DEF KeptOK, NoSet, Asked, In, Pending
<1> HIDE DEF KInv
<1> QED
  BY <1>1, <1>2, <1>3, PTL DEF Spec

=============================================================================
