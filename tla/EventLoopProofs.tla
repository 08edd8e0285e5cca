-------------------------- MODULE EventLoopProofs --------------------------
(***************************************************************************)
(* The loop never keeps what it has freed, for any number of sources and   *)
(* any size of a batch.                                                    *)
(***************************************************************************)
EXTENDS EventLoop, RanksProofs

-----------------------------------------------------------------------------
(* The inductive invariant                                                   *)

LoopState == [table   : [Fds -> Ids \cup {None}],
              src     : [Ids -> [kind : Kinds, fd : Fds]],
              sources : Seq(Ids),
              deleted : Seq(Ids),
              alloc   : SUBSET Ids,
              epoll   : SUBSET Ids,
              ready   : Seq(Ids \cup {EventFd}),
              stop    : BOOLEAN]

(* A registered source is allocated, and its file still has the fd number     *)
(* that it will be deleted by.                                               *)
Registered(l) == \A s \in l.epoll : s \in l.alloc /\ l.table[l.src[s].fd] = s

(* The kernel reports only what is registered. *)
Reported(l) == ToSet(l.ready) \subseteq l.epoll \cup {EventFd}

(* The lists of sources: nothing that is freed, nothing twice. *)
Listed(l) ==
    /\ ToSet(l.sources) \subseteq l.alloc /\ ToSet(l.deleted) \subseteq l.alloc
    /\ IsInjective(l.sources) /\ IsInjective(l.deleted)
    /\ ToSet(l.sources) \cap ToSet(l.deleted) = {}

LoopInv(l) == /\ l \in LoopState
              /\ Registered(l)
              /\ Reported(l)
              /\ ~l.stop => Listed(l)

IInv == /\ LoopInv(loop)
        /\ batch \in Seq(Ids)
        /\ ~loop.stop => ToSet(batch) \subseteq loop.alloc
        /\ pc = "display" => batch # <<>>
        /\ timer \in Fds \cup {None}

(* What a function of the loop may do from state l: the invariant holds, a    *)
(* stop is not taken back, and unless the loop is to stop nothing is freed.   *)
Keeps(l, m) == /\ LoopInv(m)
               /\ l.stop => m.stop
               /\ ~m.stop => l.alloc \subseteq m.alloc

-----------------------------------------------------------------------------
(* The functions of event.c                                                  *)

LEMMA WithoutOfList ==
    ASSUME NEW T, NEW seq \in Seq(T), NEW s
    PROVE  /\ Without(seq, s) \in Seq(T)
           /\ ToSet(Without(seq, s)) = ToSet(seq) \ {s}
           /\ IsInjective(seq) => IsInjective(Without(seq, s))
<1>1. ToSet(seq) \cap (ToSet(seq) \ {s}) = ToSet(seq) \ {s}
  OBVIOUS
<1> QED
  BY <1>1, KeepOfList DEF Without

LEMMA EpollDelKeeps ==
    ASSUME NEW l, LoopInv(l), NEW n \in Fds
    PROVE  LET m == EpollDel(l, n) IN
           /\ LoopInv(m) /\ l.table[n] \notin m.epoll
           /\ m.epoll = l.epoll \ {l.table[n]}
           /\ m.stop = l.stop /\ m.alloc = l.alloc /\ m.table = l.table /\ m.src = l.src
           /\ m.sources = l.sources /\ m.deleted = l.deleted
<1> DEFINE m == EpollDel(l, n)
           w == Without(l.ready, l.table[n])
<1>1. l \in LoopState /\ Registered(l) /\ Reported(l) /\ (~l.stop => Listed(l))
  BY DEF LoopInv
<1>2. w \in Seq(Ids \cup {EventFd}) /\ ToSet(w) = ToSet(l.ready) \ {l.table[n]}
  BY <1>1, WithoutOfList DEF LoopState
<1>3. m = [l EXCEPT !.epoll = l.epoll \ {l.table[n]}, !.ready = w]
  BY <1>1 DEF EpollDel, LoopState
<1> HIDE DEF m, w
<1>4. /\ m \in LoopState
      /\ m.epoll = l.epoll \ {l.table[n]} /\ m.ready = w
      /\ m.stop = l.stop /\ m.alloc = l.alloc /\ m.table = l.table /\ m.src = l.src
      /\ m.sources = l.sources /\ m.deleted = l.deleted
  BY <1>1, <1>2, <1>3 DEF LoopState
<1>5. Registered(m)
  BY <1>1, <1>4 DEF Registered
<1>6. Reported(m)
  BY <1>1, <1>2, <1>4 DEF Reported
<1>7. ~m.stop => Listed(m)
  BY <1>1, <1>4 DEF Listed
<1> QED
  BY <1>4, <1>5, <1>6, <1>7 DEF LoopInv, m

LEMMA CloseKeeps ==
    ASSUME NEW l, LoopInv(l), NEW n \in Fds \cup {None}
    PROVE  Keeps(l, Close(l, n))
<1>1. CASE n = None
  BY <1>1 DEF Close, Keeps
<1>2. CASE n # None
  <2> DEFINE m == EpollDel(l, n)
             k == Close(l, n)
  <2>0. n \in Fds
    BY <1>2
  <2>1. /\ LoopInv(m) /\ m.epoll = l.epoll \ {l.table[n]} /\ l.table[n] \notin m.epoll
        /\ m.stop = l.stop /\ m.alloc = l.alloc /\ m.table = l.table
    BY <2>0, EpollDelKeeps
  <2>2. m \in LoopState /\ Registered(m) /\ Reported(m) /\ (~m.stop => Listed(m))
    BY <2>1 DEF LoopInv
  <2>3. k = [m EXCEPT !.table = [m.table EXCEPT ![n] = None]]
    BY <1>2, <2>2 DEF Close, LoopState
  <2> HIDE DEF m, k
  <2>4. /\ k \in LoopState
        /\ k.table = [m.table EXCEPT ![n] = None]
        /\ k.epoll = m.epoll /\ k.ready = m.ready /\ k.stop = m.stop /\ k.alloc = m.alloc
        /\ k.src = m.src /\ k.sources = m.sources /\ k.deleted = m.deleted
    BY <2>0, <2>2, <2>3 DEF LoopState
  <2>5. Registered(k)
    <3> SUFFICES ASSUME NEW s \in k.epoll
                 PROVE  s \in k.alloc /\ k.table[k.src[s].fd] = s
      BY DEF Registered
    <3>1. s \in m.alloc /\ m.table[m.src[s].fd] = s /\ s # m.table[n]
      BY <2>1, <2>2, <2>4 DEF Registered
    <3>2. m.src[s].fd \in Fds /\ m.src[s].fd # n /\ m.table \in [Fds -> Ids \cup {None}]
      BY <2>2, <2>4, <3>1 DEF LoopState
    <3> QED
      BY <2>4, <3>1, <3>2
  <2>6. Reported(k) /\ (~k.stop => Listed(k))
    BY <2>2, <2>4 DEF Reported, Listed
  <2> QED
    BY <2>1, <2>4, <2>5, <2>6 DEF LoopInv, Keeps, k
<1> QED
  BY <1>1, <1>2

(* The number that the kernel gives to a file is free. *)
LEMMA LowestFdIsFree ==
    ASSUME NEW l, l \in LoopState, None \in ToSet(l.table)
    PROVE  LowestFd(l) \in Fds /\ l.table[LowestFd(l)] = None
<1> DEFINE Free == {n \in Fds : l.table[n] = None}
<1>1. Free # {} /\ Free \in SUBSET Nat /\ \A n \in Fds : 1 .. n - 1 \subseteq Fds
  <2>1. \E c \in Int : Fds = 1 .. c
    BY LoopAssumption, FS_CardinalityType
  <2>2. DOMAIN l.table = Fds
    BY DEF LoopState
  <2> QED
    BY <2>1, <2>2 DEF ToSet
<1>2. PICK n \in Free : \A m \in Free : n <= m
  BY <1>1, LeastNatural
<1>3. \A m \in 1 .. n - 1 : l.table[m] # None
  BY <1>1, <1>2
<1> QED
  BY <1>2, <1>3 DEF LowestFd

LEMMA EventloopAddKeeps ==
    ASSUME NEW l, LoopInv(l), None \in ToSet(l.table),
           NEW s \in Ids, s \notin l.alloc, NEW kind \in Kinds
    PROVE  Keeps(l, EventloopAdd(l, s, kind)) /\ EventloopAdd(l, s, kind).stop = l.stop
<1> DEFINE n == LowestFd(l)
           m == EventloopAdd(l, s, kind)
           q == <<s>> \o l.sources
<1>1. l \in LoopState /\ Registered(l) /\ Reported(l) /\ (~l.stop => Listed(l))
  BY DEF LoopInv
<1>2. n \in Fds /\ l.table[n] = None
  BY <1>1, LowestFdIsFree
<1>3. /\ q \in Seq(Ids) /\ ToSet(q) = {s} \cup ToSet(l.sources)
      /\ IsInjective(l.sources) /\ s \notin ToSet(l.sources) => IsInjective(q)
  <2>1. <<s>> \in Seq(Ids) /\ ToSet(<<s>>) = {s} /\ IsInjective(<<s>>)
    BY EntriesOfSingleton
  <2> DEFINE w == <<s>>
  <2>2. l.sources \in Seq(Ids)
    BY <1>1 DEF LoopState
  <2>0. w \in Seq(Ids) /\ ToSet(w) = {s} /\ IsInjective(w)
    BY <2>1
  <2> HIDE DEF w
  <2>3. /\ w \o l.sources \in Seq(Ids) /\ ToSet(w \o l.sources) = {s} \cup ToSet(l.sources)
        /\ IsInjective(l.sources) /\ s \notin ToSet(l.sources) => IsInjective(w \o l.sources)
    BY <2>0, <2>2, EntriesOfConcat
  <2> QED
    BY <2>3 DEF w
<1> HIDE DEF n, q
<1>4. /\ m \in LoopState
      /\ m.table = [l.table EXCEPT ![n] = s] /\ m.src = [l.src EXCEPT ![s] = [kind |-> kind, fd |-> n]]
      /\ m.epoll = l.epoll \cup {s} /\ m.alloc = l.alloc \cup {s} /\ m.sources = q
      /\ m.deleted = l.deleted /\ m.ready = l.ready /\ m.stop = l.stop
  BY <1>1, <1>2, <1>3 DEF EventloopAdd, LoopState, n, q
<1> HIDE DEF m
<1>5. Registered(m)
  <2> SUFFICES ASSUME NEW t \in m.epoll
               PROVE  t \in m.alloc /\ m.table[m.src[t].fd] = t
    BY DEF Registered
  <2>0. l.table \in [Fds -> Ids \cup {None}] /\ l.src \in [Ids -> [kind : Kinds, fd : Fds]]
    BY <1>1 DEF LoopState
  <2>1. CASE t = s
    BY <1>2, <1>4, <2>0, <2>1
  <2>2. CASE t # s
    <3>1. t \in l.epoll /\ t \in l.alloc /\ l.table[l.src[t].fd] = t /\ t \in Ids
      BY <1>1, <1>4, <2>2 DEF Registered, LoopState
    <3>2. l.src[t].fd \in Fds /\ l.src[t].fd # n
      BY <1>2, <2>0, <3>1, LoopAssumption
    <3> QED
      BY <1>4, <2>0, <2>2, <3>1, <3>2
  <2> QED
    BY <2>1, <2>2
<1>6. Reported(m)
  BY <1>1, <1>4 DEF Reported
<1>7. ~m.stop => Listed(m)
  BY <1>1, <1>3, <1>4 DEF Listed
<1> QED
  BY <1>4, <1>5, <1>6, <1>7 DEF LoopInv, Keeps, m


LEMMA DiscardKeeps ==
    ASSUME NEW l, LoopInv(l), NEW s \in Ids, ~l.stop => s \in l.alloc
    PROVE  Keeps(l, Discard(l, s)) /\ Discard(l, s).alloc = l.alloc
<1> DEFINE m == Discard(l, s)
           u == Without(l.sources, s)
           w == Without(l.deleted, s)
           v == <<s>>
           d == v \o w
<1>1. l \in LoopState /\ Registered(l) /\ Reported(l) /\ (~l.stop => Listed(l))
  BY DEF LoopInv
<1>2. /\ u \in Seq(Ids) /\ ToSet(u) = ToSet(l.sources) \ {s}
      /\ IsInjective(l.sources) => IsInjective(u)
      /\ w \in Seq(Ids) /\ ToSet(w) = ToSet(l.deleted) \ {s}
      /\ IsInjective(l.deleted) => IsInjective(w)
  BY <1>1, WithoutOfList DEF LoopState
<1>3. v \in Seq(Ids) /\ ToSet(v) = {s} /\ IsInjective(v)
  BY EntriesOfSingleton
<1> HIDE DEF u, w, v
<1>4. /\ d \in Seq(Ids) /\ ToSet(d) = {s} \cup ToSet(w)
      /\ IsInjective(w) /\ s \notin ToSet(w) => IsInjective(d)
  BY <1>2, <1>3, EntriesOfConcat
<1> HIDE DEF d
<1>5. /\ m \in LoopState /\ m.sources = u /\ m.deleted = d
      /\ m.table = l.table /\ m.src = l.src /\ m.epoll = l.epoll /\ m.alloc = l.alloc
      /\ m.ready = l.ready /\ m.stop = l.stop
  BY <1>1, <1>2, <1>4 DEF Discard, LoopState, u, w, v, d
<1> HIDE DEF m
<1>6. Registered(m) /\ Reported(m)
  BY <1>1, <1>5 DEF Registered, Reported
<1>7. ~m.stop => Listed(m)
  BY <1>1, <1>2, <1>4, <1>5 DEF Listed
<1> QED
  BY <1>5, <1>6, <1>7 DEF LoopInv, Keeps, m

(* A source that is deleted at once is freed, taken out of the lists and, as  *)
(* its file still has its fd number if it is registered, out of epoll.       *)
LEMMA EventsourceDelKeeps ==
    ASSUME NEW l, LoopInv(l), NEW s \in Ids
    PROVE  LoopInv(EventsourceDel(l, s)) /\ EventsourceDel(l, s).stop = l.stop
<1> DEFINE e == EpollDel(l, l.src[s].fd)
           m == EventsourceDel(l, s)
           u == Without(l.sources, s)
           w == Without(l.deleted, s)
<1>1. l \in LoopState /\ Registered(l) /\ Reported(l) /\ (~l.stop => Listed(l))
  BY DEF LoopInv
<1>2. l.src[s].fd \in Fds
  BY <1>1 DEF LoopState
<1>3. /\ LoopInv(e)
      /\ e.epoll = l.epoll \ {l.table[l.src[s].fd]}
      /\ e.stop = l.stop /\ e.alloc = l.alloc /\ e.table = l.table /\ e.src = l.src
      /\ e.sources = l.sources /\ e.deleted = l.deleted
  BY <1>2, EpollDelKeeps
<1>4. e \in LoopState /\ Registered(e) /\ Reported(e) /\ (~e.stop => Listed(e))
  BY <1>3 DEF LoopInv
<1>5. s \notin e.epoll
  BY <1>1, <1>3 DEF Registered
<1>6. /\ u \in Seq(Ids) /\ ToSet(u) = ToSet(l.sources) \ {s}
      /\ IsInjective(l.sources) => IsInjective(u)
      /\ w \in Seq(Ids) /\ ToSet(w) = ToSet(l.deleted) \ {s}
      /\ IsInjective(l.deleted) => IsInjective(w)
  BY <1>1, WithoutOfList DEF LoopState
<1>7. m = [e EXCEPT !.sources = u, !.deleted = w, !.alloc = e.alloc \ {s}]
  BY <1>3, <1>4 DEF EventsourceDel, LoopState
<1> HIDE DEF e, m, u, w
<1>8. /\ m \in LoopState /\ m.sources = u /\ m.deleted = w /\ m.alloc = e.alloc \ {s}
      /\ m.table = e.table /\ m.src = e.src /\ m.epoll = e.epoll
      /\ m.ready = e.ready /\ m.stop = e.stop
  BY <1>4, <1>6, <1>7 DEF LoopState
<1>9. Registered(m) /\ Reported(m)
  BY <1>4, <1>5, <1>8 DEF Registered, Reported
<1>10. ~m.stop => Listed(m)
  BY <1>3, <1>4, <1>6, <1>8 DEF Listed
<1> QED
  BY <1>3, <1>8, <1>9, <1>10 DEF LoopInv, m

LEMMA EventloopFindFinds ==
    ASSUME NEW l, NEW list \in Seq(Ids), NEW n
    PROVE  EventloopFind(l, list, n) \in ToSet(list) \cup {None}
<1> DEFINE found == {i \in DOMAIN list : l.src[list[i]].fd = n}
<1>1. CASE found = {}
  BY <1>1 DEF EventloopFind
<1>2. CASE found # {}
  <2>1. found \in SUBSET Nat /\ found \subseteq DOMAIN list
    OBVIOUS
  <2>2. \E i \in found : \A j \in found : i <= j
    <3> HIDE DEF found
    <3> QED
      BY <1>2, <2>1, LeastNatural
  <2>3. Min(found) \in found
    <3> HIDE DEF found
    <3> QED
      BY <2>2 DEF Min
  <2>4. EventloopFind(l, list, n) = list[Min(found)]
    BY <1>2 DEF EventloopFind
  <2> HIDE DEF found
  <2> QED
    BY <2>1, <2>3, <2>4 DEF ToSet
<1> QED
  BY <1>1, <1>2

LEMMA EventloopDelKeeps ==
    ASSUME NEW l, LoopInv(l), NEW n
    PROVE  Keeps(l, EventloopDel(l, n))
<1>1. l \in LoopState /\ (~l.stop => Listed(l)) /\ l.sources \in Seq(Ids) /\ l.deleted \in Seq(Ids)
  BY DEF LoopInv, LoopState
<1> DEFINE s == EventloopFind(l, l.sources, n)
           f == EventloopFind(l, l.deleted, n)
           d == IF s = None THEN f ELSE s
<1>2. s \in ToSet(l.sources) \cup {None} /\ f \in ToSet(l.deleted) \cup {None}
  BY <1>1, EventloopFindFinds
<1>3. ToSet(l.sources) \subseteq Ids /\ ToSet(l.deleted) \subseteq Ids
  BY <1>1 DEF ToSet
<1>4. EventloopDel(l, n) = IF l.stop
                           THEN IF d = None THEN l ELSE EventsourceDel(l, d)
                           ELSE IF s = None THEN l ELSE Discard(l, s)
  BY DEF EventloopDel
<1> HIDE DEF s, f
<1>5. CASE l.stop /\ d # None
  BY <1>2, <1>3, <1>4, <1>5, EventsourceDelKeeps DEF Keeps
<1>6. CASE ~l.stop /\ s # None
  <2>1. s \in Ids /\ s \in l.alloc
    BY <1>1, <1>2, <1>3, <1>6 DEF Listed
  <2> QED
    BY <1>4, <1>6, <2>1, DiscardKeeps
<1>7. CASE (l.stop /\ d = None) \/ (~l.stop /\ s = None)
  BY <1>4, <1>7 DEF Keeps
<1> QED
  BY <1>5, <1>6, <1>7

LEMMA EventloopStopKeeps ==
    ASSUME NEW l, LoopInv(l)
    PROVE  Keeps(l, EventloopStop(l)) /\ EventloopStop(l).stop
<1> DEFINE m == EventloopStop(l)
           r == IF EventFd \in ToSet(l.ready) THEN l.ready ELSE Append(l.ready, EventFd)
<1>1. l \in LoopState /\ Registered(l) /\ Reported(l)
  BY DEF LoopInv
<1>2. r \in Seq(Ids \cup {EventFd}) /\ ToSet(r) \subseteq ToSet(l.ready) \cup {EventFd}
  BY <1>1, EntriesOfAppend DEF LoopState
<1> HIDE DEF r
<1>3. /\ m \in LoopState /\ m.ready = r /\ m.stop
      /\ m.table = l.table /\ m.src = l.src /\ m.epoll = l.epoll /\ m.alloc = l.alloc
  BY <1>1, <1>2 DEF EventloopStop, LoopState, r
<1> HIDE DEF m
<1>4. Registered(m) /\ Reported(m)
  BY <1>1, <1>2, <1>3 DEF Registered, Reported
<1> QED
  BY <1>3, <1>4 DEF LoopInv, Keeps, m

(* One function after the other. *)
LEMMA KeepsTransitive ==
    ASSUME NEW l, NEW m, NEW k, Keeps(l, m), Keeps(m, k)
    PROVE  Keeps(l, k)
BY DEF Keeps

-----------------------------------------------------------------------------
(* The actions                                                               *)

LEMMA InitEstablishes ==
    ASSUME Init
    PROVE  IInv
<1>1. {1, 2, 3} \subseteq Ids /\ {1, 2, 3} \subseteq Fds /\ None \notin Ids
  BY LoopAssumption, FS_CardinalityType
<1> DEFINE q == <<3, 2, 1>>
<1>2. q \in Seq(Ids) /\ ToSet(q) = {1, 2, 3} /\ IsInjective(q)
  <2>1. q \in Seq(Ids) /\ DOMAIN q = {1, 2, 3} /\ q[1] = 3 /\ q[2] = 2 /\ q[3] = 1
    BY <1>1
  <2> QED
    BY <2>1 DEF ToSet, IsInjective
<1>3. loop.sources = q /\ loop.deleted = <<>> /\ loop.ready = <<>>
      /\ loop.alloc = {1, 2, 3} /\ loop.epoll = {1, 2, 3}
      /\ loop.table = [n \in Fds |-> IF n <= 3 THEN n ELSE None]
      /\ \A s \in {1, 2, 3} : loop.src[s].fd = s
  BY <1>1 DEF Init
<1>4. loop \in LoopState
  <2>1. loop.table \in [Fds -> Ids \cup {None}]
    <3>1. \A n \in Fds : n <= 3 => n \in {1, 2, 3}
      BY LoopAssumption, FS_CardinalityType
    <3> QED
      BY <1>1, <1>3, <3>1
  <2>2. loop.src \in [Ids -> [kind : Kinds, fd : Fds]]
    BY <1>1 DEF Init, Kinds
  <2>3. <<>> \in Seq(Ids) /\ <<>> \in Seq(Ids \cup {EventFd})
    OBVIOUS
  <2> HIDE DEF q
  <2> QED
    BY <1>1, <1>2, <1>3, <2>1, <2>2, <2>3 DEF Init, LoopState
<1>5. Registered(loop)
  <2> SUFFICES ASSUME NEW s \in {1, 2, 3}
               PROVE  loop.table[loop.src[s].fd] = s
    BY <1>3 DEF Registered
  <2>1. s \in Ids /\ s \in Fds /\ s <= 3
    BY <1>1
  <2> QED
    BY <1>3, <2>1
<1>6. ToSet(<<>>) = {} /\ IsInjective(<<>>)
  BY DEF ToSet, IsInjective
<1>7. Reported(loop) /\ Listed(loop)
  <2> HIDE DEF q
  <2> QED
    BY <1>2, <1>3, <1>6 DEF Reported, Listed
<1> QED
  BY <1>4, <1>5, <1>6, <1>7 DEF Init, IInv, LoopInv

(* What a step must show of the rest of the state. *)
LEMMA StepOfLoop ==
    ASSUME IInv, Keeps(loop, loop'), UNCHANGED batch,
           pc' = "display" => pc = "display", timer' \in Fds \cup {None}
    PROVE  IInv'
<1>1. LoopInv(loop)'
  BY DEF Keeps, LoopInv, LoopState, Registered, Reported, Listed
<1>2. (~loop.stop => ToSet(batch) \subseteq loop.alloc)'
  BY DEF IInv, Keeps
<1> QED
  BY <1>1, <1>2 DEF IInv

(* A callback leaves the loop in l and its source may go. *)
LEMMA ReturnsKeeps ==
    ASSUME IInv, batch # <<>>, NEW l, Keeps(loop, l), NEW remove \in BOOLEAN,
           Returns(l, remove), timer' \in Fds \cup {None}
    PROVE  IInv'
<1>1. /\ Head(batch) \in ToSet(batch) /\ Head(batch) \in Ids
      /\ Tail(batch) \in Seq(Ids) /\ ToSet(Tail(batch)) \subseteq ToSet(batch)
  BY EntriesOfTail DEF IInv
<1>2. ~l.stop => ~loop.stop /\ ToSet(batch) \subseteq l.alloc
  BY DEF IInv, Keeps, LoopInv, LoopState
<1>3. Keeps(loop, loop')
  <2>1. CASE remove
    <3>1. Keeps(l, Discard(l, Head(batch)))
      BY <1>1, <1>2, DiscardKeeps DEF Keeps
    <3> QED
      BY <2>1, <3>1, KeepsTransitive DEF Returns
  <2>2. CASE ~remove
    BY <2>2 DEF Returns
  <2> QED
    BY <2>1, <2>2
<1>4. LoopInv(loop)'
  BY <1>3 DEF Keeps, LoopInv, LoopState, Registered, Reported, Listed
<1>5. (~loop.stop => ToSet(batch) \subseteq loop.alloc)'
  BY <1>1, <1>2, <1>3 DEF Returns, Keeps, IInv
<1> QED
  BY <1>1, <1>4, <1>5 DEF IInv, Returns

LEMMA BecomesReadyKeeps ==
    ASSUME IInv, NEW s \in Ids, BecomesReady(s)
    PROVE  IInv'
<1> DEFINE r == Append(loop.ready, s)
<1>1. loop \in LoopState /\ Registered(loop) /\ Reported(loop) /\ (~loop.stop => Listed(loop))
  BY DEF IInv, LoopInv
<1>2. r \in Seq(Ids \cup {EventFd}) /\ ToSet(r) = ToSet(loop.ready) \cup {s}
  BY <1>1, EntriesOfAppend DEF LoopState
<1> HIDE DEF r
<1>3. /\ loop' \in LoopState /\ loop'.ready = r
      /\ loop'.table = loop.table /\ loop'.src = loop.src /\ loop'.sources = loop.sources
      /\ loop'.deleted = loop.deleted /\ loop'.alloc = loop.alloc
      /\ loop'.epoll = loop.epoll /\ loop'.stop = loop.stop
  BY <1>1, <1>2 DEF BecomesReady, LoopState, r
<1>4. Registered(loop') /\ Reported(loop') /\ (~loop'.stop => Listed(loop'))
  BY <1>1, <1>2, <1>3 DEF Registered, Reported, Listed, BecomesReady
<1>5. Keeps(loop, loop')
  BY <1>3, <1>4 DEF Keeps, LoopInv
<1> QED
  BY <1>5, StepOfLoop DEF BecomesReady, IInv

LEMMA PrepareKeeps ==
    ASSUME IInv, Prepare
    PROVE  IInv'
<1>1. Keeps(loop, loop)
  BY DEF IInv, Keeps
<1>2. Keeps(loop, EventloopStop(loop))
  BY EventloopStopKeeps DEF IInv
<1>3. Keeps(loop, loop')
  BY <1>1, <1>2 DEF Prepare
<1> QED
  BY <1>3, StepOfLoop DEF Prepare, IInv

(* A batch is taken from what is registered, hence allocated. *)
LEMMA EpollWaitKeeps ==
    ASSUME IInv, EpollWait
    PROVE  IInv'
<1>1. loop \in LoopState /\ Registered(loop) /\ Reported(loop) /\ (~loop.stop => Listed(loop))
  BY DEF IInv, LoopInv
<1> DEFINE n    == Min({Len(loop.ready), MaxEvents})
           part == SubSeq(loop.ready, 1, n)
           evs  == Keep(part, Ids)
           rest == SubSeq(loop.ready, n + 1, Len(loop.ready))
<1>2. loop.ready \in Seq(Ids \cup {EventFd}) /\ Len(loop.ready) \in Nat
  BY <1>1 DEF LoopState
<1>3. n \in Nat /\ n <= Len(loop.ready)
  BY <1>2, LoopAssumption DEF Min
<1> HIDE DEF n
<1>4. part \in Seq(Ids \cup {EventFd}) /\ ToSet(part) \subseteq ToSet(loop.ready)
  BY <1>2, <1>3, EntriesOfSubSeq
<1>5. rest \in Seq(Ids \cup {EventFd}) /\ ToSet(rest) \subseteq ToSet(loop.ready)
  <2>1. n + 1 \in Nat \ {0} /\ Len(loop.ready) <= Len(loop.ready)
    BY <1>2, <1>3
  <2> QED
    BY <1>2, <2>1, EntriesOfSubSeq
<1>6. batch' = Keep(evs, High) \o Keep(evs, Ids \ High)
      /\ loop' = [loop EXCEPT !.ready = rest]
  BY DEF EpollWait, n
<1> HIDE DEF part, rest
<1>7. evs \in Seq(Ids \cup {EventFd}) /\ ToSet(evs) = ToSet(part) \cap Ids
  BY <1>4, KeepOfList
<1> HIDE DEF evs
<1>8. evs \in Seq(Ids)
  <2>1. \A i \in 1 .. Len(evs) : evs[i] \in Ids
    BY <1>7 DEF ToSet
  <2> QED
    BY <1>7, <2>1
<1>9. \A P : Keep(evs, P) \in Seq(Ids) /\ ToSet(Keep(evs, P)) \subseteq ToSet(evs)
  BY <1>8, KeepOfList
<1>10. batch' \in Seq(Ids) /\ ToSet(batch') \subseteq ToSet(evs)
  BY <1>6, <1>9, EntriesOfConcat
<1>11. ToSet(batch') \subseteq loop.alloc
  BY <1>1, <1>4, <1>7, <1>10, LoopAssumption DEF Reported, Registered
<1>12. /\ loop' \in LoopState /\ loop'.ready = rest
       /\ loop'.table = loop.table /\ loop'.src = loop.src /\ loop'.sources = loop.sources
       /\ loop'.deleted = loop.deleted /\ loop'.alloc = loop.alloc
       /\ loop'.epoll = loop.epoll /\ loop'.stop = loop.stop
  BY <1>1, <1>5, <1>6 DEF LoopState
<1>13. Registered(loop') /\ Reported(loop') /\ (~loop'.stop => Listed(loop'))
  BY <1>1, <1>5, <1>12 DEF Registered, Reported, Listed
<1>14. LoopInv(loop)'
  BY <1>12, <1>13 DEF LoopInv, LoopState, Registered, Reported, Listed
<1> QED
  BY <1>10, <1>11, <1>12, <1>14 DEF IInv, EpollWait

(* The source that is freed is in the list of deleted ones, the batch is done. *)
LEMMA ReapKeeps ==
    ASSUME IInv, Reap
    PROVE  IInv'
<1>1. Head(loop.deleted) \in Ids
  BY EntriesOfTail DEF IInv, LoopInv, LoopState, Reap
<1>2. LoopInv(loop')
  BY <1>1, EventsourceDelKeeps DEF IInv, Reap
<1>3. LoopInv(loop)'
  BY <1>2 DEF LoopInv, LoopState, Registered, Reported, Listed
<1>4. ToSet(batch) = {}
  BY DEF Reap, ToSet
<1> QED
  BY <1>3, <1>4 DEF IInv, Reap

LEMMA RepeatKeeps ==
    ASSUME IInv, Repeat
    PROVE  IInv'
<1>1. Keeps(loop, loop')
  BY DEF IInv, Keeps, Repeat
<1>2. pc' = "display" => pc = "display"
  BY DEF Repeat
<1> QED
  BY <1>1, <1>2, StepOfLoop DEF Repeat, IInv

(* The functions that the callbacks call, from the state they find. *)
LEMMA CallsKeep ==
    ASSUME IInv
    PROVE  /\ Keeps(loop, loop)
           /\ \A n \in Fds \cup {None} : Keeps(loop, Close(loop, n))
           /\ \A n \in Fds \cup {None} : Keeps(loop, Close(EventloopDel(loop, n), n))
           /\ Keeps(loop, EventloopStop(loop))
           /\ CanOpen => \A kind \in Kinds : Keeps(loop, EventloopAdd(loop, NewId, kind))
           /\ CanOpen => LowestFd(loop) \in Fds
<1>1. LoopInv(loop) /\ loop \in LoopState
  BY DEF IInv, LoopInv
<1>2. Keeps(loop, loop) /\ Keeps(loop, EventloopStop(loop))
  BY <1>1, EventloopStopKeeps DEF Keeps
<1>3. ASSUME NEW n \in Fds \cup {None}
      PROVE  Keeps(loop, Close(loop, n)) /\ Keeps(loop, Close(EventloopDel(loop, n), n))
  <2>1. Keeps(loop, EventloopDel(loop, n))
    BY <1>1, EventloopDelKeeps
  <2>2. Keeps(EventloopDel(loop, n), Close(EventloopDel(loop, n), n))
    BY <2>1, CloseKeeps DEF Keeps
  <2> QED
    BY <1>1, <2>1, <2>2, CloseKeeps, KeepsTransitive
<1>4. ASSUME CanOpen
      PROVE  NewId \in Ids /\ NewId \notin loop.alloc /\ None \in ToSet(loop.table)
  <2>1. Unused # {} /\ Unused \in SUBSET Nat
    BY <1>4, LoopAssumption, FS_CardinalityType DEF CanOpen, Unused
  <2>2. \E s \in Unused : \A t \in Unused : s <= t
    <3> HIDE DEF Unused
    <3> QED
      BY <2>1, LeastNatural
  <2>3. NewId \in Unused
    BY <2>2 DEF NewId
  <2> QED
    BY <1>4, <2>3 DEF CanOpen, Unused
<1>5. CanOpen => \A kind \in Kinds : Keeps(loop, EventloopAdd(loop, NewId, kind))
  BY <1>1, <1>4, EventloopAddKeeps
<1>6. CanOpen => LowestFd(loop) \in Fds
  BY <1>1, <1>4, LowestFdIsFree
<1> QED
  BY <1>2, <1>3, <1>5, <1>6

LEMMA DispatchKeeps ==
    ASSUME IInv, Dispatch
    PROVE  IInv'
<1>1. /\ Keeps(loop, loop)
      /\ \A n \in Fds \cup {None} : Keeps(loop, Close(loop, n))
      /\ \A n \in Fds \cup {None} : Keeps(loop, Close(EventloopDel(loop, n), n))
      /\ Keeps(loop, EventloopStop(loop))
      /\ CanOpen => \A kind \in Kinds : Keeps(loop, EventloopAdd(loop, NewId, kind))
      /\ CanOpen => LowestFd(loop) \in Fds
  BY CallsKeep
<1>2. timer \in Fds \cup {None} /\ (pc = "display" => batch # <<>>)
  BY DEF IInv
<1>3. CASE DisplayBegin
  <2>1. Keeps(loop, loop')
    BY <1>1, <1>3 DEF DisplayBegin
  <2>2. LoopInv(loop)'
    BY <2>1 DEF Keeps, LoopInv, LoopState, Registered, Reported, Listed
  <2> QED
    BY <1>3, <2>2 DEF IInv, DisplayBegin, Dispatching
<1>4. CASE DisplayEnd
  BY <1>1, <1>2, <1>4, ReturnsKeeps DEF DisplayEnd
<1>5. CASE DisplayFails
  BY <1>1, <1>2, <1>5, ReturnsKeeps DEF DisplayFails
<1>6. CASE TimerStarts
  BY <1>1, <1>2, <1>6, StepOfLoop DEF TimerStarts, Kinds
<1>7. CASE SeatRemoved
  BY <1>1, <1>2, <1>7, StepOfLoop DEF SeatRemoved
<1>8. CASE SendStarts
  BY <1>1, <1>2, <1>8, StepOfLoop DEF SendStarts, Kinds
<1>9. CASE Accept
  BY <1>1, <1>2, <1>9, ReturnsKeeps DEF Accept, Dispatching, Kinds
<1>10. CASE ServePeer
  <2>1. batch # <<>> /\ loop.src[Head(batch)].fd \in Fds
    BY <1>10, EntriesOfTail DEF ServePeer, Dispatching, IInv, LoopInv, LoopState
  <2> QED
    BY <1>1, <1>2, <1>10, <2>1, ReturnsKeeps DEF ServePeer
<1>11. CASE TimerFires
  <2>1. batch # <<>> /\ loop.src[Head(batch)].fd \in Fds
    BY <1>11, EntriesOfTail DEF TimerFires, Dispatching, IInv, LoopInv, LoopState
  <2> QED
    BY <1>1, <1>2, <1>11, <2>1, ReturnsKeeps DEF TimerFires
<1>12. CASE SignalReceived
  BY <1>1, <1>2, <1>12, ReturnsKeeps DEF SignalReceived, Dispatching
<1> QED
  BY <1>3, <1>4, <1>5, <1>6, <1>7, <1>8, <1>9, <1>10, <1>11, <1>12 DEF Dispatch

LEMMA NextKeeps ==
    ASSUME IInv, [Next]_vars
    PROVE  IInv'
<1>1. CASE UNCHANGED vars
  BY <1>1 DEF vars, IInv, LoopInv, LoopState, Registered, Reported, Listed
<1> QED
  BY <1>1, BecomesReadyKeeps, PrepareKeeps, EpollWaitKeeps, DispatchKeeps, ReapKeeps, RepeatKeeps
     DEF Next

(* The invariant of the loop, from the first state on. *)
THEOREM LoopIsConsistent == Spec => []IInv
BY InitEstablishes, NextKeeps, PTL DEF Spec

(* epoll never holds the address of a freed source, however the numbers of    *)
(* files are given away and taken again, and also while the loop stops.       *)
(* (eventsource_del, eventloop_add)                                          *)
THEOREM NeverPollsFreed == Spec => []RegisteredIsAllocated
<1>1. IInv => RegisteredIsAllocated
  BY DEF IInv, LoopInv, Registered, RegisteredIsAllocated
<1> QED
  BY <1>1, LoopIsConsistent, PTL

(* Until it is to stop, the loop frees nothing that it has in its lists or in *)
(* the batch, and nothing twice.  (eventloop_run, eventloop_del)             *)
THEOREM NeverFreesListed == Spec => []BatchIsAllocated
<1>1. IInv => BatchIsAllocated
  <2> SUFFICES ASSUME IInv, ~loop.stop PROVE BatchIsAllocated
    BY DEF BatchIsAllocated
  <2>1. /\ loop.sources \in Seq(Ids) /\ loop.deleted \in Seq(Ids) /\ Listed(loop)
        /\ ToSet(batch) \subseteq loop.alloc
    BY DEF IInv, LoopInv, LoopState
  <2>2. /\ ToSet(loop.sources \o loop.deleted) = ToSet(loop.sources) \cup ToSet(loop.deleted)
        /\ IsInjective(loop.sources \o loop.deleted)
    BY <2>1, EntriesOfConcat DEF Listed
  <2> QED
    BY <2>1, <2>2 DEF BatchIsAllocated, Listed
<1> QED
  BY <1>1, LoopIsConsistent, PTL

=============================================================================
