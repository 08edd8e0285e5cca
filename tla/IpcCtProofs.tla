---------------------------- MODULE IpcCtProofs ----------------------------
(***************************************************************************)
(* The framing of IpcCt, for every number and length of messages and every *)
(* size of the buffers: units on the wire are consecutive, the receiver    *)
(* stands at the first of them and the sender after the last, so that what *)
(* the tokener is given is always the beginning of the message that is     *)
(* due, and no descriptor is lost.                                         *)
(***************************************************************************)
EXTENDS IpcCt, SequenceTheorems, TLAPS

-----------------------------------------------------------------------------
(* The inductive invariant                                                   *)

MsgAt(k) == posted[k].msg

(* Messages are posted in order. *)
PostedOK ==
    /\ tried \in 0 .. NMessages
    /\ posted \in Seq([msg : Messages, fd : Messages \cup {None}])
    /\ \A k \in DOMAIN posted : posted[k] = Payload(MsgAt(k)) /\ MsgAt(k) <= tried
    /\ \A k, l \in DOMAIN posted : k < l => MsgAt(k) < MsgAt(l)

(* What is queued is what was posted last, and only the first of it may be     *)
(* sent in part, its descriptor with the first unit.                         *)
Sent == Len(posted) - Len(queue)

QueueOK ==
    /\ queue \in Seq([msg : Messages, remaining : Nat, fd : Messages \cup {None}])
    /\ Sent \in Nat
    /\ \A j \in DOMAIN queue :
           /\ queue[j].msg = MsgAt(Sent + j)
           /\ queue[j].remaining \in 1 .. Size(queue[j].msg)
           /\ queue[j].fd = IF queue[j].remaining = Size(queue[j].msg) THEN FdOf(queue[j].msg) ELSE None
           /\ j # 1 => queue[j].remaining = Size(queue[j].msg)
    /\ ~up["sender"] => queue = <<>>

(* The units on the wire are consecutive. *)
Unit == [msg : Messages, at : Nat, fd : Messages \cup {None}]

Succeeds(a, b) == \E k \in DOMAIN posted : k + 1 \in DOMAIN posted /\ MsgAt(k) = a /\ MsgAt(k + 1) = b

UnitsOK(w) ==
    /\ w \in Seq(Unit)
    /\ \A i \in DOMAIN w : /\ w[i].at \in 1 .. Size(w[i].msg)
                           /\ w[i].fd = IF w[i].at = 1 THEN FdOf(w[i].msg) ELSE None
    /\ \A i, j \in DOMAIN w : i < j =>
           \/ w[i].msg < w[j].msg /\ w[i].at + (j - i) > Size(w[i].msg)
           \/ w[i].msg = w[j].msg /\ w[j].at = w[i].at + (j - i)
    /\ \A i \in DOMAIN w :
           i + 1 \in DOMAIN w /\ w[i].at = Size(w[i].msg) => w[i + 1].at = 1 /\ Succeeds(w[i].msg, w[i + 1].msg)

(* The message and the unit the receiver waits for, and the sender's next. *)
DueMsg == Len(received) + 1
DueAt  == IF rd.header THEN HeaderSize - rd.pending + 1 ELSE Size(MsgAt(DueMsg)) - rd.pending + 1

NextMsg == Sent + 1
NextAt  == IF queue = <<>> THEN 1 ELSE Size(queue[1].msg) - queue[1].remaining + 1

ReaderOK ==
    /\ received \in Seq([msg : Messages, fd : Messages \cup {None}])
    /\ Len(received) <= Len(posted)
    /\ rd \in [header : BOOLEAN, pending : Nat, scm : Messages \cup {None},
               tokener : Seq(Unit), reading : BOOLEAN, hup : BOOLEAN]
    /\ up["receiver"] =>
           /\ rd.header => rd.pending \in 1 .. HeaderSize /\ rd.tokener = <<>>
           /\ ~rd.header => /\ DueMsg \in DOMAIN posted
                            /\ rd.pending \in 1 .. Body[MsgAt(DueMsg)]
                            /\ Len(rd.tokener) = Body[MsgAt(DueMsg)] - rd.pending
                            /\ \A i \in DOMAIN rd.tokener : rd.tokener[i] = BodyOf(MsgAt(DueMsg))[i]
           /\ DueAt # 1 => DueMsg \in DOMAIN posted
           /\ rd.scm = IF DueAt = 1 THEN None ELSE FdOf(MsgAt(DueMsg))

(* The receiver stands before the first unit on the wire, the sender after     *)
(* the last, both at one place when there is none.                           *)
WireOK ==
    /\ UnitsOK(wire)
    /\ wire # <<>> =>
           /\ DueMsg \in DOMAIN posted
           /\ wire[1].msg = MsgAt(DueMsg)
           /\ wire[1].at = DueAt

After(u, k, at) == \/ u.at < Size(u.msg) /\ k \in DOMAIN posted /\ u.msg = MsgAt(k) /\ at = u.at + 1
                   \/ u.at = Size(u.msg) /\ k - 1 \in DOMAIN posted /\ u.msg = MsgAt(k - 1) /\ at = 1

Connected ==
    up["sender"] /\ up["receiver"] =>
        IF wire = <<>> THEN NextMsg = DueMsg /\ NextAt = DueAt
                       ELSE After(wire[Len(wire)], NextMsg, NextAt)

EndsOK ==
    /\ up \in [Ends -> BOOLEAN]
    /\ ~up["receiver"] => wire = <<>> /\ rd.scm = None
    /\ fds \in [Ends -> SUBSET Messages]
    /\ fds["sender"] = {queue[i].fd : i \in DOMAIN queue} \ {None}
    /\ fds["receiver"] = {rd.scm} \ {None}

IInv == PostedOK /\ QueueOK /\ ReaderOK /\ WireOK /\ Connected /\ EndsOK

-----------------------------------------------------------------------------
(* Sizes and lists                                                           *)

LEMMA Sizes ==
    /\ HeaderSize \in Nat \ {0} /\ BufSize - 1 \in Nat \ {0} /\ Capacity \in Nat \ {0} /\ Limit \in Nat
    /\ NMessages \in Nat
    /\ \A m \in Messages : /\ m \in Nat \ {0} /\ Body[m] \in Nat \ {0}
                           /\ Size(m) = HeaderSize + Body[m] /\ Size(m) \in Nat /\ Size(m) > HeaderSize
                           /\ FdOf(m) \in Messages \cup {None}
                           /\ FdOf(m) \in {m, None}
                           /\ Payload(m) \in [msg : Messages, fd : Messages \cup {None}]
<1>1. /\ HeaderSize \in Nat \ {0} /\ BufSize - 1 \in Nat \ {0} /\ Capacity \in Nat \ {0} /\ Limit \in Nat
      /\ NMessages \in Nat /\ \A m \in Messages : Body[m] \in Nat \ {0}
  BY IpcCtAssumption
<1>2. \A m \in Messages : m \in Nat \ {0}
  BY <1>1 DEF Messages
<1>3. \A m \in Messages : FdOf(m) \in Messages \cup {None} /\ FdOf(m) \in {m, None}
  BY DEF FdOf
<1> QED
  BY <1>1, <1>2, <1>3 DEF Size, Payload

LEMMA MinOfTwo ==
    ASSUME NEW a \in Nat, NEW b \in Nat
    PROVE  Min({a, b}) = IF a <= b THEN a ELSE b
<1>1. (IF a <= b THEN a ELSE b) \in {a, b} /\ \A y \in {a, b} : (IF a <= b THEN a ELSE b) <= y
  OBVIOUS
<1>2. \A x \in {a, b} : (\A y \in {a, b} : x <= y) => x = IF a <= b THEN a ELSE b
  OBVIOUS
<1> QED
  BY <1>1, <1>2 DEF Min

(* The first units are those of the message of the first. *)
LEMMA UnitAt ==
    ASSUME NEW w, UnitsOK(w), NEW i \in DOMAIN w, w[1].at + i - 1 <= Size(w[1].msg)
    PROVE  w[i].msg = w[1].msg /\ w[i].at = w[1].at + i - 1
<1>1. Len(w) \in Nat /\ DOMAIN w = 1 .. Len(w)
  BY DEF UnitsOK
<1>2. 1 \in DOMAIN w /\ i \in Nat /\ i >= 1
  BY <1>1
<1>3. w[1] \in Unit /\ w[i] \in Unit
  BY <1>2 DEF UnitsOK
<1>4. w[1].msg \in Messages /\ w[1].at \in Nat /\ w[i].msg \in Messages /\ w[i].at \in Nat
  BY <1>3 DEF Unit
<1>5. Size(w[1].msg) \in Nat
  BY <1>4, Sizes
<1>6. CASE i = 1
  BY <1>4, <1>6
<1>7. CASE 1 < i
  <2>1. \/ w[1].msg < w[i].msg /\ w[1].at + (i - 1) > Size(w[1].msg)
        \/ w[1].msg = w[i].msg /\ w[i].at = w[1].at + (i - 1)
    BY <1>2, <1>7 DEF UnitsOK
  <2> QED
    BY <1>2, <1>4, <1>5, <2>1
<1> QED
  BY <1>2, <1>6, <1>7

(* What is left of the wire after a read. *)
LEMMA UnitsSuffix ==
    ASSUME NEW w, UnitsOK(w), NEW g \in 0 .. Len(w)
    PROVE  LET v == SubSeq(w, g + 1, Len(w))
           IN  /\ UnitsOK(v) /\ Len(v) = Len(w) - g
               /\ \A i \in DOMAIN v : i + g \in DOMAIN w /\ v[i] = w[i + g]
<1> DEFINE v == SubSeq(w, g + 1, Len(w))
<1>1. /\ w \in Seq(Unit) /\ Len(w) \in Nat /\ DOMAIN w = 1 .. Len(w) /\ g \in Nat /\ g <= Len(w)
  BY DEF UnitsOK
<1>2. \A i \in g + 1 .. Len(w) : w[i] \in Unit
  BY <1>1
<1>3. /\ v \in Seq(Unit)
      /\ Len(v) = (IF g + 1 <= Len(w) THEN Len(w) - (g + 1) + 1 ELSE 0)
      /\ \A i \in 1 .. Len(w) - (g + 1) + 1 : v[i] = w[(g + 1) + i - 1]
  BY <1>1, <1>2, SubSeqProperties
<1> HIDE DEF v
<1>4. Len(v) = Len(w) - g /\ DOMAIN v = 1 .. Len(w) - g
  <2>1. Len(v) = Len(w) - g
    <3> DEFINE lw == Len(w)
               lv == Len(v)
    <3>1. lw \in Nat /\ g \in Nat /\ g <= lw /\ lv = IF g + 1 <= lw THEN lw - (g + 1) + 1 ELSE 0
      BY <1>1, <1>3
    <3> HIDE DEF lw, lv
    <3>2. lv = lw - g
      BY <3>1
    <3> QED
      BY <3>2 DEF lw, lv
  <2> QED
    BY <1>3, <2>1
<1>5. \A i \in DOMAIN v : i + g \in DOMAIN w /\ v[i] = w[i + g]
  <2> SUFFICES ASSUME NEW i \in 1 .. Len(w) - g PROVE i + g \in DOMAIN w /\ v[i] = w[i + g]
    BY <1>4
  <2>1. (g + 1) + i - 1 = i + g /\ i \in 1 .. Len(w) - (g + 1) + 1 /\ i + g \in 1 .. Len(w)
    BY <1>1
  <2> QED
    BY <1>1, <1>3, <2>1
<1>6. \A i, j \in DOMAIN v : /\ i < j <=> i + g < j + g
                             /\ (j + g) - (i + g) = j - i
                             /\ (i + 1) + g = (i + g) + 1
  BY <1>1, <1>4
<1>7. \A i \in DOMAIN v : /\ v[i].at \in 1 .. Size(v[i].msg)
                          /\ v[i].fd = IF v[i].at = 1 THEN FdOf(v[i].msg) ELSE None
  BY <1>5 DEF UnitsOK
<1>8. ASSUME NEW i \in DOMAIN v, NEW j \in DOMAIN v, i < j
      PROVE  \/ v[i].msg < v[j].msg /\ v[i].at + (j - i) > Size(v[i].msg)
             \/ v[i].msg = v[j].msg /\ v[j].at = v[i].at + (j - i)
  <2>1. /\ i + g \in DOMAIN w /\ j + g \in DOMAIN w /\ i + g < j + g
        /\ v[i] = w[i + g] /\ v[j] = w[j + g] /\ (j + g) - (i + g) = j - i
    BY <1>5, <1>6, <1>8
  <2>2. \/ w[i + g].msg < w[j + g].msg /\ w[i + g].at + ((j + g) - (i + g)) > Size(w[i + g].msg)
        \/ w[i + g].msg = w[j + g].msg /\ w[j + g].at = w[i + g].at + ((j + g) - (i + g))
    BY <2>1 DEF UnitsOK
  <2> QED
    BY <2>1, <2>2
<1>9. ASSUME NEW i \in DOMAIN v, i + 1 \in DOMAIN v, v[i].at = Size(v[i].msg)
      PROVE  v[i + 1].at = 1 /\ Succeeds(v[i].msg, v[i + 1].msg)
  <2>0. i + g \in DOMAIN w /\ v[i] = w[i + g] /\ (i + 1) + g \in DOMAIN w /\ v[i + 1] = w[(i + 1) + g]
    BY <1>5, <1>9
  <2>1. /\ i + g \in DOMAIN w /\ (i + g) + 1 \in DOMAIN w
        /\ v[i] = w[i + g] /\ v[i + 1] = w[(i + g) + 1]
    <3>1. (i + 1) + g = (i + g) + 1
      BY <1>6, <1>9
    <3> QED
      BY <2>0, <3>1
  <2> QED
    BY <1>9, <2>1 DEF UnitsOK
<1>10. UnitsOK(v)
  BY <1>3, <1>7, <1>8, <1>9 DEF UnitsOK
<1> QED
  BY <1>4, <1>5, <1>10 DEF v

(* A send extends the wire. *)
LEMMA UnitsExtended ==
    ASSUME NEW w, UnitsOK(w), NEW u \in Seq(Unit), NEW m \in Messages, NEW a \in Nat,
           \A i \in DOMAIN u : /\ u[i].msg = m /\ u[i].at = a + i - 1
                               /\ u[i].at \in 1 .. Size(m)
                               /\ u[i].fd = IF u[i].at = 1 THEN FdOf(m) ELSE None,
           \A x, y \in Messages : Succeeds(x, y) => x < y,
           w # <<>> => \/ w[Len(w)].at < Size(w[Len(w)].msg) /\ w[Len(w)].msg = m /\ a = w[Len(w)].at + 1
                       \/ w[Len(w)].at = Size(w[Len(w)].msg) /\ a = 1 /\ Succeeds(w[Len(w)].msg, m)
    PROVE  UnitsOK(w \o u)
<1> DEFINE v == w \o u
           n == Len(w)
           k == Len(u)
<1>1. /\ w \in Seq(Unit) /\ n \in Nat /\ DOMAIN w = 1 .. n /\ k \in Nat /\ DOMAIN u = 1 .. k
  BY DEF UnitsOK
<1>2. /\ v \in Seq(Unit) /\ Len(v) = n + k
      /\ \A i \in 1 .. n + k : v[i] = IF i <= n THEN w[i] ELSE u[i - n]
  BY <1>1, ConcatProperties
<1> HIDE DEF v
<1>3. DOMAIN v = 1 .. n + k
  BY <1>2
<1>4. ASSUME NEW i \in DOMAIN v
      PROVE  \/ i \in DOMAIN w /\ v[i] = w[i]
             \/ i \notin DOMAIN w /\ i - n \in DOMAIN u /\ v[i] = u[i - n]
  BY <1>1, <1>2, <1>3
<1>5. \A i \in DOMAIN w : /\ w[i].msg \in Messages /\ w[i].at \in Nat /\ w[i].at >= 1
                          /\ w[i].at <= Size(w[i].msg) /\ Size(w[i].msg) \in Nat
  <2> TAKE i \in DOMAIN w
  <2>1. w[i] \in Unit /\ w[i].at \in 1 .. Size(w[i].msg)
    BY <1>1 DEF UnitsOK
  <2>2. w[i].msg \in Messages /\ Size(w[i].msg) \in Nat
    BY <2>1, Sizes DEF Unit
  <2> QED
    BY <2>1, <2>2
<1>6. \A i \in DOMAIN v : /\ v[i].at \in 1 .. Size(v[i].msg)
                          /\ v[i].fd = IF v[i].at = 1 THEN FdOf(v[i].msg) ELSE None
  BY <1>4, SMTT(60) DEF UnitsOK
<1> DEFINE l == w[n]
<1>7. w # <<>> => /\ n \in DOMAIN w /\ l.msg \in Messages /\ l.at \in Nat /\ Size(l.msg) \in Nat
                  /\ \/ l.at < Size(l.msg) /\ l.msg = m /\ a = l.at + 1
                     \/ l.at = Size(l.msg) /\ a = 1 /\ l.msg < m /\ Succeeds(l.msg, m)
  <2> SUFFICES ASSUME w # <<>>
               PROVE  /\ n \in DOMAIN w /\ l.msg \in Messages /\ l.at \in Nat /\ Size(l.msg) \in Nat
                      /\ \/ l.at < Size(l.msg) /\ l.msg = m /\ a = l.at + 1
                         \/ l.at = Size(l.msg) /\ a = 1 /\ l.msg < m /\ Succeeds(l.msg, m)
    OBVIOUS
  <2>1. n \in DOMAIN w
    BY <1>1
  <2>2. l.msg \in Messages /\ l.at \in Nat /\ Size(l.msg) \in Nat
    BY <1>5, <2>1
  <2> QED
    BY <2>1, <2>2
<1>8. ASSUME NEW i \in DOMAIN v, NEW j \in DOMAIN v, i < j
      PROVE  \/ v[i].msg < v[j].msg /\ v[i].at + (j - i) > Size(v[i].msg)
             \/ v[i].msg = v[j].msg /\ v[j].at = v[i].at + (j - i)
  <2>0. i \in Nat /\ j \in Nat
    BY <1>1, <1>3
  <2>1. CASE j \in DOMAIN w
    <3>1. i \in DOMAIN w /\ v[i] = w[i] /\ v[j] = w[j]
      BY <1>1, <1>3, <1>4, <1>8, <2>1
    <3> QED
      BY <1>8, <2>1, <3>1 DEF UnitsOK
  <2>2. CASE i \notin DOMAIN w
    <3>1. /\ i - n \in DOMAIN u /\ v[i] = u[i - n]
          /\ j - n \in DOMAIN u /\ v[j] = u[j - n]
      BY <1>1, <1>3, <1>4, <1>8, <2>2
    <3>2. v[i].msg = m /\ v[j].msg = m /\ v[i].at = a + (i - n) - 1 /\ v[j].at = a + (j - n) - 1
      BY <3>1
    <3> QED
      BY <1>1, <2>0, <3>2
  <2>3. CASE i \in DOMAIN w /\ j \notin DOMAIN w
    <3>1. v[i] = w[i] /\ j - n \in DOMAIN u /\ v[j] = u[j - n] /\ w # <<>>
      BY <1>1, <1>4, <2>3
    <3>2. v[j].msg = m /\ v[j].at = a + (j - n) - 1
      BY <3>1
    <3>3. /\ w[i].msg \in Messages /\ w[i].at \in Nat /\ Size(w[i].msg) \in Nat /\ i <= n /\ i >= 1 /\ j - n >= 1
      BY <1>1, <1>5, <2>3, <3>1
    <3>4. \/ w[i].msg < l.msg /\ w[i].at + (n - i) > Size(w[i].msg)
          \/ w[i].msg = l.msg /\ l.at = w[i].at + (n - i)
      <4>1. CASE i = n
        BY <1>1, <3>3, <4>1
      <4>2. CASE i < n
        BY <1>7, <2>3, <3>1, <4>2 DEF UnitsOK
      <4> QED
        BY <1>1, <2>0, <3>3, <4>1, <4>2
    <3>5. m \in Nat /\ l.msg \in Nat /\ w[i].msg \in Nat
      BY <1>7, <3>1, <3>3, Sizes
    <3>6. w[i].msg = l.msg => Size(w[i].msg) = Size(l.msg)
      OBVIOUS
    <3>7. /\ l.at \in Nat /\ Size(l.msg) \in Nat
          /\ \/ l.at < Size(l.msg) /\ l.msg = m /\ a = l.at + 1
             \/ l.at = Size(l.msg) /\ a = 1 /\ l.msg < m
      BY <1>7, <3>1
    <3> DEFINE x == w[i].msg
               y == w[i].at
               z == Size(w[i].msg)
               lm == l.msg
               la == l.at
               lz == Size(l.msg)
    <3>8. /\ x \in Nat /\ y \in Nat /\ z \in Nat /\ lm \in Nat /\ la \in Nat /\ lz \in Nat
          /\ (lm = x => lz = z) /\ (lm = m => lz = Size(m))
          /\ (x < lm /\ y + (n - i) > z) \/ (x = lm /\ la = y + (n - i))
          /\ (la < lz /\ lm = m /\ a = la + 1) \/ (la = lz /\ a = 1 /\ lm < m)
      BY <3>3, <3>4, <3>5, <3>6, <3>7
    <3> HIDE DEF l, x, y, z, lm, la, lz, n
    <3>9. (x < m /\ y + (j - i) > z) \/ (x = m /\ a + (j - n) - 1 = y + (j - i))
      <4>1. i \in Nat /\ j \in Nat /\ n \in Nat /\ j - n >= 1 /\ m \in Nat
        BY <1>1, <2>0, <3>3, <3>5
      <4>2. CASE x < lm /\ y + (n - i) > z
        <5>1. lm <= m /\ x < m
          BY <3>8, <4>1, <4>2
        <5>2. y + (j - i) > z
          BY <3>8, <4>1, <4>2
        <5> QED
          BY <5>1, <5>2
      <4>3. CASE x = lm /\ la = y + (n - i)
        <5>1. CASE la < lz /\ lm = m /\ a = la + 1
          BY <3>8, <4>1, <4>3, <5>1, SMTT(60)
        <5>2. CASE la = lz /\ a = 1 /\ lm < m
          BY <3>8, <4>1, <4>3, <5>2
        <5> QED
          BY <3>8, <5>1, <5>2
      <4> QED
        BY <3>8, <4>2, <4>3
    <3> QED
      BY <3>1, <3>2, <3>9 DEF x, y, z
  <2> QED
    BY <2>1, <2>2, <2>3
<1>9. ASSUME NEW i \in DOMAIN v, i + 1 \in DOMAIN v, v[i].at = Size(v[i].msg)
      PROVE  v[i + 1].at = 1 /\ Succeeds(v[i].msg, v[i + 1].msg)
  <2>0. i \in Nat /\ i >= 1
    BY <1>3
  <2>1. CASE i + 1 \in DOMAIN w
    <3>1. i \in DOMAIN w /\ v[i] = w[i] /\ v[i + 1] = w[i + 1]
      BY <1>1, <1>4, <1>9, <2>0, <2>1
    <3> QED
      BY <1>9, <2>1, <3>1 DEF UnitsOK
  <2>2. CASE i \notin DOMAIN w
    <3>1. /\ i - n \in DOMAIN u /\ v[i] = u[i - n]
          /\ (i + 1) - n \in DOMAIN u /\ v[i + 1] = u[(i + 1) - n]
      BY <1>1, <1>4, <1>9, <2>0, <2>2
    <3>2. /\ v[i].msg = m /\ v[i].at = a + (i - n) - 1
          /\ v[i + 1].at = a + ((i + 1) - n) - 1 /\ v[i + 1].at \in 1 .. Size(m)
      BY <3>1
    <3> QED
      BY <1>1, <1>9, <2>0, <3>2, Sizes, SMTT(60)
  <2>3. CASE i \in DOMAIN w /\ i + 1 \notin DOMAIN w
    <3>1. i = n /\ v[i] = l /\ w # <<>>
      BY <1>1, <1>4, <2>0, <2>3
    <3>2. (i + 1) - n = 1 /\ v[i + 1] = u[1] /\ 1 \in DOMAIN u
      BY <1>1, <1>4, <1>9, <2>3, <3>1
    <3>3. v[i + 1].msg = m /\ v[i + 1].at = a
      BY <3>2
    <3>4. ~ (l.at < Size(l.msg))
      BY <1>7, <1>9, <3>1
    <3> HIDE DEF l
    <3> QED
      BY <1>7, <3>1, <3>3, <3>4
  <2> QED
    BY <2>1, <2>2, <2>3
<1> QED
  BY <1>2, <1>6, <1>8, <1>9 DEF UnitsOK, v

-----------------------------------------------------------------------------
(* Places of messages                                                        *)

LEMMA PostedFacts ==
    ASSUME PostedOK
    PROVE  /\ Len(posted) \in Nat /\ DOMAIN posted = 1 .. Len(posted)
           /\ \A k \in DOMAIN posted : MsgAt(k) \in Messages /\ posted[k] = Payload(MsgAt(k))
           /\ \A k, l \in DOMAIN posted : MsgAt(k) = MsgAt(l) => k = l
           /\ \A x, y \in Messages : Succeeds(x, y) => x < y
<1>1. Len(posted) \in Nat /\ DOMAIN posted = 1 .. Len(posted)
  BY DEF PostedOK
<1>2. ASSUME NEW k \in DOMAIN posted PROVE MsgAt(k) \in Messages /\ posted[k] = Payload(MsgAt(k))
  <2>1. posted[k] \in [msg : Messages, fd : Messages \cup {None}]
    BY <1>1, ElementOfSeq DEF PostedOK
  <2>2. posted[k] = Payload(MsgAt(k))
    BY DEF PostedOK
  <2> QED
    BY <2>1, <2>2 DEF MsgAt
<1>3. ASSUME NEW k \in DOMAIN posted, NEW l \in DOMAIN posted, MsgAt(k) = MsgAt(l) PROVE k = l
  <2>1. ~ (MsgAt(k) < MsgAt(l)) /\ ~ (MsgAt(l) < MsgAt(k))
    BY <1>2, <1>3, Sizes
  <2>2. ~ (k < l) /\ ~ (l < k)
    BY <2>1 DEF PostedOK
  <2> QED
    BY <1>1, <2>2
<1>4. \A x, y \in Messages : Succeeds(x, y) => x < y
  <2> SUFFICES ASSUME NEW k \in DOMAIN posted, k + 1 \in DOMAIN posted PROVE MsgAt(k) < MsgAt(k + 1)
    BY DEF Succeeds
  <2>1. k < k + 1
    BY <1>1
  <2> QED
    BY <2>1 DEF PostedOK
<1> QED
  BY <1>1, <1>2, <1>3, <1>4

LEMMA QueueFacts ==
    ASSUME PostedOK, QueueOK
    PROVE  /\ Len(queue) \in Nat /\ DOMAIN queue = 1 .. Len(queue)
           /\ Len(posted) = Sent + Len(queue)
           /\ NextMsg = Sent + 1 /\ Sent \in Nat
           /\ \A j \in DOMAIN queue :
                  /\ queue[j].msg \in Messages /\ queue[j].remaining \in Nat \ {0}
                  /\ queue[j] = [msg |-> queue[j].msg, remaining |-> queue[j].remaining, fd |-> queue[j].fd]
                  /\ Sent + j \in DOMAIN posted /\ queue[j].msg = MsgAt(Sent + j)
                  /\ queue[j].remaining <= Size(queue[j].msg)
                  /\ queue[j].fd \in {queue[j].msg, None}
           /\ queue # <<>> => /\ 1 \in DOMAIN queue /\ Head(queue) = queue[1]
                              /\ NextAt = Size(queue[1].msg) - queue[1].remaining + 1
                              /\ NextAt \in Nat \ {0}
           /\ queue = <<>> => NextAt = 1
<1>1. Len(queue) \in Nat /\ DOMAIN queue = 1 .. Len(queue) /\ Sent \in Nat
  BY DEF QueueOK
<1>2. Len(posted) \in Nat /\ DOMAIN posted = 1 .. Len(posted)
  BY PostedFacts
<1>3. Len(posted) = Sent + Len(queue)
  BY <1>1, <1>2 DEF Sent
<1>4. ASSUME NEW j \in DOMAIN queue
      PROVE  /\ queue[j].msg \in Messages /\ queue[j].remaining \in Nat \ {0}
             /\ queue[j] = [msg |-> queue[j].msg, remaining |-> queue[j].remaining, fd |-> queue[j].fd]
             /\ Sent + j \in DOMAIN posted /\ queue[j].msg = MsgAt(Sent + j)
             /\ queue[j].remaining <= Size(queue[j].msg)
             /\ queue[j].fd \in {queue[j].msg, None}
  <2>1. queue[j] \in [msg : Messages, remaining : Nat, fd : Messages \cup {None}]
    BY <1>1, ElementOfSeq DEF QueueOK
  <2>2. queue[j].remaining \in 1 .. Size(queue[j].msg) /\ queue[j].msg = MsgAt(Sent + j)
    BY DEF QueueOK
  <2>3. queue[j].fd = IF queue[j].remaining = Size(queue[j].msg) THEN FdOf(queue[j].msg) ELSE None
    BY DEF QueueOK
  <2>4. Sent + j \in 1 .. Len(posted)
    BY <1>1, <1>2, <1>3
  <2>5. queue[j].msg \in Messages
    BY <2>1
  <2>6. FdOf(queue[j].msg) \in {queue[j].msg, None} /\ Size(queue[j].msg) \in Nat
    BY <2>5, Sizes
  <2> QED
    BY <1>2, <2>1, <2>2, <2>3, <2>4, <2>6
<1>5. ASSUME queue # <<>>
      PROVE  /\ 1 \in DOMAIN queue /\ Head(queue) = queue[1]
             /\ NextAt = Size(queue[1].msg) - queue[1].remaining + 1
             /\ NextAt \in Nat \ {0}
  <2>1. 1 \in DOMAIN queue /\ Head(queue) = queue[1]
    BY <1>1, <1>5 DEF QueueOK
  <2>2. NextAt = Size(queue[1].msg) - queue[1].remaining + 1
    BY <1>5 DEF NextAt
  <2>3. queue[1].remaining \in Nat /\ queue[1].remaining <= Size(queue[1].msg) /\ Size(queue[1].msg) \in Nat
    BY <1>4, <2>1, Sizes
  <2> QED
    BY <2>1, <2>2, <2>3
<1> QED
  BY <1>1, <1>3, <1>4, <1>5 DEF NextMsg, NextAt

(* The receiver's place when its end is open. *)
LEMMA ReaderFacts ==
    ASSUME PostedOK, ReaderOK, up["receiver"]
    PROVE  /\ DueMsg \in Nat \ {0} /\ DueMsg = Len(received) + 1
           /\ rd.pending \in Nat \ {0}
           /\ DueAt \in Nat \ {0}
           /\ rd.header => DueAt = HeaderSize - rd.pending + 1 /\ rd.pending <= HeaderSize /\ rd.tokener = <<>>
           /\ ~rd.header => /\ DueMsg \in DOMAIN posted
                            /\ DueAt = Size(MsgAt(DueMsg)) - rd.pending + 1
                            /\ rd.pending <= Body[MsgAt(DueMsg)] /\ DueAt > HeaderSize
                            /\ Len(rd.tokener) = Body[MsgAt(DueMsg)] - rd.pending
           /\ DueAt # 1 => DueMsg \in DOMAIN posted
           /\ rd.scm = IF DueAt = 1 THEN None ELSE FdOf(MsgAt(DueMsg))
<1>1. DueMsg \in Nat \ {0} /\ DueMsg = Len(received) + 1
  BY DEF ReaderOK, DueMsg
<1>2. CASE rd.header
  <2>1. rd.pending \in 1 .. HeaderSize /\ DueAt = HeaderSize - rd.pending + 1
    BY <1>2 DEF ReaderOK, DueAt
  <2>2. DueAt \in Nat \ {0} /\ rd.pending \in Nat \ {0} /\ rd.pending <= HeaderSize
    BY <2>1, Sizes
  <2> QED
    BY <1>1, <1>2, <2>1, <2>2 DEF ReaderOK
<1>3. CASE ~rd.header
  <2> DEFINE m == MsgAt(DueMsg)
             p == rd.pending
  <2>1. DueMsg \in DOMAIN posted /\ p \in 1 .. Body[m] /\ DueAt = Size(m) - p + 1 /\ Len(rd.tokener) = Body[m] - p
    BY <1>3 DEF ReaderOK, DueAt
  <2>2. m \in Messages
    BY <2>1, PostedFacts
  <2>3. Size(m) = HeaderSize + Body[m] /\ Body[m] \in Nat /\ HeaderSize \in Nat
    BY <2>2, Sizes
  <2> HIDE DEF m, p
  <2>4. DueAt \in Nat \ {0} /\ DueAt > HeaderSize /\ p \in Nat \ {0} /\ p <= Body[m]
    BY <2>1, <2>3
  <2> QED
    BY <1>1, <1>3, <2>1, <2>4 DEF ReaderOK, m, p
<1> QED
  BY <1>2, <1>3

-----------------------------------------------------------------------------
(* Steps of the sender                                                       *)

(* What is posted later changes nothing of what is under way. *)
LEMMA PostQueuesStep ==
    ASSUME IInv, up["sender"], tried < NMessages, tried' = tried + 1, PostQueues(tried + 1),
           UNCHANGED <<wire, rd, up, received>>
    PROVE  IInv'
<1> DEFINE t == tried + 1
           q == [msg |-> t, remaining |-> Size(t), fd |-> FdOf(t)]
           n == Len(posted)
           QT == [msg : Messages, remaining : Nat, fd : Messages \cup {None}]
           PT == [msg : Messages, fd : Messages \cup {None}]
<1>1. /\ PostedOK /\ QueueOK /\ ReaderOK /\ WireOK /\ Connected /\ EndsOK
  BY DEF IInv
<1>2. t \in Messages /\ tried \in Nat
  BY <1>1, Sizes DEF PostedOK, Messages
<1>3. q \in QT /\ Payload(t) \in PT
  BY <1>2, Sizes
<1>4. /\ posted' = Append(posted, Payload(t)) /\ queue' = Append(queue, q)
      /\ fds' = [fds EXCEPT !["sender"] = @ \cup ({t} \cap WithFd)]
  BY DEF PostQueues
<1> HIDE DEF q
<1>5. /\ posted' \in Seq(PT) /\ Len(posted') = n + 1 /\ n \in Nat /\ DOMAIN posted = 1 .. n
      /\ DOMAIN posted' = 1 .. n + 1
      /\ \A k \in 1 .. n : posted'[k] = posted[k]
      /\ posted'[n + 1] = Payload(t)
  BY <1>1, <1>3, <1>4, AppendProperties, PostedFacts DEF PostedOK
<1>6. /\ queue' \in Seq(QT) /\ Len(queue') = Len(queue) + 1
      /\ DOMAIN queue' = 1 .. Len(queue) + 1
      /\ \A j \in 1 .. Len(queue) : queue'[j] = queue[j]
      /\ queue'[Len(queue) + 1] = q
  <2>1. /\ queue' \in Seq(QT) /\ Len(queue') = Len(queue) + 1
        /\ \A j \in 1 .. Len(queue) : queue'[j] = queue[j]
        /\ queue'[Len(queue) + 1] = q
    BY <1>1, <1>3, <1>4, AppendProperties DEF QueueOK
  <2> QED
    BY <2>1
<1>7. Len(queue) \in Nat /\ DOMAIN queue = 1 .. Len(queue) /\ n = Sent + Len(queue) /\ Sent \in Nat
  BY <1>1, QueueFacts
<1>8. \A k \in 1 .. n : MsgAt(k)' = MsgAt(k) /\ MsgAt(k) \in Messages
  BY <1>1, <1>5, PostedFacts DEF MsgAt
<1>9. posted'[n + 1].msg = t
  BY <1>5 DEF Payload
<1>10. PostedOK'
  <2>1. tried' \in 0 .. NMessages
    BY <1>2, Sizes DEF Messages
  <2>2. ASSUME NEW k \in 1 .. n + 1
        PROVE  posted'[k] = Payload(MsgAt(k)') /\ MsgAt(k)' <= tried'
    <3>1. CASE k = n + 1
      BY <1>2, <1>5, <1>9, <3>1 DEF MsgAt
    <3>2. CASE k # n + 1
      <4>1. k \in 1 .. n
        BY <1>5, <3>2
      <4>2. posted[k] = Payload(MsgAt(k)) /\ MsgAt(k) <= tried /\ MsgAt(k) \in Nat
        BY <1>1, <1>5, <1>8, <4>1, Sizes DEF PostedOK
      <4> QED
        BY <1>2, <1>5, <1>8, <4>1, <4>2
    <3> QED
      BY <3>1, <3>2
  <2>3. ASSUME NEW k \in 1 .. n + 1, NEW l \in 1 .. n + 1, k < l
        PROVE  MsgAt(k)' < MsgAt(l)'
    <3>1. k \in 1 .. n /\ k \in DOMAIN posted
      BY <1>5, <2>3
    <3>2. CASE l = n + 1
      <4>1. MsgAt(k) <= tried /\ MsgAt(k) \in Nat
        BY <1>1, <1>8, <3>1, Sizes DEF PostedOK
      <4> QED
        BY <1>2, <1>8, <1>9, <3>1, <3>2, <4>1 DEF MsgAt
    <3>3. CASE l # n + 1
      <4>1. l \in 1 .. n /\ l \in DOMAIN posted
        BY <1>5, <3>3
      <4>2. MsgAt(k) < MsgAt(l)
        BY <1>1, <2>3, <3>1, <4>1 DEF PostedOK
      <4> QED
        BY <1>8, <3>1, <4>1, <4>2
    <3> QED
      BY <3>2, <3>3
  <2> QED
    BY <1>5, <2>1, <2>2, <2>3 DEF PostedOK
<1>11. Sent' = Sent
  BY <1>5, <1>6, <1>7 DEF Sent
<1>12. QueueOK'
  <2>1. ASSUME NEW j \in 1 .. Len(queue) + 1
        PROVE  /\ queue'[j].msg = MsgAt(Sent + j)'
               /\ queue'[j].remaining \in 1 .. Size(queue'[j].msg)
               /\ queue'[j].fd = IF queue'[j].remaining = Size(queue'[j].msg) THEN FdOf(queue'[j].msg) ELSE None
               /\ j # 1 => queue'[j].remaining = Size(queue'[j].msg)
    <3>1. CASE j = Len(queue) + 1
      <4>1. Sent + j = n + 1
        BY <1>7, <3>1
      <4>2. MsgAt(Sent + j)' = t
        <5>1. MsgAt(Sent + j)' = posted'[Sent' + j].msg
          BY DEF MsgAt
        <5> QED
          BY <1>9, <1>11, <4>1, <5>1 DEF MsgAt
      <4>3. Size(t) \in Nat \ {0}
        BY <1>2, Sizes
      <4> QED
        BY <1>6, <3>1, <4>2, <4>3 DEF q
    <3>2. CASE j # Len(queue) + 1
      <4>1. j \in DOMAIN queue /\ queue'[j] = queue[j]
        BY <1>6, <1>7, <3>2
      <4>2. Sent + j \in 1 .. n
        BY <1>7, <4>1
      <4>3. MsgAt(Sent + j)' = MsgAt(Sent + j)
        <5>1. MsgAt(Sent + j)' = posted'[Sent' + j].msg
          BY DEF MsgAt
        <5> QED
          BY <1>5, <1>11, <4>2, <5>1 DEF MsgAt
      <4> QED
        BY <1>1, <4>1, <4>3 DEF QueueOK
    <3> QED
      BY <3>1, <3>2
  <2> QED
    BY <1>6, <1>7, <1>11, <2>1 DEF QueueOK
<1>13. DueMsg' = DueMsg
  BY DEF DueMsg
<1>14. DueMsg \in DOMAIN posted => MsgAt(DueMsg)' = MsgAt(DueMsg)
  <2>1. MsgAt(DueMsg)' = posted'[DueMsg'].msg
    BY DEF MsgAt
  <2> QED
    BY <1>5, <1>13, <2>1 DEF MsgAt
<1>15. up["receiver"] => DueAt' = DueAt
  BY <1>1, <1>14, ReaderFacts DEF DueAt
<1>16. ReaderOK'
  <2>1. up["receiver"] => rd.header \/ DueMsg \in DOMAIN posted
    BY <1>1, ReaderFacts
  <2>2. DueMsg \in DOMAIN posted => DueMsg' \in DOMAIN posted'
    BY <1>5, <1>13
  <2>3. Len(received) <= Len(posted) /\ Len(received) \in Nat
    BY <1>1 DEF ReaderOK
  <2>4. Len(received') <= Len(posted')
    BY <1>5, <2>3
  <2>5. up["receiver"] => (DueAt = 1 \/ MsgAt(DueMsg)' = MsgAt(DueMsg))
    BY <1>1, <1>14, ReaderFacts
  <2>6. up["receiver"] => rd.scm = IF DueAt' = 1 THEN None ELSE FdOf(MsgAt(DueMsg)')
    BY <1>1, <1>15, <2>5, ReaderFacts
  <2> QED
    BY <1>1, <1>14, <1>15, <2>1, <2>2, <2>4, <2>6 DEF ReaderOK
<1>17. WireOK'
  <2>1. \A x, y : Succeeds(x, y) => Succeeds(x, y)'
    <3> SUFFICES ASSUME NEW k \in 1 .. n, k + 1 \in 1 .. n
                 PROVE  /\ k \in DOMAIN posted' /\ k + 1 \in DOMAIN posted'
                        /\ MsgAt(k)' = MsgAt(k) /\ MsgAt(k + 1)' = MsgAt(k + 1)
      BY <1>5 DEF Succeeds
    <3> QED
      BY <1>5, <1>8
  <2>2. UnitsOK(wire)'
    BY <1>1, <2>1 DEF WireOK, UnitsOK
  <2>3. wire # <<>> => up["receiver"] /\ DueMsg \in DOMAIN posted
    BY <1>1 DEF WireOK, EndsOK, Ends
  <2> QED
    BY <1>1, <1>5, <1>13, <1>14, <1>15, <2>2, <2>3 DEF WireOK
<1>18. Connected'
  <2>1. NextMsg' = NextMsg
    BY <1>11 DEF NextMsg
  <2>2. NextAt' = NextAt
    <3>1. queue' # <<>> /\ NextAt' = Size(queue'[1].msg) - queue'[1].remaining + 1
      BY <1>6, <1>7 DEF NextAt
    <3>2. CASE queue = <<>>
      <4>1. queue'[1] = q
        BY <1>6, <3>2
      <4>2. Size(t) \in Nat
        BY <1>2, Sizes
      <4> QED
        BY <3>1, <3>2, <4>1, <4>2 DEF NextAt, q
    <3>3. CASE queue # <<>>
      BY <1>1, <1>6, <1>7, <3>1, <3>3, QueueFacts
    <3> QED
      BY <3>2, <3>3
  <2>3. \A u, k, at : After(u, k, at) =>
           \/ u.at < Size(u.msg) /\ k \in DOMAIN posted' /\ u.msg = posted'[k].msg /\ at = u.at + 1
           \/ u.at = Size(u.msg) /\ k - 1 \in DOMAIN posted' /\ u.msg = posted'[k - 1].msg /\ at = 1
    BY <1>5 DEF After, MsgAt
  <2>4. CASE up["receiver"] /\ wire # <<>>
    <3>1. After(wire[Len(wire)], NextMsg, NextAt)
      BY <1>1, <2>4 DEF Connected
    <3>2. After(wire[Len(wire)], NextMsg, NextAt)'
      <4> DEFINE u == wire[Len(wire)]
      <4>1. \/ /\ u.at < Size(u.msg) /\ NextMsg \in DOMAIN posted' /\ u.msg = posted'[NextMsg].msg
               /\ NextAt = u.at + 1
            \/ /\ u.at = Size(u.msg) /\ NextMsg - 1 \in DOMAIN posted' /\ u.msg = posted'[NextMsg - 1].msg
               /\ NextAt = 1
        BY <2>3, <3>1
      <4> QED
        BY <2>1, <2>2, <4>1 DEF After, MsgAt
    <3> QED
      BY <2>4, <3>2 DEF Connected
  <2>5. CASE up["receiver"] /\ wire = <<>>
    BY <1>1, <1>13, <1>15, <2>1, <2>2, <2>5 DEF Connected
  <2> QED
    BY <2>4, <2>5 DEF Connected
<1>19. EndsOK'
  <2>1. {queue'[i].fd : i \in DOMAIN queue'} = {queue[i].fd : i \in DOMAIN queue} \cup {FdOf(t)}
    <3>1. \A i \in DOMAIN queue' : \/ i \in DOMAIN queue /\ queue'[i] = queue[i]
                                   \/ i = Len(queue) + 1 /\ queue'[i] = q
      BY <1>6, <1>7
    <3>2. /\ \A i \in DOMAIN queue : i \in DOMAIN queue' /\ queue'[i] = queue[i]
          /\ Len(queue) + 1 \in DOMAIN queue'
      BY <1>6, <1>7
    <3>3. q.fd = FdOf(t)
      BY DEF q
    <3> QED
      BY <1>6, <3>1, <3>2, <3>3, SMTT(60)
  <2>2. {FdOf(t)} \ {None} = {t} \cap WithFd
    BY <1>2, Sizes DEF FdOf, None
  <2>3. fds'["sender"] = fds["sender"] \cup ({t} \cap WithFd) /\ fds'["receiver"] = fds["receiver"]
        /\ fds' \in [Ends -> SUBSET Messages]
    BY <1>1, <1>2, <1>4 DEF EndsOK, Ends
  <2>4. fds'["sender"] = {queue'[i].fd : i \in DOMAIN queue'} \ {None}
    BY <1>1, <2>1, <2>2, <2>3 DEF EndsOK
  <2> QED
    BY <1>1, <2>3, <2>4 DEF EndsOK
<1> QED
  BY <1>10, <1>12, <1>16, <1>17, <1>18, <1>19 DEF IInv

LEMMA PostStep ==
    ASSUME IInv, Post
    PROVE  IInv'
<1> DEFINE t == tried + 1
<1>1. CASE PostQueues(tried + 1)
  BY <1>1, PostQueuesStep DEF Post
<1>2. CASE PostFails(tried + 1)
  <2>1. UNCHANGED <<queue, posted, fds, wire, rd, up, received>> /\ tried' = tried + 1 /\ tried < NMessages
    BY <1>2 DEF Post, PostFails
  <2>2. PostedOK'
    <3>1. tried \in Nat /\ tried' \in 0 .. NMessages
      BY <2>1, Sizes DEF IInv, PostedOK
    <3>2. \A k \in DOMAIN posted : MsgAt(k) \in Nat /\ MsgAt(k) <= tried
      BY PostedFacts, Sizes DEF IInv, PostedOK
    <3>3. \A k \in DOMAIN posted : MsgAt(k) <= tried'
      BY <2>1, <3>1, <3>2
    <3> QED
      BY <2>1, <3>1, <3>3 DEF IInv, PostedOK, MsgAt
  <2>3. QueueOK' /\ ReaderOK' /\ EndsOK'
    BY <2>1, SMTT(60) DEF IInv, QueueOK, ReaderOK, EndsOK, Sent, MsgAt, DueMsg, DueAt
  <2>4. WireOK' /\ Connected'
    BY <2>1 DEF IInv, WireOK, Connected, UnitsOK, Succeeds, After, Sent, MsgAt, DueMsg, DueAt, NextMsg, NextAt
  <2> QED
    BY <2>2, <2>3, <2>4 DEF IInv
<1> QED
  BY <1>1, <1>2 DEF Post

(* What goes out with one send: the next units of the message at the head. *)
LEMMA UnitsSent ==
    ASSUME PostedOK, QueueOK, queue # <<>>, Room \in Nat \ {0}
    PROVE  LET wr == Head(queue)
               n  == Min({wr.remaining, Room})
               u  == Units(wr, n)
               m  == queue[1].msg
           IN  /\ wr = queue[1] /\ n \in Nat \ {0} /\ n <= wr.remaining
               /\ m \in Messages /\ m = MsgAt(NextMsg) /\ NextMsg \in DOMAIN posted
               /\ u \in Seq(Unit) /\ Len(u) = n /\ DOMAIN u = 1 .. n
               /\ \A i \in DOMAIN u : /\ u[i].msg = m /\ u[i].at = NextAt + i - 1
                                      /\ u[i].at \in 1 .. Size(m)
                                      /\ u[i].fd = IF u[i].at = 1 THEN FdOf(m) ELSE None
<1> DEFINE wr == Head(queue)
           r  == queue[1].remaining
           n  == Min({wr.remaining, Room})
           m  == queue[1].msg
           f  == queue[1].fd
           u  == Units(wr, n)
<1>1. /\ wr = queue[1] /\ m \in Messages /\ r \in Nat \ {0} /\ r <= Size(m)
      /\ NextAt = Size(m) - r + 1 /\ NextAt \in Nat \ {0}
      /\ NextMsg = Sent + 1 /\ Sent + 1 \in DOMAIN posted /\ m = MsgAt(Sent + 1)
  BY QueueFacts
<1>2. f = IF r = Size(m) THEN FdOf(m) ELSE None
  BY <1>1, QueueFacts DEF QueueOK
<1>3. Size(m) \in Nat /\ FdOf(m) \in Messages \cup {None}
  BY <1>1, Sizes
<1>4. n \in Nat \ {0} /\ n <= r
  BY <1>1, MinOfTwo
<1>5. u = [i \in 1 .. n |-> [msg |-> m, at |-> Size(m) - r + i, fd |-> IF i = 1 THEN f ELSE None]]
  BY <1>1 DEF Units
<1> HIDE DEF n, u, r, m, f
<1>6. ASSUME NEW i \in 1 .. n
      PROVE  /\ u[i] \in Unit
             /\ u[i].msg = m /\ u[i].at = NextAt + i - 1
             /\ u[i].at \in 1 .. Size(m)
             /\ u[i].fd = IF u[i].at = 1 THEN FdOf(m) ELSE None
  <2>1. u[i].msg = m /\ u[i].at = Size(m) - r + i /\ u[i].fd = IF i = 1 THEN f ELSE None
    BY <1>5
  <2>2. Size(m) - r + i = NextAt + i - 1 /\ Size(m) - r + i \in 1 .. Size(m)
    BY <1>1, <1>3, <1>4
  <2>3. Size(m) - r + i = 1 <=> i = 1 /\ r = Size(m)
    BY <1>1, <1>3, <1>4
  <2>4. u[i].fd = IF u[i].at = 1 THEN FdOf(m) ELSE None
    BY <1>2, <2>1, <2>3
  <2>5. u[i].fd \in Messages \cup {None} /\ u[i].at \in Nat
    BY <1>3, <2>1, <2>2, <2>4
  <2>6. u[i] = [msg |-> u[i].msg, at |-> u[i].at, fd |-> u[i].fd]
    BY <1>5
  <2>7. u[i] \in Unit
    BY <1>1, <2>1, <2>5, <2>6 DEF Unit
  <2> QED
    BY <2>1, <2>2, <2>4, <2>7
<1>7. u \in Seq(Unit) /\ Len(u) = n /\ DOMAIN u = 1 .. n
  <2>1. u = [i \in 1 .. n |-> u[i]] /\ \A i \in 1 .. n : u[i] \in Unit
    BY <1>5, <1>6
  <2> QED
    BY <1>4, <2>1
<1> QED
  BY <1>1, <1>4, <1>6, <1>7 DEF n, u, r, m

(* What is left of the queue after it. *)
LEMMA QueueAfterSend ==
    ASSUME PostedOK, QueueOK, queue # <<>>, NEW n \in Nat \ {0}, n <= queue[1].remaining,
           queue' = AfterSend(queue[1], n), UNCHANGED <<posted, up, tried>>, up["sender"]
    PROVE  LET m == queue[1].msg
               r == queue[1].remaining
           IN  /\ QueueOK'
               /\ n = r => NextMsg' = NextMsg + 1 /\ NextAt' = 1
               /\ n # r => NextMsg' = NextMsg /\ NextAt' = NextAt + n
               /\ {queue'[i].fd : i \in DOMAIN queue'} \ {None}
                      = ({queue[i].fd : i \in DOMAIN queue} \ {None}) \ {queue[1].fd}
<1> DEFINE m == queue[1].msg
           r == queue[1].remaining
           QT == [msg : Messages, remaining : Nat, fd : Messages \cup {None}]
<1>1. /\ Len(queue) \in Nat \ {0} /\ DOMAIN queue = 1 .. Len(queue) /\ 1 \in DOMAIN queue
      /\ Len(posted) = Sent + Len(queue) /\ Sent \in Nat /\ NextMsg = Sent + 1
      /\ m \in Messages /\ r \in Nat \ {0} /\ r <= Size(m)
      /\ NextAt = Size(m) - r + 1
      /\ queue[1] = [msg |-> m, remaining |-> r, fd |-> queue[1].fd]
  BY QueueFacts
<1>2. Size(m) \in Nat /\ queue \in Seq(QT)
  BY <1>1, Sizes DEF QueueOK
<1>3. \A k : MsgAt(k)' = posted[k].msg
  BY DEF MsgAt
<1>4. \A i, j \in DOMAIN queue : queue[i].fd = queue[j].fd /\ i # j => queue[i].fd = None
  <2> SUFFICES ASSUME NEW i \in DOMAIN queue, NEW j \in DOMAIN queue, queue[i].fd = queue[j].fd, i # j,
                      queue[i].fd # None
               PROVE  FALSE
    OBVIOUS
  <2>1. queue[i].msg = queue[j].msg
    BY QueueFacts
  <2>2. MsgAt(Sent + i) = MsgAt(Sent + j) /\ Sent + i \in DOMAIN posted /\ Sent + j \in DOMAIN posted
    BY <2>1, QueueFacts
  <2>3. Sent + i = Sent + j
    BY <2>2, PostedFacts
  <2> QED
    BY <1>1, <2>3
<1>5. CASE n = r
  <2>1. queue' = Tail(queue)
    BY <1>5 DEF AfterSend
  <2>2. /\ queue' \in Seq(QT) /\ Len(queue') = Len(queue) - 1
        /\ \A j \in 1 .. Len(queue) - 1 : queue'[j] = queue[j + 1]
    BY <1>2, <2>1, HeadTailProperties
  <2>0. Len(queue') \in Nat /\ DOMAIN queue' = 1 .. Len(queue')
    BY <2>2, LenProperties
  <2>3. DOMAIN queue' = 1 .. Len(queue) - 1
    BY <2>0, <2>2
  <2>4. Sent' = Sent + 1
    <3> DEFINE l == Len(queue)
               s == Sent
               p == Len(posted)
    <3>1. l \in Nat /\ s \in Nat /\ p = s + l /\ Sent' = p - (l - 1)
      BY <1>1, <2>2 DEF Sent
    <3> HIDE DEF l, s, p
    <3>2. Sent' = s + 1
      BY <3>1
    <3> QED
      BY <3>2 DEF s
  <2>5. NextMsg' = NextMsg + 1
    BY <1>1, <2>4 DEF NextMsg
  <2>6. ASSUME NEW j \in DOMAIN queue'
        PROVE  /\ j + 1 \in DOMAIN queue /\ queue'[j] = queue[j + 1]
               /\ queue'[j].msg = MsgAt(Sent + j)'
               /\ queue'[j].remaining = Size(queue'[j].msg)
               /\ queue'[j].remaining \in 1 .. Size(queue'[j].msg)
               /\ queue'[j].fd = IF queue'[j].remaining = Size(queue'[j].msg) THEN FdOf(queue'[j].msg) ELSE None
    <3>1. j + 1 \in DOMAIN queue /\ queue'[j] = queue[j + 1] /\ j + 1 # 1 /\ j \in Nat
      <4> DEFINE l == Len(queue)
      <4>1. l \in Nat /\ DOMAIN queue = 1 .. l /\ j \in 1 .. l - 1
        BY <1>1, <2>3
      <4> HIDE DEF l
      <4>2. j + 1 \in 1 .. l /\ j + 1 # 1 /\ j \in Nat
        BY <4>1
      <4>3. queue'[j] = queue[j + 1]
        BY <2>2, <4>1 DEF l
      <4> QED
        BY <4>1, <4>2, <4>3
    <3>2. Sent' + j = Sent + (j + 1)
      BY <1>1, <2>4, <3>1
    <3>3. queue'[j].msg = MsgAt(Sent + j)'
      <4>1. queue[j + 1].msg = MsgAt(Sent + (j + 1))
        BY <3>1 DEF QueueOK
      <4> QED
        BY <3>1, <3>2, <4>1 DEF MsgAt
    <3> QED
      BY <3>1, <3>3 DEF QueueOK
  <2>7. QueueOK'
    <3>1. Sent' \in Nat
      BY <1>1, <2>4
    <3>2. up'["sender"]
      OBVIOUS
    <3> QED
      BY <2>2, <2>6, <3>1, <3>2 DEF QueueOK
  <2>8. NextAt' = 1
    <3>1. CASE queue' = <<>>
      BY <3>1 DEF NextAt
    <3>2. CASE queue' # <<>>
      <4>1. 1 \in DOMAIN queue'
        BY <2>2, <2>3, <3>2
      <4>2. queue'[1].remaining = Size(queue'[1].msg) /\ queue'[1].msg \in Messages
        <5>1. 2 \in DOMAIN queue /\ queue'[1] = queue[2]
          BY <2>6, <4>1
        <5> QED
          BY <2>6, <4>1, <5>1, QueueFacts
      <4> QED
        BY <3>2, <4>2, Sizes DEF NextAt
    <3> QED
      BY <3>1, <3>2
  <2>9. {queue'[i].fd : i \in DOMAIN queue'} \ {None}
                      = ({queue[i].fd : i \in DOMAIN queue} \ {None}) \ {queue[1].fd}
    <3>1. \A i \in DOMAIN queue : i # 1 => (i - 1 \in DOMAIN queue' /\ queue'[i - 1] = queue[i])
      <4> SUFFICES ASSUME NEW i \in DOMAIN queue, i # 1
                   PROVE  i - 1 \in DOMAIN queue' /\ queue'[i - 1] = queue[i]
        OBVIOUS
      <4>1. i - 1 \in 1 .. Len(queue) - 1 /\ (i - 1) + 1 = i
        BY <1>1
      <4> QED
        BY <2>2, <2>3, <4>1
    <3>2. \A i \in DOMAIN queue' : i + 1 \in DOMAIN queue /\ queue'[i] = queue[i + 1] /\ i + 1 # 1
      BY <2>3, <2>6
    <3>3. ASSUME NEW f \in {queue'[i].fd : i \in DOMAIN queue'} \ {None}
          PROVE  f \in ({queue[i].fd : i \in DOMAIN queue} \ {None}) \ {queue[1].fd}
      <4>1. PICK i \in DOMAIN queue' : f = queue'[i].fd
        OBVIOUS
      <4>2. i + 1 \in DOMAIN queue /\ f = queue[i + 1].fd /\ i + 1 # 1 /\ f # None
        BY <3>2, <4>1
      <4>3. f # queue[1].fd
        BY <1>1, <1>4, <4>2
      <4> QED
        BY <4>2, <4>3
    <3>4. ASSUME NEW f \in ({queue[i].fd : i \in DOMAIN queue} \ {None}) \ {queue[1].fd}
          PROVE  f \in {queue'[i].fd : i \in DOMAIN queue'} \ {None}
      <4>1. PICK i \in DOMAIN queue : f = queue[i].fd
        OBVIOUS
      <4>2. i # 1 /\ f # None
        BY <4>1
      <4>3. i - 1 \in DOMAIN queue' /\ queue'[i - 1].fd = f
        BY <3>1, <4>1, <4>2
      <4> QED
        BY <4>2, <4>3
    <3> QED
      BY <3>3, <3>4
  <2> QED
    BY <1>5, <2>5, <2>7, <2>8, <2>9
<1>6. CASE n # r
  <2> DEFINE x == [msg |-> m, remaining |-> r - n, fd |-> None]
  <2>1. queue' = [queue EXCEPT ![1] = x]
    <3>1. queue' = [queue EXCEPT ![1].remaining = @ - n, ![1].fd = None]
      BY <1>6 DEF AfterSend
    <3> QED
      BY <1>1, <3>1
  <2>2. x \in QT /\ r - n \in Nat \ {0} /\ r - n < Size(m)
    BY <1>1, <1>2, <1>6
  <2> HIDE DEF x
  <2>3. /\ queue' \in Seq(QT) /\ Len(queue') = Len(queue)
        /\ \A j \in DOMAIN queue : queue'[j] = IF j = 1 THEN x ELSE queue[j]
    BY <1>1, <1>2, <2>1, <2>2, ExceptSeq
  <2>4. DOMAIN queue' = DOMAIN queue /\ Sent' = Sent /\ NextMsg' = NextMsg /\ queue # <<>> /\ queue' # <<>>
    BY <1>1, <2>3 DEF Sent, NextMsg
  <2>5. NextAt' = NextAt + n
    <3>1. NextAt' = Size(m) - (r - n) + 1
      BY <1>1, <2>3, <2>4 DEF NextAt, x
    <3> QED
      BY <1>1, <1>2, <3>1
  <2>6. ASSUME NEW j \in DOMAIN queue
        PROVE  /\ queue'[j].msg = MsgAt(Sent + j)'
               /\ queue'[j].remaining \in 1 .. Size(queue'[j].msg)
               /\ queue'[j].fd = IF queue'[j].remaining = Size(queue'[j].msg) THEN FdOf(queue'[j].msg) ELSE None
               /\ j # 1 => queue'[j].remaining = Size(queue'[j].msg)
    <3>1. queue[j].msg = MsgAt(Sent + j)'
      <4>1. queue[j].msg = MsgAt(Sent + j)
        BY DEF QueueOK
      <4> QED
        BY <2>4, <4>1 DEF MsgAt
    <3>2. CASE j = 1
      BY <1>2, <2>2, <2>3, <3>1, <3>2 DEF x
    <3>3. CASE j # 1
      BY <2>3, <3>1, <3>3 DEF QueueOK
    <3> QED
      BY <3>2, <3>3
  <2>7. QueueOK'
    BY <1>1, <2>3, <2>4, <2>6 DEF QueueOK
  <2>8. {queue'[i].fd : i \in DOMAIN queue'} \ {None}
                      = ({queue[i].fd : i \in DOMAIN queue} \ {None}) \ {queue[1].fd}
    <3>1. queue'[1].fd = None
      BY <1>1, <2>3, SMTT(60) DEF x
    <3>2. \A i \in DOMAIN queue : i # 1 => queue'[i] = queue[i]
      BY <2>3
    <3> QED
      BY <1>1, <1>4, <2>4, <3>1, <3>2, SMTT(60)
  <2> QED
    BY <1>6, <2>4, <2>5, <2>7, <2>8
<1> QED
  BY <1>5, <1>6

LEMMA WriteStep ==
    ASSUME IInv, Write
    PROVE  IInv'
<1> DEFINE m == queue[1].msg
           r == queue[1].remaining
           n == Min({Head(queue).remaining, Room})
           u == Units(Head(queue), n)
           l == Len(wire)
<1>1. /\ PostedOK /\ QueueOK /\ ReaderOK /\ WireOK /\ Connected /\ EndsOK
  BY DEF IInv
<1>2. /\ up["sender"] /\ up["receiver"] /\ queue # <<>> /\ Room > 0
      /\ wire' = wire \o u /\ queue' = AfterSend(Head(queue), n)
      /\ fds' = [fds EXCEPT !["sender"] = @ \ {Head(queue).fd}]
      /\ UNCHANGED <<tried, rd, up, posted, received>>
  BY DEF Write
<1>3. UnitsOK(wire) /\ wire \in Seq(Unit) /\ l \in Nat /\ DOMAIN wire = 1 .. l
  BY <1>1 DEF WireOK, UnitsOK
<1>4. Room \in Nat \ {0}
  <2>1. l \in Nat /\ Capacity \in Nat /\ Room = Capacity - l /\ Room > 0
    BY <1>2, <1>3, Sizes DEF Room
  <2> HIDE DEF l
  <2> QED
    BY <2>1
<1>5. /\ Head(queue) = queue[1] /\ n \in Nat \ {0} /\ n <= r
      /\ m \in Messages /\ m = MsgAt(NextMsg) /\ NextMsg \in DOMAIN posted
      /\ u \in Seq(Unit) /\ Len(u) = n /\ DOMAIN u = 1 .. n
      /\ \A i \in DOMAIN u : /\ u[i].msg = m /\ u[i].at = NextAt + i - 1
                             /\ u[i].at \in 1 .. Size(m)
                             /\ u[i].fd = IF u[i].at = 1 THEN FdOf(m) ELSE None
  BY <1>1, <1>2, <1>4, UnitsSent
<1>6. /\ NextAt = Size(m) - r + 1 /\ NextAt \in Nat \ {0} /\ NextMsg \in Nat \ {0} /\ r \in Nat \ {0}
      /\ Size(m) \in Nat
  <2>1. NextAt = Size(m) - r + 1 /\ NextAt \in Nat \ {0} /\ r \in Nat \ {0} /\ Sent \in Nat /\ NextMsg = Sent + 1
    BY <1>1, <1>2, QueueFacts
  <2>2. Size(m) \in Nat
    BY <1>5, Sizes
  <2> QED
    BY <2>1, <2>2
<1>7. /\ QueueOK'
      /\ n = r => NextMsg' = NextMsg + 1 /\ NextAt' = 1
      /\ n # r => NextMsg' = NextMsg /\ NextAt' = NextAt + n
      /\ {queue'[i].fd : i \in DOMAIN queue'} \ {None}
             = ({queue[i].fd : i \in DOMAIN queue} \ {None}) \ {queue[1].fd}
  <2> HIDE DEF n
  <2>1. queue' = AfterSend(queue[1], n) /\ n \in Nat \ {0} /\ n <= queue[1].remaining
    BY <1>2, <1>5
  <2> QED
    BY <1>1, <1>2, <2>1, QueueAfterSend
<1> HIDE DEF n, u, m, r
<1>8. /\ \A k : MsgAt(k)' = MsgAt(k)
      /\ DueMsg' = DueMsg /\ DueAt' = DueAt
      /\ \A x, y : Succeeds(x, y)' <=> Succeeds(x, y)
  BY <1>2 DEF MsgAt, DueMsg, DueAt, Succeeds
<1>9. PostedOK' /\ ReaderOK'
  BY <1>1, <1>2 DEF PostedOK, ReaderOK, MsgAt, DueMsg, DueAt
<1>10. wire # <<>> =>
          \/ wire[l].at < Size(wire[l].msg) /\ wire[l].msg = m /\ NextAt = wire[l].at + 1
          \/ wire[l].at = Size(wire[l].msg) /\ NextAt = 1 /\ Succeeds(wire[l].msg, m)
  <2> SUFFICES ASSUME wire # <<>>
               PROVE  \/ wire[l].at < Size(wire[l].msg) /\ wire[l].msg = m /\ NextAt = wire[l].at + 1
                      \/ wire[l].at = Size(wire[l].msg) /\ NextAt = 1 /\ Succeeds(wire[l].msg, m)
    OBVIOUS
  <2>1. After(wire[l], NextMsg, NextAt)
    BY <1>1, <1>2 DEF Connected
  <2>2. CASE wire[l].at < Size(wire[l].msg)
    <3>1. wire[l].at \in Nat /\ wire[l].msg \in Messages
      <4>1. wire[l] \in Unit
        BY <1>3, ElementOfSeq
      <4> QED
        BY <4>1 DEF Unit
    <3>2. ~ (wire[l].at = Size(wire[l].msg))
      BY <2>2, <3>1, Sizes
    <3> QED
      BY <1>5, <2>1, <2>2, <3>2 DEF After
  <2>3. CASE ~ (wire[l].at < Size(wire[l].msg))
    <3>1. NextMsg - 1 \in DOMAIN posted /\ wire[l].msg = MsgAt(NextMsg - 1) /\ (NextMsg - 1) + 1 = NextMsg
      BY <1>6, <2>1, <2>3 DEF After
    <3> QED
      BY <1>5, <2>1, <2>3, <3>1 DEF After, Succeeds
  <2> QED
    BY <2>2, <2>3
<1>11. UnitsOK(wire')
  BY <1>1, <1>2, <1>3, <1>5, <1>6, <1>10, PostedFacts, UnitsExtended, ZenonT(60)
<1>12. /\ wire' \in Seq(Unit) /\ Len(wire') = l + n
       /\ \A i \in 1 .. l + n : wire'[i] = IF i <= l THEN wire[i] ELSE u[i - l]
  <2>1. /\ wire \o u \in Seq(Unit) /\ Len(wire \o u) = l + Len(u)
        /\ \A i \in 1 .. l + Len(u) : (wire \o u)[i] = IF i <= l THEN wire[i] ELSE u[i - l]
    BY <1>3, <1>5, ConcatProperties, ZenonT(60)
  <2> QED
    BY <1>2, <1>5, <2>1
<1>13. wire' # <<>> /\ wire'[l + n] = u[n]
  <2>1. l + n \in 1 .. l + n /\ ~ (l + n <= l) /\ (l + n) - l = n
    BY <1>3, <1>5
  <2>2. wire' # <<>>
    BY <1>3, <1>5, <1>12
  <2> QED
    BY <1>12, <2>1, <2>2
<1>14. WireOK'
  <2>1. UnitsOK(wire)'
    BY <1>8, <1>11 DEF UnitsOK
  <2>2. CASE wire = <<>>
    <3>1. l = 0 /\ 1 \in 1 .. n /\ 1 \in 1 .. l + n
      BY <1>3, <1>5, <2>2
    <3>2. wire'[1] = u[1]
      BY <1>12, <3>1
    <3>3. NextMsg = DueMsg /\ NextAt = DueAt
      BY <1>1, <1>2, <2>2 DEF Connected
    <3>4. u[1].msg = m /\ u[1].at = NextAt
      BY <1>5, <1>6, <3>1
    <3> QED
      BY <1>2, <1>5, <1>8, <2>1, <3>2, <3>3, <3>4 DEF WireOK, MsgAt
  <2>3. CASE wire # <<>>
    <3>1. 1 <= l /\ 1 \in 1 .. l + n
      BY <1>3, <1>5, <2>3
    <3>2. wire'[1] = wire[1]
      BY <1>12, <3>1
    <3> QED
      BY <1>1, <1>2, <1>8, <2>1, <2>3, <3>2 DEF WireOK, MsgAt
  <2> QED
    BY <2>2, <2>3
<1>15. Connected'
  <2>1. u[n].msg = m /\ u[n].at = NextAt + n - 1
    BY <1>5
  <2>2. \/ u[n].at < Size(u[n].msg) /\ NextMsg' \in DOMAIN posted' /\ u[n].msg = MsgAt(NextMsg)' /\ NextAt' = u[n].at + 1
        \/ u[n].at = Size(u[n].msg) /\ NextMsg' - 1 \in DOMAIN posted' /\ u[n].msg = MsgAt(NextMsg - 1)' /\ NextAt' = 1
    <3>1. CASE n = r
      <4>1. u[n].at = Size(m) /\ NextMsg' - 1 = NextMsg /\ NextAt' = 1
        BY <1>6, <1>7, <2>1, <3>1
      <4> QED
        BY <1>2, <1>5, <2>1, <4>1 DEF MsgAt
    <3>2. CASE n # r
      <4>1. u[n].at < Size(m) /\ NextMsg' = NextMsg /\ NextAt' = u[n].at + 1
        BY <1>5, <1>6, <1>7, <2>1, <3>2
      <4> QED
        BY <1>2, <1>5, <2>1, <4>1 DEF MsgAt
    <3> QED
      BY <3>1, <3>2
  <2> QED
    BY <1>12, <1>13, <2>2 DEF Connected, After
<1>16. EndsOK'
  <2>1. /\ fds'["sender"] = fds["sender"] \ {queue[1].fd} /\ fds'["receiver"] = fds["receiver"]
        /\ fds' \in [Ends -> SUBSET Messages]
    BY <1>1, <1>2, <1>5 DEF EndsOK, Ends
  <2> QED
    BY <1>1, <1>2, <1>7, <2>1 DEF EndsOK
<1> QED
  BY <1>7, <1>9, <1>14, <1>15, <1>16 DEF IInv

(* Both ways in which the sender's end is closed. *)
LEMMA SenderClosesStep ==
    ASSUME IInv, SenderCloses, UNCHANGED <<tried, wire, rd, posted, received>>
    PROVE  IInv'
<1>1. /\ PostedOK /\ QueueOK /\ ReaderOK /\ WireOK /\ EndsOK
  BY DEF IInv
<1>2. /\ up' \in [Ends -> BOOLEAN] /\ ~up'["sender"] /\ up'["receiver"] = up["receiver"]
      /\ queue' = <<>>
      /\ fds' = [fds EXCEPT !["sender"] = @ \ {queue[i].fd : i \in DOMAIN queue}]
  BY <1>1 DEF SenderCloses, EndsOK, Ends
<1>3. PostedOK' /\ ReaderOK' /\ WireOK'
  BY <1>1, <1>2 DEF PostedOK, ReaderOK, WireOK, UnitsOK, Succeeds, MsgAt, DueMsg, DueAt
<1>4. Len(queue') = 0 /\ DOMAIN queue' = {} /\ queue' \in Seq([msg : Messages, remaining : Nat, fd : Messages \cup {None}])
  BY <1>2
<1>5. QueueOK'
  <2>1. Sent' \in Nat
    BY <1>1, <1>4, PostedFacts DEF Sent
  <2> QED
    BY <1>2, <1>4, <2>1 DEF QueueOK
<1>6. EndsOK'
  <2>1. fds' \in [Ends -> SUBSET Messages] /\ fds'["sender"] = {} /\ fds'["receiver"] = fds["receiver"]
    BY <1>1, <1>2 DEF EndsOK, Ends
  <2>2. {queue'[i].fd : i \in DOMAIN queue'} = {}
    BY <1>4
  <2> QED
    BY <1>1, <1>2, <2>1, <2>2 DEF EndsOK
<1> QED
  BY <1>2, <1>3, <1>5, <1>6 DEF IInv, Connected

-----------------------------------------------------------------------------
(* Steps of the receiver                                                     *)

(* What the sender keeps is its own. *)
LEMMA SenderKept ==
    ASSUME PostedOK, QueueOK, UNCHANGED <<tried, queue, posted>>, up'["sender"] = up["sender"]
    PROVE  /\ PostedOK' /\ QueueOK' /\ NextMsg' = NextMsg /\ NextAt' = NextAt
           /\ \A k : MsgAt(k)' = MsgAt(k)
           /\ \A x, y : Succeeds(x, y)' <=> Succeeds(x, y)
BY DEF PostedOK, QueueOK, Sent, MsgAt, Succeeds, NextMsg, NextAt

(* Every way in which the receiver's end is closed. *)
LEMMA ReceiverClosesStep ==
    ASSUME IInv, ReceiverCloses, UNCHANGED <<tried, queue, posted, received>>
    PROVE  IInv'
<1>1. /\ PostedOK /\ QueueOK /\ ReaderOK /\ WireOK /\ EndsOK
  BY DEF IInv
<1>2. /\ up' \in [Ends -> BOOLEAN] /\ ~up'["receiver"] /\ up'["sender"] = up["sender"]
      /\ wire' = <<>> /\ rd' = [rd EXCEPT !.reading = FALSE, !.scm = None]
      /\ fds' = [fds EXCEPT !["receiver"] = @ \ {rd.scm}]
  BY <1>1 DEF ReceiverCloses, EndsOK, Ends
<1>3. PostedOK' /\ QueueOK'
  BY <1>1, <1>2, SenderKept
<1>4. ReaderOK' /\ rd'.scm = None
  BY <1>1, <1>2 DEF ReaderOK
<1>5. WireOK'
  BY <1>2 DEF WireOK, UnitsOK
<1>6. EndsOK'
  <2>1. fds' \in [Ends -> SUBSET Messages] /\ fds'["receiver"] = {} /\ fds'["sender"] = fds["sender"]
    BY <1>1, <1>2 DEF EndsOK, Ends
  <2> QED
    BY <1>1, <1>2, <1>4, <2>1 DEF EndsOK
<1> QED
  BY <1>2, <1>3, <1>4, <1>5, <1>6 DEF IInv, Connected

(* The steps that only begin or end a call of ipc_ct_read. *)
LEMMA ReadingStep ==
    ASSUME IInv, UNCHANGED <<tried, queue, wire, up, fds, posted, received>>,
           NEW b \in BOOLEAN, NEW h \in BOOLEAN, rd' = [rd EXCEPT !.reading = b, !.hup = h]
    PROVE  IInv'
<1>1. /\ PostedOK /\ QueueOK /\ ReaderOK /\ WireOK /\ Connected /\ EndsOK
  BY DEF IInv
<1>2. PostedOK' /\ QueueOK' /\ NextMsg' = NextMsg /\ NextAt' = NextAt
      /\ \A k : MsgAt(k)' = MsgAt(k)
  BY <1>1, SenderKept
<1>3. /\ rd'.header = rd.header /\ rd'.pending = rd.pending /\ rd'.scm = rd.scm /\ rd'.tokener = rd.tokener
      /\ rd' \in [header : BOOLEAN, pending : Nat, scm : Messages \cup {None},
                  tokener : Seq(Unit), reading : BOOLEAN, hup : BOOLEAN]
  BY <1>1 DEF ReaderOK
<1>4. DueMsg' = DueMsg /\ DueAt' = DueAt
  BY <1>3 DEF DueMsg, DueAt, MsgAt
<1>5. ReaderOK'
  BY <1>1, <1>3, <1>4 DEF ReaderOK, MsgAt
<1>6. WireOK' /\ EndsOK'
  BY <1>1, <1>3, <1>4 DEF WireOK, UnitsOK, Succeeds, MsgAt, EndsOK
<1>7. Connected'
  BY <1>1, <1>2, <1>4 DEF Connected, After, MsgAt
<1> QED
  BY <1>2, <1>5, <1>6, <1>7 DEF IInv

(* What a read gets: the next units of the message that is due. *)
LEMMA GotFacts ==
    ASSUME PostedOK, ReaderOK, WireOK, up["receiver"], wire # <<>>
    PROVE  LET g == Len(Got)
               m == MsgAt(DueMsg)
           IN  /\ DueMsg \in DOMAIN posted /\ m \in Messages
               /\ g \in Nat \ {0} /\ g <= Len(wire) /\ g <= rd.pending
               /\ Got \in Seq(Unit) /\ DOMAIN Got = 1 .. g
               /\ DueAt + g <= Size(m) + 1
               /\ rd.header => DueAt + rd.pending = HeaderSize + 1
               /\ ~rd.header => DueAt + rd.pending = Size(m) + 1
               /\ \A i \in 1 .. g : /\ wire[i].msg = m /\ wire[i].at = DueAt + i - 1
                                    /\ Got[i] = wire[i]
                                    /\ Got[i].fd = IF Got[i].at = 1 THEN FdOf(m) ELSE None
<1> DEFINE m == MsgAt(DueMsg)
           l == Len(wire)
           p == rd.pending
           g == Min({Wanted, l})
           d == DueAt
           z == Size(m)
<1>1. /\ UnitsOK(wire) /\ wire \in Seq(Unit) /\ l \in Nat \ {0} /\ DOMAIN wire = 1 .. l
      /\ DueMsg \in DOMAIN posted /\ wire[1].msg = m /\ wire[1].at = d
  BY DEF WireOK, UnitsOK
<1>2. /\ m \in Messages /\ z \in Nat /\ z > HeaderSize /\ z = HeaderSize + Body[m] /\ Body[m] \in Nat /\ HeaderSize \in Nat
      /\ BufSize - 1 \in Nat \ {0}
  BY <1>1, PostedFacts, Sizes
<1>3. /\ p \in Nat \ {0} /\ d \in Nat \ {0}
      /\ rd.header => d = HeaderSize - p + 1 /\ p <= HeaderSize
      /\ ~rd.header => d = z - p + 1 /\ p <= Body[m]
  BY ReaderFacts
<1>4. Wanted \in Nat \ {0} /\ Wanted <= p
  <2>1. Wanted = IF BufSize - 1 <= p THEN BufSize - 1 ELSE p
    BY <1>2, <1>3, MinOfTwo DEF Wanted
  <2> QED
    BY <1>2, <1>3, <2>1
<1>5. g \in Nat \ {0} /\ g <= l /\ g <= p
  <2>1. g = IF Wanted <= l THEN Wanted ELSE l
    BY <1>1, <1>4, MinOfTwo
  <2> QED
    BY <1>1, <1>3, <1>4, <2>1
<1>6. Got = SubSeq(wire, 1, g)
  BY DEF Got
<1> HIDE DEF g, l, p, d, m, z
<1>7. /\ Got \in Seq(Unit) /\ Len(Got) = g
      /\ \A i \in 1 .. g : Got[i] = wire[i]
  <2>1. \A i \in 1 .. g : wire[i] \in Unit
    BY <1>1, <1>5, ElementOfSeq DEF l
  <2>2. /\ Got \in Seq(Unit) /\ Len(Got) = IF 1 <= g THEN g - 1 + 1 ELSE 0
        /\ \A i \in 1 .. g - 1 + 1 : Got[i] = wire[1 + i - 1]
    BY <1>5, <1>6, <2>1, SubSeqProperties
  <2>3. g - 1 + 1 = g /\ 1 <= g /\ \A i \in 1 .. g : 1 + i - 1 = i
    BY <1>5
  <2> QED
    BY <2>2, <2>3
<1>8. DOMAIN Got = 1 .. g
  BY <1>5, <1>7, LenProperties
<1>9. /\ d + g <= z + 1
      /\ rd.header => d + p = HeaderSize + 1
      /\ ~rd.header => d + p = z + 1
  <2> DEFINE h == HeaderSize
  <2>1. h \in Nat /\ z \in Nat /\ z > h /\ p \in Nat /\ d \in Nat /\ g \in Nat /\ g <= p
    BY <1>2, <1>3, <1>5
  <2> HIDE DEF h
  <2>2. ASSUME rd.header PROVE d + p = h + 1 /\ d + g <= z + 1
    <3>1. d = h - p + 1
      BY <1>3, <2>2 DEF h
    <3> QED
      BY <2>1, <3>1
  <2>3. ASSUME ~rd.header PROVE d + p = z + 1 /\ d + g <= z + 1
    <3>1. d = z - p + 1
      BY <1>3, <2>3
    <3> QED
      BY <2>1, <3>1
  <2> QED
    BY <2>2, <2>3 DEF h
<1>10. ASSUME NEW i \in 1 .. g
       PROVE  /\ wire[i].msg = m /\ wire[i].at = d + i - 1
              /\ wire[i].fd = IF wire[i].at = 1 THEN FdOf(m) ELSE None
  <2>1. i \in DOMAIN wire /\ d + i - 1 <= z
    BY <1>1, <1>2, <1>3, <1>5, <1>9
  <2>2. wire[i].msg = m /\ wire[i].at = d + i - 1
    BY <1>1, <2>1, UnitAt DEF z
  <2>3. wire[i].fd = IF wire[i].at = 1 THEN FdOf(wire[i].msg) ELSE None
    BY <1>1, <2>1 DEF UnitsOK
  <2> QED
    BY <2>2, <2>3
<1> QED
  BY <1>1, <1>2, <1>5, <1>7, <1>8, <1>9, <1>10 DEF m, l, p, d, z

(* The receiver keeps its place before the first unit.  It goes on in the       *)
(* message or to the next one.                                               *)
LEMMA WireAfterRead ==
    ASSUME PostedOK, QueueOK, ReaderOK, WireOK, Connected, up["receiver"], wire # <<>>,
           UNCHANGED <<tried, queue, posted, up>>,
           wire' = SubSeq(wire, Len(Got) + 1, Len(wire)),
           \/ DueMsg' = DueMsg /\ DueAt' = DueAt + Len(Got) /\ DueAt' <= Size(MsgAt(DueMsg))
           \/ DueMsg' = DueMsg + 1 /\ DueAt' = 1 /\ DueAt + Len(Got) = Size(MsgAt(DueMsg)) + 1
    PROVE  WireOK' /\ Connected'
<1> DEFINE m == MsgAt(DueMsg)
           l == Len(wire)
           g == Len(Got)
           d == DueAt
           k == DueMsg
           z == Size(m)
<1>1. /\ UnitsOK(wire) /\ wire \in Seq(Unit) /\ l \in Nat \ {0} /\ DOMAIN wire = 1 .. l
      /\ k \in DOMAIN posted /\ wire[1].msg = m /\ wire[1].at = d
  BY DEF WireOK, UnitsOK
<1>2. m \in Messages /\ z \in Nat /\ d \in Nat \ {0} /\ k \in Nat \ {0}
  BY <1>1, PostedFacts, ReaderFacts, Sizes
<1>3. /\ g \in Nat \ {0} /\ g <= l
      /\ \A i \in 1 .. g : wire[i].msg = m /\ wire[i].at = d + i - 1
  BY GotFacts
<1>4. /\ \A x : MsgAt(x)' = MsgAt(x)
      /\ \A x, y : Succeeds(x, y)' <=> Succeeds(x, y)
      /\ NextMsg' = NextMsg /\ NextAt' = NextAt
  BY DEF MsgAt, Succeeds, NextMsg, NextAt, Sent
<1>5. \/ k' = k /\ d' = d + g /\ d' <= z
      \/ k' = k + 1 /\ d' = 1 /\ d + g = z + 1
  OBVIOUS
<1> HIDE DEF m, g, z
<1>6. /\ UnitsOK(wire') /\ Len(wire') = l - g
      /\ \A i \in DOMAIN wire' : i + g \in DOMAIN wire /\ wire'[i] = wire[i + g]
  <2>1. g \in 0 .. Len(wire) /\ wire' = SubSeq(wire, g + 1, Len(wire))
    BY <1>1, <1>3 DEF g
  <2> DEFINE v == SubSeq(wire, g + 1, Len(wire))
  <2>2. /\ UnitsOK(v) /\ Len(v) = Len(wire) - g
        /\ \A i \in DOMAIN v : i + g \in DOMAIN wire /\ v[i] = wire[i + g]
    BY <1>1, <2>1, UnitsSuffix
  <2> QED
    BY <2>1, <2>2
<1>7. DOMAIN wire' = 1 .. Len(wire') /\ Len(wire') \in Nat
  BY <1>6 DEF UnitsOK
<1>8. wire[g].msg = m /\ wire[g].at = d + g - 1 /\ g \in DOMAIN wire
  BY <1>1, <1>3
<1>9. WireOK'
  <2>1. UnitsOK(wire)'
    BY <1>4, <1>6 DEF UnitsOK
  <2>2. ASSUME wire' # <<>>
        PROVE  k' \in DOMAIN posted /\ wire'[1].msg = MsgAt(k') /\ wire'[1].at = d'
    <3>1. 1 \in DOMAIN wire'
      BY <1>6, <2>2 DEF UnitsOK
    <3>2. g + 1 \in DOMAIN wire /\ wire'[1] = wire[g + 1]
      <4>1. 1 + g = g + 1
        BY <1>3
      <4> QED
        BY <1>6, <3>1, <4>1
    <3>3. CASE k' = k /\ d' = d + g /\ d' <= z
      <4>1. d + (g + 1) - 1 = d + g /\ d + g <= z
        BY <1>2, <1>3, <3>3
      <4>2. wire[g + 1].msg = m /\ wire[g + 1].at = d + (g + 1) - 1
        BY <1>1, <3>2, <4>1, UnitAt DEF z
      <4> QED
        BY <1>1, <3>2, <3>3, <4>1, <4>2 DEF m
    <3>4. CASE k' = k + 1 /\ d' = 1 /\ d + g = z + 1
      <4>1. wire[g].at = Size(wire[g].msg)
        <5>1. d + g - 1 = z
          BY <1>2, <1>3, <3>4
        <5> QED
          BY <1>8, <5>1 DEF z
      <4>2. wire[g + 1].at = 1 /\ Succeeds(m, wire[g + 1].msg)
        BY <1>1, <1>8, <3>2, <4>1 DEF UnitsOK
      <4>3. PICK j \in DOMAIN posted : j + 1 \in DOMAIN posted /\ MsgAt(j) = m /\ MsgAt(j + 1) = wire[g + 1].msg
        BY <4>2 DEF Succeeds
      <4>4. j = k
        BY <1>1, <4>3, PostedFacts DEF m
      <4> QED
        BY <3>2, <3>4, <4>2, <4>3, <4>4
    <3> QED
      BY <1>5, <3>3, <3>4
  <2> QED
    BY <1>4, <2>1, <2>2 DEF WireOK, MsgAt
<1>10. ASSUME up["sender"] PROVE Connected'
  <2>1. After(wire[l], NextMsg, NextAt)
    BY <1>10 DEF Connected
  <2>2. CASE wire' = <<>>
    <3>1. g = l
      <4>1. l - g = 0
        BY <1>6, <2>2
      <4>2. l \in Nat /\ g \in Nat
        BY <1>1, <1>3
      <4> HIDE DEF l
      <4> QED
        BY <4>1, <4>2
    <3>2. wire[l].msg = m /\ wire[l].at = d + g - 1
      BY <1>8, <3>1
    <3>3. CASE k' = k /\ d' = d + g /\ d' <= z
      <4>1. wire[l].at < Size(wire[l].msg) /\ wire[l].at # Size(wire[l].msg)
        BY <1>2, <1>3, <3>2, <3>3 DEF z
      <4>2. NextMsg \in DOMAIN posted /\ m = MsgAt(NextMsg) /\ NextAt = d + g
        BY <1>2, <1>3, <2>1, <3>2, <4>1 DEF After
      <4>3. NextMsg = k
        BY <1>1, <4>2, PostedFacts DEF m
      <4> QED
        BY <1>4, <2>2, <3>3, <4>2, <4>3 DEF Connected
    <3>4. CASE k' = k + 1 /\ d' = 1 /\ d + g = z + 1
      <4>1. ~ (wire[l].at < Size(wire[l].msg))
        BY <1>2, <1>3, <3>2, <3>4 DEF z
      <4>2. NextMsg - 1 \in DOMAIN posted /\ m = MsgAt(NextMsg - 1) /\ NextAt = 1
        BY <2>1, <3>2, <4>1 DEF After
      <4>3. NextMsg - 1 = k
        BY <1>1, <4>2, PostedFacts DEF m
      <4>4. NextMsg = k + 1
        BY <1>2, <4>3, QueueFacts
      <4> QED
        BY <1>4, <2>2, <3>4, <4>2, <4>4 DEF Connected
    <3> QED
      BY <1>5, <3>3, <3>4
  <2>3. CASE wire' # <<>>
    <3>1. Len(wire') \in DOMAIN wire' /\ wire'[Len(wire')] = wire[l]
      <4>1. Len(wire') \in DOMAIN wire'
        BY <1>6, <1>7, <2>3 DEF UnitsOK
      <4>2. Len(wire') + g = l
        <5> DEFINE lp == Len(wire')
        <5>1. lp = l - g /\ l \in Nat /\ g \in Nat
          BY <1>1, <1>3, <1>6
        <5> HIDE DEF l, lp
        <5>2. lp + g = l
          BY <5>1
        <5> QED
          BY <5>2 DEF lp
      <4> QED
        BY <1>6, <4>1, <4>2
    <3> QED
      BY <1>4, <2>1, <2>3, <3>1 DEF Connected, After, MsgAt
  <2> QED
    BY <2>2, <2>3
<1> QED
  BY <1>9, <1>10 DEF Connected

(* The descriptor of a message comes with its first unit, and is kept. *)
LEMMA ScmIsKept ==
    ASSUME PostedOK, ReaderOK, WireOK, up["receiver"], wire # <<>>
    PROVE  ScmAfter = FdOf(MsgAt(DueMsg)) /\ rd.scm \in {None, FdOf(MsgAt(DueMsg))}
<1> DEFINE m == MsgAt(DueMsg)
           g == Len(Got)
           came == {Got[i].fd : i \in DOMAIN Got} \ {None}
<1>1. /\ g \in Nat \ {0} /\ DOMAIN Got = 1 .. g
      /\ \A i \in 1 .. g : /\ Got[i].at = DueAt + i - 1
                           /\ Got[i].fd = IF Got[i].at = 1 THEN FdOf(m) ELSE None
  BY GotFacts
<1>2. DueAt \in Nat \ {0} /\ rd.scm = IF DueAt = 1 THEN None ELSE FdOf(m)
  BY ReaderFacts
<1>3. ScmAfter = IF rd.scm = None /\ came # {} THEN CHOOSE fd \in came : TRUE ELSE rd.scm
  BY DEF ScmAfter
<1>4. CASE DueAt = 1
  <2>1. \A i \in 1 .. g : Got[i].fd = IF i = 1 THEN FdOf(m) ELSE None
    BY <1>1, <1>4
  <2>2. came = {FdOf(m)} \ {None}
    BY <1>1, <2>1
  <2> QED
    BY <1>2, <1>3, <1>4, <2>2
<1>5. CASE DueAt # 1
  <2>1. \A i \in 1 .. g : Got[i].fd = None
    BY <1>1, <1>2, <1>5
  <2>2. came = {}
    BY <1>1, <2>1
  <2> QED
    BY <1>2, <1>3, <1>5, <2>2
<1> QED
  BY <1>4, <1>5

LEMMA ReadHeaderStep ==
    ASSUME IInv, up["receiver"], ReadHeader, UNCHANGED <<tried, queue, posted>>
    PROVE  IInv'
<1> DEFINE m == MsgAt(DueMsg)
           g == Len(Got)
           f == FdOf(m)
           p == rd.pending
<1>1. /\ PostedOK /\ QueueOK /\ ReaderOK /\ WireOK /\ Connected /\ EndsOK
  BY DEF IInv
<1>2. /\ rd.header /\ Got # <<>>
      /\ wire' = SubSeq(wire, Len(Got) + 1, Len(wire))
      /\ fds' = [fds EXCEPT !["receiver"] = @ \cup ({ScmAfter} \ {None})]
      /\ UNCHANGED <<up, received>>
  BY DEF ReadHeader
<1>3. wire # <<>>
  <2> SUFFICES ASSUME wire = <<>> PROVE FALSE
    OBVIOUS
  <2>1. Len(wire) = 0 /\ BufSize - 1 \in Nat /\ rd.pending \in Nat
    BY <1>1, Sizes DEF ReaderOK
  <2>2. Wanted \in Nat
    BY <2>1, MinOfTwo DEF Wanted
  <2>3. Min({Wanted, Len(wire)}) = 0
    BY <2>1, <2>2, MinOfTwo
  <2>4. Got = <<>>
    BY <2>3, SubSeqEmpty DEF Got
  <2> QED
    BY <1>2, <2>4
<1>4. /\ DueMsg \in DOMAIN posted /\ m \in Messages
      /\ g \in Nat \ {0} /\ g <= p /\ DOMAIN Got = 1 .. g
      /\ DueAt + p = HeaderSize + 1 /\ DueAt \in Nat \ {0}
      /\ \A i \in 1 .. g : Got[i].msg = m
  BY <1>1, <1>2, <1>3, GotFacts, ReaderFacts
<1>5. ScmAfter = f /\ rd.scm \in {None, f} /\ f \in Messages \cup {None}
  BY <1>1, <1>2, <1>3, <1>4, ScmIsKept, Sizes
<1>6. /\ p \in Nat \ {0} /\ p <= HeaderSize /\ rd.tokener = <<>> /\ HeaderSize \in Nat \ {0}
      /\ Body[m] \in Nat \ {0} /\ Size(m) \in Nat /\ Size(m) = HeaderSize + Body[m]
  BY <1>1, <1>2, <1>4, ReaderFacts, Sizes
<1>7. PostedOK' /\ QueueOK'
  BY <1>1, <1>2, SenderKept
<1>8. EndsOK'
  <2>1. rd'.scm = f
    BY <1>1, <1>5 DEF ReadHeader, ReaderOK
  <2>2. fds' \in [Ends -> SUBSET Messages] /\ fds'["sender"] = fds["sender"]
        /\ fds'["receiver"] = fds["receiver"] \cup ({f} \ {None})
    BY <1>1, <1>2, <1>5 DEF EndsOK, Ends
  <2>3. fds'["receiver"] = {f} \ {None}
    BY <1>1, <1>5, <2>2 DEF EndsOK
  <2>4. fds'["sender"] = {queue'[i].fd : i \in DOMAIN queue'} \ {None}
    BY <1>1, <2>2 DEF EndsOK
  <2>5. fds'["receiver"] = {rd'.scm} \ {None}
    BY <2>1, <2>3
  <2>6. up' \in [Ends -> BOOLEAN] /\ up'["receiver"]
    BY <1>1, <1>2 DEF EndsOK
  <2> QED
    BY <2>2, <2>4, <2>5, <2>6 DEF EndsOK
<1>9. DueMsg' = DueMsg /\ MsgAt(DueMsg)' = m
  BY <1>2 DEF DueMsg, MsgAt
<1>10. ReaderOK' /\ DueAt' = DueAt + g /\ DueAt' <= Size(m)
  <2>1. CASE g < p /\ rd' = [rd EXCEPT !.pending = @ - g, !.scm = ScmAfter, !.reading = FALSE]
    <3>1. /\ rd'.header /\ rd'.pending = p - g /\ rd'.scm = f /\ rd'.tokener = <<>>
          /\ rd' \in [header : BOOLEAN, pending : Nat, scm : Messages \cup {None},
                      tokener : Seq(Unit), reading : BOOLEAN, hup : BOOLEAN]
      <4>1. p - g \in Nat
        BY <1>4, <1>6, <2>1
      <4> QED
        BY <1>1, <1>2, <1>5, <1>6, <2>1, <4>1 DEF ReaderOK
    <3>2. DueAt' = HeaderSize - (p - g) + 1
      BY <3>1 DEF DueAt
    <3> DEFINE h == HeaderSize
               d == DueAt
    <3>3. h \in Nat /\ p \in Nat /\ g \in Nat /\ d + p = h + 1 /\ g < p /\ g > 0 /\ d \in Nat \ {0} /\ p <= h
      BY <1>4, <1>6, <2>1
    <3>4. DueAt' = h - (p - g) + 1 /\ Size(m) = h + Body[m]
      BY <1>6, <3>2
    <3>a. h - (p - g) + 1 = d + g /\ d + g <= h /\ d + g # 1 /\ p - g \in 1 .. h
      <4> HIDE DEF h, d, p, g
      <4> QED
        BY <3>3
    <3>5. DueAt' = DueAt + g /\ DueAt' <= Size(m)
      <4>1. Size(m) >= h
        BY <1>6
      <4> HIDE DEF h, d, p, g
      <4>2. DueAt' = d + g /\ d + g <= Size(m)
        BY <1>6, <3>3, <3>4, <3>a, <4>1
      <4> QED
        BY <4>2 DEF d
    <3>6. ReaderOK'
      <4>1. DueAt' # 1 /\ rd'.pending \in 1 .. HeaderSize
        BY <3>1, <3>5, <3>a
      <4> QED
        BY <1>1, <1>2, <1>4, <1>9, <3>1, <4>1 DEF ReaderOK
    <3> QED
      BY <3>5, <3>6
  <2>2. CASE /\ g = p
             /\ rd' = [rd EXCEPT !.header = FALSE, !.pending = Body[Last(Got).msg], !.scm = ScmAfter]
    <3>1. Last(Got).msg = m
      BY <1>4 DEF Last
    <3>2. /\ ~rd'.header /\ rd'.pending = Body[m] /\ rd'.scm = f /\ rd'.tokener = <<>>
          /\ rd' \in [header : BOOLEAN, pending : Nat, scm : Messages \cup {None},
                      tokener : Seq(Unit), reading : BOOLEAN, hup : BOOLEAN]
      BY <1>1, <1>5, <1>6, <2>2, <3>1 DEF ReaderOK
    <3>3. DueAt' = Size(m) - Body[m] + 1
      BY <1>9, <3>2 DEF DueAt
    <3>4. DueAt' = HeaderSize + 1 /\ DueAt' = DueAt + g /\ DueAt' <= Size(m) /\ DueAt' # 1
      BY <1>4, <1>6, <2>2, <3>3
    <3>5. ReaderOK'
      <4>1. Len(rd'.tokener) = Body[m] - Body[m] /\ DOMAIN rd'.tokener = {}
        BY <1>6, <3>2
      <4>2. Len(received') <= Len(posted') /\ received' \in Seq([msg : Messages, fd : Messages \cup {None}])
        BY <1>1, <1>2 DEF ReaderOK
      <4>3. DueMsg' \in DOMAIN posted'
        BY <1>4, <1>9
      <4> QED
        BY <1>2, <1>6, <1>9, <3>2, <3>4, <4>1, <4>2, <4>3 DEF ReaderOK
    <3> QED
      BY <3>4, <3>5
  <2> QED
    BY <2>1, <2>2 DEF ReadHeader
<1>11. WireOK' /\ Connected'
  BY <1>1, <1>2, <1>3, <1>9, <1>10, WireAfterRead
<1> QED
  BY <1>7, <1>8, <1>10, <1>11 DEF IInv

(* What ipc_ct_read does with a part of a body: the tokener has the beginning   *)
(* of the message that is due, and it is that message once it is whole.       *)
LEMMA BodyIsRead ==
    ASSUME IInv, up["receiver"], ReadBody
    PROVE  LET m == MsgAt(DueMsg)
               g == Len(Got)
           IN  /\ wire # <<>> /\ ~rd.header
               /\ \/ /\ g = rd.pending
                     /\ received' = Append(received, posted[DueMsg])
                     /\ rd' = [rd EXCEPT !.header = TRUE, !.pending = HeaderSize, !.tokener = <<>>, !.scm = None]
                     /\ fds' = [fds EXCEPT !["receiver"] = @ \ {rd.scm}]
                  \/ /\ g < rd.pending
                     /\ rd' = [rd EXCEPT !.pending = @ - g, !.tokener = @ \o Got]
                     /\ \A i \in 1 .. Len(rd.tokener) + g : (rd.tokener \o Got)[i] = BodyOf(m)[i]
                     /\ UNCHANGED <<received, fds>>
<1> DEFINE m == MsgAt(DueMsg)
           g == Len(Got)
           p == rd.pending
           t == Len(rd.tokener)
           b == Body[m]
           text == rd.tokener \o Got
           rest == [rd EXCEPT !.pending = @ - Len(Got)]
           next == IF rest.pending = 0 THEN Reset(rest) ELSE rest
           whole == {x \in Messages : BodyOf(x) = text}
           begun == \E x \in Messages : IsPrefix(text, BodyOf(x))
<1>1. /\ PostedOK /\ QueueOK /\ ReaderOK /\ WireOK /\ Connected /\ EndsOK
  BY DEF IInv
<1>2. ~rd.header /\ Got # <<>>
  BY DEF ReadBody
<1>3. wire # <<>>
  <2> SUFFICES ASSUME wire = <<>> PROVE FALSE
    OBVIOUS
  <2>1. Len(wire) = 0 /\ BufSize - 1 \in Nat /\ rd.pending \in Nat
    BY <1>1, Sizes DEF ReaderOK
  <2>2. Wanted \in Nat
    BY <2>1, MinOfTwo DEF Wanted
  <2>3. Min({Wanted, Len(wire)}) = 0
    BY <2>1, <2>2, MinOfTwo
  <2>4. Got = <<>>
    BY <2>3, SubSeqEmpty DEF Got
  <2> QED
    BY <1>2, <2>4
<1>4. IF whole # {}
      THEN /\ \E x \in whole : received' = Append(received, [msg |-> x, fd |-> rd.scm])
           /\ rd' = AfterMessage(next)
           /\ fds' = [fds EXCEPT !["receiver"] = @ \ {rd.scm}]
      ELSE /\ rd' = [next EXCEPT !.tokener = IF begun THEN text ELSE <<>>]
           /\ UNCHANGED <<received, fds>>
  BY DEF ReadBody
<1>5. /\ m \in Messages /\ DueMsg \in DOMAIN posted
      /\ g \in Nat \ {0} /\ g <= p /\ DOMAIN Got = 1 .. g /\ Got \in Seq(Unit)
      /\ DueAt + p = Size(m) + 1
      /\ \A i \in 1 .. g : /\ Got[i].msg = m /\ Got[i].at = DueAt + i - 1
                           /\ Got[i].fd = IF Got[i].at = 1 THEN FdOf(m) ELSE None
  BY <1>1, <1>2, <1>3, GotFacts
<1>6. /\ p \in Nat \ {0} /\ p <= b /\ t = b - p /\ DueAt > HeaderSize /\ DueAt \in Nat /\ t \in Nat
      /\ rd.scm = FdOf(m)
      /\ b \in Nat \ {0} /\ HeaderSize \in Nat \ {0} /\ Size(m) = HeaderSize + b
  <2>1. /\ p \in Nat \ {0} /\ p <= b /\ t = b - p /\ DueAt > HeaderSize /\ DueAt \in Nat
        /\ rd.scm = IF DueAt = 1 THEN None ELSE FdOf(m)
    BY <1>1, <1>2, ReaderFacts
  <2>2. b \in Nat \ {0} /\ HeaderSize \in Nat \ {0} /\ Size(m) = HeaderSize + b
    BY <1>5, Sizes
  <2>3. rd.tokener \in Seq(Unit)
    BY <1>1 DEF ReaderOK
  <2>4. DueAt # 1
    BY <2>1, <2>2
  <2> QED
    BY <2>1, <2>2, <2>3, <2>4
<1>7. \A i \in 1 .. t : rd.tokener[i] = BodyOf(m)[i]
  BY <1>1, <1>2 DEF ReaderOK
<1>8. rd.tokener \in Seq(Unit) /\ rd \in [header : BOOLEAN, pending : Nat, scm : Messages \cup {None},
               tokener : Seq(Unit), reading : BOOLEAN, hup : BOOLEAN]
  BY <1>1 DEF ReaderOK
<1>9. /\ text \in Seq(Unit) /\ Len(text) = t + g
      /\ \A i \in 1 .. t + g : text[i] = IF i <= t THEN rd.tokener[i] ELSE Got[i - t]
  BY <1>5, <1>8, ConcatProperties
<1>10. \A x \in Messages : \A i \in 1 .. Body[x] : BodyOf(x)[i] = [msg |-> x, at |-> HeaderSize + i, fd |-> None]
  BY DEF BodyOf
<1>11. \A x \in Messages : BodyOf(x) \in Seq(Unit) /\ Len(BodyOf(x)) = Body[x] /\ DOMAIN BodyOf(x) = 1 .. Body[x]
  <2> SUFFICES ASSUME NEW x \in Messages
               PROVE  BodyOf(x) \in Seq(Unit) /\ Len(BodyOf(x)) = Body[x] /\ DOMAIN BodyOf(x) = 1 .. Body[x]
    OBVIOUS
  <2>1. Body[x] \in Nat /\ HeaderSize \in Nat
    BY Sizes
  <2>2. \A i \in 1 .. Body[x] : [msg |-> x, at |-> HeaderSize + i, fd |-> None] \in Unit
    BY <2>1 DEF Unit
  <2> QED
    BY <2>1, <2>2 DEF BodyOf
<1> HIDE DEF m, g, p, t, b, text
<1>12. t + g <= b /\ t + g \in Nat \ {0} /\ (g = p <=> t + g = b) /\ (g # p => g < p)
  BY <1>5, <1>6
<1>13. ASSUME NEW i \in 1 .. t + g
       PROVE  text[i] = BodyOf(m)[i]
  <2>1. CASE i <= t
    <3>1. i \in 1 .. t
      BY <1>6, <2>1
    <3> QED
      BY <1>7, <1>9, <2>1, <3>1
  <2>2. CASE ~ (i <= t)
    <3>1. i - t \in 1 .. g /\ i \in 1 .. b
      BY <1>5, <1>6, <1>12, <2>2
    <3>2. DueAt = HeaderSize + t + 1
      BY <1>5, <1>6
    <3>3. DueAt + (i - t) - 1 = HeaderSize + i /\ HeaderSize + i # 1
      BY <1>6, <3>1, <3>2
    <3>4. Got[i - t].msg = m /\ Got[i - t].at = HeaderSize + i /\ Got[i - t].fd = None
      BY <1>5, <3>1, <3>3
    <3>5. Got[i - t] \in Unit
      BY <1>5, <3>1, ElementOfSeq DEF g
    <3>6. Got[i - t] = [msg |-> m, at |-> HeaderSize + i, fd |-> None]
      BY <3>4, <3>5 DEF Unit
    <3> QED
      BY <1>5, <1>9, <1>10, <2>2, <3>1, <3>6 DEF b
  <2> QED
    BY <2>1, <2>2
<1>14. ASSUME NEW x \in whole PROVE x = m /\ t + g = b
  <2>1. BodyOf(x) = text /\ x \in Messages
    OBVIOUS
  <2>2. 1 \in 1 .. t + g /\ 1 \in 1 .. b /\ Body[x] \in Nat \ {0} /\ 1 \in 1 .. Body[x]
    BY <1>6, <1>12, <2>1, Sizes
  <2>a. ASSUME NEW y \in Messages PROVE BodyOf(y)[1].msg = y
    <3>1. 1 \in 1 .. Body[y]
      BY Sizes
    <3>2. BodyOf(y)[1] = [msg |-> y, at |-> HeaderSize + 1, fd |-> None]
      BY <1>10, <3>1
    <3> QED
      BY <3>2
  <2>3. text[1].msg = m
    <3>1. text[1] = BodyOf(m)[1]
      BY <1>13, <2>2
    <3> QED
      BY <1>5, <2>a, <3>1
  <2>4. text[1].msg = x
    BY <2>a, <2>1
  <2>5. x = m
    BY <2>3, <2>4
  <2>6. Len(text) = b
    BY <1>11, <2>1, <2>5 DEF b
  <2> QED
    BY <1>9, <2>5, <2>6
<1>15. CASE g = p
  <2>1. BodyOf(m) = text
    <3>1. Len(text) = Len(BodyOf(m))
      BY <1>5, <1>9, <1>11, <1>12, <1>15 DEF b
    <3>2. \A i \in 1 .. Len(text) : text[i] = BodyOf(m)[i]
      BY <1>9, <1>13
    <3> QED
      BY <1>5, <1>9, <1>11, <3>1, <3>2, SeqEqual
  <2>2. whole = {m}
    BY <1>5, <1>14, <2>1
  <2>3. posted[DueMsg] = [msg |-> m, fd |-> rd.scm]
    BY <1>1, <1>5, <1>6, PostedFacts DEF Payload, m
  <2>4. received' = Append(received, posted[DueMsg])
    BY <1>4, <2>2, <2>3
  <2>5. rest.pending = 0 /\ rest = [rd EXCEPT !.pending = 0]
    BY <1>6, <1>8, <1>15 DEF g, p
  <2>6. AfterMessage(next) = [rd EXCEPT !.header = TRUE, !.pending = HeaderSize, !.tokener = <<>>, !.scm = None]
    BY <1>8, <2>5 DEF AfterMessage, Reset
  <2> QED
    BY <1>2, <1>3, <1>4, <1>15, <2>2, <2>4, <2>6 DEF g, p
<1>16. CASE g # p
  <2>1. whole = {}
    BY <1>12, <1>14, <1>16
  <2>2. begun
    <3>1. Len(text) = t + g /\ Len(BodyOf(m)) = b
      BY <1>5, <1>9, <1>11 DEF b
    <3>2. \A i \in 1 .. t + g : text[i] \in Unit /\ BodyOf(m)[i] = text[i]
      BY <1>9, <1>13, ElementOfSeq
    <3>3. SubSeq(text, 1, t + g) = SubSeq(BodyOf(m), 1, t + g)
      <4> DEFINE n == t + g
                 a == SubSeq(text, 1, n)
                 c == SubSeq(BodyOf(m), 1, n)
      <4>1. n \in Nat \ {0} /\ n - 1 + 1 = n /\ 1 <= n /\ \A i \in 1 .. n : 1 + i - 1 = i
        BY <1>12
      <4> HIDE DEF n
      <4>2. /\ a \in Seq(Unit) /\ Len(a) = n /\ \A i \in 1 .. n : a[i] = text[i]
        <5>1. \A i \in 1 .. n : text[i] \in Unit
          BY <3>2 DEF n
        <5>2. /\ a \in Seq(Unit) /\ Len(a) = (IF 1 <= n THEN n - 1 + 1 ELSE 0)
              /\ \A i \in 1 .. n - 1 + 1 : a[i] = text[1 + i - 1]
          BY <4>1, <5>1, SubSeqProperties
        <5> QED
          BY <4>1, <5>2
      <4>3. /\ c \in Seq(Unit) /\ Len(c) = n /\ \A i \in 1 .. n : c[i] = BodyOf(m)[i]
        <5>1. \A i \in 1 .. n : BodyOf(m)[i] \in Unit
          BY <3>2 DEF n
        <5>2. /\ c \in Seq(Unit) /\ Len(c) = (IF 1 <= n THEN n - 1 + 1 ELSE 0)
              /\ \A i \in 1 .. n - 1 + 1 : c[i] = BodyOf(m)[1 + i - 1]
          BY <4>1, <5>1, SubSeqProperties
        <5> QED
          BY <4>1, <5>2
      <4>4. \A i \in 1 .. Len(a) : a[i] = c[i]
        BY <3>2, <4>2, <4>3 DEF n
      <4> HIDE DEF a, c
      <4>5. a = c
        BY <4>2, <4>3, <4>4, SeqEqual
      <4> QED
        BY <4>5 DEF a, c, n
    <3>4. IsPrefix(text, BodyOf(m))
      BY <1>12, <3>1, <3>3 DEF IsPrefix
    <3> QED
      BY <1>5, <3>4
  <2>3. g < p /\ p - g # 0
    BY <1>5, <1>6, <1>12, <1>16
  <2>4. next = [rd EXCEPT !.pending = @ - g]
    BY <1>8, <2>3 DEF g, p
  <2>5. rd' = [rd EXCEPT !.pending = @ - g, !.tokener = text] /\ UNCHANGED <<received, fds>>
    BY <1>4, <1>8, <2>1, <2>2, <2>4
  <2> QED
    BY <1>2, <1>3, <1>8, <1>13, <2>3, <2>5 DEF g, p, m, t, text
<1> QED
  BY <1>15, <1>16

LEMMA ReadBodyStep ==
    ASSUME IInv, up["receiver"], ReadBody, UNCHANGED <<tried, queue, posted>>
    PROVE  IInv'
<1> DEFINE m == MsgAt(DueMsg)
           g == Len(Got)
           p == rd.pending
           h == HeaderSize
           d == DueAt
           k == DueMsg
           z == Size(m)
           RT == [msg : Messages, fd : Messages \cup {None}]
<1>1. /\ PostedOK /\ QueueOK /\ ReaderOK /\ WireOK /\ Connected /\ EndsOK
  BY DEF IInv
<1>2. /\ wire' = SubSeq(wire, Len(Got) + 1, Len(wire)) /\ UNCHANGED up
  BY DEF ReadBody
<1>3. /\ wire # <<>> /\ ~rd.header
      /\ \/ /\ g = p
            /\ received' = Append(received, posted[k])
            /\ rd' = [rd EXCEPT !.header = TRUE, !.pending = h, !.tokener = <<>>, !.scm = None]
            /\ fds' = [fds EXCEPT !["receiver"] = @ \ {rd.scm}]
         \/ /\ g < p
            /\ rd' = [rd EXCEPT !.pending = @ - g, !.tokener = @ \o Got]
            /\ \A i \in 1 .. Len(rd.tokener) + g : (rd.tokener \o Got)[i] = BodyOf(m)[i]
            /\ UNCHANGED <<received, fds>>
  BY BodyIsRead
<1>4. /\ m \in Messages /\ k \in DOMAIN posted /\ k \in Nat \ {0} /\ k = Len(received) + 1
      /\ g \in Nat \ {0} /\ g <= p /\ Got \in Seq(Unit)
      /\ d + p = z + 1 /\ d \in Nat \ {0}
  BY <1>1, <1>3, GotFacts, ReaderFacts
<1>5. /\ p \in Nat \ {0} /\ p <= Body[m] /\ Len(rd.tokener) = Body[m] - p
      /\ h \in Nat \ {0} /\ z \in Nat /\ z = h + Body[m] /\ Body[m] \in Nat \ {0}
      /\ rd.scm = FdOf(m) /\ d > h
  <2>1. /\ p \in Nat \ {0} /\ p <= Body[m] /\ Len(rd.tokener) = Body[m] - p
        /\ d > h /\ rd.scm = IF d = 1 THEN None ELSE FdOf(m)
    BY <1>1, <1>3, ReaderFacts
  <2>2. h \in Nat \ {0} /\ z \in Nat /\ z = h + Body[m] /\ Body[m] \in Nat \ {0}
    BY <1>4, Sizes
  <2>3. d # 1
    BY <1>4, <2>1, <2>2
  <2> QED
    BY <2>1, <2>2, <2>3
<1>6. PostedOK' /\ QueueOK'
  BY <1>1, <1>2, SenderKept
<1>7. /\ received \in Seq(RT) /\ Len(received) \in Nat /\ Len(received) <= Len(posted)
      /\ rd.tokener \in Seq(Unit) /\ rd.scm \in Messages \cup {None}
      /\ rd \in [header : BOOLEAN, pending : Nat, scm : Messages \cup {None},
               tokener : Seq(Unit), reading : BOOLEAN, hup : BOOLEAN]
  BY <1>1 DEF ReaderOK
<1>8. \A j : MsgAt(j)' = MsgAt(j)
  BY DEF MsgAt
<1>9. CASE /\ g = p
           /\ received' = Append(received, posted[k])
           /\ rd' = [rd EXCEPT !.header = TRUE, !.pending = h, !.tokener = <<>>, !.scm = None]
           /\ fds' = [fds EXCEPT !["receiver"] = @ \ {rd.scm}]
  <2>1. /\ rd'.header /\ rd'.pending = h /\ rd'.scm = None /\ rd'.tokener = <<>>
        /\ rd' \in [header : BOOLEAN, pending : Nat, scm : Messages \cup {None},
                    tokener : Seq(Unit), reading : BOOLEAN, hup : BOOLEAN]
    <3>1. h \in Nat /\ <<>> \in Seq(Unit) /\ None \in Messages \cup {None}
      BY <1>5, EmptySeq
    <3> HIDE DEF h
    <3> QED
      BY <1>7, <1>9, <3>1
  <2>2. posted[k] \in RT
    BY <1>1, <1>4, PostedFacts, Sizes
  <2>3. received' \in Seq(RT) /\ Len(received') = Len(received) + 1
    BY <1>7, <1>9, <2>2, AppendProperties
  <2>4. k' = k + 1 /\ Len(received') <= Len(posted')
    <3>1. k <= Len(posted)
      BY <1>1, <1>4, PostedFacts
    <3> QED
      BY <1>4, <2>3, <3>1 DEF DueMsg
  <2>5. d' = 1
    BY <1>5, <2>1 DEF DueAt
  <2>6. d + g = z + 1
    BY <1>4, <1>9
  <2>7. ReaderOK'
    <3>1. rd'.pending \in 1 .. HeaderSize
      BY <1>5, <2>1
    <3> QED
      BY <2>1, <2>3, <2>4, <2>5, <3>1 DEF ReaderOK
  <2>8. WireOK' /\ Connected'
    BY <1>1, <1>2, <1>3, <2>4, <2>5, <2>6, WireAfterRead
  <2>9. EndsOK'
    <3>1. fds' \in [Ends -> SUBSET Messages] /\ fds'["receiver"] = {} /\ fds'["sender"] = fds["sender"]
      BY <1>1, <1>9 DEF EndsOK, Ends
    <3>2. up' \in [Ends -> BOOLEAN] /\ up'["receiver"]
      BY <1>1, <1>2 DEF EndsOK
    <3>3. fds'["sender"] = {queue'[i].fd : i \in DOMAIN queue'} \ {None}
      BY <1>1, <3>1 DEF EndsOK
    <3> QED
      BY <2>1, <3>1, <3>2, <3>3 DEF EndsOK
  <2> QED
    BY <1>6, <2>7, <2>8, <2>9 DEF IInv
<1>10. CASE /\ g < p
            /\ rd' = [rd EXCEPT !.pending = @ - g, !.tokener = @ \o Got]
            /\ \A i \in 1 .. Len(rd.tokener) + g : (rd.tokener \o Got)[i] = BodyOf(m)[i]
            /\ UNCHANGED <<received, fds>>
  <2> DEFINE text == rd.tokener \o Got
  <2>1. text \in Seq(Unit) /\ Len(text) = Len(rd.tokener) + g /\ DOMAIN text = 1 .. Len(text)
    BY <1>4, <1>7, ConcatProperties, LenProperties
  <2>2. p - g \in Nat \ {0} /\ p - g \in 1 .. Body[m]
    <3> DEFINE b == Body[m]
    <3>1. p \in Nat /\ g \in Nat \ {0} /\ g < p /\ b \in Nat /\ p <= b
      BY <1>4, <1>5, <1>10
    <3> HIDE DEF p, g, b
    <3>2. p - g \in Nat \ {0} /\ p - g \in 1 .. b
      BY <3>1
    <3> QED
      BY <3>2 DEF b
  <2>3. /\ ~rd'.header /\ rd'.pending = p - g /\ rd'.scm = rd.scm /\ rd'.tokener = text
        /\ rd' \in [header : BOOLEAN, pending : Nat, scm : Messages \cup {None},
                    tokener : Seq(Unit), reading : BOOLEAN, hup : BOOLEAN]
    <3> HIDE DEF text
    <3>1. rd' = [rd EXCEPT !.pending = p - g, !.tokener = text]
      BY <1>10 DEF text
    <3> QED
      BY <1>3, <1>7, <2>1, <2>2, <3>1
  <2> HIDE DEF text
  <2>4. k' = k /\ m' = m
    BY <1>10 DEF DueMsg, MsgAt
  <2>5. d' = z - (p - g) + 1
    BY <2>3, <2>4 DEF DueAt
  <2>6. d' = d + g /\ d' <= z /\ d' # 1
    <3> DEFINE e == DueAt'
    <3>1. e = z - (p - g) + 1 /\ d + p = z + 1 /\ z \in Nat /\ p \in Nat /\ g \in Nat \ {0} /\ d \in Nat \ {0} /\ g < p
      BY <1>4, <1>5, <1>10, <2>5
    <3> HIDE DEF e, d, z, p, g
    <3>2. e = d + g /\ e <= z /\ e # 1
      BY <3>1
    <3> QED
      BY <3>2 DEF e, d, z, g
  <2>7. ReaderOK'
    <3>1. Len(text) = Body[m] - (p - g)
      <4> DEFINE b == Body[m]
                 t == Len(rd.tokener)
                 lt == Len(text)
      <4>1. lt = t + g /\ t = b - p /\ b \in Nat /\ p \in Nat /\ g \in Nat
        BY <1>4, <1>5, <2>1
      <4> HIDE DEF b, t, lt, p, g
      <4>2. lt = b - (p - g)
        BY <4>1
      <4> QED
        BY <4>2 DEF b, lt
    <3>2. \A i \in DOMAIN text : text[i] = BodyOf(m)[i]
      BY <1>10, <2>1 DEF text
    <3>3. DueMsg' \in DOMAIN posted' /\ MsgAt(DueMsg)' = m
      BY <1>4, <2>4
    <3>4. received' \in Seq(RT) /\ Len(received') <= Len(posted')
      BY <1>7, <1>10
    <3>5. rd'.scm = FdOf(MsgAt(DueMsg)')
      BY <1>5, <2>3, <3>3
    <3>6. \A i \in DOMAIN rd'.tokener : rd'.tokener[i] = BodyOf(MsgAt(DueMsg)')[i]
      BY <2>3, <3>2, <3>3
    <3> QED
      BY <2>2, <2>3, <2>6, <3>1, <3>3, <3>4, <3>5, <3>6 DEF ReaderOK
  <2>8. WireOK' /\ Connected'
    BY <1>1, <1>2, <1>3, <2>4, <2>6, WireAfterRead
  <2>9. EndsOK'
    BY <1>1, <1>2, <1>10, <2>3 DEF EndsOK
  <2> QED
    BY <1>6, <2>7, <2>8, <2>9 DEF IInv
<1> QED
  BY <1>3, <1>9, <1>10

-----------------------------------------------------------------------------
(* The theorems                                                              *)

LEMMA InvariantHolds == Spec => []IInv
<1>1. Init => IInv
  <2> SUFFICES ASSUME Init PROVE IInv
    OBVIOUS
  <2>1. /\ tried = 0 /\ queue = <<>> /\ wire = <<>> /\ posted = <<>> /\ received = <<>>
        /\ rd = [header |-> TRUE, pending |-> HeaderSize, scm |-> None,
                 tokener |-> <<>>, reading |-> FALSE, hup |-> FALSE]
        /\ up = [e \in Ends |-> TRUE] /\ fds = [e \in Ends |-> {}]
    BY DEF Init
  <2>2. HeaderSize \in Nat \ {0} /\ NMessages \in Nat
    BY Sizes
  <2>3. Sent = 0 /\ NextMsg = 1 /\ NextAt = 1 /\ DueMsg = 1 /\ DueAt = 1
    BY <2>1, <2>2 DEF Sent, NextMsg, NextAt, DueMsg, DueAt
  <2>4. PostedOK
    BY <2>1, <2>2 DEF PostedOK
  <2>5. QueueOK
    BY <2>1, <2>3 DEF QueueOK
  <2>6. ReaderOK
    BY <2>1, <2>2, <2>3 DEF ReaderOK
  <2>7. WireOK /\ Connected
    BY <2>1, <2>3 DEF WireOK, UnitsOK, Connected
  <2>8. EndsOK
    BY <2>1 DEF EndsOK, Ends
  <2> QED
    BY <2>4, <2>5, <2>6, <2>7, <2>8 DEF IInv
<1>2. IInv /\ [Next]_vars => IInv'
  <2> SUFFICES ASSUME IInv, [Next]_vars PROVE IInv'
    OBVIOUS
  <2>1. CASE Post
    BY <2>1, PostStep
  <2>2. CASE Write
    BY <2>2, WriteStep
  <2>3. CASE WriteFails \/ SenderLeaves
    BY <2>3, SenderClosesStep DEF WriteFails, SenderLeaves
  <2>4. CASE ReadBegins
    <3>1. rd' = [rd EXCEPT !.reading = TRUE, !.hup = ~up["sender"]] /\ (~up["sender"]) \in BOOLEAN
      BY <2>4 DEF ReadBegins, IInv, EndsOK, Ends
    <3> QED
      BY <2>4, <3>1, ReadingStep DEF ReadBegins
  <2>5. CASE ReceiverLeaves
    BY <2>5, ReceiverClosesStep DEF ReceiverLeaves
  <2>6. CASE Read
    <3>1. up["receiver"] /\ UNCHANGED <<tried, queue, posted>>
      BY <2>6 DEF Read
    <3>2. CASE ReadHeader
      BY <3>1, <3>2, ReadHeaderStep
    <3>3. CASE ReadTooLong
      BY <3>1, <3>3, ReceiverClosesStep DEF ReadTooLong
    <3>4. CASE ReadBody
      BY <3>1, <3>4, ReadBodyStep
    <3>5. CASE ReadNothing /\ rd.hup
      BY <3>1, <3>5, ReceiverClosesStep DEF ReadNothing
    <3>6. CASE ReadNothing /\ ~rd.hup
      <4>1. rd' = [rd EXCEPT !.reading = FALSE] /\ UNCHANGED <<wire, up, fds, received>>
        BY <3>6 DEF ReadNothing
      <4>2. rd.hup \in BOOLEAN /\ rd' = [rd EXCEPT !.reading = FALSE, !.hup = rd.hup]
        BY <4>1 DEF IInv, ReaderOK
      <4> QED
        BY <3>1, <4>1, <4>2, ReadingStep
    <3> QED
      BY <2>6, <3>2, <3>3, <3>4, <3>5, <3>6 DEF Read
  <2>7. CASE UNCHANGED vars
    <3>1. rd' = [rd EXCEPT !.reading = rd.reading, !.hup = rd.hup] /\ rd.reading \in BOOLEAN /\ rd.hup \in BOOLEAN
      BY <2>7 DEF vars, IInv, ReaderOK
    <3> QED
      BY <2>7, <3>1, ReadingStep DEF vars
  <2> QED
    BY <2>1, <2>2, <2>3, <2>4, <2>5, <2>6, <2>7 DEF Next
<1> QED
  BY <1>1, <1>2, PTL DEF Spec

(* No descriptor is leaked, closed twice or received with another message, for   *)
(* every set of messages and however the stream is cut: whoever is to close it *)
(* has it open, and it is once on the wire. (ipc_ct_write, io_recv, ipc_ct_uninit) *)
THEOREM FdsAreAlwaysOwned == Spec => []FdsAreOwned
<1>1. IInv => FdsAreOwned
  <2> SUFFICES ASSUME IInv PROVE FdsAreOwned
    OBVIOUS
  <2>1. PostedOK /\ WireOK /\ EndsOK
    BY DEF IInv
  <2>2. ASSUME NEW i \in DOMAIN wire, NEW j \in DOMAIN wire, wire[i].fd = wire[j].fd, i < j
        PROVE  wire[i].fd = None
    <3> SUFFICES ASSUME wire[i].fd # None PROVE FALSE
      OBVIOUS
    <3>1. /\ wire \in Seq(Unit) /\ DOMAIN wire = 1 .. Len(wire) /\ Len(wire) \in Nat
          /\ wire[i].fd = IF wire[i].at = 1 THEN FdOf(wire[i].msg) ELSE None
          /\ wire[j].fd = IF wire[j].at = 1 THEN FdOf(wire[j].msg) ELSE None
      BY <2>1 DEF WireOK, UnitsOK
    <3>2. wire[i] \in Unit /\ wire[j] \in Unit
      BY <3>1, ElementOfSeq
    <3>3. wire[i].msg \in Messages /\ wire[j].msg \in Messages
      BY <3>2 DEF Unit
    <3>4. wire[i].at = 1 /\ wire[j].at = 1 /\ wire[i].msg = wire[j].msg
      BY <2>2, <3>1, <3>3, Sizes
    <3>5. \/ wire[i].msg < wire[j].msg /\ wire[i].at + (j - i) > Size(wire[i].msg)
          \/ wire[i].msg = wire[j].msg /\ wire[j].at = wire[i].at + (j - i)
      BY <2>1, <2>2 DEF WireOK, UnitsOK
    <3> QED
      BY <2>2, <3>1, <3>3, <3>4, <3>5, Sizes
  <2>3. \A i, j \in DOMAIN wire : wire[i].fd = wire[j].fd /\ i # j => wire[i].fd = None
    <3>1. DOMAIN wire = 1 .. Len(wire) /\ Len(wire) \in Nat
      BY <2>1 DEF WireOK, UnitsOK
    <3>2. \A i, j \in DOMAIN wire : i # j => i < j \/ j < i
      BY <3>1
    <3> QED
      BY <2>2, <3>2
  <2> QED
    BY <2>1, <2>3 DEF FdsAreOwned, EndsOK
<1> QED
  BY <1>1, InvariantHolds, PTL

(* However the stream is cut into sends and reads, whatever the lengths of the   *)
(* messages, the header, the buffer and the socket, the callback only gets what *)
(* was queued, in that order, whole, once, and with its own descriptor.        *)
(* (ipc_ct_write_msg, ipc_ct_write, ipc_ct_read.)  That all of it arrives, the  *)
(* rest of ImplementsChannel, is for TLC.                                    *)
THEOREM ArrivesInOrder == Spec => C!Spec
<1>1. Init => C!Init
  <2> SUFFICES ASSUME Init PROVE C!Init
    OBVIOUS
  <2>1. \A e \in Ends : up[e]
    BY DEF Init
  <2> QED
    BY <2>1 DEF Init, C!Init
<1>2. IInv /\ [Next]_vars => [C!Next]_(C!vars)
  <2> SUFFICES ASSUME IInv, [Next]_vars PROVE C!Next \/ UNCHANGED C!vars
    OBVIOUS
  <2>1. CASE Post
    <3>1. CASE PostQueues(tried + 1)
      <4>1. tried + 1 \in Messages
        <5>1. tried \in 0 .. NMessages /\ tried < NMessages /\ NMessages \in Nat
          BY <2>1, Sizes DEF Post, IInv, PostedOK
        <5> QED
          BY <5>1 DEF Messages
      <4>2. posted' = Append(posted, Payload(tried + 1)) /\ UNCHANGED <<received, up>>
        BY <2>1, <3>1 DEF Post, PostQueues
      <4> QED
        BY <4>1, <4>2 DEF C!Next, C!Post
    <3>2. CASE PostFails(tried + 1)
      BY <2>1, <3>2 DEF Post, PostFails, C!vars
    <3> QED
      BY <2>1, <3>1, <3>2 DEF Post
  <2>2. CASE SenderCloses /\ UNCHANGED <<posted, received>>
    <3>1. ~up'["sender"]
      BY <2>2 DEF SenderCloses, IInv, EndsOK, Ends
    <3> QED
      BY <2>2, <3>1 DEF C!Next, C!Cut, Ends
  <2>3. CASE ReceiverCloses /\ UNCHANGED <<posted, received>>
    <3>1. ~up'["receiver"]
      BY <2>3 DEF ReceiverCloses, IInv, EndsOK, Ends
    <3> QED
      BY <2>3, <3>1 DEF C!Next, C!Cut, Ends
  <2>4. CASE UNCHANGED <<posted, received, up>>
    BY <2>4 DEF C!vars
  <2>5. CASE up["receiver"] /\ ReadBody /\ UNCHANGED posted
    <3>1. up' = up
      BY <2>5 DEF ReadBody
    <3>2. received' = received \/ received' = Append(received, posted[DueMsg])
      BY <2>5, BodyIsRead
    <3>3. wire # <<>>
      BY <2>5, BodyIsRead
    <3>4. DueMsg = Len(received) + 1 /\ Len(received) < Len(posted)
      <4>1. DueMsg \in DOMAIN posted /\ Len(received) \in Nat
        BY <3>3 DEF IInv, WireOK, ReaderOK
      <4> QED
        BY <4>1, PostedFacts DEF DueMsg, IInv
    <3> QED
      BY <2>5, <3>1, <3>2, <3>4 DEF C!Next, C!Deliver, C!vars
  <2>6. CASE Write \/ ReadBegins
    BY <2>4, <2>6 DEF Write, ReadBegins
  <2>7. CASE WriteFails \/ SenderLeaves
    BY <2>2, <2>7 DEF WriteFails, SenderLeaves
  <2>8. CASE ReceiverLeaves
    BY <2>3, <2>8 DEF ReceiverLeaves
  <2>9. CASE Read
    <3>1. up["receiver"] /\ UNCHANGED posted
      BY <2>9 DEF Read
    <3>2. CASE ReadHeader
      BY <2>4, <3>1, <3>2 DEF ReadHeader
    <3>3. CASE ReadTooLong
      BY <2>3, <3>1, <3>3 DEF ReadTooLong
    <3>4. CASE ReadNothing
      BY <2>3, <2>4, <3>1, <3>4 DEF ReadNothing
    <3> QED
      BY <2>5, <2>9, <3>1, <3>2, <3>3, <3>4 DEF Read
  <2>10. CASE UNCHANGED vars
    BY <2>4, <2>10 DEF vars
  <2> QED
    BY <2>1, <2>6, <2>7, <2>8, <2>9, <2>10 DEF Next
<1> QED
  BY <1>1, <1>2, InvariantHolds, PTL DEF Spec, C!Spec

=============================================================================
