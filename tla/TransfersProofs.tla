-------------------------- MODULE TransfersProofs --------------------------
(***************************************************************************)
(* What is stored is whole and what is pasted of an entry is a prefix of   *)
(* it, for every number of applications and selections and every size of   *)
(* the pipes, the buffers and the contents.                                *)
(***************************************************************************)
EXTENDS Transfers, SequenceTheorems, TLAPS

-----------------------------------------------------------------------------
(* The inductive invariant                                                   *)

Paste == [state : {"none", "sending", "closed"}, content : Nat, blob : BOOLEAN,
          sz : Nat, off : Nat, remaining : Nat, sent : Seq(Nat \X Int), got : Nat, open : BOOLEAN]

(* Contents that may have been stored: the one that is being read is not. *)
Offered == IF reading = NotReading THEN offers ELSE offers - 1

(* What is read was written, and is no more than may be stored. *)
ReadingOK ==
    /\ offers \in Nat /\ heap \in [content : Nat, len : Nat]
    /\ source \in [written : Nat, open : BOOLEAN]
    /\ reading # NotReading =>
           /\ reading \in [content : {offers}, transient : BOOLEAN, got : 0 .. MaxBytes]
           /\ offers > 0 /\ reading.got <= source.written

(* Rows are of earlier selections, so that a row that is gone never comes back. *)
RowsOK(rows, n) == n \in Nat /\ \A c \in DOMAIN rows : c \in 1 .. n /\ rows[c] \in Nat

(* What was sent of a blob is what was read of it and is not in the buffer any  *)
(* more, and these are the first units of its content.                        *)
PasteOK(p, rows, n) ==
    /\ p \in Paste
    /\ p.state = "none" => p.sent = <<>> /\ p.off = 0 /\ p.remaining = 0
    /\ p.blob =>
           /\ p.state # "none" /\ p.content \in 1 .. n
           /\ Len(p.sent) = p.off - p.remaining /\ p.off <= p.sz
           /\ p.sent = Whole(p.content, Len(p.sent))
           /\ p.state = "closed" /\ p.open /\ p.content \in DOMAIN rows => Len(p.sent) = p.sz

IInv ==
    /\ ReadingOK
    /\ RowsOK(data, Offered)
    /\ DOMAIN pastes = Apps /\ \A a \in Apps : PasteOK(pastes[a], data, Offered)
    /\ serving # NoApp => serving \in Apps /\ pastes[serving].state = "sending"

LEMMA MinOfTwo ==
    ASSUME NEW a \in Int, NEW b \in Int
    PROVE  Min({a, b}) = IF a <= b THEN a ELSE b
<1>1. (IF a <= b THEN a ELSE b) \in {a, b} /\ \A y \in {a, b} : (IF a <= b THEN a ELSE b) <= y
  OBVIOUS
<1>2. \A x \in {a, b} : (\A y \in {a, b} : x <= y) => x = IF a <= b THEN a ELSE b
  OBVIOUS
<1> QED
  BY <1>1, <1>2 DEF Min

LEMMA Sizes == MaxOffers \in Nat /\ MaxBytes \in Nat /\ BufSize \in Nat \ {0} /\ PipeSize \in Nat
BY TransfersAssumption

-----------------------------------------------------------------------------
(* What becomes of one paste                                                 *)

(* Rows come with new contents, and go. *)
LEMMA PasteStays ==
    ASSUME NEW p, NEW rows, NEW rows2, NEW n \in Nat, NEW m \in Nat, n <= m, PasteOK(p, rows, n),
           \A c \in DOMAIN rows2 : c \in DOMAIN rows \/ ~ (c \in 1 .. n)
    PROVE  PasteOK(p, rows2, m)
<1>1. \A c \in 1 .. n : c \in 1 .. m
  OBVIOUS
<1> QED
  BY <1>1 DEF PasteOK

(* wsignal_send *)
LEMMA PasteBegins ==
    ASSUME NEW rows, NEW n, RowsOK(rows, n), NEW p, PasteOK(p, rows, n), p.state = "none",
           NEW blob \in BOOLEAN, NEW c \in Nat, NEW sz \in Nat, blob => c \in 1 .. n,
           NEW rest \in Nat, blob => rest = 0,
           NEW q, q = [p EXCEPT !.state = "sending", !.content = c, !.blob = blob, !.sz = sz, !.remaining = rest]
    PROVE  PasteOK(q, rows, n)
<1>1. p \in Paste /\ p.sent = <<>> /\ p.off = 0
  BY DEF PasteOK
<1>2. /\ q \in Paste /\ q.state = "sending" /\ q.blob = blob /\ q.content = c /\ q.sent = <<>> /\ q.sz = sz
      /\ q.off = 0 /\ q.remaining = rest
  BY <1>1 DEF Paste
<1>3. Len(<<>>) = 0 /\ Whole(c, 0) = <<>>
  BY DEF Whole
<1> QED
  BY <1>2, <1>3 DEF PasteOK

(* send_context_free: all was sent, or the row is gone, or nobody reads. *)
LEMMA PasteCloses ==
    ASSUME NEW rows, NEW n, NEW p, PasteOK(p, rows, n),
           p.blob => \/ Len(p.sent) = p.sz
                     \/ p.content \notin DOMAIN rows
                     \/ ~p.open,
           NEW q, q = [p EXCEPT !.state = "closed"]
    PROVE  PasteOK(q, rows, n)
<1>1. p \in Paste
  BY DEF PasteOK
<1>2. /\ q \in Paste /\ q.state = "closed" /\ q.blob = p.blob /\ q.content = p.content /\ q.sent = p.sent
      /\ q.sz = p.sz /\ q.off = p.off /\ q.remaining = p.remaining /\ q.open = p.open
  BY <1>1 DEF Paste
<1>3. p.blob => /\ p.content \in 1 .. n /\ Len(p.sent) = p.off - p.remaining /\ p.off <= p.sz
                /\ p.sent = Whole(p.content, Len(p.sent))
  BY DEF PasteOK
<1> QED
  BY <1>2, <1>3, Zenon DEF PasteOK

(* sqlite3_blob_read *)
LEMMA PasteRefilled ==
    ASSUME NEW rows, NEW n, NEW p, PasteOK(p, rows, n), p.state = "sending", p.blob, p.remaining = 0,
           NEW r \in Nat, r <= p.sz - p.off,
           NEW q, q = [p EXCEPT !.remaining = r, !.off = @ + r]
    PROVE  PasteOK(q, rows, n)
<1>1. p \in Paste
  BY DEF PasteOK
<1>2. p.off \in Nat /\ p.sz \in Nat
  BY <1>1 DEF Paste
<1> DEFINE o == p.off + r
<1>6. o \in Nat /\ q = [p EXCEPT !.remaining = r, !.off = o]
  BY <1>2
<1>3. /\ q \in Paste /\ q.state = "sending" /\ q.blob = p.blob /\ q.content = p.content /\ q.sent = p.sent
      /\ q.sz = p.sz /\ q.off = p.off + r /\ q.remaining = r
  <2> HIDE DEF o
  <2>1. /\ q \in Paste /\ q.state = "sending" /\ q.blob = p.blob /\ q.content = p.content /\ q.sent = p.sent
        /\ q.sz = p.sz /\ q.off = o /\ q.remaining = r
    BY <1>1, <1>6 DEF Paste
  <2> QED
    BY <2>1 DEF o
<1>4. p.off + r <= p.sz /\ p.off - 0 = (p.off + r) - r
  BY <1>2
<1>5. /\ p.blob /\ p.content \in 1 .. n /\ Len(p.sent) = p.off - 0 /\ p.sent = Whole(p.content, Len(p.sent))
  BY DEF PasteOK
<1> QED
  BY <1>3, <1>4, <1>5 DEF PasteOK

(* write() of what comes next of a blob. *)
LEMMA PasteWritten ==
    ASSUME NEW rows, NEW n, NEW p, PasteOK(p, rows, n), p.state = "sending",
           NEW w \in Nat, w <= p.remaining,
           NEW units \in Seq(Nat \X Int), Len(units) = w,
           p.blob => \A i \in 1 .. w : units[i] = <<p.content, p.off - p.remaining + i>>,
           NEW q, q = [p EXCEPT !.sent = @ \o units, !.remaining = @ - w]
    PROVE  PasteOK(q, rows, n)
<1>1. p \in Paste
  BY DEF PasteOK
<1>2. p.off \in Nat /\ p.sz \in Nat /\ p.remaining \in Nat /\ p.sent \in Seq(Nat \X Int)
  BY <1>1 DEF Paste
<1> DEFINE s == p.sent \o units
           l == Len(p.sent)
<1>3. /\ s \in Seq(Nat \X Int) /\ l \in Nat /\ Len(s) = l + w
      /\ \A i \in 1 .. l + w : s[i] = IF i <= l THEN p.sent[i] ELSE units[i - l]
  <2>1. l \in Nat
    BY <1>2, LenProperties
  <2>2. /\ s \in Seq(Nat \X Int) /\ Len(s) = l + Len(units)
        /\ \A i \in 1 .. l + Len(units) : s[i] = IF i <= l THEN p.sent[i] ELSE units[i - l]
    <3> DEFINE o == p.sent
    <3>1. o \in Seq(Nat \X Int)
      BY <1>2
    <3> HIDE DEF o
    <3>2. /\ o \o units \in Seq(Nat \X Int) /\ Len(o \o units) = Len(o) + Len(units)
          /\ \A i \in 1 .. Len(o) + Len(units) : (o \o units)[i] = IF i <= Len(o) THEN o[i] ELSE units[i - Len(o)]
      BY <3>1, ConcatProperties, Zenon
    <3> QED
      BY <3>2 DEF o
  <2> QED
    BY <2>1, <2>2
<1> DEFINE m == p.remaining - w
<1>4. m \in Nat /\ q = [p EXCEPT !.sent = s, !.remaining = m]
  BY <1>2
<1>5. /\ q \in Paste /\ q.state = "sending" /\ q.blob = p.blob /\ q.content = p.content /\ q.sent = s
      /\ q.sz = p.sz /\ q.off = p.off /\ q.remaining = p.remaining - w
  <2> HIDE DEF m, s
  <2>1. /\ q \in Paste /\ q.state = "sending" /\ q.blob = p.blob /\ q.content = p.content /\ q.sent = s
        /\ q.sz = p.sz /\ q.off = p.off /\ q.remaining = m
    BY <1>1, <1>3, <1>4 DEF Paste
  <2> QED
    BY <2>1 DEF m
<1> HIDE DEF m
<1>6. ASSUME p.blob PROVE Len(s) = p.off - (p.remaining - w) /\ s = Whole(p.content, Len(s))
  <2>1. l = p.off - p.remaining /\ p.sent = Whole(p.content, l)
    BY <1>6 DEF PasteOK
  <2>2. \A i \in 1 .. l : p.sent[i] = <<p.content, i>>
    BY <2>1 DEF Whole
  <2> HIDE DEF l, s
  <2>3. ASSUME NEW i \in 1 .. l + w PROVE s[i] = <<p.content, i>>
    <3>1. CASE i <= l
      <4>1. i \in 1 .. l
        BY <1>3, <2>3, <3>1
      <4> QED
        BY <1>3, <2>2, <3>1, <4>1
    <3>2. CASE ~ (i <= l)
      <4>1. i - l \in 1 .. w /\ l + (i - l) = i
        BY <1>3, <2>3, <3>2, SMTT(60)
      <4>2. units[i - l] = <<p.content, p.off - p.remaining + (i - l)>>
        BY <1>6, <4>1
      <4> QED
        BY <1>3, <2>1, <3>2, <4>1, <4>2
    <3> QED
      BY <3>1, <3>2
  <2>4. s = [i \in 1 .. l + w |-> <<p.content, i>>]
    <3>1. s = [i \in 1 .. l + w |-> s[i]]
      BY <1>3, LenProperties
    <3> QED
      BY <2>3, <3>1
  <2>5. l + w = p.off - (p.remaining - w)
    BY <1>2, <1>3, <2>1
  <2> QED
    BY <1>3, <2>4, <2>5 DEF Whole
<1> HIDE DEF s, l
<1> QED
  BY <1>5, <1>6 DEF PasteOK

(* EPOLLOUT, and what the application does. *)
LEMMA PasteRead ==
    ASSUME NEW rows, NEW n, NEW p, PasteOK(p, rows, n), NEW got \in Nat,
           NEW q, q = [p EXCEPT !.got = got]
    PROVE  PasteOK(q, rows, n) /\ q.state = p.state
<1>1. p \in Paste
  BY DEF PasteOK
<1>2. /\ q \in Paste /\ q.state = p.state /\ q.blob = p.blob /\ q.content = p.content /\ q.sent = p.sent
      /\ q.sz = p.sz /\ q.off = p.off /\ q.remaining = p.remaining /\ q.open = p.open
  BY <1>1 DEF Paste
<1> QED
  BY <1>2 DEF PasteOK

LEMMA PasteLeft ==
    ASSUME NEW rows, NEW n, NEW p, PasteOK(p, rows, n),
           NEW q, q = [p EXCEPT !.open = FALSE]
    PROVE  PasteOK(q, rows, n) /\ q.state = p.state
<1>1. p \in Paste
  BY DEF PasteOK
<1>2. /\ q \in Paste /\ q.state = p.state /\ q.blob = p.blob /\ q.content = p.content /\ q.sent = p.sent
      /\ q.sz = p.sz /\ q.off = p.off /\ q.remaining = p.remaining /\ q.open = FALSE
  BY <1>1 DEF Paste
<1> QED
  BY <1>2 DEF PasteOK

-----------------------------------------------------------------------------
(* The steps                                                                 *)

LEMMA InitEstablishes == Init => IInv
<1> SUFFICES ASSUME Init PROVE IInv
  OBVIOUS
<1>1. offers = 0 /\ reading = NotReading /\ Offered = 0 /\ DOMAIN data = {} /\ serving = NoApp
  <2>1. data = <<>>
    BY DEF Init
  <2> QED
    BY <2>1 DEF Init, Offered
<1>2. ReadingOK
  BY <1>1 DEF Init, ReadingOK, Empty
<1>3. RowsOK(data, Offered)
  BY <1>1 DEF RowsOK
<1>4. DOMAIN pastes = Apps
  BY DEF Init
<1>5. ASSUME NEW a \in Apps PROVE PasteOK(pastes[a], data, Offered)
  <2> DEFINE p == pastes[a]
  <2>1. p = [state |-> "none", content |-> 0, blob |-> FALSE, sz |-> 0, off |-> 0, remaining |-> 0,
             sent |-> <<>>, got |-> 0, open |-> TRUE]
    BY DEF Init
  <2>2. <<>> \in Seq(Nat \X Int)
    OBVIOUS
  <2> HIDE DEF p
  <2>3. p \in Paste /\ p.state = "none" /\ ~p.blob /\ p.sent = <<>> /\ p.off = 0 /\ p.remaining = 0
    BY <2>1, <2>2 DEF Paste
  <2> QED
    BY <2>3 DEF PasteOK, p
<1> QED
  BY <1>1, <1>2, <1>3, <1>4, <1>5 DEF IInv

(* A step that changes one paste, as a lemma above says, and none of the rest. *)
LEMMA OnePaste ==
    ASSUME IInv, UNCHANGED <<heap, data, offers, source, reading>>, NEW a \in Apps, NEW q,
           pastes' = [pastes EXCEPT ![a] = q], PasteOK(q, data, Offered),
           serving' \in {serving, NoApp}, serving' = a => q.state = "sending"
    PROVE  IInv'
<1>1. Offered' = Offered /\ ReadingOK' /\ RowsOK(data, Offered)'
  BY DEF IInv, ReadingOK, Offered, RowsOK
<1>2. DOMAIN pastes' = Apps /\ pastes'[a] = q /\ \A b \in Apps \ {a} : pastes'[b] = pastes[b]
  BY DEF IInv
<1>3. \A b \in Apps : PasteOK(pastes'[b], data', Offered')
  <2>1. data' = data
    OBVIOUS
  <2> QED
    BY <1>1, <1>2, <2>1, Zenon DEF IInv
<1>4. serving' # NoApp => serving' \in Apps /\ pastes'[serving'].state = "sending"
  BY <1>2 DEF IInv
<1> QED
  BY <1>1, <1>2, <1>3, <1>4 DEF IInv

(* A step that changes no paste. *)
LEMMA OtherStep ==
    ASSUME IInv, UNCHANGED <<pastes, serving>>, ReadingOK', RowsOK(data', Offered'), Offered <= Offered',
           \A c \in DOMAIN data' : c \in DOMAIN data \/ ~ (c \in 1 .. Offered)
    PROVE  IInv'
<1>1. Offered \in Nat /\ Offered' \in Nat
  BY DEF IInv, RowsOK
<1>2. ASSUME NEW a \in Apps PROVE PasteOK(pastes[a], data', Offered')
  <2> DEFINE p == pastes[a]
             n == Offered
             m == Offered'
             rows == data'
  <2>1. PasteOK(p, data, n) /\ n <= m /\ n \in Nat /\ m \in Nat /\ \A c \in DOMAIN rows : c \in DOMAIN data \/ ~ (c \in 1 .. n)
    BY <1>1 DEF IInv
  <2> HIDE DEF p, n, m, rows
  <2>2. PasteOK(p, rows, m)
    BY <2>1, PasteStays
  <2> QED
    BY <2>2 DEF p, m, rows
<1> QED
  BY <1>2 DEF IInv
(* What is read of the source, and what is stored. *)
LEMMA ReadingStep ==
    ASSUME IInv, SourceWrites \/ SourceCloses \/ Selection \/ SelectionFails \/ Receive \/ SetClipboard \/ RemoveRows
    PROVE  IInv'
<1>1. /\ offers \in Nat /\ heap \in [content : Nat, len : Nat] /\ source \in [written : Nat, open : BOOLEAN]
      /\ source.written \in Nat
  BY DEF IInv, ReadingOK
<1>2. \A c \in DOMAIN data : c \in 1 .. Offered /\ data[c] \in Nat
  BY DEF IInv, RowsOK
<1>3. Empty \in [content : Nat, len : Nat] /\ NotReading.content = 0
  BY DEF Empty, NotReading
<1>4. ASSUME reading # NotReading
      PROVE  /\ reading \in [content : {offers}, transient : BOOLEAN, got : 0 .. MaxBytes]
             /\ reading.content = offers /\ reading.got \in 0 .. MaxBytes /\ reading.got \in Nat
             /\ offers > 0 /\ reading.got <= source.written /\ Offered = offers - 1
  <2>1. /\ reading \in [content : {offers}, transient : BOOLEAN, got : 0 .. MaxBytes]
        /\ offers > 0 /\ reading.got <= source.written /\ Offered = offers - 1
    BY <1>4 DEF IInv, ReadingOK, Offered
  <2>2. reading.content = offers /\ reading.got \in 0 .. MaxBytes
    BY <2>1
  <2> QED
    BY <2>1, <2>2, Sizes
<1>5. CASE SourceWrites
  <2>1. reading # NotReading /\ source' = [source EXCEPT !.written = @ + 1]
        /\ UNCHANGED <<id, heap, data, offers, reading, pastes, serving>>
    BY <1>5 DEF SourceWrites
  <2>2. source' \in [written : Nat, open : BOOLEAN] /\ source'.written = source.written + 1
    BY <1>1, <2>1
  <2>3. reading.got <= source'.written
    BY <1>1, <1>4, <2>1, <2>2
  <2>4. ReadingOK'
    BY <1>1, <1>4, <2>1, <2>2, <2>3 DEF ReadingOK
  <2>5. Offered' = Offered /\ RowsOK(data, Offered)
    BY <2>1 DEF Offered, IInv
  <2> QED
    BY <2>1, <2>4, <2>5, OtherStep DEF RowsOK
<1>6. CASE SourceCloses
  <2>1. reading # NotReading /\ source' = [source EXCEPT !.open = FALSE]
        /\ UNCHANGED <<id, heap, data, offers, reading, pastes, serving>>
    BY <1>6 DEF SourceCloses
  <2>2. source' \in [written : Nat, open : BOOLEAN] /\ source'.written = source.written
    BY <1>1, <2>1
  <2>4. ReadingOK'
    BY <1>1, <1>4, <2>1, <2>2 DEF ReadingOK
  <2>5. Offered' = Offered /\ RowsOK(data, Offered)
    BY <2>1 DEF Offered, IInv
  <2> QED
    BY <2>1, <2>4, <2>5, OtherStep DEF RowsOK
<1>7. CASE Selection
  <2>1. /\ reading = NotReading /\ offers' = offers + 1 /\ heap' = Empty
        /\ source' = [written |-> 0, open |-> TRUE] /\ UNCHANGED <<data, pastes, serving>>
    BY <1>7 DEF Selection, Idle
  <2>2. PICK t \in BOOLEAN : reading' = [content |-> offers + 1, transient |-> t, got |-> 0]
    BY <1>7 DEF Selection
  <2>3. reading'.content = offers + 1 /\ offers + 1 # 0
    BY <1>1, <2>2
  <2>4. reading' # NotReading
    BY <1>3, <2>3
  <2>5. Offered = offers /\ Offered' = offers
    BY <1>1, <2>1, <2>4 DEF Offered
  <2>6. ReadingOK'
    BY <1>1, <1>3, <2>1, <2>2, Sizes DEF ReadingOK
  <2> QED
    BY <1>1, <1>2, <2>1, <2>5, <2>6, OtherStep DEF RowsOK
<1>8. CASE SelectionFails
  <2>1. /\ reading = NotReading /\ offers' = offers + 1 /\ heap' = Empty
        /\ UNCHANGED <<id, data, source, reading, pastes, serving>>
    BY <1>8 DEF SelectionFails, Idle
  <2>2. Offered = offers /\ Offered' = offers + 1
    BY <2>1 DEF Offered
  <2>3. ReadingOK'
    BY <1>1, <1>3, <2>1 DEF ReadingOK
  <2> QED
    BY <1>1, <1>2, <2>1, <2>2, <2>3, OtherStep DEF RowsOK
<1>9. CASE ReadChunk
  <2> DEFINE n == Available
  <2>1. /\ reading # NotReading /\ n > 0 /\ ~ (reading.got + Chunk > MaxBytes)
        /\ reading' = [reading EXCEPT !.got = @ + Chunk]
        /\ UNCHANGED <<id, heap, data, offers, source, pastes, serving>>
    BY <1>9 DEF ReadChunk, TooLarge
  <2>2. n \in Nat /\ n = source.written - reading.got
    BY <1>1, <1>4, <2>1 DEF Available
  <2>3. Chunk \in Nat /\ Chunk <= n
    BY <2>2, MinOfTwo, Sizes DEF Chunk
  <2> DEFINE g == reading.got + Chunk
  <2>4. g \in 0 .. MaxBytes /\ g <= source.written
    BY <1>1, <1>4, <2>1, <2>2, <2>3, Sizes
  <2>5. reading' = [reading EXCEPT !.got = g]
    BY <2>1
  <2> HIDE DEF g, n
  <2>6. /\ reading' \in [content : {offers}, transient : BOOLEAN, got : 0 .. MaxBytes]
        /\ reading'.got = g /\ reading'.content = offers
    BY <1>4, <2>1, <2>4, <2>5
  <2>7. reading' # NotReading
    BY <1>1, <1>3, <1>4, <2>1, <2>6
  <2>8. Offered' = Offered /\ RowsOK(data, Offered)
    BY <2>1, <2>7 DEF Offered, IInv
  <2>9. ReadingOK'
    BY <1>1, <1>4, <2>1, <2>4, <2>6 DEF ReadingOK
  <2> QED
    BY <2>1, <2>8, <2>9, OtherStep DEF RowsOK
<1>10. CASE ReadFails
  <2>1. /\ reading # NotReading /\ reading' = NotReading /\ heap' = Empty
        /\ UNCHANGED <<data, offers, source, pastes, serving>>
    BY <1>10 DEF ReadFails, Failed
  <2>2. Offered' = offers /\ Offered <= offers /\ \A c \in 1 .. Offered : c \in 1 .. offers
    BY <1>1, <1>4, <2>1 DEF Offered
  <2>3. ReadingOK'
    BY <1>1, <1>3, <2>1 DEF ReadingOK
  <2> QED
    BY <1>1, <1>2, <2>1, <2>2, <2>3, OtherStep DEF RowsOK
<1>11. CASE ReadSucceeds
  <2>1. /\ reading # NotReading /\ reading' = NotReading
        /\ StoreTransient \/ StoreEntry \/ StoreDuplicate
        /\ UNCHANGED <<offers, source, pastes, serving>>
    BY <1>11 DEF ReadSucceeds
  <2>2. Offered' = offers /\ Offered <= offers /\ (\A c \in 1 .. Offered : c \in 1 .. offers)
        /\ offers \in 1 .. offers /\ ~ (offers \in 1 .. Offered)
    BY <1>1, <1>4, <2>1 DEF Offered
  <2>3. heap' \in [content : Nat, len : Nat]
    BY <1>1, <1>4, <2>1 DEF StoreTransient, StoreEntry, StoreDuplicate
  <2>4. ReadingOK'
    BY <1>1, <2>1, <2>3 DEF ReadingOK
  <2>5. \A c \in DOMAIN data' : \/ c \in DOMAIN data /\ data'[c] = data[c]
                                \/ c = offers /\ data'[c] = reading.got
    BY <1>4, <2>1 DEF StoreTransient, StoreEntry, StoreDuplicate
  <2>6. RowsOK(data', Offered')
    BY <1>1, <1>2, <1>4, <2>1, <2>2, <2>5 DEF RowsOK
  <2> QED
    BY <2>1, <2>2, <2>4, <2>5, <2>6, OtherStep
<1>12. CASE SetClipboard
  <2>1. UNCHANGED <<heap, data, offers, source, reading, pastes, serving>>
    BY <1>12 DEF SetClipboard
  <2>2. Offered' = Offered /\ RowsOK(data, Offered) /\ ReadingOK'
    BY <2>1 DEF Offered, IInv, ReadingOK
  <2> QED
    BY <2>1, <2>2, OtherStep DEF RowsOK
<1>13. CASE RemoveRows
  <2>1. UNCHANGED <<heap, offers, source, reading, pastes, serving>>
    BY <1>13 DEF RemoveRows
  <2>2. PICK gone \in SUBSET DOMAIN data : data' = [c \in DOMAIN data \ gone |-> data[c]]
    BY <1>13 DEF RemoveRows
  <2>3. \A c \in DOMAIN data' : c \in DOMAIN data /\ data'[c] = data[c]
    BY <2>2
  <2>4. Offered' = Offered /\ RowsOK(data, Offered) /\ ReadingOK'
    BY <2>1 DEF Offered, IInv, ReadingOK
  <2>5. RowsOK(data', Offered')
    BY <2>3, <2>4 DEF RowsOK
  <2> QED
    BY <2>1, <2>3, <2>4, <2>5, OtherStep DEF RowsOK
<1> QED
  BY <1>5, <1>6, <1>7, <1>8, <1>9, <1>10, <1>11, <1>12, <1>13 DEF Receive
(* The applications that paste, and the callbacks that serve them. *)
LEMMA PastingStep ==
    ASSUME IInv, NEW a \in Apps,
           Send(a) \/ WriteBegins(a) \/ WriteCallback(a) \/ AppReads(a) \/ AppLeaves(a)
    PROVE  IInv'
<1> DEFINE p == pastes[a]
<1>1. /\ PasteOK(p, data, Offered) /\ RowsOK(data, Offered) /\ DOMAIN pastes = Apps
      /\ serving = a => p.state = "sending"
  BY TransfersAssumption DEF IInv
<1>2. p \in Paste
  BY <1>1 DEF PasteOK
<1>3. /\ p.off \in Nat /\ p.sz \in Nat /\ p.remaining \in Nat /\ p.sent \in Seq(Nat \X Int) /\ Len(p.sent) \in Nat
      /\ p.got \in Nat /\ p.blob \in BOOLEAN /\ p.content \in Nat
  BY <1>2, LenProperties DEF Paste
<1>4. a # NoApp
  BY TransfersAssumption
<1>5. CASE Send(a)
  <2>1. /\ Idle /\ p.state = "none" /\ (SendBegins(a) \/ pastes' = Closed(a))
        /\ UNCHANGED <<id, heap, data, offers, source, reading, serving>>
    BY <1>5 DEF Send
  <2>2. serving = NoApp
    BY <2>1 DEF Idle
  <2>3. ASSUME pastes' = Closed(a) PROVE IInv'
    <3> DEFINE q == [p EXCEPT !.state = "closed"]
    <3>1. pastes' = [pastes EXCEPT ![a] = q]
      BY <2>3 DEF Closed
    <3>2. ~p.blob
      BY <1>1, <2>1 DEF PasteOK
    <3>3. PasteOK(q, data, Offered)
      BY <1>1, <3>2, PasteCloses
    <3> HIDE DEF q
    <3> QED
      BY <1>4, <2>1, <2>2, <3>1, <3>3, OnePaste
  <2>4. ASSUME SendBegins(a) PROVE IInv'
    <3> DEFINE blob == id \in DOMAIN data
               c    == IF blob THEN id ELSE heap.content
               sz   == IF blob THEN data[id] ELSE heap.len
               rest == IF blob THEN 0 ELSE heap.len
               q    == [p EXCEPT !.state = "sending", !.content = c, !.blob = blob, !.sz = sz, !.remaining = rest]
    <3>1. pastes' = [pastes EXCEPT ![a] = q]
      BY <1>1, <2>4 DEF SendBegins
    <3>2. heap.content \in Nat /\ heap.len \in Nat
      BY DEF IInv, ReadingOK
    <3>3. /\ blob \in BOOLEAN /\ c \in Nat /\ sz \in Nat /\ (blob => c \in 1 .. Offered)
          /\ rest \in Nat /\ (blob => rest = 0)
      BY <1>1, <3>2 DEF RowsOK
    <3> HIDE DEF blob, c, sz, rest
    <3>4. PasteOK(q, data, Offered) /\ q.state = "sending"
      <4>1. PasteOK(q, data, Offered)
        BY <1>1, <2>1, <3>3, PasteBegins
      <4> QED
        BY <1>2, <4>1 DEF Paste
    <3> HIDE DEF q
    <3> QED
      BY <2>1, <2>2, <3>1, <3>4, OnePaste
  <2> QED
    BY <2>1, <2>3, <2>4
<1>6. CASE WriteBegins(a)
  <2>1. /\ p.state = "sending" /\ serving' = a
        /\ UNCHANGED <<id, heap, data, offers, source, reading, pastes>>
    BY <1>6 DEF WriteBegins
  <2>2. Offered' = Offered /\ ReadingOK'
    BY <2>1 DEF Offered, IInv, ReadingOK
  <2> QED
    BY <2>1, <2>2 DEF IInv, RowsOK
<1>7. CASE WriteCallback(a)
  <2>1. /\ UNCHANGED <<id, heap, data, offers, source, reading>>
        /\ Refill(a) \/ RefillEnds(a) \/ Write(a) \/ WouldBlock(a) \/ Unwanted(a)
    BY <1>7 DEF WriteCallback
  <2>2. serving = a /\ p.state = "sending"
    BY <1>1, <2>1 DEF Refill, RefillEnds, Write, WouldBlock, Unwanted
  <2>3. CASE Refill(a)
    <3> DEFINE r == RefillBy(a)
               q == [p EXCEPT !.remaining = r, !.off = @ + r]
    <3>1. /\ p.blob /\ p.remaining = 0 /\ r > 0
          /\ pastes' = [pastes EXCEPT ![a].remaining = r, ![a].off = @ + r] /\ serving' = serving
      BY <2>3 DEF Refill, Unread
    <3>2. pastes' = [pastes EXCEPT ![a] = q]
      BY <1>1, <1>2, <3>1 DEF Paste
    <3>3. r \in Nat /\ r <= p.sz - p.off
      <4>1. p.off <= p.sz
        BY <1>1, <3>1 DEF PasteOK
      <4> DEFINE m == p.sz - p.off
      <4>2. m \in Nat /\ RefillBy(a) = Min({BufSize, m})
        BY <1>3, <4>1 DEF RefillBy
      <4> HIDE DEF m
      <4>3. RefillBy(a) \in Nat /\ RefillBy(a) <= m
        BY <4>2, MinOfTwo, Sizes
      <4> QED
        BY <4>3 DEF m
    <3> HIDE DEF r
    <3>4. PasteOK(q, data, Offered) /\ q.state = "sending"
      <4>1. PasteOK(q, data, Offered)
        BY <1>1, <2>2, <3>1, <3>3, PasteRefilled
      <4> QED
        BY <1>2, <2>2, <4>1 DEF Paste
    <3> HIDE DEF q
    <3> QED
      BY <2>1, <3>1, <3>2, <3>4, OnePaste
  <2>4. CASE RefillEnds(a) \/ Unwanted(a)
    <3> DEFINE q == [p EXCEPT !.state = "closed"]
    <3>1. pastes' = [pastes EXCEPT ![a] = q] /\ serving' = NoApp
      BY <2>4 DEF RefillEnds, Unwanted, End, Closed
    <3>2. p.blob => Len(p.sent) = p.sz \/ p.content \notin DOMAIN data \/ ~p.open
      <4>1. ASSUME p.blob, RefillEnds(a), p.content \in DOMAIN data PROVE Len(p.sent) = p.sz
        <5>1. p.remaining = 0 /\ Min({BufSize, p.sz - p.off}) = 0
          BY <4>1 DEF RefillEnds, Unread, RefillBy
        <5>2. Len(p.sent) = p.off - p.remaining /\ p.off <= p.sz
          BY <1>1, <4>1 DEF PasteOK
        <5>3. p.sz - p.off \in Nat
          BY <1>3, <5>2
        <5>4. p.sz - p.off = 0
          BY <5>1, <5>3, MinOfTwo, Sizes
        <5> QED
          BY <1>3, <5>1, <5>2, <5>4
      <4> QED
        BY <2>4, <4>1 DEF Unwanted
    <3>3. PasteOK(q, data, Offered)
      BY <1>1, <3>2, PasteCloses
    <3> HIDE DEF q
    <3> QED
      BY <1>4, <2>1, <3>1, <3>3, OnePaste
  <2>5. CASE Write(a)
    <3> DEFINE w   == Min({p.remaining, Room(a)})
               new == Written(a, w)
               q   == [p EXCEPT !.sent = @ \o new, !.remaining = @ - w]
               now == [pastes EXCEPT ![a].sent = @ \o new, ![a].remaining = @ - w]
    <3>1. /\ p.remaining > 0 /\ Room(a) > 0
          /\ IF now[a].remaining = 0 /\ ~p.blob
             THEN pastes' = [now EXCEPT ![a].state = "closed"] /\ serving' = NoApp
             ELSE pastes' = now /\ UNCHANGED serving
      BY <2>5 DEF Write
    <3>2. now = [pastes EXCEPT ![a] = q]
      BY <1>1, <1>2 DEF Paste
    <3>3. w \in Nat /\ w <= p.remaining
      <4> DEFINE m == p.remaining
                 r == Room(a)
      <4>1. r \in Int
        BY <1>3, Sizes DEF Room
      <4>2. m \in Nat /\ m > 0 /\ r > 0 /\ w = Min({m, r})
        BY <1>3, <3>1
      <4> HIDE DEF w, m, r
      <4>3. w \in Nat /\ w <= m
        BY <4>1, <4>2, MinOfTwo
      <4> QED
        BY <4>3 DEF m
    <3>4. /\ new \in Seq(Nat \X Int) /\ Len(new) = w
          /\ p.blob => \A i \in 1 .. w : new[i] = <<p.content, p.off - p.remaining + i>>
      <4> DEFINE at == IF p.blob THEN p.off - p.remaining ELSE p.sz - p.remaining
                 u(i) == IF PointsAt(a) THEN <<p.content, at + i>> ELSE Garbage
      <4>1. new = [i \in 1 .. w |-> u(i)]
        BY DEF Written
      <4>2. at \in Int
        BY <1>3, SMTT(60)
      <4> HIDE DEF at
      <4>3. \A i \in 1 .. w : u(i) \in Nat \X Int
        BY <1>3, <3>3, <4>2 DEF Garbage
      <4>4. p.blob => PointsAt(a) /\ at = p.off - p.remaining
        BY DEF PointsAt, at
      <4> HIDE DEF w, u
      <4>5. new \in Seq(Nat \X Int) /\ Len(new) = w /\ \A i \in 1 .. w : new[i] = u(i)
        BY <3>3, <4>1, <4>3
      <4> QED
        BY <4>4, <4>5 DEF u
    <3> HIDE DEF w, new
    <3>5. PasteOK(q, data, Offered) /\ q.state = "sending" /\ q.blob = p.blob
      <4>1. PasteOK(q, data, Offered)
        BY <1>1, <2>2, <3>3, <3>4, PasteWritten
      <4> QED
        BY <1>2, <2>2, <4>1 DEF Paste
    <3> HIDE DEF q
    <3>6. CASE ~ (now[a].remaining = 0 /\ ~p.blob)
      BY <2>1, <3>1, <3>2, <3>5, <3>6, OnePaste
    <3>7. CASE now[a].remaining = 0 /\ ~p.blob
      <4> DEFINE z == [q EXCEPT !.state = "closed"]
      <4>1. pastes' = [pastes EXCEPT ![a] = z] /\ serving' = NoApp
        BY <1>1, <3>1, <3>2, <3>7
      <4>2. PasteOK(z, data, Offered)
        BY <3>5, <3>7, PasteCloses
      <4> HIDE DEF z
      <4> QED
        BY <1>4, <2>1, <4>1, <4>2, OnePaste
    <3> QED
      BY <3>6, <3>7
  <2>6. CASE WouldBlock(a)
    <3>1. UNCHANGED <<heap, data, offers, source, reading, pastes>> /\ serving' = NoApp
      BY <2>1, <2>6 DEF WouldBlock
    <3>2. Offered' = Offered /\ ReadingOK'
      BY <3>1 DEF Offered, IInv, ReadingOK
    <3> QED
      BY <3>1, <3>2 DEF IInv, RowsOK
  <2> QED
    BY <2>1, <2>3, <2>4, <2>5, <2>6
<1>8. CASE AppReads(a)
  <2> DEFINE q == [p EXCEPT !.got = Len(p.sent)]
  <2>1. pastes' = [pastes EXCEPT ![a] = q] /\ UNCHANGED <<id, heap, data, offers, source, reading, serving>>
    BY <1>8 DEF AppReads
  <2>2. PasteOK(q, data, Offered) /\ q.state = p.state
    BY <1>1, <1>3, PasteRead
  <2> HIDE DEF q
  <2> QED
    BY <1>1, <2>1, <2>2, OnePaste
<1>9. CASE AppLeaves(a)
  <2> DEFINE q == [p EXCEPT !.open = FALSE]
  <2>1. pastes' = [pastes EXCEPT ![a] = q] /\ UNCHANGED <<id, heap, data, offers, source, reading, serving>>
    BY <1>9 DEF AppLeaves
  <2>2. PasteOK(q, data, Offered) /\ q.state = p.state
    BY <1>1, PasteLeft
  <2> HIDE DEF q
  <2> QED
    BY <1>1, <2>1, <2>2, OnePaste
<1> QED
  BY <1>5, <1>6, <1>7, <1>8, <1>9

LEMMA NextKeeps == IInv /\ [Next]_vars => IInv'
<1> SUFFICES ASSUME IInv, [Next]_vars PROVE IInv'
  OBVIOUS
<1>1. CASE UNCHANGED vars
  <2>1. UNCHANGED <<heap, data, offers, source, reading, pastes, serving>>
    BY <1>1 DEF vars
  <2>2. Offered' = Offered /\ ReadingOK'
    BY <2>1 DEF Offered, IInv, ReadingOK
  <2> QED
    BY <2>1, <2>2 DEF IInv, RowsOK
<1>2. CASE \E a \in Apps : Send(a) \/ WriteBegins(a) \/ WriteCallback(a) \/ AppReads(a) \/ AppLeaves(a)
  BY <1>2, PastingStep
<1> QED
  BY <1>1, <1>2, ReadingStep DEF Next

-----------------------------------------------------------------------------
(* The theorems                                                              *)

(* The invariant holds from the first state on. *)
THEOREM TransfersAreConsistent == Spec => []IInv
BY InitEstablishes, NextKeeps, PTL DEF Spec

(* Whatever is copied, deleted or trimmed while an application pastes an entry,  *)
(* it gets the first units of one content, in order, and the end of file only    *)
(* after all of it or once the entry is gone.  (wsignal_send, write_callback)   *)
THEOREM PasteIsAlwaysWhole == Spec => []PasteIsWhole
<1>1. IInv => PasteIsWhole
  <2> SUFFICES ASSUME IInv, NEW a \in Apps, pastes[a].blob
               PROVE  LET whole == Whole(pastes[a].content, pastes[a].sz)
                      IN /\ IsPrefix(pastes[a].sent, whole)
                         /\ pastes[a].state = "closed" /\ pastes[a].open /\ pastes[a].content \in DOMAIN data =>
                                pastes[a].sent = whole
    BY DEF PasteIsWhole
  <2> DEFINE p == pastes[a]
             whole == Whole(p.content, p.sz)
             l == Len(p.sent)
  <2>1. /\ PasteOK(p, data, Offered) /\ p \in Paste /\ p.sent = Whole(p.content, l)
        /\ l = p.off - p.remaining /\ p.off <= p.sz
    BY DEF IInv, PasteOK
  <2>2. p.off \in Nat /\ p.remaining \in Nat /\ p.sz \in Nat /\ p.content \in Nat /\ p.sent \in Seq(Nat \X Int)
    BY <2>1 DEF Paste
  <2>3. l \in Nat /\ l <= p.sz
    <3>1. l \in Nat
      BY <2>2, LenProperties
    <3> HIDE DEF l
    <3> QED
      BY <2>1, <2>2, <3>1
  <2>4. IsPrefix(p.sent, whole)
    <3> DEFINE c == p.content
               sz == p.sz
               s == p.sent
    <3>1. c \in Nat /\ sz \in Nat /\ l \in Nat /\ l <= sz /\ s = [i \in 1 .. l |-> <<c, i>>]
          /\ whole = [i \in 1 .. sz |-> <<c, i>>]
      BY <2>1, <2>2, <2>3 DEF Whole
    <3> HIDE DEF c, sz, s, l, whole
    <3>2. Len(s) = l /\ Len(whole) = sz
      BY <3>1
    <3>3. SubSeq(s, 1, l) = s /\ SubSeq(whole, 1, l) = s
      BY <3>1
    <3> QED
      BY <3>1, <3>2, <3>3 DEF IsPrefix, s
  <2>5. p.state = "closed" /\ p.open /\ p.content \in DOMAIN data => p.sent = whole
    BY <2>1 DEF PasteOK
  <2> QED
    BY <2>4, <2>5
<1> QED
  BY <1>1, TransfersAreConsistent, PTL

(* What becomes current after a selection was read is all that the application   *)
(* wrote before it closed the pipe, and not more than max_size.  (io_read)       *)
THEOREM ReadIsAlwaysWhole == Spec => ReadIsWhole
<1>1. IInv /\ [Next]_vars =>
          [reading # NotReading /\ reading' = NotReading /\ (id' = reading.content \/ heap' # Empty) =>
              ~source.open /\ reading.got = source.written /\ reading.got \in 1 .. MaxBytes]_vars
  <2> SUFFICES ASSUME IInv, Next, reading # NotReading, reading' = NotReading,
                      id' = reading.content \/ heap' # Empty
               PROVE  ~source.open /\ reading.got = source.written /\ reading.got \in 1 .. MaxBytes
    OBVIOUS
  <2>1. /\ reading.content = offers /\ offers > 0 /\ offers \in Nat /\ reading.got \in 0 .. MaxBytes
        /\ source.written \in Nat
    BY DEF IInv, ReadingOK
  <2>2. ~ReadFails
    BY <2>1 DEF ReadFails, Failed
  <2>3. ReadSucceeds
    <3>1. ~ReadChunk
      <4>1. ReadChunk => reading'.content = offers
        BY DEF IInv, ReadingOK, ReadChunk
      <4>2. NotReading.content = 0
        BY DEF NotReading
      <4> QED
        BY <2>1, <4>1, <4>2
    <3> QED
      BY <2>2, <3>1 DEF Next, Receive, SourceWrites, SourceCloses, Selection, SelectionFails, SetClipboard, RemoveRows,
                        Idle, Send, WriteBegins, WriteCallback, AppReads, AppLeaves
  <2>4. source.written - reading.got = 0 /\ ~source.open /\ reading.got > 0
    BY <2>3 DEF ReadSucceeds, Ended, AtEnd, Available
  <2> QED
    BY <2>1, <2>4, Sizes
<1> QED
  BY <1>1, TransfersAreConsistent, PTL DEF Spec, ReadIsWhole

=============================================================================
