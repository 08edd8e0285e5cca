--------------------------- MODULE HistoryProofs ---------------------------
(***************************************************************************)
(* What is proved about the history, for every configuration, every set of *)
(* contents, every choice of failing calls and every bound: the invariants *)
(* and action properties of ClipHistory, from the inductive IInv; that     *)
(* ClipHistory implements History, from where each statement of HistoryDB  *)
(* leaves each entry; and what follows for the clients, Swctl and          *)
(* Subscriber.                                                             *)
(***************************************************************************)
EXTENDS HistoryRefinement, Swctl, Subscriber, RanksProofs, FiniteSetTheorems, TLAPS

-----------------------------------------------------------------------------
(* What the statements of HistoryDB return and preserve, for every database.   *)

(* A non-empty set of naturals that has a bound has a maximum. *)
LEMMA MaxIsUpperBound ==
    ASSUME NEW S \in SUBSET Nat, S # {}, NEW b \in Nat, \A s \in S : s <= b
    PROVE  Max(S) \in S /\ \A s \in S : s <= Max(S)
<1> DEFINE T == {n \in Nat : \A s \in S : s <= n}
           R == {p \in Nat \X Nat : p[1] < p[2]}
<1>1. T # {} /\ T \subseteq Nat
  OBVIOUS
<1>2. PICK m \in T : \A n \in T : ~ (<<n, m>> \in R)
  <2>1. IsWellFoundedOn(R, Nat)
    BY NatLessThanWellFounded, Zenon DEF OpToRel
  <2> HIDE DEF R, T
  <2> QED
    BY <1>1, <2>1, WFMin
<1>3. \A n \in T : m <= n
  <2> SUFFICES ASSUME NEW n \in T PROVE ~ (n < m)
    OBVIOUS
  <2>1. <<n, m>> \notin R
    BY <1>2
  <2> QED
    BY <2>1
<1>4. m \in S
  <2> SUFFICES ASSUME m \notin S PROVE FALSE
    OBVIOUS
  <2>1. PICK s \in S : TRUE
    OBVIOUS
  <2>2. m # 0
    BY <2>1
  <2>3. m - 1 \in T
    BY <2>2
  <2> QED
    BY <1>3, <2>3
<1>5. \E x \in S : \A y \in S : x >= y
  BY <1>4
<1> QED
  BY <1>5 DEF Max

(* The next Sort_index is positive and above every one in use. *)
LEMMA NextSortIsNew ==
    ASSUME NEW d, IsDatabase(d)
    PROVE  /\ NextSort(d) \in Nat \ {0}
           /\ \A i \in Live(d) : Sort(d, i) \in Sorts /\ Sort(d, i) < NextSort(d)
<1> DEFINE S == {Sort(d, i) : i \in Live(d)} \cup {0}
<1>1. \A i \in Live(d) : Sort(d, i) \in Sorts
  BY DEF IsDatabase, IsTable, Live, Sort, Row
<1>2. S \in SUBSET Nat /\ S # {} /\ \A s \in S : s <= MaxSort
  BY <1>1, BoundsAssumption DEF Sorts
<1>3. Max(S) \in S /\ \A s \in S : s <= Max(S)
  <2> HIDE DEF S
  <2> QED
    BY <1>2, MaxIsUpperBound, BoundsAssumption
<1>4. NextSort(d) = Max(S) + 1
  BY DEF NextSort
<1>5. \A i \in Live(d) : Sort(d, i) \in S
  OBVIOUS
<1>6. \A i \in Live(d) : Sort(d, i) <= Max(S)
  BY <1>3, <1>5
<1>7. Max(S) \in Nat
  BY <1>2, <1>3
<1> HIDE DEF S
<1> QED
  BY <1>1, <1>4, <1>6, <1>7 DEF Sorts

-----------------------------------------------------------------------------
(* Writing one row leaves the other rows and tables alone. *)
LEMMA SetRowEffect ==
    ASSUME NEW d, IsDatabase(d), NEW i \in Ids, NEW r \in Row
    PROVE  /\ IsDatabase(SetRow(d, i, r))
           /\ Live(SetRow(d, i, r)) = Live(d) \cup {i}
           /\ SetRow(d, i, r).entries[i] = r
           /\ \A j \in Live(d) \ {i} : SetRow(d, i, r).entries[j] = d.entries[j]
           /\ SetRow(d, i, r).data = d.data
           /\ SetRow(d, i, r).seq = d.seq
           /\ SetRow(d, i, r).last = d.last
<1> DEFINE e == [j \in Live(d) \cup {i} |-> IF j = i THEN r ELSE d.entries[j]]
<1>1. IsTable(e)
  BY DEF IsDatabase, IsTable, Live
<1>2. SetRow(d, i, r) = [d EXCEPT !.entries = e]
  BY DEF SetRow
<1>3. /\ [d EXCEPT !.entries = e].entries = e
      /\ [d EXCEPT !.entries = e].data = d.data
      /\ [d EXCEPT !.entries = e].seq = d.seq
      /\ [d EXCEPT !.entries = e].last = d.last
      /\ [d EXCEPT !.entries = e] \in [entries : {e}, data : SUBSET Blobs, seq : 0 .. MaxId,
                                        last : Ids \cup {NoId}]
  BY DEF IsDatabase
<1> QED
  BY <1>1, <1>2, <1>3 DEF IsDatabase, Live

(* The same for a row that exists. *)
LEMMA UpdateRowEffect ==
    ASSUME NEW d, IsDatabase(d), NEW i \in Live(d), NEW r \in Row
    PROVE  /\ IsDatabase(SetRow(d, i, r))
           /\ Live(SetRow(d, i, r)) = Live(d)
           /\ SetRow(d, i, r).entries[i] = r
           /\ \A j \in Live(d) \ {i} : SetRow(d, i, r).entries[j] = d.entries[j]
           /\ SetRow(d, i, r).data = d.data
           /\ SetRow(d, i, r).seq = d.seq
           /\ SetRow(d, i, r).last = d.last
<1>1. i \in Ids
  BY DEF IsDatabase, IsTable, Live
<1> DEFINE e == SetRow(d, i, r)
<1>2. /\ IsDatabase(e)
      /\ Live(e) = Live(d) \cup {i}
      /\ e.entries[i] = r
      /\ \A j \in Live(d) \ {i} : e.entries[j] = d.entries[j]
      /\ e.data = d.data
      /\ e.seq = d.seq
      /\ e.last = d.last
  BY <1>1, SetRowEffect, Zenon
<1> HIDE DEF e
<1>3. Live(e) = Live(d)
  BY <1>2
<1> QED
  BY <1>2, <1>3 DEF e

(* Deleting rows leaves the other rows, the counter and the setting alone. *)
LEMMA DeleteRowsEffect ==
    ASSUME NEW d, IsDatabase(d), NEW S
    PROVE  /\ IsDatabase(DeleteRows(d, S))
           /\ Live(DeleteRows(d, S)) = Live(d) \ S
           /\ \A j \in Live(d) \ S : DeleteRows(d, S).entries[j] = d.entries[j]
           /\ DeleteRows(d, S).seq = d.seq
           /\ DeleteRows(d, S).last = d.last
<1> DEFINE e == Restrict(d.entries, Live(d) \ S)
           b == d.data \ (Refs(Restrict(d.entries, Live(d) \cap S)) \ Refs(e))
<1>1. IsTable(e)
  BY DEF IsDatabase, IsTable, Live, Restrict
<1>2. DeleteRows(d, S) = [d EXCEPT !.entries = e, !.data = b]
  BY DEF DeleteRows
<1>3. b \subseteq Blobs
  BY DEF IsDatabase
<1> HIDE DEF b
<1>4. /\ [d EXCEPT !.entries = e, !.data = b].entries = e
      /\ [d EXCEPT !.entries = e, !.data = b].data = b
      /\ [d EXCEPT !.entries = e, !.data = b].seq = d.seq
      /\ [d EXCEPT !.entries = e, !.data = b].last = d.last
      /\ [d EXCEPT !.entries = e, !.data = b]
            \in [entries : {e}, data : SUBSET Blobs, seq : 0 .. MaxId, last : Ids \cup {NoId}]
  BY <1>3 DEF IsDatabase
<1> QED
  BY <1>1, <1>2, <1>4 DEF IsDatabase, Live, Restrict

(* A payload is referred to when some row has it, and is not the empty one. *)
LEMMA RefsElement ==
    ASSUME NEW e, NEW b
    PROVE  b \in Refs(e) <=> b # NoBlob /\ \E i \in DOMAIN e : \E m \in DOMAIN e[i].mimes : b = e[i].mimes[m]
BY DEF Refs

(* When Data holds what the rows refer to, it still does after a deletion. *)
LEMMA DeleteRowsKeepsReferenced ==
    ASSUME NEW d, IsDatabase(d), NEW S, d.data = Refs(d.entries)
    PROVE  DeleteRows(d, S).data = Refs(DeleteRows(d, S).entries)
<1> DEFINE e == Restrict(d.entries, Live(d) \ S)
           g == Restrict(d.entries, Live(d) \cap S)
<1>1. DeleteRows(d, S).entries = e /\ DeleteRows(d, S).data = d.data \ (Refs(g) \ Refs(e))
  BY DEF DeleteRows, IsDatabase
<1>2. ASSUME NEW b PROVE b \in Refs(d.entries) <=> b \in Refs(e) \cup Refs(g)
  <2>1. /\ DOMAIN e = Live(d) \ S /\ DOMAIN g = Live(d) \cap S
        /\ \A i \in DOMAIN e : e[i] = d.entries[i]
        /\ \A i \in DOMAIN g : g[i] = d.entries[i]
    BY DEF Restrict, Live
  <2> HIDE DEF e, g
  <2> QED
    BY <2>1, RefsElement DEF Live
<1> QED
  BY <1>1, <1>2

-----------------------------------------------------------------------------
(* A row replaced by one with the same mime types refers to the same payloads. *)
LEMMA SetRowKeepsReferenced ==
    ASSUME NEW d, IsDatabase(d), DataReferenced(d), NEW i \in Live(d), NEW r \in Row,
           r.mimes = d.entries[i].mimes
    PROVE  DataReferenced(SetRow(d, i, r))
<1> DEFINE e == SetRow(d, i, r)
<1>1. /\ Live(e) = Live(d)
      /\ \A j \in Live(d) : e.entries[j].mimes = d.entries[j].mimes
      /\ e.data = d.data
  <2>1. /\ Live(e) = Live(d)
        /\ e.entries[i] = r
        /\ \A j \in Live(d) \ {i} : e.entries[j] = d.entries[j]
        /\ e.data = d.data
    BY UpdateRowEffect
  <2> HIDE DEF e
  <2> QED
    BY <2>1
<1> HIDE DEF e
<1>2. ASSUME NEW b PROVE b \in Refs(e.entries) <=> b \in Refs(d.entries)
  BY <1>1, RefsElement DEF Live
<1> QED
  BY <1>1, <1>2 DEF DataReferenced, e

(* Deletions keep a database sound. *)
LEMMA DeleteRowsSound ==
    ASSUME NEW d, Sound(d), NEW S
    PROVE  Sound(DeleteRows(d, S))
<1> DEFINE e == DeleteRows(d, S)
<1>1. IsDatabase(d) /\ IdsIssued(d) /\ RowsWhole(d) /\ HashesNewest(d) /\ DataReferenced(d)
  BY DEF Sound
<1>2. /\ IsDatabase(e)
      /\ Live(e) \subseteq Live(d)
      /\ \A j \in Live(e) : e.entries[j] = d.entries[j]
      /\ e.seq = d.seq
  BY <1>1, DeleteRowsEffect
<1>3. DataReferenced(e)
  BY <1>1, DeleteRowsKeepsReferenced DEF DataReferenced
<1> HIDE DEF e
<1>4. IdsIssued(e)
  BY <1>1, <1>2 DEF IdsIssued
<1>5. RowsWhole(e)
  BY <1>1, <1>2 DEF RowsWhole
<1>6. HashesNewest(e)
  BY <1>1, <1>2 DEF HashesNewest, Sort
<1> QED
  BY <1>2, <1>3, <1>4, <1>5, <1>6 DEF Sound, e

(* So does writing the setting, *)
LEMMA SaveLastSound ==
    ASSUME NEW d, Sound(d), NEW i \in Ids
    PROVE  /\ Sound(SaveLast(d, i))
           /\ SaveLast(d, i).entries = d.entries
           /\ SaveLast(d, i).seq = d.seq
           /\ SaveLast(d, i).last = i
<1> DEFINE e == SaveLast(d, i)
<1>1. IsDatabase(d) /\ IdsIssued(d) /\ RowsWhole(d) /\ HashesNewest(d) /\ DataReferenced(d)
  BY DEF Sound
<1>2. /\ IsDatabase(e)
      /\ e.entries = d.entries
      /\ e.data = d.data
      /\ e.seq = d.seq
      /\ e.last = i
  BY <1>1 DEF SaveLast, IsDatabase
<1> HIDE DEF e
<1>3. IdsIssued(e) /\ RowsWhole(e) /\ HashesNewest(e) /\ DataReferenced(e)
  BY <1>1, <1>2 DEF IdsIssued, RowsWhole, HashesNewest, DataReferenced, Live, Sort
<1> QED
  BY <1>2, <1>3 DEF Sound, e

(* pinning, *)
LEMMA SetPinnedSound ==
    ASSUME NEW d, Sound(d), NEW i \in Live(d), NEW p \in BOOLEAN
    PROVE  /\ Sound(SetPinned(d, i, p))
           /\ Live(SetPinned(d, i, p)) = Live(d)
           /\ \A j \in Live(d) :
                  /\ SetPinned(d, i, p).entries[j].mimes = d.entries[j].mimes
                  /\ SetPinned(d, i, p).entries[j].hash = d.entries[j].hash
                  /\ SetPinned(d, i, p).entries[j].sort = d.entries[j].sort
                  /\ SetPinned(d, i, p).entries[j].pinned = IF j = i THEN p ELSE d.entries[j].pinned
           /\ SetPinned(d, i, p).seq = d.seq
<1> DEFINE r == [d.entries[i] EXCEPT !.pinned = p]
           e == SetRow(d, i, r)
<1>1. IsDatabase(d) /\ IdsIssued(d) /\ RowsWhole(d) /\ HashesNewest(d) /\ DataReferenced(d)
  BY DEF Sound
<1>2. i \in Ids /\ d.entries[i] \in Row
  BY <1>1 DEF IsDatabase, IsTable, Live
<1>3. /\ r \in Row
      /\ r.sort = d.entries[i].sort
      /\ r.hash = d.entries[i].hash
      /\ r.mimes = d.entries[i].mimes
      /\ r.pinned = p
  BY <1>2 DEF Row
<1>4. DataReferenced(e)
  BY <1>1, <1>3, SetRowKeepsReferenced
<1> HIDE DEF r
<1>5. /\ IsDatabase(e)
      /\ Live(e) = Live(d)
      /\ \A j \in Live(d) : /\ e.entries[j].sort = d.entries[j].sort
                            /\ e.entries[j].hash = d.entries[j].hash
                            /\ e.entries[j].mimes = d.entries[j].mimes
                            /\ e.entries[j].pinned = IF j = i THEN p ELSE d.entries[j].pinned
      /\ e.seq = d.seq
  <2>1. /\ IsDatabase(e)
        /\ Live(e) = Live(d)
        /\ e.entries[i] = r
        /\ \A j \in Live(d) \ {i} : e.entries[j] = d.entries[j]
        /\ e.seq = d.seq
    BY <1>1, <1>3, UpdateRowEffect
  <2> HIDE DEF e
  <2> QED
    BY <1>3, <2>1
<1> HIDE DEF e
<1>6. IdsIssued(e) /\ RowsWhole(e) /\ HashesNewest(e)
  BY <1>1, <1>5 DEF IdsIssued, RowsWhole, HashesNewest, Sort
<1> QED
  BY <1>4, <1>5, <1>6 DEF Sound, SetPinned, e, r

(* and moving the row that carries a hash to the front. *)
LEMMA UpdateSortIndexSound ==
    ASSUME NEW d, Sound(d), NEW i \in Live(d), d.entries[i].hash # Null,
           NextSort(d) <= MaxSort
    PROVE  /\ Sound(UpdateSortIndex(d, i))
           /\ Live(UpdateSortIndex(d, i)) = Live(d)
           /\ \A j \in Live(d) :
                  /\ UpdateSortIndex(d, i).entries[j].mimes = d.entries[j].mimes
                  /\ UpdateSortIndex(d, i).entries[j].pinned = d.entries[j].pinned
                  /\ UpdateSortIndex(d, i).entries[j].hash = d.entries[j].hash
           /\ Sort(UpdateSortIndex(d, i), i) = NextSort(d)
           /\ \A j \in Live(d) \ {i} : Sort(UpdateSortIndex(d, i), j) = Sort(d, j)
           /\ UpdateSortIndex(d, i).seq = d.seq
<1> DEFINE r == [d.entries[i] EXCEPT !.sort = NextSort(d)]
           e == SetRow(d, i, r)
<1>1. IsDatabase(d) /\ IdsIssued(d) /\ RowsWhole(d) /\ HashesNewest(d) /\ DataReferenced(d)
  BY DEF Sound
<1>2. i \in Ids /\ d.entries[i] \in Row
  BY <1>1 DEF IsDatabase, IsTable, Live
<1>3. NextSort(d) \in Sorts /\ \A j \in Live(d) : Sort(d, j) \in Sorts /\ Sort(d, j) < NextSort(d)
  BY <1>1, NextSortIsNew, BoundsAssumption DEF Sorts
<1>4. /\ r \in Row
      /\ r.sort = NextSort(d)
      /\ r.hash = d.entries[i].hash
      /\ r.mimes = d.entries[i].mimes
      /\ r.pinned = d.entries[i].pinned
  BY <1>2, <1>3 DEF Row
<1>5. DataReferenced(e)
  BY <1>1, <1>4, SetRowKeepsReferenced
<1> HIDE DEF r
<1>6. /\ IsDatabase(e)
      /\ Live(e) = Live(d)
      /\ Sort(e, i) = NextSort(d)
      /\ \A j \in Live(d) \ {i} : Sort(e, j) = Sort(d, j)
      /\ \A j \in Live(d) : /\ e.entries[j].hash = d.entries[j].hash
                            /\ e.entries[j].mimes = d.entries[j].mimes
                            /\ e.entries[j].pinned = d.entries[j].pinned
      /\ e.seq = d.seq
  <2>1. /\ IsDatabase(e)
        /\ Live(e) = Live(d)
        /\ e.entries[i] = r
        /\ \A j \in Live(d) \ {i} : e.entries[j] = d.entries[j]
        /\ e.seq = d.seq
    BY <1>1, <1>4, UpdateRowEffect
  <2> HIDE DEF e
  <2> QED
    BY <1>4, <2>1 DEF Sort
<1> HIDE DEF e
<1>7. IdsIssued(e) /\ RowsWhole(e)
  BY <1>1, <1>6 DEF IdsIssued, RowsWhole
<1>8. HashesNewest(e)
  <2> SUFFICES ASSUME NEW k \in Live(d), NEW j \in Live(d) \ {k}
               PROVE  /\ Sort(e, k) # Sort(e, j)
                      /\ d.entries[k].hash = d.entries[j].mimes
                            => Sort(e, j) < Sort(e, k) /\ d.entries[j].hash = Null
    BY <1>6 DEF HashesNewest
  <2>1. /\ Sort(d, k) # Sort(d, j)
        /\ d.entries[k].hash = d.entries[j].mimes
              => Sort(d, j) < Sort(d, k) /\ d.entries[j].hash = Null
    BY <1>1 DEF HashesNewest
  <2>2. CASE k = i
    BY <1>3, <1>6, <2>1, <2>2 DEF Sorts
  <2>3. CASE j = i
    BY <1>3, <1>6, <2>1, <2>3 DEF Sorts
  <2>4. CASE k # i /\ j # i
    BY <1>6, <2>1, <2>4
  <2> QED
    BY <2>2, <2>3, <2>4
<1> QED
  BY <1>5, <1>6, <1>7, <1>8 DEF Sound, UpdateSortIndex, e, r

-----------------------------------------------------------------------------
(* The transaction of a selection event, statement by statement. *)

LEMMA MimeRowsElement ==
    ASSUME NEW f
    PROVE  f \in MimeRows <=> DOMAIN f \subseteq Mimes /\ f \in [DOMAIN f -> Payload]
BY DEF MimeRows

(* The new row has an id never issued before, the front place, no hash and no  *)
(* mime type yet.                                                              *)
LEMMA NewEntryEffect ==
    ASSUME NEW d, Sound(d), d.seq < MaxId, NextSort(d) <= MaxSort
    PROVE  /\ IsDatabase(NewEntry(d))
           /\ NewId(d) = d.seq + 1 /\ NewId(d) \in Ids \ Live(d)
           /\ Live(NewEntry(d)) = Live(d) \cup {NewId(d)}
           /\ \A i \in Live(d) : NewEntry(d).entries[i] = d.entries[i]
           /\ NewEntry(d).entries[NewId(d)].sort = NextSort(d)
           /\ NewEntry(d).entries[NewId(d)].hash = Null
           /\ NewEntry(d).entries[NewId(d)].pinned = FALSE
           /\ DOMAIN NewEntry(d).entries[NewId(d)].mimes = {}
           /\ NewEntry(d).seq = NewId(d)
           /\ DataReferenced(NewEntry(d))
<1> DEFINE r == [sort |-> NextSort(d), pinned |-> FALSE, hash |-> Null, mimes |-> [m \in {} |-> NoBlob]]
           s == SetRow(d, NewId(d), r)
           e == [s EXCEPT !.seq = NewId(d)]
<1>1. IsDatabase(d) /\ IdsIssued(d) /\ DataReferenced(d)
  BY DEF Sound
<1>2. NewId(d) = d.seq + 1 /\ NewId(d) \in Ids \ Live(d)
  BY <1>1, BoundsAssumption DEF NewId, Ids, IsDatabase, IdsIssued
<1>3. r \in Row /\ r.sort = NextSort(d) /\ r.hash = Null /\ r.pinned = FALSE /\ DOMAIN r.mimes = {}
  <2>1. NextSort(d) \in Sorts
    BY <1>1, NextSortIsNew, BoundsAssumption DEF Sorts
  <2>2. [m \in {} |-> NoBlob] \in MimeRows
    BY MimeRowsElement
  <2> QED
    BY <2>1, <2>2 DEF Row
<1> HIDE DEF r
<1>4. /\ IsDatabase(s)
      /\ Live(s) = Live(d) \cup {NewId(d)}
      /\ s.entries[NewId(d)] = r
      /\ \A i \in Live(d) \ {NewId(d)} : s.entries[i] = d.entries[i]
      /\ s.data = d.data
  <2>1. ASSUME NEW n \in Ids
        PROVE  /\ IsDatabase(SetRow(d, n, r))
               /\ Live(SetRow(d, n, r)) = Live(d) \cup {n}
               /\ SetRow(d, n, r).entries[n] = r
               /\ \A i \in Live(d) \ {n} : SetRow(d, n, r).entries[i] = d.entries[i]
               /\ SetRow(d, n, r).data = d.data
    BY <1>1, <1>3, SetRowEffect
  <2> QED
    BY <1>2, <2>1
<1> HIDE DEF s
<1>5. /\ IsDatabase(e)
      /\ e.entries = s.entries
      /\ e.data = s.data
      /\ e.seq = NewId(d)
  BY <1>2, <1>4, BoundsAssumption DEF IsDatabase, Ids
<1>6. NewEntry(d) = e
  BY DEF NewEntry, e, s, r
<1> HIDE DEF e
<1>7. DataReferenced(e)
  <2>1. ASSUME NEW b PROVE b \in Refs(e.entries) <=> b \in Refs(d.entries)
    BY <1>2, <1>3, <1>4, <1>5, RefsElement DEF Live
  <2> QED
    BY <1>1, <1>4, <1>5, <2>1 DEF DataReferenced
<1> QED
  BY <1>2, <1>3, <1>4, <1>5, <1>6, <1>7 DEF Live

(* One more mime type of the row is stored, and nothing else changes. *)
LEMMA NewMimeTypeEffect ==
    ASSUME NEW d, IsDatabase(d), DataReferenced(d), NEW i \in Live(d), NEW b \in Payload,
           NEW m \in Mimes, m \notin DOMAIN d.entries[i].mimes
    PROVE  /\ IsDatabase(NewMimeType(d, i, m, b))
           /\ Live(NewMimeType(d, i, m, b)) = Live(d)
           /\ \A j \in Live(d) \ {i} : NewMimeType(d, i, m, b).entries[j] = d.entries[j]
           /\ NewMimeType(d, i, m, b).entries[i].sort = d.entries[i].sort
           /\ NewMimeType(d, i, m, b).entries[i].hash = d.entries[i].hash
           /\ NewMimeType(d, i, m, b).entries[i].pinned = d.entries[i].pinned
           /\ DOMAIN NewMimeType(d, i, m, b).entries[i].mimes = DOMAIN d.entries[i].mimes \cup {m}
           /\ \A n \in DOMAIN d.entries[i].mimes :
                  NewMimeType(d, i, m, b).entries[i].mimes[n] = d.entries[i].mimes[n]
           /\ NewMimeType(d, i, m, b).entries[i].mimes[m] = b
           /\ NewMimeType(d, i, m, b).seq = d.seq
           /\ DataReferenced(NewMimeType(d, i, m, b))
<1> DEFINE old == d.entries[i].mimes
           f == [n \in DOMAIN old \cup {m} |-> IF n = m THEN b ELSE old[n]]
           r == [d.entries[i] EXCEPT !.mimes = f]
           s == SetRow(d, i, r)
           e == [s EXCEPT !.data = @ \cup ({b} \ {NoBlob})]
<1>1. d.entries[i] \in Row /\ old \in MimeRows
  BY DEF IsDatabase, IsTable, Live, Row
<1>2. f \in MimeRows
  BY <1>1, MimeRowsElement
<1>3. /\ DOMAIN f = DOMAIN old \cup {m}
      /\ \A n \in DOMAIN old : f[n] = old[n]
      /\ f[m] = b
  OBVIOUS
<1> HIDE DEF f
<1>4. /\ r \in Row
      /\ r.sort = d.entries[i].sort
      /\ r.hash = d.entries[i].hash
      /\ r.pinned = d.entries[i].pinned
      /\ r.mimes = f
  BY <1>1, <1>2 DEF Row
<1> HIDE DEF r
<1>5. /\ IsDatabase(s)
      /\ Live(s) = Live(d)
      /\ s.entries[i] = r
      /\ \A j \in Live(d) \ {i} : s.entries[j] = d.entries[j]
      /\ s.data = d.data
      /\ s.seq = d.seq
  BY <1>4, UpdateRowEffect, Zenon
<1> HIDE DEF s
<1>6. /\ IsDatabase(e)
      /\ e.entries = s.entries
      /\ e.data = s.data \cup ({b} \ {NoBlob})
      /\ e.seq = s.seq
  BY <1>5 DEF IsDatabase, Payload
<1>7. NewMimeType(d, i, m, b) = e
  BY DEF NewMimeType, e, s, r, f
<1> HIDE DEF e
<1>8. DataReferenced(e)
  <2>1. ASSUME NEW p
        PROVE  p \in Refs(e.entries) <=> p \in Refs(d.entries) \/ (p = b /\ b # NoBlob)
    BY <1>3, <1>4, <1>5, <1>6, RefsElement DEF Live
  <2> QED
    BY <1>5, <1>6, <2>1 DEF DataReferenced
<1> HIDE DEF old
<1>9. Live(e) = Live(s)
  BY <1>6 DEF Live
<1> QED
  BY <1>3, <1>4, <1>5, <1>6, <1>7, <1>8, <1>9 DEF old

(* Giving the finished row its hash, and taking that hash from the row that    *)
(* had it, turns the transaction e on a sound database d into a sound one.     *)
LEMMA HashedSound ==
    ASSUME NEW d, Sound(d), NEW e, IsDatabase(e), DataReferenced(e),
           NEW c \in Contents, NEW n \in Ids, n = d.seq + 1, e.seq = n,
           Live(e) = Live(d) \cup {n},
           \A i \in Live(d) : e.entries[i] = d.entries[i],
           e.entries[n].sort = NextSort(d),
           e.entries[n].hash = Null,
           e.entries[n].mimes = c
    PROVE  LET h == SetEntryHash(ClearEntryHash(e, c), n, c)
           IN  /\ Sound(h)
               /\ Live(h) = Live(d) \cup {n}
               /\ \A i \in Live(d) :
                      /\ h.entries[i].mimes = d.entries[i].mimes
                      /\ h.entries[i].pinned = d.entries[i].pinned
                      /\ h.entries[i].sort = d.entries[i].sort
                      /\ h.entries[i].hash = IF d.entries[i].hash = c THEN Null ELSE d.entries[i].hash
               /\ h.entries[n].mimes = c /\ h.entries[n].hash = c
               /\ h.entries[n].sort = NextSort(d)
               /\ h.entries[n].pinned = e.entries[n].pinned
               /\ h.seq = n
<1> DEFINE t == [i \in Live(e) |-> IF e.entries[i].hash = c
                                  THEN [e.entries[i] EXCEPT !.hash = Null]
                                  ELSE e.entries[i]]
           k == [e EXCEPT !.entries = t]
           r == [k.entries[n] EXCEPT !.hash = c]
           h == SetRow(k, n, r)
<1>1. IsDatabase(d) /\ IdsIssued(d) /\ RowsWhole(d) /\ HashesNewest(d)
  BY DEF Sound
<1>2. n \notin Live(d) /\ n \in Live(e)
  BY <1>1 DEF IdsIssued, IsDatabase
<1>3. c \in MimeRows /\ c # Null
  BY ContentsAssumption
<1>4. \A i \in Live(e) :
         /\ e.entries[i] \in Row
         /\ t[i] \in Row
         /\ t[i].sort = e.entries[i].sort
         /\ t[i].mimes = e.entries[i].mimes
         /\ t[i].pinned = e.entries[i].pinned
         /\ t[i].hash = IF e.entries[i].hash = c THEN Null ELSE e.entries[i].hash
  BY DEF IsDatabase, IsTable, Live, Row
<1>5. IsTable(t) /\ DOMAIN t = Live(e)
  BY <1>4 DEF IsTable, IsDatabase, Live
<1> HIDE DEF t
<1>6. /\ IsDatabase(k)
      /\ k.entries = t
      /\ k.data = e.data
      /\ k.seq = e.seq
  BY <1>5 DEF IsDatabase
<1>7. k = ClearEntryHash(e, c)
  BY DEF ClearEntryHash, k, t
<1> HIDE DEF k
<1>8. Live(k) = Live(e)
  BY <1>5, <1>6 DEF Live
<1>9. DataReferenced(k)
  <2>1. ASSUME NEW b PROVE b \in Refs(k.entries) <=> b \in Refs(e.entries)
    BY <1>4, <1>5, <1>6, RefsElement DEF Live
  <2> QED
    BY <1>6, <2>1 DEF DataReferenced
<1>10. /\ r \in Row
       /\ r.sort = NextSort(d)
       /\ r.mimes = c
       /\ r.hash = c
       /\ r.pinned = e.entries[n].pinned
  BY <1>2, <1>4, <1>6 DEF Row
<1>11. h = SetEntryHash(ClearEntryHash(e, c), n, c)
  BY <1>7 DEF SetEntryHash, h, r
<1>12. DataReferenced(h)
  BY <1>2, <1>4, <1>6, <1>8, <1>9, <1>10, SetRowKeepsReferenced
<1> HIDE DEF r
<1>13. /\ IsDatabase(h)
       /\ Live(h) = Live(k)
       /\ h.entries[n] = r
       /\ \A j \in Live(k) \ {n} : h.entries[j] = k.entries[j]
       /\ h.seq = k.seq
  <2>1. n \in Live(k)
    BY <1>2, <1>8
  <2> QED
    BY <1>6, <1>10, <2>1, UpdateRowEffect, ZenonT(60)
<1> HIDE DEF h
<1>14. \A i \in Live(d) :
          /\ h.entries[i].sort = d.entries[i].sort
          /\ h.entries[i].mimes = d.entries[i].mimes
          /\ h.entries[i].pinned = d.entries[i].pinned
          /\ h.entries[i].hash = IF d.entries[i].hash = c THEN Null ELSE d.entries[i].hash
  BY <1>2, <1>4, <1>6, <1>8, <1>13
<1>15. Live(h) = Live(d) \cup {n} /\ h.seq = n /\ h.entries[n] = r
  BY <1>6, <1>8, <1>13
<1>16. IdsIssued(h)
  <2>1. d.seq \in Nat
    BY <1>1, BoundsAssumption DEF IsDatabase
  <2>2. ASSUME NEW i \in Live(d) PROVE i \in Nat /\ i <= d.seq
    BY <1>1 DEF IdsIssued, IsDatabase, IsTable, Live, Ids
  <2> QED
    BY <1>15, <2>1, <2>2 DEF IdsIssued
<1>17. RowsWhole(h)
  BY <1>1, <1>10, <1>14, <1>15 DEF RowsWhole
<1>18. HashesNewest(h)
  <2> SUFFICES ASSUME NEW i \in Live(h), NEW j \in Live(h) \ {i}
               PROVE  /\ Sort(h, i) # Sort(h, j)
                      /\ h.entries[i].hash = h.entries[j].mimes
                            => Sort(h, j) < Sort(h, i) /\ h.entries[j].hash = Null
    BY DEF HashesNewest
  <2>1. \A l \in Live(d) : Sort(d, l) \in Nat /\ Sort(d, l) < NextSort(d) /\ NextSort(d) \in Nat
    BY <1>1, NextSortIsNew DEF Sorts
  <2>2. CASE i = n
    <3>1. j \in Live(d)
      BY <1>15, <2>2
    <3>2. d.entries[j].hash \in {Null, d.entries[j].mimes}
      BY <1>1, <3>1 DEF RowsWhole
    <3>3. Sort(h, i) = NextSort(d) /\ h.entries[i].hash = c
      BY <1>10, <1>15, <2>2 DEF Sort
    <3>4. /\ Sort(h, j) = Sort(d, j)
          /\ h.entries[j].mimes = d.entries[j].mimes
          /\ h.entries[j].hash = IF d.entries[j].hash = c THEN Null ELSE d.entries[j].hash
      BY <1>14, <3>1 DEF Sort
    <3> QED
      BY <2>1, <3>1, <3>2, <3>3, <3>4
  <2>3. CASE j = n
    <3>1. i \in Live(d)
      BY <1>15, <2>3
    <3> QED
      BY <1>3, <1>10, <1>14, <1>15, <2>1, <2>3, <3>1 DEF Sort
  <2>4. CASE i # n /\ j # n
    <3>1. i \in Live(d) /\ j \in Live(d) \ {i}
      BY <1>15, <2>4
    <3>2. /\ Sort(d, i) # Sort(d, j)
          /\ d.entries[i].hash = d.entries[j].mimes
                => Sort(d, j) < Sort(d, i) /\ d.entries[j].hash = Null
      BY <1>1, <3>1 DEF HashesNewest
    <3>3. d.entries[j].mimes # Null
      BY <1>1, <3>1, ContentsAssumption DEF RowsWhole
    <3> QED
      BY <1>14, <3>1, <3>2, <3>3 DEF Sort
  <2> QED
    BY <2>2, <2>3, <2>4
<1> QED
  BY <1>10, <1>11, <1>12, <1>13, <1>14, <1>15, <1>16, <1>17, <1>18 DEF Sound

-----------------------------------------------------------------------------
(* The handlers                                                              *)

(* What IInv says between transactions. *)
LEMMA Settled ==
    ASSUME IInv, pc # "receive"
    PROVE  /\ db = disk
           /\ Sound(disk) /\ IsDatabase(disk)
           /\ Live(disk) \subseteq Ids
BY DEF IInv, TypeOK, Sound, IsDatabase, IsTable, Live

(* A step that leaves no transaction open reaches IInv when what it committed  *)
(* is sound and the variables keep their types.                                *)
LEMMA SettledStep ==
    ASSUME config' \in Configs,
           Sound(disk'), db' = disk',
           id' \in Ids \cup {Clear, Transient},
           cleared' \in BOOLEAN,
           transient' \in Contents \cup {Null},
           pc' \in {"idle", "publish", "moved", "trim", "down"},
           work' \in [content : Contents \cup {Null}, id : Ids \cup {NoId}, pos : Nat],
           pc' \in {"publish", "moved"} => work'.id \in Ids
    PROVE  IInv'
BY DEF IInv, TypeOK, Sound

(* set() on a sound database. *)
LEMMA SetSound ==
    ASSUME Sound(disk), db = disk, cleared \in BOOLEAN,
           NEW i \in Ids \cup {Clear}, Set(db, i)
    PROVE  /\ id' \in Ids \cup {Clear}
           /\ cleared' \in BOOLEAN
           /\ db' = disk'
           /\ Sound(disk')
           /\ disk'.entries = disk.entries /\ disk'.seq = disk.seq
<1>1. id' = i /\ cleared' \in BOOLEAN /\ db' \in Saved(disk, i) /\ disk' = db'
  BY DEF Set
<1>2. CASE i \in Ids
  <2>1. db' \in {SaveLast(disk, i), disk}
    BY <1>1, <1>2 DEF Saved, Ids
  <2> QED
    BY <1>1, <1>2, <2>1, SaveLastSound
<1>3. CASE i = Clear
  BY <1>1, <1>3 DEF Saved, Clear
<1> QED
  BY <1>1, <1>2, <1>3

(* What is known inside the transaction. *)
LEMMA OpenTransaction ==
    ASSUME IInv, pc = "receive"
    PROVE  /\ IsDatabase(db) /\ DataReferenced(db)
           /\ Sound(disk) /\ IsDatabase(disk)
           /\ work.content \in Contents
           /\ work.id \in Ids /\ work.id \in Live(db) /\ work.id \notin Live(disk)
           /\ Partial.mimes \in MimeRows
<1>1. /\ IsDatabase(db) /\ DataReferenced(db) /\ Sound(disk) /\ IsDatabase(disk)
      /\ work.content \in Contents
      /\ work.id \in Live(db)
      /\ work.id = disk.seq + 1
  BY DEF IInv, TypeOK, InTransaction, Sound
<1>2. work.id \in Ids /\ Partial.mimes \in MimeRows
  BY <1>1 DEF IsDatabase, IsTable, Live, Partial, Row
<1>3. work.id \notin Live(disk)
  BY <1>1 DEF Sound, IdsIssued, IsDatabase
<1> QED
  BY <1>1, <1>2, <1>3

(* The row is finished when it has all mime types of the selection: then it    *)
(* has its contents.                                                           *)
LEMMA ReceivedIsWhole ==
    ASSUME IInv, Received
    PROVE  Partial.mimes = work.content
<1> DEFINE f == Partial.mimes
           g == work.content
<1>1. /\ f \in [DOMAIN f -> Payload]
      /\ g \in [DOMAIN g -> Payload]
  BY OpenTransaction, MimeRowsElement, ContentsAssumption DEF Received
<1>2. DOMAIN f = DOMAIN g /\ \A m \in DOMAIN f : f[m] = g[m]
  BY DEF IInv, InTransaction, Received
<1> HIDE DEF f, g
<1>3. f = g
  BY <1>1, <1>2
<1> QED
  BY <1>3 DEF f, g

(* A row found by the hash of the selection is one of the committed rows, and  *)
(* the row being inserted is in front of it.                                   *)
LEMMA DuplicateIsCommitted ==
    ASSUME IInv, Received, NEW i \in Duplicates
    PROVE  /\ i \in Live(disk)
           /\ disk.entries[i] = db.entries[i]
           /\ disk.entries[i].hash = work.content
           /\ work.content # Null
           /\ OldPosition(i) \in Nat
<1>1. pc = "receive" /\ InTransaction
  BY DEF Received, IInv
<1>2. i \in Live(db) /\ db.entries[i].hash = work.content
  BY DEF Duplicates, WithHash
<1>3. work.content # Null
  BY <1>1, OpenTransaction, ContentsAssumption
<1>4. i \in Live(disk) /\ i # work.id /\ disk.entries[i] = db.entries[i]
  BY <1>1, <1>2, <1>3 DEF InTransaction, Partial
<1> DEFINE S == {j \in Live(db) : Sort(db, j) > Sort(db, i)}
<1>5. IsFiniteSet(S)
  <2>1. Live(db) \subseteq 1 .. MaxId
    BY <1>1, OpenTransaction DEF IsDatabase, IsTable, Live, Ids
  <2>2. IsFiniteSet(1 .. MaxId)
    BY FS_Interval, BoundsAssumption
  <2> QED
    BY <2>1, <2>2, FS_Subset
<1>6. work.id \in S
  <2>1. Sort(db, work.id) = NextSort(disk)
    BY <1>1 DEF InTransaction, Partial, Sort
  <2>2. Sort(disk, i) < NextSort(disk) /\ Sort(disk, i) \in Nat /\ NextSort(disk) \in Nat
    BY <1>1, <1>4, OpenTransaction, NextSortIsNew DEF Sorts
  <2>3. Sort(db, i) = Sort(disk, i)
    BY <1>4 DEF Sort
  <2>4. work.id \in Live(db)
    BY <1>1, OpenTransaction
  <2> QED
    BY <2>1, <2>2, <2>3, <2>4
<1>7. Cardinality(S) \in Nat /\ Cardinality(S) # 0
  BY <1>5, <1>6, FS_CardinalityType, FS_EmptySet
<1>8. OldPosition(i) = Cardinality(S) - 1
  BY DEF OldPosition, Position
<1> QED
  BY <1>2, <1>3, <1>4, <1>7, <1>8

-----------------------------------------------------------------------------
(* What a step may do to the committed database: an id of d names the same     *)
(* contents in e or nothing, and an id d has issued and lost stays lost.       *)
IdsKept(d, e) ==
    \A i \in 1 .. d.seq :
        i \in Live(e) => i \in Live(d) /\ e.entries[i].mimes = d.entries[i].mimes

(* A pinned row stays, and stays pinned. *)
PinsKept(d, e) ==
    \A i \in Live(d) \ Unpinned(d) : i \in Live(e) /\ e.entries[i].pinned

LEMMA SameKept ==
    ASSUME NEW d, NEW e, e.entries = d.entries
    PROVE  IdsKept(d, e) /\ PinsKept(d, e)
BY DEF IdsKept, PinsKept, Live, Unpinned

(* A trim takes unpinned rows only. *)
LEMMA TrimSound ==
    ASSUME NEW d, Sound(d), NEW max
    PROVE  Sound(Trim(d, max)) /\ IdsKept(d, Trim(d, max)) /\ PinsKept(d, Trim(d, max))
<1> DEFINE S == Excess(d, max)
           e == DeleteRows(d, S)
<1>1. S \subseteq Unpinned(d)
  BY DEF Excess
<1>2. /\ Live(e) = Live(d) \ S
      /\ \A j \in Live(d) \ S : e.entries[j] = d.entries[j]
  BY DeleteRowsEffect DEF Sound
<1>3. Sound(e)
  BY DeleteRowsSound
<1> HIDE DEF S, e
<1>4. IdsKept(d, e) /\ PinsKept(d, e)
  BY <1>1, <1>2 DEF IdsKept, PinsKept, Unpinned
<1> QED
  BY <1>3, <1>4 DEF Trim, S, e

LEMMA DeleteSound ==
    ASSUME NEW d, Sound(d), NEW S
    PROVE  Sound(DeleteRows(d, S)) /\ IdsKept(d, DeleteRows(d, S))
<1> DEFINE e == DeleteRows(d, S)
<1>1. /\ Live(e) = Live(d) \ S
      /\ \A j \in Live(d) \ S : e.entries[j] = d.entries[j]
  BY DeleteRowsEffect DEF Sound
<1>2. Sound(e)
  BY DeleteRowsSound
<1> HIDE DEF e
<1>3. IdsKept(d, e)
  BY <1>1 DEF IdsKept
<1> QED
  BY <1>2, <1>3 DEF e

-----------------------------------------------------------------------------
(* Starting the transaction. *)
LEMMA CopyStep ==
    ASSUME IInv, NEW c \in Contents, Copy(c)
    PROVE  IInv' /\ disk' = disk
<1> DEFINE n == NewId(disk)
           e == NewEntry(disk)
<1>1. db = disk /\ Sound(disk) /\ IsDatabase(disk) /\ pc = "idle"
  BY Settled DEF Copy
<1>2. disk.seq < MaxId /\ NextSort(disk) <= MaxSort
  BY <1>1 DEF Copy, Room
<1>3. /\ IsDatabase(e)
      /\ n = disk.seq + 1 /\ n \in Ids \ Live(disk)
      /\ Live(e) = Live(disk) \cup {n}
      /\ \A i \in Live(disk) : e.entries[i] = disk.entries[i]
      /\ e.entries[n].sort = NextSort(disk)
      /\ e.entries[n].hash = Null /\ e.entries[n].pinned = FALSE
      /\ DOMAIN e.entries[n].mimes = {}
      /\ e.seq = n
      /\ DataReferenced(e)
  BY <1>1, <1>2, NewEntryEffect
<1>4. /\ db' = e /\ disk' = disk
      /\ work' = [content |-> c, id |-> n, pos |-> 0]
      /\ pc' = "receive" /\ transient' = Null
      /\ config' = config /\ id' = id /\ cleared' = cleared
  BY <1>1 DEF Copy
<1> HIDE DEF n, e
<1>5. work'.content = c /\ work'.id = n
  BY <1>4
<1>6. InTransaction'
  BY <1>2, <1>3, <1>4, <1>5 DEF InTransaction, Partial
<1>7. TypeOK'
  BY <1>1, <1>3, <1>4 DEF IInv, TypeOK
<1> QED
  BY <1>1, <1>4, <1>6, <1>7 DEF IInv

(* Storing a mime type in it. *)
LEMMA ReceiveStep ==
    ASSUME IInv, NEW m \in Mimes, ReceiveMime(m)
    PROVE  IInv' /\ disk' = disk
<1> DEFINE n == work.id
           b == work.content[m]
           e == NewMimeType(db, n, m, b)
<1>1. pc = "receive" /\ InTransaction /\ TypeOK
  BY DEF IInv, ReceiveMime
<1>2. /\ IsDatabase(db) /\ DataReferenced(db) /\ Sound(disk) /\ IsDatabase(disk)
      /\ work.content \in Contents
      /\ n \in Ids /\ n \in Live(db) /\ n \notin Live(disk)
  BY <1>1, OpenTransaction
<1>3. m \in DOMAIN work.content /\ m \notin DOMAIN db.entries[n].mimes
  BY DEF ReceiveMime, Partial
<1>4. b \in Payload
  BY <1>2, <1>3, MimeRowsElement, ContentsAssumption
<1>5. /\ db' = e /\ disk' = disk
      /\ config' = config /\ id' = id /\ cleared' = cleared /\ transient' = transient
      /\ pc' = pc /\ work' = work
  BY DEF ReceiveMime
<1> HIDE DEF n, b
<1>6. /\ IsDatabase(e)
      /\ Live(e) = Live(db)
      /\ \A j \in Live(db) \ {n} : e.entries[j] = db.entries[j]
      /\ e.entries[n].sort = db.entries[n].sort
      /\ e.entries[n].hash = db.entries[n].hash
      /\ e.entries[n].pinned = db.entries[n].pinned
      /\ DOMAIN e.entries[n].mimes = DOMAIN db.entries[n].mimes \cup {m}
      /\ \A k \in DOMAIN db.entries[n].mimes : e.entries[n].mimes[k] = db.entries[n].mimes[k]
      /\ e.entries[n].mimes[m] = b
      /\ e.seq = db.seq
      /\ DataReferenced(e)
  BY <1>2, <1>3, <1>4, NewMimeTypeEffect
<1> HIDE DEF e
<1>7. InTransaction'
  <2>1. /\ work.id = disk.seq + 1 /\ db.seq = work.id
        /\ NextSort(disk) <= MaxSort
        /\ Live(db) = Live(disk) \cup {n}
        /\ \A i \in Live(disk) : db.entries[i] = disk.entries[i]
        /\ db.entries[n].sort = NextSort(disk)
        /\ db.entries[n].hash = Null /\ db.entries[n].pinned = FALSE
        /\ DOMAIN db.entries[n].mimes \subseteq DOMAIN work.content
        /\ \A k \in DOMAIN db.entries[n].mimes : db.entries[n].mimes[k] = work.content[k]
    BY <1>1 DEF InTransaction, Partial, n
  <2>2. \A i \in Live(disk) : e.entries[i] = disk.entries[i]
    BY <1>2, <1>6, <2>1
  <2>3. \A k \in DOMAIN e.entries[n].mimes : e.entries[n].mimes[k] = work.content[k]
    BY <1>6, <2>1 DEF b
  <2> QED
    BY <1>2, <1>3, <1>5, <1>6, <2>1, <2>2, <2>3 DEF InTransaction, Partial, n
<1>8. TypeOK'
  BY <1>1, <1>2, <1>5, <1>6 DEF TypeOK
<1> QED
  BY <1>1, <1>2, <1>5, <1>7, <1>8 DEF IInv

(* Committing it. *)
LEMMA InsertStep ==
    ASSUME IInv, Insert
    PROVE  IInv' /\ IdsKept(disk, disk') /\ PinsKept(disk, disk')
<1> DEFINE n == work.id
           c == work.content
           h == SetEntryHash(ClearEntryHash(db, c), n, c)
<1>1. pc = "receive" /\ InTransaction /\ TypeOK /\ Received
  BY DEF IInv, Insert, Received
<1>2. /\ IsDatabase(db) /\ DataReferenced(db) /\ Sound(disk) /\ IsDatabase(disk)
      /\ c \in Contents
      /\ n \in Ids /\ n \notin Live(disk)
  BY <1>1, OpenTransaction
<1>3. /\ n = disk.seq + 1 /\ db.seq = n
      /\ Live(db) = Live(disk) \cup {n}
      /\ \A i \in Live(disk) : db.entries[i] = disk.entries[i]
      /\ db.entries[n].sort = NextSort(disk)
      /\ db.entries[n].hash = Null
  BY <1>1 DEF InTransaction, Partial
<1>4. db.entries[n].mimes = c
  BY <1>1, ReceivedIsWhole DEF Partial
<1>5. /\ db' = h /\ disk' = h /\ pc' = "publish"
      /\ config' = config /\ id' = id /\ cleared' = cleared /\ transient' = transient
      /\ work' = work
  BY DEF Insert, Hashed
<1> HIDE DEF n, c
<1>6. /\ Sound(h)
      /\ Live(h) = Live(disk) \cup {n}
      /\ \A i \in Live(disk) : /\ h.entries[i].mimes = disk.entries[i].mimes
                               /\ h.entries[i].pinned = disk.entries[i].pinned
      /\ h.seq = n
  BY <1>2, <1>3, <1>4, HashedSound
<1> HIDE DEF h
<1>7. IInv'
  BY <1>1, <1>2, <1>5, <1>6, SettledStep DEF TypeOK, n
<1>8. n \notin 1 .. disk.seq
  BY <1>2, <1>3 DEF IsDatabase
<1> QED
  BY <1>5, <1>6, <1>7, <1>8 DEF IdsKept, PinsKept, Unpinned

(* Rolling it back and moving the duplicate instead. *)
LEMMA MoveStep ==
    ASSUME IInv, MoveDuplicate
    PROVE  IInv' /\ IdsKept(disk, disk') /\ PinsKept(disk, disk')
<1>1. pc = "receive" /\ InTransaction /\ TypeOK /\ Received
  BY DEF IInv, MoveDuplicate, Received
<1>2. PICK i \in Duplicates :
         /\ db' = UpdateSortIndex(disk, i)
         /\ disk' = db'
         /\ work' = [work EXCEPT !.id = i, !.pos = OldPosition(i)]
  BY DEF MoveDuplicate
<1>3. /\ pc' = "moved"
      /\ config' = config /\ id' = id /\ cleared' = cleared /\ transient' = transient
  BY DEF MoveDuplicate
<1>4. i \in Live(disk) /\ disk.entries[i].hash # Null /\ OldPosition(i) \in Nat
  BY <1>1, DuplicateIsCommitted
<1>5. Sound(disk) /\ i \in Ids /\ NextSort(disk) <= MaxSort
  BY <1>1, <1>4, OpenTransaction DEF IsDatabase, IsTable, Live, InTransaction
<1> DEFINE e == UpdateSortIndex(disk, i)
<1>6. /\ Sound(e)
      /\ Live(e) = Live(disk)
      /\ \A j \in Live(disk) : /\ e.entries[j].mimes = disk.entries[j].mimes
                               /\ e.entries[j].pinned = disk.entries[j].pinned
  BY <1>4, <1>5, UpdateSortIndexSound
<1>7. db' = e /\ disk' = e
  BY <1>2
<1> HIDE DEF e
<1>8. /\ work' \in [content : Contents \cup {Null}, id : Ids \cup {NoId}, pos : Nat]
      /\ work'.id \in Ids
  <2>1. work \in [content : Contents \cup {Null}, id : Ids \cup {NoId}, pos : Nat]
    BY <1>1 DEF TypeOK
  <2> QED
    BY <1>2, <1>4, <1>5, <2>1
<1>9. IInv'
  BY <1>1, <1>3, <1>6, <1>7, <1>8, SettledStep DEF TypeOK
<1> QED
  BY <1>6, <1>7, <1>9 DEF IdsKept, PinsKept, Unpinned

-----------------------------------------------------------------------------
(* A step that commits nothing and leaves no transaction open: the failures,   *)
(* the rollbacks, the transient selections, the end of the process.            *)
LEMMA QuietStep ==
    ASSUME IInv,
           config' = config, db' = disk, disk' = disk,
           id' \in Ids \cup {Clear, Transient},
           cleared' \in BOOLEAN,
           transient' \in Contents \cup {Null},
           pc' \in {"idle", "publish", "trim", "down"},
           work' \in {work, NoWork},
           pc' = "publish" => pc = "receive" /\ work' = work
    PROVE  IInv' /\ IdsKept(disk, disk') /\ PinsKept(disk, disk')
<1>1. Sound(disk) /\ TypeOK
  BY DEF IInv
<1>2. work' \in [content : Contents \cup {Null}, id : Ids \cup {NoId}, pos : Nat]
  BY <1>1 DEF TypeOK, NoWork
<1>3. pc' = "publish" => work'.id \in Ids
  BY OpenTransaction
<1>4. IInv'
  BY <1>1, <1>2, <1>3, SettledStep DEF TypeOK
<1> QED
  BY <1>4, SameKept

(* Every step of the handler of a selection event. *)
LEMMA HandleStep ==
    ASSUME IInv, Handle
    PROVE  IInv' /\ IdsKept(disk, disk') /\ PinsKept(disk, disk')
<1>1. TypeOK
  BY DEF IInv
<1>2. CASE \E m \in Mimes : ReceiveMime(m)
  BY <1>2, ReceiveStep, SameKept
<1>3. CASE ReceiveFails
  BY <1>1, <1>3, QuietStep DEF ReceiveFails, Abort, TypeOK
<1>4. CASE IgnoreDuplicate
  BY <1>1, <1>4, QuietStep DEF IgnoreDuplicate, TypeOK
<1>5. CASE Insert
  BY <1>5, InsertStep
<1>6. CASE InsertFails
  BY <1>1, <1>6, QuietStep DEF InsertFails, Abort, TypeOK
<1>7. CASE CommitFails
  BY <1>1, <1>7, QuietStep DEF CommitFails, Received, TypeOK
<1>8. CASE MoveDuplicate
  BY <1>8, MoveStep
<1>9. CASE MoveFails
  BY <1>1, <1>9, QuietStep DEF MoveFails, TypeOK
<1>10. CASE Publish \/ PublishMove
  <2>1. db = disk /\ Sound(disk) /\ work.id \in Ids
    BY <1>10, Settled DEF IInv, Publish, PublishMove
  <2>2. /\ Set(db, work.id) /\ pc' = "trim"
        /\ config' = config /\ transient' = transient /\ work' = work
    BY <1>10 DEF Publish, PublishMove
  <2>3. /\ id' \in Ids \cup {Clear} /\ cleared' \in BOOLEAN
        /\ db' = disk' /\ Sound(disk') /\ disk'.entries = disk.entries
    BY <1>1, <2>1, <2>2, SetSound DEF TypeOK
  <2>4. IInv'
    BY <1>1, <2>2, <2>3, SettledStep DEF TypeOK
  <2> QED
    BY <2>3, <2>4, SameKept
<1>11. CASE PublishMoveFails
  BY <1>1, <1>11, Settled, QuietStep DEF PublishMoveFails, TypeOK
<1>12. CASE TrimHistory
  <2>1. /\ db = disk /\ Sound(disk)
        /\ db' = Trim(db, config.max_entries) /\ disk' = db'
        /\ pc' = "idle" /\ work' = NoWork
        /\ config' = config /\ id' = id /\ cleared' = cleared /\ transient' = transient
    BY <1>12, Settled DEF TrimHistory
  <2>2. Sound(disk') /\ IdsKept(disk, disk') /\ PinsKept(disk, disk')
    BY <2>1, TrimSound
  <2>3. IInv'
    BY <1>1, <2>1, <2>2, SettledStep DEF TypeOK, NoWork
  <2> QED
    BY <2>2, <2>3
<1>13. CASE TrimFails
  BY <1>1, <1>13, Settled, QuietStep DEF TrimFails, TypeOK
<1> QED
  BY <1>2, <1>3, <1>4, <1>5, <1>6, <1>7, <1>8, <1>9, <1>10, <1>11, <1>12, <1>13 DEF Handle

(* Every first step of that handler. *)
LEMMA SelectStep ==
    ASSUME IInv, Select
    PROVE  IInv' /\ IdsKept(disk, disk')
<1>1. TypeOK
  BY DEF IInv
<1>2. ASSUME NEW c \in Contents, CopyTransient(c)
      PROVE  IInv' /\ IdsKept(disk, disk')
  BY <1>1, <1>2, Settled, QuietStep DEF CopyTransient, TypeOK
<1>3. CASE CopyTransientFails
  BY <1>1, <1>3, Settled, QuietStep DEF CopyTransientFails, TypeOK
<1>4. ASSUME NEW c \in Contents, Copy(c)
      PROVE  IInv' /\ IdsKept(disk, disk')
  BY <1>4, CopyStep, SameKept
<1>5. CASE CopyBeginFails
  BY <1>1, <1>5, Settled, QuietStep DEF CopyBeginFails, TypeOK
<1>6. CASE CopyNewEntryFails
  BY <1>1, <1>6, QuietStep DEF CopyNewEntryFails, Abort, TypeOK
<1> QED
  BY <1>2, <1>3, <1>4, <1>5, <1>6 DEF Select

(* Every request. *)
LEMMA RequestStep ==
    ASSUME IInv, Request
    PROVE  IInv' /\ IdsKept(disk, disk')
<1>1. TypeOK
  BY DEF IInv
<1>2. /\ pc = "idle" /\ pc' = "idle" /\ work' = work
      /\ config' = config /\ transient' = transient
      /\ db = disk /\ Sound(disk)
  BY Settled DEF Request, SetClipboard, ClearClipboard, RequestDelete, RequestClear, PinEntry
<1> SUFFICES /\ db' = disk' /\ Sound(disk') /\ IdsKept(disk, disk')
             /\ id' \in Ids \cup {Clear, Transient} /\ cleared' \in BOOLEAN
  BY <1>1, <1>2, SettledStep DEF TypeOK
<1>3. ASSUME NEW i \in Ids \cup {Clear}, Set(db, i)
      PROVE  /\ db' = disk' /\ Sound(disk') /\ IdsKept(disk, disk')
             /\ id' \in Ids \cup {Clear, Transient} /\ cleared' \in BOOLEAN
  BY <1>1, <1>2, <1>3, SetSound, SameKept DEF TypeOK
<1>4. ASSUME NEW i \in Ids, SetClipboard(i) PROVE Set(db, i)
  BY <1>4 DEF SetClipboard
<1>5. CASE ClearClipboard
  BY <1>3, <1>5 DEF ClearClipboard
<1>6. ASSUME NEW i \in Ids, RequestDelete(i)
      PROVE  /\ db' = disk' /\ Sound(disk') /\ IdsKept(disk, disk')
             /\ id' \in Ids \cup {Clear, Transient} /\ cleared' \in BOOLEAN
  <2>1. /\ db' = DeleteRows(disk, {i}) /\ disk' = db'
        /\ id' \in {Clear, id} /\ cleared' \in BOOLEAN
    BY <1>1, <1>2, <1>6 DEF RequestDelete, DeleteEntry, TypeOK
  <2> QED
    BY <1>1, <1>2, <2>1, DeleteSound DEF TypeOK
<1>7. CASE RequestClear
  <2>1. /\ db' = DeleteRows(disk, Live(disk)) /\ disk' = db'
        /\ id' = Clear /\ cleared' = TRUE
    BY <1>2, <1>7 DEF RequestClear, ClearAll
  <2> QED
    BY <1>2, <2>1, DeleteSound
<1>8. ASSUME NEW i \in Ids, NEW pin \in BOOLEAN, PinEntry(i, pin)
      PROVE  /\ db' = disk' /\ Sound(disk') /\ IdsKept(disk, disk')
             /\ id' \in Ids \cup {Clear, Transient} /\ cleared' \in BOOLEAN
  <2>1. /\ db' = SetPinned(disk, i, pin) /\ disk' = db' /\ i \in Live(disk)
        /\ id' = id /\ cleared' = cleared
    BY <1>2, <1>8 DEF PinEntry, IdExists
  <2>2. /\ Sound(disk')
        /\ Live(disk') = Live(disk)
        /\ \A j \in Live(disk) : disk'.entries[j].mimes = disk.entries[j].mimes
    BY <1>2, <2>1, SetPinnedSound
  <2> QED
    BY <1>1, <2>1, <2>2 DEF TypeOK, IdsKept
<1> QED
  BY <1>3, <1>4, <1>5, <1>6, <1>7, <1>8 DEF Request

(* A database without a row. *)
LEMMA EmptyIsSound ==
    /\ Sound(EmptyDatabase) /\ Live(EmptyDatabase) = {}
    /\ \A d : IdsKept(d, EmptyDatabase)
<1> DEFINE d == EmptyDatabase
<1>1. d.entries = [i \in {} |-> 0] /\ d.data = {} /\ d.seq = 0 /\ d.last = NoId
  BY DEF EmptyDatabase
<1>2. IsDatabase(d)
  BY BoundsAssumption DEF EmptyDatabase, IsDatabase, IsTable, NoId
<1>3. Live(d) = {}
  BY <1>1 DEF Live
<1>4. DataReferenced(d)
  BY <1>1, RefsElement DEF DataReferenced
<1> HIDE DEF d
<1>5. Sound(d)
  BY <1>2, <1>3, <1>4 DEF Sound, IdsIssued, RowsWhole, HashesNewest
<1> QED
  BY <1>3, <1>5 DEF IdsKept, d

(* The end and the start of the process. *)
LEMMA ProcessStep ==
    ASSUME IInv, Stop \/ \E c \in Configs : Start(c)
    PROVE  IInv' /\ IdsKept(disk, disk') /\ (~Forgets => PinsKept(disk, disk'))
<1>1. TypeOK
  BY DEF IInv
<1>2. CASE Stop /\ config.persist
  BY <1>1, <1>2, QuietStep DEF Stop, TypeOK
<1>3. CASE Stop /\ ~config.persist
  <2>1. /\ disk' = EmptyDatabase /\ db' = disk'
        /\ config' = config /\ id' = Clear /\ cleared' = FALSE /\ transient' = Null
        /\ pc' = "down" /\ work' = NoWork
    BY <1>3 DEF Stop
  <2>2. Sound(disk') /\ IdsKept(disk, disk') /\ Forgets
    BY <1>3, <2>1, EmptyIsSound DEF Forgets
  <2>3. IInv'
    BY <1>1, <2>1, <2>2, SettledStep DEF TypeOK, NoWork
  <2> QED
    BY <2>2, <2>3
<1>4. ASSUME NEW c \in Configs, Start(c)
      PROVE  IInv' /\ IdsKept(disk, disk') /\ PinsKept(disk, disk')
  <2>1. /\ db = disk /\ Sound(disk)
        /\ config' = c
        /\ db' \in {Trim(disk, c.max_entries), disk} /\ disk' = db'
        /\ id' \in {disk'.last, Clear} \ {NoId}
        /\ pc' = "idle" /\ cleared' = cleared /\ transient' = transient /\ work' = work
    BY <1>4, Settled DEF Start, Clear, NoId
  <2>2. Sound(disk') /\ IdsKept(disk, disk') /\ PinsKept(disk, disk')
    BY <2>1, TrimSound, SameKept
  <2>3. disk'.last \in Ids \cup {NoId}
    BY <2>2 DEF Sound, IsDatabase
  <2>4. IInv'
    BY <1>1, <2>1, <2>2, <2>3, SettledStep DEF TypeOK
  <2> QED
    BY <2>2, <2>4
<1> QED
  BY <1>2, <1>3, <1>4

-----------------------------------------------------------------------------
(* The invariant holds at the start and is kept by every step, which also      *)
(* keeps ids and, unless a request is being served or a history in memory is   *)
(* lost, pins.                                                                 *)
LEMMA InitEstablishes == Init => IInv
<1> SUFFICES ASSUME Init PROVE IInv
  OBVIOUS
<1>1. disk = EmptyDatabase /\ db = EmptyDatabase /\ pc = "down"
  BY DEF Init
<1> QED
  BY <1>1, EmptyIsSound DEF Init, IInv, TypeOK, Sound, NoWork, Clear

LEMMA NextPreserves ==
    IInv /\ [Next]_vars =>
        IInv' /\ IdsKept(disk, disk') /\ (pc # "idle" /\ ~Forgets => PinsKept(disk, disk'))
<1> SUFFICES ASSUME IInv, [Next]_vars
             PROVE  IInv' /\ IdsKept(disk, disk') /\ (pc # "idle" /\ ~Forgets => PinsKept(disk, disk'))
  OBVIOUS
<1>1. CASE Handle
  BY <1>1, HandleStep
<1>2. CASE Select
  <2>1. pc = "idle"
    BY <1>2 DEF Select, CopyTransient, CopyTransientFails, Copy, CopyBeginFails, CopyNewEntryFails
  <2> QED
    BY <1>2, <2>1, SelectStep
<1>3. CASE Request
  <2>1. pc = "idle"
    BY <1>3 DEF Request, SetClipboard, ClearClipboard, RequestDelete, RequestClear, PinEntry
  <2> QED
    BY <1>3, <2>1, RequestStep
<1>4. CASE Stop \/ \E c \in Configs : Start(c)
  BY <1>4, ProcessStep
<1>5. CASE UNCHANGED vars
  <2>1. disk' = disk
    BY <1>5 DEF vars
  <2>2. IInv'
    BY <1>5 DEF vars, IInv, TypeOK, InTransaction, Partial
  <2> QED
    BY <2>1, <2>2, SameKept
<1> QED
  BY <1>1, <1>2, <1>3, <1>4, <1>5 DEF Next

(* IInv is an invariant: in every reachable state the committed database is    *)
(* sound, and an open transaction has added to it one row of the selection     *)
(* being received.  (wsignal_selection's transaction, every statement)         *)
THEOREM Inductive == Spec => []IInv
BY InitEstablishes, NextPreserves, PTL DEF Spec

(* The variables keep their types, and outside a transaction the connection    *)
(* sees what is committed.                                                     *)
THEOREM TypeCorrect == Spec => []TypeOK
<1>1. IInv => TypeOK
  BY DEF IInv
<1> QED
  BY <1>1, Inductive, PTL

(* The hash dedup looks up is on the newest entry with those contents, and no  *)
(* two entries share a place.  (save_entry_hash, entry_hash_pos, set_sort_index) *)
THEOREM HashIsAlwaysOfNewest == Spec => []HashIsOfNewest
<1>1. IInv => HashIsOfNewest
  BY DEF IInv, Sound, HashIsOfNewest
<1> QED
  BY <1>1, Inductive, PTL

(* No failure and no crash leaves a part of a selection in the history.        *)
(* (the transaction of wsignal_selection)                                      *)
THEOREM EntriesAreAlwaysWhole == Spec => []EntriesAreWhole
<1>1. IInv => EntriesAreWhole
  BY DEF IInv, Sound, EntriesAreWhole
<1> QED
  BY <1>1, Inductive, PTL

(* No payload is kept that no entry needs, and none is dropped that one does.  *)
(* (triggers of db_schema.sql)                                                 *)
THEOREM DataIsAlwaysReferenced == Spec => []DataIsReferenced
<1>1. IInv => DataIsReferenced
  BY DEF IInv, Sound, DataIsReferenced
<1> QED
  BY <1>1, Inductive, PTL

(* Nothing but a request removes or unpins a pinned entry, as long as the      *)
(* history lasts.  (database_trim)                                             *)
THEOREM PinnedAlwaysSurvives == Spec => PinnedSurvives
<1>1. IInv /\ [Next]_vars =>
        [pc # "idle" /\ ~Forgets => \A i \in Live(disk) \ Unpinned(disk) :
                                        i \in Live(disk') /\ disk'.entries[i].pinned]_vars
  BY NextPreserves DEF PinsKept
<1> QED
  BY <1>1, Inductive, PTL DEF Spec, PinnedSurvives

-----------------------------------------------------------------------------
(* Places                                                                    *)

(* No two rows share a place. *)
Ordered(d) == /\ IsFiniteSet(Live(d))
              /\ \A i \in Live(d) : Sort(d, i) \in Nat
              /\ \A i \in Live(d) : \A j \in Live(d) \ {i} : Sort(d, i) # Sort(d, j)

LEMMA SoundIsOrdered ==
    ASSUME NEW d, Sound(d)
    PROVE  Ordered(d) /\ Cardinality(Live(d)) \in Nat
<1>1. Live(d) \subseteq 1 .. MaxId /\ IsFiniteSet(1 .. MaxId)
  <2>1. Live(d) \subseteq 1 .. MaxId
    BY DEF Sound, IsDatabase, IsTable, Live, Ids
  <2> QED
    BY <2>1, BoundsAssumption, UpTo
<1>2. IsFiniteSet(Live(d)) /\ Cardinality(Live(d)) \in Nat
  BY <1>1, FS_Subset, FS_CardinalityType
<1>3. \A i \in Live(d) : Sort(d, i) \in Nat
  BY DEF Sound, IsDatabase, IsTable, Live, Sort, Row, Sorts
<1> QED
  BY <1>2, <1>3 DEF Sound, HashesNewest, Ordered

(* Positions are 0, 1, ..., one for each row, from the highest Sort_index on. *)
LEMMA PositionOrder ==
    ASSUME NEW d, Ordered(d), NEW i \in Live(d), NEW j \in Live(d)
    PROVE  /\ Position(d, i) \in 0 .. Cardinality(Live(d)) - 1
           /\ Sort(d, i) > Sort(d, j) <=> Position(d, i) < Position(d, j)
           /\ i = j <=> Position(d, i) = Position(d, j)
<1> DEFINE L == Live(d)
           Above(k) == {m \in L : Sort(d, m) > Sort(d, k)}
<1>0. IsFiniteSet(L) /\ Cardinality(L) \in Nat /\ \A k \in L : Sort(d, k) \in Nat
  BY FS_CardinalityType DEF Ordered
<1>1. ASSUME NEW k \in L
      PROVE  /\ IsFiniteSet(Above(k)) /\ Cardinality(Above(k)) \in Nat
             /\ Cardinality(Above(k)) < Cardinality(L)
  <2>1. Above(k) \subseteq L /\ k \notin Above(k)
    BY <1>0
  <2>2. Above(k) # L
    BY <2>1
  <2> HIDE DEF Above, L
  <2> QED
    BY <1>0, <2>1, <2>2, FS_Subset, FS_CardinalityType
<1>2. ASSUME NEW a \in L, NEW b \in L, Sort(d, a) > Sort(d, b)
      PROVE  Cardinality(Above(a)) < Cardinality(Above(b))
  <2>1. \A m \in L : Sort(d, m) > Sort(d, a) => Sort(d, m) > Sort(d, b)
    BY <1>0, <1>2
  <2>2. a \in Above(b) /\ a \notin Above(a)
    BY <1>0, <1>2
  <2>3. Above(a) \subseteq Above(b) /\ Above(a) # Above(b)
    BY <2>1, <2>2
  <2> HIDE DEF Above, L
  <2> QED
    BY <1>1, <2>3, FS_Subset
<1>3. \A k : Position(d, k) = Cardinality(Above(k))
  BY DEF Position
<1>4. Sort(d, i) > Sort(d, j) \/ i = j \/ Sort(d, j) > Sort(d, i)
  BY <1>0 DEF Ordered
<1> HIDE DEF Above
<1>5. Position(d, i) \in 0 .. Cardinality(L) - 1 /\ Position(d, j) \in Nat
  BY <1>0, <1>1, <1>3
<1>6. Sort(d, i) > Sort(d, j) => Position(d, i) < Position(d, j)
  BY <1>2, <1>3
<1>7. Sort(d, j) > Sort(d, i) => Position(d, j) < Position(d, i)
  BY <1>2, <1>3
<1>8. Sort(d, i) \in Nat /\ Sort(d, j) \in Nat
  BY <1>0
<1> QED
  BY <1>4, <1>5, <1>6, <1>7, <1>8

(* Each place of the history is taken by one entry. *)
LEMMA EntryAtPlace ==
    ASSUME NEW d, Ordered(d), NEW k \in 1 .. Cardinality(Live(d))
    PROVE  EntryAt(d, k) \in Live(d) /\ Position(d, EntryAt(d, k)) = k - 1
<1> DEFINE c == Cardinality(Live(d))
           f == [i \in Live(d) |-> Position(d, i) + 1]
<1>1. c \in Nat /\ IsFiniteSet(1 .. c) /\ Cardinality(1 .. c) = c
  BY FS_CardinalityType, FS_Interval DEF Ordered
<1>2. \A i \in Live(d) : Position(d, i) \in 0 .. c - 1
  BY PositionOrder
<1>3. f \in [Live(d) -> 1 .. c]
  BY <1>1, <1>2
<1>4. \A a, b \in Live(d) : f[a] = f[b] => a = b
  BY <1>2, PositionOrder
<1>5. f \in Injection(Live(d), 1 .. c)
  <2> HIDE DEF f
  <2> QED
    BY <1>3, <1>4 DEF Injection, IsInjective
<1>6. f \in Surjection(Live(d), 1 .. c)
  <2> HIDE DEF f
  <2> QED
    BY <1>1, <1>5, FS_Injection
<1>7. \E i \in Live(d) : Position(d, i) + 1 = k
  BY <1>6 DEF Surjection
<1>8. \E i \in Live(d) : Position(d, i) = k - 1
  BY <1>2, <1>7
<1> QED
  BY <1>8 DEF EntryAt

LEMMA PlaceOfEntry ==
    ASSUME NEW d, Ordered(d), NEW i \in Live(d)
    PROVE  /\ Position(d, i) + 1 \in 1 .. Cardinality(Live(d))
           /\ EntryAt(d, Position(d, i) + 1) = i
<1> DEFINE k == Position(d, i) + 1
<1>1. Cardinality(Live(d)) \in Nat /\ Position(d, i) \in 0 .. Cardinality(Live(d)) - 1
  BY PositionOrder, FS_CardinalityType DEF Ordered
<1>2. k \in 1 .. Cardinality(Live(d))
  BY <1>1
<1>3. EntryAt(d, k) \in Live(d) /\ Position(d, EntryAt(d, k)) = k - 1
  BY <1>2, EntryAtPlace
<1>4. Position(d, EntryAt(d, k)) = Position(d, i)
  BY <1>1, <1>3
<1> HIDE DEF k
<1>5. EntryAt(d, k) = i
  BY <1>3, <1>4, PositionOrder
<1> QED
  BY <1>2, <1>5 DEF k

LEMMA PlaceOrder ==
    ASSUME NEW d, Ordered(d), NEW k \in 1 .. Cardinality(Live(d)), NEW l \in 1 .. Cardinality(Live(d))
    PROVE  /\ k < l <=> Sort(d, EntryAt(d, k)) > Sort(d, EntryAt(d, l))
           /\ k = l <=> EntryAt(d, k) = EntryAt(d, l)
<1>1. /\ EntryAt(d, k) \in Live(d) /\ Position(d, EntryAt(d, k)) = k - 1
      /\ EntryAt(d, l) \in Live(d) /\ Position(d, EntryAt(d, l)) = l - 1
  BY EntryAtPlace
<1>2. /\ Sort(d, EntryAt(d, k)) > Sort(d, EntryAt(d, l))
           <=> Position(d, EntryAt(d, k)) < Position(d, EntryAt(d, l))
      /\ EntryAt(d, k) = EntryAt(d, l)
           <=> Position(d, EntryAt(d, k)) = Position(d, EntryAt(d, l))
  BY <1>1, PositionOrder
<1> QED
  BY <1>1, <1>2

(* A list of all rows by descending Sort_index is the history. *)
LEMMA OrderIsUnique ==
    ASSUME NEW d, Ordered(d), NEW a \in [1 .. Cardinality(Live(d)) -> Live(d)],
           \A k, l \in 1 .. Cardinality(Live(d)) : k < l => Sort(d, a[k]) > Sort(d, a[l])
    PROVE  \A k \in 1 .. Cardinality(Live(d)) : a[k] = EntryAt(d, k)
<1> DEFINE c == Cardinality(Live(d))
           L == Live(d)
<1>1. c \in Nat /\ IsFiniteSet(1 .. c) /\ Cardinality(1 .. c) = c /\ IsFiniteSet(L)
  BY FS_CardinalityType, FS_Interval DEF Ordered
<1>2. \A i \in L : Sort(d, i) \in Nat
  BY DEF Ordered
<1>3. \A k, l \in 1 .. c : a[k] = a[l] => k = l
  <2> SUFFICES ASSUME NEW k \in 1 .. c, NEW l \in 1 .. c, a[k] = a[l], k # l PROVE FALSE
    OBVIOUS
  <2>1. Sort(d, a[k]) \in Nat /\ Sort(d, a[l]) \in Nat
    BY <1>2
  <2>2. CASE k < l
    BY <2>1, <2>2
  <2>3. CASE l < k
    BY <2>1, <2>3
  <2> QED
    BY <2>2, <2>3
<1>4. a \in Injection(1 .. c, L)
  BY <1>3 DEF Injection, IsInjective
<1>5. a \in Surjection(1 .. c, L)
  <2> HIDE DEF L
  <2> QED
    BY <1>1, <1>4, FS_Injection DEF L
<1> SUFFICES ASSUME NEW k \in 1 .. c PROVE a[k] = EntryAt(d, k)
  OBVIOUS
<1> DEFINE A == {i \in L : Sort(d, i) > Sort(d, a[k])}
           f == [l \in 1 .. k - 1 |-> a[l]]
<1>6. f \in [1 .. k - 1 -> A]
  BY <1>1
<1>7. \A i \in A : \E l \in 1 .. k - 1 : f[l] = i
  <2> TAKE i \in A
  <2>1. PICK l \in 1 .. c : a[l] = i
    BY <1>5 DEF Surjection
  <2>2. Sort(d, a[l]) > Sort(d, a[k]) /\ Sort(d, a[l]) \in Nat /\ Sort(d, a[k]) \in Nat
    BY <1>2, <2>1
  <2>3. l < k
    <3>1. ~ (k < l) /\ k # l
      BY <2>2
    <3> QED
      BY <1>1, <3>1
  <2>4. l \in 1 .. k - 1
    BY <2>3
  <2> QED
    BY <2>1, <2>4
<1>8. \A l, m \in 1 .. k - 1 : f[l] = f[m] => l = m
  BY <1>1, <1>3
<1>9. f \in Bijection(1 .. k - 1, A)
  <2> HIDE DEF f, A
  <2> QED
    BY <1>6, <1>7, <1>8 DEF Bijection, Injection, Surjection, IsInjective
<1>10. Cardinality(A) = k - 1
  <2>1. IsFiniteSet(1 .. k - 1) /\ Cardinality(1 .. k - 1) = k - 1
    <3>1. k - 1 \in Nat
      BY <1>1
    <3> QED
      BY <3>1, UpTo
  <2> HIDE DEF f, A
  <2> QED
    BY <1>9, <2>1, FS_Bijection DEF ExistsBijection
<1>11. a[k] \in L /\ Position(d, a[k]) = k - 1
  BY <1>10 DEF Position
<1>12. (k - 1) + 1 = k
  BY <1>1
<1> QED
  BY <1>11, <1>12, PlaceOfEntry

-----------------------------------------------------------------------------
(* What the statements do to the history                                     *)

(* Every row of d is in e as it was. *)
SameIn(d, e, i) == Sort(e, i) = Sort(d, i) /\ Stored(e, i) = Stored(d, i)

LEMMA StoredHistoryType ==
    ASSUME NEW d, Ordered(d)
    PROVE  /\ DOMAIN StoredHistory(d) = 1 .. Cardinality(Live(d))
           /\ Cardinality(Live(d)) \in Nat
           /\ \A k \in 1 .. Cardinality(Live(d)) : StoredHistory(d)[k] = Stored(d, EntryAt(d, k))
           /\ StoredHistory(d) \in Seq({Stored(d, i) : i \in Live(d)})
           /\ Len(StoredHistory(d)) = Cardinality(Live(d))
<1> DEFINE c == Cardinality(Live(d))
           T == {Stored(d, i) : i \in Live(d)}
           h == StoredHistory(d)
<1>1. c \in Nat
  BY FS_CardinalityType DEF Ordered
<1>2. \A k \in 1 .. c : Stored(d, EntryAt(d, k)) \in T
  BY EntryAtPlace
<1>3. h = [k \in 1 .. c |-> Stored(d, EntryAt(d, k))]
  BY DEF StoredHistory
<1> HIDE DEF h, c, T
<1>4. h \in Seq(T) /\ Len(h) = c /\ DOMAIN h = 1 .. c
  BY <1>1, <1>2, <1>3
<1> QED
  BY <1>1, <1>3, <1>4 DEF h, c, T

(* The history, given its rows in order. *)
LEMMA HistoryOfList ==
    ASSUME NEW d, Ordered(d), NEW a \in [1 .. Cardinality(Live(d)) -> Live(d)],
           \A k, l \in 1 .. Cardinality(Live(d)) : k < l => Sort(d, a[k]) > Sort(d, a[l])
    PROVE  \A k \in 1 .. Cardinality(Live(d)) : StoredHistory(d)[k] = Stored(d, a[k])
<1>1. \A k \in 1 .. Cardinality(Live(d)) : a[k] = EntryAt(d, k)
  BY OrderIsUnique
<1> QED
  BY <1>1, StoredHistoryType

(* Two lists of one length that agree at every place. *)
LEMMA SameList ==
    ASSUME NEW s, NEW t, NEW n \in Nat,
           s = [k \in 1 .. n |-> s[k]], t = [k \in 1 .. n |-> t[k]],
           \A k \in 1 .. n : s[k] = t[k]
    PROVE  s = t
OBVIOUS

(* A row put in front of all others is a new first entry. *)
LEMMA RowInFront ==
    ASSUME NEW d, Ordered(d), NEW e, Ordered(e), NEW r, r \notin Live(d),
           Live(e) = Live(d) \cup {r},
           \A i \in Live(d) : SameIn(d, e, i) /\ Sort(e, r) > Sort(d, i)
    PROVE  StoredHistory(e) = <<Stored(e, r)>> \o StoredHistory(d)
<1> DEFINE c == Cardinality(Live(d))
           h == StoredHistory(d)
           a == [k \in 1 .. c + 1 |-> IF k = 1 THEN r ELSE EntryAt(d, k - 1)]
<1>1. /\ c \in Nat /\ DOMAIN h = 1 .. c /\ Len(h) = c
      /\ \A k \in 1 .. c : h[k] = Stored(d, EntryAt(d, k)) /\ EntryAt(d, k) \in Live(d)
  BY StoredHistoryType, EntryAtPlace
<1>2. Cardinality(Live(e)) = c + 1
  BY FS_AddElement DEF Ordered
<1>3. \A k \in 1 .. c + 1 : k # 1 => k - 1 \in 1 .. c
  BY <1>1
<1>4. a \in [1 .. c + 1 -> Live(e)]
  BY <1>1, <1>3
<1>5. ASSUME NEW k \in 1 .. c + 1, NEW l \in 1 .. c + 1, k < l
      PROVE  Sort(e, a[k]) > Sort(e, a[l])
  <2>1. l # 1 /\ l - 1 \in 1 .. c /\ a[l] = EntryAt(d, l - 1)
    BY <1>1, <1>3, <1>5
  <2>2. a[l] \in Live(d) /\ Sort(e, a[l]) = Sort(d, a[l])
    BY <1>1, <2>1 DEF SameIn
  <2>3. CASE k = 1
    BY <2>2, <2>3
  <2>4. CASE k # 1
    <3>1. k - 1 \in 1 .. c /\ a[k] = EntryAt(d, k - 1) /\ k - 1 < l - 1
      BY <1>1, <1>3, <1>5, <2>4
    <3>2. Sort(d, EntryAt(d, k - 1)) > Sort(d, EntryAt(d, l - 1))
      BY <2>1, <3>1, PlaceOrder
    <3>3. a[k] \in Live(d) /\ Sort(e, a[k]) = Sort(d, a[k])
      BY <1>1, <3>1 DEF SameIn
    <3> QED
      BY <2>1, <2>2, <3>1, <3>2, <3>3
  <2> QED
    BY <2>3, <2>4
<1>6. \A k \in 1 .. c + 1 : StoredHistory(e)[k] = Stored(e, a[k])
  <2>1. \A k, l \in 1 .. c + 1 : k < l => Sort(e, a[k]) > Sort(e, a[l])
    BY <1>5
  <2> HIDE DEF a
  <2> QED
    BY <1>2, <1>4, <2>1, HistoryOfList, ZenonT(60)
<1>7. \A k \in 1 .. c + 1 : Stored(e, a[k]) = IF k = 1 THEN Stored(e, r) ELSE h[k - 1]
  <2> SUFFICES ASSUME NEW k \in 1 .. c + 1, k # 1 PROVE Stored(e, a[k]) = h[k - 1]
    OBVIOUS
  <2>1. k - 1 \in 1 .. c /\ a[k] = EntryAt(d, k - 1)
    BY <1>3
  <2> HIDE DEF a, h, c
  <2> QED
    BY <1>1, <2>1 DEF SameIn
<1> DEFINE g == StoredHistory(e)
           x == Stored(e, r)
           s == <<x>> \o h
<1>8. DOMAIN g = 1 .. c + 1 /\ g \in Seq({Stored(e, i) : i \in Live(e)})
  BY <1>2, StoredHistoryType
<1>9. h \in Seq({Stored(d, i) : i \in Live(d)})
  BY StoredHistoryType
<1> DEFINE T == {Stored(d, i) : i \in Live(d)} \cup {x}
<1>10. h \in Seq(T) /\ x \in T
  BY <1>9, SeqMonotonic
<1> HIDE DEF h, g, c, a, T, x
<1>11. /\ s \in Seq(T) /\ Len(s) = c + 1
       /\ \A k \in 1 .. c + 1 : s[k] = IF k = 1 THEN x ELSE h[k - 1]
  BY <1>1, <1>10
<1>12. s = [k \in 1 .. c + 1 |-> s[k]] /\ g = [k \in 1 .. c + 1 |-> g[k]]
  <2> HIDE DEF s
  <2> QED
    BY <1>8, <1>11
<1>13. \A k \in 1 .. c + 1 : g[k] = s[k]
  <2> HIDE DEF s
  <2> QED
    BY <1>6, <1>7, <1>11 DEF g, x
<1> HIDE DEF s
<1>14. g = s
  <2>1. c + 1 \in Nat
    BY <1>1
  <2> QED
    BY <1>12, <1>13, <2>1, SameList
<1> QED
  BY <1>14 DEF s, x, h, g

(* The places where rows of a set stand. *)
PlacesOf(d, S) == {k \in 1 .. Cardinality(Live(d)) : EntryAt(d, k) \in S}

(* What stays keeps its order; there are as many places as rows. *)
LEMMA RowsLeft ==
    ASSUME NEW d, Ordered(d), NEW S
    PROVE  LET left == (1 .. Cardinality(Live(d))) \ PlacesOf(d, S)
               a    == [k \in 1 .. Cardinality(left) |-> EntryAt(d, Nth(left, k))]
           IN  /\ left \in SUBSET Nat /\ IsFiniteSet(left)
               /\ Cardinality(left) = Cardinality(Live(d) \ S) /\ Cardinality(left) \in Nat
               /\ a \in [1 .. Cardinality(left) -> Live(d) \ S]
               /\ \A k, l \in 1 .. Cardinality(left) : k < l => Sort(d, a[k]) > Sort(d, a[l])
               /\ \A k \in 1 .. Cardinality(left) : Nth(left, k) \in 1 .. Cardinality(Live(d))
<1> DEFINE c    == Cardinality(Live(d))
           left == (1 .. c) \ PlacesOf(d, S)
           n    == Cardinality(left)
           a    == [k \in 1 .. n |-> EntryAt(d, Nth(left, k))]
           f    == [k \in left |-> EntryAt(d, k)]
<1>1. c \in Nat /\ IsFiniteSet(1 .. c) /\ \A k \in 1 .. c : EntryAt(d, k) \in Live(d)
  BY FS_CardinalityType, UpTo, EntryAtPlace DEF Ordered
<1>2. left \in SUBSET Nat /\ left \subseteq 1 .. c
  BY <1>1
<1>3. IsFiniteSet(left) /\ n \in Nat
  <2> HIDE DEF left
  <2> QED
    BY <1>1, <1>2, FS_Subset, FS_CardinalityType
<1>4. \A k \in left : EntryAt(d, k) \in Live(d) \ S
  BY <1>1 DEF PlacesOf
<1>5. f \in Bijection(left, Live(d) \ S)
  <2>1. f \in [left -> Live(d) \ S]
    BY <1>4
  <2>2. \A k, l \in left : f[k] = f[l] => k = l
    BY <1>2, PlaceOrder
  <2>3. \A i \in Live(d) \ S : \E k \in left : f[k] = i
    <3> TAKE i \in Live(d) \ S
    <3>1. Position(d, i) + 1 \in 1 .. c /\ EntryAt(d, Position(d, i) + 1) = i
      BY PlaceOfEntry
    <3>2. Position(d, i) + 1 \in left
      BY <3>1 DEF PlacesOf
    <3> QED
      BY <3>1, <3>2
  <2> HIDE DEF f, left
  <2> QED
    BY <2>1, <2>2, <2>3 DEF Bijection, Injection, Surjection, IsInjective
<1>6. n = Cardinality(Live(d) \ S)
  <2> HIDE DEF f, left
  <2> QED
    BY <1>3, <1>5, FS_Bijection DEF ExistsBijection
<1>7. \A k \in 1 .. n : Nth(left, k) \in left
  <2> HIDE DEF left
  <2> QED
    BY <1>2, <1>3, NthElement
<1>8. a \in [1 .. n -> Live(d) \ S]
  BY <1>4, <1>7
<1>9. ASSUME NEW k \in 1 .. n, NEW l \in 1 .. n, k < l
      PROVE  Sort(d, a[k]) > Sort(d, a[l])
  <2>1. Nth(left, k) < Nth(left, l)
    <3> HIDE DEF left
    <3> QED
      BY <1>2, <1>3, <1>9, NthOrder
  <2>2. Nth(left, k) \in 1 .. c /\ Nth(left, l) \in 1 .. c
    BY <1>2, <1>7
  <2>3. a[k] = EntryAt(d, Nth(left, k)) /\ a[l] = EntryAt(d, Nth(left, l))
    OBVIOUS
  <2> HIDE DEF left, n, a, c
  <2> QED
    BY <2>1, <2>2, <2>3, PlaceOrder DEF c
<1>10. \A k \in 1 .. n : Nth(left, k) \in 1 .. c
  BY <1>2, <1>7
<1> HIDE DEF left, n, a
<1> QED
  BY <1>2, <1>3, <1>6, <1>8, <1>9, <1>10 DEF left, n, a

(* A deletion leaves the rest of the list as it was. *)
LEMMA RowsDeleted ==
    ASSUME NEW d, Ordered(d), NEW e, Ordered(e), NEW S,
           Live(e) = Live(d) \ S, \A i \in Live(e) : SameIn(d, e, i)
    PROVE  /\ StoredHistory(e) = AtPlaces(StoredHistory(d), DOMAIN StoredHistory(d) \ PlacesOf(d, S))
           /\ PlacesOf(d, S) \subseteq DOMAIN StoredHistory(d)
<1> DEFINE c    == Cardinality(Live(d))
           left == (1 .. c) \ PlacesOf(d, S)
           n    == Cardinality(left)
           a    == [k \in 1 .. n |-> EntryAt(d, Nth(left, k))]
           h    == StoredHistory(d)
           g    == StoredHistory(e)
           s    == AtPlaces(h, left)
<1>1. /\ n = Cardinality(Live(d) \ S) /\ n \in Nat
      /\ a \in [1 .. n -> Live(d) \ S]
      /\ \A k, l \in 1 .. n : k < l => Sort(d, a[k]) > Sort(d, a[l])
      /\ \A k \in 1 .. n : Nth(left, k) \in 1 .. c
  BY RowsLeft
<1>2. \A k \in 1 .. n : a[k] = EntryAt(d, Nth(left, k))
  OBVIOUS
<1>3. DOMAIN h = 1 .. c /\ \A k \in 1 .. c : h[k] = Stored(d, EntryAt(d, k))
  BY StoredHistoryType
<1>4. n = Cardinality(Live(e)) /\ DOMAIN g = 1 .. n /\ g \in Seq({Stored(e, i) : i \in Live(e)})
  BY <1>1, StoredHistoryType
<1>5. s = [k \in 1 .. n |-> h[Nth(left, k)]]
  BY DEF AtPlaces
<1>6. DOMAIN h \ PlacesOf(d, S) = left
  BY <1>3
<1> HIDE DEF a, c, left, n, h, g, s
<1>7. a \in [1 .. Cardinality(Live(e)) -> Live(e)]
      /\ \A k \in 1 .. n : a[k] \in Live(e)
  BY <1>1, <1>4
<1>8. \A k, l \in 1 .. Cardinality(Live(e)) : k < l => Sort(e, a[k]) > Sort(e, a[l])
  <2> SUFFICES ASSUME NEW k \in 1 .. n, NEW l \in 1 .. n, k < l
               PROVE  Sort(e, a[k]) > Sort(e, a[l])
    BY <1>4
  <2>1. Sort(e, a[k]) = Sort(d, a[k]) /\ Sort(e, a[l]) = Sort(d, a[l])
    BY <1>7 DEF SameIn
  <2> QED
    BY <1>1, <2>1
<1>9. \A k \in 1 .. n : g[k] = Stored(e, a[k])
  BY <1>4, <1>7, <1>8, HistoryOfList DEF g
<1>10. \A k \in 1 .. n : g[k] = s[k]
  <2> SUFFICES ASSUME NEW k \in 1 .. n PROVE g[k] = s[k]
    OBVIOUS
  <2>1. g[k] = Stored(d, a[k])
    BY <1>7, <1>9 DEF SameIn
  <2>2. s[k] = Stored(d, EntryAt(d, Nth(left, k)))
    BY <1>1, <1>3, <1>5
  <2> QED
    BY <1>2, <2>1, <2>2
<1>11. g = [k \in 1 .. n |-> g[k]] /\ s = [k \in 1 .. n |-> s[k]]
  BY <1>4, <1>5
<1>12. g = s
  BY <1>1, <1>10, <1>11, SameList
<1> QED
  BY <1>3, <1>6, <1>12 DEF g, s, h, PlacesOf, c

(* A row that gets the front place leaves the others in order. *)
LEMMA RowMoved ==
    ASSUME NEW d, Ordered(d), NEW e, Ordered(e), NEW r \in Live(d),
           Live(e) = Live(d), \A i \in Live(d) \ {r} : SameIn(d, e, i),
           \A i \in Live(d) : Sort(e, r) > Sort(d, i),
           Stored(e, r) = Stored(d, r)
    PROVE  LET p == Position(d, r) + 1
               h == StoredHistory(d)
           IN  /\ p \in DOMAIN h
               /\ StoredHistory(e) = <<h[p]>> \o AtPlaces(h, DOMAIN h \ {p})
<1> DEFINE g == [entries |-> Restrict(d.entries, Live(d) \ {r})]
           p == Position(d, r) + 1
           h == StoredHistory(d)
<1>1. Live(g) = Live(d) \ {r} /\ \A i \in Live(g) : g.entries[i] = d.entries[i]
  <2> DEFINE f == Restrict(d.entries, Live(d) \ {r})
  <2>1. DOMAIN f = Live(d) \ {r} /\ \A i \in Live(d) \ {r} : f[i] = d.entries[i]
    BY DEF Restrict
  <2>2. g.entries = f
    OBVIOUS
  <2> HIDE DEF f, g
  <2> QED
    BY <2>1, <2>2 DEF Live
<1>2. \A i \in Live(g) : SameIn(d, g, i)
  BY <1>1 DEF SameIn, Sort, Stored
<1> HIDE DEF g
<1>3. Ordered(g)
  <2>1. IsFiniteSet(Live(g))
    BY <1>1, FS_RemoveElement DEF Ordered
  <2> QED
    BY <1>1, <1>2, <2>1 DEF Ordered, SameIn
<1>4. p \in 1 .. Cardinality(Live(d)) /\ EntryAt(d, p) = r
  BY PlaceOfEntry
<1>5. DOMAIN h = 1 .. Cardinality(Live(d)) /\ h[p] = Stored(d, r)
  BY <1>4, StoredHistoryType
<1>6. PlacesOf(d, {r}) = {p}
  <2> SUFFICES ASSUME NEW k \in 1 .. Cardinality(Live(d)), EntryAt(d, k) = r
               PROVE  k = p
    BY <1>4 DEF PlacesOf
  <2> HIDE DEF p
  <2> QED
    BY <1>4, PlaceOrder
<1>7. StoredHistory(g) = AtPlaces(h, DOMAIN h \ {p})
  BY <1>1, <1>2, <1>3, <1>6, RowsDeleted
<1>8. \A i \in Live(g) : SameIn(g, e, i) /\ Sort(e, r) > Sort(g, i)
  BY <1>1, <1>2 DEF SameIn
<1>9. r \notin Live(g) /\ Live(e) = Live(g) \cup {r}
  BY <1>1
<1>10. StoredHistory(e) = <<Stored(e, r)>> \o StoredHistory(g)
  BY <1>3, <1>8, <1>9, RowInFront
<1> QED
  BY <1>4, <1>5, <1>7, <1>10

(* A row whose pin changes keeps its place. *)
LEMMA RowPinned ==
    ASSUME NEW d, Ordered(d), NEW e, Ordered(e), NEW r \in Live(d), NEW on,
           Live(e) = Live(d), \A i \in Live(d) : Sort(e, i) = Sort(d, i),
           \A i \in Live(d) \ {r} : Stored(e, i) = Stored(d, i),
           Stored(e, r) = [Stored(d, r) EXCEPT !.pinned = on]
    PROVE  LET p == Position(d, r) + 1
               h == StoredHistory(d)
           IN  /\ p \in DOMAIN h
               /\ StoredHistory(e) = [h EXCEPT ![p].pinned = on]
<1> DEFINE c == Cardinality(Live(d))
           p == Position(d, r) + 1
           h == StoredHistory(d)
           g == StoredHistory(e)
           a == [k \in 1 .. c |-> EntryAt(d, k)]
<1>1. p \in 1 .. c /\ EntryAt(d, p) = r
  BY PlaceOfEntry
<1>2. /\ DOMAIN h = 1 .. c /\ c \in Nat /\ \A k \in 1 .. c : h[k] = Stored(d, EntryAt(d, k))
      /\ h \in Seq({Stored(d, i) : i \in Live(d)})
  BY StoredHistoryType
<1>3. DOMAIN g = 1 .. c /\ g \in Seq({Stored(e, i) : i \in Live(e)})
  BY StoredHistoryType
<1>4. a \in [1 .. Cardinality(Live(e)) -> Live(e)] /\ \A k \in 1 .. c : a[k] = EntryAt(d, k)
  BY EntryAtPlace
<1>5. \A k, l \in 1 .. Cardinality(Live(e)) : k < l => Sort(e, a[k]) > Sort(e, a[l])
  <2>1. \A k \in 1 .. c : EntryAt(d, k) \in Live(d)
    BY EntryAtPlace
  <2>2. \A k, l \in 1 .. c : k < l => Sort(d, EntryAt(d, k)) > Sort(d, EntryAt(d, l))
    BY PlaceOrder
  <2> HIDE DEF a
  <2> QED
    BY <1>4, <2>1, <2>2
<1>6. \A k \in 1 .. c : g[k] = Stored(e, EntryAt(d, k))
  <2> HIDE DEF a
  <2>1. \A k \in 1 .. Cardinality(Live(e)) : StoredHistory(e)[k] = Stored(e, a[k])
    BY <1>4, <1>5, HistoryOfList, ZenonT(60)
  <2> QED
    BY <1>4, <2>1
<1>7. \A k \in 1 .. c : k # p => EntryAt(d, k) \in Live(d) \ {r}
  <2> SUFFICES ASSUME NEW k \in 1 .. c, k # p PROVE EntryAt(d, k) \in Live(d) \ {r}
    OBVIOUS
  <2>1. EntryAt(d, k) \in Live(d)
    BY EntryAtPlace
  <2> HIDE DEF p
  <2> QED
    BY <1>1, <2>1, PlaceOrder
<1> HIDE DEF c, p, h, g
<1>8. \A k \in 1 .. c : g[k] = IF k = p THEN [h[k] EXCEPT !.pinned = on] ELSE h[k]
  BY <1>1, <1>2, <1>6, <1>7
<1>9. h = [k \in 1 .. c |-> h[k]] /\ g = [k \in 1 .. c |-> g[k]]
  BY <1>2, <1>3
<1>10. g = [h EXCEPT ![p].pinned = on]
  <2> DEFINE s == [h EXCEPT ![p] = [h[p] EXCEPT !.pinned = on]]
  <2>1. s = [k \in 1 .. c |-> s[k]]
    BY <1>9
  <2>2. \A k \in 1 .. c : g[k] = s[k]
    BY <1>8, <1>9
  <2> HIDE DEF s
  <2>3. g = s
    BY <1>2, <1>9, <2>1, <2>2, SameList
  <2> QED
    BY <2>3 DEF s
<1> QED
  BY <1>1, <1>2, <1>10 DEF c, p, h, g

(* There are as many places as rows. *)
LEMMA PlacesCounted ==
    ASSUME NEW d, Ordered(d), NEW S \in SUBSET Live(d)
    PROVE  Cardinality(PlacesOf(d, S)) = Cardinality(S)
<1> DEFINE c == Cardinality(Live(d))
<1>1. (1 .. c) \ PlacesOf(d, Live(d) \ S) = PlacesOf(d, S)
  <2>1. \A k \in 1 .. c : EntryAt(d, k) \in Live(d)
    BY EntryAtPlace
  <2> QED
    BY <2>1 DEF PlacesOf
<1>2. Live(d) \ (Live(d) \ S) = S
  OBVIOUS
<1>3. Cardinality((1 .. c) \ PlacesOf(d, Live(d) \ S)) = Cardinality(Live(d) \ (Live(d) \ S))
  BY RowsLeft
<1> QED
  BY <1>1, <1>2, <1>3

(* A trim brings the unpinned rows down to the limit, and not below it. *)
LEMMA TrimLeavesLimit ==
    ASSUME NEW d, Sound(d), NEW max \in Nat
    PROVE  LET U == Unpinned(d)
               m == Cardinality(U)
           IN  /\ m \in Nat /\ Excess(d, max) \subseteq U
               /\ Cardinality(U \ Excess(d, max)) = IF m > max THEN max ELSE m
               /\ m <= max => Excess(d, max) = {}
<1> DEFINE U == Unpinned(d)
           m == Cardinality(U)
           X == Excess(d, max)
<1>1. U \in SUBSET Nat /\ IsFiniteSet(U) /\ m \in Nat
  <2>1. IsFiniteSet(Live(d)) /\ Live(d) \subseteq Nat
    <3>1. IsFiniteSet(Live(d))
      BY SoundIsOrdered DEF Ordered
    <3>2. Live(d) \subseteq Nat
      BY DEF Sound, IsDatabase, IsTable, Live, Ids
    <3> QED
      BY <3>1, <3>2
  <2>2. U \subseteq Live(d)
    BY DEF Unpinned
  <2> HIDE DEF U
  <2> QED
    BY <2>1, <2>2, FS_Subset, FS_CardinalityType
<1>2. X = {i \in U : Cardinality({j \in U : j > i}) >= max}
  BY DEF Excess
<1> HIDE DEF U
<1>3. ASSUME NEW i \in U
      PROVE  /\ Cardinality({j \in U : j > i}) = m - Rank(U, i)
             /\ Rank(U, i) \in 1 .. m
  <2> DEFINE Low == {j \in U : j <= i}
             High == {j \in U : j > i}
  <2>1. High = U \ Low /\ U \cap Low = Low
    <3>1. \A j \in U : j > i <=> ~ (j <= i)
      BY <1>1
    <3> HIDE DEF Low, High
    <3>2. High \subseteq U /\ Low \subseteq U /\ \A j \in U : j \in High <=> j \notin Low
      BY <3>1 DEF Low, High
    <3> QED
      BY <3>2
  <2> HIDE DEF Low, High
  <2>2. Cardinality(High) = m - Cardinality(Low)
    BY <1>1, <2>1, FS_Difference, ZenonT(60)
  <2>3. Rank(U, i) \in 1 .. m
    BY <1>1, RankOrder
  <2> QED
    BY <2>2, <2>3 DEF Rank, Low, High
<1>4. U \ X = {i \in U : m - Rank(U, i) < max}
  <2>1. ASSUME NEW i \in U PROVE i \in X <=> m - Rank(U, i) >= max
    <3>1. i \in X <=> Cardinality({j \in U : j > i}) >= max
      BY <1>2
    <3>2. Cardinality({j \in U : j > i}) = m - Rank(U, i)
      BY <1>3
    <3> QED
      BY <3>1, <3>2
  <2>2. ASSUME NEW i \in U PROVE m - Rank(U, i) \in Int
    <3>1. Rank(U, i) \in 1 .. m
      BY <1>3
    <3> HIDE DEF m
    <3> QED
      BY <1>1, <3>1
  <2>3. \A i \in U : i \notin X <=> m - Rank(U, i) < max
    BY <2>1, <2>2
  <2> HIDE DEF X
  <2> QED
    BY <2>3
<1>5. X \subseteq U
  BY <1>2
<1>6. CASE m <= max
  <2>1. ASSUME NEW i \in U PROVE m - Rank(U, i) < max
    <3>1. Rank(U, i) \in 1 .. m
      BY <1>3
    <3> HIDE DEF m
    <3> QED
      BY <1>1, <1>6, <3>1
  <2>2. U \ X = U /\ X = {}
    BY <1>4, <1>5, <2>1
  <2> QED
    BY <1>1, <1>5, <1>6, <2>2 DEF U
<1>7. CASE m > max
  <2> DEFINE a == m - max + 1
             f == [k \in a .. m |-> Nth(U, k)]
             K == U \ X
  <2>1. a \in Nat /\ a .. m \subseteq 1 .. m /\ IsFiniteSet(a .. m) /\ Cardinality(a .. m) = max
    <3>1. a = m - max + 1 /\ m \in Nat /\ m > max
      BY <1>1, <1>7
    <3> HIDE DEF a, m
    <3>2. a \in Int /\ m \in Int /\ a \in Nat /\ a >= 1
      BY <3>1
    <3>3. IsFiniteSet(a .. m) /\ Cardinality(a .. m) = IF a > m THEN 0 ELSE m - a + 1
      BY <3>2, FS_Interval
    <3>4. (IF a > m THEN 0 ELSE m - a + 1) = max
      BY <3>1
    <3>5. IsFiniteSet(a .. m) /\ Cardinality(a .. m) = max /\ a .. m \subseteq 1 .. m
      BY <3>2, <3>3, <3>4
    <3> QED
      BY <3>2, <3>5
  <2>2. \A k \in a .. m : Nth(U, k) \in U /\ Rank(U, Nth(U, k)) = k
    BY <1>1, <2>1, NthElement
  <2>3. f \in [a .. m -> K]
    <3> SUFFICES ASSUME NEW k \in a .. m PROVE Nth(U, k) \in K
      OBVIOUS
    <3>1. Nth(U, k) \in U /\ m - Rank(U, Nth(U, k)) < max
      BY <1>1, <2>1, <2>2
    <3> QED
      BY <1>4, <3>1
  <2>4. \A k, l \in a .. m : f[k] = f[l] => k = l
    BY <2>2
  <2>5. \A i \in K : \E k \in a .. m : f[k] = i
    <3> TAKE i \in K
    <3>1. i \in U /\ m - Rank(U, i) < max
      BY <1>4
    <3>2. Rank(U, i) \in a .. m
      <4>1. Rank(U, i) \in 1 .. m
        BY <1>3, <3>1
      <4> HIDE DEF m
      <4> QED
        BY <1>1, <1>7, <3>1, <4>1
    <3>3. Nth(U, Rank(U, i)) = i
      BY <1>1, <3>1, NthOfRank
    <3> QED
      BY <3>2, <3>3
  <2>6. Cardinality(K) = max
    <3>1. f \in Bijection(a .. m, K)
      <4> HIDE DEF f, K, a, m
      <4> QED
        BY <2>3, <2>4, <2>5 DEF Bijection, Injection, Surjection, IsInjective
    <3> HIDE DEF f, K, a, m
    <3> QED
      BY <2>1, <3>1, FS_Bijection DEF ExistsBijection
  <2>7. ~ (m <= max)
    BY <1>1, <1>7
  <2> QED
    BY <1>1, <1>5, <1>7, <2>6, <2>7 DEF U
<1>8. m <= max \/ m > max
  BY <1>1
<1> QED
  BY <1>6, <1>7, <1>8

-----------------------------------------------------------------------------
(* What a step does to the committed history                                 *)

(* set() writes Last_entry, and no row. *)
LEMMA SetKeepsRows ==
    ASSUME IInv, pc # "receive", NEW i \in Ids \cup {Clear}, Set(db, i)
    PROVE  disk'.entries = disk.entries /\ disk'.seq = disk.seq
BY Settled, SetSound DEF IInv, TypeOK

LEMMA StepOfRows ==
    ASSUME IInv, [Next]_vars
    PROVE  \/ disk'.entries = disk.entries /\ disk'.seq = disk.seq
           \/ Insert
           \/ MoveDuplicate
           \/ \E c \in Configs : disk' = Trim(disk, c.max_entries)
           \/ \E i \in Live(disk) : disk' = DeleteRows(disk, {i})
           \/ disk' = DeleteRows(disk, Live(disk))
           \/ \E i \in Live(disk), pin \in BOOLEAN : disk' = SetPinned(disk, i, pin)
           \/ Forgets /\ disk' = EmptyDatabase
<1> DEFINE Same == disk'.entries = disk.entries /\ disk'.seq = disk.seq
<1>1. TypeOK
  BY DEF IInv
<1>2. CASE Handle
  <2>1. CASE Publish \/ PublishMove
    <3>1. work.id \in Ids /\ Set(db, work.id) /\ pc # "receive"
      BY <2>1 DEF IInv, Publish, PublishMove
    <3> QED
      BY <3>1, SetKeepsRows
  <2>2. CASE TrimHistory
    <3>1. db = disk /\ disk' = Trim(db, config.max_entries) /\ config \in Configs
      BY <1>1, <2>2, Settled DEF TrimHistory, TypeOK
    <3> QED
      BY <3>1
  <2>3. CASE ReceiveFails \/ IgnoreDuplicate \/ InsertFails \/ CommitFails \/ MoveFails
    BY <2>3 DEF ReceiveFails, IgnoreDuplicate, InsertFails, CommitFails, MoveFails, Abort
  <2>4. CASE PublishMoveFails \/ TrimFails \/ \E m \in Mimes : ReceiveMime(m)
    BY <2>4 DEF PublishMoveFails, TrimFails, ReceiveMime
  <2> QED
    BY <1>2, <2>1, <2>2, <2>3, <2>4 DEF Handle
<1>3. CASE Select
  <2>1. disk' = disk
    BY <1>3 DEF Select, CopyTransient, CopyTransientFails, Copy, CopyBeginFails, CopyNewEntryFails, Abort
  <2> QED
    BY <2>1
<1>4. CASE Request
  <2>0. pc # "receive" /\ db = disk
    BY <1>4, Settled DEF Request, SetClipboard, ClearClipboard, RequestDelete, RequestClear, PinEntry
  <2>1. ASSUME NEW i \in Ids, SetClipboard(i) PROVE Same
    BY <2>0, <2>1, SetKeepsRows DEF SetClipboard
  <2>2. CASE ClearClipboard
    BY <2>0, <2>2, SetKeepsRows DEF ClearClipboard
  <2>3. ASSUME NEW i \in Ids, RequestDelete(i)
        PROVE  i \in Live(disk) /\ disk' = DeleteRows(disk, {i})
    BY <2>0, <2>3 DEF RequestDelete, DeleteEntry, IdExists
  <2>4. CASE RequestClear
    BY <2>0, <2>4 DEF RequestClear, ClearAll
  <2>5. ASSUME NEW i \in Ids, NEW pin \in BOOLEAN, PinEntry(i, pin)
        PROVE  i \in Live(disk) /\ disk' = SetPinned(disk, i, pin)
    BY <2>0, <2>5 DEF PinEntry, IdExists
  <2> QED
    BY <1>4, <2>1, <2>2, <2>3, <2>4, <2>5 DEF Request
<1>5. CASE Stop
  BY <1>5 DEF Stop, Forgets
<1>6. ASSUME NEW c \in Configs, Start(c) PROVE disk' \in {Trim(disk, c.max_entries), disk}
  <2>1. db = disk
    BY <1>6, Settled DEF Start
  <2> QED
    BY <1>6, <2>1 DEF Start
<1>7. CASE UNCHANGED vars
  BY <1>7 DEF vars
<1> QED
  BY <1>2, <1>3, <1>4, <1>5, <1>6, <1>7 DEF Next

-----------------------------------------------------------------------------
(* Under dedup "all" every row carries the hash of its contents: a copy of     *)
(* what is already there is always found.                                      *)
DedupAll    == \A c \in Configs : c.dedup = "all"
RowsHashed  == DedupAll => \A i \in Live(disk) : disk.entries[i].hash = disk.entries[i].mimes

(* What an insertion commits. *)
LEMMA InsertRows ==
    ASSUME IInv, Insert
    PROVE  LET n == work.id
               c == work.content
           IN  /\ c \in Contents /\ n \notin Live(disk)
               /\ Sound(disk) /\ Sound(disk')
               /\ Live(disk') = Live(disk) \cup {n}
               /\ \A i \in Live(disk) :
                      /\ disk'.entries[i].mimes = disk.entries[i].mimes
                      /\ disk'.entries[i].pinned = disk.entries[i].pinned
                      /\ disk'.entries[i].sort = disk.entries[i].sort
                      /\ disk'.entries[i].hash =
                             IF disk.entries[i].hash = c THEN Null ELSE disk.entries[i].hash
               /\ disk'.entries[n].mimes = c /\ disk'.entries[n].hash = c
               /\ disk'.entries[n].pinned = FALSE
               /\ Sort(disk', n) = NextSort(disk)
               /\ DedupAll => \A i \in Live(disk) : disk.entries[i].hash # c
<1> DEFINE n == work.id
           c == work.content
           h == SetEntryHash(ClearEntryHash(db, c), n, c)
<1>1. pc = "receive" /\ InTransaction /\ TypeOK /\ Received
  BY DEF IInv, Insert, Received
<1>2. /\ IsDatabase(db) /\ DataReferenced(db) /\ Sound(disk) /\ IsDatabase(disk)
      /\ c \in Contents
      /\ n \in Ids /\ n \notin Live(disk)
  BY <1>1, OpenTransaction
<1>3. /\ n = disk.seq + 1 /\ db.seq = n
      /\ Live(db) = Live(disk) \cup {n}
      /\ \A i \in Live(disk) : db.entries[i] = disk.entries[i]
      /\ db.entries[n].sort = NextSort(disk)
      /\ db.entries[n].hash = Null /\ db.entries[n].pinned = FALSE
  BY <1>1 DEF InTransaction, Partial
<1>4. db.entries[n].mimes = c
  BY <1>1, ReceivedIsWhole DEF Partial
<1>5. disk' = h
  BY DEF Insert, Hashed
<1>6. ASSUME DedupAll, NEW i \in Live(disk) PROVE disk.entries[i].hash # c
  <2>1. config.dedup = "all"
    BY <1>1, <1>6 DEF TypeOK, DedupAll
  <2>2. \A j \in Duplicates : FALSE
    BY <2>1 DEF Insert, IsInserted, IsIgnored, IsMoved
  <2>3. i \in Live(db) /\ db.entries[i] = disk.entries[i]
    BY <1>3
  <2> QED
    BY <2>2, <2>3 DEF Duplicates, WithHash, c
<1> HIDE DEF n, c
<1>7. /\ Sound(h)
      /\ Live(h) = Live(disk) \cup {n}
      /\ \A i \in Live(disk) :
             /\ h.entries[i].mimes = disk.entries[i].mimes
             /\ h.entries[i].pinned = disk.entries[i].pinned
             /\ h.entries[i].sort = disk.entries[i].sort
             /\ h.entries[i].hash = IF disk.entries[i].hash = c THEN Null ELSE disk.entries[i].hash
      /\ h.entries[n].mimes = c /\ h.entries[n].hash = c
      /\ h.entries[n].sort = NextSort(disk)
      /\ h.entries[n].pinned = db.entries[n].pinned
  BY <1>2, <1>3, <1>4, HashedSound
<1> HIDE DEF h
<1> QED
  BY <1>2, <1>3, <1>5, <1>6, <1>7 DEF n, c, Sort

(* What a move commits. *)
LEMMA MoveRows ==
    ASSUME IInv, MoveDuplicate
    PROVE  \E i \in Live(disk) :
               /\ work'.id = i /\ disk.entries[i].mimes = work.content /\ work'.content = work.content
               /\ Sound(disk) /\ Sound(disk')
               /\ Live(disk') = Live(disk)
               /\ \A j \in Live(disk) : /\ disk'.entries[j].mimes = disk.entries[j].mimes
                                        /\ disk'.entries[j].pinned = disk.entries[j].pinned
                                        /\ disk'.entries[j].hash = disk.entries[j].hash
               /\ Sort(disk', i) = NextSort(disk)
               /\ \A j \in Live(disk) \ {i} : Sort(disk', j) = Sort(disk, j)
<1>1. pc = "receive" /\ InTransaction /\ TypeOK /\ Received
  BY DEF IInv, MoveDuplicate, Received
<1>2. PICK i \in Duplicates :
         /\ db' = UpdateSortIndex(disk, i)
         /\ disk' = db'
         /\ work' = [work EXCEPT !.id = i, !.pos = OldPosition(i)]
  BY DEF MoveDuplicate
<1>3. i \in Live(disk) /\ disk.entries[i].hash = work.content /\ work.content # Null
  BY <1>1, DuplicateIsCommitted
<1>4. Sound(disk) /\ NextSort(disk) <= MaxSort
  BY <1>1, OpenTransaction DEF InTransaction
<1>5. disk.entries[i].mimes = work.content
  BY <1>3, <1>4 DEF Sound, RowsWhole
<1>6. work'.id = i /\ work'.content = work.content
  BY <1>1, <1>2 DEF TypeOK
<1> DEFINE e == UpdateSortIndex(disk, i)
<1>7. /\ Sound(e)
      /\ Live(e) = Live(disk)
      /\ \A j \in Live(disk) : /\ e.entries[j].mimes = disk.entries[j].mimes
                               /\ e.entries[j].pinned = disk.entries[j].pinned
                               /\ e.entries[j].hash = disk.entries[j].hash
      /\ Sort(e, i) = NextSort(disk)
      /\ \A j \in Live(disk) \ {i} : Sort(e, j) = Sort(disk, j)
  BY <1>3, <1>4, UpdateSortIndexSound
<1>8. disk' = e
  BY <1>2
<1> HIDE DEF e
<1> QED
  BY <1>3, <1>4, <1>5, <1>6, <1>7, <1>8

(* What a deletion commits. *)
LEMMA DeletedRows ==
    ASSUME NEW d, Sound(d), NEW S
    PROVE  /\ Sound(DeleteRows(d, S))
           /\ Live(DeleteRows(d, S)) = Live(d) \ S
           /\ \A j \in Live(d) \ S : DeleteRows(d, S).entries[j] = d.entries[j]
BY DeleteRowsSound, DeleteRowsEffect DEF Sound

(* RowsHashed is kept. *)
LEMMA RowsHashedStep ==
    ASSUME IInv, RowsHashed, [Next]_vars
    PROVE  RowsHashed'
<1> SUFFICES ASSUME DedupAll, NEW i \in Live(disk')
             PROVE  disk'.entries[i].hash = disk'.entries[i].mimes
  BY DEF RowsHashed, DedupAll
<1>1. Sound(disk) /\ \A j \in Live(disk) : disk.entries[j].hash = disk.entries[j].mimes
  BY DEF IInv, RowsHashed
<1>2. CASE disk'.entries = disk.entries
  BY <1>1, <1>2 DEF Live
<1>3. CASE Insert
  BY <1>1, <1>3, InsertRows
<1>4. CASE MoveDuplicate
  BY <1>1, <1>4, MoveRows
<1>5. ASSUME NEW S, disk' = DeleteRows(disk, S)
      PROVE  disk'.entries[i].hash = disk'.entries[i].mimes
  BY <1>1, <1>5, DeletedRows
<1>6. ASSUME NEW j \in Live(disk), NEW pin \in BOOLEAN, disk' = SetPinned(disk, j, pin)
      PROVE  disk'.entries[i].hash = disk'.entries[i].mimes
  BY <1>1, <1>6, SetPinnedSound
<1>7. CASE disk' = EmptyDatabase
  BY <1>7, EmptyIsSound
<1> QED
  BY <1>2, <1>3, <1>4, <1>5, <1>6, <1>7, StepOfRows DEF Trim

-----------------------------------------------------------------------------
(* The refinement                                                            *)

(* The operators of Ranks are the same to both modules. *)
LEMMA SameCardinality == ASSUME NEW S PROVE Promise!Cardinality(S) = Cardinality(S)
BY Zenon DEF Promise!Cardinality, Cardinality

LEMMA PromisedParts ==
    ASSUME NEW list, NEW S
    PROVE  /\ Promise!Without(list, S) = AtPlaces(list, DOMAIN list \ S)
           /\ Promise!AtPlaces(list, S) = AtPlaces(list, S)
<1>1. ASSUME NEW T, NEW n PROVE Promise!Nth(T, n) = Nth(T, n)
  BY Zenon DEF Promise!Nth, Nth, Promise!Rank, Rank, Promise!Cardinality, Cardinality
<1>2. ASSUME NEW T PROVE Promise!AtPlaces(list, T) = AtPlaces(list, T)
  BY <1>1, SameCardinality DEF Promise!AtPlaces, AtPlaces
<1> QED
  BY <1>2 DEF Promise!Without

(* The place of one row. *)
LEMMA PlaceOfOne ==
    ASSUME NEW d, Ordered(d), NEW r \in Live(d)
    PROVE  PlacesOf(d, {r}) = {Position(d, r) + 1}
<1> DEFINE p == Position(d, r) + 1
<1>1. p \in 1 .. Cardinality(Live(d)) /\ EntryAt(d, p) = r
  BY PlaceOfEntry
<1> SUFFICES ASSUME NEW k \in 1 .. Cardinality(Live(d)), EntryAt(d, k) = r
             PROVE  k = p
  BY <1>1 DEF PlacesOf
<1> HIDE DEF p
<1> QED
  BY <1>1, PlaceOrder

(* The unpinned places are those of the unpinned rows. *)
LEMMA UnpinnedPlaces ==
    ASSUME NEW d, Ordered(d)
    PROVE  Promise!Unpinned(StoredHistory(d)) = PlacesOf(d, Unpinned(d))
<1> DEFINE h == StoredHistory(d)
           c == Cardinality(Live(d))
<1>1. /\ DOMAIN h = 1 .. c
      /\ \A k \in 1 .. c : h[k] = Stored(d, EntryAt(d, k)) /\ EntryAt(d, k) \in Live(d)
  BY StoredHistoryType, EntryAtPlace
<1>2. \A k \in 1 .. c : h[k].pinned = d.entries[EntryAt(d, k)].pinned
  BY <1>1 DEF Stored
<1> HIDE DEF h, c
<1> QED
  BY <1>1, <1>2 DEF Promise!Unpinned, PlacesOf, Unpinned, h, c

(* A step of the rows is a step of the promised list. *)
LEMMA InsertIsAdd ==
    ASSUME IInv, RowsHashed, Insert
    PROVE  \E c \in Contents : Promise!Add(c)
<1> DEFINE n == work.id
           c == work.content
           h == StoredHistory(disk)
<1>1. /\ c \in Contents /\ n \notin Live(disk)
      /\ Sound(disk) /\ Sound(disk')
      /\ Live(disk') = Live(disk) \cup {n}
      /\ \A i \in Live(disk) :
             /\ disk'.entries[i].mimes = disk.entries[i].mimes
             /\ disk'.entries[i].pinned = disk.entries[i].pinned
             /\ disk'.entries[i].sort = disk.entries[i].sort
      /\ disk'.entries[n].mimes = c
      /\ disk'.entries[n].pinned = FALSE
      /\ Sort(disk', n) = NextSort(disk)
      /\ DedupAll => \A i \in Live(disk) : disk.entries[i].hash # c
  BY InsertRows
<1>2. Ordered(disk) /\ Ordered(disk')
  BY <1>1, SoundIsOrdered
<1>3. \A i \in Live(disk) : SameIn(disk, disk', i) /\ Sort(disk', n) > Sort(disk, i)
  <2>1. \A i \in Live(disk) : Sort(disk, i) < NextSort(disk) /\ Sort(disk, i) \in Nat
    BY <1>1, NextSortIsNew DEF Sound, Sorts
  <2>2. NextSort(disk) \in Nat
    BY <1>1, NextSortIsNew DEF Sound
  <2> HIDE DEF n
  <2> QED
    BY <1>1, <2>1, <2>2 DEF SameIn, Sort, Stored
<1>4. StoredHistory(disk') = <<Stored(disk', n)>> \o h
  <2> HIDE DEF n
  <2> QED
    BY <1>1, <1>2, <1>3, RowInFront
<1>5. Stored(disk', n) = [content |-> c, pinned |-> FALSE]
  BY <1>1 DEF Stored
<1>6. ASSUME DedupAll, NEW p \in 1 .. Len(h) PROVE h[p].content # c
  <2>1. p \in 1 .. Cardinality(Live(disk)) /\ h[p] = Stored(disk, EntryAt(disk, p))
    BY <1>2, StoredHistoryType
  <2>2. EntryAt(disk, p) \in Live(disk)
    BY <1>2, <2>1, EntryAtPlace
  <2>3. disk.entries[EntryAt(disk, p)].mimes # c
    BY <1>1, <1>6, <2>2 DEF RowsHashed
  <2> QED
    BY <2>1, <2>3 DEF Stored
<1> HIDE DEF n, c, h
<1>7. Promise!Add(c)
  BY <1>4, <1>5, <1>6 DEF Promise!Add, Promise!Places, DedupAll, h
<1> QED
  BY <1>1, <1>7

LEMMA MoveIsMoveToFront ==
    ASSUME IInv, MoveDuplicate
    PROVE  \E p \in Promise!Places : Promise!MoveToFront(p)
<1> DEFINE h == StoredHistory(disk)
<1>1. PICK r \in Live(disk) :
               /\ Sound(disk) /\ Sound(disk')
               /\ Live(disk') = Live(disk)
               /\ \A j \in Live(disk) : /\ disk'.entries[j].mimes = disk.entries[j].mimes
                                        /\ disk'.entries[j].pinned = disk.entries[j].pinned
               /\ Sort(disk', r) = NextSort(disk)
               /\ \A j \in Live(disk) \ {r} : Sort(disk', j) = Sort(disk, j)
  BY MoveRows
<1>2. Ordered(disk) /\ Ordered(disk')
  BY <1>1, SoundIsOrdered
<1>3. \A i \in Live(disk) : Sort(disk', r) > Sort(disk, i)
  <2>1. \A i \in Live(disk) : Sort(disk, i) < NextSort(disk) /\ Sort(disk, i) \in Nat
    BY <1>1, NextSortIsNew DEF Sound, Sorts
  <2>2. NextSort(disk) \in Nat
    BY <1>1, NextSortIsNew DEF Sound
  <2> QED
    BY <1>1, <2>1, <2>2
<1>4. \A i \in Live(disk) \ {r} : SameIn(disk, disk', i)
  BY <1>1 DEF SameIn, Stored
<1>5. Stored(disk', r) = Stored(disk, r)
  BY <1>1 DEF Stored
<1> DEFINE p == Position(disk, r) + 1
<1>6. p \in DOMAIN h /\ StoredHistory(disk') = <<h[p]>> \o AtPlaces(h, DOMAIN h \ {p})
  BY <1>1, <1>2, <1>3, <1>4, <1>5, RowMoved
<1>7. DOMAIN h = 1 .. Len(h)
  BY <1>2, StoredHistoryType
<1>8. Promise!Without(h, {p}) = AtPlaces(h, DOMAIN h \ {p})
  BY PromisedParts
<1> HIDE DEF p
<1>9. p \in Promise!Places /\ Promise!MoveToFront(p)
  BY <1>6, <1>7, <1>8 DEF Promise!Places, Promise!MoveToFront
<1> QED
  BY <1>9

(* Rows that go are entries that go. *)
LEMMA RowsGone ==
    ASSUME Sound(disk), NEW S \in SUBSET Live(disk), disk' = DeleteRows(disk, S)
    PROVE  StoredHistory(disk') = Promise!Without(StoredHistory(disk), PlacesOf(disk, S))
<1> DEFINE e == DeleteRows(disk, S)
<1>1. /\ Sound(e) /\ Live(e) = Live(disk) \ S
      /\ \A j \in Live(disk) \ S : e.entries[j] = disk.entries[j]
  BY DeletedRows
<1> HIDE DEF e
<1>2. Ordered(disk) /\ Ordered(e)
  BY <1>1, SoundIsOrdered
<1>3. \A i \in Live(e) : SameIn(disk, e, i)
  BY <1>1 DEF SameIn, Stored, Sort
<1>4. StoredHistory(e) = AtPlaces(StoredHistory(disk), DOMAIN StoredHistory(disk) \ PlacesOf(disk, S))
  BY <1>1, <1>2, <1>3, RowsDeleted
<1>5. StoredHistory(disk)' = StoredHistory(e)
  BY DEF e
<1> QED
  BY <1>4, <1>5, PromisedParts

LEMMA DeleteIsDelete ==
    ASSUME Sound(disk), NEW i \in Live(disk), disk' = DeleteRows(disk, {i})
    PROVE  \E p \in Promise!Places : Promise!Delete(p)
<1> DEFINE p == Position(disk, i) + 1
           h == StoredHistory(disk)
<1>1. Ordered(disk)
  BY SoundIsOrdered
<1>2. p \in 1 .. Cardinality(Live(disk)) /\ PlacesOf(disk, {i}) = {p}
  BY <1>1, PlaceOfEntry, PlaceOfOne
<1>3. Len(h) = Cardinality(Live(disk))
  BY <1>1, StoredHistoryType
<1>4. StoredHistory(disk') = Promise!Without(h, {p})
  BY <1>2, RowsGone
<1> HIDE DEF p
<1>5. p \in Promise!Places /\ Promise!Delete(p)
  BY <1>2, <1>3, <1>4 DEF Promise!Places, Promise!Delete
<1> QED
  BY <1>5

LEMMA ClearIsEmpty ==
    ASSUME Live(disk') = {}
    PROVE  Promise!Empty
<1>1. Cardinality(Live(disk')) = 0
  BY FS_EmptySet
<1>2. StoredHistory(disk') = <<>>
  BY <1>1 DEF StoredHistory
<1> QED
  BY <1>2 DEF Promise!Empty

LEMMA PinIsPin ==
    ASSUME Sound(disk), NEW i \in Live(disk), NEW on \in BOOLEAN, disk' = SetPinned(disk, i, on)
    PROVE  \E p \in Promise!Places : Promise!Pin(p, on)
<1> DEFINE p == Position(disk, i) + 1
           h == StoredHistory(disk)
           e == SetPinned(disk, i, on)
<1>1. /\ Sound(e) /\ Live(e) = Live(disk)
      /\ \A j \in Live(disk) :
             /\ e.entries[j].mimes = disk.entries[j].mimes
             /\ e.entries[j].sort = disk.entries[j].sort
             /\ e.entries[j].pinned = IF j = i THEN on ELSE disk.entries[j].pinned
  BY SetPinnedSound
<1>2. disk' = e
  OBVIOUS
<1> HIDE DEF e
<1>3. Ordered(disk) /\ Ordered(e)
  BY <1>1, SoundIsOrdered
<1>4. /\ \A j \in Live(disk) : Sort(e, j) = Sort(disk, j)
      /\ \A j \in Live(disk) \ {i} : Stored(e, j) = Stored(disk, j)
      /\ Stored(e, i) = [Stored(disk, i) EXCEPT !.pinned = on]
  BY <1>1 DEF Sort, Stored
<1>5. p \in DOMAIN h /\ StoredHistory(e) = [h EXCEPT ![p].pinned = on]
  BY <1>1, <1>3, <1>4, RowPinned, SMTT(60)
<1>6. DOMAIN h = 1 .. Len(h)
  BY <1>3, StoredHistoryType
<1> HIDE DEF p
<1>7. p \in Promise!Places /\ Promise!Pin(p, on)
  BY <1>2, <1>5, <1>6 DEF Promise!Places, Promise!Pin
<1> QED
  BY <1>7

(* A trim takes entries down to the limit, or none at all. *)
LEMMA TrimIsTrim ==
    ASSUME Sound(disk), NEW c \in Configs, disk' = Trim(disk, c.max_entries)
    PROVE  \/ disk'.entries = disk.entries
           \/ \E max \in {k.max_entries : k \in Configs} : Promise!Trim(max)
<1> DEFINE U == Unpinned(disk)
           m == Cardinality(U)
           max == c.max_entries
           X == Excess(disk, max)
           h == StoredHistory(disk)
           P == PlacesOf(disk, X)
<1>0. max \in Nat /\ Ordered(disk) /\ U \subseteq Live(disk)
  BY ConfigsAssumption, SoundIsOrdered DEF Config, Unpinned
<1>1. /\ m \in Nat /\ X \subseteq U
      /\ Cardinality(U \ X) = IF m > max THEN max ELSE m
      /\ m <= max => X = {}
  BY <1>0, TrimLeavesLimit
<1>2. disk' = DeleteRows(disk, X)
  BY DEF Trim
<1>3. CASE m <= max
  <2>1. X = {}
    BY <1>1, <1>3
  <2> DEFINE e == DeleteRows(disk, {})
  <2>2. IsDatabase(e) /\ Live(e) = Live(disk) /\ \A j \in Live(disk) : e.entries[j] = disk.entries[j]
    <3> DEFINE none == {}
    <3>1. Live(disk) \ none = Live(disk) /\ IsDatabase(disk)
      BY DEF Sound
    <3> HIDE DEF none
    <3>2. /\ IsDatabase(DeleteRows(disk, none))
          /\ Live(DeleteRows(disk, none)) = Live(disk) \ none
          /\ \A j \in Live(disk) \ none : DeleteRows(disk, none).entries[j] = disk.entries[j]
      BY <3>1, DeleteRowsEffect
    <3>3. e = DeleteRows(disk, none)
      BY DEF none
    <3> HIDE DEF e
    <3> QED
      BY <3>1, <3>2, <3>3
  <2>3. disk' = e
    BY <1>2, <2>1
  <2> HIDE DEF e
  <2>4. e.entries = disk.entries
    <3> DEFINE f == e.entries
               g == disk.entries
    <3>1. f \in [DOMAIN f -> Row] /\ g \in [DOMAIN g -> Row]
      BY <2>2 DEF Sound, IsDatabase, IsTable
    <3>2. DOMAIN f = DOMAIN g /\ \A j \in DOMAIN f : f[j] = g[j]
      BY <2>2 DEF Live
    <3> HIDE DEF f, g
    <3>3. f = g
      BY <3>1, <3>2
    <3> QED
      BY <3>3 DEF f, g
  <2> QED
    BY <2>3, <2>4
<1>4. CASE m > max
  <2>1. Cardinality(P) = Cardinality(X) /\ Cardinality(PlacesOf(disk, U)) = m
    <3> HIDE DEF U, X
    <3> QED
      BY <1>0, <1>1, PlacesCounted
  <2>2. Cardinality(X) \in Nat /\ Cardinality(U \ X) = m - Cardinality(X)
    <3>1. IsFiniteSet(U)
      BY <1>0, FS_Subset DEF Ordered
    <3>2. U \cap X = X
      BY <1>1
    <3> HIDE DEF U, X
    <3> QED
      <4>1. IsFiniteSet(X) /\ Cardinality(X) \in Nat
        BY <1>1, <3>1, FS_Subset, FS_CardinalityType
      <4>2. Cardinality(U \ X) = Cardinality(U) - Cardinality(U \cap X)
        BY <3>1, FS_Difference
      <4> QED
        BY <3>2, <4>1, <4>2
  <2>3. m - Cardinality(P) = max
    <3>1. Cardinality(U \ X) = max
      BY <1>1, <1>4
    <3> HIDE DEF m, X, U, P
    <3> QED
      BY <1>0, <1>1, <2>1, <2>2, <3>1
  <2>4. P \subseteq PlacesOf(disk, U)
    BY <1>1 DEF PlacesOf
  <2>5. Promise!Unpinned(h) = PlacesOf(disk, U)
    BY <1>0, UnpinnedPlaces
  <2>6. StoredHistory(disk') = Promise!Without(h, P)
    BY <1>0, <1>1, <1>2, RowsGone
  <2> HIDE DEF m, U, P
  <2>7. Promise!Trim(max)
    BY <2>1, <2>3, <2>4, <2>5, <2>6, SameCardinality DEF Promise!Trim
  <2> QED
    BY <2>7
<1> HIDE DEF m
<1> QED
  BY <1>0, <1>1, <1>3, <1>4

LEMMA StepIsPromised ==
    ASSUME IInv, RowsHashed, [Next]_vars
    PROVE  [Promise!Next]_(StoredHistory(disk))
<1> DEFINE h == StoredHistory(disk)
<1>1. Sound(disk)
  BY DEF IInv
<1>2. CASE disk'.entries = disk.entries
  BY <1>2 DEF StoredHistory, EntryAt, Stored, Live, Position, Sort
<1> SUFFICES ASSUME h' # h, disk'.entries # disk.entries PROVE Promise!Next
  BY <1>2
<1>3. CASE Insert
  BY <1>3, InsertIsAdd DEF Promise!Next
<1>4. CASE MoveDuplicate
  BY <1>4, MoveIsMoveToFront DEF Promise!Next
<1>5. ASSUME NEW c \in Configs, disk' = Trim(disk, c.max_entries) PROVE Promise!Next
  BY <1>1, <1>5, TrimIsTrim DEF Promise!Next
<1>6. ASSUME NEW i \in Live(disk), disk' = DeleteRows(disk, {i}) PROVE Promise!Next
  BY <1>1, <1>6, DeleteIsDelete DEF Promise!Next
<1>7. CASE disk' = DeleteRows(disk, Live(disk)) \/ disk' = EmptyDatabase
  <2>1. Live(disk') = {}
    BY <1>1, <1>7, DeletedRows, EmptyIsSound
  <2> QED
    BY <2>1, ClearIsEmpty DEF Promise!Next
<1>8. ASSUME NEW i \in Live(disk), NEW on \in BOOLEAN, disk' = SetPinned(disk, i, on) PROVE Promise!Next
  BY <1>1, <1>8, PinIsPin DEF Promise!Next
<1> QED
  BY <1>3, <1>4, <1>5, <1>6, <1>7, <1>8, StepOfRows

(* What a user is promised of the history holds through every failure, crash   *)
(* and restart: each change of what is committed is one step of History, made  *)
(* whole and at once.  (wsignal_selection, request_callback, database_init)    *)
THEOREM HistoryIsImplemented == Spec => ImplementsHistory
<1>1. Init => Promise!Init /\ RowsHashed
  <2> SUFFICES ASSUME Init PROVE Promise!Init /\ RowsHashed
    OBVIOUS
  <2>1. Live(disk) = {}
    BY DEF Init, EmptyDatabase, Live
  <2>2. Cardinality(Live(disk)) = 0
    BY <2>1, FS_EmptySet
  <2>3. StoredHistory(disk) = <<>>
    BY <2>2 DEF StoredHistory
  <2> QED
    BY <2>1, <2>3 DEF Promise!Init, RowsHashed
<1>2. IInv /\ RowsHashed /\ [Next]_vars => RowsHashed' /\ [Promise!Next]_(StoredHistory(disk))
  BY RowsHashedStep, StepIsPromised
<1> QED
  BY <1>1, <1>2, Inductive, PTL DEF Spec, ImplementsHistory, Promise!Spec

-----------------------------------------------------------------------------
(* What follows for the properties of ClipHistory                            *)

(* The trim at the end of a selection event is exact.  (database_trim)       *)
THEOREM TrimIsAlwaysExact == Spec => TrimIsExact
<1> DEFINE Exact == pc = "trim" /\ pc' = "idle" /\ "trim" \notin Faults =>
                        LET before == Cardinality(Unpinned(db))
                            after  == Cardinality(Unpinned(db'))
                        IN  after = IF before > config.max_entries THEN config.max_entries ELSE before
<1>1. ASSUME IInv, [Next]_vars, pc = "trim", pc' = "idle", "trim" \notin Faults
      PROVE  Exact
  <2>1. TrimHistory
    <3>1. ~ Select /\ ~ Request /\ ~ UNCHANGED vars
      BY <1>1 DEF Select, CopyTransient, CopyTransientFails, Copy, CopyBeginFails, CopyNewEntryFails,
                  Request, SetClipboard, ClearClipboard, RequestDelete, RequestClear, PinEntry, vars
    <3>2. ~ Stop /\ \A c \in Configs : ~ Start(c)
      BY <1>1 DEF Stop, Start
    <3>3. Handle
      BY <1>1, <3>1, <3>2 DEF Next
    <3> QED
      BY <1>1, <3>3 DEF Handle, ReceiveMime, ReceiveFails, IgnoreDuplicate, Insert, InsertFails,
                        CommitFails, MoveDuplicate, MoveFails, Publish, PublishMove, PublishMoveFails,
                        TrimFails, Received
  <2> DEFINE max == config.max_entries
             U == Unpinned(db)
             X == Excess(db, max)
             e == DeleteRows(db, X)
  <2>2. db' = e
    BY <2>1 DEF TrimHistory, Trim
  <2>3. Sound(db) /\ max \in Nat
    BY <1>1, Settled, ConfigsAssumption DEF IInv, TypeOK, Config
  <2>4. /\ X \subseteq U /\ Cardinality(U) \in Nat
        /\ Cardinality(U \ X) = IF Cardinality(U) > max THEN max ELSE Cardinality(U)
    BY <2>3, TrimLeavesLimit
  <2>5. Unpinned(e) = U \ X
    <3>1. Live(e) = Live(db) \ X /\ \A j \in Live(db) \ X : e.entries[j] = db.entries[j]
      BY <2>3, DeletedRows
    <3> HIDE DEF e, X
    <3> QED
      BY <3>1 DEF Unpinned
  <2> HIDE DEF e, X
  <2> QED
    BY <2>2, <2>4, <2>5
<1>2. IInv /\ [Next]_vars => [Exact]_vars
  BY <1>1
<1> QED
  BY <1>2, Inductive, PTL DEF Spec, TrimIsExact

(* An id is announced for what was copied, in front.  (wsignal_selection)    *)
LEMMA FrontRow ==
    ASSUME NEW d, NEW i, \A j \in Live(d) : ~ (Sort(d, j) > Sort(d, i))
    PROVE  Position(d, i) = 0
<1>1. {j \in Live(d) : Sort(d, j) > Sort(d, i)} = {}
  OBVIOUS
<1> QED
  BY <1>1, FS_EmptySet DEF Position

LEMMA AnnouncedStep ==
    ASSUME IInv, AnnouncedIsCopied, "commit" \notin Faults, [Next]_vars
    PROVE  AnnouncedIsCopied'
<1>1. CASE Insert
  <2> DEFINE n == work.id
  <2>1. /\ Sound(disk) /\ n \notin Live(disk)
        /\ Live(disk') = Live(disk) \cup {n}
        /\ \A i \in Live(disk) : disk'.entries[i].sort = disk.entries[i].sort
        /\ disk'.entries[n].mimes = work.content
        /\ Sort(disk', n) = NextSort(disk)
    BY <1>1, InsertRows
  <2>2. \A j \in Live(disk') : ~ (Sort(disk', j) > Sort(disk', n))
    <3>1. /\ NextSort(disk) \in Nat
          /\ \A i \in Live(disk) : Sort(disk, i) \in Nat /\ Sort(disk, i) < NextSort(disk)
      BY <2>1, NextSortIsNew DEF Sound, Sorts
    <3>2. \A i \in Live(disk) : Sort(disk', i) = Sort(disk, i)
      BY <2>1 DEF Sort
    <3> HIDE DEF n
    <3> QED
      BY <2>1, <3>1, <3>2
  <2>3. Position(disk', n) = 0
    BY <2>2, FrontRow
  <2>4. work' = work
    BY <1>1 DEF Insert
  <2> QED
    BY <2>1, <2>3, <2>4 DEF AnnouncedIsCopied
<1>2. CASE MoveDuplicate
  <2>1. PICK i \in Live(disk) :
            /\ work'.id = i /\ disk.entries[i].mimes = work.content /\ work'.content = work.content
            /\ Sound(disk)
            /\ Live(disk') = Live(disk)
            /\ \A j \in Live(disk) : disk'.entries[j].mimes = disk.entries[j].mimes
            /\ Sort(disk', i) = NextSort(disk)
            /\ \A j \in Live(disk) \ {i} : Sort(disk', j) = Sort(disk, j)
    BY <1>2, MoveRows
  <2>2. \A j \in Live(disk') : ~ (Sort(disk', j) > Sort(disk', i))
    <3>1. /\ NextSort(disk) \in Nat
          /\ \A j \in Live(disk) : Sort(disk, j) \in Nat /\ Sort(disk, j) < NextSort(disk)
      BY <2>1, NextSortIsNew DEF Sound, Sorts
    <3> QED
      BY <2>1, <3>1
  <2>3. Position(disk', i) = 0
    BY <2>2, FrontRow
  <2> QED
    BY <2>1, <2>3 DEF AnnouncedIsCopied
<1>3. CASE UNCHANGED vars
  BY <1>3 DEF vars, AnnouncedIsCopied, Position, Live, Sort
<1>4. CASE ~ Insert /\ ~ MoveDuplicate /\ Next
  <2>1. pc' \notin {"publish", "moved"}
    <3>1. CASE Handle
      BY <1>4, <3>1 DEF Handle, ReceiveMime, ReceiveFails, IgnoreDuplicate, InsertFails,
                        CommitFails, MoveFails, Publish, PublishMove, PublishMoveFails,
                        TrimHistory, TrimFails, Abort
    <3>2. CASE Select
      BY <3>2 DEF Select, CopyTransient, CopyTransientFails, Copy, CopyBeginFails, CopyNewEntryFails, Abort
    <3>3. CASE Request
      BY <3>3 DEF Request, SetClipboard, ClearClipboard, RequestDelete, RequestClear, PinEntry
    <3>4. CASE Stop \/ \E c \in Configs : Start(c)
      BY <3>4 DEF Stop, Start
    <3> QED
      BY <1>4, <3>1, <3>2, <3>3, <3>4 DEF Next
  <2> QED
    BY <2>1 DEF AnnouncedIsCopied
<1> QED
  BY <1>1, <1>2, <1>3, <1>4

(* When COMMIT succeeds, an entry is announced under the id that has what was  *)
(* copied, at the front.  (wsignal_selection, dup_id)                          *)
THEOREM AnnouncedIsAlwaysCopied ==
    ASSUME "commit" \notin Faults
    PROVE  Spec => []AnnouncedIsCopied
<1>1. Init => AnnouncedIsCopied
  BY DEF Init, AnnouncedIsCopied
<1>2. IInv /\ AnnouncedIsCopied /\ [Next]_vars => AnnouncedIsCopied'
  BY AnnouncedStep
<1> QED
  BY <1>1, <1>2, Inductive, PTL DEF Spec

(* No statement but that of a setting writes Last_entry. *)
LastKept(d, e) == e.last = d.last

LEMMA StatementsKeepLast ==
    ASSUME NEW d, IsDatabase(d)
    PROVE  /\ \A S : LastKept(d, DeleteRows(d, S))
           /\ \A i, r : LastKept(d, SetRow(d, i, r))
           /\ \A i, m, b : LastKept(d, NewMimeType(d, i, m, b))
           /\ \A i, c : LastKept(d, SetEntryHash(ClearEntryHash(d, c), i, c))
           /\ LastKept(d, NewEntry(d))
<1>1. d \in [entries : {d.entries}, data : SUBSET Blobs, seq : 0 .. MaxId, last : Ids \cup {NoId}]
  BY DEF IsDatabase
<1>2. ASSUME NEW t, NEW b, NEW n
      PROVE  /\ [d EXCEPT !.entries = t].last = d.last
             /\ [d EXCEPT !.entries = t, !.data = b].last = d.last
             /\ [[d EXCEPT !.entries = t] EXCEPT !.data = b].last = d.last
             /\ [[d EXCEPT !.entries = t] EXCEPT !.seq = n].last = d.last
             /\ \A u : [[d EXCEPT !.entries = t] EXCEPT !.entries = u].last = d.last
  BY <1>1
<1>3. \A S : LastKept(d, DeleteRows(d, S))
  BY <1>2 DEF DeleteRows, LastKept
<1>4. \A i, r : LastKept(d, SetRow(d, i, r))
  BY <1>2 DEF SetRow, LastKept
<1>5. \A i, m, b : LastKept(d, NewMimeType(d, i, m, b))
  BY <1>1 DEF NewMimeType, SetRow, LastKept
<1>6. \A i, c : LastKept(d, SetEntryHash(ClearEntryHash(d, c), i, c))
  BY <1>2 DEF SetEntryHash, ClearEntryHash, SetRow, LastKept
<1>7. LastKept(d, NewEntry(d))
  BY <1>2 DEF NewEntry, SetRow, LastKept
<1> QED
  BY <1>3, <1>4, <1>5, <1>6, <1>7

(* What is current is what is saved, at every step of a handler. *)
LastSaved == db.last = disk.last /\ (id > 0 => disk.last = id)

LEMMA LastSavedStep ==
    ASSUME IInv, LastSaved, "save" \notin Faults, [Next]_vars
    PROVE  LastSaved'
<1>1. TypeOK /\ IsDatabase(disk) /\ IsDatabase(db)
  BY DEF IInv, TypeOK
<1>2. ASSUME NEW i \in Ids \cup {Clear}, Set(db, i), db = disk PROVE LastSaved'
  <2>1. id' = i /\ disk' = db' /\ db' \in Saved(disk, i)
    BY <1>2 DEF Set
  <2>2. CASE i \in Ids
    <3>1. i > 0 /\ db' = SaveLast(disk, i)
      BY <2>1, <2>2 DEF Saved, Ids
    <3>2. db'.last = i
      BY <1>1, <3>1 DEF SaveLast, IsDatabase
    <3> QED
      BY <2>1, <3>2 DEF LastSaved
  <2>3. CASE i = Clear
    BY <2>1, <2>3 DEF Saved, LastSaved, Clear
  <2> QED
    BY <2>2, <2>3
<1>3. ASSUME LastKept(disk, disk'), db' = disk', id' \in {id, Clear, Transient} PROVE LastSaved'
  BY <1>3 DEF LastSaved, LastKept, Clear, Transient
<1>4. CASE Handle
  <2>1. ASSUME NEW m \in Mimes, ReceiveMime(m) PROVE LastSaved'
    BY <1>1, <2>1, StatementsKeepLast DEF ReceiveMime, LastSaved, LastKept
  <2>2. CASE Insert
    <3>1. LastKept(db, disk') /\ db' = disk' /\ id' = id
      BY <1>1, <2>2, StatementsKeepLast DEF Insert, Hashed
    <3> QED
      BY <1>3, <3>1 DEF LastSaved, LastKept
  <2>3. CASE MoveDuplicate
    <3>1. LastKept(disk, disk') /\ db' = disk' /\ id' = id
      BY <1>1, <2>3, StatementsKeepLast DEF MoveDuplicate, UpdateSortIndex
    <3> QED
      BY <1>3, <3>1
  <2>4. CASE Publish \/ PublishMove
    <3>1. work.id \in Ids /\ Set(db, work.id) /\ db = disk
      BY <2>4, Settled DEF IInv, Publish, PublishMove
    <3> QED
      BY <1>2, <3>1
  <2>5. CASE TrimHistory
    <3>1. LastKept(disk, disk') /\ db' = disk' /\ id' = id
      BY <1>1, <2>5, Settled, StatementsKeepLast DEF TrimHistory, Trim
    <3> QED
      BY <1>3, <3>1
  <2>6. CASE ReceiveFails \/ IgnoreDuplicate \/ InsertFails \/ CommitFails \/ MoveFails
    <3>1. disk' = disk /\ db' = disk /\ id' \in {id, Clear}
      BY <2>6 DEF ReceiveFails, IgnoreDuplicate, InsertFails, CommitFails, MoveFails, Abort
    <3> QED
      BY <1>3, <3>1 DEF LastKept
  <2>7. CASE PublishMoveFails \/ TrimFails
    BY <2>7 DEF PublishMoveFails, TrimFails, LastSaved
  <2> QED
    BY <1>4, <2>1, <2>2, <2>3, <2>4, <2>5, <2>6, <2>7 DEF Handle
<1>5. CASE Select
  <2>0. db = disk
    BY <1>5, Settled DEF Select, CopyTransient, CopyTransientFails, Copy, CopyBeginFails, CopyNewEntryFails
  <2>1. ASSUME NEW c \in Contents, Copy(c) PROVE LastSaved'
    BY <1>1, <2>0, <2>1, StatementsKeepLast DEF Copy, LastSaved, LastKept
  <2>2. CASE CopyTransientFails \/ CopyBeginFails \/ CopyNewEntryFails \/ \E c \in Contents : CopyTransient(c)
    <3>1. disk' = disk /\ db' = disk /\ id' \in {id, Clear, Transient}
      BY <2>0, <2>2 DEF CopyTransient, CopyTransientFails, CopyBeginFails, CopyNewEntryFails, Abort
    <3> QED
      BY <1>3, <3>1 DEF LastKept
  <2> QED
    BY <1>5, <2>1, <2>2 DEF Select
<1>6. CASE Request
  <2>0. db = disk
    BY <1>6, Settled DEF Request, SetClipboard, ClearClipboard, RequestDelete, RequestClear, PinEntry
  <2>1. ASSUME NEW i \in Ids, SetClipboard(i) PROVE LastSaved'
    BY <1>2, <2>0, <2>1 DEF SetClipboard
  <2>2. CASE ClearClipboard
    BY <1>2, <2>0, <2>2 DEF ClearClipboard
  <2>3. CASE RequestClear \/ (\E i \in Ids : RequestDelete(i)) \/ \E i \in Ids, pin \in BOOLEAN : PinEntry(i, pin)
    <3>1. LastKept(disk, disk') /\ db' = disk' /\ id' \in {id, Clear}
      BY <1>1, <2>0, <2>3, StatementsKeepLast
         DEF RequestClear, RequestDelete, PinEntry, ClearAll, DeleteEntry, SetPinned
    <3> QED
      BY <1>3, <3>1
  <2> QED
    BY <1>6, <2>1, <2>2, <2>3 DEF Request
<1>7. CASE Stop
  BY <1>7 DEF Stop, LastSaved, Clear
<1>8. ASSUME NEW c \in Configs, Start(c) PROVE LastSaved'
  BY <1>8 DEF Start, LastSaved, Clear
<1>9. CASE UNCHANGED vars
  BY <1>9 DEF vars, LastSaved
<1> QED
  BY <1>4, <1>5, <1>6, <1>7, <1>8, <1>9 DEF Next

(* When saving the setting succeeds, a restart restores what is current, even  *)
(* one in the middle of a selection event.  (set, DB_SETTING_LAST_ENTRY)       *)
THEOREM LastIsAlwaysCurrent ==
    ASSUME "save" \notin Faults
    PROVE  Spec => []LastIsCurrent
<1>1. Init => LastSaved
  BY DEF Init, LastSaved, Clear
<1>2. IInv /\ LastSaved /\ [Next]_vars => LastSaved'
  BY LastSavedStep
<1>3. LastSaved => LastIsCurrent
  BY DEF LastSaved, LastIsCurrent
<1> QED
  BY <1>1, <1>2, <1>3, Inductive, PTL DEF Spec

-----------------------------------------------------------------------------
(* swctl next to the daemon                                                  *)

(* What the invariant below says of a list is said of the lines printed, of    *)
(* the page at hand, and of the places the next pages will be asked for.       *)
OnPage == {page[k] : k \in DOMAIN page}

Shows == {Unknown, Nothing} \cup {Contained(c) : c \in Contents}

ListTypes ==
    /\ phase \in {"none", "page", "lines", "listed"}
    /\ start \in Nat /\ off \in Nat /\ remain \in Nat
    /\ last \in BOOLEAN
    /\ page \in Seq(Ids)
    /\ printed \in Seq([id : Ids, shown : Shows])
    /\ owed \subseteq Live(disk)
    /\ meanwhile \in {"same", "more", "lost"}
    /\ phase # "lines" => page = <<>>
    /\ phase # "none" => picked = 0
    /\ phase = "page" => ~last

(* An id on a line or on the page was issued, and what a line shows is what    *)
(* its entry holds, if there still is one; unless the history was lost since.  *)
IsTrue(d, l) ==
    /\ l.id \in 1 .. d.seq
    /\ IdExists(d, l.id) => l.shown \in {Unknown, Nothing, Contained(d.entries[l.id].mimes)}

LinesAreTrue ==
    config.persist =>
        /\ OnPage \subseteq 1 .. disk.seq
        /\ \A k \in DOMAIN printed : IsTrue(disk, printed[k])

(* The list has still to ask for the place of an entry. *)
ToCome(i) ==
    \/ phase = "page" /\ (remain = 0 \/ Position(disk, i) >= off)
    \/ phase = "lines" /\ ~last /\ Position(disk, i) >= off + Asked(remain)
    \/ phase = "listed" /\ ~last

NothingPassed ==
    phase # "none" /\ meanwhile # "lost" => \A i \in owed : i \in Lines \cup OnPage \/ ToCome(i)

(* As long as nothing has changed, lines and page are the range so far. *)
Sofar == Len(printed) + Len(page)
Rest  == IF phase = "page" THEN remain
         ELSE IF phase = "lines" /\ ~last THEN remain - Asked(remain) ELSE 0

InOrder ==
    phase # "none" /\ meanwhile = "same" =>
        /\ owed = {i \in Live(disk) : Position(disk, i) \in start .. start + Sofar + Rest - 1}
        /\ \A k \in DOMAIN printed : /\ printed[k].id \in Live(disk)
                                     /\ Position(disk, printed[k].id) = start + k - 1
        /\ \A k \in DOMAIN page : /\ page[k] \in Live(disk)
                                  /\ Position(disk, page[k]) = start + Len(printed) + k - 1
        /\ phase = "page" /\ remain > 0 => off = start + Sofar
        /\ phase = "lines" /\ ~last => start + Sofar = off + Asked(remain)

SwctlInv == IInv /\ ListTypes /\ LinesAreTrue /\ NothingPassed /\ InOrder

(* Ids are issued upwards, and an entry only moves to the front. *)
LEMMA RowsAge ==
    ASSUME IInv, [Next]_vars
    PROVE  /\ disk.seq \in Nat /\ disk'.seq \in Nat
           /\ ~Forgets => disk'.seq >= disk.seq
           /\ \A j \in Live(disk) \cap Live(disk') : Sort(disk', j) >= Sort(disk, j)
<1>1. Sound(disk) /\ Sound(disk') /\ IsDatabase(disk) /\ IsDatabase(disk')
  BY NextPreserves DEF IInv, Sound
<1>2. disk.seq \in Nat /\ disk'.seq \in Nat
  BY <1>1, BoundsAssumption DEF IsDatabase
<1>3. /\ \A j \in Live(disk) : Sort(disk, j) \in Nat
      /\ \A j \in Live(disk') : Sort(disk', j) \in Nat
  BY <1>1, SoundIsOrdered DEF Ordered
<1>4. CASE disk'.entries = disk.entries /\ disk'.seq = disk.seq
  BY <1>2, <1>3, <1>4 DEF Sort, Live
<1>5. ASSUME NEW S, disk' = DeleteRows(disk, S)
      PROVE  disk'.seq = disk.seq /\ \A j \in Live(disk) \cap Live(disk') : Sort(disk', j) = Sort(disk, j)
  BY <1>1, <1>5, DeleteRowsEffect DEF Sort
<1>6. CASE Insert
  <2>1. /\ Live(disk') = Live(disk) \cup {work.id} /\ work.id \notin Live(disk)
        /\ \A j \in Live(disk) : Sort(disk', j) = Sort(disk, j)
    BY <1>6, InsertRows DEF Sort
  <2>2. pc = "receive" /\ disk' = Hashed
    BY <1>6 DEF Insert, Received
  <2>3. IsDatabase(db) /\ db.seq = disk.seq + 1
    BY <2>2, OpenTransaction DEF IInv, InTransaction
  <2>4. disk'.seq = db.seq
    BY <2>2, <2>3 DEF Hashed, SetEntryHash, ClearEntryHash, SetRow, IsDatabase
  <2> QED
    BY <1>2, <1>3, <2>1, <2>3, <2>4
<1>7. CASE MoveDuplicate
  <2>1. PICK i \in Live(disk) :
           /\ Sort(disk', i) = NextSort(disk)
           /\ \A j \in Live(disk) \ {i} : Sort(disk', j) = Sort(disk, j)
    BY <1>7, MoveRows
  <2>2. NextSort(disk) \in Nat /\ Sort(disk, i) < NextSort(disk)
    BY <1>1, <2>1, NextSortIsNew
  <2>3. disk'.seq = disk.seq
    BY <1>1, <1>7 DEF MoveDuplicate, UpdateSortIndex, SetRow, IsDatabase
  <2> QED
    BY <1>2, <1>3, <2>1, <2>2, <2>3
<1>8. ASSUME NEW i \in Live(disk), NEW pin \in BOOLEAN, disk' = SetPinned(disk, i, pin)
      PROVE  disk'.seq = disk.seq /\ \A j \in Live(disk) : Sort(disk', j) = Sort(disk, j)
  BY <1>1, <1>8, SetPinnedSound DEF Sort
<1>9. \/ disk'.entries = disk.entries /\ disk'.seq = disk.seq
      \/ Insert
      \/ MoveDuplicate
      \/ \E S : disk' = DeleteRows(disk, S)
      \/ \E i \in Live(disk), pin \in BOOLEAN : disk' = SetPinned(disk, i, pin)
      \/ Forgets /\ Live(disk') = {}
  BY StepOfRows, EmptyIsSound DEF Trim
<1> QED
  BY <1>2, <1>3, <1>4, <1>5, <1>6, <1>7, <1>8, <1>9

(* The id of a committed entry never comes to name other contents, and the     *)
(* counter never goes back, through rollbacks, deletions, crashes and          *)
(* restarts, but for the end of a daemon that keeps its history in memory.     *)
(* (AUTOINCREMENT, database_new_entry)                                         *)
THEOREM IdsLastForever == Spec => IdsAreForever
<1> DEFINE Lasting ==
               ~Forgets =>
                  /\ disk.seq <= disk'.seq
                  /\ \A i \in 1 .. disk.seq :
                        i \in Live(disk') => /\ i \in Live(disk)
                                             /\ disk'.entries[i].mimes = disk.entries[i].mimes
<1>1. ASSUME IInv, [Next]_vars, ~Forgets PROVE Lasting
  <2>1. disk.seq <= disk'.seq
    BY <1>1, RowsAge
  <2> QED
    BY <1>1, <2>1, NextPreserves DEF IdsKept
<1>2. IInv /\ [Next]_vars => [Lasting]_vars
  BY <1>1
<1> QED
  BY <1>2, Inductive, PTL DEF Spec, IdsAreForever

(* Whether the history persists is settled when it is made. *)
LEMMA PersistIsKept ==
    ASSUME [Next]_vars
    PROVE  config'.persist = config.persist
<1>1. CASE Handle
  BY <1>1 DEF Handle, ReceiveMime, ReceiveFails, IgnoreDuplicate, Insert, InsertFails, CommitFails,
              MoveDuplicate, MoveFails, Publish, PublishMove, PublishMoveFails,
              TrimHistory, TrimFails, Abort
<1>2. CASE Select
  BY <1>2 DEF Select, CopyTransient, CopyTransientFails, Copy, CopyBeginFails, CopyNewEntryFails, Abort
<1>3. CASE Request
  BY <1>3 DEF Request, SetClipboard, ClearClipboard, RequestDelete, RequestClear, PinEntry
<1>4. CASE Stop \/ \E c \in Configs : Start(c)
  BY <1>4 DEF Stop, Start
<1>5. CASE UNCHANGED vars
  BY <1>5 DEF vars
<1> QED
  BY <1>1, <1>2, <1>3, <1>4, <1>5 DEF Next

(* As long as nothing is deleted, an entry only moves back, unless it moves to *)
(* the front.                                                                  *)
LEMMA PlacesGrow ==
    ASSUME IInv, [Next]_vars, Live(disk) \subseteq Live(disk'), NEW i \in Kept
    PROVE  /\ Position(disk, i) \in Nat /\ Position(disk', i) \in Nat
           /\ Position(disk', i) >= Position(disk, i)
<1>1. Ordered(disk) /\ Ordered(disk')
  BY NextPreserves, SoundIsOrdered DEF IInv
<1>2. i \in Live(disk) /\ i \in Live(disk') /\ Sort(disk', i) = Sort(disk, i)
  BY DEF Kept
<1> DEFINE A == {j \in Live(disk) : Sort(disk, j) > Sort(disk, i)}
           B == {j \in Live(disk') : Sort(disk', j) > Sort(disk', i)}
<1>3. A \subseteq B
  <2> SUFFICES ASSUME NEW j \in Live(disk), Sort(disk, j) > Sort(disk, i)
               PROVE  Sort(disk', j) > Sort(disk', i)
    OBVIOUS
  <2>1. Sort(disk', j) >= Sort(disk, j)
    BY RowsAge
  <2>2. Sort(disk', j) \in Nat /\ Sort(disk, j) \in Nat /\ Sort(disk, i) \in Nat
    BY <1>1, <1>2 DEF Ordered
  <2> QED
    BY <1>2, <2>1, <2>2
<1>4. B \subseteq Live(disk') /\ IsFiniteSet(Live(disk'))
  BY <1>1 DEF Ordered
<1>5. Position(disk, i) = Cardinality(A) /\ Position(disk', i) = Cardinality(B)
  BY DEF Position
<1> HIDE DEF A, B
<1>6. IsFiniteSet(B) /\ Cardinality(B) \in Nat
  BY <1>4, FS_Subset, FS_CardinalityType
<1>7. IsFiniteSet(A) /\ Cardinality(A) \in Nat /\ Cardinality(A) <= Cardinality(B)
  BY <1>3, <1>6, FS_Subset, FS_CardinalityType
<1> QED
  BY <1>5, <1>6, <1>7

(* The answer to a request leaves the core alone. *)
LEMMA AnsweredKeeps ==
    ASSUME IInv, Answered
    PROVE  IInv'
BY DEF IInv, Answered, TypeOK, InTransaction, Partial

(* Whatever a command asks for is a request of the core. *)
LEMMA RequestedIsStep ==
    ASSUME IInv, pc = "idle", NEW c \in Commands, NEW i, IdExists(db, i), Requested(c, i)
    PROVE  Next \/ Answered
<1>1. i \in Ids
  BY Settled DEF IdExists
<1>2. c \in {"set", "get", "delete", "pin", "unpin", "toggle"}
  BY DEF Commands
<1>3. (i \in Unpinned(db)) \in BOOLEAN
  OBVIOUS
<1>4. \/ SetClipboard(i)
      \/ Answered
      \/ RequestDelete(i)
      \/ \E pin \in BOOLEAN : PinEntry(i, pin)
  BY <1>2, <1>3 DEF Requested
<1> QED
  BY <1>1, <1>4 DEF Next, Request

LEMMA SwctlIsStep ==
    ASSUME IInv, [SwctlNext]_swctlVars
    PROVE  [Next]_vars \/ Answered
<1>1. CASE Daemon
  BY <1>1 DEF Daemon
<1>2. CASE (\E s \in Starts, n \in Numbers : List(s, n)) \/ GetHistory \/ GetData \/ TurnPage
  BY <1>2 DEF List, GetHistory, GetData, TurnPage
<1>3. ASSUME NEW c \in Commands, NEW k \in DOMAIN printed, Pick(c, k)
      PROVE  Next \/ Answered
  <2>1. pc = "idle" /\ IF IdExists(db, printed[k].id) THEN Requested(c, printed[k].id) ELSE Answered
    BY <1>3 DEF Pick
  <2> QED
    BY <2>1, RequestedIsStep
<1>4. CASE UNCHANGED swctlVars
  BY <1>4 DEF swctlVars
<1> QED
  BY <1>1, <1>2, <1>3, <1>4 DEF SwctlNext

LEMMA SwctlKeepsIInv ==
    ASSUME IInv, [SwctlNext]_swctlVars
    PROVE  IInv'
BY SwctlIsStep, AnsweredKeeps, NextPreserves

(* A page of the history. *)
LEMMA HistoryPage ==
    ASSUME IInv, pc = "idle", NEW o \in Nat, NEW n \in Nat
    PROVE  LET p == History(o, n)
           IN  /\ p \in Seq(Live(disk)) /\ Len(p) \in Nat /\ Len(p) <= n
               /\ \A k \in 1 .. Len(p) : p[k] \in Live(disk) /\ Position(disk, p[k]) = o + k - 1
               /\ \A i \in Live(disk) :
                      /\ Position(disk, i) \in Nat
                      /\ Position(disk, i) \in o .. o + n - 1 => \E k \in 1 .. Len(p) : p[k] = i
                      /\ Len(p) < n => Position(disk, i) < o + Len(p)
<1> DEFINE size == Cardinality(Live(disk))
           m    == Lesser(n, IF o < size THEN size - o ELSE 0)
           p    == History(o, n)
<1>1. db = disk /\ Ordered(disk) /\ size \in Nat
  BY Settled, SoundIsOrdered DEF IInv
<1>2. p = [k \in 1 .. m |-> EntryAt(disk, o + k)]
  BY <1>1 DEF History
<1>3. /\ m \in Nat /\ m <= n
      /\ m > 0 => o + m <= size
      /\ m < n => o + m >= size
  BY <1>1 DEF Lesser
<1> HIDE DEF m, p, size
<1>4. ASSUME NEW k \in 1 .. m
      PROVE  EntryAt(disk, o + k) \in Live(disk) /\ Position(disk, EntryAt(disk, o + k)) = o + k - 1
  <2>1. o + k \in 1 .. size
    BY <1>1, <1>3, <1>4
  <2> QED
    BY <1>1, <2>1, EntryAtPlace DEF size
<1>5. p \in Seq(Live(disk)) /\ Len(p) = m
  <2>1. p \in [1 .. m -> Live(disk)]
    BY <1>2, <1>4
  <2> QED
    BY <1>3, <2>1
<1>6. \A k \in 1 .. m : p[k] \in Live(disk) /\ Position(disk, p[k]) = o + k - 1
  BY <1>2, <1>4
<1>7. ASSUME NEW i \in Live(disk)
      PROVE  /\ Position(disk, i) \in 0 .. size - 1
             /\ EntryAt(disk, Position(disk, i) + 1) = i
  BY <1>1, <1>7, PositionOrder, PlaceOfEntry DEF size
<1>8. ASSUME NEW i \in Live(disk), Position(disk, i) \in o .. o + n - 1
      PROVE  \E k \in 1 .. m : p[k] = i
  <2> DEFINE q == Position(disk, i)
             k == q + 1 - o
  <2>1. q \in Nat /\ q < size /\ q >= o /\ q < o + n
    BY <1>1, <1>7, <1>8
  <2> HIDE DEF q
  <2>2. k \in 1 .. m
    BY <1>1, <1>3, <2>1
  <2>3. o + k = q + 1
    BY <2>1
  <2>4. p[k] = EntryAt(disk, q + 1)
    BY <1>2, <2>2, <2>3
  <2> QED
    BY <1>7, <2>2, <2>4 DEF q
<1>9. ASSUME NEW i \in Live(disk)
      PROVE  Position(disk, i) \in Nat /\ (m < n => Position(disk, i) < o + m)
  BY <1>1, <1>3, <1>7
<1> QED
  BY <1>3, <1>5, <1>6, <1>8, <1>9 DEF p

(* What an invariant of a list has to say of the next state. *)
ListInv == ListTypes /\ LinesAreTrue /\ NothingPassed /\ InOrder

LEMMA NoLines == <<>> \in Seq(Ids) /\ <<>> \in Seq([id : Ids, shown : Shows])
OBVIOUS

LEMMA EndedKeeps ==
    ASSUME Ended
    PROVE  ListInv'
<1>1. /\ phase' = "none" /\ start' = 0 /\ off' = 0 /\ remain' = 0
      /\ page' = <<>> /\ last' = FALSE /\ printed' = <<>>
      /\ owed' = {} /\ meanwhile' = "same"
  BY DEF Ended
<1>2. ListTypes'
  BY <1>1, NoLines DEF ListTypes
<1>3. LinesAreTrue'
  BY <1>1 DEF LinesAreTrue, OnPage
<1> QED
  BY <1>1, <1>2, <1>3 DEF ListInv, NothingPassed, InOrder

(* A step of the daemon while a list is made, or none is. *)
LEMMA DaemonKeepsList ==
    ASSUME IInv, ListInv, Daemon
    PROVE  ListInv'
<1>1. CASE Ended
  BY <1>1, EndedKeeps
<1>2. CASE ~Ended
  <2> USE DEF ListInv
  <2>1. /\ picked' = 0
        /\ owed' = owed \cap Kept
        /\ meanwhile' = IF phase = "none" \/ disk' = disk THEN meanwhile
                        ELSE IF Live(disk) \subseteq Live(disk') /\ meanwhile # "lost" THEN "more"
                        ELSE "lost"
        /\ UNCHANGED <<phase, start, off, remain, page, last, printed>>
    BY <1>2 DEF Daemon
  <2>2. /\ IdsKept(disk, disk') /\ disk.seq \in Nat /\ disk'.seq \in Nat
        /\ config'.persist = config.persist
        /\ config.persist => disk'.seq >= disk.seq
    BY NextPreserves, RowsAge, PersistIsKept DEF Daemon, Forgets
  <2>3. Kept \subseteq Live(disk) /\ Kept \subseteq Live(disk')
    BY DEF Kept
  <2>4. ListTypes'
    BY <2>1, <2>3 DEF ListTypes
  <2>5. LinesAreTrue'
    <3> SUFFICES ASSUME config.persist PROVE LinesAreTrue'
      BY <2>2 DEF LinesAreTrue
    <3>1. OnPage' = OnPage
      BY <2>1 DEF OnPage
    <3>2. 1 .. disk.seq \subseteq 1 .. disk'.seq
      BY <2>2
    <3>3. ASSUME NEW l, IsTrue(disk, l) PROVE IsTrue(disk', l)
      BY <2>2, <3>2, <3>3 DEF IsTrue, IdsKept, IdExists
    <3> QED
      BY <2>1, <3>1, <3>2, <3>3 DEF LinesAreTrue
  <2>6. NothingPassed'
    <3> SUFFICES ASSUME phase' # "none", meanwhile' # "lost", NEW i \in owed'
                 PROVE  i \in (Lines \cup OnPage)' \/ ToCome(i)'
      BY DEF NothingPassed
    <3>1. (Lines \cup OnPage)' = Lines \cup OnPage
      BY <2>1 DEF Lines, OnPage
    <3>2. meanwhile # "lost" /\ i \in owed /\ i \in Kept
      BY <2>1
    <3>3. i \in Lines \cup OnPage \/ ToCome(i)
      BY <2>1, <3>2 DEF NothingPassed
    <3>4. CASE disk' = disk
      BY <2>1, <3>1, <3>3, <3>4 DEF ToCome, Asked, Lesser
    <3>5. CASE disk' # disk
      <4>1. Live(disk) \subseteq Live(disk')
        BY <2>1, <3>5
      <4>2. /\ Position(disk, i) \in Nat /\ Position(disk', i) \in Nat
            /\ Position(disk', i) >= Position(disk, i)
        BY <3>2, <4>1, PlacesGrow DEF Daemon
      <4>3. off \in Nat /\ off + Asked(remain) \in Nat
        BY PageAssumption DEF ListTypes, Asked, Lesser
      <4>4. Asked(remain)' = Asked(remain)
        BY <2>1 DEF Asked, Lesser
      <4>5. ToCome(i) => ToCome(i)'
        BY <2>1, <4>2, <4>3, <4>4 DEF ToCome
      <4> QED
        BY <3>1, <3>3, <4>5
    <3> QED
      BY <3>4, <3>5
  <2>7. InOrder'
    <3> SUFFICES ASSUME phase' # "none", meanwhile' = "same" PROVE InOrder'
      BY DEF InOrder
    <3>1. disk' = disk /\ meanwhile = "same" /\ phase # "none"
      BY <2>1
    <3>2. owed' = owed
      BY <2>1, <3>1 DEF Kept, ListTypes
    <3> QED
      BY <2>1, <3>1, <3>2 DEF InOrder, Sofar, Rest, Asked, Lesser
  <2> QED
    BY <2>4, <2>5, <2>6, <2>7
<1> QED
  BY <1>1, <1>2

LEMMA ListBegins ==
    ASSUME IInv, ListInv, NEW s \in Starts, NEW n \in Numbers, List(s, n)
    PROVE  ListInv'
<1>1. /\ phase' = "page" /\ start' = s /\ off' = s /\ remain' = n
      /\ owed' = {i \in Live(db) : Position(db, i) \in s .. s + n - 1}
      /\ meanwhile' = "same"
      /\ page' = <<>> /\ last' = FALSE /\ printed' = <<>> /\ picked' = 0
      /\ disk' = disk /\ pc = "idle"
  BY DEF List, Forgotten, Answered
<1>2. s \in Nat /\ n \in Nat /\ db = disk
  BY <1>1, PageAssumption, Settled
<1>3. ListTypes'
  BY <1>1, <1>2, NoLines DEF ListTypes
<1>4. LinesAreTrue'
  BY <1>1 DEF LinesAreTrue, OnPage
<1>5. \A i \in owed' : Position(disk', i) >= off'
  BY <1>1, <1>2
<1>6. NothingPassed'
  BY <1>1, <1>5 DEF NothingPassed, ToCome
<1>7. InOrder'
  BY <1>1, <1>2 DEF InOrder, Sofar, Rest
<1> QED
  BY <1>3, <1>4, <1>6, <1>7 DEF ListInv

LEMMA AskedIs ==
    ASSUME NEW n \in Nat
    PROVE  /\ Asked(n) \in Nat /\ Asked(n) <= n /\ Asked(n) <= PageSize
           /\ n > 0 => Asked(n) > 0
           /\ n - Asked(n) > 0 => Asked(n) = PageSize
BY PageAssumption DEF Asked, Lesser

LEMMA PageRead ==
    ASSUME IInv, ListInv, GetHistory
    PROVE  ListInv'
<1> USE DEF ListInv
<1>1. /\ phase = "page" /\ pc = "idle" /\ disk' = disk /\ config' = config
      /\ UNCHANGED <<start, off, remain, printed, picked, owed, meanwhile>>
  BY DEF GetHistory, Answered
<1>2. page = <<>> /\ ~last /\ off \in Nat /\ remain \in Nat /\ start \in Nat /\ Len(printed) \in Nat
  BY <1>1 DEF ListTypes
<1>3. Len(page) = 0 /\ OnPage = {} /\ Sofar = Len(printed)
  BY <1>2 DEF OnPage, Sofar
<1>4. CASE remain = 0
  <2>1. phase' = "listed" /\ page' = page /\ last' = last
    BY <1>4 DEF GetHistory
  <2>2. ListTypes'
    BY <1>1, <1>2, <2>1 DEF ListTypes
  <2>3. LinesAreTrue'
    BY <1>1, <2>1 DEF LinesAreTrue, OnPage
  <2>4. NothingPassed'
    BY <1>1, <1>2, <2>1 DEF NothingPassed, ToCome
  <2>5. InOrder'
    BY <1>1, <1>2, <1>4, <2>1 DEF InOrder, Sofar, Rest
  <2> QED
    BY <2>2, <2>3, <2>4, <2>5
<1>5. CASE remain # 0
  <2> DEFINE n == Asked(remain)
             L == Len(printed)
             m == Len(page')
  <2>1. phase' = "lines" /\ page' = History(off, n) /\ last' = (Len(page') # n)
    BY <1>5 DEF GetHistory
  <2>2. n \in Nat /\ n <= remain /\ n > 0
    BY <1>2, <1>5, AskedIs
  <2>3. Asked(remain)' = n
    BY <1>1 DEF Asked, Lesser
  <2> HIDE DEF n
  <2>4. /\ page' \in Seq(Live(disk)) /\ m \in Nat /\ m <= n
        /\ \A k \in 1 .. m : page'[k] \in Live(disk) /\ Position(disk, page'[k]) = off + k - 1
        /\ \A i \in Live(disk) :
               /\ Position(disk, i) \in Nat
               /\ Position(disk, i) \in off .. off + n - 1 => \E k \in 1 .. m : page'[k] = i
               /\ m < n => Position(disk, i) < off + m
    <3> DEFINE p == History(off, n)
    <3>1. /\ p \in Seq(Live(disk)) /\ Len(p) \in Nat /\ Len(p) <= n
          /\ \A k \in 1 .. Len(p) : p[k] \in Live(disk) /\ Position(disk, p[k]) = off + k - 1
          /\ \A i \in Live(disk) :
                 /\ Position(disk, i) \in Nat
                 /\ Position(disk, i) \in off .. off + n - 1 => \E k \in 1 .. Len(p) : p[k] = i
                 /\ Len(p) < n => Position(disk, i) < off + Len(p)
      BY <1>1, <1>2, <2>2, HistoryPage
    <3>2. page' = p
      BY <2>1
    <3> HIDE DEF p
    <3> QED
      BY <3>1, <3>2
  <2>5. DOMAIN page' = 1 .. m
    BY <2>4
  <2>6. Live(disk) \subseteq Ids /\ \A i \in Live(disk) : i \in 1 .. disk.seq
    <3>1. Live(disk) \subseteq Ids /\ Sound(disk) /\ disk.seq \in Nat
      BY <1>1, Settled, BoundsAssumption DEF IsDatabase
    <3> QED
      BY <3>1 DEF Sound, IdsIssued, Ids
  <2>7. ListTypes'
    <3>1. page' \in Seq(Ids)
      BY <2>4, <2>6
    <3>2. last' \in BOOLEAN
      BY <2>1
    <3> QED
      BY <1>1, <2>1, <3>1, <3>2 DEF ListTypes
  <2>8. LinesAreTrue'
    <3>1. OnPage' \subseteq Live(disk)
      BY <2>4, <2>5 DEF OnPage
    <3>2. OnPage' \subseteq 1 .. disk.seq
      BY <2>6, <3>1
    <3> QED
      BY <1>1, <3>2 DEF LinesAreTrue
  <2>9. NothingPassed'
    <3> SUFFICES ASSUME meanwhile' # "lost", NEW i \in owed', i \notin Lines', i \notin OnPage'
                 PROVE  ToCome(i)'
      BY DEF NothingPassed
    <3>1. i \in Live(disk) /\ Position(disk, i) >= off
      BY <1>1, <1>2, <1>3, <1>5 DEF NothingPassed, ToCome, Lines, ListTypes
    <3>2. ~ \E k \in 1 .. m : page'[k] = i
      BY <2>5 DEF OnPage
    <3>3. Position(disk, i) \in Nat /\ Position(disk, i) >= off + n /\ ~(m < n)
      BY <1>2, <2>2, <2>4, <3>1, <3>2
    <3>4. ~last'
      <4>1. m = n
        BY <2>2, <2>4, <3>3
      <4> QED
        BY <2>1, <4>1
    <3> QED
      BY <1>1, <2>1, <2>3, <3>3, <3>4 DEF ToCome
  <2>10. InOrder'
    <3> SUFFICES ASSUME meanwhile' = "same" PROVE InOrder'
      BY DEF InOrder
    <3>1. /\ owed = {i \in Live(disk) : Position(disk, i) \in start .. start + L + remain - 1}
          /\ \A k \in DOMAIN printed : /\ printed[k].id \in Live(disk)
                                        /\ Position(disk, printed[k].id) = start + k - 1
          /\ off = start + L
      BY <1>1, <1>2, <1>3, <1>5 DEF InOrder, Rest
    <3>2. Sofar' = L + m
      BY <1>1 DEF Sofar
    <3>3. \A k \in 1 .. m : Position(disk, page'[k]) = start + L + k - 1
      BY <2>4, <3>1
    <3>4. CASE last'
      <4>0. m # n
        BY <2>1, <3>4
      <4>1. m < n /\ Rest' = 0
        BY <2>1, <2>2, <2>4, <3>4, <4>0 DEF Rest
      <4>2. \A i \in Live(disk) : Position(disk, i) \in Nat /\ Position(disk, i) < start + L + m
        BY <2>4, <3>1, <4>1
      <4>3. \A i \in Live(disk) : Position(disk, i) \in start .. start + L + remain - 1
                                    <=> Position(disk, i) \in start .. start + (L + m) + 0 - 1
        BY <1>2, <2>2, <2>4, <4>1, <4>2
      <4>4. owed' = {i \in Live(disk) : Position(disk, i) \in start .. start + (L + m) + 0 - 1}
        BY <1>1, <3>1, <4>3
      <4> QED
        BY <1>1, <2>1, <2>4, <2>5, <3>1, <3>2, <3>3, <3>4, <4>1, <4>4 DEF InOrder
    <3>5. CASE ~last'
      <4>1. m = n /\ Rest' = remain - n
        BY <1>1, <2>1, <2>3, <3>5 DEF Rest
      <4>2. start + (L + m) + (remain - n) - 1 = start + L + remain - 1
        BY <1>2, <2>2, <4>1
      <4>3. start + (L + m) = off + n
        BY <1>2, <2>2, <3>1, <4>1
      <4> QED
        BY <1>1, <2>1, <2>3, <2>4, <2>5, <3>1, <3>2, <3>3, <3>5, <4>1, <4>2, <4>3 DEF InOrder
    <3> QED
      BY <3>4, <3>5
  <2> QED
    BY <2>7, <2>8, <2>9, <2>10
<1> QED
  BY <1>4, <1>5

LEMMA LinePrinted ==
    ASSUME IInv, ListInv, GetData
    PROVE  ListInv'
<1> USE DEF ListInv
<1> DEFINE L == Len(printed)
           m == Len(page)
<1>1. /\ phase = "lines" /\ phase' = "lines" /\ pc = "idle" /\ disk' = disk /\ config' = config
      /\ page # <<>> /\ page' = Tail(page)
      /\ UNCHANGED <<start, off, remain, last, picked, owed, meanwhile>>
  BY DEF GetData, Answered
<1>2. PICK shown \in Previews(Head(page)) :
         printed' = Append(printed, [id |-> Head(page), shown |-> shown])
  BY DEF GetData
<1>3. /\ db = disk /\ Sound(disk)
      /\ page \in Seq(Ids) /\ printed \in Seq([id : Ids, shown : Shows])
      /\ off \in Nat /\ remain \in Nat /\ start \in Nat
  BY <1>1, Settled DEF ListTypes
<1>4. L \in Nat /\ m \in Nat \ {0} /\ DOMAIN page = 1 .. m /\ DOMAIN printed = 1 .. L
      /\ Head(page) = page[1] /\ 1 \in 1 .. m
  BY <1>1, <1>3
<1> DEFINE i == page[1]
           r == [id |-> i, shown |-> shown]
<1>5. i \in Ids /\ (config.persist => i \in 1 .. disk.seq)
  BY <1>3, <1>4 DEF LinesAreTrue, OnPage
<1>6. shown \in Shows /\ (IdExists(disk, i) => shown \in {Unknown, Nothing, Contained(disk.entries[i].mimes)})
  <2>1. IdExists(disk, i) => disk.entries[i].mimes \in Contents
    BY <1>3 DEF Sound, RowsWhole, IdExists
  <2> QED
    BY <1>2, <1>3, <1>4, <2>1 DEF Previews, Shows
<1>7. /\ DOMAIN printed' = 1 .. L + 1 /\ Len(printed') = L + 1
      /\ printed'[L + 1] = r
      /\ \A k \in 1 .. L : printed'[k] = printed[k]
  <2> HIDE DEF r
  <2>1. printed' = Append(printed, r)
    BY <1>2, <1>4 DEF r
  <2> QED
    BY <1>3, <2>1
<1>8. /\ DOMAIN page' = 1 .. m - 1 /\ Len(page') = m - 1
      /\ \A k \in 1 .. m - 1 : page'[k] = page[k + 1]
  BY <1>1, <1>3, <1>4
<1>9. page' \in Seq(Ids)
  BY <1>1, <1>3
<1>10. printed' \in Seq([id : Ids, shown : Shows])
  <2>1. r \in [id : Ids, shown : Shows]
    BY <1>5, <1>6
  <2> HIDE DEF r
  <2>2. printed' = Append(printed, r)
    BY <1>2, <1>4 DEF r
  <2> QED
    BY <1>3, <2>1, <2>2
<1>11. Lines' = Lines \cup {i} /\ OnPage = OnPage' \cup {i}
  <2>1. Lines' = {printed'[k].id : k \in 1 .. L + 1} /\ Lines = {printed[k].id : k \in 1 .. L}
    BY <1>4, <1>7 DEF Lines
  <2>2. Lines' = Lines \cup {i}
    <3>1. 1 .. L + 1 = (1 .. L) \cup {L + 1}
      BY <1>4
    <3>2. printed'[L + 1].id = i
      BY <1>7
    <3> HIDE DEF i, r
    <3> QED
      BY <1>7, <2>1, <3>1, <3>2
  <2>3. OnPage' = {page[k + 1] : k \in 1 .. m - 1}
    BY <1>8 DEF OnPage
  <2>4. \A k \in 1 .. m : k = 1 \/ \E l \in 1 .. m - 1 : k = l + 1
    <3> TAKE k \in 1 .. m
    <3>1. k = 1 \/ (k - 1 \in 1 .. m - 1 /\ k = (k - 1) + 1)
      BY <1>4
    <3> QED
      BY <3>1
  <2>5. \A l \in 1 .. m - 1 : l + 1 \in 1 .. m
    BY <1>4
  <2> QED
    BY <1>4, <2>2, <2>3, <2>4, <2>5 DEF OnPage
<1> HIDE DEF i, r, L, m
<1>12. ListTypes'
  BY <1>1, <1>9, <1>10 DEF ListTypes
<1>13. LinesAreTrue'
  <2> SUFFICES ASSUME config.persist PROVE LinesAreTrue'
    BY <1>1 DEF LinesAreTrue
  <2>1. \A k \in 1 .. L + 1 : k = L + 1 \/ k \in 1 .. L
    BY <1>4
  <2>2. IsTrue(disk, printed'[L + 1])
    BY <1>5, <1>6, <1>7 DEF r, IsTrue
  <2>3. OnPage' \subseteq 1 .. disk.seq
    BY <1>11 DEF LinesAreTrue
  <2>4. \A k \in 1 .. L : IsTrue(disk, printed'[k])
    BY <1>4, <1>7 DEF LinesAreTrue
  <2> QED
    BY <1>1, <1>7, <2>1, <2>2, <2>3, <2>4 DEF LinesAreTrue
<1>14. NothingPassed'
  <2>1. Lines' \cup OnPage' = Lines \cup OnPage
    BY <1>11
  <2> QED
    BY <1>1, <2>1 DEF NothingPassed, ToCome, Asked, Lesser
<1>15. InOrder'
  <2> SUFFICES ASSUME meanwhile' = "same" PROVE InOrder'
    BY DEF InOrder
  <2>1. Sofar' = Sofar /\ Rest' = Rest
    <3>1. (L + 1) + (m - 1) = L + m
      BY <1>4
    <3> QED
      BY <1>1, <1>7, <1>8, <3>1 DEF Sofar, Rest, Asked, Lesser, L, m
  <2>2. /\ owed = {j \in Live(disk) : Position(disk, j) \in start .. start + Sofar + Rest - 1}
        /\ \A k \in 1 .. L : printed[k].id \in Live(disk) /\ Position(disk, printed[k].id) = start + k - 1
        /\ \A k \in 1 .. m : page[k] \in Live(disk) /\ Position(disk, page[k]) = start + L + k - 1
        /\ ~last => start + Sofar = off + Asked(remain)
    BY <1>1, <1>4 DEF InOrder, L
  <2>3. \A k \in 1 .. L + 1 : /\ printed'[k].id \in Live(disk)
                               /\ Position(disk, printed'[k].id) = start + k - 1
    <3> TAKE k \in 1 .. L + 1
    <3>1. CASE k \in 1 .. L
      BY <1>7, <2>2, <3>1
    <3>2. CASE k = L + 1
      <4>1. printed'[k].id = i
        BY <1>7, <3>2 DEF r
      <4>2. i \in Live(disk) /\ Position(disk, i) = start + L + 1 - 1
        BY <1>4, <2>2 DEF i
      <4> QED
        BY <1>3, <1>4, <3>2, <4>1, <4>2
    <3> QED
      BY <1>4, <3>1, <3>2
  <2>4. \A k \in 1 .. m - 1 : /\ page'[k] \in Live(disk)
                               /\ Position(disk, page'[k]) = start + (L + 1) + k - 1
    <3> TAKE k \in 1 .. m - 1
    <3>1. k + 1 \in 1 .. m
      BY <1>4
    <3>2. page[k + 1] \in Live(disk) /\ Position(disk, page[k + 1]) = start + L + (k + 1) - 1
      BY <2>2, <3>1
    <3> QED
      BY <1>3, <1>4, <1>8, <3>2
  <2>5. Asked(remain)' = Asked(remain)
    BY <1>1 DEF Asked, Lesser
  <2> QED
    BY <1>1, <1>7, <1>8, <2>1, <2>2, <2>3, <2>4, <2>5 DEF InOrder
<1> QED
  BY <1>12, <1>13, <1>14, <1>15

LEMMA PageTurned ==
    ASSUME IInv, ListInv, TurnPage
    PROVE  ListInv'
<1> USE DEF ListInv
<1>1. /\ phase = "lines" /\ page = <<>> /\ disk' = disk /\ config' = config
      /\ phase' = IF last THEN "listed" ELSE "page"
      /\ off' = off + PageSize /\ remain' = remain - Asked(remain)
      /\ UNCHANGED <<start, page, last, printed, picked, owed, meanwhile>>
  BY DEF TurnPage, Turned, Answered
<1>2. /\ off \in Nat /\ remain \in Nat /\ start \in Nat /\ PageSize \in Nat
      /\ Asked(remain) \in Nat /\ Asked(remain) <= remain
      /\ remain - Asked(remain) > 0 => Asked(remain) = PageSize
      /\ Len(printed) \in Nat
  BY PageAssumption, AskedIs DEF ListTypes
<1>3. ListTypes'
  BY <1>1, <1>2 DEF ListTypes
<1>4. LinesAreTrue'
  BY <1>1 DEF LinesAreTrue, OnPage
<1>5. Lines' = Lines /\ OnPage' = OnPage /\ OnPage = {} /\ Sofar' = Sofar /\ Sofar = Len(printed)
  BY <1>1, <1>2 DEF Lines, OnPage, Sofar
<1>6. NothingPassed'
  <2> SUFFICES ASSUME meanwhile' # "lost", NEW i \in owed', i \notin Lines'
               PROVE  ToCome(i)'
    BY <1>5 DEF NothingPassed
  <2>1. ~last /\ Position(disk, i) >= off + Asked(remain)
    BY <1>1, <1>5 DEF NothingPassed, ToCome
  <2>2. remain' = 0 \/ Asked(remain) = PageSize
    BY <1>1, <1>2
  <2> QED
    BY <1>1, <2>1, <2>2 DEF ToCome
<1>7. InOrder'
  <2> SUFFICES ASSUME meanwhile' = "same" PROVE InOrder'
    BY DEF InOrder
  <2>1. Rest' = Rest
    BY <1>1 DEF Rest
  <2>2. phase' = "page" /\ remain' > 0 => off' = start + Sofar
    BY <1>1, <1>2 DEF InOrder
  <2> QED
    BY <1>1, <1>5, <2>1, <2>2 DEF InOrder
<1> QED
  BY <1>3, <1>4, <1>6, <1>7

LEMMA SwctlBegins == SwctlInit => IInv /\ ListInv
<1> SUFFICES ASSUME SwctlInit PROVE IInv /\ ListInv
  OBVIOUS
<1>1. /\ phase = "none" /\ start = 0 /\ off = 0 /\ remain = 0
      /\ page = <<>> /\ last = FALSE /\ printed = <<>>
      /\ owed = {} /\ meanwhile = "same"
  BY DEF SwctlInit
<1>2. IInv
  BY InitEstablishes DEF SwctlInit
<1>3. ListTypes
  BY <1>1, NoLines DEF ListTypes
<1>4. LinesAreTrue
  BY <1>1 DEF LinesAreTrue, OnPage
<1> QED
  BY <1>1, <1>2, <1>3, <1>4 DEF ListInv, NothingPassed, InOrder

LEMMA SwctlStep ==
    ASSUME IInv, ListInv, [SwctlNext]_swctlVars
    PROVE  IInv' /\ ListInv'
<1> SUFFICES ListInv'
  BY SwctlKeepsIInv
<1>1. CASE Daemon
  BY <1>1, DaemonKeepsList
<1>2. CASE \E s \in Starts, n \in Numbers : List(s, n)
  BY <1>2, ListBegins
<1>3. CASE GetHistory
  BY <1>3, PageRead
<1>4. CASE GetData
  BY <1>4, LinePrinted
<1>5. CASE TurnPage
  BY <1>5, PageTurned
<1>6. CASE \E c \in Commands, k \in DOMAIN printed : Pick(c, k)
  BY <1>6, EndedKeeps DEF Pick
<1>7. CASE UNCHANGED swctlVars
  BY <1>7 DEF swctlVars, vars, listVars, ListInv, ListTypes, LinesAreTrue, NothingPassed, InOrder,
              OnPage, Lines, ToCome, Sofar, Rest, Asked, Lesser
<1> QED
  BY <1>1, <1>2, <1>3, <1>4, <1>5, <1>6, <1>7 DEF SwctlNext

LEMMA SwctlInductive == SwctlSpec => [](IInv /\ ListInv)
<1>1. (IInv /\ ListInv) /\ [SwctlNext]_swctlVars => (IInv /\ ListInv)'
  BY SwctlStep
<1> QED
  BY <1>1, SwctlBegins, PTL DEF SwctlSpec

(* A list skips no entry that keeps its place, whatever is copied and moved to *)
(* the front while it is made, and is exact when nothing changes.              *)
(* (command_list, print_entry)                                                 *)
THEOREM ListNeverSkips == SwctlSpec => []ListSkipsNothing
<1>1. IInv /\ ListInv => ListSkipsNothing
  <2> SUFFICES ASSUME IInv, ListInv, phase = "listed"
               PROVE  /\ meanwhile = "more" /\ last => owed \subseteq Lines
                      /\ meanwhile = "same" =>
                             /\ owed = Lines
                             /\ \A k \in DOMAIN printed : Position(disk, printed[k].id) = start + k - 1
    BY DEF ListSkipsNothing
  <2> USE DEF ListInv
  <2>1. page = <<>> /\ OnPage = {}
    BY DEF ListTypes, OnPage
  <2>2. meanwhile = "more" /\ last => owed \subseteq Lines
    BY <2>1 DEF NothingPassed, ToCome
  <2>3. CASE meanwhile = "same"
    <3> DEFINE L == Len(printed)
    <3>1. /\ L \in Nat /\ DOMAIN printed = 1 .. L /\ start \in Nat
          /\ Sofar = L /\ Rest = 0
      BY <2>1 DEF ListTypes, Sofar, Rest
    <3> HIDE DEF L
    <3>2. /\ owed = {i \in Live(disk) : Position(disk, i) \in start .. start + L + 0 - 1}
          /\ \A k \in 1 .. L : printed[k].id \in Live(disk) /\ Position(disk, printed[k].id) = start + k - 1
      BY <2>3, <3>1 DEF InOrder
    <3>3. Ordered(disk)
      BY SoundIsOrdered DEF IInv
    <3>4. Lines \subseteq owed
      BY <3>1, <3>2 DEF Lines
    <3>5. ASSUME NEW i \in owed PROVE i \in Lines
      <4> DEFINE k == Position(disk, i) - start + 1
      <4>1. i \in Live(disk) /\ Position(disk, i) \in start .. start + L + 0 - 1
        BY <3>2, <3>5
      <4>2. k \in 1 .. L /\ start + k - 1 = Position(disk, i)
        BY <3>1, <4>1
      <4> HIDE DEF k
      <4>3. printed[k].id \in Live(disk) /\ Position(disk, printed[k].id) = Position(disk, i)
        BY <3>2, <4>2
      <4>4. printed[k].id = i
        BY <3>3, <4>1, <4>3, PositionOrder
      <4> QED
        BY <3>1, <4>2, <4>4 DEF Lines
    <3> QED
      BY <2>2, <3>1, <3>2, <3>4, <3>5
  <2> QED
    BY <2>2, <2>3
<1> QED
  BY <1>1, SwctlInductive, PTL

(* What a request for one entry leaves of the others. *)
LEMMA RequestedSpares ==
    ASSUME IInv, pc = "idle", NEW c \in Commands, NEW i \in Live(db), Requested(c, i)
    PROVE  /\ \A j \in Live(db) \ {i} : j \in Live(db') /\ db'.entries[j] = db.entries[j]
           /\ id' \in {id, i, Clear}
<1>1. db = disk /\ Sound(db) /\ IsDatabase(db) /\ Live(db) \subseteq Ids
  BY Settled
<1>2. CASE SetClipboard(i)
  <2>1. Set(db, i)
    BY <1>2 DEF SetClipboard
  <2>2. db'.entries = db.entries
    BY <1>1, <2>1, SetSound DEF IInv, TypeOK
  <2> QED
    BY <2>1, <2>2 DEF Set, Live
<1>3. CASE Answered
  BY <1>3 DEF Answered
<1>4. CASE RequestDelete(i)
  BY <1>1, <1>4, DeleteRowsEffect DEF RequestDelete, DeleteEntry
<1>5. ASSUME NEW pin, PinEntry(i, pin)
      PROVE  /\ \A j \in Live(db) \ {i} : j \in Live(db') /\ db'.entries[j] = db.entries[j]
             /\ id' \in {id, i, Clear}
  <2>1. db' = SetPinned(db, i, pin) /\ id' = id
    BY <1>5 DEF PinEntry
  <2> QED
    BY <1>1, <2>1 DEF SetPinned, SetRow, Live, IsDatabase
<1>6. c \in {"set", "get", "delete", "pin", "unpin", "toggle"}
  BY DEF Commands
<1>7. SetClipboard(i) \/ Answered \/ RequestDelete(i) \/ \E pin : PinEntry(i, pin)
  BY <1>6 DEF Requested
<1> QED
  BY <1>2, <1>3, <1>4, <1>5, <1>7

(* A command given for a line acts on the entry the line showed, or on none,   *)
(* whatever was copied, deleted and trimmed since, and through restarts if the *)
(* history persists.  (swctl set -d; AUTOINCREMENT)                            *)
THEOREM PickIsAlwaysShown == SwctlSpec => PickedIsShown
<1> DEFINE P == picked' # 0 /\ IdExists(db, printed[picked'].id) =>
                    LET i == printed[picked'].id
                    IN  /\ config.persist =>
                               printed[picked'].shown \in {Unknown, Nothing, Contained(db.entries[i].mimes)}
                        /\ \A j \in Live(db) \ {i} : j \in Live(db') /\ db'.entries[j] = db.entries[j]
                        /\ id' \in {id, i, Clear}
<1>1. IInv /\ ListInv /\ [SwctlNext]_swctlVars => [P]_swctlVars
  <2> SUFFICES ASSUME IInv, ListInv, SwctlNext PROVE P
    OBVIOUS
  <2>1. CASE Daemon \/ \E s \in Starts, n \in Numbers : List(s, n)
    BY <2>1 DEF Daemon, List, Forgotten
  <2>2. CASE GetHistory \/ GetData \/ TurnPage
    BY <2>2 DEF GetHistory, GetData, TurnPage, ListInv, ListTypes
  <2>3. ASSUME NEW c \in Commands, NEW k \in DOMAIN printed, Pick(c, k),
               picked' # 0, IdExists(db, printed[picked'].id)
        PROVE  LET i == printed[picked'].id
               IN  /\ config.persist =>
                          printed[picked'].shown \in {Unknown, Nothing, Contained(db.entries[i].mimes)}
                   /\ \A j \in Live(db) \ {i} : j \in Live(db') /\ db'.entries[j] = db.entries[j]
                   /\ id' \in {id, i, Clear}
    <3> DEFINE i == printed[k].id
    <3>1. picked' = k /\ pc = "idle"
      BY <2>3 DEF Pick
    <3>2. i \in Live(db) /\ Requested(c, i)
      BY <2>3, <3>1 DEF Pick, IdExists
    <3>3. /\ \A j \in Live(db) \ {i} : j \in Live(db') /\ db'.entries[j] = db.entries[j]
          /\ id' \in {id, i, Clear}
      BY <3>1, <3>2, RequestedSpares
    <3>4. config.persist => printed[k].shown \in {Unknown, Nothing, Contained(db.entries[i].mimes)}
      BY <3>1, <3>2, Settled DEF ListInv, LinesAreTrue, IsTrue, IdExists
    <3> QED
      BY <3>1, <3>3, <3>4
  <2>4. CASE \E c \in Commands, k \in DOMAIN printed : Pick(c, k)
    BY <2>3, <2>4
  <2> QED
    BY <2>1, <2>2, <2>4 DEF SwctlNext
<1> QED
  BY <1>1, SwctlInductive, PTL DEF SwctlSpec, PickedIsShown

-----------------------------------------------------------------------------
(* A subscriber                                                              *)

(* What a few events make of a view, one after the other. *)
LEMMA AppliedIs ==
    ASSUME NEW v, NEW evs, Len(evs) \in 0 .. 4
    PROVE  LET a == Apply(v, evs[1])
               b == Apply(a, evs[2])
               c == Apply(b, evs[3])
           IN  /\ Len(evs) = 0 => Applied(v, evs) = v
               /\ Len(evs) = 1 => Applied(v, evs) = a
               /\ Len(evs) = 2 => Applied(v, evs) = b
               /\ Len(evs) = 3 => Applied(v, evs) = c
               /\ Len(evs) = 4 => Applied(v, evs) = Apply(c, evs[4])
<1> DEFINE A(w, n) == Apply(w, evs[n])
           L == Len(evs)
           P(f) == f = [n \in 0 .. L |-> IF n = 0 THEN v ELSE A(f[n - 1], n)]
           f == CHOOSE g : P(g)
           a == A(v, 1)
           b == A(a, 2)
           c == A(b, 3)
           d == A(c, 4)
           w == [n \in 0 .. L |-> IF n = 0 THEN v ELSE IF n = 1 THEN a ELSE IF n = 2 THEN b
                                  ELSE IF n = 3 THEN c ELSE d]
<1>1. L \in 0 .. 4
  OBVIOUS
<1>2. Applied(v, evs) = f[L]
  BY DEF Applied
<1> HIDE DEF A, L
<1>3. \A n \in 0 .. L : n # 0 => n - 1 \in 0 .. L
  BY <1>1
<1>4. \A n \in 0 .. L : w[n] = IF n = 0 THEN v ELSE A(w[n - 1], n)
  <2> TAKE n \in 0 .. L
  <2>1. n \in 0 .. 4
    BY <1>1
  <2>2. n = 0 \/ n = 1 \/ n = 2 \/ n = 3 \/ n = 4
    BY <2>1
  <2> QED
    BY <1>3, <2>2
<1>5. P(w)
  BY <1>4
<1>6. P(f)
  <2> HIDE DEF P, w
  <2> QED
    BY <1>5
<1> HIDE DEF f
<1>7. L = 0 \/ L = 1 \/ L = 2 \/ L = 3 \/ L = 4
  BY <1>1
<1>8. /\ L = 0 => f[L] = v
      /\ L = 1 => f[L] = a
      /\ L = 2 => f[L] = b
      /\ L = 3 => f[L] = c
      /\ L = 4 => f[L] = d
  <2>1. f[0] = v
    BY <1>1, <1>6
  <2>2. L >= 1 => f[1] = a
    BY <1>1, <1>6, <2>1
  <2>3. L >= 2 => f[2] = b
    BY <1>1, <1>6, <2>2
  <2>4. L >= 3 => f[3] = c
    BY <1>1, <1>6, <2>3
  <2>5. L >= 4 => f[4] = d
    BY <1>1, <1>6, <2>4
  <2> QED
    BY <1>1, <2>1, <2>2, <2>3, <2>4, <2>5
<1> QED
  BY <1>2, <1>8 DEF A, L

LEMMA HistoryListType ==
    ASSUME NEW d, Ordered(d)
    PROVE  /\ HistoryList(d) \in Seq(Live(d))
           /\ Len(HistoryList(d)) = Cardinality(Live(d)) /\ Cardinality(Live(d)) \in Nat
           /\ DOMAIN HistoryList(d) = 1 .. Cardinality(Live(d))
           /\ HistoryList(d) = [k \in 1 .. Cardinality(Live(d)) |-> HistoryList(d)[k]]
           /\ \A k \in 1 .. Cardinality(Live(d)) : HistoryList(d)[k] = EntryAt(d, k) /\ EntryAt(d, k) \in Live(d)
<1> DEFINE c == Cardinality(Live(d))
           h == HistoryList(d)
<1>1. c \in Nat /\ \A k \in 1 .. c : EntryAt(d, k) \in Live(d)
  BY FS_CardinalityType, EntryAtPlace DEF Ordered
<1>2. h = [k \in 1 .. c |-> EntryAt(d, k)]
  BY DEF HistoryList
<1> HIDE DEF h, c
<1>3. h \in [1 .. c -> Live(d)]
  BY <1>1, <1>2
<1>4. h \in Seq(Live(d)) /\ Len(h) = c /\ DOMAIN h = 1 .. c
  BY <1>1, <1>3
<1> QED
  BY <1>1, <1>2, <1>4 DEF h, c

(* The list, given its rows in order. *)
LEMMA ListOfRows ==
    ASSUME NEW d, Ordered(d), NEW a,
           a = [k \in 1 .. Cardinality(Live(d)) |-> a[k]],
           \A k \in 1 .. Cardinality(Live(d)) : a[k] \in Live(d),
           \A k, l \in 1 .. Cardinality(Live(d)) : k < l => Sort(d, a[k]) > Sort(d, a[l])
    PROVE  HistoryList(d) = a
<1>1. a \in [1 .. Cardinality(Live(d)) -> Live(d)]
  OBVIOUS
<1>2. \A k \in 1 .. Cardinality(Live(d)) : a[k] = EntryAt(d, k)
  BY <1>1, OrderIsUnique
<1>3. /\ Cardinality(Live(d)) \in Nat
      /\ HistoryList(d) = [k \in 1 .. Cardinality(Live(d)) |-> HistoryList(d)[k]]
      /\ \A k \in 1 .. Cardinality(Live(d)) : HistoryList(d)[k] = EntryAt(d, k)
  BY HistoryListType
<1> QED
  BY <1>2, <1>3, SameList

(* Rows that keep their places. *)
LEMMA ListKept ==
    ASSUME NEW d, Ordered(d), NEW e, Ordered(e), Live(e) = Live(d), \A i \in Live(d) : Sort(e, i) = Sort(d, i)
    PROVE  HistoryList(e) = HistoryList(d)
<1> DEFINE h == HistoryList(d)
           c == Cardinality(Live(d))
<1>1. /\ h = [k \in 1 .. c |-> h[k]]
      /\ \A k \in 1 .. c : h[k] \in Live(d) /\ h[k] = EntryAt(d, k)
  BY HistoryListType
<1>2. \A k, l \in 1 .. c : k < l => Sort(d, h[k]) > Sort(d, h[l])
  BY <1>1, PlaceOrder
<1> HIDE DEF h
<1>3. \A k, l \in 1 .. c : k < l => Sort(e, h[k]) > Sort(e, h[l])
  BY <1>1, <1>2
<1>4. HistoryList(e) = h
  BY <1>1, <1>3, ListOfRows
<1> QED
  BY <1>4 DEF h

(* A row in front. *)
LEMMA ListWithFront ==
    ASSUME NEW d, Ordered(d), NEW e, Ordered(e), NEW r, r \notin Live(d),
           Live(e) = Live(d) \cup {r},
           \A i \in Live(d) : Sort(e, i) = Sort(d, i) /\ Sort(e, r) > Sort(d, i)
    PROVE  HistoryList(e) = <<r>> \o HistoryList(d)
<1> DEFINE h == HistoryList(d)
           c == Cardinality(Live(d))
           a == <<r>> \o h
<1>1. /\ h \in Seq(Live(d)) /\ Len(h) = c /\ c \in Nat
      /\ \A k \in 1 .. c : h[k] \in Live(d) /\ h[k] = EntryAt(d, k)
  BY HistoryListType
<1>2. \A k, l \in 1 .. c : k < l => Sort(d, h[k]) > Sort(d, h[l])
  BY <1>1, PlaceOrder
<1>3. Cardinality(Live(e)) = c + 1
  BY FS_AddElement DEF Ordered
<1> HIDE DEF h, c
<1>4. h \in Seq(Live(e)) /\ r \in Live(e)
  BY <1>1, SeqMonotonic
<1>5. /\ a \in Seq(Live(e)) /\ Len(a) = c + 1
      /\ \A k \in 1 .. c + 1 : a[k] = IF k = 1 THEN r ELSE h[k - 1]
  BY <1>1, <1>4
<1> HIDE DEF a
<1>6. a = [k \in 1 .. c + 1 |-> a[k]] /\ \A k \in 1 .. c + 1 : a[k] \in Live(e)
  BY <1>5
<1>7. ASSUME NEW k \in 1 .. c + 1, NEW l \in 1 .. c + 1, k < l
      PROVE  Sort(e, a[k]) > Sort(e, a[l])
  <2>1. l # 1 /\ l - 1 \in 1 .. c /\ a[l] = h[l - 1]
    BY <1>1, <1>5, <1>7
  <2>2. CASE k = 1
    BY <1>1, <1>5, <2>1, <2>2
  <2>3. CASE k # 1
    <3>1. k - 1 \in 1 .. c /\ a[k] = h[k - 1] /\ k - 1 < l - 1
      BY <1>1, <1>5, <1>7, <2>3
    <3> QED
      BY <1>1, <1>2, <2>1, <3>1
  <2> QED
    BY <2>2, <2>3
<1>8. HistoryList(e) = a
  BY <1>3, <1>6, <1>7, ListOfRows
<1> QED
  BY <1>8 DEF a, h

(* Rows that go. *)
LEMMA ListWithout ==
    ASSUME NEW d, Ordered(d), NEW e, Ordered(e), NEW S,
           Live(e) = Live(d) \ S, \A i \in Live(e) : Sort(e, i) = Sort(d, i)
    PROVE  HistoryList(e) = Without(HistoryList(d), S)
<1> DEFINE h == HistoryList(d)
           c == Cardinality(Live(d))
           left == (1 .. c) \ PlacesOf(d, S)
           n == Cardinality(left)
           a == [k \in 1 .. n |-> EntryAt(d, Nth(left, k))]
<1>1. /\ DOMAIN h = 1 .. c
      /\ \A k \in 1 .. c : h[k] = EntryAt(d, k)
  BY HistoryListType
<1>2. /\ n = Cardinality(Live(d) \ S) /\ n \in Nat
      /\ a \in [1 .. n -> Live(d) \ S]
      /\ \A k, l \in 1 .. n : k < l => Sort(d, a[k]) > Sort(d, a[l])
      /\ \A k \in 1 .. n : Nth(left, k) \in 1 .. c
  BY RowsLeft
<1>3. {k \in DOMAIN h : h[k] \notin S} = left
  BY <1>1 DEF PlacesOf
<1>4. Without(h, S) = [k \in 1 .. n |-> h[Nth(left, k)]]
  BY <1>3 DEF Without, AtPlaces
<1>5. a = [k \in 1 .. n |-> EntryAt(d, Nth(left, k))]
  OBVIOUS
<1> HIDE DEF h, c, left, n, a
<1>6. Without(h, S) = a
  BY <1>1, <1>2, <1>4, <1>5
<1>7. n = Cardinality(Live(e)) /\ a \in [1 .. n -> Live(e)]
  BY <1>2
<1>8. ASSUME NEW k \in 1 .. n, NEW l \in 1 .. n, k < l
      PROVE  Sort(e, a[k]) > Sort(e, a[l])
  <2>1. a[k] \in Live(e) /\ a[l] \in Live(e)
    BY <1>7
  <2>2. Sort(e, a[k]) = Sort(d, a[k]) /\ Sort(e, a[l]) = Sort(d, a[l])
    BY <2>1
  <2> QED
    BY <1>2, <1>8, <2>2
<1>9. a = [k \in 1 .. n |-> a[k]] /\ \A k \in 1 .. n : a[k] \in Live(e)
  BY <1>7
<1>10. HistoryList(e) = a
  BY <1>7, <1>8, <1>9, ListOfRows
<1> QED
  BY <1>6, <1>10 DEF h

(* What RemoveAt leaves. *)
LEMMA RemovedAt ==
    ASSUME NEW T, NEW s \in Seq(T), NEW p \in 1 .. Len(s)
    PROVE  /\ RemoveAt(s, p) \in Seq(T) /\ Len(RemoveAt(s, p)) = Len(s) - 1
           /\ \A k \in 1 .. Len(s) - 1 : RemoveAt(s, p)[k] = IF k < p THEN s[k] ELSE s[k + 1]
<1> DEFINE a == SubSeq(s, 1, p - 1)
           b == SubSeq(s, p + 1, Len(s))
<1>1. Len(s) \in Nat /\ p \in Nat /\ p >= 1 /\ p <= Len(s)
  OBVIOUS
<1>2. a \in Seq(T) /\ Len(a) = p - 1 /\ \A k \in 1 .. p - 1 : a[k] = s[k]
  BY <1>1
<1>3. b \in Seq(T) /\ Len(b) = Len(s) - p /\ \A k \in 1 .. Len(s) - p : b[k] = s[p + k]
  BY <1>1
<1>4. RemoveAt(s, p) = a \o b
  BY DEF RemoveAt
<1> HIDE DEF a, b
<1>5. /\ a \o b \in Seq(T) /\ Len(a \o b) = Len(s) - 1
      /\ \A k \in 1 .. Len(s) - 1 : (a \o b)[k] = IF k <= p - 1 THEN a[k] ELSE b[k - (p - 1)]
  <2>1. /\ a \o b \in Seq(T) /\ Len(a \o b) = Len(a) + Len(b)
        /\ \A k \in 1 .. Len(a) + Len(b) : (a \o b)[k] = IF k <= Len(a) THEN a[k] ELSE b[k - Len(a)]
    BY <1>2, <1>3, ConcatProperties
  <2>2. Len(a) + Len(b) = Len(s) - 1
    BY <1>1, <1>2, <1>3
  <2> QED
    BY <1>2, <2>1, <2>2
<1>6. ASSUME NEW k \in 1 .. Len(s) - 1
      PROVE  (a \o b)[k] = IF k < p THEN s[k] ELSE s[k + 1]
  <2>1. CASE k < p
    BY <1>1, <1>2, <1>5, <2>1
  <2>2. CASE ~(k < p)
    <3>1. k - (p - 1) \in 1 .. Len(s) - p /\ p + (k - (p - 1)) = k + 1 /\ ~(k <= p - 1)
      BY <1>1, <2>2
    <3> QED
      BY <1>3, <1>5, <2>2, <3>1
  <2> QED
    BY <2>1, <2>2
<1> QED
  BY <1>4, <1>5, <1>6

(* A row that moves to the front. *)
LEMMA ListMoved ==
    ASSUME NEW d, Ordered(d), NEW e, Ordered(e), NEW r \in Live(d),
           Live(e) = Live(d), \A i \in Live(d) \ {r} : Sort(e, i) = Sort(d, i),
           \A i \in Live(d) : Sort(e, r) > Sort(d, i)
    PROVE  HistoryList(e) = <<r>> \o RemoveAt(HistoryList(d), Position(d, r) + 1)
<1> DEFINE h == HistoryList(d)
           c == Cardinality(Live(d))
           p == Position(d, r) + 1
           b == RemoveAt(h, p)
           a == <<r>> \o b
<1>1. /\ h \in Seq(Live(d)) /\ Len(h) = c /\ c \in Nat
      /\ \A k \in 1 .. c : h[k] \in Live(d) /\ h[k] = EntryAt(d, k)
  BY HistoryListType
<1>2. p \in 1 .. c /\ h[p] = r
  BY <1>1, PlaceOfEntry
<1>3. \A k, l \in 1 .. c : k < l => Sort(d, h[k]) > Sort(d, h[l])
  BY <1>1, PlaceOrder
<1>0. \A k, l \in 1 .. c : h[k] = h[l] => k = l
  BY <1>1, PlaceOrder
<1> HIDE DEF h, c, p
<1>4. /\ b \in Seq(Live(d)) /\ Len(b) = c - 1
      /\ \A k \in 1 .. c - 1 : b[k] = IF k < p THEN h[k] ELSE h[k + 1]
  <2>1. p \in 1 .. Len(h)
    BY <1>1, <1>2
  <2>2. /\ b \in Seq(Live(d)) /\ Len(b) = Len(h) - 1
        /\ \A k \in 1 .. Len(h) - 1 : b[k] = IF k < p THEN h[k] ELSE h[k + 1]
    BY <1>1, <2>1, RemovedAt
  <2> QED
    BY <1>1, <2>2
<1> HIDE DEF b
<1>5. /\ a \in Seq(Live(d)) /\ Len(a) = c
      /\ \A k \in 1 .. c : a[k] = IF k = 1 THEN r ELSE b[k - 1]
  BY <1>1, <1>2, <1>4
<1> DEFINE q(k) == IF k < p THEN k ELSE k + 1
<1>6. ASSUME NEW k \in 1 .. c - 1
      PROVE  q(k) \in 1 .. c /\ q(k) # p /\ b[k] = h[q(k)]
  BY <1>1, <1>2, <1>4, <1>6
<1>7. ASSUME NEW k \in 1 .. c - 1 PROVE b[k] \in Live(d) \ {r}
  <2>1. PICK m \in 1 .. c : m # p /\ b[k] = h[m]
    BY <1>6
  <2>2. h[m] \in Live(d) /\ h[m] # h[p]
    BY <1>0, <1>1, <1>2, <2>1
  <2> QED
    BY <1>2, <2>1, <2>2
<1>8. ASSUME NEW k \in 1 .. c - 1, NEW l \in 1 .. c - 1, k < l
      PROVE  Sort(d, b[k]) > Sort(d, b[l])
  <2>1. q(k) < q(l)
    BY <1>2, <1>8
  <2>2. PICK m, n \in 1 .. c : m < n /\ b[k] = h[m] /\ b[l] = h[n]
    BY <1>6, <2>1
  <2> QED
    BY <1>3, <2>2
<1> HIDE DEF a
<1>9. a = [k \in 1 .. c |-> a[k]] /\ \A k \in 1 .. c : a[k] \in Live(e)
  BY <1>5
<1>10. ASSUME NEW k \in 1 .. c, NEW l \in 1 .. c, k < l
       PROVE  Sort(e, a[k]) > Sort(e, a[l])
  <2>1. l - 1 \in 1 .. c - 1 /\ a[l] = b[l - 1]
    BY <1>1, <1>5, <1>10
  <2>2. b[l - 1] \in Live(d) \ {r}
    BY <1>7, <2>1
  <2>3. Sort(e, a[l]) = Sort(d, b[l - 1])
    BY <2>1, <2>2
  <2>4. CASE k = 1
    BY <1>5, <2>2, <2>3, <2>4
  <2>5. CASE k # 1
    <3>1. k - 1 \in 1 .. c - 1 /\ a[k] = b[k - 1] /\ k - 1 < l - 1
      BY <1>1, <1>5, <1>10, <2>5
    <3>2. Sort(e, a[k]) = Sort(d, b[k - 1])
      BY <1>7, <3>1
    <3> QED
      BY <1>8, <2>1, <2>3, <3>1, <3>2
  <2> QED
    BY <2>4, <2>5
<1>11. HistoryList(e) = a
  BY <1>9, <1>10, ListOfRows DEF c
<1> QED
  BY <1>11 DEF a, b, h, p

View(list, pinned, current) == [list |-> list, pinned |-> pinned, current |-> current]

(* The two events of set(). *)
Ends(i)   == StateOf(i, FALSE)
Begins(i) == StateOf(i, TRUE)

(* Which of the five an event calls for. *)
LEMMA ApplyKind ==
    ASSUME NEW v, NEW e
    PROVE  /\ e.event = "entry_add"    => Apply(v, e) = EntryAdd(v, e)
           /\ e.event = "entry_move"   => Apply(v, e) = EntryMove(v, e)
           /\ e.event = "entry_delete" => Apply(v, e) = EntryDelete(v, e)
           /\ e.event = "entry_update" => Apply(v, e) = EntryUpdate(v, e)
           /\ e.event = "entry_state"  => Apply(v, e) = EntryState(v, e)
BY DEF Apply

(* What one event makes of a view. *)
LEMMA AddApplied ==
    ASSUME NEW l, NEW p, NEW c, NEW i
    PROVE  Apply(View(l, p, c), Added(i)) = View(<<i>> \o l, p, c)
<1>1. Added(i).event = "entry_add"
  BY DEF Added
<1>2. Apply(View(l, p, c), Added(i)) = EntryAdd(View(l, p, c), Added(i))
  BY <1>1, ApplyKind
<1> QED
  BY <1>2 DEF EntryAdd, View, Added

LEMMA MoveApplied ==
    ASSUME NEW l, NEW p, NEW c, NEW i, NEW pos
    PROVE  Apply(View(l, p, c), Moved(i, pos)) = View(<<i>> \o RemoveAt(l, pos + 1), p, c)
<1>1. Moved(i, pos).event = "entry_move"
  BY DEF Moved
<1>2. Apply(View(l, p, c), Moved(i, pos)) = EntryMove(View(l, p, c), Moved(i, pos))
  BY <1>1, ApplyKind
<1> QED
  BY <1>2 DEF EntryMove, View, Moved

LEMMA UpdateApplied ==
    ASSUME NEW l, NEW p, NEW c, NEW i
    PROVE  Apply(View(l, p, c), Updated(i)) = View(l, p, c)
<1>1. Updated(i).event = "entry_update" /\ "pinned" \notin Updated(i).fields
  BY DEF Updated
<1>2. Apply(View(l, p, c), Updated(i)) = EntryUpdate(View(l, p, c), Updated(i))
  BY <1>1, ApplyKind
<1> QED
  BY <1>1, <1>2 DEF EntryUpdate

LEMMA BeginApplied ==
    ASSUME NEW l, NEW p, NEW c, NEW i
    PROVE  Apply(View(l, p, c), Begins(i)) = View(l, p, i)
<1>1. Begins(i).event = "entry_state"
  BY DEF Begins, StateOf
<1>2. Apply(View(l, p, c), Begins(i)) = EntryState(View(l, p, c), Begins(i))
  BY <1>1, ApplyKind
<1> QED
  BY <1>2 DEF EntryState, View, Begins, StateOf

(* What is left of the current entry c when the entries S are not current. *)
NotIn(c, S) == IF c \in S THEN NoId ELSE c

LEMMA EndApplied ==
    ASSUME NEW l, NEW p, NEW c, NEW i
    PROVE  Apply(View(l, p, c), Ends(i)) = View(l, p, NotIn(c, {i}))
<1>1. Ends(i).event = "entry_state"
  BY DEF Ends, StateOf
<1>2. Apply(View(l, p, c), Ends(i)) = EntryState(View(l, p, c), Ends(i))
  BY <1>1, ApplyKind
<1> QED
  BY <1>2 DEF EntryState, View, Ends, StateOf, NotIn

LEMMA DeleteApplied ==
    ASSUME NEW l, NEW p, NEW c, NEW S, Clear \notin S
    PROVE  Apply(View(l, p, c), Deleted(S)) = View(Without(l, S), p \ S, NotIn(c, S))
<1>1. Deleted(S).event = "entry_delete"
  BY DEF Deleted
<1>2. Apply(View(l, p, c), Deleted(S)) = EntryDelete(View(l, p, c), Deleted(S))
  BY <1>1, ApplyKind
<1> QED
  BY <1>2 DEF EntryDelete, View, Deleted, NotIn

LEMMA ClearApplied ==
    ASSUME NEW l, NEW p, NEW c
    PROVE  Apply(View(l, p, c), Deleted({Clear})) = View(<<>>, {}, NoId)
<1>1. Deleted({Clear}).event = "entry_delete"
  BY DEF Deleted
<1>2. Apply(View(l, p, c), Deleted({Clear})) = EntryDelete(View(l, p, c), Deleted({Clear}))
  BY <1>1, ApplyKind
<1> QED
  BY <1>2 DEF EntryDelete, View, Deleted

(* Two lists of events, put together. *)
LEMMA Joined ==
    ASSUME NEW T, NEW s \in Seq(T), NEW t \in Seq(T)
    PROVE  /\ s \o t \in Seq(T) /\ Len(s \o t) = Len(s) + Len(t)
           /\ \A k \in 1 .. Len(s) : (s \o t)[k] = s[k]
           /\ Len(t) >= 1 => (s \o t)[Len(s) + 1] = t[1]
           /\ Len(t) >= 2 => (s \o t)[Len(s) + 2] = t[2]
<1>1. /\ s \o t \in Seq(T) /\ Len(s \o t) = Len(s) + Len(t)
      /\ \A k \in 1 .. Len(s) + Len(t) : (s \o t)[k] = IF k <= Len(s) THEN s[k] ELSE t[k - Len(s)]
  BY ConcatProperties
<1>2. Len(s) \in Nat /\ Len(t) \in Nat
  OBVIOUS
<1>3. ASSUME NEW k \in 1 .. Len(t) PROVE (s \o t)[Len(s) + k] = t[k]
  <2>1. Len(s) + k \in 1 .. Len(s) + Len(t) /\ ~(Len(s) + k <= Len(s)) /\ (Len(s) + k) - Len(s) = k
    BY <1>2
  <2> QED
    BY <1>1, <2>1
<1>4. ASSUME NEW k \in 1 .. Len(s) PROVE (s \o t)[k] = s[k]
  <2>1. k \in 1 .. Len(s) + Len(t) /\ k <= Len(s)
    BY <1>2
  <2> QED
    BY <1>1, <2>1
<1>5. Len(t) >= 1 => (s \o t)[Len(s) + 1] = t[1]
  BY <1>2, <1>3
<1>6. Len(t) >= 2 => (s \o t)[Len(s) + 2] = t[2]
  BY <1>2, <1>3
<1> QED
  BY <1>1, <1>4, <1>5, <1>6

(* set() tells of the entry that was current and of the one that is. *)
LEMMA StateEvents ==
    ASSUME NEW old \in Int, NEW new \in Int, NEW T, Ends(old) \in T, Begins(new) \in T
    PROVE  LET s == SetEvents(old, new)
           IN  /\ s \in Seq(T)
               /\ old > 0 /\ new > 0 => Len(s) = 2 /\ s[1] = Ends(old) /\ s[2] = Begins(new)
               /\ old > 0 /\ ~(new > 0) => Len(s) = 1 /\ s[1] = Ends(old)
               /\ ~(old > 0) /\ new > 0 => Len(s) = 1 /\ s[1] = Begins(new)
               /\ ~(old > 0) /\ ~(new > 0) => Len(s) = 0
<1> DEFINE a == Ends(old)
           b == Begins(new)
           f == IF old > 0 THEN <<a>> ELSE <<>>
           g == IF new > 0 THEN <<b>> ELSE <<>>
<1>1. SetEvents(old, new) = f \o g
  BY DEF SetEvents, Ends, Begins
<1>2. a \in T /\ b \in T
  OBVIOUS
<1> HIDE DEF a, b
<1>3. /\ f \in Seq(T) /\ (old > 0 => Len(f) = 1 /\ f[1] = a) /\ (~(old > 0) => Len(f) = 0)
      /\ g \in Seq(T) /\ (new > 0 => Len(g) = 1 /\ g[1] = b) /\ (~(new > 0) => Len(g) = 0)
  BY <1>2
<1> HIDE DEF f, g
<1>4. /\ f \o g \in Seq(T) /\ Len(f \o g) = Len(f) + Len(g)
      /\ \A k \in 1 .. Len(f) : (f \o g)[k] = f[k]
      /\ Len(g) >= 1 => (f \o g)[Len(f) + 1] = g[1]
  BY <1>3, Joined
<1>5. ASSUME old > 0, new > 0 PROVE Len(f \o g) = 2 /\ (f \o g)[1] = a /\ (f \o g)[2] = b
  <2>1. Len(f) = 1 /\ f[1] = a /\ Len(g) = 1 /\ g[1] = b
    BY <1>3, <1>5
  <2>2. (f \o g)[1] = f[1]
    <3>1. 1 \in 1 .. Len(f)
      BY <2>1
    <3> QED
      BY <1>4, <3>1
  <2>3. Len(f \o g) = 2 /\ (f \o g)[2] = g[1]
    BY <1>4, <2>1
  <2> QED
    BY <2>1, <2>2, <2>3
<1>6. ASSUME old > 0, ~(new > 0) PROVE Len(f \o g) = 1 /\ (f \o g)[1] = a
  <2>1. Len(f) = 1 /\ f[1] = a /\ Len(g) = 0
    BY <1>3, <1>6
  <2>2. (f \o g)[1] = f[1]
    <3>1. 1 \in 1 .. Len(f)
      BY <2>1
    <3> QED
      BY <1>4, <3>1
  <2> QED
    BY <1>4, <2>1, <2>2
<1>7. ASSUME ~(old > 0), new > 0 PROVE Len(f \o g) = 1 /\ (f \o g)[1] = b
  <2>1. Len(f) = 0 /\ Len(g) = 1 /\ g[1] = b
    BY <1>3, <1>7
  <2>2. Len(f) + 1 = 1 /\ Len(f) + Len(g) = 1 /\ Len(g) >= 1
    BY <2>1
  <2>3. (f \o g)[Len(f) + 1] = g[1]
    BY <1>4, <2>2
  <2> QED
    BY <1>4, <2>1, <2>2, <2>3
<1>8. ASSUME ~(old > 0), ~(new > 0) PROVE Len(f \o g) = 0
  <2>1. Len(f) = 0 /\ Len(g) = 0
    BY <1>3, <1>8
  <2> QED
    BY <1>4, <2>1
<1> QED
  BY <1>1, <1>4, <1>5, <1>6, <1>7, <1>8 DEF a, b

(* What the two make of a view. *)
LEMMA NowCurrent ==
    ASSUME NEW l, NEW p, NEW c, NEW old, NEW new
    PROVE  /\ Apply(Apply(View(l, p, c), Ends(old)), Begins(new)) = View(l, p, new)
           /\ Apply(View(l, p, c), Begins(new)) = View(l, p, new)
<1>1. Apply(View(l, p, c), Ends(old)) = View(l, p, NotIn(c, {old}))
  BY EndApplied
<1>2. \A k : Apply(View(l, p, k), Begins(new)) = View(l, p, new)
  BY BeginApplied
<1> QED
  BY <1>1, <1>2

(* The view agrees with the history wherever the handler of a selection is     *)
(* not between a commit and its announcement; there, the announcement makes    *)
(* it agree.                                                                   *)
ViewOK ==
    /\ pc \in {"idle", "receive", "trim"} =>
           /\ view = View(HistoryList(disk), PinnedIds(disk), view.current)
           /\ IdExists(disk, id) => view.current = id
    /\ pc = "publish" =>
           /\ view = View(view.list, PinnedIds(disk), view.current)
           /\ HistoryList(disk) = <<work.id>> \o view.list
    /\ pc = "moved" =>
           /\ view = View(view.list, PinnedIds(disk), view.current)
           /\ HistoryList(disk) = <<work.id>> \o RemoveAt(view.list, work.pos + 1)

Announced == {"commit", "update", "trim"} \cap Faults = {}

(* Nothing is announced. *)
LEMMA NoEvents ==
    ASSUME Observe, pc # "down", out' = <<>>
    PROVE  view' = view
<1>1. Len(out') = 0 /\ Len(out') \in 0 .. 4
  OBVIOUS
<1>2. Applied(view, out') = view
  BY <1>1, AppliedIs
<1> QED
  BY <1>2 DEF Observe

(* A few events are announced. *)
LEMMA EventsSeen ==
    ASSUME Observe, pc # "down"
    PROVE  /\ Len(out') = 1 => view' = Apply(view, out'[1])
           /\ Len(out') = 2 => view' = Apply(Apply(view, out'[1]), out'[2])
           /\ Len(out') = 3 => view' = Apply(Apply(Apply(view, out'[1]), out'[2]), out'[3])
           /\ Len(out') = 4 => view' = Apply(Apply(Apply(Apply(view, out'[1]), out'[2]), out'[3]), out'[4])
<1>1. view' = Applied(view, out')
  BY DEF Observe
<1>2. CASE Len(out') = 1
  BY <1>1, <1>2, AppliedIs
<1>3. CASE Len(out') = 2
  BY <1>1, <1>3, AppliedIs
<1>4. CASE Len(out') = 3
  BY <1>1, <1>4, AppliedIs
<1>5. CASE Len(out') = 4
  BY <1>1, <1>5, AppliedIs
<1> QED
  BY <1>2, <1>3, <1>4, <1>5

(* Which entries are pinned, where rows keep it. *)
LEMMA PinsOfRows ==
    ASSUME NEW d, NEW e, e.entries = d.entries
    PROVE  /\ HistoryList(e) = HistoryList(d) /\ PinnedIds(e) = PinnedIds(d)
           /\ Live(e) = Live(d)
BY DEF HistoryList, PinnedIds, Unpinned, Live, EntryAt, Position, Sort

(* A step that says nothing and commits nothing. *)
LEMMA QuietKeepsView ==
    ASSUME IInv, ViewOK, Observe, out' = <<>>,
           pc \in {"idle", "receive", "trim"}, pc' \in {"idle", "receive", "trim"},
           disk' = disk, id' \in {id, Clear, Transient}
    PROVE  ViewOK'
<1>1. view' = view
  BY NoEvents
<1>2. Live(disk) \subseteq Ids
  BY DEF IInv, TypeOK, IsDatabase, IsTable, Live
<1>3. Clear \notin Live(disk) /\ Transient \notin Live(disk)
  BY <1>2, BoundsAssumption DEF Ids, Clear, Transient
<1> QED
  BY <1>1, <1>3 DEF ViewOK, IdExists

LEMMA InsertView ==
    ASSUME IInv, ViewOK, Observe, Insert
    PROVE  ViewOK'
<1>1. pc = "receive" /\ pc' = "publish" /\ out' = <<>> /\ work' = work /\ view' = view
  BY NoEvents DEF Insert, Received
<1> DEFINE n == work.id
<1>2. /\ n \notin Live(disk)
      /\ Sound(disk) /\ Sound(disk')
      /\ Live(disk') = Live(disk) \cup {n}
      /\ \A i \in Live(disk) :
             /\ disk'.entries[i].pinned = disk.entries[i].pinned
             /\ disk'.entries[i].sort = disk.entries[i].sort
      /\ disk'.entries[n].pinned = FALSE
      /\ Sort(disk', n) = NextSort(disk)
  BY InsertRows
<1>3. Ordered(disk) /\ Ordered(disk') /\ IsDatabase(disk)
  BY <1>2, SoundIsOrdered DEF Sound
<1>4. \A i \in Live(disk) : Sort(disk', i) = Sort(disk, i) /\ Sort(disk', n) > Sort(disk, i)
  <2> SUFFICES ASSUME NEW i \in Live(disk)
               PROVE  Sort(disk', i) = Sort(disk, i) /\ Sort(disk', n) > Sort(disk, i)
    OBVIOUS
  <2>1. Sort(disk, i) < NextSort(disk) /\ Sort(disk, i) \in Nat /\ NextSort(disk) \in Nat
    BY <1>3, NextSortIsNew DEF Ordered
  <2>2. Sort(disk', i) = Sort(disk, i)
    BY <1>2 DEF Sort
  <2> HIDE DEF n
  <2> QED
    BY <1>2, <2>1, <2>2
<1> HIDE DEF n
<1>5. HistoryList(disk') = <<n>> \o HistoryList(disk)
  BY <1>2, <1>3, <1>4, ListWithFront
<1>6. PinnedIds(disk') = PinnedIds(disk)
  BY <1>2 DEF PinnedIds, Unpinned
<1>7. view = View(HistoryList(disk), PinnedIds(disk), view.current)
  BY <1>1 DEF ViewOK
<1>8. view.list = HistoryList(disk)
  BY <1>7 DEF View
<1> QED
  BY <1>1, <1>5, <1>6, <1>7, <1>8 DEF ViewOK, n

(* The new row is counted in the position of every other. *)
LEMMA OldPositionIs ==
    ASSUME IInv, pc = "receive", NEW i \in Live(disk)
    PROVE  OldPosition(i) = Position(disk, i)
<1>1. InTransaction /\ Sound(disk)
  BY DEF IInv
<1>2. /\ Live(db) = Live(disk) \cup {work.id} /\ work.id \notin Live(disk)
      /\ \A j \in Live(disk) : db.entries[j] = disk.entries[j]
      /\ db.entries[work.id].sort = NextSort(disk)
  BY <1>1, OpenTransaction DEF InTransaction, Partial
<1>3. IsFiniteSet(Live(disk)) /\ IsDatabase(disk)
  BY <1>1, SoundIsOrdered DEF Ordered, Sound
<1> DEFINE A == {j \in Live(disk) : Sort(disk, j) > Sort(disk, i)}
           B == {j \in Live(db) : Sort(db, j) > Sort(db, i)}
<1>4. Sort(db, work.id) > Sort(db, i) /\ \A j \in Live(disk) : Sort(db, j) = Sort(disk, j)
  <2>1. NextSort(disk) \in Nat /\ Sort(disk, i) < NextSort(disk) /\ Sort(disk, i) \in Sorts
    BY <1>3, NextSortIsNew
  <2> QED
    BY <1>2, <2>1 DEF Sort, Sorts
<1>5. B = A \cup {work.id} /\ work.id \notin A /\ A \subseteq Live(disk)
  BY <1>2, <1>4
<1>6. Position(disk, i) = Cardinality(A) /\ Position(db, i) = Cardinality(B)
  BY DEF Position
<1> HIDE DEF A, B
<1>7. IsFiniteSet(A) /\ Cardinality(A) \in Nat
  BY <1>3, <1>5, FS_Subset, FS_CardinalityType
<1>8. Cardinality(B) = Cardinality(A) + 1
  BY <1>5, <1>7, FS_AddElement
<1> QED
  BY <1>6, <1>7, <1>8 DEF OldPosition

LEMMA MoveView ==
    ASSUME IInv, ViewOK, Observe, MoveDuplicate
    PROVE  ViewOK'
<1>1. pc = "receive" /\ pc' = "moved" /\ out' = <<>> /\ view' = view
  BY NoEvents DEF MoveDuplicate, Received
<1>2. PICK i \in Live(disk) :
         /\ work'.id = i
         /\ Sound(disk) /\ Sound(disk')
         /\ Live(disk') = Live(disk)
         /\ \A j \in Live(disk) : disk'.entries[j].pinned = disk.entries[j].pinned
         /\ Sort(disk', i) = NextSort(disk)
         /\ \A j \in Live(disk) \ {i} : Sort(disk', j) = Sort(disk, j)
  BY MoveRows
<1>3. Ordered(disk) /\ Ordered(disk') /\ IsDatabase(disk)
  BY <1>2, SoundIsOrdered DEF Sound
<1>4. \A j \in Live(disk) : Sort(disk', i) > Sort(disk, j)
  <2> SUFFICES ASSUME NEW j \in Live(disk) PROVE NextSort(disk) > Sort(disk, j)
    BY <1>2
  <2> QED
    BY <1>3, NextSortIsNew DEF Sorts
<1>5. HistoryList(disk') = <<i>> \o RemoveAt(HistoryList(disk), Position(disk, i) + 1)
  BY <1>2, <1>3, <1>4, ListMoved
<1>6. work'.pos = Position(disk, i)
  <2>1. PICK j \in Duplicates : work' = [work EXCEPT !.id = j, !.pos = OldPosition(j)]
    BY DEF MoveDuplicate
  <2>2. work'.id = j /\ work'.pos = OldPosition(j)
    BY <2>1 DEF IInv, TypeOK
  <2> QED
    BY <1>1, <1>2, <2>2, OldPositionIs
<1>7. PinnedIds(disk') = PinnedIds(disk)
  BY <1>2 DEF PinnedIds, Unpinned
<1>8. view = View(HistoryList(disk), PinnedIds(disk), view.current)
  BY <1>1 DEF ViewOK
<1>9. view.list = HistoryList(disk)
  BY <1>8 DEF View
<1> QED
  BY <1>1, <1>2, <1>5, <1>6, <1>7, <1>8, <1>9 DEF ViewOK

LEMMA SomeIds ==
    IInv => /\ id \in Int /\ Clear \notin Live(disk) /\ Transient \notin Live(disk) /\ ~(Clear > 0)
            /\ Live(disk) \subseteq Ids
            /\ \A i \in Ids : i \in Int /\ i > 0 /\ i # Clear
<1> SUFFICES ASSUME IInv
             PROVE  /\ id \in Int /\ Clear \notin Live(disk) /\ Transient \notin Live(disk) /\ ~(Clear > 0)
                    /\ Live(disk) \subseteq Ids
                    /\ \A i \in Ids : i \in Int /\ i > 0 /\ i # Clear
  OBVIOUS
<1>1. Live(disk) \subseteq Ids /\ id \in Ids \cup {Clear, Transient}
  BY DEF IInv, TypeOK, IsDatabase, IsTable, Live
<1> QED
  BY <1>1, BoundsAssumption DEF Ids, Clear, Transient

LEMMA PublishView ==
    ASSUME IInv, ViewOK, Observe, Publish
    PROVE  ViewOK'
<1> DEFINE w == work.id
           l == view.list
           p == view.pinned
           c == view.current
<1>1. /\ pc = "publish" /\ pc' = "trim" /\ id' = w /\ Set(db, w)
      /\ out' = <<Added(w)>> \o SetEvents(id, w)
  BY DEF Publish, Set
<1>2. w \in Ids
  BY <1>1 DEF IInv
<1>3. disk'.entries = disk.entries
  BY <1>1, <1>2, SetKeepsRows
<1>4. HistoryList(disk') = <<w>> \o l /\ PinnedIds(disk') = p
  BY <1>1, <1>3, PinsOfRows DEF ViewOK, View
<1>5. view = View(l, p, c)
  BY <1>1 DEF ViewOK, View
<1>6. w \in Int /\ id \in Int /\ w > 0
  BY <1>2, SomeIds
<1> HIDE DEF w, l, p, c
<1> DEFINE A == Added(w)
           F == Ends(id)
           N == Begins(w)
           T == {A, F, N}
           s == SetEvents(id, w)
           m == <<w>> \o l
<1>7. view' = View(m, p, w)
  <2>1. /\ s \in Seq(T)
        /\ id > 0 => Len(s) = 2 /\ s[1] = F /\ s[2] = N
        /\ ~(id > 0) => Len(s) = 1 /\ s[1] = N
    BY <1>6, StateEvents
  <2>2. Apply(view, A) = View(m, p, c)
    BY <1>5, AddApplied
  <2>3. /\ Apply(Apply(View(m, p, c), F), N) = View(m, p, w)
        /\ Apply(View(m, p, c), N) = View(m, p, w)
    BY NowCurrent
  <2> HIDE DEF A, F, N, s, m
  <2>4. <<A>> \in Seq(T) /\ Len(<<A>>) = 1 /\ <<A>>[1] = A
    OBVIOUS
  <2> HIDE DEF T
  <2>5. /\ Len(out') = 1 + Len(s)
        /\ out'[1] = A
        /\ Len(s) >= 1 => out'[2] = s[1]
        /\ Len(s) >= 2 => out'[3] = s[2]
    BY <1>1, <2>1, <2>4, Joined DEF A, s
  <2>6. CASE id > 0
    <3>0. Len(s) = 2 /\ s[1] = F /\ s[2] = N
      BY <2>1, <2>6
    <3>1. Len(out') = 3 /\ out'[2] = F /\ out'[3] = N
      BY <2>5, <3>0
    <3> QED
      BY <1>1, <2>2, <2>3, <2>5, <3>1, EventsSeen
  <2>7. CASE ~(id > 0)
    <3>0. Len(s) = 1 /\ s[1] = N
      BY <2>1, <2>7
    <3>1. Len(out') = 2 /\ out'[2] = N
      BY <2>5, <3>0
    <3> QED
      BY <1>1, <2>2, <2>3, <2>5, <3>1, EventsSeen
  <2> QED
    BY <2>6, <2>7
<1>8. view'.current = w
  BY <1>7 DEF View
<1> QED
  BY <1>1, <1>4, <1>7, <1>8 DEF ViewOK

LEMMA PublishMoveView ==
    ASSUME IInv, ViewOK, Observe, PublishMove
    PROVE  ViewOK'
<1> DEFINE w == work.id
           o == work.pos
           l == view.list
           p == view.pinned
           c == view.current
<1>1. /\ pc = "moved" /\ pc' = "trim" /\ id' = w /\ Set(db, w)
      /\ out' = <<Updated(w), Moved(w, o)>> \o SetEvents(id, w)
  BY DEF PublishMove, Set
<1>2. w \in Ids
  BY <1>1 DEF IInv
<1>3. disk'.entries = disk.entries
  BY <1>1, <1>2, SetKeepsRows
<1>4. HistoryList(disk') = <<w>> \o RemoveAt(l, o + 1) /\ PinnedIds(disk') = p
  BY <1>1, <1>3, PinsOfRows DEF ViewOK, View
<1>5. view = View(l, p, c)
  BY <1>1 DEF ViewOK, View
<1>6. w \in Int /\ id \in Int /\ w > 0
  BY <1>2, SomeIds
<1> HIDE DEF w, o, l, p, c
<1> DEFINE U == Updated(w)
           M == Moved(w, o)
           F == Ends(id)
           N == Begins(w)
           T == {U, M, F, N}
           s == SetEvents(id, w)
           m == <<w>> \o RemoveAt(l, o + 1)
<1>8. view' = View(m, p, w)
  <2>1. /\ s \in Seq(T)
        /\ id > 0 => Len(s) = 2 /\ s[1] = F /\ s[2] = N
        /\ ~(id > 0) => Len(s) = 1 /\ s[1] = N
    <3>1. F \in T /\ N \in T
      OBVIOUS
    <3> HIDE DEF T
    <3> QED
      BY <1>6, <3>1, StateEvents
  <2>2. Apply(Apply(view, U), M) = View(m, p, c)
    <3>1. Apply(view, U) = View(l, p, c)
      BY <1>5, UpdateApplied, Zenon
    <3>2. Apply(View(l, p, c), M) = View(m, p, c)
      BY MoveApplied
    <3> QED
      BY <3>1, <3>2
  <2>3. /\ Apply(Apply(View(m, p, c), F), N) = View(m, p, w)
        /\ Apply(View(m, p, c), N) = View(m, p, w)
    BY NowCurrent
  <2> HIDE DEF U, M, F, N, s, m
  <2>4. <<U, M>> \in Seq(T) /\ Len(<<U, M>>) = 2 /\ <<U, M>>[1] = U /\ <<U, M>>[2] = M
    OBVIOUS
  <2> HIDE DEF T
  <2>5. /\ Len(out') = 2 + Len(s)
        /\ out'[1] = U /\ out'[2] = M
        /\ Len(s) >= 1 => out'[3] = s[1]
        /\ Len(s) >= 2 => out'[4] = s[2]
    <3>1. out' = <<U, M>> \o s
      BY <1>1 DEF U, M, s
    <3> QED
      BY <2>1, <2>4, <3>1, Joined
  <2>6. CASE id > 0
    <3>0. Len(s) = 2 /\ s[1] = F /\ s[2] = N
      BY <2>1, <2>6
    <3>1. Len(out') = 4 /\ out'[3] = F /\ out'[4] = N
      BY <2>5, <3>0
    <3> QED
      BY <1>1, <2>2, <2>3, <2>5, <3>1, EventsSeen
  <2>7. CASE ~(id > 0)
    <3>0. Len(s) = 1 /\ s[1] = N
      BY <2>1, <2>7
    <3>1. Len(out') = 3 /\ out'[3] = N
      BY <2>5, <3>0
    <3> QED
      BY <1>1, <2>2, <2>3, <2>5, <3>1, EventsSeen
  <2> QED
    BY <2>6, <2>7
<1>9. view'.current = w
  BY <1>8 DEF View
<1> QED
  BY <1>1, <1>4, <1>8, <1>9 DEF ViewOK, m

(* Rows that go, announced by their ids. *)
LEMMA DeleteView ==
    ASSUME IInv, ViewOK, Observe, pc \in {"idle", "trim"}, pc' = "idle",
           NEW S \in SUBSET Live(disk), disk' = DeleteRows(disk, S),
           S = {} => out' \in {<<>>, <<Deleted(S)>>}, S # {} => out' = <<Deleted(S)>>,
           id' \in {id, Clear}
    PROVE  ViewOK'
<1> DEFINE l == HistoryList(disk)
           p == PinnedIds(disk)
           c == view.current
<1>1. view = View(l, p, c)
  BY DEF ViewOK
<1>2. Sound(disk)
  BY DEF IInv
<1>3. /\ Sound(disk')
      /\ Live(disk') = Live(disk) \ S
      /\ \A j \in Live(disk) \ S : disk'.entries[j] = disk.entries[j]
  BY <1>2, DeletedRows
<1>4. Ordered(disk) /\ Ordered(disk')
  BY <1>2, <1>3, SoundIsOrdered
<1>5. HistoryList(disk') = Without(l, S)
  BY <1>3, <1>4, ListWithout DEF Sort
<1>6. PinnedIds(disk') = p \ S
  BY <1>3 DEF PinnedIds, Unpinned
<1>7. Clear \notin S /\ NoId \notin Live(disk) /\ Clear \notin Live(disk')
  BY <1>3, SomeIds DEF NoId, Transient
<1> HIDE DEF p, c
<1>8. CASE out' = <<Deleted(S)>>
  <2>1. view' = Apply(view, Deleted(S))
    BY <1>8, EventsSeen
  <2> HIDE DEF l
  <2>2. view' = View(Without(l, S), p \ S, NotIn(c, S))
    BY <1>1, <1>7, <2>1, DeleteApplied
  <2>3. /\ view' = View(Without(l, S), p \ S, view'.current)
        /\ c \notin S => view'.current = c
    BY <2>2 DEF View, NotIn
  <2>4. IdExists(disk, id) => c = id
    BY DEF ViewOK, c
  <2>5. IdExists(disk', id') => view'.current = id'
    <3> SUFFICES ASSUME id' \in Live(disk') PROVE view'.current = id'
      BY DEF IdExists
    <3>1. id' \in Live(disk) \ S /\ id' # Clear
      BY <1>3, <1>7
    <3>2. id' = id /\ id \notin S /\ id \in Live(disk)
      BY <3>1
    <3>3. c = id
      BY <2>4, <3>2 DEF IdExists
    <3> QED
      BY <2>3, <3>2, <3>3
  <2> QED
    BY <1>5, <1>6, <2>2, <2>3, <2>5 DEF ViewOK
<1>9. CASE out' = <<>> /\ S = {}
  <2>1. view' = view
    BY <1>9, NoEvents
  <2>2. HistoryList(disk') = l
    BY <1>3, <1>4, <1>9, ListKept DEF Sort
  <2>3. PinnedIds(disk') = p /\ Live(disk') = Live(disk)
    BY <1>3, <1>6, <1>9
  <2>4. IdExists(disk', id') => view'.current = id'
    BY <1>7, <2>1, <2>3 DEF ViewOK, IdExists
  <2> QED
    BY <1>1, <2>1, <2>2, <2>3, <2>4 DEF ViewOK, c
<1> QED
  BY <1>8, <1>9

LEMMA SetView ==
    ASSUME IInv, ViewOK, Observe, pc = "idle", pc' = "idle", NEW i \in Ids \cup {Clear},
           Set(db, i), out' = SetEvents(id, i) \o <<Updated(i)>>
    PROVE  ViewOK'
<1> DEFINE l == HistoryList(disk)
           p == PinnedIds(disk)
           c == view.current
<1>1. disk'.entries = disk.entries /\ id' = i
  BY SetKeepsRows DEF Set
<1>2. HistoryList(disk') = l /\ PinnedIds(disk') = p /\ Live(disk') = Live(disk)
  BY <1>1, PinsOfRows
<1>3. view = View(l, p, c)
  BY DEF ViewOK
<1>4. id \in Int /\ i \in Int /\ Clear \notin Live(disk)
  BY SomeIds DEF Clear
<1> HIDE DEF l, p, c
<1> DEFINE U == Updated(i)
           F == Ends(id)
           N == Begins(i)
           T == {U, F, N}
           s == SetEvents(id, i)
<1>5. /\ s \in Seq(T)
      /\ id > 0 /\ i > 0 => Len(s) = 2 /\ s[1] = F /\ s[2] = N
      /\ id > 0 /\ ~(i > 0) => Len(s) = 1 /\ s[1] = F
      /\ ~(id > 0) /\ i > 0 => Len(s) = 1 /\ s[1] = N
      /\ ~(id > 0) /\ ~(i > 0) => Len(s) = 0
  BY <1>4, StateEvents
<1>6. \A k : Apply(View(l, p, k), U) = View(l, p, k)
  BY UpdateApplied
<1>7. /\ Apply(Apply(View(l, p, c), F), N) = View(l, p, i)
      /\ Apply(View(l, p, c), N) = View(l, p, i)
  BY NowCurrent
<1> DEFINE k == NotIn(c, {id})
<1>8. Apply(View(l, p, c), F) = View(l, p, k)
  BY EndApplied
<1>9. <<U>> \in Seq(T) /\ Len(<<U>>) = 1 /\ <<U>>[1] = U
  <2> HIDE DEF U, F, N
  <2> QED
    OBVIOUS
<1>10. out' = s \o <<U>>
  OBVIOUS
<1> HIDE DEF U, F, N, T, s, k
<1>11. /\ Len(out') = Len(s) + 1
       /\ \A n \in 1 .. Len(s) : out'[n] = s[n]
       /\ out'[Len(s) + 1] = U
  BY <1>5, <1>9, <1>10, Joined
<1>12. CASE i > 0
  <2>1. view' = View(l, p, i)
    <3>1. CASE id > 0
      <4>1. Len(out') = 3 /\ out'[1] = F /\ out'[2] = N /\ out'[3] = U
        BY <1>5, <1>11, <1>12, <3>1
      <4> QED
        BY <1>3, <1>6, <1>7, <4>1, EventsSeen
    <3>2. CASE ~(id > 0)
      <4>1. Len(out') = 2 /\ out'[1] = N /\ out'[2] = U
        BY <1>5, <1>11, <1>12, <3>2
      <4> QED
        BY <1>3, <1>6, <1>7, <4>1, EventsSeen
    <3> QED
      BY <3>1, <3>2
  <2>2. view'.current = i
    BY <2>1 DEF View
  <2> QED
    BY <1>1, <1>2, <2>1, <2>2 DEF ViewOK
<1>13. CASE ~(i > 0)
  <2>1. view' = View(l, p, k) \/ view' = View(l, p, c)
    <3>1. CASE id > 0
      <4>1. Len(out') = 2 /\ out'[1] = F /\ out'[2] = U
        BY <1>5, <1>11, <1>13, <3>1
      <4> QED
        BY <1>3, <1>6, <1>8, <4>1, EventsSeen
    <3>2. CASE ~(id > 0)
      <4>1. Len(out') = 1 /\ out'[1] = U
        BY <1>5, <1>11, <1>13, <3>2
      <4> QED
        BY <1>3, <1>6, <4>1, EventsSeen
    <3> QED
      BY <3>1, <3>2
  <2>2. view' = View(l, p, view'.current)
    BY <2>1 DEF View
  <2>3. i = Clear
    BY <1>13, SomeIds
  <2> QED
    BY <1>1, <1>2, <1>4, <2>2, <2>3 DEF ViewOK, IdExists
<1> QED
  BY <1>12, <1>13

LEMMA TrimView ==
    ASSUME IInv, ViewOK, Observe, TrimHistory
    PROVE  ViewOK'
<1> DEFINE gone == Excess(db, config.max_entries)
<1>1. /\ pc = "trim" /\ pc' = "idle" /\ id' = id
      /\ out' = IF gone = {} THEN <<>> ELSE <<Deleted(gone)>>
      /\ disk' = DeleteRows(db, gone)
  BY DEF TrimHistory, Trim
<1>2. db = disk
  BY <1>1 DEF IInv, TypeOK
<1>3. gone \subseteq Live(disk)
  BY <1>2 DEF Excess, Unpinned
<1> HIDE DEF gone
<1>4. CASE gone = {}
  <2>1. out' = <<>>
    BY <1>1, <1>4
  <2> QED
    BY <1>1, <1>2, <1>3, <1>4, <2>1, DeleteView
<1>5. CASE gone # {}
  <2>1. out' = <<Deleted(gone)>>
    BY <1>1, <1>5
  <2> QED
    BY <1>1, <1>2, <1>3, <1>5, <2>1, DeleteView
<1> QED
  BY <1>4, <1>5

LEMMA HandleView ==
    ASSUME IInv, ViewOK, Observe, Announced, Handle
    PROVE  ViewOK'
<1>1. ASSUME NEW m \in Mimes, ReceiveMime(m) PROVE ViewOK'
  BY <1>1, QuietKeepsView DEF ReceiveMime
<1>2. CASE ReceiveFails
  BY <1>2, QuietKeepsView DEF ReceiveFails, Abort
<1>3. CASE IgnoreDuplicate
  BY <1>3, QuietKeepsView DEF IgnoreDuplicate, Received
<1>4. CASE Insert
  BY <1>4, InsertView
<1>5. CASE InsertFails
  BY <1>5, QuietKeepsView DEF InsertFails, Abort, Received
<1>6. CASE MoveDuplicate
  BY <1>6, MoveView
<1>7. CASE MoveFails
  BY <1>7, QuietKeepsView DEF MoveFails, Received
<1>8. CASE Publish
  BY <1>8, PublishView
<1>9. CASE PublishMove
  BY <1>9, PublishMoveView
<1>10. CASE TrimHistory
  BY <1>10, TrimView
<1>11. ~CommitFails /\ ~PublishMoveFails /\ ~TrimFails
  BY DEF Announced, CommitFails, PublishMoveFails, TrimFails
<1> QED
  BY <1>1, <1>2, <1>3, <1>4, <1>5, <1>6, <1>7, <1>8, <1>9, <1>10, <1>11 DEF Handle

LEMMA SelectView ==
    ASSUME IInv, ViewOK, Observe, Select
    PROVE  ViewOK'
<1>1. ASSUME NEW c \in Contents, CopyTransient(c) PROVE ViewOK'
  BY <1>1, QuietKeepsView DEF CopyTransient
<1>2. CASE CopyTransientFails
  BY <1>2, QuietKeepsView DEF CopyTransientFails
<1>3. ASSUME NEW c \in Contents, Copy(c) PROVE ViewOK'
  BY <1>3, QuietKeepsView DEF Copy
<1>4. CASE CopyBeginFails
  BY <1>4, QuietKeepsView DEF CopyBeginFails
<1>5. CASE CopyNewEntryFails
  BY <1>5, QuietKeepsView DEF CopyNewEntryFails, Abort
<1> QED
  BY <1>1, <1>2, <1>3, <1>4, <1>5 DEF Select

LEMMA PinView ==
    ASSUME IInv, ViewOK, Observe, NEW i \in Ids, NEW on \in BOOLEAN, PinEntry(i, on)
    PROVE  ViewOK'
<1> DEFINE l == HistoryList(disk)
           p == PinnedIds(disk)
           c == view.current
           q == IF on THEN p \cup {i} ELSE p \ {i}
<1>1. /\ pc = "idle" /\ pc' = "idle" /\ id' = id /\ i \in Live(db)
      /\ disk' = SetPinned(db, i, on) /\ out' = <<PinUpdated(i, on)>>
  BY DEF PinEntry, IdExists
<1>2. db = disk /\ Sound(disk)
  BY <1>1 DEF IInv, TypeOK
<1>3. /\ Sound(disk')
      /\ Live(disk') = Live(disk)
      /\ \A j \in Live(disk) :
             /\ disk'.entries[j].sort = disk.entries[j].sort
             /\ disk'.entries[j].pinned = IF j = i THEN on ELSE disk.entries[j].pinned
  BY <1>1, <1>2, SetPinnedSound
<1>4. Ordered(disk) /\ Ordered(disk')
  BY <1>2, <1>3, SoundIsOrdered
<1>5. HistoryList(disk') = l
  BY <1>3, <1>4, ListKept DEF Sort
<1>6. PinnedIds(disk') = q
  <2>1. \A j : j \in PinnedIds(disk') <=> j \in q
    <3> SUFFICES ASSUME NEW j PROVE j \in PinnedIds(disk') <=> j \in q
      OBVIOUS
    <3>1. i \in Live(disk)
      BY <1>1, <1>2
    <3>2. CASE j = i
      BY <1>3, <3>1, <3>2 DEF PinnedIds, Unpinned
    <3>3. CASE j # i
      BY <1>3, <3>1, <3>3 DEF PinnedIds, Unpinned
    <3> QED
      BY <3>2, <3>3
  <2> HIDE DEF q
  <2> QED
    BY <2>1
<1>7. view = View(l, p, c)
  BY <1>1 DEF ViewOK
<1>8. IdExists(disk', id') => c = id'
  BY <1>1, <1>3 DEF ViewOK, IdExists
<1> HIDE DEF l, p, c
<1>9. Len(out') = 1 /\ out'[1] = PinUpdated(i, on)
  BY <1>1
<1>10. view' = Apply(view, PinUpdated(i, on))
  BY <1>1, <1>9, EventsSeen
<1>11. Apply(View(l, p, c), PinUpdated(i, on)) = View(l, q, c)
  <2> DEFINE e == PinUpdated(i, on)
             v == View(l, p, c)
  <2>1. e.event = "entry_update" /\ e.id = i /\ "pinned" \in e.fields /\ e.pinned = on
    BY DEF PinUpdated
  <2>2. v.pinned = p /\ [v EXCEPT !.pinned = q] = View(l, q, c)
    BY DEF View
  <2> HIDE DEF e, v
  <2>3. Apply(v, e) = EntryUpdate(v, e)
    BY <2>1, ApplyKind
  <2>4. EntryUpdate(v, e) = [v EXCEPT !.pinned = q]
    BY <2>1, <2>2 DEF EntryUpdate
  <2> QED
    BY <2>2, <2>3, <2>4 DEF v, e
<1> HIDE DEF q
<1>12. view' = View(l, q, c)
  BY <1>7, <1>10, <1>11
<1>13. view'.current = c
  BY <1>12 DEF View
<1> QED
  BY <1>1, <1>5, <1>6, <1>8, <1>12, <1>13 DEF ViewOK

LEMMA ClearView ==
    ASSUME IInv, ViewOK, Observe, RequestClear
    PROVE  ViewOK'
<1>1. /\ pc = "idle" /\ pc' = "idle" /\ id' = Clear /\ out' = <<Deleted({Clear})>>
      /\ disk' = DeleteRows(db, Live(db))
  BY DEF RequestClear, ClearAll
<1>2. db = disk /\ Sound(disk)
  BY <1>1 DEF IInv, TypeOK
<1>3. Sound(disk') /\ Live(disk') = {}
  BY <1>1, <1>2, DeletedRows
<1>4. HistoryList(disk') = <<>>
  <2>1. Cardinality(Live(disk')) = 0
    BY <1>3, FS_EmptySet
  <2> QED
    BY <2>1 DEF HistoryList
<1>5. PinnedIds(disk') = {}
  BY <1>3 DEF PinnedIds
<1>6. view' = View(<<>>, {}, NoId)
  <2>1. Len(out') = 1 /\ out'[1] = Deleted({Clear})
    BY <1>1
  <2>2. view' = Apply(view, Deleted({Clear}))
    BY <1>1, <2>1, EventsSeen
  <2>3. view = View(HistoryList(disk), PinnedIds(disk), view.current)
    BY <1>1 DEF ViewOK
  <2> QED
    BY <2>2, <2>3, ClearApplied
<1>7. view'.current = NoId
  BY <1>6 DEF View
<1> QED
  BY <1>1, <1>3, <1>4, <1>5, <1>6, <1>7 DEF ViewOK, IdExists

LEMMA RequestView ==
    ASSUME IInv, ViewOK, Observe, Announced, Request
    PROVE  ViewOK'
<1>1. ASSUME NEW i \in Ids, SetClipboard(i) PROVE ViewOK'
  <2>1. out' = SetEvents(id, i) \o <<Updated(i)>>
    BY <1>1 DEF SetClipboard, Announced
  <2>2. pc = "idle" /\ pc' = "idle" /\ Set(db, i)
    BY <1>1 DEF SetClipboard
  <2> QED
    BY <2>1, <2>2, SetView
<1>2. CASE ClearClipboard
  <2>1. out' = SetEvents(id, Clear) \o <<Updated(Clear)>>
    BY <1>2 DEF ClearClipboard, Announced
  <2> QED
    BY <1>2, <2>1, SetView DEF ClearClipboard
<1>3. ASSUME NEW i \in Ids, RequestDelete(i) PROVE ViewOK'
  <2>1. /\ pc = "idle" /\ pc' = "idle" /\ i \in Live(db) /\ disk' = DeleteRows(db, {i})
        /\ id' \in {id, Clear} /\ out' = <<Deleted({i})>>
    BY <1>3 DEF RequestDelete, IdExists, DeleteEntry
  <2>2. db = disk
    BY <2>1 DEF IInv, TypeOK
  <2>3. {i} \in SUBSET Live(disk) /\ {i} # {}
    BY <2>1, <2>2
  <2> QED
    BY <2>1, <2>2, <2>3, DeleteView
<1>4. CASE RequestClear
  BY <1>4, ClearView
<1>5. ASSUME NEW i \in Ids, NEW on \in BOOLEAN, PinEntry(i, on) PROVE ViewOK'
  BY <1>5, PinView
<1> QED
  BY <1>1, <1>2, <1>3, <1>4, <1>5 DEF Request

LEMMA StartView ==
    ASSUME IInv, Observe, NEW c \in Configs, Start(c)
    PROVE  ViewOK'
<1>1. pc = "down" /\ pc' = "idle" /\ db' = disk'
  BY DEF Start
<1>2. view' = [list    |-> HistoryList(disk'),
               pinned  |-> PinnedIds(disk'),
               current |-> IF id' > 0 THEN id' ELSE NoId]
  BY <1>1 DEF Observe, Snapshot
<1>3. view' = View(HistoryList(disk'), PinnedIds(disk'), view'.current)
  BY <1>2 DEF View
<1>4. IdExists(disk', id') => id' > 0
  <2>1. IInv'
    BY ProcessStep
  <2>2. Live(disk') \subseteq Ids
    BY <2>1 DEF IInv, TypeOK, IsDatabase, IsTable, Live
  <2> QED
    BY <2>2, BoundsAssumption DEF IdExists, Ids
<1>5. id' > 0 => view'.current = id'
  BY <1>2
<1> QED
  BY <1>1, <1>3, <1>4, <1>5 DEF ViewOK

LEMMA ViewStep ==
    ASSUME IInv, ViewOK, Announced, [SubscriberNext]_allVars
    PROVE  ViewOK'
<1>1. CASE Handle /\ Observe
  BY <1>1, HandleView
<1>2. CASE Select /\ Observe
  BY <1>2, SelectView
<1>3. CASE Request /\ Observe
  BY <1>3, RequestView
<1>4. CASE Stop /\ Observe
  BY <1>4 DEF Stop, ViewOK
<1>5. ASSUME NEW c \in Configs, Start(c), Observe PROVE ViewOK'
  BY <1>5, StartView
<1>6. CASE UNCHANGED allVars
  <2>1. pc' = pc /\ disk' = disk /\ view' = view /\ work' = work /\ id' = id
    BY <1>6 DEF allVars
  <2> QED
    BY <2>1 DEF ViewOK
<1> QED
  BY <1>1, <1>2, <1>3, <1>4, <1>5, <1>6 DEF SubscriberNext, Next

(* A client that keeps its list by the events alone has the history, its       *)
(* pins and its current entry, whenever the daemon is back in its loop, for    *)
(* every length of the history and every limit on it, through crashes and      *)
(* restarts.  Three failures the code ignores break it: a commit that fails,   *)
(* an update time that is not written, and a trim that fails when some of what *)
(* it was to remove is announced.  (wsignal_selection, trim_callback,          *)
(* request_callback, set)                                                      *)
THEOREM ViewIsAlwaysHistory ==
    ASSUME {"commit", "update", "trim"} \cap Faults = {}
    PROVE  SubscriberSpec => []ViewIsHistory
<1>1. SubscriberInit => IInv /\ ViewOK
  BY InitEstablishes DEF SubscriberInit, Init, ViewOK
<1>2. IInv /\ ViewOK /\ [SubscriberNext]_allVars => IInv' /\ ViewOK'
  <2>1. [SubscriberNext]_allVars => [Next]_vars
    BY DEF SubscriberNext, allVars, vars
  <2> QED
    BY <2>1, NextPreserves, ViewStep DEF Announced
<1>3. ViewOK => ViewIsHistory
  BY DEF ViewOK, View, ViewIsHistory
<1> QED
  BY <1>1, <1>2, <1>3, PTL DEF SubscriberSpec

(* What is announced of entries that are there is all of it. *)
LEMMA EmittedIsUsedUp ==
    ASSUME NEW T, \A e \in T : e.event = "entry_add" => e.id <= disk'.seq, out' \in Seq(T)
    PROVE  AnnouncedIsUsedUp'
<1> SUFFICES ASSUME NEW k \in DOMAIN out', out'[k].event = "entry_add"
             PROVE  out'[k].id <= disk'.seq
  BY DEF AnnouncedIsUsedUp, Emitted
<1>1. out'[k] \in T
  OBVIOUS
<1> QED
  BY <1>1

LEMMA UsedUpStep ==
    ASSUME IInv, AnnouncedIsCopied, AnnouncedIsUsedUp, "commit" \notin Faults, [Next]_vars
    PROVE  AnnouncedIsUsedUp'
<1>1. TypeOK
  BY DEF IInv
<1>2. ASSUME out' = <<>> PROVE AnnouncedIsUsedUp'
  <2>1. out' \in Seq({})
    BY <1>2
  <2> QED
    BY <2>1, EmittedIsUsedUp
<1>3. ASSUME NEW e, e.event # "entry_add", out' = <<e>> PROVE AnnouncedIsUsedUp'
  <2> DEFINE T == {e}
  <2>1. out' \in Seq(T)
    BY <1>3
  <2>2. \A f \in T : f.event = "entry_add" => f.id <= disk'.seq
    BY <1>3
  <2> HIDE DEF T
  <2> QED
    BY <2>1, <2>2, EmittedIsUsedUp
<1>4. ASSUME NEW s, NEW new \in Int,
             out' \in {s \o SetEvents(id, new), SetEvents(id, new) \o s, SetEvents(id, new)},
             NEW T, s \in Seq(T), \A e \in T : e.event = "entry_add" => e.id <= disk'.seq
      PROVE  AnnouncedIsUsedUp'
  <2> DEFINE U == T \cup {Ends(id), Begins(new)}
  <2>1. \A e \in U : e.event = "entry_add" => e.id <= disk'.seq
    BY <1>4 DEF Ends, Begins, StateOf
  <2>2. Ends(id) \in U /\ Begins(new) \in U /\ id \in Int
    BY <1>1 DEF TypeOK, Ids, Clear, Transient
  <2> HIDE DEF U
  <2>3. SetEvents(id, new) \in Seq(U)
    BY <2>2, StateEvents
  <2>4. s \in Seq(U)
    BY <1>4 DEF U
  <2>5. out' \in Seq(U)
    <3> DEFINE t == SetEvents(id, new)
    <3>1. t \in Seq(U)
      BY <2>3
    <3>2. out' \in {s \o t, t \o s, t}
      BY <1>4
    <3> HIDE DEF t
    <3>3. s \o t \in Seq(U) /\ t \o s \in Seq(U)
      BY <2>4, <3>1, ConcatProperties
    <3> QED
      BY <3>1, <3>2, <3>3
  <2> QED
    BY <2>1, <2>5, EmittedIsUsedUp
<1>5. CASE Publish
  <2>1. /\ work.id \in Live(disk) /\ db = disk /\ Sound(disk) /\ work.id \in Ids
        /\ Set(db, work.id)
    BY <1>5, Settled DEF Publish, AnnouncedIsCopied, IInv
  <2>2. disk'.seq = disk.seq
    BY <1>1, <2>1, SetSound DEF TypeOK
  <2>3. work.id <= disk'.seq
    BY <2>1, <2>2 DEF Sound, IdsIssued
  <2>4. out' = <<Added(work.id)>> \o SetEvents(id, work.id)
    BY <1>5 DEF Publish
  <2>5. \A e \in {Added(work.id)} : e.id <= disk'.seq
    BY <2>3 DEF Added
  <2>6. work.id \in Int /\ <<Added(work.id)>> \in Seq({Added(work.id)})
    BY <2>1 DEF Ids
  <2> QED
    BY <1>4, <2>4, <2>5, <2>6
<1>6. CASE PublishMove
  <2> DEFINE T == {Updated(work.id), Moved(work.id, work.pos)}
             s == <<Updated(work.id), Moved(work.id, work.pos)>>
  <2>1. work.id \in Int /\ out' = s \o SetEvents(id, work.id)
    BY <1>6 DEF PublishMove, IInv, Ids
  <2>2. s \in Seq(T)
    OBVIOUS
  <2>3. \A e \in T : e.event # "entry_add"
    BY DEF Updated, Moved
  <2> HIDE DEF T, s
  <2> QED
    BY <1>4, <2>1, <2>2, <2>3
<1>7. CASE TrimHistory \/ TrimFails
  <2>1. out' = <<>> \/ \E S : out' = <<Deleted(S)>>
    BY <1>7 DEF TrimHistory, TrimFails
  <2>2. \A S : Deleted(S).event # "entry_add"
    BY DEF Deleted
  <2> QED
    BY <1>2, <1>3, <2>1, <2>2
<1>8. CASE Handle /\ ~Publish /\ ~PublishMove /\ ~TrimHistory /\ ~TrimFails
  <2>1. out' = <<>>
    BY <1>8 DEF Handle, ReceiveMime, ReceiveFails, IgnoreDuplicate, Insert, InsertFails, CommitFails,
                MoveDuplicate, MoveFails, PublishMoveFails, Abort
  <2> QED
    BY <1>2, <2>1
<1>9. CASE Select \/ Stop \/ \E c \in Configs : Start(c)
  <2>1. out' = <<>>
    BY <1>9 DEF Select, CopyTransient, CopyTransientFails, Copy, CopyBeginFails, CopyNewEntryFails,
                Abort, Stop, Start
  <2> QED
    BY <1>2, <2>1
<1>10. CASE Request
  <2>1. ASSUME NEW i \in Ids \cup {Clear},
               out' \in {SetEvents(id, i) \o <<Updated(i)>>, SetEvents(id, i)}
        PROVE  AnnouncedIsUsedUp'
    <3> DEFINE T == {Updated(i)}
               s == <<Updated(i)>>
    <3>1. i \in Int /\ s \in Seq(T)
      BY DEF Ids, Clear
    <3>2. \A e \in T : e.event # "entry_add"
      BY DEF Updated
    <3>3. out' \in {s \o SetEvents(id, i), SetEvents(id, i) \o s, SetEvents(id, i)}
      BY <2>1
    <3> HIDE DEF T, s
    <3> QED
      BY <1>4, <3>1, <3>2, <3>3
  <2>2. CASE ClearClipboard \/ \E i \in Ids : SetClipboard(i)
    BY <2>1, <2>2 DEF ClearClipboard, SetClipboard
  <2>3. CASE RequestClear \/ \E i \in Ids : RequestDelete(i)
    <3>1. \E S : out' = <<Deleted(S)>>
      BY <2>3 DEF RequestClear, RequestDelete
    <3>2. \A S : Deleted(S).event # "entry_add"
      BY DEF Deleted
    <3> QED
      BY <1>3, <3>1, <3>2
  <2>4. CASE \E i \in Ids, pin \in BOOLEAN : PinEntry(i, pin)
    BY <1>3, <2>4 DEF PinEntry, PinUpdated
  <2> QED
    BY <1>10, <2>2, <2>3, <2>4 DEF Request
<1>11. CASE UNCHANGED vars
  BY <1>11 DEF vars, AnnouncedIsUsedUp, Emitted
<1> QED
  BY <1>5, <1>6, <1>7, <1>8, <1>9, <1>10, <1>11 DEF Next

(* When COMMIT succeeds, an id that was announced is used up: with             *)
(* IdsLastForever, no later entry gets it.  (AUTOINCREMENT, database_new_entry) *)
THEOREM AnnouncedIsAlwaysUsedUp ==
    ASSUME "commit" \notin Faults
    PROVE  Spec => []AnnouncedIsUsedUp
<1>1. Init => AnnouncedIsCopied /\ AnnouncedIsUsedUp
  BY DEF Init, AnnouncedIsCopied, AnnouncedIsUsedUp, Emitted
<1>2. IInv /\ AnnouncedIsCopied /\ AnnouncedIsUsedUp /\ [Next]_vars
          => AnnouncedIsCopied' /\ AnnouncedIsUsedUp'
  BY AnnouncedStep, UsedUpStep
<1> QED
  BY <1>1, <1>2, Inductive, PTL DEF Spec

=============================================================================
