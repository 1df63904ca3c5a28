-------------------------- MODULE BookEngineProofs --------------------------
(***************************************************************************)
(* Proofs about BookEngine for every set of tickers, callers and order     *)
(* ids: the index by_order_id stays sound whatever the feed sends, and     *)
(* complete as long as the feed keeps resting ids unique; no operation     *)
(* reorders what it does not carry; and the filter is honoured.            *)
(***************************************************************************)
EXTENDS BookEngine, SequenceTheorems, TLAPS

-----------------------------------------------------------------------------
(***************************************************************************)
(* What the operations on vectors do to the elements (Vec::insert,         *)
(* Vec::remove, Vec::push and Vec::drain).                                 *)
(***************************************************************************)

\* Vec::insert at position i: longer by one, later elements move up by one.
LEMMA InsertAtElements ==
    ASSUME NEW S, NEW s \in Seq(S), NEW e \in S, NEW i \in 1 .. Len(s)
    PROVE  /\ InsertAt(s, i, e) \in Seq(S)
           /\ Len(InsertAt(s, i, e)) = Len(s) + 1
           /\ \A j \in 1 .. Len(s) + 1 :
                 InsertAt(s, i, e)[j] = IF j < i THEN s[j]
                                        ELSE IF j = i THEN e ELSE s[j - 1]
<1> DEFINE l == SubSeq(s, 1, i - 1)
           r == SubSeq(s, i, Len(s))
<1>1. /\ l \in Seq(S) /\ Len(l) = i - 1
      /\ \A j \in 1 .. i - 1 : l[j] = s[j]
  BY SubSeqProperties
<1>2. /\ r \in Seq(S) /\ Len(r) = Len(s) - i + 1
      /\ \A j \in 1 .. Len(s) - i + 1 : r[j] = s[i + j - 1]
  BY SubSeqProperties
<1> DEFINE m == l \o <<e>>
<1>3. /\ m \in Seq(S) /\ Len(m) = i
      /\ \A j \in 1 .. i : m[j] = IF j < i THEN s[j] ELSE e
  <2> HIDE DEF l
  <2> QED BY <1>1
<1>4. InsertAt(s, i, e) = m \o r
  BY DEF InsertAt
<1> HIDE DEF m, r
<1>5. /\ m \o r \in Seq(S) /\ Len(m \o r) = Len(m) + Len(r)
      /\ \A j \in 1 .. Len(m) + Len(r) :
            (m \o r)[j] = IF j <= Len(m) THEN m[j] ELSE r[j - Len(m)]
  BY <1>2, <1>3, ConcatProperties
<1>6. ASSUME NEW j \in 1 .. Len(s) + 1
      PROVE  (m \o r)[j] = IF j < i THEN s[j] ELSE IF j = i THEN e ELSE s[j - 1]
  <2>1. CASE j <= i
    BY <2>1, <1>2, <1>3, <1>5
  <2>2. CASE j > i
    <3>1. j - i \in 1 .. Len(s) - i + 1 /\ j \in 1 .. Len(m) + Len(r)
      BY <2>2, <1>2, <1>3
    <3>2. r[j - i] = s[i + (j - i) - 1]
      BY <3>1, <1>2
    <3> QED BY <2>2, <3>1, <3>2, <1>3, <1>5
  <2>3. j <= i \/ j > i
    BY LenProperties
  <2> QED BY <2>1, <2>2, <2>3
<1> QED BY <1>2, <1>3, <1>4, <1>5, <1>6

\* Vec::remove at position i: shorter by one, later elements move down by one.
LEMMA RemoveAtElements ==
    ASSUME NEW S, NEW s \in Seq(S), NEW i \in 1 .. Len(s)
    PROVE  /\ RemoveAt(s, i) \in Seq(S)
           /\ Len(RemoveAt(s, i)) = Len(s) - 1
           /\ \A j \in 1 .. Len(s) - 1 :
                 RemoveAt(s, i)[j] = IF j < i THEN s[j] ELSE s[j + 1]
<1> DEFINE l == SubSeq(s, 1, i - 1)
           r == SubSeq(s, i + 1, Len(s))
<1>1. /\ l \in Seq(S) /\ Len(l) = i - 1
      /\ \A j \in 1 .. i - 1 : l[j] = s[j]
  BY SubSeqProperties
<1>2. /\ r \in Seq(S) /\ Len(r) = Len(s) - i
      /\ \A j \in 1 .. Len(s) - i : r[j] = s[i + j]
  BY SubSeqProperties
<1>3. RemoveAt(s, i) = l \o r
  BY DEF RemoveAt
<1> HIDE DEF l, r
<1>4. /\ l \o r \in Seq(S) /\ Len(l \o r) = Len(l) + Len(r)
      /\ \A j \in 1 .. Len(l) + Len(r) :
            (l \o r)[j] = IF j <= Len(l) THEN l[j] ELSE r[j - Len(l)]
  BY <1>1, <1>2, ConcatProperties
<1>5. ASSUME NEW j \in 1 .. Len(s) - 1
      PROVE  (l \o r)[j] = IF j < i THEN s[j] ELSE s[j + 1]
  <2>1. CASE j < i
    BY <2>1, <1>1, <1>2, <1>4
  <2>2. CASE j >= i
    <3>1. j - (i - 1) \in 1 .. Len(s) - i /\ j \in 1 .. Len(l) + Len(r)
      BY <2>2, <1>1, <1>2
    <3>2. r[j - (i - 1)] = s[i + (j - (i - 1))]
      BY <3>1, <1>2
    <3> QED BY <2>2, <3>1, <3>2, <1>1, <1>4
  <2>3. j < i \/ j >= i
    BY LenProperties
  <2> QED BY <2>1, <2>2, <2>3
<1> QED BY <1>1, <1>2, <1>3, <1>4, <1>5

\* Vec::drain(..n): what is left starts with the element after the prefix.
LEMMA DrainElements ==
    ASSUME NEW S, NEW s \in Seq(S), NEW n \in 0 .. Len(s)
    PROVE  /\ SubSeq(s, n + 1, Len(s)) \in Seq(S)
           /\ Len(SubSeq(s, n + 1, Len(s))) = Len(s) - n
           /\ \A j \in 1 .. Len(s) - n : SubSeq(s, n + 1, Len(s))[j] = s[n + j]
BY SubSeqProperties

-----------------------------------------------------------------------------
(***************************************************************************)
(* What the two building blocks of the book's operations do to a book      *)
(* whose index is sound: taking an entry out (remove_at) and placing one   *)
(* (add).  The facts about Len and elements come from the lemmas above.    *)
(***************************************************************************)

\* Where add puts an entry: the position asked for, or the end of the side.
PlaceOf(b, side, pos) == IF pos >= Len(b.vec[side]) THEN Len(b.vec[side]) ELSE pos

\* add: the side grows by one at the place; slots at or behind it move by one.
LEMMA AddShape ==
    ASSUME NEW b \in Books, NEW side \in Sides, NEW pos \in Nat, NEW id \in Entries,
           Sound(b)
    PROVE  LET n == add(b, side, pos, id)
               p == PlaceOf(b, side, pos)
               v == b.vec[side]
           IN  /\ n \in Books
               /\ p \in 0 .. Len(v)
               /\ n.initialised = b.initialised
               /\ \A t \in Sides : t # side => n.vec[t] = b.vec[t]
               /\ Len(n.vec[side]) = Len(v) + 1
               /\ \A j \in 1 .. Len(v) + 1 :
                     n.vec[side][j] = IF j < p + 1 THEN v[j]
                                      ELSE IF j = p + 1 THEN id ELSE v[j - 1]
               /\ \A k \in OrderIds :
                     /\ n.by_order_id[k].side = IF k = id THEN side ELSE b.by_order_id[k].side
                     /\ n.by_order_id[k].idx =
                           IF k = id THEN p
                           ELSE IF b.by_order_id[k].side = side /\ b.by_order_id[k].idx >= p
                           THEN b.by_order_id[k].idx + 1
                           ELSE b.by_order_id[k].idx
<1> DEFINE n == add(b, side, pos, id)
           p == PlaceOf(b, side, pos)
           v == b.vec[side]
<1>1. /\ v \in Seq(Entries) /\ Len(v) \in Nat
      /\ b.vec \in [Sides -> Seq(Entries)]
      /\ b.by_order_id \in [OrderIds -> Slots]
      /\ b.initialised \in BOOLEAN
  BY LenProperties DEF Books
<1>2. p \in 0 .. Len(v)
  BY <1>1 DEF PlaceOf
<1>3. CASE pos >= Len(v)
  <2>1. /\ n.vec = [b.vec EXCEPT ![side] = Append(v, id)]
        /\ n.by_order_id = record(b.by_order_id, id, side, Len(v))
        /\ n.initialised = b.initialised
        /\ n = [vec |-> n.vec, by_order_id |-> n.by_order_id, initialised |-> n.initialised]
    BY <1>3, <1>1 DEF add, Books
  <2>2. /\ Append(v, id) \in Seq(Entries) /\ Len(Append(v, id)) = Len(v) + 1
        /\ \A j \in 1 .. Len(v) : Append(v, id)[j] = v[j]
        /\ Append(v, id)[Len(v) + 1] = id
    BY <1>1, AppendProperties
  <2>3. p = Len(v)
    BY <1>3 DEF PlaceOf
  <2>4. ASSUME NEW k \in OrderIds
        PROVE  /\ n.by_order_id[k] \in Slots
               /\ n.by_order_id[k].side = IF k = id THEN side ELSE b.by_order_id[k].side
               /\ n.by_order_id[k].idx =
                     IF k = id THEN p
                     ELSE IF b.by_order_id[k].side = side /\ b.by_order_id[k].idx >= p
                     THEN b.by_order_id[k].idx + 1
                     ELSE b.by_order_id[k].idx
    <3>1. b.by_order_id[k].side = side => b.by_order_id[k].idx < Len(v)
      BY DEF Sound
    <3>2. b.by_order_id[k] \in Slots /\ b.by_order_id[k].idx \in Nat
      BY <1>1 DEF Slots
    <3> QED BY <1>1, <2>1, <2>3, <3>1, <3>2 DEF record, Slots
  <2>5. /\ n.vec[side] = Append(v, id)
        /\ \A t \in Sides : t # side => n.vec[t] = b.vec[t]
        /\ n.vec \in [Sides -> Seq(Entries)]
    BY <1>1, <2>1, <2>2
  <2>6. n.by_order_id \in [OrderIds -> Slots]
    BY <2>1, <2>4 DEF record
  <2>7. n \in Books
    BY <1>1, <2>1, <2>5, <2>6 DEF Books
  <2> HIDE DEF n, v, p
  <2>8. \A j \in 1 .. Len(v) + 1 :
           n.vec[side][j] = IF j < p + 1 THEN v[j] ELSE IF j = p + 1 THEN id ELSE v[j - 1]
    BY <1>1, <2>2, <2>3, <2>5
  <2> QED BY <1>2, <2>1, <2>2, <2>3, <2>4, <2>5, <2>7, <2>8 DEF n, v, p
<1>4. CASE ~(pos >= Len(v))
  <2> DEFINE w == InsertAt(v, pos + 1, id)
             sh == shift_indices_after(b.by_order_id, side, pos, 1)
  <2>1. /\ n.vec = [b.vec EXCEPT ![side] = w]
        /\ n.by_order_id = record(sh, id, side, pos)
        /\ n.initialised = b.initialised
        /\ n = [vec |-> n.vec, by_order_id |-> n.by_order_id, initialised |-> n.initialised]
    BY <1>4, <1>1 DEF add, Books
  <2>2. pos + 1 \in 1 .. Len(v)
    BY <1>1, <1>4
  <2>3. /\ w \in Seq(Entries) /\ Len(w) = Len(v) + 1
        /\ \A j \in 1 .. Len(v) + 1 :
              w[j] = IF j < pos + 1 THEN v[j] ELSE IF j = pos + 1 THEN id ELSE v[j - 1]
    BY <1>1, <2>2, InsertAtElements
  <2>4. p = pos
    BY <1>4 DEF PlaceOf
  <2>5. ASSUME NEW k \in OrderIds
        PROVE  /\ n.by_order_id[k] \in Slots
               /\ n.by_order_id[k].side = IF k = id THEN side ELSE b.by_order_id[k].side
               /\ n.by_order_id[k].idx =
                     IF k = id THEN p
                     ELSE IF b.by_order_id[k].side = side /\ b.by_order_id[k].idx >= p
                     THEN b.by_order_id[k].idx + 1
                     ELSE b.by_order_id[k].idx
    <3>1. b.by_order_id[k] \in Slots /\ b.by_order_id[k].idx \in Nat
      BY <1>1 DEF Slots
    <3>2. sh[k] = IF b.by_order_id[k].side = side /\ b.by_order_id[k].idx >= pos
                  THEN [side |-> side, idx |-> b.by_order_id[k].idx + 1]
                  ELSE b.by_order_id[k]
      BY <3>1 DEF shift_indices_after, Slots
    <3>3. n.by_order_id[k] = IF k = id THEN [side |-> side, idx |-> pos] ELSE sh[k]
      BY <2>1 DEF record
    <3> HIDE DEF sh, n, p
    <3> QED BY <2>4, <3>1, <3>2, <3>3 DEF Slots
  <2>6. /\ n.vec[side] = w
        /\ \A t \in Sides : t # side => n.vec[t] = b.vec[t]
        /\ n.vec \in [Sides -> Seq(Entries)]
    BY <1>1, <2>1, <2>3
  <2>7. n.by_order_id \in [OrderIds -> Slots]
    BY <2>1, <2>5 DEF record
  <2>8. n \in Books
    BY <1>1, <2>1, <2>6, <2>7 DEF Books
  <2> HIDE DEF n, v, p, w, sh
  <2> QED BY <1>2, <2>1, <2>3, <2>4, <2>5, <2>6, <2>8 DEF n, v, p
<1> QED BY <1>3, <1>4

\* remove_at: the side closes up, slots behind the removed entry move by one,
\* and the removed entry's id leaves the index.
LEMMA RemoveShape ==
    ASSUME NEW b \in Books, NEW side \in Sides, NEW pos \in Nat,
           pos < Len(b.vec[side]), Sound(b)
    PROVE  LET n == remove_at(b, side, pos)
               v == b.vec[side]
           IN  /\ n \in Books
               /\ \A t \in Sides : t # side => n.vec[t] = b.vec[t]
               /\ Len(n.vec[side]) = Len(v) - 1
               /\ \A j \in 1 .. Len(v) - 1 :
                     n.vec[side][j] = IF j < pos + 1 THEN v[j] ELSE v[j + 1]
               /\ \A k \in OrderIds :
                     /\ n.by_order_id[k].side =
                           IF k = v[pos + 1] THEN "None" ELSE b.by_order_id[k].side
                     /\ n.by_order_id[k].idx =
                           IF k = v[pos + 1] THEN 0
                           ELSE IF b.by_order_id[k].side = side /\ b.by_order_id[k].idx > pos
                           THEN b.by_order_id[k].idx - 1
                           ELSE b.by_order_id[k].idx
<1> DEFINE n == remove_at(b, side, pos)
           v == b.vec[side]
           w == RemoveAt(v, pos + 1)
           sh == shift_indices_after(b.by_order_id, side, pos, -1)
<1>1. /\ v \in Seq(Entries) /\ Len(v) \in Nat
      /\ b.vec \in [Sides -> Seq(Entries)]
      /\ b.by_order_id \in [OrderIds -> Slots]
      /\ b.initialised \in BOOLEAN
  BY LenProperties DEF Books
<1>2. /\ n.vec = [b.vec EXCEPT ![side] = w]
      /\ n.by_order_id = forget(sh, v[pos + 1])
      /\ n.initialised = b.initialised
      /\ n = [vec |-> n.vec, by_order_id |-> n.by_order_id, initialised |-> n.initialised]
  <2> DEFINE f == forget(sh, v[pos + 1])
  <2>1. n = [b EXCEPT !.vec[side] = w, !.by_order_id = f]
    BY Zenon DEF remove_at
  <2> HIDE DEF n, w, f
  <2>2. /\ n.vec = [b.vec EXCEPT ![side] = w]
        /\ n.by_order_id = f
        /\ n.initialised = b.initialised
        /\ n = [vec |-> n.vec, by_order_id |-> n.by_order_id, initialised |-> n.initialised]
    BY <1>1, <2>1 DEF Books
  <2> QED BY <2>2 DEF f
<1>3. pos + 1 \in 1 .. Len(v)
  BY <1>1
<1>4. /\ w \in Seq(Entries) /\ Len(w) = Len(v) - 1
      /\ \A j \in 1 .. Len(v) - 1 : w[j] = IF j < pos + 1 THEN v[j] ELSE v[j + 1]
  BY <1>1, <1>3, RemoveAtElements
<1>5. ASSUME NEW k \in OrderIds
      PROVE  /\ n.by_order_id[k] \in Slots
             /\ n.by_order_id[k].side =
                   IF k = v[pos + 1] THEN "None" ELSE b.by_order_id[k].side
             /\ n.by_order_id[k].idx =
                   IF k = v[pos + 1] THEN 0
                   ELSE IF b.by_order_id[k].side = side /\ b.by_order_id[k].idx > pos
                   THEN b.by_order_id[k].idx - 1
                   ELSE b.by_order_id[k].idx
  <2>1. b.by_order_id[k] \in Slots /\ b.by_order_id[k].idx \in Nat
    BY <1>1 DEF Slots
  <2>2. sh[k] = IF b.by_order_id[k].side = side /\ b.by_order_id[k].idx >= pos
                   /\ b.by_order_id[k].idx - 1 >= 0
                THEN [side |-> side, idx |-> b.by_order_id[k].idx - 1]
                ELSE b.by_order_id[k]
    BY <2>1 DEF shift_indices_after, Slots
  <2>3. n.by_order_id[k] = IF k = v[pos + 1] THEN NoSlot ELSE sh[k]
    BY <1>2 DEF forget
  <2>4. b.by_order_id[k].side = side /\ b.by_order_id[k].idx = pos => k = v[pos + 1]
    BY <1>1 DEF Sound
  <2> HIDE DEF sh, n, v
  <2> QED BY <2>1, <2>2, <2>3, <2>4 DEF Slots, NoSlot
<1>6. /\ n.vec[side] = w
      /\ \A t \in Sides : t # side => n.vec[t] = b.vec[t]
      /\ n.vec \in [Sides -> Seq(Entries)]
  BY <1>1, <1>2, <1>4
<1>7. n.by_order_id \in [OrderIds -> Slots]
  BY <1>2, <1>5 DEF forget
<1>8. n \in Books
  BY <1>1, <1>2, <1>6, <1>7 DEF Books
<1> HIDE DEF n, v, w, sh
<1> QED BY <1>4, <1>5, <1>6, <1>8 DEF n, v

-----------------------------------------------------------------------------
(***************************************************************************)
(* The index stays sound and complete.                                     *)
(***************************************************************************)

\* add keeps the index sound, and complete: it never loses another id.
LEMMA AddIndex ==
    ASSUME NEW b \in Books, NEW side \in Sides, NEW pos \in Nat, NEW id \in Entries,
           Sound(b)
    PROVE  LET n == add(b, side, pos, id)
           IN  /\ n \in Books
               /\ Sound(n)
               /\ Complete(b) => Complete(n)
<1> DEFINE n == add(b, side, pos, id)
           p == PlaceOf(b, side, pos)
           v == b.vec[side]
<1>1. /\ n \in Books
      /\ p \in 0 .. Len(v)
      /\ \A t \in Sides : t # side => n.vec[t] = b.vec[t]
      /\ Len(n.vec[side]) = Len(v) + 1
      /\ \A j \in 1 .. Len(v) + 1 :
            n.vec[side][j] = IF j < p + 1 THEN v[j]
                             ELSE IF j = p + 1 THEN id ELSE v[j - 1]
      /\ \A k \in OrderIds :
            /\ n.by_order_id[k].side = IF k = id THEN side ELSE b.by_order_id[k].side
            /\ n.by_order_id[k].idx =
                  IF k = id THEN p
                  ELSE IF b.by_order_id[k].side = side /\ b.by_order_id[k].idx >= p
                  THEN b.by_order_id[k].idx + 1
                  ELSE b.by_order_id[k].idx
  BY AddShape
<1>2. /\ Len(v) \in Nat
      /\ \A t \in Sides : Len(b.vec[t]) \in Nat
      /\ b.by_order_id \in [OrderIds -> Slots]
  BY LenProperties DEF Books
<1> HIDE DEF n, p
<1>3. Sound(n)
  <2> SUFFICES ASSUME NEW k \in OrderIds, n.by_order_id[k].side \in Sides
               PROVE  /\ n.by_order_id[k].idx < Len(n.vec[n.by_order_id[k].side])
                      /\ n.vec[n.by_order_id[k].side][n.by_order_id[k].idx + 1] = k
    BY DEF Sound
  <2> DEFINE old == b.by_order_id[k]
  <2>1. old.idx \in Nat
    BY <1>2 DEF Slots
  <2>2. old.side \in Sides => old.idx < Len(b.vec[old.side])
                               /\ b.vec[old.side][old.idx + 1] = k
    BY DEF Sound
  <2>3. CASE k = id
    <3>1. n.by_order_id[k].side = side /\ n.by_order_id[k].idx = p
      BY <1>1, <2>3
    <3>2. p + 1 \in 1 .. Len(v) + 1 /\ n.vec[side][p + 1] = id
      BY <1>1, <1>2
    <3> QED BY <1>1, <1>2, <2>3, <3>1, <3>2
  <2>4. CASE k # id /\ old.side = side /\ old.idx >= p
    <3>1. n.by_order_id[k].side = side /\ n.by_order_id[k].idx = old.idx + 1
      BY <1>1, <2>4
    <3>2. /\ old.idx < Len(v) /\ v[old.idx + 1] = k
          /\ old.idx + 2 \in 1 .. Len(v) + 1
      BY <1>2, <2>1, <2>2, <2>4
    <3>3. n.vec[side][old.idx + 2] = v[old.idx + 1]
      <4>1. p \in Nat /\ ~(old.idx + 2 < p + 1) /\ old.idx + 2 # p + 1
            /\ (old.idx + 2) - 1 = old.idx + 1
        BY <1>1, <1>2, <2>1, <2>4
      <4>2. n.vec[side][old.idx + 2] = v[(old.idx + 2) - 1]
        BY <1>1, <3>2, <4>1
      <4> QED BY <4>1, <4>2
    <3>4. (old.idx + 1) + 1 = old.idx + 2 /\ old.idx + 1 < Len(v) + 1
      BY <1>2, <2>1, <3>2
    <3> HIDE DEF old
    <3> QED BY <1>1, <3>1, <3>2, <3>3, <3>4
  <2>5. CASE k # id /\ old.side = side /\ ~(old.idx >= p)
    <3>1. n.by_order_id[k].side = side /\ n.by_order_id[k].idx = old.idx
      BY <1>1, <2>5
    <3>2. /\ old.idx < Len(v) /\ v[old.idx + 1] = k
          /\ old.idx + 1 \in 1 .. Len(v) + 1
      BY <1>2, <2>1, <2>2, <2>5
    <3>3. n.vec[side][old.idx + 1] = v[old.idx + 1]
      <4>1. old.idx + 1 < p + 1
        BY <1>1, <1>2, <2>1, <2>5
      <4> QED BY <1>1, <3>2, <4>1
    <3> HIDE DEF old
    <3> QED BY <1>1, <1>2, <2>1, <3>1, <3>2, <3>3
  <2>6. CASE k # id /\ old.side # side
    <3>1. n.by_order_id[k].side = old.side /\ n.by_order_id[k].idx = old.idx
      BY <1>1, <2>6
    <3> QED BY <1>1, <2>2, <2>6, <3>1
  <2> QED BY <2>3, <2>4, <2>5, <2>6
<1>4. ASSUME Complete(b) PROVE Complete(n)
  <2> SUFFICES ASSUME NEW k \in OrderIds, NEW t \in Sides,
                      NEW j \in 1 .. Len(n.vec[t]), n.vec[t][j] = k
               PROVE  n.by_order_id[k].side \in Sides
    BY DEF Complete, Resting
  <2>1. CASE k = id
    <3>1. n.by_order_id[k].side = side
      BY <1>1, <2>1
    <3> QED BY <3>1
  <2>2. CASE k # id
    <3>1. Resting(b, k)
      <4>1. CASE t # side
        BY <4>1, <1>1, <1>2 DEF Resting
      <4>2. CASE t = side /\ j < p + 1
        <5>1. j \in 1 .. Len(v) /\ v[j] = k
          BY <4>2, <1>1, <1>2
        <5> QED BY <5>1 DEF Resting
      <4>3. CASE t = side /\ j > p + 1
        <5>1. j - 1 \in 1 .. Len(v) /\ v[j - 1] = k
          BY SMTT(30), <4>3, <1>1, <1>2
        <5> QED BY <5>1 DEF Resting
      <4>4. CASE t = side /\ j = p + 1
        BY <4>4, <1>1, <1>2, <2>2
      <4>5. p \in Nat /\ j \in Nat
        BY <1>1, <1>2
      <4> QED BY <4>1, <4>2, <4>3, <4>4, <4>5
    <3>2. b.by_order_id[k].side \in Sides
      BY <3>1, <1>4 DEF Complete
    <3>3. n.by_order_id[k].side = b.by_order_id[k].side
      BY <2>2, <1>1
    <3> QED BY <3>2, <3>3
  <2> QED BY <2>1, <2>2
<1> QED BY <1>1, <1>3, <1>4 DEF n

\* remove_at keeps the index sound; it keeps it complete if no id rests twice.
LEMMA RemoveIndex ==
    ASSUME NEW b \in Books, NEW side \in Sides, NEW pos \in Nat,
           pos < Len(b.vec[side]), Sound(b)
    PROVE  LET n == remove_at(b, side, pos)
           IN  /\ n \in Books
               /\ Sound(n)
               /\ IdsUnique(b) /\ Complete(b) => Complete(n)
<1> DEFINE n == remove_at(b, side, pos)
           v == b.vec[side]
<1>1. /\ n \in Books
      /\ \A t \in Sides : t # side => n.vec[t] = b.vec[t]
      /\ Len(n.vec[side]) = Len(v) - 1
      /\ \A j \in 1 .. Len(v) - 1 :
            n.vec[side][j] = IF j < pos + 1 THEN v[j] ELSE v[j + 1]
      /\ \A k \in OrderIds :
            /\ n.by_order_id[k].side =
                  IF k = v[pos + 1] THEN "None" ELSE b.by_order_id[k].side
            /\ n.by_order_id[k].idx =
                  IF k = v[pos + 1] THEN 0
                  ELSE IF b.by_order_id[k].side = side /\ b.by_order_id[k].idx > pos
                  THEN b.by_order_id[k].idx - 1
                  ELSE b.by_order_id[k].idx
  BY RemoveShape
<1>2. /\ Len(v) \in Nat
      /\ \A t \in Sides : Len(b.vec[t]) \in Nat
      /\ b.by_order_id \in [OrderIds -> Slots]
  BY LenProperties DEF Books
<1> HIDE DEF n
<1>3. Sound(n)
  <2> SUFFICES ASSUME NEW k \in OrderIds, n.by_order_id[k].side \in Sides
               PROVE  /\ n.by_order_id[k].idx < Len(n.vec[n.by_order_id[k].side])
                      /\ n.vec[n.by_order_id[k].side][n.by_order_id[k].idx + 1] = k
    BY DEF Sound
  <2> DEFINE old == b.by_order_id[k]
  <2>1. old.idx \in Nat
    BY <1>2 DEF Slots
  <2>2. k # v[pos + 1] /\ n.by_order_id[k].side = old.side
    BY <1>1 DEF Sides
  <2>3. old.idx < Len(b.vec[old.side]) /\ b.vec[old.side][old.idx + 1] = k
    BY <2>2 DEF Sound
  <2>4. CASE old.side # side
    <3>1. n.by_order_id[k].idx = old.idx
      BY <1>1, <2>2, <2>4
    <3> QED BY <1>1, <2>2, <2>3, <2>4, <3>1
  <2>5. CASE old.side = side /\ old.idx > pos
    <3>1. n.by_order_id[k].idx = old.idx - 1
      BY <1>1, <2>2, <2>5
    <3>2. /\ old.idx \in 1 .. Len(v) - 1
          /\ ~(old.idx < pos + 1)
          /\ (old.idx - 1) + 1 = old.idx
          /\ old.idx - 1 < Len(v) - 1
      BY <1>2, <2>1, <2>3, <2>5
    <3>3. n.vec[side][old.idx] = k
      BY <1>1, <2>3, <2>5, <3>2
    <3> HIDE DEF old
    <3> QED BY SMTT(30), <1>1, <2>2, <2>5, <3>1, <3>2, <3>3
  <2>6. CASE old.side = side /\ ~(old.idx > pos)
    <3>1. n.by_order_id[k].idx = old.idx
      BY <1>1, <2>2, <2>6
    <3>2. old.idx # pos
      BY <2>2, <2>3, <2>6
    <3>3. old.idx + 1 \in 1 .. Len(v) - 1 /\ old.idx + 1 < pos + 1
      BY <1>2, <2>1, <2>3, <2>6, <3>2
    <3>4. n.vec[side][old.idx + 1] = k
      BY <1>1, <2>3, <2>6, <3>3
    <3> HIDE DEF old
    <3> QED BY <1>1, <1>2, <2>1, <2>2, <2>6, <3>1, <3>3, <3>4
  <2> QED BY <2>4, <2>5, <2>6
<1>4. ASSUME IdsUnique(b), Complete(b) PROVE Complete(n)
  <2> SUFFICES ASSUME NEW k \in OrderIds, NEW t \in Sides,
                      NEW j \in 1 .. Len(n.vec[t]), n.vec[t][j] = k
               PROVE  n.by_order_id[k].side \in Sides
    BY DEF Complete, Resting
  <2>1. PICK i \in 1 .. Len(b.vec[t]) : b.vec[t][i] = k /\ ~(t = side /\ i = pos + 1)
    <3>1. CASE t # side
      BY <3>1, <1>1
    <3>2. CASE t = side /\ j < pos + 1
      <4>1. j \in 1 .. Len(v) - 1 /\ j \in 1 .. Len(v) /\ j # pos + 1
        BY <3>2, <1>1, <1>2
      <4> QED BY <3>2, <4>1, <1>1
    <3>3. CASE t = side /\ ~(j < pos + 1)
      <4>1. j \in 1 .. Len(v) - 1 /\ j + 1 \in 1 .. Len(v) /\ j + 1 # pos + 1
        BY <3>3, <1>1, <1>2
      <4> QED BY <3>3, <4>1, <1>1
    <3> QED BY <3>1, <3>2, <3>3
  <2>2. Resting(b, k)
    BY <2>1 DEF Resting
  <2>3. pos + 1 \in 1 .. Len(v)
    BY <1>2
  <2>4. k # v[pos + 1]
    BY <1>4, <2>1, <2>3 DEF IdsUnique
  <2>5. b.by_order_id[k].side \in Sides
    BY <1>4, <2>2 DEF Complete
  <2>6. n.by_order_id[k].side = b.by_order_id[k].side
    BY <1>1, <2>4
  <2> QED BY <2>5, <2>6
<1> QED BY <1>1, <1>3, <1>4 DEF n

\* PrefixInclusive keeps the index sound; complete if no id rests twice.
LEMMA PrefixIndex ==
    ASSUME NEW b \in Books, NEW side \in Sides, NEW pos \in Nat, Sound(b)
    PROVE  LET n == delete_prefix(b, side, pos)
           IN  /\ n \in Books
               /\ Sound(n)
               /\ IdsUnique(b) /\ Complete(b) => Complete(n)
<1> DEFINE n == delete_prefix(b, side, pos)
           v == b.vec[side]
           end == IF pos + 1 < Len(v) THEN pos + 1 ELSE Len(v)
           kept == [id \in OrderIds |->
                      IF \E i \in 1 .. end : v[i] = id THEN NoSlot ELSE b.by_order_id[id]]
           w == SubSeq(v, end + 1, Len(v))
           sh == shift_indices_after(kept, side, 0, -end)
           drained(k) == \E i \in 1 .. end : v[i] = k
<1>1. /\ v \in Seq(Entries) /\ Len(v) \in Nat
      /\ \A t \in Sides : Len(b.vec[t]) \in Nat
      /\ b.vec \in [Sides -> Seq(Entries)]
      /\ b.by_order_id \in [OrderIds -> Slots]
      /\ b.initialised \in BOOLEAN
  BY LenProperties DEF Books
<1>2. end \in 0 .. Len(v)
  BY <1>1
<1>3. /\ n.vec = [b.vec EXCEPT ![side] = w]
      /\ n.by_order_id = sh
      /\ n.initialised = b.initialised
      /\ n = [vec |-> n.vec, by_order_id |-> n.by_order_id, initialised |-> n.initialised]
  <2>1. n = [b EXCEPT !.vec[side] = w, !.by_order_id = sh]
    BY Zenon DEF delete_prefix
  <2> HIDE DEF n, w, sh
  <2> QED BY <1>1, <2>1 DEF Books
<1>4. /\ w \in Seq(Entries) /\ Len(w) = Len(v) - end
      /\ \A j \in 1 .. Len(v) - end : w[j] = v[end + j]
  <2> HIDE DEF end
  <2> QED BY <1>1, <1>2, DrainElements
<1>5. /\ n.vec[side] = w
      /\ \A t \in Sides : t # side => n.vec[t] = b.vec[t]
      /\ n.vec \in [Sides -> Seq(Entries)]
  <2> HIDE DEF w, n
  <2> QED BY <1>1, <1>3, <1>4
<1>6. ASSUME NEW k \in OrderIds
      PROVE  /\ n.by_order_id[k] \in Slots
             /\ drained(k) => n.by_order_id[k].side = "None"
             /\ ~drained(k) => n.by_order_id[k].side = b.by_order_id[k].side
             /\ ~drained(k) /\ b.by_order_id[k].side # side =>
                   n.by_order_id[k].idx = b.by_order_id[k].idx
             /\ ~drained(k) /\ b.by_order_id[k].side = side =>
                   /\ b.by_order_id[k].idx >= end
                   /\ n.by_order_id[k].idx = b.by_order_id[k].idx - end
  <2> DEFINE old == kept[k]
  <2>1. /\ drained(k) => old = NoSlot
        /\ ~drained(k) => old = b.by_order_id[k]
    OBVIOUS
  <2>2. b.by_order_id[k] \in Slots /\ NoSlot \in Slots
    BY <1>1 DEF Slots, NoSlot
  <2>3. old \in Slots
    BY <2>1, <2>2
  <2>4. sh[k] = IF old.side = side /\ old.idx >= 0 /\ old.idx + (-end) >= 0
                THEN [old EXCEPT !.idx = old.idx + (-end)] ELSE old
    <3> HIDE DEF kept, end
    <3> QED BY DEF shift_indices_after
  <2>5. ~drained(k) /\ b.by_order_id[k].side = side => b.by_order_id[k].idx >= end
    <3> HIDE DEF end
    <3> SUFFICES ASSUME b.by_order_id[k].side = side, ~(b.by_order_id[k].idx >= end)
                 PROVE  drained(k)
      OBVIOUS
    <3>1. b.by_order_id[k].idx \in Nat /\ v[b.by_order_id[k].idx + 1] = k
      BY <2>2 DEF Sound, Slots
    <3>2. b.by_order_id[k].idx + 1 \in 1 .. end
      BY <1>1, <1>2, <3>1
    <3> QED BY <3>1, <3>2
  <2> HIDE DEF old, sh, end, n
  <2>6. n.by_order_id[k] = sh[k]
    BY <1>3
  <2>7. end \in Nat
    BY <1>1, <1>2
  <2>8. CASE drained(k)
    <3>1. old.side = "None" /\ side # "None"
      BY <2>1, <2>8 DEF NoSlot, Sides
    <3> QED BY <2>3, <2>4, <2>6, <2>8, <3>1
  <2>9. CASE ~drained(k) /\ b.by_order_id[k].side # side
    <3>1. old = b.by_order_id[k]
      BY <2>1, <2>9
    <3>2. n.by_order_id[k] = b.by_order_id[k]
      BY <2>4, <2>6, <2>9, <3>1
    <3> QED BY <2>2, <2>9, <3>2
  <2>10. CASE ~drained(k) /\ b.by_order_id[k].side = side
    <3>1. old = b.by_order_id[k]
      BY <2>1, <2>10
    <3>2. old.idx \in Nat /\ old.idx >= end
      BY <2>3, <2>5, <2>10, <3>1 DEF Slots
    <3>3. n.by_order_id[k] = [old EXCEPT !.idx = old.idx + (-end)]
      BY <2>4, <2>6, <2>7, <2>10, <3>1, <3>2
    <3>4. n.by_order_id[k].side = old.side /\ n.by_order_id[k].idx = old.idx - end
      BY <2>3, <2>7, <3>2, <3>3 DEF Slots
    <3>5. n.by_order_id[k] \in Slots
      BY <2>3, <2>7, <3>2, <3>3 DEF Slots
    <3> QED BY <2>5, <2>10, <3>1, <3>4, <3>5
  <2> QED BY <2>8, <2>9, <2>10
<1>7. n \in Books
  <2>1. n.by_order_id \in [OrderIds -> Slots]
    BY <1>3, <1>6 DEF shift_indices_after
  <2> HIDE DEF n
  <2> QED BY <1>1, <1>3, <1>5, <2>1 DEF Books
<1> HIDE DEF n, end, w, sh, kept
<1>8. Sound(n)
  <2> SUFFICES ASSUME NEW k \in OrderIds, n.by_order_id[k].side \in Sides
               PROVE  /\ n.by_order_id[k].idx < Len(n.vec[n.by_order_id[k].side])
                      /\ n.vec[n.by_order_id[k].side][n.by_order_id[k].idx + 1] = k
    BY DEF Sound
  <2> DEFINE slot == b.by_order_id[k]
  <2>1. ~drained(k) /\ n.by_order_id[k].side = slot.side
    BY <1>6 DEF Sides
  <2>2. slot.idx \in Nat /\ slot.idx < Len(b.vec[slot.side]) /\ b.vec[slot.side][slot.idx + 1] = k
    BY <1>1, <2>1 DEF Sound, Slots
  <2>3. CASE slot.side # side
    <3>1. n.by_order_id[k].idx = slot.idx
      BY <1>6, <2>1, <2>3
    <3> QED BY <1>5, <2>1, <2>2, <2>3, <3>1
  <2>4. CASE slot.side = side
    <3>1. slot.idx >= end /\ n.by_order_id[k].idx = slot.idx - end
      BY <1>6, <2>1, <2>4
    <3>2. /\ (slot.idx - end) + 1 \in 1 .. Len(v) - end
          /\ end + ((slot.idx - end) + 1) = slot.idx + 1
          /\ slot.idx - end < Len(v) - end
      BY SMTT(30), <1>1, <1>2, <2>2, <2>4, <3>1
    <3>3. w[(slot.idx - end) + 1] = k
      BY <1>4, <2>2, <2>4, <3>2
    <3> HIDE DEF slot
    <3> QED BY <1>4, <1>5, <2>1, <2>4, <3>1, <3>2, <3>3
  <2> QED BY <2>3, <2>4
<1>9. ASSUME IdsUnique(b), Complete(b) PROVE Complete(n)
  <2> SUFFICES ASSUME NEW k \in OrderIds, NEW t \in Sides,
                      NEW j \in 1 .. Len(n.vec[t]), n.vec[t][j] = k
               PROVE  n.by_order_id[k].side \in Sides
    BY DEF Complete, Resting
  <2>1. PICK i \in 1 .. Len(b.vec[t]) : b.vec[t][i] = k /\ ~(t = side /\ i <= end)
    <3>1. CASE t # side
      BY <3>1, <1>5
    <3>2. CASE t = side
      <4>1. j \in 1 .. Len(v) - end /\ end + j \in 1 .. Len(v) /\ ~(end + j <= end)
        BY <3>2, <1>1, <1>2, <1>4, <1>5
      <4> QED BY <3>2, <4>1, <1>4, <1>5
    <3> QED BY <3>1, <3>2
  <2>2. Resting(b, k)
    BY <2>1 DEF Resting
  <2>3. ~drained(k)
    <3> SUFFICES ASSUME NEW d \in 1 .. end, v[d] = k PROVE FALSE
      OBVIOUS
    <3>1. d \in 1 .. Len(v) /\ d <= end
      BY <1>1, <1>2
    <3>2. t = side /\ i = d
      BY <1>9, <2>1, <3>1 DEF IdsUnique
    <3> QED BY <2>1, <3>1, <3>2
  <2>4. b.by_order_id[k].side \in Sides
    BY <1>9, <2>2 DEF Complete
  <2>5. n.by_order_id[k].side = b.by_order_id[k].side
    BY <1>6, <2>3
  <2> QED BY <2>4, <2>5
<1> QED BY <1>7, <1>8, <1>9 DEF n

\* A book without entries.
LEMMA EmptyIndex ==
    /\ EmptyBook \in Books
    /\ \A f \in BOOLEAN :
          LET n == [EmptyBook EXCEPT !.initialised = f]
          IN  n \in Books /\ Sound(n) /\ Complete(n)
    /\ Sound(EmptyBook) /\ Complete(EmptyBook) /\ IdsUnique(EmptyBook)
<1> DEFINE N(f) == [EmptyBook EXCEPT !.initialised = f]
<1>1. ASSUME NEW f \in BOOLEAN
      PROVE  /\ N(f) \in Books
             /\ \A s \in Sides : Len(N(f).vec[s]) = 0
             /\ \A id \in OrderIds : N(f).by_order_id[id].side \notin Sides
  BY EmptySeq DEF EmptyBook, Books, Slots, NoSlot, Sides
<1>2. ASSUME NEW f \in BOOLEAN PROVE Sound(N(f)) /\ Complete(N(f)) /\ IdsUnique(N(f))
  <2> HIDE DEF N
  <2> QED BY <1>1 DEF Sound, Complete, Resting, IdsUnique
<1>3. /\ EmptyBook \in Books
      /\ \A s \in Sides : Len(EmptyBook.vec[s]) = 0
      /\ \A id \in OrderIds : EmptyBook.by_order_id[id].side \notin Sides
  BY EmptySeq DEF EmptyBook, Books, Slots, NoSlot, Sides
<1>4. Sound(EmptyBook) /\ Complete(EmptyBook) /\ IdsUnique(EmptyBook)
  BY <1>3 DEF Sound, Complete, Resting, IdsUnique
<1> QED BY <1>1, <1>2, <1>3, <1>4

\* OrderBook::apply, one case per message.
LEMMA ApplyIndex ==
    ASSUME NEW b \in Books, NEW op \in BookOps, Sound(b)
    PROVE  LET n == apply(b, op)
           IN  /\ n \in Books
               /\ Sound(n)
               /\ IdsUnique(b) /\ Complete(b) => Complete(n)
               /\ op.op = "ClearAll" => Complete(n) /\ IdsUnique(n)
<1> DEFINE n == apply(b, op)
<1>1. /\ b.initialised \in BOOLEAN
      /\ \A s \in Sides : Len(b.vec[s]) \in Nat
  BY LenProperties DEF Books
<1>2. CASE op.op = "Add"
  <2>1. /\ op.side \in Sides /\ op.position \in Nat /\ op.order_id \in Entries
        /\ n = add(b, op.side, op.position, op.order_id)
    BY <1>2, MaxPositionAssumption DEF BookOps, Positions, apply
  <2> QED BY <1>2, <2>1, AddIndex
<1>3. CASE op.op = "Update"
  <2>1. /\ op.side \in Sides /\ op.position \in Nat /\ op.order_id \in Entries
        /\ op.old_pos \in Nat
        /\ n = update(b, op.old_pos, op.side, op.position, op.order_id)
    BY <1>3, MaxPositionAssumption DEF BookOps, Positions, apply
  <2>2. CASE op.old_pos >= Len(b.vec[op.side])
    <3>1. n = add(b, op.side, op.position, op.order_id)
      BY <2>1, <2>2 DEF update
    <3> QED BY <1>3, <2>1, <3>1, AddIndex
  <2>3. CASE ~(op.old_pos >= Len(b.vec[op.side]))
    <3> DEFINE r == remove_at(b, op.side, op.old_pos)
    <3>1. n = add(r, op.side, op.position, op.order_id)
      BY <2>1, <2>3 DEF update
    <3>2. op.old_pos < Len(b.vec[op.side])
      BY <1>1, <2>1, <2>3
    <3>3. /\ r \in Books /\ Sound(r)
          /\ IdsUnique(b) /\ Complete(b) => Complete(r)
      BY <2>1, <3>2, RemoveIndex
    <3> HIDE DEF r
    <3> QED BY <1>3, <2>1, <3>1, <3>3, AddIndex
  <2> QED BY <2>2, <2>3
<1>4. CASE op.op = "Single"
  <2>1. /\ op.side \in Sides /\ op.position \in Nat
        /\ n = delete_single(b, op.side, op.position)
    BY <1>4, MaxPositionAssumption DEF BookOps, Positions, apply
  <2>2. CASE op.position < Len(b.vec[op.side])
    <3>1. n = remove_at(b, op.side, op.position)
      BY <2>1, <2>2 DEF delete_single
    <3> QED BY <1>4, <2>1, <2>2, <3>1, RemoveIndex
  <2>3. CASE ~(op.position < Len(b.vec[op.side]))
    <3>1. n = b
      BY <2>1, <2>3 DEF delete_single
    <3> QED BY <1>4, <3>1
  <2> QED BY <2>2, <2>3
<1>5. CASE op.op = "PrefixInclusive"
  <2>1. /\ op.side \in Sides /\ op.position \in Nat
        /\ n = delete_prefix(b, op.side, op.position)
    BY <1>5, MaxPositionAssumption DEF BookOps, Positions, apply
  <2> QED BY <1>5, <2>1, PrefixIndex
<1>6. CASE op.op = "ClearAll"
  <2>1. n = [EmptyBook EXCEPT !.initialised = b.initialised]
    BY <1>6 DEF apply, clear_all
  <2>2. n \in Books /\ Sound(n) /\ Complete(n)
    BY <1>1, <2>1, EmptyIndex
  <2>3. \A s \in Sides : Len(n.vec[s]) = 0
    BY <2>1, EmptySeq DEF EmptyBook
  <2>4. IdsUnique(n)
    <3> HIDE DEF n
    <3> QED BY <2>3 DEF IdsUnique
  <2> QED BY <2>2, <2>4
<1>7. CASE op.op = "EndOfInitial"
  <2>1. n = [b EXCEPT !.initialised = TRUE]
    BY <1>7 DEF apply
  <2>2. n \in Books /\ n.vec = b.vec /\ n.by_order_id = b.by_order_id
    BY <2>1 DEF Books
  <2> HIDE DEF n
  <2>3. Sound(n) /\ (Complete(b) => Complete(n))
    BY <2>2 DEF Sound, Complete, Resting
  <2> QED BY <1>7, <2>2, <2>3 DEF n
<1>8. op.op \in {"Add", "Update", "Single", "PrefixInclusive", "ClearAll", "EndOfInitial"}
  BY DEF BookOps
<1> QED BY <1>2, <1>3, <1>4, <1>5, <1>6, <1>7, <1>8

-----------------------------------------------------------------------------
(***************************************************************************)
(* The inductive invariant.  Soundness is inductive with the types alone;  *)
(* completeness needs to know that a clean book holds no id twice, since   *)
(* removing one of two entries with the same id forgets both.              *)
(***************************************************************************)
CleanUnique == \A t \in clean : IdsUnique(books[t])

IInv == TypeOK /\ IndexSound /\ IndexComplete /\ CleanUnique

\* The invariant holds initially.
LEMMA InitIInv == Init => IInv
<1> SUFFICES ASSUME Init PROVE IInv
  OBVIOUS
<1>1. TypeOK
  BY EmptyIndex DEF Init, TypeOK
<1>2. \A t \in Tickers : books[t] = EmptyBook
  BY DEF Init
<1>3. clean \subseteq Tickers
  BY <1>1 DEF TypeOK
<1> QED BY <1>1, <1>2, <1>3, EmptyIndex DEF IInv, IndexSound, IndexComplete, CleanUnique

\* Every step of the engine preserves it.
LEMMA NextIInv == IInv /\ [Next]_vars => IInv'
<1> SUFFICES ASSUME IInv, [Next]_vars PROVE IInv'
  OBVIOUS
<1> USE DEF IInv
<1>1. ASSUME NEW S \in SUBSET Tickers, set_allowed(S) PROVE IInv'
  BY <1>1 DEF set_allowed, TypeOK, IndexSound, IndexComplete, CleanUnique
<1>2. ASSUME NEW c \in Callers, NEW t \in Tickers, apply_check(c, t) PROVE IInv'
  BY <1>2 DEF apply_check, TypeOK, IndexSound, IndexComplete, CleanUnique
<1>3. ASSUME NEW c \in Callers, NEW op \in BookOps, apply_locked(c, op) PROVE IInv'
  <2> DEFINE t == call[c]
             n == apply(books[t], op)
  <2>1. t \in Tickers
    BY <1>3 DEF apply_locked, TypeOK
  <2>2. books[t] \in Books /\ Sound(books[t])
    BY <2>1 DEF TypeOK, IndexSound
  <2>3. /\ n \in Books
        /\ Sound(n)
        /\ IdsUnique(books[t]) /\ Complete(books[t]) => Complete(n)
        /\ op.op = "ClearAll" => Complete(n) /\ IdsUnique(n)
    BY <2>2, ApplyIndex
  <2>4. /\ books' = [books EXCEPT ![t] = n]
        /\ tracked' = tracked \cup {t}
        /\ clean' = IF op.op = "ClearAll" THEN clean \cup {t}
                    ELSE IF IdsUnique(n) THEN clean ELSE clean \ {t}
        /\ call' = [call EXCEPT ![c] = Idle]
        /\ late' = late \ {c}
        /\ allowed' = allowed
    BY <1>3 DEF apply_locked
  <2> HIDE DEF n, t
  <2>5. TypeOK'
    BY <2>1, <2>3, <2>4 DEF TypeOK
  <2>6. books'[t] = n /\ \A u \in Tickers : u # t => books'[u] = books[u]
    BY <2>1, <2>4 DEF TypeOK
  <2>7. IndexSound'
    BY <2>3, <2>6 DEF IndexSound
  <2>8. t \in clean' => IdsUnique(n) /\ Complete(n)
    BY <2>3, <2>4 DEF IndexComplete, CleanUnique, t
  <2>9. \A u \in clean' : u = t \/ (u \in clean /\ u \in Tickers)
    BY <2>4, <2>5 DEF TypeOK
  <2>10. IndexComplete' /\ CleanUnique'
    BY <2>6, <2>8, <2>9 DEF IndexComplete, CleanUnique
  <2> QED BY <2>5, <2>7, <2>10
<1>4. CASE UNCHANGED vars
  BY <1>4 DEF vars, TypeOK, IndexSound, IndexComplete, CleanUnique
<1> QED BY <1>1, <1>2, <1>3, <1>4 DEF Next

(***************************************************************************)
(* Every reachable state is well typed.                                    *)
(***************************************************************************)
THEOREM TypeCorrect == Spec => []TypeOK
<1>1. IInv => TypeOK
  BY DEF IInv
<1> QED BY <1>1, InitIInv, NextIInv, PTL DEF Spec

(***************************************************************************)
(* For every set of tickers, ids and callers and whatever the feed sends,  *)
(* an entry of by_order_id names the position at which its order rests.    *)
(***************************************************************************)
THEOREM IndexSoundness == Spec => []IndexSound
<1>1. IInv => IndexSound
  BY DEF IInv
<1> QED BY <1>1, InitIInv, NextIInv, PTL DEF Spec

(***************************************************************************)
(* As long as the feed keeps the ids of a book unique, every resting order *)
(* is found through by_order_id.                                           *)
(***************************************************************************)
THEOREM IndexCompleteness == Spec => []IndexComplete
<1>1. IInv => IndexComplete
  BY DEF IInv
<1> QED BY <1>1, InitIInv, NextIInv, PTL DEF Spec

-----------------------------------------------------------------------------
(***************************************************************************)
(* Queue priority.  What an operation leaves of a side, the entries it     *)
(* carries (carried) aside, is in the side it started from, in the same    *)
(* order; while the ids of the book are unique this settles who is ahead   *)
(* of whom.                                                                *)
(***************************************************************************)
Thins(w, v, carried) ==
    /\ \A p \in 1 .. Len(w) :
          w[p] \notin carried => \E x \in 1 .. Len(v) : v[x] = w[p]
    /\ \A p, q \in 1 .. Len(w) :
          p < q /\ w[p] \notin carried /\ w[q] \notin carried =>
              \E x, y \in 1 .. Len(v) : x < y /\ v[x] = w[p] /\ v[y] = w[q]

Keeps(n, b, carried) == \A s \in Sides : Thins(n.vec[s], b.vec[s], carried)

\* A side that is left alone.
LEMMA ThinsSame == \A v, carried : Thins(v, v, carried)
BY DEF Thins

\* Where an entry and a pair of entries come from.
LEMMA ThinsUse ==
    ASSUME NEW w, NEW v, NEW carried, Thins(w, v, carried)
    PROVE  /\ \A p \in 1 .. Len(w) :
                 w[p] \notin carried => \E x \in 1 .. Len(v) : v[x] = w[p]
           /\ \A p, q \in 1 .. Len(w) :
                 p < q /\ w[p] \notin carried /\ w[q] \notin carried =>
                     \E x, y \in 1 .. Len(v) : x < y /\ v[x] = w[p] /\ v[y] = w[q]
BY DEF Thins

\* Twice thinned is thinned.
LEMMA ThinsTwice ==
    ASSUME NEW w, NEW u, NEW v, NEW carried, Thins(u, v, {}), Thins(w, u, carried)
    PROVE  Thins(w, v, carried)
<1>1. ASSUME NEW p \in 1 .. Len(w), w[p] \notin carried
      PROVE  \E x \in 1 .. Len(v) : v[x] = w[p]
  <2>1. PICK y \in 1 .. Len(u) : u[y] = w[p]
    BY <1>1, ThinsUse
  <2>2. PICK x \in 1 .. Len(v) : v[x] = u[y]
    BY SMTT(30), ThinsUse
  <2> QED BY <2>1, <2>2
<1>2. ASSUME NEW p \in 1 .. Len(w), NEW q \in 1 .. Len(w), p < q,
             w[p] \notin carried, w[q] \notin carried
      PROVE  \E x, y \in 1 .. Len(v) : x < y /\ v[x] = w[p] /\ v[y] = w[q]
  <2>1. PICK c, d \in 1 .. Len(u) : c < d /\ u[c] = w[p] /\ u[d] = w[q]
    BY <1>2, ThinsUse
  <2>2. PICK x, y \in 1 .. Len(v) : x < y /\ v[x] = u[c] /\ v[y] = u[d]
    BY <2>1, ThinsUse
  <2> QED BY <2>1, <2>2
<1> QED BY <1>1, <1>2 DEF Thins

\* One operation after another.
LEMMA KeepsTwice ==
    ASSUME NEW n, NEW r, NEW b, NEW carried, Keeps(r, b, {}), Keeps(n, r, carried)
    PROVE  Keeps(n, b, carried)
<1> SUFFICES ASSUME NEW s \in Sides PROVE Thins(n.vec[s], b.vec[s], carried)
  BY DEF Keeps
<1>1. Thins(n.vec[s], r.vec[s], carried) /\ Thins(r.vec[s], b.vec[s], {})
  BY DEF Keeps
<1> QED BY <1>1, ThinsTwice

\* add keeps the order of what it does not carry.
LEMMA AddKeeps ==
    ASSUME NEW b \in Books, NEW side \in Sides, NEW pos \in Nat, NEW id \in Entries,
           Sound(b)
    PROVE  Keeps(add(b, side, pos, id), b, {id})
<1> DEFINE n == add(b, side, pos, id)
           p == PlaceOf(b, side, pos)
           v == b.vec[side]
           w == n.vec[side]
<1>1. /\ p \in 0 .. Len(v)
      /\ \A t \in Sides : t # side => n.vec[t] = b.vec[t]
      /\ Len(w) = Len(v) + 1
      /\ \A j \in 1 .. Len(v) + 1 :
            w[j] = IF j < p + 1 THEN v[j] ELSE IF j = p + 1 THEN id ELSE v[j - 1]
  BY AddShape
<1>2. Len(v) \in Nat
  BY LenProperties DEF Books
<1> HIDE DEF n, p, v, w
<1> DEFINE f(j) == IF j < p + 1 THEN j ELSE j - 1
<1>3. ASSUME NEW j \in 1 .. Len(w), w[j] \notin {id}
      PROVE  j # p + 1 /\ f(j) \in 1 .. Len(v) /\ v[f(j)] = w[j]
  BY <1>1, <1>2, <1>3
<1>4. ASSUME NEW j \in 1 .. Len(w), NEW k \in 1 .. Len(w), j < k,
             w[j] \notin {id}, w[k] \notin {id}
      PROVE  f(j) < f(k)
  <2>1. j # p + 1 /\ k # p + 1
    BY <1>3, <1>4
  <2> QED BY <1>1, <1>2, <1>4, <2>1
<1>5. Thins(w, v, {id})
  <2> HIDE DEF f
  <2> QED BY <1>3, <1>4 DEF Thins
<1> QED BY <1>1, <1>5, ThinsSame DEF Keeps, w, v, n

\* remove_at keeps the order of what it leaves.
LEMMA RemoveKeeps ==
    ASSUME NEW b \in Books, NEW side \in Sides, NEW pos \in Nat,
           pos < Len(b.vec[side]), Sound(b)
    PROVE  Keeps(remove_at(b, side, pos), b, {})
<1> DEFINE n == remove_at(b, side, pos)
           v == b.vec[side]
           w == n.vec[side]
<1>1. /\ \A t \in Sides : t # side => n.vec[t] = b.vec[t]
      /\ Len(w) = Len(v) - 1
      /\ \A j \in 1 .. Len(v) - 1 : w[j] = IF j < pos + 1 THEN v[j] ELSE v[j + 1]
  BY RemoveShape
<1>2. Len(v) \in Nat
  BY LenProperties DEF Books
<1> HIDE DEF n, v, w
<1> DEFINE f(j) == IF j < pos + 1 THEN j ELSE j + 1
<1>3. ASSUME NEW j \in 1 .. Len(w) PROVE f(j) \in 1 .. Len(v) /\ v[f(j)] = w[j]
  BY <1>1, <1>2
<1>4. ASSUME NEW j \in 1 .. Len(w), NEW k \in 1 .. Len(w), j < k PROVE f(j) < f(k)
  BY <1>1, <1>2, <1>4
<1>5. Thins(w, v, {})
  <2> HIDE DEF f
  <2> QED BY <1>3, <1>4 DEF Thins
<1> QED BY <1>1, <1>5, ThinsSame DEF Keeps, w, v, n

\* delete_prefix keeps the order of what it leaves.
LEMMA PrefixKeeps ==
    ASSUME NEW b \in Books, NEW side \in Sides, NEW pos \in Nat
    PROVE  Keeps(delete_prefix(b, side, pos), b, {})
<1> DEFINE n == delete_prefix(b, side, pos)
           v == b.vec[side]
           end == IF pos + 1 < Len(v) THEN pos + 1 ELSE Len(v)
           w == SubSeq(v, end + 1, Len(v))
<1>1. /\ v \in Seq(Entries) /\ Len(v) \in Nat
      /\ b.vec \in [Sides -> Seq(Entries)]
  BY LenProperties DEF Books
<1>2. end \in 0 .. Len(v)
  BY <1>1
<1>3. n.vec = [b.vec EXCEPT ![side] = w]
  <2>1. PICK y : n = [b EXCEPT !.vec[side] = w, !.by_order_id = y]
    BY Zenon DEF delete_prefix
  <2> HIDE DEF n, w
  <2> QED BY <1>1, <2>1 DEF Books
<1>4. /\ Len(w) = Len(v) - end
      /\ \A j \in 1 .. Len(v) - end : w[j] = v[end + j]
  <2> HIDE DEF end
  <2> QED BY <1>1, <1>2, DrainElements
<1>5. /\ n.vec[side] = w
      /\ \A t \in Sides : t # side => n.vec[t] = b.vec[t]
  <2> HIDE DEF w, n
  <2> QED BY <1>1, <1>3
<1> HIDE DEF n, v, end, w
<1> DEFINE f(j) == end + j
<1>6. ASSUME NEW j \in 1 .. Len(w) PROVE f(j) \in 1 .. Len(v) /\ v[f(j)] = w[j]
  BY <1>1, <1>2, <1>4
<1>7. ASSUME NEW j \in 1 .. Len(w), NEW k \in 1 .. Len(w), j < k PROVE f(j) < f(k)
  BY <1>1, <1>2, <1>4, <1>7
<1>8. Thins(w, v, {})
  <2> HIDE DEF f
  <2> QED BY <1>6, <1>7 DEF Thins
<1> QED BY <1>5, <1>8, ThinsSame DEF Keeps, v, n

\* OrderBook::apply, one case per message.
LEMMA ApplyKeeps ==
    ASSUME NEW b \in Books, NEW op \in BookOps, Sound(b)
    PROVE  Keeps(apply(b, op), b,
                 IF op.op \in {"Add", "Update"} THEN {op.order_id} ELSE {})
<1> DEFINE n == apply(b, op)
<1>1. \A s \in Sides : Len(b.vec[s]) \in Nat
  BY LenProperties DEF Books
<1>2. CASE op.op = "Add"
  <2>1. /\ op.side \in Sides /\ op.position \in Nat /\ op.order_id \in Entries
        /\ n = add(b, op.side, op.position, op.order_id)
    BY <1>2, MaxPositionAssumption DEF BookOps, Positions, apply
  <2> QED BY <1>2, <2>1, AddKeeps
<1>3. CASE op.op = "Update"
  <2>1. /\ op.side \in Sides /\ op.position \in Nat /\ op.order_id \in Entries
        /\ op.old_pos \in Nat
        /\ n = update(b, op.old_pos, op.side, op.position, op.order_id)
    BY <1>3, MaxPositionAssumption DEF BookOps, Positions, apply
  <2>2. CASE op.old_pos >= Len(b.vec[op.side])
    <3>1. n = add(b, op.side, op.position, op.order_id)
      BY <2>1, <2>2 DEF update
    <3> QED BY <1>3, <2>1, <3>1, AddKeeps
  <2>3. CASE ~(op.old_pos >= Len(b.vec[op.side]))
    <3> DEFINE r == remove_at(b, op.side, op.old_pos)
    <3>1. n = add(r, op.side, op.position, op.order_id)
      BY <2>1, <2>3 DEF update
    <3>2. op.old_pos < Len(b.vec[op.side])
      BY <1>1, <2>1, <2>3
    <3>3. r \in Books /\ Sound(r)
      BY <2>1, <3>2, RemoveIndex
    <3>4. Keeps(r, b, {})
      BY <2>1, <3>2, RemoveKeeps
    <3> HIDE DEF r
    <3>5. Keeps(n, r, {op.order_id})
      BY <2>1, <3>1, <3>3, AddKeeps
    <3>6. Keeps(n, b, {op.order_id})
      BY <3>4, <3>5, KeepsTwice
    <3> QED BY <1>3, <3>6
  <2> QED BY <2>2, <2>3
<1>4. CASE op.op = "Single"
  <2>1. /\ op.side \in Sides /\ op.position \in Nat
        /\ n = delete_single(b, op.side, op.position)
    BY <1>4, MaxPositionAssumption DEF BookOps, Positions, apply
  <2>2. CASE op.position < Len(b.vec[op.side])
    <3>1. n = remove_at(b, op.side, op.position)
      BY <2>1, <2>2 DEF delete_single
    <3> QED BY <1>4, <2>1, <2>2, <3>1, RemoveKeeps
  <2>3. CASE ~(op.position < Len(b.vec[op.side]))
    <3>1. n = b
      BY <2>1, <2>3 DEF delete_single
    <3> QED BY <1>4, <3>1, ThinsSame DEF Keeps
  <2> QED BY <2>2, <2>3
<1>5. CASE op.op = "PrefixInclusive"
  <2>1. /\ op.side \in Sides /\ op.position \in Nat
        /\ n = delete_prefix(b, op.side, op.position)
    BY <1>5, MaxPositionAssumption DEF BookOps, Positions, apply
  <2> QED BY <1>5, <2>1, PrefixKeeps
<1>6. CASE op.op = "ClearAll"
  <2>1. n = [EmptyBook EXCEPT !.initialised = b.initialised]
    BY <1>6 DEF apply, clear_all
  <2>2. \A s \in Sides : Len(n.vec[s]) = 0
    BY <2>1, EmptySeq DEF EmptyBook
  <2> HIDE DEF n
  <2> QED BY <2>2 DEF Keeps, Thins, n
<1>7. CASE op.op = "EndOfInitial"
  <2>1. n = [b EXCEPT !.initialised = TRUE]
    BY <1>7 DEF apply
  <2>2. n.vec = b.vec
    BY <2>1 DEF Books
  <2> HIDE DEF n
  <2> QED BY <1>7, <2>2, ThinsSame DEF Keeps, n
<1>8. op.op \in {"Add", "Update", "Single", "PrefixInclusive", "ClearAll", "EndOfInitial"}
  BY DEF BookOps
<1> QED BY <1>2, <1>3, <1>4, <1>5, <1>6, <1>7, <1>8

\* With unique ids an entry has one place, so keeping the order of what is
\* left settles both directions.
LEMMA KeptPriority ==
    ASSUME NEW b, NEW n, NEW carried, NEW i \in OrderIds, NEW j \in OrderIds,
           IdsUnique(b), Keeps(n, b, carried), i \notin carried, j \notin carried,
           \A s \in Sides : Len(n.vec[s]) \in Nat /\ Len(b.vec[s]) \in Nat,
           Resting(n, i), Resting(n, j)
    PROVE  Ahead(b, i, j) <=> Ahead(n, i, j)
<1>1. ASSUME Ahead(n, i, j) PROVE Ahead(b, i, j)
  <2>1. PICK s \in Sides : \E p, q \in 1 .. Len(n.vec[s]) :
           p < q /\ n.vec[s][p] = i /\ n.vec[s][q] = j
    BY <1>1 DEF Ahead
  <2>2. Thins(n.vec[s], b.vec[s], carried)
    BY DEF Keeps
  <2>3. PICK p, q \in 1 .. Len(n.vec[s]) : p < q /\ n.vec[s][p] = i /\ n.vec[s][q] = j
    BY <2>1
  <2>4. PICK w, v : w = n.vec[s] /\ v = b.vec[s]
    OBVIOUS
  <2>5. \E x, y \in 1 .. Len(v) : x < y /\ v[x] = w[p] /\ v[y] = w[q]
    <3>1. /\ Thins(w, v, carried) /\ p \in 1 .. Len(w) /\ q \in 1 .. Len(w) /\ p < q
          /\ w[p] \notin carried /\ w[q] \notin carried
      BY <2>2, <2>3, <2>4
    <3> QED BY <3>1, ThinsUse
  <2> QED BY <2>3, <2>4, <2>5 DEF Ahead
<1>2. ASSUME Ahead(b, i, j) PROVE Ahead(n, i, j)
  <2>1. PICK s \in Sides : \E p, q \in 1 .. Len(b.vec[s]) :
           p < q /\ b.vec[s][p] = i /\ b.vec[s][q] = j
    BY <1>2 DEF Ahead
  <2>2. PICK p, q \in 1 .. Len(b.vec[s]) : p < q /\ b.vec[s][p] = i /\ b.vec[s][q] = j
    BY <2>1
  <2>3. PICK t \in Sides : \E x \in 1 .. Len(n.vec[t]) : n.vec[t][x] = i
    BY DEF Resting
  <2>4. PICK u \in Sides : \E y \in 1 .. Len(n.vec[u]) : n.vec[u][y] = j
    BY DEF Resting
  <2>5. Thins(n.vec[t], b.vec[t], carried) /\ Thins(n.vec[u], b.vec[u], carried)
    BY DEF Keeps
  <2>6. t = s
    <3>1. PICK z \in 1 .. Len(b.vec[t]) : b.vec[t][z] = i
      BY <2>3, <2>5, ThinsUse
    <3> QED BY <2>2, <3>1 DEF IdsUnique
  <2>7. u = s
    <3>1. PICK z \in 1 .. Len(b.vec[u]) : b.vec[u][z] = j
      BY <2>4, <2>5, ThinsUse
    <3> QED BY <2>2, <3>1 DEF IdsUnique
  <2>8. PICK x \in 1 .. Len(n.vec[s]) : n.vec[s][x] = i
    BY <2>3, <2>6
  <2>9. PICK y \in 1 .. Len(n.vec[s]) : n.vec[s][y] = j
    BY <2>4, <2>7
  <2>10. x # y
    <3> SUFFICES ASSUME x = y PROVE FALSE
      OBVIOUS
    <3>1. i = j
      BY <2>8, <2>9
    <3>2. p = q
      BY <2>2, <3>1 DEF IdsUnique
    <3> QED BY <2>2, <3>2
  <2>11. ~(y < x)
    <3> SUFFICES ASSUME y < x PROVE FALSE
      OBVIOUS
    <3>1. PICK c, d \in 1 .. Len(b.vec[s]) : c < d /\ b.vec[s][c] = j /\ b.vec[s][d] = i
      <4>1. PICK w, v : w = n.vec[s] /\ v = b.vec[s]
        OBVIOUS
      <4>2. /\ Thins(w, v, carried) /\ x \in 1 .. Len(w) /\ y \in 1 .. Len(w) /\ y < x
            /\ w[x] = i /\ w[y] = j /\ w[y] \notin carried /\ w[x] \notin carried
        BY <2>5, <2>6, <2>8, <2>9, <4>1
      <4>3. \E c, d \in 1 .. Len(v) : c < d /\ v[c] = w[y] /\ v[d] = w[x]
        BY SMTT(30), <4>2, ThinsUse
      <4> QED BY <4>1, <4>2, <4>3
    <3>2. c = q /\ d = p
      BY <2>2, <3>1 DEF IdsUnique
    <3> QED BY <2>2, <3>1, <3>2
  <2>12. x < y
    BY <2>10, <2>11
  <2> QED BY <2>8, <2>9, <2>12 DEF Ahead
<1> QED BY <1>1, <1>2

(***************************************************************************)
(* Whatever the feed sends next to a book whose ids are unique, which of   *)
(* two orders is ahead of the other changes only when it carries one.      *)
(***************************************************************************)
THEOREM PriorityIsKept == Spec => []PriorityKept
<1>1. IInv => PriorityKept
  <2> SUFFICES ASSUME IInv, NEW t \in clean, NEW op \in BookOps,
                      NEW i \in OrderIds, NEW j \in OrderIds,
                      op.op \in {"Add", "Update"} => op.order_id \notin {i, j},
                      Resting(apply(books[t], op), i), Resting(apply(books[t], op), j)
               PROVE  Ahead(books[t], i, j) <=> Ahead(apply(books[t], op), i, j)
    BY Zenon DEF PriorityKept
  <2> DEFINE b == books[t]
             n == apply(b, op)
             carried == IF op.op \in {"Add", "Update"} THEN {op.order_id} ELSE {}
  <2>1. b \in Books /\ Sound(b) /\ IdsUnique(b)
    BY DEF IInv, TypeOK, IndexSound, CleanUnique
  <2>2. n \in Books /\ Keeps(n, b, carried)
    BY <2>1, ApplyIndex, ApplyKeeps
  <2>3. i \notin carried /\ j \notin carried
    OBVIOUS
  <2>4. \A s \in Sides : Len(n.vec[s]) \in Nat /\ Len(b.vec[s]) \in Nat
    <3> HIDE DEF n, b
    <3> QED BY <2>1, <2>2, LenProperties DEF Books
  <2>5. Resting(n, i) /\ Resting(n, j)
    OBVIOUS
  <2> HIDE DEF b, n, carried
  <2>6. Ahead(b, i, j) <=> Ahead(n, i, j)
    BY <2>1, <2>2, <2>3, <2>4, <2>5, KeptPriority
  <2> QED BY <2>6 DEF b, n
<1> QED BY <1>1, InitIInv, NextIInv, PTL DEF Spec

-----------------------------------------------------------------------------
\* A call past its check has a ticker that is still allowed, or is late.
CallsAdmitted == \A c \in Callers : call[c] # Idle => call[c] \in allowed \/ c \in late

\* A step on a book is a step on an admitted one.
LEMMA StepHonoursFilter ==
    TypeOK /\ CallsAdmitted /\ [Next]_vars =>
        /\ CallsAdmitted'
        /\ \A t \in Tickers :
              books'[t] # books[t] \/ (t \in tracked' /\ t \notin tracked) =>
                  t \in allowed \/ \E c \in late : call[c] = t
<1> SUFFICES ASSUME TypeOK, CallsAdmitted, [Next]_vars
             PROVE  /\ CallsAdmitted'
                    /\ \A t \in Tickers :
                          books'[t] # books[t] \/ (t \in tracked' /\ t \notin tracked) =>
                              t \in allowed \/ \E c \in late : call[c] = t
  OBVIOUS
<1> USE DEF TypeOK, CallsAdmitted
<1>1. ASSUME NEW S \in SUBSET Tickers, set_allowed(S)
      PROVE  CallsAdmitted' /\ books' = books /\ tracked' = tracked
  BY <1>1 DEF set_allowed
<1>2. ASSUME NEW d \in Callers, NEW u \in Tickers, apply_check(d, u)
      PROVE  CallsAdmitted' /\ books' = books /\ tracked' = tracked
  BY <1>2 DEF apply_check
<1>3. ASSUME NEW d \in Callers, NEW op \in BookOps, apply_locked(d, op)
      PROVE  /\ CallsAdmitted'
             /\ \A t \in Tickers :
                   books'[t] # books[t] \/ (t \in tracked' /\ t \notin tracked) =>
                       t \in allowed \/ \E c \in late : call[c] = t
  <2>1. /\ call[d] # Idle /\ call[d] \in Tickers
        /\ books' = [books EXCEPT ![call[d]] = apply(books[call[d]], op)]
        /\ tracked' = tracked \cup {call[d]}
        /\ call' = [call EXCEPT ![d] = Idle]
        /\ late' = late \ {d}
        /\ allowed' = allowed
    BY <1>3 DEF apply_locked
  <2>2. CallsAdmitted'
    BY <2>1
  <2>3. \A t \in Tickers : t # call[d] => books'[t] = books[t] /\ (t \in tracked' => t \in tracked)
    BY <2>1
  <2>4. call[d] \in allowed \/ d \in late
    BY <2>1
  <2> QED BY <2>2, <2>3, <2>4
<1>4. CASE UNCHANGED vars
  BY <1>4 DEF vars
<1> QED BY <1>1, <1>2, <1>3, <1>4 DEF Next

(***************************************************************************)
(* A book outside the filter is changed only by a call that had read the   *)
(* filter before it was narrowed.                                          *)
(***************************************************************************)
THEOREM FilterHonouring == Spec => FilterHonoured
<1>1. Init => CallsAdmitted
  BY DEF Init, CallsAdmitted
<1>2. TypeOK /\ CallsAdmitted /\ [Next]_vars =>
        [\A t \in Tickers :
            books'[t] # books[t] \/ (t \in tracked' /\ t \notin tracked) =>
                t \in allowed \/ \E c \in late : call[c] = t]_vars
  BY StepHonoursFilter
<1>3. TypeOK /\ CallsAdmitted /\ [Next]_vars => CallsAdmitted'
  BY StepHonoursFilter
<1> QED BY <1>1, <1>2, <1>3, TypeCorrect, PTL DEF Spec, FilterHonoured
=============================================================================
