------------------------- MODULE TradeWriterProofs -------------------------
(***************************************************************************)
(* Proofs about TradeWriter for every set of trades, every number of tasks *)
(* and crashes and every batch size: its types, that no run of the process *)
(* stores a trade twice whatever fails, that a trade in memory goes to the *)
(* table unless one of the listed failures drops it, and that the log      *)
(* protects what it has synced when one task stages and flushes.           *)
(***************************************************************************)
EXTENDS TradeWriter, FiniteSetTheorems, SequenceTheorems, WellFoundedInduction, TLAPS

-----------------------------------------------------------------------------
(***************************************************************************)
(* Induction over the naturals, for a property given as a set.             *)
(***************************************************************************)

\* A set of naturals that is not empty has a least element.
LEMMA Least ==
    ASSUME NEW T \in SUBSET Nat, T # {}
    PROVE  \E x \in T : \A y \in T : x <= y
<1>1. IsWellFoundedOn(OpToRel(<, Nat), Nat)
  BY NatLessThanWellFounded
<1>2. PICK x \in T : \A y \in T : ~(<< y, x >> \in OpToRel(<, Nat))
  BY <1>1, WFMin
<1>3. \A y \in T : ~(y < x)
  BY <1>2 DEF OpToRel
<1> QED BY <1>3

\* A set with 0 and the successor of each of its naturals has them all.
LEMMA SetInduction ==
    ASSUME NEW S, 0 \in S, \A n \in Nat : n \in S => n + 1 \in S
    PROVE  Nat \subseteq S
<1> SUFFICES ASSUME Nat \ S # {} PROVE FALSE
  OBVIOUS
<1>1. PICK x \in Nat \ S : \A y \in Nat \ S : x <= y
  BY Least
<1>2. x - 1 \in Nat /\ x - 1 \in S
  BY <1>1
<1> QED BY <1>1, <1>2

\* F is defined by recursion over 0 .. n.
Recursive(F, base, g, n) ==
    \A i \in 0 .. n : F[i] = IF i = 0 THEN base ELSE g[<< i, F[i - 1] >>]

\* A function defined by recursion over 0 .. n exists.
LEMMA Recursion ==
    ASSUME NEW S, NEW base \in S, NEW g \in [Nat \X S -> S], NEW n \in Nat
    PROVE  \E F \in [0 .. n -> S] : Recursive(F, base, g, n)
<1> DEFINE Q(m, F) == \A i \in 0 .. m : F[i] = IF i = 0 THEN base ELSE g[<< i, F[i - 1] >>]
           D == {m \in Nat : \E F \in [0 .. m -> S] : Q(m, F)}
<1>1. 0 \in D
  <2> DEFINE F == [i \in 0 .. 0 |-> base]
  <2>1. F \in [0 .. 0 -> S] /\ Q(0, F)
    OBVIOUS
  <2> QED BY <2>1
<1>2. ASSUME NEW m \in Nat, m \in D PROVE m + 1 \in D
  <2>1. PICK F \in [0 .. m -> S] : Q(m, F)
    BY <1>2
  <2> DEFINE G == [i \in 0 .. m + 1 |-> IF i = m + 1 THEN g[<< m + 1, F[m] >>] ELSE F[i]]
  <2>2. G \in [0 .. m + 1 -> S]
    OBVIOUS
  <2>3. Q(m + 1, G)
    <3> SUFFICES ASSUME NEW i \in 0 .. m + 1
                 PROVE  G[i] = IF i = 0 THEN base ELSE g[<< i, G[i - 1] >>]
      OBVIOUS
    <3>1. CASE i = m + 1
      BY SMTT(30), <3>1
    <3>2. CASE i # m + 1
      <4>1. i \in 0 .. m /\ G[i] = F[i]
        BY <3>2
      <4>2. i # 0 => i - 1 \in 0 .. m + 1 /\ i - 1 # m + 1 /\ G[i - 1] = F[i - 1]
        BY <3>2
      <4>3. F[i] = IF i = 0 THEN base ELSE g[<< i, F[i - 1] >>]
        BY <2>1, <4>1
      <4> HIDE DEF G
      <4> QED BY <4>1, <4>2, <4>3
    <3> QED BY <3>1, <3>2
  <2> HIDE DEF G
  <2> QED BY <2>2, <2>3
<1> HIDE DEF D
<1>3. n \in D
  BY <1>1, <1>2, SetInduction
<1> QED BY <1>3 DEF D, Recursive

-----------------------------------------------------------------------------
(***************************************************************************)
(* The record of a trade.                                                  *)
(***************************************************************************)

\* Two sequences put together.
LEMMA Joined ==
    ASSUME NEW X, NEW x \in Seq(X), NEW y \in Seq(X)
    PROVE  /\ x \o y \in Seq(X) /\ Len(x \o y) = Len(x) + Len(y)
           /\ \A j \in 1 .. Len(x) : (x \o y)[j] = x[j]
           /\ \A j \in 1 .. Len(y) : (x \o y)[Len(x) + j] = y[j]
  OBVIOUS

LEMMA JoinedAppend ==
    ASSUME NEW X, NEW x \in Seq(X), NEW y \in Seq(X), NEW r \in X
    PROVE  x \o Append(y, r) = Append(x \o y, r)
  OBVIOUS

LEMMA JoinedOne ==
    ASSUME NEW X, NEW x \in Seq(X), NEW r \in X
    PROVE  x \o << r >> = Append(x, r)
  OBVIOUS

\* Concatenation under a name of its own, for lemmas to match.
Cat(x, y) == x \o y

LEMMA CatParts ==
    ASSUME NEW X, NEW x \in Seq(X), NEW y \in Seq(X)
    PROVE  /\ Cat(x, y) \in Seq(X) /\ Len(Cat(x, y)) = Len(x) + Len(y)
           /\ Len(x) \in Nat /\ Len(y) \in Nat
           /\ \A i \in 1 .. Len(x) + Len(y) :
                 Cat(x, y)[i] = IF i <= Len(x) THEN x[i] ELSE y[i - Len(x)]
  BY ConcatProperties DEF Cat

LEMMA CatThree ==
    ASSUME NEW X, NEW x \in Seq(X), NEW y \in Seq(X), NEW z \in Seq(X)
    PROVE  Cat(Cat(x, y), z) = Cat(x, Cat(y, z))
<1> DEFINE a == Cat(x, y)
           b == Cat(y, z)
<1>1. a \in Seq(X) /\ b \in Seq(X)
  BY CatParts
<1>2. Len(x) \in Nat /\ Len(y) \in Nat /\ Len(z) \in Nat
  OBVIOUS
<1>3. Len(a) = Len(x) + Len(y) /\ Len(b) = Len(y) + Len(z)
  BY CatParts
<1>4. \A i \in 1 .. Len(x) + Len(y) : a[i] = IF i <= Len(x) THEN x[i] ELSE y[i - Len(x)]
  BY CatParts
<1>5. \A i \in 1 .. Len(y) + Len(z) : b[i] = IF i <= Len(y) THEN y[i] ELSE z[i - Len(y)]
  BY CatParts
<1> HIDE DEF a, b
<1> DEFINE c == Cat(a, z)
           d == Cat(x, b)
<1>6. c \in Seq(X) /\ d \in Seq(X)
  BY <1>1, CatParts
<1>7. Len(c) = Len(a) + Len(z) /\ Len(d) = Len(x) + Len(b)
  BY <1>1, CatParts
<1>8. \A i \in 1 .. Len(a) + Len(z) : c[i] = IF i <= Len(a) THEN a[i] ELSE z[i - Len(a)]
  BY <1>1, CatParts
<1>9. \A i \in 1 .. Len(x) + Len(b) : d[i] = IF i <= Len(x) THEN x[i] ELSE b[i - Len(x)]
  BY <1>1, CatParts
<1> HIDE DEF c, d
<1>10. \A i \in 1 .. Len(c) : c[i] = d[i]
  <2> SUFFICES ASSUME NEW i \in 1 .. Len(c) PROVE c[i] = d[i]
    OBVIOUS
  <2>1. i \in 1 .. Len(a) + Len(z) /\ i \in 1 .. Len(x) + Len(b)
    BY <1>2, <1>3, <1>7
  <2>2. CASE i <= Len(x)
    BY <1>2, <1>3, <1>4, <1>8, <1>9, <2>1, <2>2
  <2>3. CASE i > Len(x) /\ i <= Len(x) + Len(y)
    BY <1>2, <1>3, <1>4, <1>5, <1>8, <1>9, <2>1, <2>3
  <2>4. CASE i > Len(x) + Len(y)
    <3>1. /\ i - Len(x) \in 1 .. Len(y) + Len(z) /\ ~(i - Len(x) <= Len(y))
          /\ i - Len(a) = (i - Len(x)) - Len(y) /\ ~(i <= Len(a)) /\ ~(i <= Len(x))
      BY <1>2, <1>3, <2>1, <2>4
    <3>2. c[i] = z[i - Len(a)]
      BY <1>8, <2>1, <3>1
    <3>3. d[i] = b[i - Len(x)]
      BY <1>9, <2>1, <3>1
    <3>4. b[i - Len(x)] = z[(i - Len(x)) - Len(y)]
      BY <1>5, <3>1
    <3> QED BY <3>1, <3>2, <3>3, <3>4
  <2> QED BY <1>2, <2>2, <2>3, <2>4
<1>11. Len(c) = Len(d)
  BY <1>2, <1>3, <1>7
<1>12. c = d
  BY <1>6, <1>10, <1>11, SeqEqual
<1> QED BY <1>12 DEF a, b, c, d

LEMMA JoinedParts ==
    ASSUME NEW X, NEW x \in Seq(X), NEW n \in 0 .. Len(x)
    PROVE  /\ SubSeq(x, 1, n) \in Seq(X) /\ SubSeq(x, n + 1, Len(x)) \in Seq(X)
           /\ Cat(SubSeq(x, 1, n), SubSeq(x, n + 1, Len(x))) = x
<1> DEFINE a == SubSeq(x, 1, n)
           b == SubSeq(x, n + 1, Len(x))
<1>1. /\ a \in Seq(X) /\ Len(a) = n /\ \A i \in 1 .. n : a[i] = x[i]
      /\ b \in Seq(X) /\ Len(b) = Len(x) - n /\ \A i \in 1 .. Len(x) - n : b[i] = x[n + i]
  OBVIOUS
<1> HIDE DEF a, b
<1>2. /\ a \o b \in Seq(X) /\ Len(a \o b) = Len(x)
      /\ \A i \in 1 .. Len(x) : (a \o b)[i] = IF i <= n THEN a[i] ELSE b[i - n]
  BY <1>1, ConcatProperties
<1>3. \A i \in 1 .. Len(x) : (a \o b)[i] = x[i]
  BY <1>1, <1>2
<1>4. a \o b = x
  BY <1>2, <1>3, SeqEqual
<1> QED BY <1>1, <1>4 DEF a, b, Cat

\* decode_wal is the inverse of encode_wal, and knows a placeholder from a trade.
LEMMA Codec ==
    /\ \A t \in Trades :
          /\ encode_wal(t) \in Payloads /\ encode_wal(t) # Torn
          /\ Decodable(encode_wal(t)) /\ decode_wal(encode_wal(t)) = t
    /\ \A r \in Placeholders :
          /\ r \in Payloads /\ r # Torn /\ ~Decodable(r)
          /\ \A t \in Trades : r # encode_wal(t)
<1>1. ASSUME NEW t \in Trades
      PROVE  Decodable(encode_wal(t)) /\ decode_wal(encode_wal(t)) = t
  <2> DEFINE e == encode_wal(t)
             b == field(t, "buyer_id")
             s == field(t, "seller_id")
             a == field(t, "aggressor_side")
             i == field(t, "trade_id")
             bits == flags(t)
  <2>1. /\ t = [fixed |-> t.fixed, buyer_id |-> t.buyer_id, seller_id |-> t.seller_id,
                aggressor_side |-> t.aggressor_side, trade_id |-> t.trade_id,
                is_direct |-> t.is_direct]
        /\ t.is_direct \in BOOLEAN /\ t.fixed # NoTime
    BY WriterAssumption
  <2>2. /\ "is_direct" \in bits <=> t.is_direct
        /\ "buyer_id" \in bits <=> t.buyer_id # None
        /\ "seller_id" \in bits <=> t.seller_id # None
        /\ "aggressor_side" \in bits <=> t.aggressor_side # None
        /\ "trade_id" \in bits <=> t.trade_id # None
    BY DEF flags, Optional
  <2>3. /\ Len(b) = step(bits, "buyer_id") /\ (t.buyer_id # None => b[1] = t.buyer_id)
        /\ Len(s) = step(bits, "seller_id") /\ (t.seller_id # None => s[1] = t.seller_id)
        /\ Len(a) = step(bits, "aggressor_side")
        /\ (t.aggressor_side # None => a[1] = t.aggressor_side)
        /\ Len(i) = step(bits, "trade_id") /\ (t.trade_id # None => i[1] = t.trade_id)
    BY <2>2 DEF field, step
  <2> DEFINE X == {t.fixed, bits, t.buyer_id, t.seller_id, t.aggressor_side, t.trade_id}
             h == << t.fixed, bits >>
  <2>4. h \in Seq(X) /\ b \in Seq(X) /\ s \in Seq(X) /\ a \in Seq(X) /\ i \in Seq(X)
    <3>1. h \in Seq(X)
      OBVIOUS
    <3>2. \A x \in X : << x >> \in Seq(X)
      OBVIOUS
    <3>3. << >> \in Seq(X)
      OBVIOUS
    <3> QED BY <3>1, <3>2, <3>3 DEF field
  <2>5. e = h \o b \o s \o a \o i
    BY DEF encode_wal
  <2>6. /\ Len(h) = 2 /\ h[1] = t.fixed /\ h[2] = bits
        /\ Len(b) \in 0 .. 1 /\ Len(s) \in 0 .. 1 /\ Len(a) \in 0 .. 1 /\ Len(i) \in 0 .. 1
    BY <2>3 DEF step
  <2> HIDE DEF h, b, s, a, i, X, bits
  <2>7. /\ Len(e) = 2 + Len(b) + Len(s) + Len(a) + Len(i)
        /\ e[1] = t.fixed /\ e[2] = bits
        /\ Len(b) = 1 => e[3] = b[1]
        /\ Len(s) = 1 => e[3 + Len(b)] = s[1]
        /\ Len(a) = 1 => e[3 + Len(b) + Len(s)] = a[1]
        /\ Len(i) = 1 => e[3 + Len(b) + Len(s) + Len(a)] = i[1]
    <3> HIDE DEF e
    <3> DEFINE hb == h \o b
               hs == hb \o s
               ha == hs \o a
    <3>1. /\ hb \in Seq(X) /\ Len(hb) = Len(h) + Len(b)
          /\ \A j \in 1 .. Len(h) : hb[j] = h[j]
          /\ \A j \in 1 .. Len(b) : hb[Len(h) + j] = b[j]
      BY <2>4, Joined
    <3> HIDE DEF hb
    <3>2. /\ hs \in Seq(X) /\ Len(hs) = Len(hb) + Len(s)
          /\ \A j \in 1 .. Len(hb) : hs[j] = hb[j]
          /\ \A j \in 1 .. Len(s) : hs[Len(hb) + j] = s[j]
      <4>1. hb \in Seq(X) /\ s \in Seq(X)
        BY <2>4, <3>1
      <4> QED BY ONLY <4>1, Joined DEF hs
    <3> HIDE DEF hs
    <3>3. /\ ha \in Seq(X) /\ Len(ha) = Len(hs) + Len(a)
          /\ \A j \in 1 .. Len(hs) : ha[j] = hs[j]
          /\ \A j \in 1 .. Len(a) : ha[Len(hs) + j] = a[j]
      <4>1. hs \in Seq(X) /\ a \in Seq(X)
        BY <2>4, <3>2
      <4> QED BY ONLY <4>1, Joined DEF ha
    <3>4. e = ha \o i
      BY <2>5 DEF hb, hs
    <3> HIDE DEF ha
    <3>5. /\ e \in Seq(X) /\ Len(e) = Len(ha) + Len(i)
          /\ \A j \in 1 .. Len(ha) : e[j] = ha[j]
          /\ \A j \in 1 .. Len(i) : e[Len(ha) + j] = i[j]
      <4>1. ha \in Seq(X) /\ i \in Seq(X)
        BY <2>4, <3>3
      <4> QED BY ONLY <4>1, <3>4, Joined
    <3> QED BY SMTT(30), <2>6, <3>1, <3>2, <3>3, <3>5
  <2> HIDE DEF e
  <2>8. Decodable(e)
    BY <2>1, <2>3, <2>6, <2>7 DEF Decodable
  <2>9. /\ read_flag(e, 2, "buyer_id") = t.buyer_id
        /\ read_flag(e, 2 + Len(b), "seller_id") = t.seller_id
        /\ read_flag(e, 2 + Len(b) + Len(s), "aggressor_side") = t.aggressor_side
        /\ read_flag(e, 2 + Len(b) + Len(s) + Len(a), "trade_id") = t.trade_id
        /\ "is_direct" \in e[2] <=> t.is_direct
    BY <2>2, <2>3, <2>6, <2>7 DEF read_flag, step
  <2>10. decode_wal(e) =
            [fixed |-> e[1], buyer_id |-> read_flag(e, 2, "buyer_id"),
             seller_id |-> read_flag(e, 2 + Len(b), "seller_id"),
             aggressor_side |-> read_flag(e, 2 + Len(b) + Len(s), "aggressor_side"),
             trade_id |-> read_flag(e, 2 + Len(b) + Len(s) + Len(a), "trade_id"),
             is_direct |-> "is_direct" \in e[2]]
    BY <2>3, <2>7 DEF decode_wal
  <2>11. ("is_direct" \in e[2]) = t.is_direct
    BY <2>1, <2>9
  <2>12. decode_wal(e) = t
    BY <2>1, <2>7, <2>9, <2>10, <2>11
  <2> QED BY <2>8, <2>12 DEF e
<1>2. ASSUME NEW r \in Placeholders PROVE ~Decodable(r)
  BY DEF Placeholders, EmptyRecord, JsonBlob, Decodable
<1>3. \A t \in Trades : encode_wal(t) \in Payloads /\ encode_wal(t) # Torn
  BY WriterAssumption DEF Payloads
<1>4. \A r \in Placeholders : r \in Payloads /\ r # Torn
  BY WriterAssumption DEF Payloads
<1> QED BY <1>1, <1>2, <1>3, <1>4

-----------------------------------------------------------------------------
(***************************************************************************)
(* The log.                                                                *)
(***************************************************************************)
Records == Payloads \cup {Torn}

\* What the log holds, written out or not.
LogOf(w) == w.file \o w.bufw

\* A record of t is in s.
Has(s, t) == \E i \in 1 .. Len(s) : s[i] = encode_wal(t)

\* No trade has two records in s.
Once(s) ==
    \A t \in Trades : \A i, j \in 1 .. Len(s) :
        s[i] = encode_wal(t) /\ s[j] = encode_wal(t) => i = j

NoRepeat(s) == \A i, j \in 1 .. Len(s) : s[i] = s[j] => i = j

\* f begins with s.
Begins(s, f) == Len(s) <= Len(f) /\ \A i \in 1 .. Len(s) : f[i] = s[i]

LEMMA BeginsHas ==
    ASSUME NEW s \in Seq(Records), NEW f \in Seq(Records), Begins(s, f)
    PROVE  \A t \in Trades : Has(s, t) => Has(f, t)
<1>1. Len(s) \in Nat /\ Len(f) \in Nat
  OBVIOUS
<1> QED BY <1>1 DEF Begins, Has

LEMMA BeginsTransitive ==
    ASSUME NEW s \in Seq(Records), NEW f \in Seq(Records), NEW g \in Seq(Records),
           Begins(s, f), Begins(f, g)
    PROVE  Begins(s, g)
<1>1. Len(s) \in Nat /\ Len(f) \in Nat /\ Len(g) \in Nat
  OBVIOUS
<1> QED BY <1>1 DEF Begins

LEMMA BeginsItself ==
    ASSUME NEW s \in Seq(Records)
    PROVE  Begins(s, s)
<1>1. Len(s) \in Nat
  OBVIOUS
<1> QED BY <1>1 DEF Begins

LEMMA IsPrefixBegins ==
    ASSUME NEW s \in Seq(Records), NEW f \in Seq(Records)
    PROVE  IsPrefix(s, f) <=> Begins(s, f)
<1>1. Len(s) \in Nat /\ Len(f) \in Nat /\ s = SubSeq(s, 1, Len(s))
  OBVIOUS
<1>2. CASE Len(s) <= Len(f)
  <2>1. PICK g : g = SubSeq(f, 1, Len(s))
    OBVIOUS
  <2>2. g \in Seq(Records) /\ Len(g) = Len(s) /\ \A i \in 1 .. Len(s) : g[i] = f[i]
    BY <1>1, <1>2, <2>1
  <2>3. ASSUME \A i \in 1 .. Len(s) : f[i] = s[i] PROVE s = g
    BY <2>2, <2>3, SeqEqual
  <2>4. IsPrefix(s, f) <=> s = g
    BY <1>1, <1>2, <2>1 DEF IsPrefix
  <2> QED BY <1>2, <2>2, <2>3, <2>4 DEF Begins
<1>3. CASE ~(Len(s) <= Len(f))
  BY <1>3 DEF Begins, IsPrefix
<1> QED BY <1>2, <1>3

\* A beginning of s has at most what s has.
LEMMA Beginning ==
    ASSUME NEW s \in Seq(Records), NEW n \in 0 .. Len(s)
    PROVE  /\ SubSeq(s, 1, n) \in Seq(Records) /\ Len(SubSeq(s, 1, n)) = n
           /\ \A i \in 1 .. n : SubSeq(s, 1, n)[i] = s[i]
           /\ Once(s) => Once(SubSeq(s, 1, n))
           /\ \A t \in Trades : Has(SubSeq(s, 1, n), t) => Has(s, t)
<1>1. /\ SubSeq(s, 1, n) \in Seq(Records) /\ Len(SubSeq(s, 1, n)) = n
      /\ \A i \in 1 .. n : SubSeq(s, 1, n)[i] = s[i]
  OBVIOUS
<1> QED BY <1>1 DEF Once, Has

\* A record at the end of s.
LEMMA Added ==
    ASSUME NEW s \in Seq(Records), NEW r \in Records
    PROVE  /\ Append(s, r) \in Seq(Records)
           /\ \A t \in Trades : Has(Append(s, r), t) <=> Has(s, t) \/ r = encode_wal(t)
           /\ Once(s) /\ (\A t \in Trades : r = encode_wal(t) => ~Has(s, t))
                 => Once(Append(s, r))
<1> DEFINE a == Append(s, r)
<1>1. /\ a \in Seq(Records) /\ Len(a) = Len(s) + 1 /\ a[Len(s) + 1] = r
      /\ \A i \in 1 .. Len(s) : a[i] = s[i]
  OBVIOUS
<1> HIDE DEF a
<1>2. ASSUME NEW t \in Trades PROVE Has(a, t) <=> Has(s, t) \/ r = encode_wal(t)
  BY <1>1 DEF Has
<1>3. ASSUME Once(s), \A t \in Trades : r = encode_wal(t) => ~Has(s, t) PROVE Once(a)
  BY <1>1, <1>3 DEF Once, Has
<1> QED BY <1>1, <1>2, <1>3 DEF a

\* What a torn record does to the log: nothing.
LEMMA AddedTorn ==
    ASSUME NEW s \in Seq(Records)
    PROVE  /\ Append(s, Torn) \in Seq(Records)
           /\ \A t \in Trades : Has(Append(s, Torn), t) <=> Has(s, t)
           /\ Once(s) => Once(Append(s, Torn))
<1>1. Torn \in Records /\ \A t \in Trades : Torn # encode_wal(t)
  BY Codec DEF Records
<1> QED BY <1>1, Added

\* Whole reads the records before the first torn one.
LEMMA WholeReads ==
    ASSUME NEW f \in Seq(Records)
    PROVE  /\ Whole(f) \in Seq(Payloads)
           /\ \A t \in Trades : Has(Whole(f), t) => Has(f, t)
           /\ Once(f) => Once(Whole(f))
           /\ (\A i \in 1 .. Len(f) : f[i] # Torn) => Whole(f) = f
<1> DEFINE a == Append(f, Torn)
           I == {i \in 1 .. Len(a) : a[i] = Torn}
           m == SelectInSeq(a, LAMBDA r : r = Torn)
<1>1. /\ Len(a) = Len(f) + 1 /\ a[Len(f) + 1] = Torn
      /\ \A i \in 1 .. Len(f) : a[i] = f[i]
  OBVIOUS
<1>2. I \in SUBSET Nat /\ Len(f) + 1 \in I
  BY <1>1
<1>3. m \in I /\ \A i \in I : m <= i
  <2>1. \E x \in I : \A y \in I : x <= y
    BY <1>2, Least
  <2>2. m = CHOOSE x \in I : \A y \in I : x <= y
    BY <1>2 DEF SelectInSeq, Min
  <2> HIDE DEF m, I
  <2> QED BY <2>1, <2>2
<1>4. m - 1 \in 0 .. Len(f) /\ \A i \in 1 .. m - 1 : f[i] # Torn
  <2>1. m \in 1 .. Len(f) + 1 /\ Len(f) \in Nat
    BY <1>1, <1>3
  <2>2. \A i \in 1 .. Len(f) : f[i] = Torn => i \in I
    BY <1>1
  <2> HIDE DEF m, I
  <2> QED BY <1>3, <2>1, <2>2
<1>5. Whole(f) = SubSeq(f, 1, m - 1)
  BY DEF Whole
<1> HIDE DEF m, I, a
<1>6. Whole(f) \in Seq(Records) /\ Len(Whole(f)) = m - 1
  BY <1>4, <1>5, Beginning
<1>7. \A i \in 1 .. Len(Whole(f)) : Whole(f)[i] \in Payloads
  <2>1. \A i \in 1 .. m - 1 : Whole(f)[i] = f[i]
    BY <1>4, <1>5, Beginning
  <2>2. \A i \in 1 .. m - 1 : f[i] \in Payloads
    BY <1>4 DEF Records
  <2> QED BY <1>6, <2>1, <2>2
<1>8. Whole(f) \in Seq(Payloads)
  BY <1>6, <1>7
<1>9. ASSUME \A i \in 1 .. Len(f) : f[i] # Torn PROVE Whole(f) = f
  <2>1. m - 1 = Len(f)
    BY <1>1, <1>3, <1>4, <1>9 DEF I
  <2> QED BY <1>5, <2>1
<1> QED BY <1>4, <1>5, <1>8, <1>9, Beginning

(***************************************************************************)
(* What recover_from_wal puts in the buffer: the trades that have a record *)
(* in the log, each as often as it has one.                                *)
(***************************************************************************)
LEMMA RecoveredTrades ==
    ASSUME NEW rs \in Seq(Payloads)
    PROVE  /\ recovered(rs) \in Seq(Trades)
           /\ \A t \in Trades : t \in ToSet(recovered(rs)) <=> Has(rs, t)
           /\ Once(rs) => NoRepeat(recovered(rs))
<1> DEFINE g == [p \in Nat \X Seq(Trades) |->
                    IF p[1] \in 1 .. Len(rs) /\ Decodable(rs[p[1]])
                    THEN Append(p[2], decode_wal(rs[p[1]])) ELSE p[2]]
           body(F, i) == IF i = 0 THEN << >>
                         ELSE IF Decodable(rs[i]) THEN Append(F[i - 1], decode_wal(rs[i]))
                         ELSE F[i - 1]
<1>1. \A i \in 1 .. Len(rs) : Decodable(rs[i]) =>
         decode_wal(rs[i]) \in Trades /\ rs[i] = encode_wal(decode_wal(rs[i]))
  <2> SUFFICES ASSUME NEW i \in 1 .. Len(rs), Decodable(rs[i])
               PROVE  decode_wal(rs[i]) \in Trades /\ rs[i] = encode_wal(decode_wal(rs[i]))
    OBVIOUS
  <2>1. rs[i] \in {encode_wal(t) : t \in Trades} \cup Placeholders
    BY DEF Payloads
  <2> QED BY <2>1, Codec
<1>2. << >> \in Seq(Trades) /\ g \in [Nat \X Seq(Trades) -> Seq(Trades)] /\ Len(rs) \in Nat
  BY <1>1
<1>3. PICK F \in [0 .. Len(rs) -> Seq(Trades)] :
         \A i \in 0 .. Len(rs) : F[i] = IF i = 0 THEN << >> ELSE g[<< i, F[i - 1] >>]
  <2> DEFINE n == Len(rs)
             base == << >>
             S == Seq(Trades)
  <2>1. base \in S /\ g \in [Nat \X S -> S] /\ n \in Nat
    BY <1>2
  <2> HIDE DEF g, base, n, S
  <2>2. \E F \in [0 .. n -> S] : Recursive(F, base, g, n)
    BY ONLY <2>1, Recursion
  <2> QED BY <2>2 DEF n, base, S, Recursive
<1>4. \A i \in 0 .. Len(rs) : F[i] = body(F, i)
  BY <1>3
<1>5. F = [i \in 0 .. Len(rs) |-> body(F, i)]
  BY <1>4
<1> DEFINE G == CHOOSE G : G = [i \in 0 .. Len(rs) |-> body(G, i)]
<1>6. G = [i \in 0 .. Len(rs) |-> body(G, i)]
  <2> HIDE DEF body
  <2> QED BY <1>5
<1>7. recovered(rs) = G[Len(rs)]
  BY DEF recovered
<1> HIDE DEF G
<1>8. /\ G[0] = << >>
      /\ \A i \in 1 .. Len(rs) :
            G[i] = IF Decodable(rs[i]) THEN Append(G[i - 1], decode_wal(rs[i])) ELSE G[i - 1]
  <2>1. \A i \in 0 .. Len(rs) : G[i] = body(G, i)
    <3> HIDE DEF body
    <3> QED BY <1>6
  <2>2. 0 \in 0 .. Len(rs) /\ \A i \in 1 .. Len(rs) : i \in 0 .. Len(rs) /\ i # 0
    BY <1>2
  <2> QED BY <2>1, <2>2
<1> DEFINE Upto(n, t) == \E m \in 1 .. n : rs[m] = encode_wal(t)
           Good(n) == /\ G[n] \in Seq(Trades)
                      /\ \A t \in Trades :
                            (\E j \in 1 .. Len(G[n]) : G[n][j] = t) <=> Upto(n, t)
                      /\ Once(rs) => NoRepeat(G[n])
           D == {n \in Nat : n <= Len(rs) => Good(n)}
<1>9. Good(0)
  <2>1. G[0] = << >> /\ Len(G[0]) = 0 /\ << >> \in Seq(Trades)
    BY <1>8
  <2> QED BY <2>1 DEF NoRepeat
<1>10. ASSUME NEW n \in Nat, Good(n), n + 1 <= Len(rs) PROVE Good(n + 1)
  <2> DEFINE old == G[n]
             new == G[n + 1]
             r == rs[n + 1]
             d == decode_wal(r)
  <2>1. /\ old \in Seq(Trades)
        /\ \A t \in Trades : (\E j \in 1 .. Len(old) : old[j] = t) <=> Upto(n, t)
        /\ Once(rs) => NoRepeat(old)
    BY <1>10
  <2>2. new = IF Decodable(r) THEN Append(old, d) ELSE old
    <3>1. n + 1 \in 1 .. Len(rs) /\ (n + 1) - 1 = n
      BY <1>10
    <3> QED BY <1>8, <3>1
  <2>3. r \in Payloads /\ n + 1 \in 1 .. Len(rs)
    OBVIOUS
  <2>4. Decodable(r) => d \in Trades /\ r = encode_wal(d)
    BY <1>1, <2>3
  <2>5. \A t \in Trades : Upto(n + 1, t) <=> Upto(n, t) \/ r = encode_wal(t)
    OBVIOUS
  <2>6. \A t \in Trades : r = encode_wal(t) => Decodable(r) /\ d = t
    BY Codec
  <2>7. ASSUME Once(rs), Decodable(r) PROVE ~Upto(n, d)
    BY <2>3, <2>4, <2>7 DEF Once
  <2> HIDE DEF old, new, r, d, Upto
  <2>8. CASE ~Decodable(r)
    BY <2>1, <2>2, <2>5, <2>6, <2>8 DEF old, new
  <2>9. CASE Decodable(r)
    <3>1. new \in Seq(Trades) /\ Len(new) = Len(old) + 1 /\ new[Len(old) + 1] = d
      BY <2>1, <2>2, <2>4, <2>9
    <3>2. \A j \in 1 .. Len(old) : new[j] = old[j]
      BY <2>1, <2>2, <2>4, <2>9
    <3>3. \A t \in Trades : (\E j \in 1 .. Len(new) : new[j] = t) <=> Upto(n + 1, t)
      <4>1. \A t \in Trades : (\E j \in 1 .. Len(new) : new[j] = t)
                                 <=> (\E j \in 1 .. Len(old) : old[j] = t) \/ t = d
        <5>1. Len(old) \in Nat /\ 1 .. Len(new) = (1 .. Len(old)) \cup {Len(old) + 1}
          BY <2>1, <3>1
        <5> QED BY <5>1, <3>1, <3>2
      <4>2. \A t \in Trades : r = encode_wal(t) <=> t = d
        BY <2>4, <2>6, <2>9
      <4> QED BY <4>1, <4>2, <2>1, <2>5
    <3>4. ASSUME Once(rs) PROVE NoRepeat(new)
      <4>1. ~ \E j \in 1 .. Len(old) : old[j] = d
        BY <2>1, <2>4, <2>7, <2>9, <3>4
      <4>2. NoRepeat(old)
        BY <2>1, <3>4
      <4>3. Len(old) \in Nat /\ 1 .. Len(new) = (1 .. Len(old)) \cup {Len(old) + 1}
        BY <2>1, <3>1
      <4> QED BY <4>1, <4>2, <4>3, <3>1, <3>2 DEF NoRepeat
    <3> QED BY <3>1, <3>3, <3>4 DEF new
  <2> QED BY <2>8, <2>9
<1>11. Good(Len(rs))
  <2> HIDE DEF Good
  <2>1. 0 \in D /\ \A n \in Nat : n \in D => n + 1 \in D
    BY <1>9, <1>10
  <2> HIDE DEF D
  <2>2. Nat \subseteq D
    BY <2>1, SetInduction
  <2> QED BY <1>2, <2>2 DEF D
<1>12. /\ recovered(rs) \in Seq(Trades)
       /\ \A t \in Trades : (\E j \in 1 .. Len(recovered(rs)) : recovered(rs)[j] = t)
                               <=> Upto(Len(rs), t)
       /\ Once(rs) => NoRepeat(recovered(rs))
  BY <1>7, <1>11
<1> QED BY <1>12 DEF ToSet, Has

-----------------------------------------------------------------------------
(***************************************************************************)
(* What the operations of the log do to what it holds.                     *)
(***************************************************************************)

\* The flag of a split record.
Flag(s) == s \in BOOLEAN
No == FALSE

\* The log with these fields.
Log(f, b, s, d) == [file |-> f, bufw |-> b, split |-> s, durable |-> d]

LEMMA LogFields ==
    ASSUME NEW f, NEW b, NEW s, NEW d
    PROVE  /\ Log(f, b, s, d).file = f /\ Log(f, b, s, d).bufw = b
           /\ Log(f, b, s, d).split = s /\ Log(f, b, s, d).durable = d
  BY DEF Log

LEMMA LogShape ==
    ASSUME NEW w \in Wals(Payloads)
    PROVE  \E f, b, d \in Seq(Records) : \E s : Flag(s) /\ w = Log(f, b, s, d)
<1>1. w.file \in Seq(Records) /\ w.bufw \in Seq(Records) /\ w.durable \in Seq(Records)
  BY DEF Wals, Records
<1>2. w = Log(w.file, w.bufw, w.split, w.durable) /\ Flag(w.split)
  BY DEF Wals, Log, Flag
<1> QED BY <1>1, <1>2

LEMMA LogMade ==
    ASSUME NEW f \in Seq(Records), NEW b \in Seq(Records), NEW d \in Seq(Records),
           NEW s, Flag(s)
    PROVE  Log(f, b, s, d) \in Wals(Payloads)
  BY DEF Wals, Records, Log, Flag

LEMMA NoFlag == Flag(No)
  BY DEF Flag, No

\* The types of the fields, and the file as part of the log.
LEMMA WalParts ==
    ASSUME NEW w \in Wals(Payloads)
    PROVE  /\ w.file \in Seq(Records) /\ w.bufw \in Seq(Records) /\ w.durable \in Seq(Records)
           /\ w.split \in BOOLEAN /\ LogOf(w) \in Seq(Records)
           /\ Begins(w.file, LogOf(w))
           /\ \A t \in Trades : Has(w.file, t) => Has(LogOf(w), t)
           /\ Once(LogOf(w)) => Once(w.file)
<1>0. PICK f, b, d \in Seq(Records) : \E s : Flag(s) /\ w = Log(f, b, s, d)
  BY LogShape
<1>1. PICK s : Flag(s) /\ w = Log(f, b, s, d)
  BY <1>0
<1>2. /\ w.file = f /\ w.bufw = b /\ w.durable = d /\ w.split = s /\ LogOf(w) = f \o b
  <2>1. w.file = f /\ w.bufw = b /\ w.durable = d /\ w.split = s
    BY <1>1, LogFields
  <2> QED BY <2>1 DEF LogOf
<1>3. f \o b \in Seq(Records) /\ \A i \in 1 .. Len(f) : i \in 1 .. Len(f \o b) /\ (f \o b)[i] = f[i]
  OBVIOUS
<1>4. /\ \A t \in Trades : Has(f, t) => Has(f \o b, t)
      /\ Once(f \o b) => Once(f)
  BY <1>3 DEF Has, Once
<1>5. Begins(f, f \o b)
  <2>1. Len(f) <= Len(f \o b)
    OBVIOUS
  <2> QED BY <1>3, <2>1 DEF Begins
<1> QED BY <1>1, <1>2, <1>3, <1>4, <1>5 DEF Flag

LEMMA Opened ==
    ASSUME NEW f \in Seq(Records), NEW d \in Seq(Records)
    PROVE  /\ open(f, d) \in Wals(Payloads) /\ LogOf(open(f, d)) = f
           /\ open(f, d).durable = d /\ open(f, d).file = f /\ open(f, d).bufw = << >>
<1>1. open(f, d) = Log(f, << >>, No, d)
  BY DEF open, Log, No
<1>2. << >> \in Seq(Records) /\ f \o << >> = f
  BY ConcatEmptySeq
<1>3. open(f, d) \in Wals(Payloads)
  BY <1>1, <1>2, LogMade, NoFlag
<1>4. open(f, d).durable = d /\ open(f, d).file = f /\ open(f, d).bufw = << >>
  BY <1>1, LogFields
<1>5. LogOf(open(f, d)) = f \o << >>
  BY <1>4 DEF LogOf
<1> QED BY <1>2, <1>3, <1>4, <1>5

LEMMA Flushed ==
    ASSUME NEW w, NEW f, NEW b, NEW s, NEW d, w = Log(f, b, s, d)
    PROVE  flush_buf(w) = Log(LogOf(w), << >>, No, d)
<1>1. flush_buf(w) = [w EXCEPT !.file = LogOf(w), !.bufw = << >>, !.split = No]
  <2> DEFINE e == << >>
  <2>1. w = [file |-> f, bufw |-> b, split |-> s, durable |-> d]
    BY DEF Log
  <2> QED BY <2>1 DEF flush_buf, LogOf, No
<1> DEFINE e == << >>
           g == LogOf(w)
<1>2. flush_buf(w) = [w EXCEPT !.file = g, !.bufw = e, !.split = No]
  BY <1>1
<1> HIDE DEF e, g
<1>3. flush_buf(w) = Log(g, e, No, d)
  BY <1>2 DEF Log
<1> QED BY <1>3 DEF e, g

LEMMA Appended ==
    ASSUME NEW w \in Wals(Payloads), NEW r \in Records, NEW v \in append(w, r)
    PROVE  /\ v \in Wals(Payloads) /\ v.durable = w.durable
           /\ LogOf(v) = Append(LogOf(w), r)
           /\ Begins(w.file, v.file)
<1>0. PICK f, b, d \in Seq(Records) : \E s : Flag(s) /\ w = Log(f, b, s, d)
  BY LogShape
<1>1. PICK s : Flag(s) /\ w = Log(f, b, s, d)
  BY <1>0
<1> DEFINE fb == LogOf(w)
           br == Append(b, r)
           e == << >>
           one == << r >>
<1>2. w.file = f /\ w.bufw = b /\ w.durable = d /\ fb = f \o b /\ fb \in Seq(Records)
  <2>1. w.file = f /\ w.bufw = b /\ w.durable = d
    BY <1>1, LogFields
  <2>2. LogOf(w) \in Seq(Records)
    BY WalParts
  <2> QED BY <2>1, <2>2 DEF LogOf
<1>3. /\ br \in Seq(Records) /\ one \in Seq(Records)
      /\ f \o br = Append(f \o b, r) /\ fb \o one = Append(fb, r)
  BY <1>2, JoinedAppend, JoinedOne
<1>4. v = [w EXCEPT !.bufw = br]
         \/ \E z \in BOOLEAN : v = [flush_buf(w) EXCEPT !.bufw = one, !.split = z]
  BY <1>2 DEF append
<1>5. flush_buf(w) = Log(fb, e, No, d)
  BY <1>1, Flushed
<1> HIDE DEF fb, br, one, e
<1>6. v = Log(f, br, s, d) \/ \E z : Flag(z) /\ v = Log(fb, one, z, d)
  <2>1. CASE v = [w EXCEPT !.bufw = br]
    BY <1>1, <2>1 DEF Log
  <2>2. ASSUME NEW z
        PROVE  [flush_buf(w) EXCEPT !.bufw = one, !.split = z] = Log(fb, one, z, d)
    <3> DEFINE u == flush_buf(w)
    <3>1. u = Log(fb, e, No, d)
      BY <1>5
    <3> HIDE DEF u
    <3>2. u = [file |-> fb, bufw |-> e, split |-> No, durable |-> d]
      BY <3>1 DEF Log
    <3>3. [u EXCEPT !.bufw = one, !.split = z]
             = [file |-> fb, bufw |-> one, split |-> z, durable |-> d]
      <4> DEFINE x == [u EXCEPT !.bufw = one]
      <4>1. x = [file |-> fb, bufw |-> one, split |-> No, durable |-> d]
        BY <3>2
      <4> HIDE DEF x
      <4>2. [x EXCEPT !.split = z] = [file |-> fb, bufw |-> one, split |-> z, durable |-> d]
        BY <4>1
      <4> QED BY <4>2 DEF x
    <3>4. [u EXCEPT !.bufw = one, !.split = z] = Log(fb, one, z, d)
      BY <3>3 DEF Log
    <3> QED BY <3>4 DEF u
  <2> QED BY <1>4, <2>1, <2>2 DEF Flag
<1>7. CASE v = Log(f, br, s, d)
  <2>1. v \in Wals(Payloads)
    BY <1>1, <1>3, <1>7, LogMade
  <2>2. v.durable = d /\ v.file = f /\ v.bufw = br
    BY <1>7, LogFields
  <2>3. Begins(f, f)
    BY BeginsItself
  <2> QED BY <1>2, <1>3, <2>1, <2>2, <2>3 DEF LogOf, fb
<1>8. ASSUME NEW z, Flag(z), v = Log(fb, one, z, d)
      PROVE  /\ v \in Wals(Payloads) /\ v.durable = w.durable
             /\ LogOf(v) = Append(LogOf(w), r)
             /\ Begins(w.file, v.file)
  <2>1. v \in Wals(Payloads)
    BY <1>2, <1>3, <1>8, LogMade
  <2>2. v.durable = d /\ v.file = fb /\ v.bufw = one
    BY <1>8, LogFields
  <2>3. Begins(w.file, fb)
    BY WalParts DEF fb
  <2>4. LogOf(v) = fb \o one
    BY <2>2 DEF LogOf
  <2> QED BY <1>2, <1>3, <2>1, <2>2, <2>3, <2>4 DEF fb
<1> QED BY <1>6, <1>7, <1>8

LEMMA AppendFailed ==
    ASSUME NEW w \in Wals(Payloads), NEW v \in append_err(w)
    PROVE  /\ v \in Wals(Payloads) /\ v.durable = w.durable
           /\ LogOf(v) = LogOf(w) \/ LogOf(v) = Append(LogOf(w), Torn)
<1>1. CASE v = w
  BY <1>1
<1>2. CASE v = [w EXCEPT !.bufw = Append(@, Torn)]
  <2>0. PICK f, b, d \in Seq(Records) : \E s : Flag(s) /\ w = Log(f, b, s, d)
    BY LogShape
  <2>1. PICK s : Flag(s) /\ w = Log(f, b, s, d)
    BY <2>0
  <2> DEFINE bt == Append(b, Torn)
  <2>2. w.file = f /\ w.bufw = b /\ w.durable = d
    BY <2>1, LogFields
  <2>3. Torn \in Records
    BY DEF Records
  <2>4. bt \in Seq(Records) /\ f \o bt = Append(f \o b, Torn)
    BY <2>3, JoinedAppend
  <2>5. v = [w EXCEPT !.bufw = bt]
    BY <1>2, <2>2
  <2> HIDE DEF bt
  <2>6. v = Log(f, bt, s, d)
    BY <2>1, <2>5 DEF Log
  <2>7. v \in Wals(Payloads)
    BY <2>1, <2>4, <2>6, LogMade
  <2>8. v.durable = d /\ v.file = f /\ v.bufw = bt
    BY <2>6, LogFields
  <2> QED BY <2>2, <2>4, <2>7, <2>8 DEF LogOf
<1> QED BY <1>1, <1>2 DEF append_err

LEMMA FlushFailed ==
    ASSUME NEW w \in Wals(Payloads), NEW v \in flush_err(w)
    PROVE  v \in Wals(Payloads) /\ v.durable = w.durable /\ LogOf(v) = LogOf(w)
<1>0. PICK f, b, d \in Seq(Records) : \E s : Flag(s) /\ w = Log(f, b, s, d)
  BY LogShape
<1>1. PICK s : Flag(s) /\ w = Log(f, b, s, d)
  BY <1>0
<1>2. w.file = f /\ w.bufw = b /\ w.durable = d
  BY <1>1, LogFields
<1>3. PICK n \in 0 .. Len(b) : \E z \in BOOLEAN : v = Written(w, n, z)
  BY <1>2 DEF flush_err
<1> DEFINE p == SubSeq(b, 1, n)
           q == SubSeq(b, n + 1, Len(b))
           fp == Cat(f, p)
<1>4. \E z \in BOOLEAN : v = [w EXCEPT !.file = fp, !.bufw = q, !.split = z]
  <2>1. PICK z \in BOOLEAN : v = Written(w, n, z)
    BY <1>3
  <2>2. w = [file |-> f, bufw |-> b, split |-> s, durable |-> d]
    BY <1>1 DEF Log
  <2>3. v = [w EXCEPT !.file = fp, !.bufw = q, !.split = z]
    BY <2>1, <2>2 DEF Written, Cat
  <2> QED BY <2>3
<1>5. p \in Seq(Records) /\ q \in Seq(Records) /\ Cat(p, q) = b
  BY JoinedParts
<1> HIDE DEF p, q
<1>6. fp \in Seq(Records)
  BY <1>5, CatParts
<1>10. Cat(fp, q) = Cat(f, b)
  BY <1>5, CatThree
<1> HIDE DEF fp
<1>7. PICK z : Flag(z) /\ v = Log(fp, q, z, d)
  BY <1>1, <1>4 DEF Flag, Log
<1>8. v \in Wals(Payloads)
  BY <1>5, <1>6, <1>7, LogMade
<1>9. v.durable = d /\ v.file = fp /\ v.bufw = q
  BY <1>7, LogFields
<1> QED BY <1>2, <1>8, <1>9, <1>10 DEF LogOf, Cat

LEMMA Synced ==
    ASSUME NEW w \in Wals(Payloads)
    PROVE  /\ sync(w) \in Wals(Payloads) /\ LogOf(sync(w)) = LogOf(w)
           /\ sync(w).durable = LogOf(w) /\ sync(w).file = LogOf(w)
<1>0. PICK f, b, d \in Seq(Records) : \E s : Flag(s) /\ w = Log(f, b, s, d)
  BY LogShape
<1>1. PICK s : Flag(s) /\ w = Log(f, b, s, d)
  BY <1>0
<1> DEFINE fb == LogOf(w)
           e == << >>
           u == flush_buf(w)
<1>2. fb \in Seq(Records) /\ e \in Seq(Records) /\ fb \o e = fb
  BY WalParts, ConcatEmptySeq
<1>3. u = Log(fb, e, No, d)
  BY <1>1, Flushed
<1>4. sync(w) = [u EXCEPT !.durable = fb]
  BY DEF sync, LogOf
<1> HIDE DEF fb, e, u
<1>5. sync(w) = Log(fb, e, No, fb)
  BY <1>3, <1>4 DEF Log
<1>6. sync(w) \in Wals(Payloads)
  BY <1>2, <1>5, LogMade, NoFlag
<1>7. sync(w).durable = fb /\ sync(w).file = fb /\ sync(w).bufw = e
  BY <1>5, LogFields
<1>8. LogOf(sync(w)) = fb
  BY <1>2, <1>7 DEF LogOf
<1> QED BY <1>6, <1>7, <1>8 DEF fb

LEMMA Truncated ==
    ASSUME NEW w \in Wals(Payloads)
    PROVE  /\ truncate(w) \in Wals(Payloads) /\ LogOf(truncate(w)) = << >>
           /\ truncate(w).durable = w.durable
<1>0. PICK f, b, d \in Seq(Records) : \E s : Flag(s) /\ w = Log(f, b, s, d)
  BY LogShape
<1>1. PICK s : Flag(s) /\ w = Log(f, b, s, d)
  BY <1>0
<1> DEFINE e == << >>
           u == flush_buf(w)
           fb == LogOf(w)
<1>2. u = Log(fb, e, No, d)
  BY <1>1, Flushed
<1>3. truncate(w) = [u EXCEPT !.file = e]
  BY DEF truncate
<1>4. e \in Seq(Records) /\ e \o e = e
  OBVIOUS
<1> HIDE DEF e, u, fb
<1>5. truncate(w) = Log(e, e, No, d)
  BY <1>2, <1>3 DEF Log
<1>6. truncate(w) \in Wals(Payloads)
  BY <1>4, <1>5, LogMade, NoFlag
<1>7. truncate(w).durable = d /\ truncate(w).file = e /\ truncate(w).bufw = e
  BY <1>5, LogFields
<1>8. LogOf(truncate(w)) = e
  BY <1>4, <1>7 DEF LogOf
<1>9. w.durable = d
  BY <1>1, LogFields
<1> QED BY <1>6, <1>7, <1>8, <1>9 DEF e

\* The file a crash of the process leaves.
LEMMA LeftByProcess ==
    ASSUME NEW w \in Wals(Payloads)
    PROVE  /\ ProcessDies(w) \in Seq(Records)
           /\ Begins(w.file, ProcessDies(w))
           /\ \A t \in Trades : Has(ProcessDies(w), t) <=> Has(w.file, t)
           /\ Once(LogOf(w)) => Once(ProcessDies(w))
<1>1. /\ ProcessDies(w) \in Seq(Records)
      /\ \A t \in Trades : Has(ProcessDies(w), t) <=> Has(w.file, t)
      /\ Once(LogOf(w)) => Once(ProcessDies(w))
  BY WalParts, AddedTorn DEF ProcessDies
<1>2. PICK f \in Seq(Records) : f = w.file
  BY WalParts
<1>3. Begins(f, f) /\ Begins(f, Append(f, Torn))
  BY BeginsItself DEF Begins, Records
<1> QED BY <1>1, <1>2, <1>3 DEF ProcessDies

\* The file a power loss leaves.
LEMMA LeftByPower ==
    ASSUME NEW w \in Wals(Payloads), NEW f \in PowerLost(w)
    PROVE  /\ f \in Seq(Records)
           /\ \A t \in Trades : Has(f, t) => Has(LogOf(w), t) \/ Has(w.durable, t)
           /\ Once(LogOf(w)) /\ Once(w.durable) => Once(f)
           /\ Begins(w.durable, w.file) => Begins(w.durable, f)
<1> DEFINE p == ProcessDies(w)
<1>1. /\ p \in Seq(Records) /\ Len(p) \in Nat
      /\ \A t \in Trades : Has(p, t) => Has(LogOf(w), t)
      /\ Once(LogOf(w)) => Once(p)
  BY LeftByProcess, WalParts
<1>2. ASSUME f = w.durable
      PROVE  f \in Seq(Records) /\ \A t \in Trades : Has(f, t) => Has(w.durable, t)
  BY <1>2, WalParts
<1>3. ASSUME NEW n \in 0 .. Len(p), f = SubSeq(p, 1, n)
      PROVE  /\ f \in Seq(Records) /\ \A t \in Trades : Has(f, t) => Has(LogOf(w), t)
             /\ Once(LogOf(w)) => Once(f)
  <2> HIDE DEF p
  <2> QED BY <1>1, <1>3, Beginning
<1>4. ASSUME NEW n \in 0 .. Len(p) - 1, f = Append(SubSeq(p, 1, n), Torn)
      PROVE  /\ f \in Seq(Records) /\ \A t \in Trades : Has(f, t) => Has(LogOf(w), t)
             /\ Once(LogOf(w)) => Once(f)
  <2> DEFINE b == SubSeq(p, 1, n)
  <2>1. n \in 0 .. Len(p)
    BY <1>1
  <2> HIDE DEF p
  <2>2. /\ b \in Seq(Records) /\ \A t \in Trades : Has(b, t) => Has(p, t)
        /\ Once(p) => Once(b)
    BY <1>1, <2>1, Beginning
  <2> HIDE DEF b
  <2> QED BY <1>1, <1>4, <2>2, AddedTorn DEF b
<1>5. \/ f = w.durable
      \/ \E n \in 0 .. Len(p) : f = SubSeq(p, 1, n)
      \/ \E n \in 0 .. Len(p) - 1 : f = Append(SubSeq(p, 1, n), Torn)
  BY DEF PowerLost
<1>6. f = w.durable \/ (IsPrefix(w.durable, p) => IsPrefix(w.durable, f))
  BY DEF PowerLost
<1>7. f \in Seq(Records)
  BY <1>2, <1>3, <1>4, <1>5
<1>8. ASSUME Begins(w.durable, w.file) PROVE Begins(w.durable, f)
  <2>1. PICK d \in Seq(Records) : d = w.durable
    BY WalParts
  <2>2. w.file \in Seq(Records) /\ Begins(d, w.file) /\ Begins(w.file, p)
    BY <1>8, <2>1, WalParts, LeftByProcess
  <2> HIDE DEF p
  <2>3. Begins(d, p)
    BY <1>1, <2>2, BeginsTransitive
  <2>4. Begins(d, d) /\ IsPrefix(d, p)
    BY <1>1, <2>3, BeginsItself, IsPrefixBegins
  <2>5. CASE f = d
    BY <2>1, <2>4, <2>5
  <2>6. CASE IsPrefix(d, f)
    BY <1>7, <2>1, <2>6, IsPrefixBegins
  <2> QED BY <1>6, <2>1, <2>4, <2>5, <2>6
<1>9. Once(LogOf(w)) /\ Once(w.durable) => Once(f)
  BY <1>3, <1>4, <1>5
<1>10. \A t \in Trades : Has(f, t) => Has(LogOf(w), t) \/ Has(w.durable, t)
  BY <1>2, <1>3, <1>4, <1>5
<1> QED BY <1>7, <1>8, <1>9, <1>10

-----------------------------------------------------------------------------
(***************************************************************************)
(* Sequences of trades.                                                    *)
(***************************************************************************)
LEMMA InSequence ==
    ASSUME NEW X, NEW s \in Seq(X)
    PROVE  \A x : x \in ToSet(s) <=> \E i \in 1 .. Len(s) : s[i] = x
  BY DEF ToSet

LEMMA EmptyTrades == << >> \in Seq(Trades) /\ ToSet(<< >>) = {} /\ NoRepeat(<< >>)
  BY DEF ToSet, NoRepeat

LEMMA PushedTrade ==
    ASSUME NEW s \in Seq(Trades), NEW t \in Trades
    PROVE  /\ Append(s, t) \in Seq(Trades)
           /\ ToSet(Append(s, t)) = ToSet(s) \cup {t}
           /\ NoRepeat(s) /\ t \notin ToSet(s) => NoRepeat(Append(s, t))
<1> DEFINE a == Append(s, t)
<1>1. a \in Seq(Trades)
  OBVIOUS
<1>2. /\ Len(a) = Len(s) + 1 /\ a[Len(s) + 1] = t /\ \A i \in 1 .. Len(s) : a[i] = s[i]
      /\ Len(s) \in Nat
  OBVIOUS
<1>3. \A x : x \in ToSet(s) <=> \E i \in 1 .. Len(s) : s[i] = x
  BY InSequence
<1>4. \A x : x \in ToSet(a) <=> \E i \in 1 .. Len(a) : a[i] = x
  BY <1>1, InSequence
<1> HIDE DEF a
<1>5. 1 .. Len(a) = (1 .. Len(s)) \cup {Len(s) + 1}
  BY <1>2
<1>6. ToSet(a) = ToSet(s) \cup {t}
  BY <1>2, <1>3, <1>4, <1>5
<1>7. ASSUME NoRepeat(s), t \notin ToSet(s) PROVE NoRepeat(a)
  BY <1>2, <1>3, <1>5, <1>7 DEF NoRepeat
<1> QED BY <1>1, <1>6, <1>7 DEF a

\* What a stage call pushes.
LEMMA OneToPush ==
    ASSUME NEW s \in Seq(Trades), NEW t \in Trades
    PROVE  s \o SetToSeq({t}) = Append(s, t)
<1>1. Cardinality({t}) = 1
  BY FS_Singleton
<1>2. SetToSeq({t}) = << t >>
  <2> DEFINE one == [i \in 1 .. 1 |-> t]
  <2>1. one \in [1 .. 1 -> {t}] /\ IsInjective(one)
    BY DEF IsInjective
  <2>2. \A f \in [1 .. 1 -> {t}] : f = one
    OBVIOUS
  <2>3. SetToSeq({t}) = one
    BY <1>1, <2>1, <2>2 DEF SetToSeq
  <2>4. one = << t >>
    OBVIOUS
  <2> QED BY <2>3, <2>4
<1> DEFINE x == SetToSeq({t})
<1> HIDE DEF x
<1>3. x = << t >>
  BY <1>2 DEF x
<1>4. x \in Seq(Trades) /\ Len(x) = 1 /\ x[1] = t
  BY <1>3
<1>5. Cat(s, x) \in Seq(Trades) /\ Len(Cat(s, x)) = Len(s) + 1 /\ Len(s) \in Nat
  <2>1. x \in Seq(Trades)
    BY <1>4
  <2>2. Cat(s, x) \in Seq(Trades) /\ Len(Cat(s, x)) = Len(s) + Len(x) /\ Len(s) \in Nat
    BY <2>1, CatParts
  <2> QED BY <1>4, <2>2
<1>6. \A i \in 1 .. Len(s) + 1 : Cat(s, x)[i] = IF i <= Len(s) THEN s[i] ELSE t
  <2>1. \A i \in 1 .. Len(s) + Len(x) : Cat(s, x)[i] = IF i <= Len(s) THEN s[i] ELSE x[i - Len(s)]
    BY <1>4, CatParts
  <2> QED BY <1>4, <1>5, <2>1
<1>7. /\ Append(s, t) \in Seq(Trades) /\ Len(Append(s, t)) = Len(s) + 1
      /\ \A i \in 1 .. Len(s) + 1 : Append(s, t)[i] = IF i <= Len(s) THEN s[i] ELSE t
  OBVIOUS
<1>8. Cat(s, x) = Append(s, t)
  <2> DEFINE a == Append(s, t)
             c == Cat(s, x)
  <2> HIDE DEF a, c
  <2>1. a \in Seq(Trades) /\ c \in Seq(Trades) /\ Len(a) = Len(c) /\ \A i \in 1 .. Len(c) : c[i] = a[i]
    BY <1>5, <1>6, <1>7 DEF a, c
  <2>2. c = a
    BY <2>1, SeqEqual
  <2> QED BY <2>2 DEF a, c
<1> QED BY <1>8 DEF x, Cat

\* What the INSERT of a batch without repeats does.
LEMMA RowsAfter ==
    ASSUME NEW batch \in Seq(Trades), NoRepeat(batch), NEW t \in Trades, db \in [Trades -> Nat]
    PROVE  /\ rows_after(batch) \in [Trades -> Nat]
           /\ t \notin ToSet(batch) => rows_after(batch)[t] = db[t]
           /\ t \in ToSet(batch) =>
                 rows_after(batch)[t] = IF t \in NoTradeId THEN db[t] + 1 ELSE 1
<1>1. ASSUME NEW u \in ToSet(batch)
      PROVE  Cardinality({i \in DOMAIN batch : batch[i] = u}) = 1
  <2>1. PICK i \in 1 .. Len(batch) : batch[i] = u
    BY InSequence
  <2>2. {j \in DOMAIN batch : batch[j] = u} = {i}
    BY <2>1 DEF NoRepeat
  <2> QED BY <2>2, FS_Singleton
<1>2. rows_after(batch) =
         [u \in Trades |-> IF u \notin ToSet(batch) THEN db[u]
                           ELSE IF u \in NoTradeId THEN db[u] + 1 ELSE 1]
  BY <1>1 DEF rows_after
<1> QED BY <1>2

-----------------------------------------------------------------------------
(***************************************************************************)
(* The invariant of OncePerIncarnation.                                    *)
(***************************************************************************)

\* The trades task k has in its hands and has not inserted yet.
Held(k) ==
    IF task[k].pc = "push" THEN task[k].staging
    ELSE IF task[k].pc \in {"sync", "insert"} THEN ToSet(task[k].batch)
    ELSE {}

\* The locals of a task.
Locals ==
    \A k \in Tasks :
        /\ task[k].pc = "push" => \E t \in Trades : task[k].staging = {t}
        /\ NoRepeat(task[k].batch)

\* A trade is in the buffer or in the hands of one task, once.
Apart ==
    /\ NoRepeat(buffer)
    /\ \A k \in Tasks : Held(k) \cap ToSet(buffer) = {}
    /\ \A k, l \in Tasks : k # l => Held(k) \cap Held(l) = {}

\* A trade that has not been staged is nowhere.
FreshNowhere ==
    \A t \in fresh :
        /\ ~Has(LogOf(wal), t) /\ ~Has(wal.durable, t)
        /\ t \notin ToSet(buffer) /\ \A k \in Tasks : t \notin Held(k)
        /\ db[t] = 0

\* The log has at most one record of a trade.
LogOnce == Once(LogOf(wal)) /\ Once(wal.durable)

\* One row for every run of the process, the next one included while the trade
\* is in memory.
Rows ==
    \A t \in Trades :
        IF t \notin NoTradeId THEN db[t] <= 1
        ELSE /\ up => db[t] <= 1 + crashes
             /\ ~up => db[t] <= crashes
             /\ t \in ToSet(buffer) \/ (\E k \in Tasks : t \in Held(k)) => db[t] <= crashes

\* A process that is down has no memory.
Down == ~up => buffer = << >> /\ \A k \in Tasks : task[k] = Idle

IInv == TypeOK /\ Locals /\ Apart /\ FreshNowhere /\ LogOnce /\ Rows /\ Down

-----------------------------------------------------------------------------
TaskType == [pc : {"idle", "push", "sync", "insert", "truncate"},
             staging : SUBSET Trades, batch : Seq(Trades)]

LEMMA IdleTask == Idle \in TaskType /\ NoRepeat(Idle.batch) /\ Idle.pc = "idle"
<1>1. << >> \in Seq(Trades) /\ NoRepeat(<< >>)
  BY EmptyTrades
<1> QED BY <1>1 DEF Idle, TaskType

LEMMA InitIInv == Init => IInv
<1> SUFFICES ASSUME Init PROVE IInv
  OBVIOUS
<1> DEFINE e == << >>
<1>1. /\ e \in Seq(Records) /\ e \in Seq(Trades) /\ ToSet(e) = {} /\ NoRepeat(e) /\ Once(e)
      /\ \A t \in Trades : ~Has(e, t)
  BY EmptyTrades DEF Once, Has
<1>2. wal \in Wals(Payloads) /\ LogOf(wal) = e /\ wal.durable = e
  <2> HIDE DEF e
  <2>1. wal = open(e, e)
    BY DEF Init, e
  <2> QED BY <1>1, <2>1, Opened
<1>3. buffer = e
  BY DEF Init
<1> HIDE DEF e
<1>4. \A k \in Tasks : task[k] = Idle /\ Held(k) = {}
  BY IdleTask DEF Init, Held
<1>5. TypeOK
  BY <1>1, <1>2, <1>3, IdleTask, WriterAssumption DEF Init, TypeOK, TaskType
<1>6. Locals
  BY <1>4, IdleTask DEF Locals
<1>7. Apart /\ FreshNowhere /\ LogOnce
  BY <1>1, <1>2, <1>3, <1>4 DEF Apart, FreshNowhere, LogOnce, Init
<1>8. Rows /\ Down
  BY <1>1, <1>3, <1>4 DEF Rows, Down, Init
<1> QED BY <1>5, <1>6, <1>7, <1>8 DEF IInv

\* stage, first part.
LEMMA StageAppendStep ==
    ASSUME IInv, NEW k \in Tasks, NEW t \in Trades, stage_append(k, t)
    PROVE  IInv'
<1> USE DEF IInv
<1> DEFINE rec == [pc |-> "push", staging |-> {t}, batch |-> << >>]
<1>1. /\ up /\ task[k] = Idle /\ t \in fresh /\ fresh' = fresh \ {t}
      /\ wal' \in append(wal, encode_wal(t))
      /\ task' = [task EXCEPT ![k] = rec]
      /\ UNCHANGED << buffer, db, up, crashes, acked, logged >>
  BY DEF stage_append
<1>2. rec \in TaskType /\ rec.pc = "push" /\ rec.staging = {t} /\ NoRepeat(rec.batch)
  BY EmptyTrades DEF TaskType
<1> HIDE DEF rec
<1>3. task \in [Tasks -> TaskType] /\ wal \in Wals(Payloads)
  BY DEF TypeOK, TaskType
<1>4. task' \in [Tasks -> TaskType] /\ task'[k] = rec /\ \A l \in Tasks : l # k => task'[l] = task[l]
  BY <1>1, <1>2, <1>3
<1>5. Held(k)' = {t} /\ Held(k) = {} /\ \A l \in Tasks : l # k => Held(l)' = Held(l)
  BY <1>1, <1>2, <1>4, IdleTask DEF Held
<1>6. encode_wal(t) \in Records
  BY Codec DEF Records
<1>7. /\ wal' \in Wals(Payloads) /\ wal'.durable = wal.durable
      /\ LogOf(wal)' = Append(LogOf(wal), encode_wal(t))
  BY <1>1, <1>3, <1>6, Appended DEF LogOf
<1>8. /\ LogOf(wal) \in Seq(Records) /\ \A u \in Trades : encode_wal(u) = encode_wal(t) => u = t
  BY <1>3, WalParts, Codec
<1>9. TypeOK'
  BY <1>1, <1>4, <1>7 DEF TypeOK, TaskType
<1>10. Locals'
  BY <1>2, <1>4 DEF Locals
<1>11. Apart'
  BY <1>1, <1>5 DEF Apart, FreshNowhere
<1>12. LogOnce'
  BY <1>1, <1>6, <1>7, <1>8, Added DEF LogOnce, FreshNowhere
<1>13. FreshNowhere'
  <2>1. \A u \in Trades : Has(LogOf(wal)', u) <=> Has(LogOf(wal), u) \/ encode_wal(t) = encode_wal(u)
    BY <1>6, <1>7, <1>8, Added
  <2>2. fresh \subseteq Trades
    BY DEF TypeOK
  <2> QED BY <1>1, <1>5, <1>7, <1>8, <2>1, <2>2 DEF FreshNowhere
<1>14. Rows'
  <2>1. crashes \in Nat /\ db[t] = 0
    BY <1>1 DEF FreshNowhere, TypeOK
  <2> QED BY <1>1, <1>5, <2>1 DEF Rows, NoTradeId
<1>15. Down'
  BY <1>1 DEF Down
<1> QED BY <1>9, <1>10, <1>11, <1>12, <1>13, <1>14, <1>15

\* stage, first part, failed; and an append of dispatch: no new trade is logged.
LEMMA LogOnlyStep ==
    ASSUME IInv, wal' \in Wals(Payloads), wal'.durable = wal.durable,
           \/ LogOf(wal)' = LogOf(wal)
           \/ LogOf(wal)' = Append(LogOf(wal), Torn)
           \/ \E r \in Placeholders : LogOf(wal)' = Append(LogOf(wal), r),
           fresh' \subseteq fresh,
           UNCHANGED << buffer, task, db, up, crashes, acked, logged >>
    PROVE  IInv'
<1> USE DEF IInv
<1>1. wal \in Wals(Payloads) /\ LogOf(wal) \in Seq(Records) /\ fresh \subseteq Trades
  BY WalParts DEF TypeOK
<1>2. \A r \in Placeholders : r \in Records /\ \A t \in Trades : r # encode_wal(t)
  BY Codec DEF Records
<1>3. /\ \A t \in Trades : Has(LogOf(wal)', t) <=> Has(LogOf(wal), t)
      /\ Once(LogOf(wal)')
  <2>1. Once(LogOf(wal))
    BY DEF LogOnce
  <2>2. CASE LogOf(wal)' = LogOf(wal)
    BY <2>1, <2>2
  <2>3. CASE LogOf(wal)' = Append(LogOf(wal), Torn)
    BY <1>1, <2>1, <2>3, AddedTorn
  <2>4. ASSUME NEW r \in Placeholders, LogOf(wal)' = Append(LogOf(wal), r)
        PROVE  /\ \A t \in Trades : Has(LogOf(wal)', t) <=> Has(LogOf(wal), t)
               /\ Once(LogOf(wal)')
    BY <1>1, <1>2, <2>1, <2>4, Added
  <2> QED BY <2>2, <2>3, <2>4
<1>4. \A k \in Tasks : Held(k)' = Held(k)
  BY DEF Held
<1>5. TypeOK'
  BY <1>1 DEF TypeOK
<1>6. Locals' /\ Down'
  BY DEF Locals, Down
<1>7. Apart' /\ Rows'
  BY <1>4 DEF Apart, Rows, NoTradeId
<1>8. FreshNowhere'
  BY <1>1, <1>3, <1>4 DEF FreshNowhere
<1>9. LogOnce'
  BY <1>3 DEF LogOnce
<1> QED BY <1>5, <1>6, <1>7, <1>8, <1>9

LEMMA StageAppendErrStep ==
    ASSUME IInv, NEW k \in Tasks, NEW t \in Trades, stage_append_err(k, t)
    PROVE  IInv'
<1>1. wal \in Wals(Payloads) /\ wal' \in append_err(wal)
  BY DEF IInv, TypeOK, stage_append_err
<1>2. /\ wal' \in Wals(Payloads) /\ wal'.durable = wal.durable
      /\ LogOf(wal') = LogOf(wal) \/ LogOf(wal') = Append(LogOf(wal), Torn)
  BY <1>1, AppendFailed
<1>3. LogOf(wal)' = LogOf(wal')
  BY DEF LogOf
<1>4. fresh' \subseteq fresh /\ UNCHANGED << buffer, task, db, up, crashes, acked, logged >>
  BY DEF stage_append_err
<1> QED BY <1>2, <1>3, <1>4, LogOnlyStep

LEMMA PersistAppendStep ==
    ASSUME IInv, NEW r \in Placeholders, persist_append(r)
    PROVE  IInv'
<1>1. wal \in Wals(Payloads) /\ wal' \in append(wal, r) /\ r \in Records
  BY Codec DEF IInv, TypeOK, persist_append, Records
<1>2. /\ wal' \in Wals(Payloads) /\ wal'.durable = wal.durable
      /\ LogOf(wal') = Append(LogOf(wal), r)
  BY <1>1, Appended
<1>3. LogOf(wal)' = LogOf(wal')
  BY DEF LogOf
<1>4. fresh' \subseteq fresh /\ UNCHANGED << buffer, task, db, up, crashes, acked, logged >>
  BY DEF persist_append
<1> QED BY <1>2, <1>3, <1>4, LogOnlyStep

(***************************************************************************)
(* A step of task k that leaves the log and the table alone and moves      *)
(* trades between the buffer and its hands: none appears, none is in both. *)
(***************************************************************************)
LEMMA MoveStep ==
    ASSUME IInv, NEW k \in Tasks, up,
           buffer' \in Seq(Trades), NoRepeat(buffer'),
           NEW r \in TaskType, task' = [task EXCEPT ![k] = r],
           r.pc # "push", NoRepeat(r.batch),
           Held(k)' \cap ToSet(buffer)' = {},
           Held(k)' \cup ToSet(buffer)' \subseteq Held(k) \cup ToSet(buffer),
           acked' \subseteq Trades,
           UNCHANGED << wal, db, up, crashes, fresh, logged >>
    PROVE  IInv'
<1> USE DEF IInv
<1>1. task \in [Tasks -> TaskType]
  BY DEF TypeOK, TaskType
<1>2. task' \in [Tasks -> TaskType] /\ task'[k] = r /\ \A l \in Tasks : l # k => task'[l] = task[l]
  BY <1>1
<1>3. \A l \in Tasks : l # k => Held(l)' = Held(l)
  BY <1>2 DEF Held
<1>4. ToSet(buffer)' = ToSet(buffer') /\ LogOf(wal)' = LogOf(wal)
  OBVIOUS
<1>5. TypeOK'
  BY <1>2 DEF TypeOK, TaskType
<1>6. Locals' /\ Down'
  BY <1>2 DEF Locals, Down
<1>7. Apart'
  BY <1>3, <1>4 DEF Apart
<1>8. FreshNowhere'
  BY <1>3, <1>4 DEF FreshNowhere
<1>9. LogOnce'
  BY <1>4 DEF LogOnce
<1>10. Rows'
  BY <1>3, <1>4 DEF Rows, NoTradeId
<1> QED BY <1>5, <1>6, <1>7, <1>8, <1>9, <1>10

\* stage, second part.
LEMMA StagePushStep ==
    ASSUME IInv, NEW k \in Tasks, stage_push(k)
    PROVE  IInv'
<1> USE DEF IInv
<1> DEFINE pushed == buffer \o SetToSeq(task[k].staging)
           full == [task[k] EXCEPT !.pc = "sync", !.batch = pushed]
<1>1. PICK t \in Trades : task[k].staging = {t}
  BY DEF stage_push, Locals
<1>2. task \in [Tasks -> TaskType] /\ buffer \in Seq(Trades) /\ task[k].pc = "push" /\ up
  BY DEF TypeOK, TaskType, stage_push
<1>3. Held(k) = {t} /\ t \notin ToSet(buffer) /\ NoRepeat(buffer)
  BY <1>1, <1>2 DEF Held, Apart
<1>4. pushed = Append(buffer, t)
  BY <1>1, <1>2, OneToPush
<1>5. pushed \in Seq(Trades) /\ ToSet(pushed) = ToSet(buffer) \cup {t} /\ NoRepeat(pushed)
  BY <1>2, <1>3, <1>4, PushedTrade
<1>6. acked' \subseteq Trades /\ UNCHANGED << wal, db, up, crashes, fresh, logged >>
  BY <1>1 DEF stage_push, TypeOK
<1>7. \/ buffer' = << >> /\ task' = [task EXCEPT ![k].pc = "sync", ![k].batch = pushed]
      \/ buffer' = pushed /\ task' = [task EXCEPT ![k] = Idle]
  BY DEF stage_push
<1> HIDE DEF pushed
<1>8. full \in TaskType /\ full.pc = "sync" /\ full.batch = pushed
  BY <1>2, <1>5 DEF TaskType
<1>9. [task EXCEPT ![k].pc = "sync", ![k].batch = pushed] = [task EXCEPT ![k] = full]
  BY <1>2
<1> HIDE DEF full
<1>10. CASE buffer' = << >> /\ task' = [task EXCEPT ![k] = full]
  <2>1. buffer' \in Seq(Trades) /\ NoRepeat(buffer') /\ ToSet(buffer)' = {}
    BY <1>10, EmptyTrades
  <2>2. Held(k)' = ToSet(pushed)
    BY <1>2, <1>8, <1>10 DEF Held
  <2> QED BY <1>2, <1>3, <1>5, <1>6, <1>8, <1>10, <2>1, <2>2, MoveStep
<1>11. CASE buffer' = pushed /\ task' = [task EXCEPT ![k] = Idle]
  <2>1. Held(k)' = {} /\ ToSet(buffer)' = ToSet(pushed)
    BY <1>2, <1>11, IdleTask DEF Held
  <2> QED BY <1>2, <1>3, <1>5, <1>6, <1>11, <2>1, IdleTask, MoveStep
<1> QED BY <1>7, <1>9, <1>10, <1>11

LEMMA FlushStep ==
    ASSUME IInv, NEW k \in Tasks, flush(k)
    PROVE  IInv'
<1> USE DEF IInv
<1> DEFINE r == [pc |-> "sync", staging |-> {}, batch |-> buffer]
<1>1. /\ up /\ buffer' = << >> /\ task' = [task EXCEPT ![k] = r]
      /\ UNCHANGED << wal, db, up, crashes, fresh, acked, logged >>
  BY DEF flush
<1>2. task \in [Tasks -> TaskType] /\ buffer \in Seq(Trades) /\ NoRepeat(buffer)
      /\ acked \subseteq Trades
  BY DEF TypeOK, TaskType, Apart
<1>3. r \in TaskType /\ r.pc = "sync" /\ r.batch = buffer
  BY <1>2 DEF TaskType
<1> HIDE DEF r
<1>4. buffer' \in Seq(Trades) /\ NoRepeat(buffer') /\ ToSet(buffer)' = {}
  BY <1>1, EmptyTrades
<1>5. Held(k)' = ToSet(buffer)
  BY <1>1, <1>2, <1>3 DEF Held
<1> QED BY <1>1, <1>2, <1>3, <1>4, <1>5, MoveStep

(***************************************************************************)
(* A step of task k on a log that gets no record and a table in which only *)
(* what the task held may get a row: the task goes on or gives up.         *)
(***************************************************************************)
LEMMA FlushingStep ==
    ASSUME IInv, NEW k \in Tasks, up,
           NEW r \in TaskType, task' = [task EXCEPT ![k] = r],
           r.pc # "push", NoRepeat(r.batch), Held(k)' \subseteq Held(k),
           wal' \in Wals(Payloads), LogOf(wal)' = LogOf(wal) \/ LogOf(wal)' = << >>,
           wal'.durable = wal.durable \/ wal'.durable = LogOf(wal),
           db' \in [Trades -> Nat],
           \A t \in Trades \ Held(k) : db'[t] = db[t],
           \A t \in Held(k) : IF t \in NoTradeId THEN db'[t] <= db[t] + 1 ELSE db'[t] <= 1,
           \A t \in Held(k)' : db'[t] = db[t],
           acked' \subseteq Trades, logged' \subseteq Trades,
           UNCHANGED << buffer, up, crashes, fresh >>
    PROVE  IInv'
<1> USE DEF IInv
<1>1. task \in [Tasks -> TaskType] /\ fresh \subseteq Trades
  BY DEF TypeOK, TaskType
<1>2. task' \in [Tasks -> TaskType] /\ task'[k] = r /\ \A l \in Tasks : l # k => task'[l] = task[l]
  BY <1>1
<1>3. \A l \in Tasks : l # k => Held(l)' = Held(l)
  BY <1>2 DEF Held
<1>4. ToSet(buffer)' = ToSet(buffer)
  OBVIOUS
<1>5. /\ Once(LogOf(wal)') /\ Once(wal'.durable)
      /\ \A t \in fresh : ~Has(LogOf(wal)', t) /\ ~Has(wal'.durable, t)
  <2>1. Once(<< >>) /\ \A t \in Trades : ~Has(<< >>, t)
    BY DEF Once, Has
  <2> QED BY <1>1, <2>1 DEF LogOnce, FreshNowhere
<1>6. TypeOK'
  BY <1>2 DEF TypeOK, TaskType
<1>7. Locals' /\ Down'
  BY <1>2 DEF Locals, Down
<1>8. Apart'
  BY <1>3, <1>4 DEF Apart
<1>9. FreshNowhere'
  BY <1>1, <1>3, <1>4, <1>5 DEF FreshNowhere
<1>10. LogOnce'
  BY <1>5 DEF LogOnce
<1>11. Rows'
  <2>1. crashes \in Nat /\ db \in [Trades -> Nat]
    BY DEF TypeOK
  <2> SUFFICES ASSUME NEW t \in Trades
               PROVE  IF t \notin NoTradeId THEN db'[t] <= 1
                      ELSE /\ up' => db'[t] <= 1 + crashes'
                           /\ ~up' => db'[t] <= crashes'
                           /\ t \in ToSet(buffer)' \/ (\E l \in Tasks : t \in Held(l)')
                                 => db'[t] <= crashes'
    BY DEF Rows, NoTradeId
  <2>2. CASE t \notin Held(k)
    <3>1. db'[t] = db[t]
      BY <2>2
    <3>2. t \in ToSet(buffer)' \/ (\E l \in Tasks : t \in Held(l)')
             => t \in ToSet(buffer) \/ (\E l \in Tasks : t \in Held(l))
      BY <1>3, <1>4, <2>2
    <3> QED BY <3>1, <3>2 DEF Rows
  <2>3. CASE t \in Held(k)
    <3>1. t \in NoTradeId => db[t] <= crashes /\ db'[t] <= db[t] + 1
      BY <2>3 DEF Rows
    <3>2. t \notin ToSet(buffer)' /\ \A l \in Tasks : l # k => t \notin Held(l)'
      BY <1>3, <1>4, <2>3 DEF Apart
    <3>3. t \in ToSet(buffer)' \/ (\E l \in Tasks : t \in Held(l)') => db'[t] = db[t]
      BY <3>2
    <3>4. t \notin NoTradeId => db'[t] <= 1
      BY <2>3
    <3>5. db'[t] \in Nat /\ db[t] \in Nat
      BY <2>1
    <3> QED BY <2>1, <3>1, <3>3, <3>4, <3>5
  <2> QED BY <2>2, <2>3
<1> QED BY <1>6, <1>7, <1>8, <1>9, <1>10, <1>11

LEMMA FlushSyncStep ==
    ASSUME IInv, NEW k \in Tasks, flush_sync(k)
    PROVE  IInv'
<1> USE DEF IInv
<1> DEFINE r == [task[k] EXCEPT !.pc = "insert"]
<1>1. task \in [Tasks -> TaskType] /\ wal \in Wals(Payloads) /\ db \in [Trades -> Nat]
  BY DEF TypeOK, TaskType
<1>2. task[k] \in TaskType /\ NoRepeat(task[k].batch)
  BY <1>1 DEF Locals
<1>3. r \in TaskType /\ r.pc = "insert" /\ r.batch = task[k].batch /\ NoRepeat(r.batch)
  BY <1>2 DEF TaskType
<1>4. task' = [task EXCEPT ![k] = r]
  BY <1>1 DEF flush_sync
<1> HIDE DEF r
<1>5. Held(k)' = Held(k)
  BY <1>1, <1>3, <1>4 DEF Held, flush_sync
<1>6. wal' = sync(wal)
  BY DEF flush_sync
<1>7. wal' \in Wals(Payloads) /\ LogOf(wal)' = LogOf(wal) /\ wal'.durable = LogOf(wal)
  BY <1>1, <1>6, Synced DEF LogOf
<1>8. acked' \subseteq Trades /\ logged' \subseteq Trades
  BY DEF flush_sync, TypeOK, Covered
<1>9. up /\ UNCHANGED << buffer, db, up, crashes, fresh >>
  BY DEF flush_sync
<1>10. Held(k) \subseteq Trades
  BY <1>2, InSequence DEF Held, TaskType
<1>11. /\ \A t \in Held(k) : IF t \in NoTradeId THEN db'[t] <= db[t] + 1 ELSE db'[t] <= 1
       /\ db' \in [Trades -> Nat] /\ \A t \in Trades : db'[t] = db[t]
  BY <1>1, <1>9, <1>10 DEF Rows
<1> QED BY <1>3, <1>4, <1>5, <1>7, <1>8, <1>9, <1>10, <1>11, FlushingStep

\* A call that fails, or ends: the task is idle again.
LEMMA GiveUpStep ==
    ASSUME IInv, NEW k \in Tasks, up, task' = [task EXCEPT ![k] = Idle],
           wal' \in Wals(Payloads), LogOf(wal)' = LogOf(wal) \/ LogOf(wal)' = << >>,
           wal'.durable = wal.durable,
           acked' \subseteq Trades,
           UNCHANGED << buffer, db, up, crashes, fresh, logged >>
    PROVE  IInv'
<1> USE DEF IInv
<1>1. task \in [Tasks -> TaskType] /\ db \in [Trades -> Nat] /\ logged' \subseteq Trades
  BY DEF TypeOK, TaskType
<1>2. Held(k)' = {} /\ Held(k) \subseteq Trades
  BY <1>1, IdleTask, InSequence DEF Held, TaskType
<1>3. /\ \A t \in Held(k) : IF t \in NoTradeId THEN db'[t] <= db[t] + 1 ELSE db'[t] <= 1
      /\ db' \in [Trades -> Nat] /\ \A t \in Trades : db'[t] = db[t]
  BY <1>1, <1>2 DEF Rows
<1> QED BY <1>1, <1>2, <1>3, IdleTask, FlushingStep

LEMMA FailSteps ==
    ASSUME IInv, NEW k \in Tasks,
           flush_sync_err(k) \/ flush_truncate_err(k) \/ flush_insert_err(k)
    PROVE  IInv'
<1>1. wal \in Wals(Payloads) /\ acked \subseteq Trades
  BY DEF IInv, TypeOK
<1>2. /\ up /\ task' = [task EXCEPT ![k] = Idle]
      /\ UNCHANGED << buffer, db, up, crashes, fresh, acked, logged >>
  BY DEF flush_sync_err, flush_truncate_err, flush_insert_err, WalFails, Fails
<1>3. wal' = wal \/ wal' \in flush_err(wal)
  BY DEF flush_sync_err, flush_truncate_err, flush_insert_err, WalFails
<1>4. wal' \in Wals(Payloads) /\ wal'.durable = wal.durable /\ LogOf(wal)' = LogOf(wal)
  BY <1>1, <1>3, FlushFailed DEF LogOf
<1> QED BY <1>1, <1>2, <1>4, GiveUpStep

LEMMA TruncateStep ==
    ASSUME IInv, NEW k \in Tasks, flush_truncate(k)
    PROVE  IInv'
<1>1. wal \in Wals(Payloads) /\ acked \subseteq Trades /\ task[k].staging \subseteq Trades
  BY DEF IInv, TypeOK
<1>2. /\ up /\ task' = [task EXCEPT ![k] = Idle] /\ acked' = acked \cup task[k].staging
      /\ wal' = truncate(wal) /\ UNCHANGED << buffer, db, up, crashes, fresh, logged >>
  BY DEF flush_truncate
<1>3. wal' \in Wals(Payloads) /\ wal'.durable = wal.durable /\ LogOf(wal)' = << >>
  BY <1>1, <1>2, Truncated DEF LogOf
<1> QED BY <1>1, <1>2, <1>3, GiveUpStep

LEMMA InsertSteps ==
    ASSUME IInv, NEW k \in Tasks, flush_insert(k) \/ flush_insert_lost(k)
    PROVE  IInv'
<1> USE DEF IInv
<1> DEFINE b == task[k].batch
           r == [task[k] EXCEPT !.pc = "truncate"]
<1>1. task \in [Tasks -> TaskType] /\ wal \in Wals(Payloads) /\ db \in [Trades -> Nat]
  BY DEF TypeOK, TaskType
<1>2. task[k] \in TaskType /\ NoRepeat(b) /\ b \in Seq(Trades)
  BY <1>1 DEF Locals, TaskType
<1>3. /\ up /\ task[k].pc = "insert" /\ db' = rows_after(b)
      /\ UNCHANGED << wal, buffer, up, crashes, fresh, acked, logged >>
  BY DEF flush_insert, flush_insert_lost
<1>4. r \in TaskType /\ r.pc = "truncate" /\ NoRepeat(r.batch)
  BY <1>2 DEF TaskType
<1>5. task' = [task EXCEPT ![k] = r] \/ task' = [task EXCEPT ![k] = Idle]
  BY <1>1 DEF flush_insert, flush_insert_lost
<1> HIDE DEF r, b
<1>6. Held(k) = ToSet(b) /\ ToSet(b) \subseteq Trades
  BY <1>2, <1>3, InSequence DEF Held, b
<1>7. Held(k)' = {}
  BY <1>1, <1>4, <1>5, IdleTask DEF Held
<1>8. \A t \in Trades :
         /\ db' \in [Trades -> Nat]
         /\ t \notin ToSet(b) => db'[t] = db[t]
         /\ t \in ToSet(b) => db'[t] = IF t \in NoTradeId THEN db[t] + 1 ELSE 1
  BY <1>1, <1>2, <1>3, RowsAfter
<1>9. db' \in [Trades -> Nat]
  BY <1>3, <1>8 DEF rows_after
<1>10. /\ \A t \in Trades \ Held(k) : db'[t] = db[t]
       /\ \A t \in Held(k) : IF t \in NoTradeId THEN db'[t] <= db[t] + 1 ELSE db'[t] <= 1
       /\ \A t \in Held(k)' : db'[t] = db[t]
  BY <1>1, <1>6, <1>7, <1>8
<1>11. acked' \subseteq Trades /\ logged' \subseteq Trades /\ LogOf(wal)' = LogOf(wal)
       /\ wal' \in Wals(Payloads) /\ wal'.durable = wal.durable
  BY <1>1, <1>3 DEF TypeOK
<1>12. CASE task' = [task EXCEPT ![k] = r]
  BY <1>3, <1>4, <1>7, <1>9, <1>10, <1>11, <1>12, FlushingStep
<1>13. CASE task' = [task EXCEPT ![k] = Idle]
  BY <1>3, <1>7, <1>9, <1>10, <1>11, <1>13, IdleTask, FlushingStep
<1> QED BY <1>5, <1>12, <1>13

\* The process or the machine dies.
LEMMA DiesStep ==
    ASSUME IInv, NEW f \in Seq(Records), NEW d \in Seq(Records), Once(f), Once(d),
           \A t \in fresh : ~Has(f, t) /\ ~Has(d, t), Dies(f, d)
    PROVE  IInv'
<1> USE DEF IInv
<1>1. /\ up /\ crashes < MaxCrashes /\ wal' = open(f, d) /\ buffer' = << >>
      /\ task' = [k \in Tasks |-> Idle] /\ up' = FALSE /\ crashes' = crashes + 1
      /\ UNCHANGED << db, fresh, acked, logged >>
  BY DEF Dies
<1>2. wal' \in Wals(Payloads) /\ LogOf(wal)' = f /\ wal'.durable = d
  BY <1>1, Opened DEF LogOf
<1>3. buffer' \in Seq(Trades) /\ NoRepeat(buffer') /\ ToSet(buffer)' = {}
  BY <1>1, EmptyTrades
<1>4. task' \in [Tasks -> TaskType] /\ \A k \in Tasks : task'[k] = Idle
  BY <1>1, IdleTask
<1>5. \A k \in Tasks : Held(k)' = {}
  BY <1>4, IdleTask DEF Held
<1>6. crashes \in Nat /\ crashes + 1 \in 0 .. MaxCrashes
  BY <1>1, WriterAssumption DEF TypeOK
<1>7. TypeOK'
  BY <1>1, <1>2, <1>3, <1>4, <1>6 DEF TypeOK, TaskType
<1>8. Locals' /\ Down'
  BY <1>1, <1>4, IdleTask DEF Locals, Down
<1>9. Apart' /\ LogOnce'
  BY <1>2, <1>3, <1>5 DEF Apart, LogOnce
<1>10. FreshNowhere'
  BY <1>1, <1>2, <1>3, <1>5 DEF FreshNowhere
<1>11. Rows'
  <2>1. db \in [Trades -> Nat]
    BY DEF TypeOK
  <2> QED BY <1>1, <1>3, <1>5, <1>6, <2>1 DEF Rows, NoTradeId
<1> QED BY <1>7, <1>8, <1>9, <1>10, <1>11

LEMMA CrashStep ==
    ASSUME IInv, crash
    PROVE  IInv'
<1>1. wal \in Wals(Payloads) /\ fresh \subseteq Trades /\ wal.durable \in Seq(Records)
  BY WalParts DEF IInv, TypeOK
<1>2. Dies(ProcessDies(wal), wal.durable)
  BY DEF crash
<1>3. /\ ProcessDies(wal) \in Seq(Records) /\ Once(ProcessDies(wal)) /\ Once(wal.durable)
      /\ \A t \in Trades : Has(ProcessDies(wal), t) => Has(LogOf(wal), t)
  BY <1>1, LeftByProcess, WalParts DEF IInv, LogOnce
<1>4. \A t \in fresh : ~Has(ProcessDies(wal), t) /\ ~Has(wal.durable, t)
  BY <1>1, <1>3 DEF IInv, FreshNowhere
<1> QED BY <1>1, <1>2, <1>3, <1>4, DiesStep

LEMMA PowerStep ==
    ASSUME IInv, power_loss
    PROVE  IInv'
<1>1. wal \in Wals(Payloads) /\ fresh \subseteq Trades
  BY DEF IInv, TypeOK
<1>2. PICK f \in PowerLost(wal) : Dies(f, f)
  BY DEF power_loss
<1>3. /\ f \in Seq(Records) /\ Once(f)
      /\ \A t \in Trades : Has(f, t) => Has(LogOf(wal), t) \/ Has(wal.durable, t)
  BY <1>1, LeftByPower DEF IInv, LogOnce
<1>4. \A t \in fresh : ~Has(f, t)
  BY <1>1, <1>3 DEF IInv, FreshNowhere
<1> QED BY <1>2, <1>3, <1>4, DiesStep

\* What the boot sequence replays.
LEMMA Replayed ==
    ASSUME NEW w \in Wals(Payloads), Once(LogOf(w))
    PROVE  /\ recovered(replay(w)) \in Seq(Trades) /\ NoRepeat(recovered(replay(w)))
           /\ \A t \in Trades : t \in ToSet(recovered(replay(w))) => Has(LogOf(w), t)
           /\ (\A i \in 1 .. Len(LogOf(w)) : LogOf(w)[i] # Torn) =>
                 \A t \in Trades : Has(LogOf(w), t) => t \in ToSet(recovered(replay(w)))
<1>1. LogOf(w) \in Seq(Records) /\ flush_buf(w).file = LogOf(w)
  <2>0. PICK f, b, d \in Seq(Records) : \E s : Flag(s) /\ w = Log(f, b, s, d)
    BY LogShape
  <2>1. PICK s : Flag(s) /\ w = Log(f, b, s, d)
    BY <2>0
  <2> DEFINE g == LogOf(w)
             e == << >>
  <2>2. flush_buf(w) = Log(g, e, No, d)
    BY <2>1, Flushed
  <2> HIDE DEF g, e
  <2>3. flush_buf(w).file = g
    BY <2>2, LogFields
  <2> QED BY <2>3, WalParts DEF g
<1>2. replay(w) = Whole(LogOf(w))
  BY <1>1 DEF replay
<1>3. /\ replay(w) \in Seq(Payloads) /\ Once(replay(w))
      /\ \A t \in Trades : Has(replay(w), t) => Has(LogOf(w), t)
      /\ (\A i \in 1 .. Len(LogOf(w)) : LogOf(w)[i] # Torn) => replay(w) = LogOf(w)
  BY <1>1, <1>2, WholeReads
<1> QED BY <1>3, RecoveredTrades

LEMMA RestartStep ==
    ASSUME IInv, restart
    PROVE  IInv'
<1> USE DEF IInv
<1>1. /\ ~up /\ up' = TRUE /\ UNCHANGED << wal, task, db, crashes, fresh, acked, logged >>
      /\ buffer' = recovered(replay(wal)) \/ buffer' = << >>
  BY DEF restart
<1>2. wal \in Wals(Payloads) /\ Once(LogOf(wal)) /\ fresh \subseteq Trades
  BY DEF TypeOK, LogOnce
<1>3. /\ buffer' \in Seq(Trades) /\ NoRepeat(buffer')
      /\ \A t \in Trades : t \in ToSet(buffer') => Has(LogOf(wal), t)
  BY <1>1, <1>2, Replayed, EmptyTrades
<1>4. \A k \in Tasks : task[k] = Idle
  BY <1>1 DEF Down
<1>5. \A k \in Tasks : Held(k)' = {}
  BY <1>1, <1>4, IdleTask DEF Held
<1>6. ToSet(buffer)' = ToSet(buffer') /\ LogOf(wal)' = LogOf(wal)
  BY <1>1
<1>7. TypeOK'
  BY <1>1, <1>3 DEF TypeOK
<1>8. Locals' /\ Down' /\ LogOnce'
  BY <1>1, <1>6 DEF Locals, Down, LogOnce
<1>9. Apart'
  BY <1>3, <1>5 DEF Apart
<1>10. FreshNowhere'
  BY <1>1, <1>2, <1>3, <1>5, <1>6 DEF FreshNowhere
<1>11. Rows'
  <2>1. crashes \in Nat /\ db \in [Trades -> Nat]
    BY DEF TypeOK
  <2> QED BY <1>1, <1>5, <2>1 DEF Rows, NoTradeId
<1> QED BY <1>7, <1>8, <1>9, <1>10, <1>11

LEMMA NextIInv == IInv /\ [Next]_vars => IInv'
<1> SUFFICES ASSUME IInv, [Next]_vars PROVE IInv'
  OBVIOUS
<1>1. CASE UNCHANGED vars
  <2>1. \A k \in Tasks : Held(k)' = Held(k)
    BY <1>1 DEF vars, Held
  <2> QED BY <1>1, <2>1 DEF vars, IInv, TypeOK, Locals, Apart, FreshNowhere, LogOnce, Rows, Down,
             LogOf
<1>2. CASE Next
  BY <1>2, StageAppendStep, StageAppendErrStep, StagePushStep, FlushStep, FlushSyncStep,
     FailSteps, InsertSteps, TruncateStep, PersistAppendStep, CrashStep, PowerStep, RestartStep
     DEF Next
<1> QED BY <1>1, <1>2

(***************************************************************************)
(* The writer keeps its types whatever fails; what decode_wal makes of a   *)
(* record of the log is the trade that was staged.                         *)
(***************************************************************************)
THEOREM TypeCorrect == Spec => []TypeOK
<1>1. IInv => TypeOK
  BY DEF IInv
<1> QED BY <1>1, InitIInv, NextIInv, PTL DEF Spec

(***************************************************************************)
(* For every number of tasks, trades and crashes and every fault of the    *)
(* model: a trade with a trade_id has at most one row, one without has at  *)
(* most one for each run of the process.                                   *)
(***************************************************************************)
THEOREM StoredOncePerRun == Spec => []OncePerIncarnation
<1>1. IInv => OncePerIncarnation
  <2> SUFFICES ASSUME IInv, NEW t \in Trades
               PROVE  db[t] <= IF t \in NoTradeId THEN 1 + crashes ELSE 1
    BY DEF OncePerIncarnation
  <2>1. crashes \in Nat /\ db[t] \in Nat
    BY DEF IInv, TypeOK
  <2>2. up \in BOOLEAN
    BY DEF IInv, TypeOK
  <2>3. CASE t \in NoTradeId
    BY <2>1, <2>2, <2>3 DEF IInv, Rows
  <2>4. CASE t \notin NoTradeId
    BY <2>4 DEF IInv, Rows
  <2> QED BY <2>3, <2>4
<1> QED BY <1>1, InitIInv, NextIInv, PTL DEF Spec

-----------------------------------------------------------------------------
\* The invariant of NoLoggedTradeLost, for one task and crashes at whole records:
\* the log is read to its end, what it holds and the table does not is in memory,
\* a flush has taken the whole buffer, and what was synced is on the disk.
NoTorn == \A i \in 1 .. Len(LogOf(wal)) : LogOf(wal)[i] # Torn

LoggedIsHeld ==
    /\ \A t \in Trades : up /\ Has(LogOf(wal), t) => Stored(t) \/ InMemory(t)
    /\ \A k \in Tasks :
          /\ task[k].pc \in {"sync", "insert", "truncate"} =>
                buffer = << >> /\ task[k].staging \subseteq ToSet(task[k].batch)
          /\ task[k].pc = "truncate" => \A t \in ToSet(task[k].batch) : Stored(t)
          /\ task[k].pc = "idle" => task[k] = Idle
          /\ task[k].pc = "push" => task[k].batch = << >>

\* truncate is not fsynced: once it has run the disk may hold the old file or any
\* part of the new one, and nothing that was synced depends on which.
OnDisk ==
    \/ \A t \in logged : Stored(t)
    \/ /\ Begins(wal.durable, wal.file)
       /\ \A t \in logged : Stored(t) \/ Has(wal.durable, t)

\* One task, a log that does not fail and a table that does not refuse an INSERT
\* (its answer may be lost), and a boot sequence that replays the log.
OneAtATime ==
    /\ \A k, l \in Tasks : k = l
    /\ Faults \subseteq {"crash", "power", "reply_lost"}
    /\ Replays = {TRUE}

SInv == NoTorn /\ LoggedIsHeld /\ OnDisk

\* What was synced and is not stored is in the file.
LEMMA SyncedInFile ==
    ASSUME IInv, OnDisk, NEW t \in logged
    PROVE  Stored(t) \/ Has(wal.file, t)
<1>1. PICK f, d \in Seq(Records) : wal.file = f /\ wal.durable = d
  BY WalParts DEF IInv, TypeOK
<1>2. Begins(d, f) => (Has(d, t) => Has(f, t))
  BY BeginsHas DEF IInv, TypeOK
<1> QED BY <1>1, <1>2 DEF OnDisk

\* A step that stores no less, syncs nothing and leaves the disk as it is.
LEMMA SameDisk ==
    ASSUME IInv, OnDisk, UNCHANGED logged, wal'.durable = wal.durable,
           wal'.file \in Seq(Records), Begins(wal.file, wal'.file),
           \A t \in logged : Stored(t) => Stored(t)'
    PROVE  OnDisk'
<1>1. CASE \A t \in logged : Stored(t)
  BY <1>1 DEF OnDisk
<1>2. CASE /\ Begins(wal.durable, wal.file)
           /\ \A t \in logged : Stored(t) \/ Has(wal.durable, t)
  <2>1. wal.durable \in Seq(Records) /\ wal.file \in Seq(Records)
    BY WalParts DEF IInv, TypeOK
  <2>2. PICK d, f, g \in Seq(Records) : d = wal.durable /\ f = wal.file /\ g = wal'.file
    BY <2>1
  <2>3. Begins(d, g)
    BY <1>2, <2>2, BeginsTransitive
  <2> QED BY <1>2, <2>2, <2>3 DEF OnDisk
<1> QED BY <1>1, <1>2 DEF OnDisk

LEMMA InitSInv == Init => SInv
<1> SUFFICES ASSUME Init PROVE SInv
  OBVIOUS
<1> DEFINE e == << >>
<1>1. e \in Seq(Records) /\ Len(e) = 0 /\ \A t \in Trades : ~Has(e, t)
  BY DEF Has
<1>2. LogOf(wal) = e
  <2> HIDE DEF e
  <2>1. wal = open(e, e)
    BY DEF Init, e
  <2> QED BY <1>1, <2>1, Opened
<1> HIDE DEF e
<1>3. NoTorn
  BY <1>1, <1>2 DEF NoTorn
<1>4. LoggedIsHeld
  BY <1>1, <1>2, IdleTask DEF LoggedIsHeld, Init
<1>5. OnDisk
  BY DEF OnDisk, Init
<1> QED BY <1>3, <1>4, <1>5 DEF SInv

\* A record at the end of a log that is not torn.
LEMMA StillWhole ==
    ASSUME NoTorn, LogOf(wal) \in Seq(Records), NEW r \in Records, r # Torn,
           LogOf(wal)' = Append(LogOf(wal), r)
    PROVE  NoTorn'
<1> DEFINE a == LogOf(wal)
           b == LogOf(wal)'
<1>1. a \in Seq(Records) /\ b = Append(a, r) /\ \A i \in 1 .. Len(a) : a[i] # Torn
  BY DEF NoTorn
<1> HIDE DEF a, b
<1>2. \A i \in 1 .. Len(b) : b[i] # Torn
  BY <1>1
<1> QED BY <1>2 DEF NoTorn, b

LEMMA StageAppendSInv ==
    ASSUME IInv, SInv, OneAtATime, NEW k \in Tasks, NEW t \in Trades, stage_append(k, t)
    PROVE  SInv'
<1> USE DEF SInv
<1> DEFINE rec == [pc |-> "push", staging |-> {t}, batch |-> << >>]
<1>1. /\ up /\ task[k] = Idle /\ wal' \in append(wal, encode_wal(t))
      /\ task' = [task EXCEPT ![k] = rec]
      /\ UNCHANGED << buffer, db, up, logged >>
  BY DEF stage_append
<1>2. task \in [Tasks -> TaskType] /\ wal \in Wals(Payloads) /\ LogOf(wal) \in Seq(Records)
      /\ logged \subseteq Trades
  BY WalParts DEF IInv, TypeOK, TaskType
<1>3. encode_wal(t) \in Records /\ encode_wal(t) # Torn
      /\ \A u \in Trades : encode_wal(u) = encode_wal(t) => u = t
  BY Codec DEF Records
<1>4. /\ LogOf(wal') = Append(LogOf(wal), encode_wal(t)) /\ wal' \in Wals(Payloads)
      /\ wal'.durable = wal.durable /\ Begins(wal.file, wal'.file)
  BY <1>1, <1>2, <1>3, Appended
<1>5. LogOf(wal)' = Append(LogOf(wal), encode_wal(t))
  BY <1>4 DEF LogOf
<1>6. \A u \in Trades : Has(LogOf(wal)', u) <=> Has(LogOf(wal), u) \/ u = t
  BY <1>2, <1>3, <1>5, Added
<1>7. rec.pc = "push" /\ rec.staging = {t} /\ rec.batch = << >>
  OBVIOUS
<1> HIDE DEF rec
<1>8. task'[k] = rec /\ \A l \in Tasks : l = k
  BY <1>1, <1>2 DEF OneAtATime
<1>9. NoTorn'
  BY <1>2, <1>3, <1>5, StillWhole
<1>10. OnDisk'
  BY <1>1, <1>4, WalParts, SameDisk DEF Stored
<1>11. ASSUME NEW u \in Trades, Has(LogOf(wal)', u) PROVE Stored(u)' \/ InMemory(u)'
  <2>1. CASE u = t
    BY <1>7, <1>8, <2>1 DEF InMemory
  <2>2. CASE u # t
    <3>1. Stored(u) \/ InMemory(u)
      BY <1>1, <1>6, <1>11, <2>2 DEF LoggedIsHeld
    <3>2. InMemory(u) => u \in ToSet(buffer)
      BY <1>1, <1>8, EmptyTrades DEF InMemory, Idle
    <3> QED BY <1>1, <3>1, <3>2 DEF InMemory, Stored
  <2> QED BY <2>1, <2>2
<1>12. LoggedIsHeld'
  BY <1>1, <1>7, <1>8, <1>11 DEF LoggedIsHeld
<1> QED BY <1>9, <1>10, <1>12

LEMMA PersistAppendSInv ==
    ASSUME IInv, SInv, NEW r \in Placeholders, persist_append(r)
    PROVE  SInv'
<1> USE DEF SInv
<1>1. wal' \in append(wal, r) /\ UNCHANGED << buffer, task, db, up, logged >>
  BY DEF persist_append
<1>2. wal \in Wals(Payloads) /\ LogOf(wal) \in Seq(Records) /\ logged \subseteq Trades
  BY WalParts DEF IInv, TypeOK
<1>3. r \in Records /\ r # Torn /\ \A u \in Trades : r # encode_wal(u)
  BY Codec DEF Records
<1>4. /\ LogOf(wal') = Append(LogOf(wal), r) /\ wal' \in Wals(Payloads)
      /\ wal'.durable = wal.durable /\ Begins(wal.file, wal'.file)
  BY <1>1, <1>2, <1>3, Appended
<1>5. LogOf(wal)' = Append(LogOf(wal), r)
  BY <1>4 DEF LogOf
<1>6. \A u \in Trades : Has(LogOf(wal)', u) => Has(LogOf(wal), u)
  BY <1>2, <1>3, <1>5, Added
<1>7. NoTorn'
  BY <1>2, <1>3, <1>5, StillWhole
<1>8. OnDisk'
  BY <1>1, <1>4, WalParts, SameDisk DEF Stored
<1>9. buffer' = buffer /\ task' = task /\ db' = db
  BY <1>1
<1>10. \A u \in Trades : (Stored(u)' <=> Stored(u)) /\ (InMemory(u)' <=> InMemory(u))
  <2> TAKE u \in Trades
  <2>1. Stored(u)' <=> Stored(u)
    BY <1>9 DEF Stored
  <2>2. InMemory(u)' <=> InMemory(u)
    BY <1>9 DEF InMemory
  <2> QED BY <2>1, <2>2
<1>11. LoggedIsHeld'
  <2>1. (\A u \in Trades : up /\ Has(LogOf(wal), u) => Stored(u) \/ InMemory(u))'
    BY <1>1, <1>6, <1>10 DEF LoggedIsHeld
  <2>2. \A u : Stored(u)' <=> Stored(u)
    BY <1>9 DEF Stored
  <2>3. \A k \in Tasks :
           (task[k].pc = "truncate" => \A u \in ToSet(task[k].batch) : Stored(u))'
    BY <1>9, <2>2 DEF LoggedIsHeld
  <2>4. \A k \in Tasks :
           /\ (task[k].pc \in {"sync", "insert", "truncate"}
                => buffer = << >> /\ task[k].staging \subseteq ToSet(task[k].batch))'
           /\ (task[k].pc = "idle" => task[k] = Idle)'
           /\ (task[k].pc = "push" => task[k].batch = << >>)'
    BY <1>9 DEF LoggedIsHeld
  <2> QED BY <2>1, <2>3, <2>4 DEF LoggedIsHeld
<1> QED BY <1>7, <1>8, <1>11

\* A step that moves trades within memory.
LEMMA MoveSInv ==
    ASSUME IInv, SInv, OneAtATime, NEW k \in Tasks, NEW r, task' = [task EXCEPT ![k] = r],
           UNCHANGED << wal, db, up, logged >>,
           \A u \in Trades : InMemory(u) => u \in ToSet(buffer') \cup r.staging \cup ToSet(r.batch),
           r = Idle \/ (r.pc = "sync" /\ buffer' = << >> /\ r.staging \subseteq ToSet(r.batch))
    PROVE  SInv'
<1> USE DEF SInv
<1>1. task'[k] = r /\ \A l \in Tasks : l = k
  BY DEF OneAtATime, IInv, TypeOK
<1>2. \A u \in Trades : (InMemory(u) => InMemory(u)') /\ Stored(u)' = Stored(u)
  BY <1>1 DEF InMemory, Stored
<1>3. LogOf(wal)' = LogOf(wal)
  OBVIOUS
<1>4. NoTorn' /\ OnDisk'
  BY <1>3 DEF NoTorn, OnDisk, Stored
<1>5. LoggedIsHeld'
  BY <1>1, <1>2, <1>3, IdleTask DEF LoggedIsHeld
<1> QED BY <1>4, <1>5

LEMMA StagePushSInv ==
    ASSUME IInv, SInv, OneAtATime, NEW k \in Tasks, stage_push(k)
    PROVE  SInv'
<1> DEFINE pushed == buffer \o SetToSeq(task[k].staging)
           full == [task[k] EXCEPT !.pc = "sync", !.batch = pushed]
<1>1. PICK t \in Trades : task[k].staging = {t}
  BY DEF IInv, stage_push, Locals
<1>2. task \in [Tasks -> TaskType] /\ buffer \in Seq(Trades) /\ task[k].pc = "push"
  BY DEF IInv, TypeOK, TaskType, stage_push
<1>3. pushed = Append(buffer, t)
  BY <1>1, <1>2, OneToPush
<1>4. pushed \in Seq(Trades) /\ ToSet(pushed) = ToSet(buffer) \cup {t}
  BY <1>2, <1>3, PushedTrade
<1>5. UNCHANGED << wal, db, up, logged >>
  BY DEF stage_push
<1>6. \/ buffer' = << >> /\ task' = [task EXCEPT ![k].pc = "sync", ![k].batch = pushed]
      \/ buffer' = pushed /\ task' = [task EXCEPT ![k] = Idle]
  BY DEF stage_push
<1> HIDE DEF pushed
<1>7. full.pc = "sync" /\ full.batch = pushed /\ full.staging = {t}
  BY <1>1, <1>2 DEF TaskType
<1>8. [task EXCEPT ![k].pc = "sync", ![k].batch = pushed] = [task EXCEPT ![k] = full]
  BY <1>2
<1> HIDE DEF full
<1>9. ToSet(task[k].batch) = {}
  BY <1>2, EmptyTrades DEF SInv, LoggedIsHeld
<1>10. \A u \in Trades : InMemory(u) => u \in ToSet(pushed)
  BY <1>1, <1>4, <1>9 DEF InMemory, OneAtATime
<1>11. CASE buffer' = << >> /\ task' = [task EXCEPT ![k] = full]
  BY <1>4, <1>5, <1>7, <1>10, <1>11, MoveSInv
<1>12. CASE buffer' = pushed /\ task' = [task EXCEPT ![k] = Idle]
  BY <1>5, <1>10, <1>12, MoveSInv
<1> QED BY <1>6, <1>8, <1>11, <1>12

LEMMA FlushSInv ==
    ASSUME IInv, SInv, OneAtATime, NEW k \in Tasks, flush(k)
    PROVE  SInv'
<1> DEFINE r == [pc |-> "sync", staging |-> {}, batch |-> buffer]
<1>1. /\ task[k] = Idle /\ buffer' = << >> /\ task' = [task EXCEPT ![k] = r]
      /\ UNCHANGED << wal, db, up, logged >>
  BY DEF flush
<1>2. r.pc = "sync" /\ r.staging = {} /\ r.batch = buffer
  OBVIOUS
<1> HIDE DEF r
<1>3. \A u \in Trades : InMemory(u) => u \in ToSet(buffer)
  BY <1>1, EmptyTrades DEF InMemory, OneAtATime, Idle
<1> QED BY <1>1, <1>2, <1>3, MoveSInv

LEMMA FlushSyncSInv ==
    ASSUME IInv, SInv, OneAtATime, NEW k \in Tasks, flush_sync(k)
    PROVE  SInv'
<1> USE DEF SInv
<1> DEFINE r == [task[k] EXCEPT !.pc = "insert"]
<1>1. task \in [Tasks -> TaskType] /\ wal \in Wals(Payloads) /\ logged \subseteq Trades
  BY DEF IInv, TypeOK, TaskType
<1>2. task[k] \in TaskType /\ task[k].pc = "sync"
  BY <1>1 DEF flush_sync
<1>3. r.pc = "insert" /\ r.batch = task[k].batch /\ r.staging = task[k].staging
  BY <1>2 DEF TaskType
<1>4. /\ task' = [task EXCEPT ![k] = r] /\ wal' = sync(wal)
      /\ logged' = logged \cup Covered(sync(wal))
      /\ UNCHANGED << buffer, db, up >>
  BY <1>1 DEF flush_sync
<1> HIDE DEF r
<1>5. task'[k] = r /\ \A l \in Tasks : l = k
  BY <1>1, <1>4 DEF OneAtATime
<1>6. /\ LogOf(wal') = LogOf(wal) /\ wal'.file = LogOf(wal) /\ wal'.durable = LogOf(wal)
      /\ LogOf(wal) \in Seq(Records)
      /\ \A t \in Trades : Has(wal.file, t) => Has(LogOf(wal), t)
  BY <1>1, <1>4, Synced, WalParts
<1>7. LogOf(wal)' = LogOf(wal)
  BY <1>6 DEF LogOf
<1>8. NoTorn'
  BY <1>7 DEF NoTorn
<1>9. \A t \in Trades : t \in Covered(sync(wal)) => Has(LogOf(wal), t)
  BY <1>4, <1>6, InSequence DEF Covered, Has
<1>10. Covered(sync(wal)) \subseteq Trades
  BY DEF Covered
<1>11. OnDisk'
  <2>1. \A t \in logged : Stored(t) \/ Has(LogOf(wal), t)
    BY <1>1, <1>6, SyncedInFile
  <2>2. \A t \in logged' : Stored(t) \/ Has(LogOf(wal), t)
    BY <1>4, <1>9, <1>10, <2>1
  <2>3. Begins(LogOf(wal), LogOf(wal))
    BY <1>6, BeginsItself
  <2> QED BY <1>4, <1>6, <2>2, <2>3 DEF OnDisk, Stored
<1>12. \A u \in Trades : (Stored(u) => Stored(u)') /\ (InMemory(u) => InMemory(u)')
  BY <1>3, <1>4, <1>5 DEF Stored, InMemory
<1>13. LoggedIsHeld'
  BY <1>2, <1>3, <1>4, <1>5, <1>7, <1>12 DEF LoggedIsHeld
<1> QED BY <1>8, <1>11, <1>13

\* The INSERT of a batch keeps what is stored and stores the batch.
LEMMA InsertStores ==
    ASSUME IInv, NEW k \in Tasks, task[k].pc = "insert", db' = rows_after(task[k].batch)
    PROVE  /\ \A t \in Trades : Stored(t) => Stored(t)'
           /\ \A t \in ToSet(task[k].batch) : t \in Trades /\ Stored(t)'
<1>1. task \in [Tasks -> TaskType] /\ db \in [Trades -> Nat]
  BY DEF IInv, TypeOK, TaskType
<1>2. PICK b \in Seq(Trades) : b = task[k].batch /\ NoRepeat(b)
  BY <1>1 DEF TaskType, IInv, Locals
<1>3. ToSet(b) \subseteq Trades
  BY <1>2, InSequence
<1>4. \A t \in Trades :
         /\ t \notin ToSet(b) => db'[t] = db[t]
         /\ t \in ToSet(b) => db'[t] = IF t \in NoTradeId THEN db[t] + 1 ELSE 1
  BY <1>1, <1>2, RowsAfter
<1> QED BY <1>1, <1>2, <1>3, <1>4 DEF Stored

LEMMA InsertSInv ==
    ASSUME IInv, SInv, OneAtATime, NEW k \in Tasks, flush_insert(k)
    PROVE  SInv'
<1> USE DEF SInv
<1> DEFINE r == [task[k] EXCEPT !.pc = "truncate"]
<1>1. task \in [Tasks -> TaskType] /\ logged \subseteq Trades /\ wal.file \in Seq(Records)
  BY WalParts DEF IInv, TypeOK, TaskType
<1>2. task[k] \in TaskType /\ task[k].pc = "insert"
  BY <1>1 DEF flush_insert, TaskType
<1>3. r.pc = "truncate" /\ r.batch = task[k].batch /\ r.staging = task[k].staging
  BY <1>2 DEF TaskType
<1>4. /\ task' = [task EXCEPT ![k] = r] /\ db' = rows_after(task[k].batch)
      /\ UNCHANGED << wal, buffer, up, logged >>
  BY <1>1 DEF flush_insert
<1> HIDE DEF r
<1>5. task'[k] = r /\ \A l \in Tasks : l = k
  BY <1>1, <1>4 DEF OneAtATime
<1>6. /\ \A t \in Trades : Stored(t) => Stored(t)'
      /\ \A t \in ToSet(task[k].batch) : Stored(t)'
  BY <1>2, <1>4, InsertStores
<1>7. LogOf(wal)' = LogOf(wal)
  BY <1>4
<1>8. NoTorn'
  BY <1>7 DEF NoTorn
<1>9. OnDisk'
  BY <1>1, <1>4, <1>6, BeginsItself, SameDisk
<1>10. \A u \in Trades : InMemory(u) => InMemory(u)'
  BY <1>3, <1>4, <1>5 DEF InMemory
<1>11. LoggedIsHeld'
  <2>1. buffer = << >> /\ task[k].staging \subseteq ToSet(task[k].batch)
    BY <1>2 DEF LoggedIsHeld
  <2> QED BY <1>3, <1>4, <1>5, <1>6, <1>7, <1>10, <2>1 DEF LoggedIsHeld
<1> QED BY <1>8, <1>9, <1>11

\* The call fails with its batch in the table: the log keeps records of stored trades.
LEMMA LostSInv ==
    ASSUME IInv, SInv, OneAtATime, NEW k \in Tasks, flush_insert_lost(k)
    PROVE  SInv'
<1> USE DEF SInv
<1>1. task \in [Tasks -> TaskType] /\ logged \subseteq Trades /\ wal.file \in Seq(Records)
  BY WalParts DEF IInv, TypeOK, TaskType
<1>2. /\ task[k].pc = "insert" /\ db' = rows_after(task[k].batch)
      /\ task' = [task EXCEPT ![k] = Idle] /\ UNCHANGED << wal, buffer, up, logged >>
  BY DEF flush_insert_lost
<1>3. task'[k] = Idle /\ \A l \in Tasks : l = k
  BY <1>1, <1>2 DEF OneAtATime
<1>4. /\ \A t \in Trades : Stored(t) => Stored(t)'
      /\ \A t \in ToSet(task[k].batch) : Stored(t)'
  BY <1>2, InsertStores
<1>5. LogOf(wal)' = LogOf(wal)
  BY <1>2
<1>6. NoTorn'
  BY <1>5 DEF NoTorn
<1>7. OnDisk'
  BY <1>1, <1>2, <1>4, BeginsItself, SameDisk
<1>8. \A t \in Trades : InMemory(t) => Stored(t)'
  <2>1. buffer = << >> /\ task[k].staging \subseteq ToSet(task[k].batch)
    BY <1>2 DEF LoggedIsHeld
  <2> QED BY <1>3, <1>4, <2>1, EmptyTrades DEF InMemory
<1>9. LoggedIsHeld'
  BY <1>2, <1>3, <1>4, <1>5, <1>8, IdleTask DEF LoggedIsHeld
<1> QED BY <1>6, <1>7, <1>9

LEMMA TruncateSInv ==
    ASSUME IInv, SInv, OneAtATime, NEW k \in Tasks, flush_truncate(k)
    PROVE  SInv'
<1> USE DEF SInv
<1>1. /\ task \in [Tasks -> TaskType] /\ wal \in Wals(Payloads) /\ logged \subseteq Trades
  BY DEF IInv, TypeOK, TaskType
<1>2. /\ up /\ task[k].pc = "truncate" /\ wal' = truncate(wal) /\ task' = [task EXCEPT ![k] = Idle]
      /\ UNCHANGED << buffer, db, up, logged >>
  BY DEF flush_truncate
<1>3. task'[k] = Idle /\ \A l \in Tasks : l = k
  BY <1>1, <1>2 DEF OneAtATime
<1>4. LogOf(wal)' = << >>
  BY <1>1, <1>2, Truncated DEF LogOf
<1>5. Len(LogOf(wal)') = 0 /\ \A t \in Trades : ~Has(LogOf(wal)', t)
  BY <1>4 DEF Has
<1>6. NoTorn'
  BY <1>5 DEF NoTorn
<1>7. \A t \in Trades : InMemory(t) => Stored(t)
  <2>1. /\ buffer = << >> /\ task[k].staging \subseteq ToSet(task[k].batch)
        /\ \A t \in ToSet(task[k].batch) : Stored(t)
    BY <1>2 DEF LoggedIsHeld
  <2> QED BY <1>3, <2>1, EmptyTrades DEF InMemory
<1>8. \A t \in Trades : Has(wal.file, t) => Has(LogOf(wal), t)
  BY <1>1, WalParts
<1>9. OnDisk'
  <2>1. \A t \in logged : Stored(t)
    BY <1>1, <1>2, <1>7, <1>8, SyncedInFile DEF LoggedIsHeld
  <2> QED BY <1>2, <2>1 DEF OnDisk, Stored
<1>10. LoggedIsHeld'
  BY <1>3, <1>5, IdleTask DEF LoggedIsHeld
<1> QED BY <1>6, <1>9, <1>10

\* A file without torn records is left, and the disk has what was synced.
LEMMA DiesSInv ==
    ASSUME SInv, NEW f \in Seq(Records), NEW d \in Seq(Records), Dies(f, d),
           Torn \notin ToSet(wal'.file),
           \/ \A t \in logged : Stored(t)
           \/ Begins(d, f) /\ \A t \in logged : Stored(t) \/ Has(d, t)
    PROVE  SInv'
<1>1. /\ wal' = open(f, d) /\ up' = FALSE /\ task' = [k \in Tasks |-> Idle]
      /\ UNCHANGED << db, logged >>
  BY DEF Dies
<1>2. wal'.file = f /\ wal'.durable = d /\ LogOf(wal') = f
  BY <1>1, Opened
<1>3. LogOf(wal)' = f
  BY <1>2 DEF LogOf
<1>4. NoTorn'
  <2>1. \A i \in 1 .. Len(f) : f[i] # Torn
    BY <1>2, InSequence
  <2> QED BY <1>3, <2>1 DEF NoTorn
<1>5. OnDisk'
  BY <1>1, <1>2 DEF OnDisk, Stored
<1>6. LoggedIsHeld'
  BY <1>1, IdleTask DEF LoggedIsHeld
<1> QED BY <1>4, <1>5, <1>6 DEF SInv

LEMMA CrashSInv ==
    ASSUME IInv, SInv, crash, Torn \notin ToSet(wal'.file)
    PROVE  SInv'
<1>1. wal \in Wals(Payloads)
  BY DEF IInv, TypeOK
<1>2. PICK f, d, p \in Seq(Records) : f = wal.file /\ d = wal.durable /\ p = ProcessDies(wal)
  BY <1>1, WalParts, LeftByProcess
<1>3. Dies(p, d)
  BY <1>2 DEF crash
<1>4. Begins(f, p)
  BY <1>1, <1>2, LeftByProcess
<1>5. Begins(d, f) => Begins(d, p)
  BY <1>4, BeginsTransitive
<1>6. \/ \A t \in logged : Stored(t)
      \/ Begins(d, p) /\ \A t \in logged : Stored(t) \/ Has(d, t)
  BY <1>2, <1>5 DEF SInv, OnDisk
<1> QED BY <1>3, <1>6, DiesSInv

LEMMA PowerSInv ==
    ASSUME IInv, SInv, power_loss, Torn \notin ToSet(wal'.file)
    PROVE  SInv'
<1>1. wal \in Wals(Payloads) /\ logged \subseteq Trades
  BY DEF IInv, TypeOK
<1>2. PICK f \in PowerLost(wal) : Dies(f, f)
  BY DEF power_loss
<1>3. PICK d \in Seq(Records) : d = wal.durable
  BY <1>1, WalParts
<1>4. f \in Seq(Records) /\ (Begins(d, wal.file) => Begins(d, f))
  BY <1>1, <1>3, LeftByPower
<1>5. Begins(d, f) => \A t \in Trades : Has(d, t) => Has(f, t)
  BY <1>4, BeginsHas
<1>6. Begins(f, f)
  BY <1>4, BeginsItself
<1>7. \/ \A t \in logged : Stored(t)
      \/ Begins(f, f) /\ \A t \in logged : Stored(t) \/ Has(f, t)
  BY <1>1, <1>3, <1>4, <1>5, <1>6 DEF SInv, OnDisk
<1> QED BY <1>2, <1>4, <1>7, DiesSInv

LEMMA RestartSInv ==
    ASSUME IInv, SInv, OneAtATime, restart
    PROVE  SInv'
<1> USE DEF SInv
<1>1. /\ ~up /\ buffer' = recovered(replay(wal)) /\ UNCHANGED << wal, task, db, logged >>
  BY DEF restart, OneAtATime
<1>2. wal \in Wals(Payloads) /\ Once(LogOf(wal))
  BY DEF IInv, TypeOK, LogOnce
<1>3. \A t \in Trades : Has(LogOf(wal), t) => t \in ToSet(buffer')
  BY <1>1, <1>2, Replayed DEF NoTorn
<1>4. LogOf(wal)' = LogOf(wal) /\ \A k \in Tasks : task'[k] = Idle
  BY <1>1 DEF IInv, Down
<1>5. NoTorn' /\ OnDisk'
  BY <1>1, <1>4 DEF NoTorn, OnDisk, Stored
<1>6. LoggedIsHeld'
  BY <1>3, <1>4, IdleTask DEF LoggedIsHeld, InMemory
<1> QED BY <1>5, <1>6

\* A crash of the process or of the machine leaves no record half written.
WholeCrash == (crash \/ power_loss) => Torn \notin ToSet(wal'.file)

WholeCrashes == [][WholeCrash]_vars

LEMMA NextSInv ==
    OneAtATime /\ IInv /\ SInv /\ [WholeCrash]_vars /\ [Next]_vars => SInv'
<1> SUFFICES ASSUME OneAtATime, IInv, SInv, [WholeCrash]_vars, [Next]_vars PROVE SInv'
  OBVIOUS
<1>1. CASE UNCHANGED vars
  <2>1. \A t \in Trades : (Stored(t) => Stored(t)') /\ (InMemory(t) => InMemory(t)')
    BY <1>1 DEF vars, Stored, InMemory
  <2> QED BY <1>1, <2>1 DEF vars, SInv, NoTorn, LoggedIsHeld, OnDisk, LogOf, Stored
<1>2. CASE Next
  <2>1. "wal_io" \notin Faults /\ "db_error" \notin Faults
    BY DEF OneAtATime
  <2>2. ASSUME crash \/ power_loss PROVE SInv'
    <3>1. ~(UNCHANGED vars)
      BY <2>2 DEF crash, power_loss, Dies, vars
    <3>2. Torn \notin ToSet(wal'.file)
      BY <2>2, <3>1 DEF WholeCrash
    <3> QED BY <2>2, <3>2, CrashSInv, PowerSInv
  <2> QED BY <1>2, <2>1, <2>2, StageAppendSInv, StagePushSInv, FlushSInv, FlushSyncSInv, InsertSInv,
             LostSInv, TruncateSInv, PersistAppendSInv, RestartSInv
          DEF Next, stage_append_err, flush_sync_err, flush_insert_err, flush_truncate_err
<1> QED BY <1>1, <1>2

(***************************************************************************)
(* With one task that stages and flushes, and a boot that replays the log, *)
(* no trade an fsync covered is lost, however often the process crashes or *)
(* the power fails and whatever the disk kept of a truncate it was never   *)
(* told to flush, and even when the answer to an INSERT does not arrive;   *)
(* unless a crash leaves half a record in the file.  Each hypothesis is    *)
(* needed: TLC finds the trade lost without it.                            *)
(***************************************************************************)
THEOREM LogProtects ==
    OneAtATime => (Spec /\ WholeCrashes => []NoLoggedTradeLost)
<1> SUFFICES ASSUME OneAtATime PROVE Spec /\ WholeCrashes => []NoLoggedTradeLost
  OBVIOUS
<1>1. IInv /\ SInv => NoLoggedTradeLost
  <2> SUFFICES ASSUME IInv, SInv, NEW t \in logged, ~Stored(t)
               PROVE  Replayable(t)
    BY DEF NoLoggedTradeLost
  <2>1. wal \in Wals(Payloads) /\ Once(LogOf(wal)) /\ t \in Trades
    BY DEF IInv, TypeOK, LogOnce
  <2>2. Has(LogOf(wal), t)
    BY <2>1, WalParts, SyncedInFile DEF SInv
  <2> QED BY <2>1, <2>2, Replayed DEF Replayable, SInv, NoTorn
<1>2. IInv /\ SInv /\ [WholeCrash]_vars /\ [Next]_vars => SInv'
  BY NextSInv
<1> QED BY <1>1, <1>2, InitIInv, NextIInv, InitSInv, PTL DEF Spec, WholeCrashes

-----------------------------------------------------------------------------
\* A trade on its way to the table: in the buffer or in the hands of a task that
\* has not inserted it.
Waiting(t) == t \in ToSet(buffer) \/ \E k \in Tasks : t \in Held(k)

\* The steps that lose trades: the call that returns an error before its INSERT,
\* and the end of the process.
Loses ==
    \/ \E k \in Tasks : flush_sync_err(k) \/ flush_insert_err(k)
    \/ \E k \in Tasks, t \in Trades : stage_append_err(k, t)
    \/ crash \/ power_loss

\* A trade not staged yet, waiting or stored stays so or goes on to the next.
Onward ==
    \A t \in Trades :
        /\ t \in fresh => t \in fresh' \/ Waiting(t)'
        /\ Waiting(t) => Waiting(t)' \/ Stored(t)'
        /\ Stored(t) => Stored(t)'

\* Only task k moves: what it held it still holds, or put in the buffer or the table.
LEMMA MovesOnward ==
    ASSUME IInv, NEW k \in Tasks, NEW r, task' = [task EXCEPT ![k] = r],
           fresh' = fresh, \A t \in Trades : Stored(t) => Stored(t)',
           \A t \in Held(k) \cup ToSet(buffer) : t \in Held(k)' \cup ToSet(buffer') \/ Stored(t)'
    PROVE  Onward
<1>1. \A l \in Tasks : l # k => task'[l] = task[l]
  BY DEF IInv, TypeOK
<1>2. \A l \in Tasks : l # k => Held(l)' = Held(l)
  BY <1>1 DEF Held
<1> QED BY <1>2 DEF Onward, Waiting

LEMMA StageOnward ==
    ASSUME IInv, NEW k \in Tasks, NEW t \in Trades, stage_append(k, t)
    PROVE  Onward
<1> DEFINE r == [pc |-> "push", staging |-> {t}, batch |-> << >>]
<1>1. task \in [Tasks -> TaskType] /\ task[k] = Idle
  BY DEF IInv, TypeOK, TaskType, stage_append
<1>2. task' = [task EXCEPT ![k] = r] /\ fresh' = fresh \ {t} /\ UNCHANGED << buffer, db >>
  BY DEF stage_append
<1>3. r.pc = "push" /\ r.staging = {t}
  OBVIOUS
<1> HIDE DEF r
<1>4. task'[k] = r /\ \A l \in Tasks : l # k => task'[l] = task[l]
  BY <1>1, <1>2
<1>5. Held(k) = {} /\ Held(k)' = {t} /\ \A l \in Tasks : l # k => Held(l)' = Held(l)
  BY <1>1, <1>3, <1>4, IdleTask DEF Held
<1> QED BY <1>2, <1>5 DEF Onward, Waiting, Stored

LEMMA PushOnward ==
    ASSUME IInv, NEW k \in Tasks, stage_push(k)
    PROVE  Onward
<1> DEFINE pushed == buffer \o SetToSeq(task[k].staging)
           full == [task[k] EXCEPT !.pc = "sync", !.batch = pushed]
<1>1. PICK t \in Trades : task[k].staging = {t}
  BY DEF IInv, stage_push, Locals
<1>2. task \in [Tasks -> TaskType] /\ buffer \in Seq(Trades) /\ task[k].pc = "push"
  BY DEF IInv, TypeOK, TaskType, stage_push
<1>3. pushed = Append(buffer, t)
  BY <1>1, <1>2, OneToPush
<1>4. ToSet(pushed) = ToSet(buffer) \cup {t}
  BY <1>2, <1>3, PushedTrade
<1>5. Held(k) = {t} /\ UNCHANGED << db, fresh >>
  BY <1>1, <1>2 DEF Held, stage_push
<1>6. \/ buffer' = << >> /\ task' = [task EXCEPT ![k].pc = "sync", ![k].batch = pushed]
      \/ buffer' = pushed /\ task' = [task EXCEPT ![k] = Idle]
  BY DEF stage_push
<1> HIDE DEF pushed
<1>7. full.pc = "sync" /\ full.batch = pushed
  BY <1>2 DEF TaskType
<1>8. [task EXCEPT ![k].pc = "sync", ![k].batch = pushed] = [task EXCEPT ![k] = full]
  BY <1>2
<1> HIDE DEF full
<1>9. \A u \in Trades : Stored(u) => Stored(u)'
  BY <1>5 DEF Stored
<1>10. CASE buffer' = << >> /\ task' = [task EXCEPT ![k] = full]
  <2>1. Held(k)' = ToSet(pushed)
    BY <1>2, <1>7, <1>10 DEF Held
  <2> QED BY <1>4, <1>5, <1>9, <1>10, <2>1, MovesOnward
<1>11. CASE buffer' = pushed /\ task' = [task EXCEPT ![k] = Idle]
  BY <1>4, <1>5, <1>9, <1>11, MovesOnward
<1> QED BY <1>6, <1>8, <1>10, <1>11

LEMMA FlushOnward ==
    ASSUME IInv, NEW k \in Tasks, flush(k)
    PROVE  Onward
<1> DEFINE r == [pc |-> "sync", staging |-> {}, batch |-> buffer]
<1>1. /\ task[k] = Idle /\ buffer' = << >> /\ task' = [task EXCEPT ![k] = r]
      /\ UNCHANGED << db, fresh >> /\ task \in [Tasks -> TaskType]
  BY DEF flush, IInv, TypeOK, TaskType
<1>2. r.pc = "sync" /\ r.batch = buffer
  OBVIOUS
<1> HIDE DEF r
<1>3. Held(k) = {} /\ Held(k)' = ToSet(buffer)
  BY <1>1, <1>2, IdleTask DEF Held
<1>4. \A u \in Trades : Stored(u) => Stored(u)'
  BY <1>1 DEF Stored
<1> QED BY <1>1, <1>3, <1>4, MovesOnward

\* A flush behind its drain: the sync keeps the batch, the INSERT stores it, and a
\* truncate that fails has nothing to lose.
LEMMA DrainedOnward ==
    ASSUME IInv, NEW k \in Tasks,
           \/ flush_sync(k) \/ flush_insert(k) \/ flush_insert_lost(k)
           \/ flush_truncate(k) \/ flush_truncate_err(k)
    PROVE  Onward
<1>1. task \in [Tasks -> TaskType]
  BY DEF IInv, TypeOK, TaskType
<1>2. task[k] \in TaskType
  BY <1>1
<1>3. CASE flush_sync(k)
  <2> DEFINE r == [task[k] EXCEPT !.pc = "insert"]
  <2>1. /\ task[k].pc = "sync" /\ task' = [task EXCEPT ![k] = r] /\ UNCHANGED << buffer, db, fresh >>
    BY <1>1, <1>3 DEF flush_sync
  <2>2. r.pc = "insert" /\ r.batch = task[k].batch
    BY <1>2 DEF TaskType
  <2> HIDE DEF r
  <2>3. Held(k)' = Held(k)
    BY <1>1, <2>1, <2>2 DEF Held
  <2>4. \A u \in Trades : Stored(u) => Stored(u)'
    BY <2>1 DEF Stored
  <2> QED BY <2>1, <2>3, <2>4, MovesOnward
<1>4. CASE flush_insert(k) \/ flush_insert_lost(k)
  <2> DEFINE r == [task[k] EXCEPT !.pc = "truncate"]
  <2>1. /\ task[k].pc = "insert" /\ db' = rows_after(task[k].batch) /\ UNCHANGED << buffer, fresh >>
        /\ task' = [task EXCEPT ![k] = r] \/ task' = [task EXCEPT ![k] = Idle]
    BY <1>1, <1>4 DEF flush_insert, flush_insert_lost
  <2> HIDE DEF r
  <2>2. /\ \A t \in Trades : Stored(t) => Stored(t)'
        /\ \A t \in Held(k) : Stored(t)'
    BY <2>1, InsertStores DEF Held
  <2>3. \E q : task' = [task EXCEPT ![k] = q]
    BY <2>1
  <2> QED BY <2>1, <2>2, <2>3, MovesOnward
<1>5. CASE flush_truncate(k) \/ flush_truncate_err(k)
  <2>1. task[k].pc = "truncate" /\ task' = [task EXCEPT ![k] = Idle] /\ UNCHANGED << buffer, db, fresh >>
    BY <1>5 DEF flush_truncate, flush_truncate_err, WalFails, Fails
  <2>2. Held(k) = {}
    BY <2>1 DEF Held
  <2>3. \A u \in Trades : Stored(u) => Stored(u)'
    BY <2>1 DEF Stored
  <2> QED BY <2>1, <2>2, <2>3, MovesOnward
<1> QED BY <1>3, <1>4, <1>5

\* The log alone changes, or a process without memory starts.
LEMMA OtherOnward ==
    ASSUME IInv, restart \/ (\E r \in Placeholders : persist_append(r)) \/ UNCHANGED vars
    PROVE  Onward
<1>1. UNCHANGED << task, db, fresh >>
  BY DEF restart, persist_append, vars
<1>2. ToSet(buffer) \subseteq ToSet(buffer')
  <2>1. CASE restart
    BY <2>1, EmptyTrades DEF restart, IInv, Down
  <2>2. CASE ~restart
    BY <2>2 DEF persist_append, vars
  <2> QED BY <2>1, <2>2
<1>3. \A k \in Tasks : Held(k)' = Held(k)
  BY <1>1 DEF Held
<1> QED BY <1>1, <1>2, <1>3 DEF Onward, Waiting, Stored

(***************************************************************************)
(* Whatever the tasks interleave, a trade goes from the engine to memory   *)
(* and from memory to the table, and never back or nowhere: the buffer's   *)
(* lock is given up between the drain and the INSERT, and no other task's  *)
(* stage, flush or truncate makes the trade disappear.  The steps that can *)
(* lose one are listed, and no other can: an append, a sync or an INSERT   *)
(* that fails, and the end of the process; not a truncate that fails, nor  *)
(* an INSERT whose answer is lost.                                         *)
(***************************************************************************)
THEOREM TradesGoOnward == Spec => [][Loses \/ Onward]_vars
<1>1. IInv /\ [Next]_vars => [Loses \/ Onward]_vars
  <2> SUFFICES ASSUME IInv, [Next]_vars, ~Loses PROVE Onward
    OBVIOUS
  <2>1. CASE UNCHANGED vars
    BY <2>1, OtherOnward
  <2>2. CASE Next
    BY <2>2, StageOnward, PushOnward, FlushOnward, DrainedOnward, OtherOnward DEF Next, Loses
  <2> QED BY <2>1, <2>2
<1> QED BY <1>1, InitIInv, NextIInv, PTL DEF Spec
=============================================================================
