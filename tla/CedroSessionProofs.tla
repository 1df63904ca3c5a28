------------------------- MODULE CedroSessionProofs -------------------------
(***************************************************************************)
(* Proofs about CedroSession, for every universe of tickers, every number  *)
(* of threads and every command they write: lines are whole commands and   *)
(* the registry stays behind the wire.  And about the parsers, for every   *)
(* frame there is: each is answered by an error or by a whole message, and *)
(* a damaged token never moves the other fields.                           *)
(***************************************************************************)
EXTENDS CedroSession, SequenceTheorems, FiniteSetTheorems, WellFoundedInduction, TLAPS

-----------------------------------------------------------------------------
(***************************************************************************)
(* Induction over the naturals, for a property given as a set.             *)
(***************************************************************************)

\* A set of naturals that is not empty has a least element.
LEMMA Least ==
    ASSUME NEW T \in SUBSET Nat, T # {}
    PROVE  \E x \in T : \A y \in T : x <= y
<1>1. IsWellFoundedOn(OpToRel(<, Nat), Nat)
  BY NatLessThanWellFounded
<1>2. PICK x \in T : \A y \in T : ~(<< y, x >> \in OpToRel(<, Nat))
  BY <1>1, WFMin
<1>3. \A y \in T : ~(y < x)
  BY <1>2 DEF OpToRel
<1> QED BY <1>3

\* A set with 0 and the successor of each of its naturals has them all.
LEMMA SetInduction ==
    ASSUME NEW S, 0 \in S, \A n \in Nat : n \in S => n + 1 \in S
    PROVE  Nat \subseteq S
<1> SUFFICES ASSUME Nat \ S # {} PROVE FALSE
  OBVIOUS
<1>1. PICK x \in Nat \ S : \A y \in Nat \ S : x <= y
  BY Least
<1>2. x - 1 \in Nat /\ x - 1 \in S
  BY <1>1
<1> QED BY <1>1, <1>2

\* F[i] is the first i sequences of ss put together.
Joins(F, ss, n) == \A i \in 1 .. n : F[i] = IF i = 1 THEN ss[1] ELSE F[i - 1] \o ss[i]

LEMMA JoinsExists ==
    ASSUME NEW X, NEW n \in Nat, NEW ss, \A i \in 1 .. n : ss[i] \in Seq(X)
    PROVE  \E F \in [1 .. n -> Seq(X)] : Joins(F, ss, n)
<1> DEFINE D == {m \in Nat : m <= n => \E F \in [1 .. m -> Seq(X)] : Joins(F, ss, m)}
<1>1. 0 \in D
  <2>1. [i \in 1 .. 0 |-> << >>] \in [1 .. 0 -> Seq(X)] /\ Joins([i \in 1 .. 0 |-> << >>], ss, 0)
    BY DEF Joins
  <2> QED BY <2>1
<1>2. ASSUME NEW m \in Nat, m \in D PROVE m + 1 \in D
  <2> SUFFICES ASSUME m + 1 <= n PROVE \E F \in [1 .. m + 1 -> Seq(X)] : Joins(F, ss, m + 1)
    OBVIOUS
  <2>1. PICK F \in [1 .. m -> Seq(X)] : Joins(F, ss, m)
    BY <1>2
  <2> DEFINE last == IF m = 0 THEN ss[1] ELSE F[m] \o ss[m + 1]
             G == [i \in 1 .. m + 1 |-> IF i = m + 1 THEN last ELSE F[i]]
  <2>2. last \in Seq(X)
    <3>1. CASE m = 0
      BY <3>1
    <3>2. CASE m # 0
      <4>1. F[m] \in Seq(X) /\ ss[m + 1] \in Seq(X)
        BY <3>2
      <4> QED BY <3>2, <4>1, ConcatProperties
    <3> QED BY <3>1, <3>2
  <2>3. G \in [1 .. m + 1 -> Seq(X)]
    <3> HIDE DEF last
    <3> QED BY <2>2
  <2>4. Joins(G, ss, m + 1)
    <3> SUFFICES ASSUME NEW i \in 1 .. m + 1
                 PROVE  G[i] = IF i = 1 THEN ss[1] ELSE G[i - 1] \o ss[i]
      BY DEF Joins
    <3>1. CASE i = m + 1
      <4>1. m # 0 => m \in 1 .. m + 1 /\ m # m + 1 /\ G[m] = F[m]
        OBVIOUS
      <4>2. G[i] = last
        BY <3>1
      <4> HIDE DEF G
      <4> QED BY <3>1, <4>1, <4>2
    <3>2. CASE i # m + 1
      <4>1. i \in 1 .. m /\ G[i] = F[i]
        BY <3>2
      <4>2. i # 1 => i - 1 \in 1 .. m + 1 /\ i - 1 # m + 1 /\ G[i - 1] = F[i - 1]
        BY <3>2
      <4>3. F[i] = IF i = 1 THEN ss[1] ELSE F[i - 1] \o ss[i]
        BY <2>1, <4>1 DEF Joins
      <4> HIDE DEF G
      <4> QED BY <4>1, <4>2, <4>3
    <3> QED BY <3>1, <3>2
  <2> HIDE DEF G
  <2> QED BY <2>3, <2>4
<1> HIDE DEF D
<1>3. n \in D
  BY <1>1, <1>2, SetInduction
<1> QED BY <1>3 DEF D

LEMMA Flattened ==
    ASSUME NEW X, NEW ss \in Seq(Seq(X)), ss # << >>
    PROVE  \E F \in [1 .. Len(ss) -> Seq(X)] : Joins(F, ss, Len(ss)) /\ Wire!FlattenSeq(ss) = F[Len(ss)]
<1> DEFINE n == Len(ss)
           C(F) == F = [i \in 1 .. n |-> IF i = 1 THEN ss[i] ELSE F[i - 1] \o ss[i]]
<1>1. n \in Nat \ {0} /\ \A i \in 1 .. n : ss[i] \in Seq(X)
  OBVIOUS
<1>2. PICK F \in [1 .. n -> Seq(X)] : Joins(F, ss, n)
  BY <1>1, JoinsExists
<1>3. C(F)
  <2>1. \A i \in 1 .. n : F[i] = IF i = 1 THEN ss[i] ELSE F[i - 1] \o ss[i]
    BY <1>2 DEF Joins
  <2> QED BY <2>1
<1>4. Wire!FlattenSeq(ss) = (CHOOSE G : C(G))[n]
  BY <1>1 DEF Wire!FlattenSeq
<1>5. PICK G : G = CHOOSE H : C(H)
  OBVIOUS
<1>6. C(G)
  BY <1>3, <1>5
<1>7. \A i \in 1 .. n : G[i] = IF i = 1 THEN ss[i] ELSE G[i - 1] \o ss[i]
  BY <1>6
<1>8. \A i \in 1 .. n : F[i] = IF i = 1 THEN ss[i] ELSE F[i - 1] \o ss[i]
  BY <1>2 DEF Joins
<1> DEFINE D == {i \in Nat : i \in 1 .. n => G[i] = F[i]}
<1>9. Nat \subseteq D
  <2>1. 0 \in D
    OBVIOUS
  <2>2. ASSUME NEW i \in Nat, i \in D PROVE i + 1 \in D
    <3> SUFFICES ASSUME NEW m \in 1 .. n, m = i + 1 PROVE G[m] = F[m]
      OBVIOUS
    <3> HIDE DEF n
    <3>1. CASE m = 1
      BY <1>7, <1>8, <3>1
    <3>2. CASE m # 1
      <4>1. m - 1 = i /\ i \in 1 .. n
        BY <1>1, <3>2
      <4>2. G[m - 1] = F[m - 1]
        BY <2>2, <4>1
      <4>3. G[m] = G[m - 1] \o ss[m] /\ F[m] = F[m - 1] \o ss[m]
        BY <1>7, <1>8, <3>2
      <4> QED BY <4>2, <4>3
    <3> QED BY <3>1, <3>2
  <2> HIDE DEF D
  <2> QED BY <2>1, <2>2, SetInduction
<1>10. G[n] = F[n]
  <2>1. n \in D /\ n \in 1 .. n
    <3> HIDE DEF n, D
    <3> QED BY <1>1, <1>9
  <2> QED BY <2>1
<1> QED BY <1>2, <1>4, <1>5, <1>10

-----------------------------------------------------------------------------
(***************************************************************************)
(* What the bootstrap does: in every part of it, a subscription is entered *)
(* behind the command that asks for it.                                    *)
(***************************************************************************)
Universe == {Tickers[i] : i \in DOMAIN Tickers}

Ops == {Write(command(k, t)) : k \in SubscriptionKind, t \in Universe}
       \cup {Enter(k, t) : k \in SubscriptionKind, t \in Universe}
       \cup {discovery[i] : i \in 1 .. 3}

AllOps == Ops \cup {Write(w) : w \in OtherCommands}

Sound(s) == \A i \in 1 .. Len(s) : \A k, t : s[i] = Enter(k, t) => \E j \in 1 .. i - 1 : s[j] = Write(command(k, t))

LEMMA OpForms ==
    /\ \A w : Write(w).do = "write" /\ Write(w).what = w
    /\ \A k, t : Enter(k, t).do = "enter" /\ Enter(k, t).what = << k, t >>
    /\ \A w, k, t : Write(w) # Enter(k, t)
    /\ \A k, t, l, u : Enter(k, t) = Enter(l, u) => k = l /\ t = u
<1>1. \A w : Write(w).do = "write" /\ Write(w).what = w
  BY DEF Write
<1>2. \A k, t : Enter(k, t).do = "enter" /\ Enter(k, t).what = << k, t >>
  BY DEF Enter
<1>3. \A w, k, t : Write(w) # Enter(k, t)
  <2> TAKE w, k, t
  <2>1. Write(w).do = "write" /\ Enter(k, t).do = "enter"
    BY <1>1, <1>2
  <2> QED BY <2>1
<1>4. ASSUME NEW k, NEW t, NEW l, NEW u, Enter(k, t) = Enter(l, u) PROVE k = l /\ t = u
  <2>1. << k, t >> = << l, u >>
    BY <1>2, <1>4
  <2> QED BY <2>1
<1> QED BY <1>1, <1>2, <1>3, <1>4

\* A command of more than one word.
LEMMA LongNotCut ==
    ASSUME NEW X, NEW Y, NEW x \in Seq(X), NEW y \in Seq(Y), Len(x) > 1
    PROVE  x \o y # << "cut" >>
<1>1. x \in Seq(X \cup Y) /\ y \in Seq(X \cup Y)
  OBVIOUS
<1>2. Len(x \o y) = Len(x) + Len(y) /\ Len(x) \in Nat /\ Len(y) \in Nat
  BY <1>1, ConcatProperties
<1>3. Len(<< "cut" >>) = 1
  OBVIOUS
<1> DEFINE z == x \o y
<1> HIDE DEF z
<1>4. Len(z) # 1
  BY <1>2 DEF z
<1>5. z # << "cut" >>
  BY <1>3, <1>4
<1> QED BY <1>5 DEF z

LEMMA CommandNotCut ==
    ASSUME NEW k \in SubscriptionKind, NEW t
    PROVE  command(k, t) # << "cut" >>
<1>1. CASE k = "Quote"
  BY <1>1 DEF command, subscribe_quote
<1>2. CASE k = "BookDetailed"
  BY <1>2 DEF command, subscribe_book_detailed
<1>3. CASE k = "BookAggregated"
  BY <1>3 DEF command, subscribe_book_aggregated
<1>4. CASE k = "Trades"
  <2>1. command(k, t) = << "GQT", t, "S" >> \o << "50" >>
    BY <1>4 DEF command, subscribe_trades
  <2>2. << "GQT", t, "S" >> \in Seq({"GQT", t, "S"}) /\ << "50" >> \in Seq({"50"})
    OBVIOUS
  <2> QED BY <2>1, <2>2, LongNotCut
<1> QED BY <1>1, <1>2, <1>3, <1>4 DEF SubscriptionKind

LEMMA Discovery ==
    /\ discovery = << discovery[1], discovery[2], discovery[3] >>
    /\ \A i \in 1 .. 3 : \E w : discovery[i] = Write(w) /\ w # << "cut" >>
<1> DEFINE a == list_brokers("BOVESPA")
           b == list_market("Bovespa", "1", << >>)
           c == list_market("BMF", "7", << "130" >>)
<1>1. a # << "cut" >>
  BY DEF list_brokers
<1>2. b # << "cut" >>
  BY DEF list_market
<1>3. c # << "cut" >>
  <2>1. c = << "MQC", "BMF", "T", "7", "S" >> \o << "130" >>
    BY DEF list_market
  <2>2. << "MQC", "BMF", "T", "7", "S" >> \in Seq({"MQC", "BMF", "T", "7", "S"}) /\ << "130" >> \in Seq({"130"})
    OBVIOUS
  <2> QED BY <2>1, <2>2, LongNotCut
<1>4. discovery = << Write(a), Write(b), Write(c) >>
  BY DEF discovery
<1> HIDE DEF a, b, c
<1> DEFINE x == Write(a)
           y == Write(b)
           z == Write(c)
<1> HIDE DEF x, y, z
<1>5. discovery = << x, y, z >>
  BY <1>4 DEF x, y, z
<1>6. discovery[1] = x /\ discovery[2] = y /\ discovery[3] = z
  BY <1>5
<1> QED BY <1>1, <1>2, <1>3, <1>5, <1>6 DEF x, y, z

LEMMA OpTypes ==
    ASSUME NEW o \in AllOps
    PROVE  /\ o.do \in {"write", "enter"}
           /\ o.do = "write" => o = Write(o.what) /\ o.what # << "cut" >>
           /\ o.do = "enter" => \E k \in SubscriptionKind, t \in Universe : o = Enter(k, t)
<1>1. CASE \E k \in SubscriptionKind, t \in Universe : o = Enter(k, t)
  BY <1>1, OpForms
<1>2. CASE \E w : o = Write(w) /\ w # << "cut" >>
  BY <1>2, OpForms
<1>3. \/ \E k \in SubscriptionKind, t \in Universe : o = Enter(k, t)
      \/ \E k \in SubscriptionKind, t \in Universe : o = Write(command(k, t))
      \/ \E i \in 1 .. 3 : o = discovery[i]
      \/ \E w \in OtherCommands : o = Write(w)
  BY DEF AllOps, Ops
<1> QED BY <1>1, <1>2, <1>3, CommandNotCut, Discovery, SessionAssumption

LEMMA SubscribeSound ==
    ASSUME NEW t \in Universe
    PROVE  subscribe(t) \in Seq(Ops) /\ Sound(subscribe(t))
<1> DEFINE kinds == IF t \in BookSet THEN << "Quote", "BookDetailed", "Trades" >> ELSE << "Quote", "Trades" >>
           n == Len(kinds)
           a == [i \in 1 .. n |-> Write(command(kinds[i], t))]
           b == [i \in 1 .. n |-> Enter(kinds[i], t)]
           s == a \o b
<1>1. n \in Nat /\ DOMAIN kinds = 1 .. n /\ \A i \in 1 .. n : kinds[i] \in SubscriptionKind
  <2>1. << "Quote", "BookDetailed", "Trades" >> \in Seq(SubscriptionKind)
    BY DEF SubscriptionKind
  <2>2. << "Quote", "Trades" >> \in Seq(SubscriptionKind)
    BY DEF SubscriptionKind
  <2>3. kinds \in Seq(SubscriptionKind)
    BY <2>1, <2>2
  <2> HIDE DEF kinds
  <2> QED BY <2>3
<1>2. subscribe(t) = s
  BY <1>1 DEF subscribe
<1> HIDE DEF kinds, n
<1>3. a \in Seq(Ops) /\ b \in Seq(Ops) /\ Len(a) = n /\ Len(b) = n
  BY <1>1 DEF Ops
<1>4. /\ s \in Seq(Ops) /\ Len(s) = n + n
      /\ \A i \in 1 .. n + n : s[i] = IF i <= n THEN a[i] ELSE b[i - n]
  <2> HIDE DEF a, b
  <2> QED BY <1>1, <1>3, ConcatProperties
<1>5. \A i \in 1 .. n : s[i] = Write(command(kinds[i], t)) /\ s[n + i] = Enter(kinds[i], t)
  <2> TAKE i \in 1 .. n
  <2>1. a[i] = Write(command(kinds[i], t)) /\ b[i] = Enter(kinds[i], t)
    OBVIOUS
  <2>2. i \in 1 .. n + n /\ n + i \in 1 .. n + n /\ i <= n /\ ~(n + i <= n) /\ n + i - n = i
    BY <1>1
  <2> HIDE DEF s, a, b
  <2>3. s[i] = a[i]
    BY <1>4, <2>2
  <2>4. PICK m \in 1 .. n + n : m = n + i /\ ~(m <= n) /\ m - n = i
    BY <1>1, <2>2
  <2>5. s[m] = b[m - n]
    BY <1>4, <2>4
  <2>6. s[n + i] = b[i]
    BY <2>4, <2>5
  <2> QED BY <2>1, <2>3, <2>6
<1> HIDE DEF s, a, b
<1>6. Sound(s)
  <2> SUFFICES ASSUME NEW i \in 1 .. Len(s), NEW k, NEW u, s[i] = Enter(k, u)
               PROVE  \E j \in 1 .. i - 1 : s[j] = Write(command(k, u))
    BY DEF Sound
  <2>1. i > n
    <3> SUFFICES ASSUME i <= n PROVE FALSE
      BY <1>1, <1>4
    <3>1. i \in 1 .. n
      BY <1>1, <1>4
    <3> QED BY <1>5, <3>1, OpForms
  <2>2. i - n \in 1 .. n /\ n + (i - n) = i /\ i - n \in 1 .. i - 1
    BY <1>1, <1>4, <2>1
  <2>3. s[i] = Enter(kinds[i - n], t) /\ s[i - n] = Write(command(kinds[i - n], t))
    BY <1>5, <2>2
  <2>4. k = kinds[i - n] /\ u = t
    <3>1. Enter(k, u) = Enter(kinds[i - n], t)
      BY <2>3
    <3>2. PICK q : q = kinds[i - n]
      OBVIOUS
    <3>3. Enter(k, u) = Enter(q, t)
      BY <3>1, <3>2
    <3> QED BY <3>2, <3>3, OpForms
  <2> QED BY <2>2, <2>3, <2>4
<1> QED BY <1>2, <1>4, <1>6

LEMMA JoinSound ==
    ASSUME NEW x \in Seq(Ops), NEW y \in Seq(Ops), Sound(x), Sound(y)
    PROVE  x \o y \in Seq(Ops) /\ Sound(x \o y)
<1> DEFINE s == x \o y
<1>1. /\ s \in Seq(Ops) /\ Len(s) = Len(x) + Len(y) /\ Len(x) \in Nat /\ Len(y) \in Nat
      /\ \A i \in 1 .. Len(x) + Len(y) : s[i] = IF i <= Len(x) THEN x[i] ELSE y[i - Len(x)]
  BY ConcatProperties
<1> HIDE DEF s
<1>2. ASSUME NEW i \in 1 .. Len(s), NEW k, NEW u, s[i] = Enter(k, u)
      PROVE  \E j \in 1 .. i - 1 : s[j] = Write(command(k, u))
  <2>1. CASE i <= Len(x)
    <3>1. i \in 1 .. Len(x) /\ x[i] = Enter(k, u)
      BY <1>1, <1>2, <2>1
    <3>2. PICK j \in 1 .. i - 1 : x[j] = Write(command(k, u))
      BY <3>1 DEF Sound
    <3>3. s[j] = x[j]
      BY <1>1, <3>1, <3>2
    <3> QED BY <3>2, <3>3
  <2>2. CASE i > Len(x)
    <3>1. i - Len(x) \in 1 .. Len(y) /\ y[i - Len(x)] = Enter(k, u)
      BY <1>1, <1>2, <2>2
    <3>2. PICK j \in 1 .. i - Len(x) - 1 : y[j] = Write(command(k, u))
      BY <3>1 DEF Sound
    <3>3. Len(x) + j \in 1 .. i - 1 /\ Len(x) + j \in 1 .. Len(x) + Len(y) /\ ~(Len(x) + j <= Len(x))
          /\ Len(x) + j - Len(x) = j
      BY <1>1, <3>1, <3>2
    <3>4. s[Len(x) + j] = y[j]
      BY <1>1, <3>3
    <3> QED BY <3>2, <3>3, <3>4
  <2>3. i \in Nat /\ Len(x) \in Nat
    BY <1>1
  <2> QED BY <2>1, <2>2, <2>3
<1>3. Sound(s)
  BY <1>2 DEF Sound
<1> QED BY <1>1, <1>3 DEF s

LEMMA RunSound == run \in Seq(Ops) /\ Sound(run)
<1> DEFINE ss == [i \in DOMAIN Tickers |-> subscribe(Tickers[i])]
           n == Len(Tickers)
<1>1. n \in Nat /\ DOMAIN Tickers = 1 .. n /\ \A i \in 1 .. n : Tickers[i] \in Universe
  BY SessionAssumption DEF Universe
<1>2. \A i \in 1 .. n : ss[i] \in Seq(Ops) /\ Sound(ss[i])
  BY <1>1, SubscribeSound
<1>3. ss \in Seq(Seq(Ops)) /\ Len(ss) = n
  BY <1>1, SubscribeSound
<1>4. Wire!FlattenSeq(ss) \in Seq(Ops) /\ Sound(Wire!FlattenSeq(ss))
  <2>1. CASE n = 0
    <3>1. Wire!FlattenSeq(ss) = ss
      BY <1>3, <2>1 DEF Wire!FlattenSeq
    <3>2. ss = << >>
      BY <1>3, <2>1
    <3> HIDE DEF ss
    <3> QED BY <3>1, <3>2 DEF Sound
  <2>2. CASE n # 0
    <3> HIDE DEF ss
    <3>1. ss # << >>
      BY <1>3, <2>2
    <3>2. PICK F \in [1 .. n -> Seq(Ops)] : Joins(F, ss, n) /\ Wire!FlattenSeq(ss) = F[n]
      BY <1>3, <3>1, Flattened
    <3> DEFINE D == {i \in Nat : i \in 1 .. n => Sound(F[i])}
    <3>3. 0 \in D
      BY <1>1
    <3>4. ASSUME NEW i \in Nat, i \in D PROVE i + 1 \in D
      <4> SUFFICES ASSUME NEW m \in 1 .. n, m = i + 1 PROVE Sound(F[m])
        OBVIOUS
      <4> HIDE DEF n
      <4>j. F[m] = IF m = 1 THEN ss[1] ELSE F[m - 1] \o ss[m]
        BY <3>2 DEF Joins
      <4>1. CASE m = 1
        BY <1>2, <4>1, <4>j
      <4>2. CASE m # 1
        <5>1. m - 1 = i /\ i \in 1 .. n
          BY <1>1, <4>2
        <5>2. F[m - 1] \in Seq(Ops) /\ Sound(F[m - 1])
          BY <3>4, <5>1
        <5>3. ss[m] \in Seq(Ops) /\ Sound(ss[m])
          BY <1>2
        <5> QED BY <4>2, <4>j, <5>2, <5>3, JoinSound
      <4> QED BY <4>1, <4>2
    <3> HIDE DEF D
    <3>5. n \in D
      BY <1>1, <3>3, <3>4, SetInduction
    <3> QED BY <1>1, <2>2, <3>2, <3>5 DEF D
  <2> QED BY <2>1, <2>2
<1>5. discovery \in Seq(Ops) /\ Sound(discovery)
  <2> DEFINE x == discovery[1]
             y == discovery[2]
             z == discovery[3]
  <2>1. x \in Ops /\ y \in Ops /\ z \in Ops
    BY DEF Ops
  <2>2. discovery = << x, y, z >> /\ \A i \in 1 .. 3 : \E w : discovery[i] = Write(w)
    BY Discovery
  <2> HIDE DEF x, y, z
  <2>3. discovery \in Seq(Ops) /\ Len(discovery) = 3
    BY <2>1, <2>2
  <2>4. \A i \in 1 .. 3 : \A k, t : discovery[i] # Enter(k, t)
    BY <2>2, OpForms
  <2> QED BY <2>3, <2>4 DEF Sound
<1> HIDE DEF ss
<1>6. discovery \o Wire!FlattenSeq(ss) \in Seq(Ops) /\ Sound(discovery \o Wire!FlattenSeq(ss))
  BY <1>4, <1>5, JoinSound
<1> QED BY <1>6 DEF run, ss

-----------------------------------------------------------------------------
(***************************************************************************)
(* The parsers, for every sequence of tokens: the names of a layout are    *)
(* the fields of the record it reads, and a conversion fails with one of   *)
(* ParseError's kinds.                                                     *)
(***************************************************************************)

\* The wire types a layout may name.
WireTypes == {"bytes", "some_bytes", "u16", "u32", "u64", "i64", "f64", "byte", "some_byte",
              "side", "aggressor", "condition", "phase", "flag", "period"}

\* A result of a conversion: a value or one of ParseError's kinds.
Outcome(r) == r.err = "none" \/ r.err \in ErrorKinds

LEMMA NumberOutcome ==
    ASSUME NEW tok, NEW shapes, NEW width, NEW kind \in ErrorKinds
    PROVE  Outcome(number(tok, shapes, width, kind))
BY DEF number, Outcome, Ok, Err

LEMMA Outcomes ==
    ASSUME NEW tok
    PROVE  /\ Outcome(parse_u64(tok)) /\ Outcome(parse_u32(tok)) /\ Outcome(parse_u16(tok))
           /\ Outcome(parse_i64(tok)) /\ Outcome(parse_f64(tok)) /\ Outcome(single_byte(tok))
           /\ Outcome(parse_side(tok))
<1>1. "BadInteger" \in ErrorKinds /\ "BadFloat" \in ErrorKinds /\ "BadEncoding" \in ErrorKinds /\ "InvalidField" \in ErrorKinds
  BY DEF ErrorKinds
<1>2. Outcome(parse_u64(tok)) /\ Outcome(parse_u32(tok)) /\ Outcome(parse_u16(tok)) /\ Outcome(parse_i64(tok))
  BY <1>1, NumberOutcome DEF parse_u64, parse_u32, parse_u16, parse_i64
<1>3. Outcome(parse_f64(tok))
  <2>1. Outcome(number(tok, {"digits", "signed", "decimal"}, 65, "BadFloat"))
    BY <1>1, NumberOutcome
  <2>2. Outcome(Err("BadEncoding"))
    BY <1>1 DEF Outcome, Err
  <2> QED BY <2>1, <2>2 DEF parse_f64
<1>4. Outcome(single_byte(tok)) /\ Outcome(parse_side(tok))
  BY <1>1 DEF single_byte, parse_side, Outcome, Ok, Err
<1> QED BY <1>2, <1>3, <1>4

LEMMA DecodeOutcome ==
    ASSUME NEW type \in WireTypes, NEW tok
    PROVE  Outcome(decode(type, tok))
<1>0. "InvalidField" \in ErrorKinds
  BY DEF ErrorKinds
<1>1. Outcome(single_byte(tok)) /\ Outcome(parse_u16(tok)) /\ Outcome(parse_u32(tok))
  BY Outcomes
<1>2. CASE type \in {"u16", "u32", "u64", "i64", "f64", "byte", "side"}
  BY <1>2, Outcomes DEF decode, Then
<1>3. CASE type \in {"bytes", "some_bytes", "phase", "flag"}
  BY <1>0, <1>3 DEF decode, Then, Outcome, Ok, Err
<1>4. CASE type \in {"some_byte", "aggressor", "condition", "period"}
  BY <1>1, <1>4 DEF decode, Then, Outcome, Ok
<1> QED BY <1>2, <1>3, <1>4 DEF WireTypes

Labels == {"_", "ticker", "time_hhmmss", "side", "price", "quantity", "broker_id",
           "timestamp_ddmmhhmm", "order_id", "offer_type", "position", "old_pos", "offer_count",
           "broker_buy_id", "broker_sell_id", "trade_id", "condition", "aggressor",
           "original_conditions", "request_id", "agency", "code", "date", "time", "category",
           "buyer_trades", "buyer_volume", "seller_trades", "seller_volume", "direct_trades",
           "direct_volume", "undefined_trades", "undefined_volume", "period_minutes",
           "rlp_trades", "rlp_volume", "auction_trades", "auction_volume", "market", "exchange",
           "name", "cedro_id", "active"}
Entries == Labels \X WireTypes
Layouts == Seq(Entries)

Names(layout) == {layout[i][1] : i \in DOMAIN layout} \ {"_"}

\* A result with exactly the given fields, or an error.
Fields(r, names) == IF r.err = "none" THEN DOMAIN r.val = names ELSE r.err \in ErrorKinds

LEMMA ReadFields ==
    ASSUME NEW toks, NEW layout \in Layouts
    PROVE  Fields(read(toks, layout), Names(layout))
<1> DEFINE field(i) == decode(layout[i][2], toks[i])
           bad == {i \in DOMAIN layout : i > Len(toks) \/ field(i).err # "none"}
           name(i) == layout[i][1]
           rec == [n \in {name(i) : i \in DOMAIN layout} \ {"_"} |->
                    field(CHOOSE i \in DOMAIN layout : name(i) = n).val]
<1>1. read(toks, layout) = IF bad = {} THEN Ok(rec)
                           ELSE IF Min(bad) > Len(toks) THEN Err("MissingField") ELSE field(Min(bad))
  BY Zenon DEF read
<1>2. CASE bad = {}
  <2>1. Ok(rec).err = "none" /\ Ok(rec).val = rec
    BY DEF Ok
  <2>2. DOMAIN rec = Names(layout)
    BY DEF Names
  <2> HIDE DEF rec, bad
  <2> QED BY <1>1, <1>2, <2>1, <2>2 DEF Fields
<1>3. CASE bad # {}
  <2>1. Min(bad) \in bad
    <3>1. bad \in SUBSET Nat
      BY DEF Layouts
    <3> HIDE DEF bad
    <3>2. \E x \in bad : \A y \in bad : x <= y
      BY <1>3, <3>1, Least
    <3> QED BY <3>2 DEF Min
  <2>2. CASE Min(bad) > Len(toks)
    <3>1. read(toks, layout) = Err("MissingField")
      BY <1>1, <1>3, <2>2
    <3>2. Err("MissingField").err = "MissingField"
      BY DEF Err
    <3> QED BY <3>1, <3>2 DEF Fields, ErrorKinds
  <2>3. CASE ~(Min(bad) > Len(toks))
    <3>1. read(toks, layout) = field(Min(bad))
      BY <1>1, <1>3, <2>3
    <3>2. PICK m : m = Min(bad)
      OBVIOUS
    <3>3. m \in DOMAIN layout /\ field(m).err # "none"
      BY <2>1, <2>3, <3>2
    <3>4. layout[m][2] \in WireTypes
      BY <3>3 DEF Layouts, Entries, Entries
    <3>5. Outcome(field(m))
      BY <3>4, DecodeOutcome
    <3> QED BY <3>1, <3>2, <3>3, <3>5 DEF Fields, Outcome
  <2> QED BY <2>2, <2>3
<1> QED BY <1>2, <1>3

LEMMA MessageFields ==
    ASSUME NEW kind, NEW names, NEW r, Fields(r, names), NEW more
    PROVE  /\ Fields(message(kind, r, more), {"kind"} \cup DOMAIN more \cup names)
           /\ message(kind, r, more).err = "none" => message(kind, r, more).val.kind = kind
<1>1. CASE r.err = "none"
  <2> DEFINE m == [kind |-> kind] @@ more @@ r.val
  <2>1. DOMAIN m = {"kind"} \cup DOMAIN more \cup names /\ m.kind = kind
    BY <1>1 DEF @@, Fields
  <2>2. message(kind, r, more) = Ok(m)
    BY <1>1 DEF message
  <2> HIDE DEF m
  <2>3. Ok(m).err = "none" /\ Ok(m).val = m
    BY DEF Ok
  <2> QED BY <2>1, <2>2, <2>3 DEF Fields
<1>2. CASE r.err # "none"
  BY <1>2 DEF message, Fields
<1> QED BY <1>1, <1>2

LEMMA LayoutCat ==
    ASSUME NEW a \in Layouts, NEW b \in Layouts
    PROVE  a \o b \in Layouts /\ Names(a \o b) = Names(a) \cup Names(b)
<1>1. a \o b \in Layouts /\ DOMAIN (a \o b) = 1 .. Len(a) + Len(b)
  BY DEF Layouts
<1>2. DOMAIN a = 1 .. Len(a) /\ DOMAIN b = 1 .. Len(b) /\ Len(a) \in Nat /\ Len(b) \in Nat
  BY DEF Layouts
<1>3. ASSUME NEW n \in Names(a \o b) PROVE n \in Names(a) \cup Names(b)
  <2>1. PICK i \in 1 .. Len(a) + Len(b) : n = (a \o b)[i][1] /\ n # "_"
    BY <1>1 DEF Names
  <2>2. CASE i <= Len(a)
    <3>1. (a \o b)[i] = a[i] /\ i \in 1 .. Len(a)
      BY <1>2, <2>2 DEF Layouts
    <3> QED BY <1>2, <2>1, <3>1 DEF Names
  <2>3. CASE ~(i <= Len(a))
    <3>1. (a \o b)[i] = b[i - Len(a)] /\ i - Len(a) \in 1 .. Len(b)
      BY <1>2, <2>3 DEF Layouts
    <3> QED BY <1>2, <2>1, <3>1 DEF Names
  <2> QED BY <2>2, <2>3
<1>4. ASSUME NEW n \in Names(a) PROVE n \in Names(a \o b)
  <2>1. PICK i \in 1 .. Len(a) : n = a[i][1] /\ n # "_"
    BY <1>2 DEF Names
  <2>2. (a \o b)[i] = a[i] /\ i \in 1 .. Len(a) + Len(b)
    BY <1>2 DEF Layouts
  <2> QED BY <1>1, <2>1, <2>2 DEF Names
<1>5. ASSUME NEW n \in Names(b) PROVE n \in Names(a \o b)
  <2>1. PICK i \in 1 .. Len(b) : n = b[i][1] /\ n # "_"
    BY <1>2 DEF Names
  <2>2. (a \o b)[Len(a) + i] = b[i] /\ Len(a) + i \in 1 .. Len(a) + Len(b)
    BY <1>2 DEF Layouts
  <2> QED BY <1>1, <2>1, <2>2 DEF Names
<1> QED BY <1>1, <1>3, <1>4, <1>5

\* An entry of a layout.
LEMMA Entry ==
    ASSUME NEW n \in Labels, NEW w \in WireTypes
    PROVE  <<n, w>> \in Entries /\ <<n, w>>[1] = n
BY DEF Entries

LEMMA Names1 ==
    ASSUME NEW s \in Layouts, DOMAIN s = 1 .. 1
    PROVE  Names(s) = {s[1][1]} \ {"_"}
BY DEF Names

LEMMA Names2 ==
    ASSUME NEW s \in Layouts, DOMAIN s = 1 .. 2
    PROVE  Names(s) = {s[1][1], s[2][1]} \ {"_"}
BY DEF Names

LEMMA Names3 ==
    ASSUME NEW s \in Layouts, DOMAIN s = 1 .. 3
    PROVE  Names(s) = {s[1][1], s[2][1], s[3][1]} \ {"_"}
BY DEF Names

LEMMA Names4 ==
    ASSUME NEW s \in Layouts, DOMAIN s = 1 .. 4
    PROVE  Names(s) = {s[1][1], s[2][1], s[3][1], s[4][1]} \ {"_"}
BY DEF Names

LEMMA Names5 ==
    ASSUME NEW s \in Layouts, DOMAIN s = 1 .. 5
    PROVE  Names(s) = {s[1][1], s[2][1], s[3][1], s[4][1], s[5][1]} \ {"_"}
BY DEF Names

LEMMA Names6 ==
    ASSUME NEW s \in Layouts, DOMAIN s = 1 .. 6
    PROVE  Names(s) = {s[1][1], s[2][1], s[3][1], s[4][1], s[5][1], s[6][1]} \ {"_"}
BY DEF Names

LEMMA Names9 ==
    ASSUME NEW s \in Layouts, DOMAIN s = 1 .. 9
    PROVE  Names(s) = {s[1][1], s[2][1], s[3][1], s[4][1], s[5][1], s[6][1], s[7][1], s[8][1], s[9][1]} \ {"_"}
BY DEF Names

LEMMA TickerOpLayout ==
    /\ TickerOp \in Layouts
    /\ Names(TickerOp) = {"ticker"}
<1>1. PICK a, b : a = <<"_", "bytes">> /\ b = <<"ticker", "bytes">>
  OBVIOUS
<1>2. a \in Entries /\ b \in Entries
  BY <1>1 DEF Entries, Labels, WireTypes
<1>3. << a, b, a >> \in Layouts /\ DOMAIN << a, b, a >> = 1 .. 3
  BY <1>2 DEF Layouts
<1>4. PICK s : s = << a, b, a >>
  OBVIOUS
<1>5. s[1][1] = "_" /\ s[2][1] = "ticker" /\ s[3][1] = "_"
  BY <1>1, <1>4
<1>6. s \in Layouts /\ DOMAIN s = 1 .. 3
  BY <1>3, <1>4
<1>7. Names(s) = {s[1][1], s[2][1], s[3][1]} \ {"_"}
  BY <1>6, Names3
<1>8. Names(s) = {"ticker"}
  BY <1>5, <1>7
<1> QED BY <1>1, <1>4, <1>6, <1>8 DEF TickerOp

LEMMA EntryTailLayout ==
    /\ EntryTail \in Layouts
    /\ Names(EntryTail) = {"side", "price", "quantity", "broker_id", "timestamp_ddmmhhmm"}
<1>1. PICK a, b, c, d, e : /\ a = <<"side", "side">> /\ b = <<"price", "f64">>
                           /\ c = <<"quantity", "u64">> /\ d = <<"broker_id", "u32">>
                           /\ e = <<"timestamp_ddmmhhmm", "u32">>
  OBVIOUS
<1>2. a \in Entries /\ b \in Entries /\ c \in Entries /\ d \in Entries /\ e \in Entries
  BY <1>1 DEF Entries, Labels, WireTypes
<1>3. << a, b, c, d, e >> \in Layouts /\ DOMAIN << a, b, c, d, e >> = 1 .. 5
  BY <1>2 DEF Layouts
<1>4. PICK s : s = << a, b, c, d, e >>
  OBVIOUS
<1>5. /\ s[1][1] = "side" /\ s[2][1] = "price" /\ s[3][1] = "quantity"
      /\ s[4][1] = "broker_id" /\ s[5][1] = "timestamp_ddmmhhmm"
  BY <1>1, <1>4
<1>6. s \in Layouts /\ DOMAIN s = 1 .. 5
  BY <1>3, <1>4
<1>7. Names(s) = {s[1][1], s[2][1], s[3][1], s[4][1], s[5][1]} \ {"_"}
  BY <1>6, Names5
<1>8. Names(s) = {"side", "price", "quantity", "broker_id", "timestamp_ddmmhhmm"}
  BY <1>5, <1>7
<1> QED BY <1>1, <1>4, <1>6, <1>8 DEF EntryTail

LEMMA OfferTailLayout ==
    /\ OfferTail \in Layouts
    /\ Names(OfferTail) = {"order_id", "offer_type"}
<1>1. PICK a, b : a = <<"order_id", "some_bytes">> /\ b = <<"offer_type", "some_byte">>
  OBVIOUS
<1>2. a \in Entries /\ b \in Entries
  BY <1>1 DEF Entries, Labels, WireTypes
<1>3. << a, b >> \in Layouts /\ DOMAIN << a, b >> = 1 .. 2
  BY <1>2 DEF Layouts
<1>4. PICK s : s = << a, b >>
  OBVIOUS
<1>5. s[1][1] = "order_id" /\ s[2][1] = "offer_type"
  BY <1>1, <1>4
<1>6. s \in Layouts /\ DOMAIN s = 1 .. 2
  BY <1>3, <1>4
<1>7. Names(s) = {s[1][1], s[2][1]} \ {"_"}
  BY <1>6, Names2
<1>8. Names(s) = {"order_id", "offer_type"}
  BY <1>5, <1>7
<1> QED BY <1>1, <1>4, <1>6, <1>8 DEF OfferTail

LEMMA PositionLayout ==
    /\ << <<"position", "u32">> >> \in Layouts
    /\ Names(<< <<"position", "u32">> >>) = {"position"}
<1>1. PICK a : a = <<"position", "u32">>
  OBVIOUS
<1>2. a \in Entries
  BY <1>1 DEF Entries, Labels, WireTypes
<1>3. << a >> \in Layouts /\ DOMAIN << a >> = 1 .. 1
  BY <1>2 DEF Layouts
<1>4. PICK s : s = << a >>
  OBVIOUS
<1>5. s[1][1] = "position"
  BY <1>1, <1>4
<1>6. s \in Layouts /\ DOMAIN s = 1 .. 1
  BY <1>3, <1>4
<1>7. Names(s) = {s[1][1]} \ {"_"}
  BY <1>6, Names1
<1>8. Names(s) = {"position"}
  BY <1>5, <1>7
<1> QED BY <1>1, <1>4, <1>6, <1>8

LEMMA PositionsLayout ==
    /\ << <<"position", "u32">>, <<"old_pos", "u32">> >> \in Layouts
    /\ Names(<< <<"position", "u32">>, <<"old_pos", "u32">> >>) = {"position", "old_pos"}
<1>1. PICK a, b : a = <<"position", "u32">> /\ b = <<"old_pos", "u32">>
  OBVIOUS
<1>2. a \in Entries /\ b \in Entries
  BY <1>1 DEF Entries, Labels, WireTypes
<1>3. << a, b >> \in Layouts /\ DOMAIN << a, b >> = 1 .. 2
  BY <1>2 DEF Layouts
<1>4. PICK s : s = << a, b >>
  OBVIOUS
<1>5. s[1][1] = "position" /\ s[2][1] = "old_pos"
  BY <1>1, <1>4
<1>6. s \in Layouts /\ DOMAIN s = 1 .. 2
  BY <1>3, <1>4
<1>7. Names(s) = {s[1][1], s[2][1]} \ {"_"}
  BY <1>6, Names2
<1>8. Names(s) = {"position", "old_pos"}
  BY <1>5, <1>7
<1> QED BY <1>1, <1>4, <1>6, <1>8

LEMMA DeleteTailLayout ==
    /\ << <<"_", "bytes">>, <<"side", "side">>, <<"position", "u32">> >> \in Layouts
    /\ Names(<< <<"_", "bytes">>, <<"side", "side">>, <<"position", "u32">> >>) = {"side", "position"}
<1>1. PICK a, b, c : /\ a = <<"_", "bytes">> /\ b = <<"side", "side">>
                     /\ c = <<"position", "u32">>
  OBVIOUS
<1>2. a \in Entries /\ b \in Entries /\ c \in Entries
  BY <1>1 DEF Entries, Labels, WireTypes
<1>3. << a, b, c >> \in Layouts /\ DOMAIN << a, b, c >> = 1 .. 3
  BY <1>2 DEF Layouts
<1>4. PICK s : s = << a, b, c >>
  OBVIOUS
<1>5. s[1][1] = "_" /\ s[2][1] = "side" /\ s[3][1] = "position"
  BY <1>1, <1>4
<1>6. s \in Layouts /\ DOMAIN s = 1 .. 3
  BY <1>3, <1>4
<1>7. Names(s) = {s[1][1], s[2][1], s[3][1]} \ {"_"}
  BY <1>6, Names3
<1>8. Names(s) = {"side", "position"}
  BY <1>5, <1>7
<1> QED BY <1>1, <1>4, <1>6, <1>8

LEMMA LevelTailLayout ==
    /\ << <<"position", "u32">>, <<"side", "side">>, <<"price", "f64">>, <<"quantity", "u64">>, <<"offer_count", "u32">>, <<"timestamp_ddmmhhmm", "u32">> >> \in Layouts
    /\ Names(<< <<"position", "u32">>, <<"side", "side">>, <<"price", "f64">>, <<"quantity", "u64">>, <<"offer_count", "u32">>, <<"timestamp_ddmmhhmm", "u32">> >>) = {"position", "side", "price", "quantity", "offer_count", "timestamp_ddmmhhmm"}
<1>1. PICK a, b, c, d, e, f : /\ a = <<"position", "u32">> /\ b = <<"side", "side">>
                              /\ c = <<"price", "f64">> /\ d = <<"quantity", "u64">>
                              /\ e = <<"offer_count", "u32">> /\ f = <<"timestamp_ddmmhhmm", "u32">>
  OBVIOUS
<1>2. /\ a \in Entries /\ b \in Entries /\ c \in Entries /\ d \in Entries /\ e \in Entries
      /\ f \in Entries
  BY <1>1 DEF Entries, Labels, WireTypes
<1>3. << a, b, c, d, e, f >> \in Layouts /\ DOMAIN << a, b, c, d, e, f >> = 1 .. 6
  BY <1>2 DEF Layouts
<1>4. PICK s : s = << a, b, c, d, e, f >>
  OBVIOUS
<1>5. /\ s[1][1] = "position" /\ s[2][1] = "side" /\ s[3][1] = "price"
      /\ s[4][1] = "quantity" /\ s[5][1] = "offer_count" /\ s[6][1] = "timestamp_ddmmhhmm"
  BY <1>1, <1>4
<1>6. s \in Layouts /\ DOMAIN s = 1 .. 6
  BY <1>3, <1>4
<1>7. Names(s) = {s[1][1], s[2][1], s[3][1], s[4][1], s[5][1], s[6][1]} \ {"_"}
  BY <1>6, Names6
<1>8. Names(s) = {"position", "side", "price", "quantity", "offer_count", "timestamp_ddmmhhmm"}
  BY <1>5, <1>7
<1> QED BY <1>1, <1>4, <1>6, <1>8

LEMMA QuoteHeadLayout ==
    /\ << <<"_", "bytes">>, <<"ticker", "bytes">>, <<"time_hhmmss", "u32">> >> \in Layouts
    /\ Names(<< <<"_", "bytes">>, <<"ticker", "bytes">>, <<"time_hhmmss", "u32">> >>) = {"ticker", "time_hhmmss"}
<1>1. PICK a, b, c : /\ a = <<"_", "bytes">> /\ b = <<"ticker", "bytes">>
                     /\ c = <<"time_hhmmss", "u32">>
  OBVIOUS
<1>2. a \in Entries /\ b \in Entries /\ c \in Entries
  BY <1>1 DEF Entries, Labels, WireTypes
<1>3. << a, b, c >> \in Layouts /\ DOMAIN << a, b, c >> = 1 .. 3
  BY <1>2 DEF Layouts
<1>4. PICK s : s = << a, b, c >>
  OBVIOUS
<1>5. s[1][1] = "_" /\ s[2][1] = "ticker" /\ s[3][1] = "time_hhmmss"
  BY <1>1, <1>4
<1>6. s \in Layouts /\ DOMAIN s = 1 .. 3
  BY <1>3, <1>4
<1>7. Names(s) = {s[1][1], s[2][1], s[3][1]} \ {"_"}
  BY <1>6, Names3
<1>8. Names(s) = {"ticker", "time_hhmmss"}
  BY <1>5, <1>7
<1> QED BY <1>1, <1>4, <1>6, <1>8

LEMMA TradeIdLayout ==
    /\ << <<"trade_id", "bytes">> >> \in Layouts
    /\ Names(<< <<"trade_id", "bytes">> >>) = {"trade_id"}
<1>1. PICK a : a = <<"trade_id", "bytes">>
  OBVIOUS
<1>2. a \in Entries
  BY <1>1 DEF Entries, Labels, WireTypes
<1>3. << a >> \in Layouts /\ DOMAIN << a >> = 1 .. 1
  BY <1>2 DEF Layouts
<1>4. PICK s : s = << a >>
  OBVIOUS
<1>5. s[1][1] = "trade_id"
  BY <1>1, <1>4
<1>6. s \in Layouts /\ DOMAIN s = 1 .. 1
  BY <1>3, <1>4
<1>7. Names(s) = {s[1][1]} \ {"_"}
  BY <1>6, Names1
<1>8. Names(s) = {"trade_id"}
  BY <1>5, <1>7
<1> QED BY <1>1, <1>4, <1>6, <1>8

LEMMA RequestIdLayout ==
    /\ << <<"request_id", "bytes">> >> \in Layouts
    /\ Names(<< <<"request_id", "bytes">> >>) = {"request_id"}
<1>1. PICK a : a = <<"request_id", "bytes">>
  OBVIOUS
<1>2. a \in Entries
  BY <1>1 DEF Entries, Labels, WireTypes
<1>3. << a >> \in Layouts /\ DOMAIN << a >> = 1 .. 1
  BY <1>2 DEF Layouts
<1>4. PICK s : s = << a >>
  OBVIOUS
<1>5. s[1][1] = "request_id"
  BY <1>1, <1>4
<1>6. s \in Layouts /\ DOMAIN s = 1 .. 1
  BY <1>3, <1>4
<1>7. Names(s) = {s[1][1]} \ {"_"}
  BY <1>6, Names1
<1>8. Names(s) = {"request_id"}
  BY <1>5, <1>7
<1> QED BY <1>1, <1>4, <1>6, <1>8

LEMMA TradeFieldsLayout ==
    /\ TradeLayout \in Layouts
    /\ Names(TradeLayout) = {"time_hhmmss", "price", "broker_buy_id", "broker_sell_id", "quantity", "trade_id", "condition", "aggressor", "original_conditions"}
<1>1. PICK a, b, c, d, e, f, g, h, i : /\ a = <<"time_hhmmss", "u32">> /\ b = <<"price", "f64">>
                                       /\ c = <<"broker_buy_id", "u32">> /\ d = <<"broker_sell_id", "u32">>
                                       /\ e = <<"quantity", "u64">> /\ f = <<"trade_id", "bytes">>
                                       /\ g = <<"condition", "condition">> /\ h = <<"aggressor", "aggressor">>
                                       /\ i = <<"original_conditions", "bytes">>
  OBVIOUS
<1>2. /\ a \in Entries /\ b \in Entries /\ c \in Entries /\ d \in Entries /\ e \in Entries
      /\ f \in Entries /\ g \in Entries /\ h \in Entries /\ i \in Entries
  BY <1>1 DEF Entries, Labels, WireTypes
<1>3. << a, b, c, d, e, f, g, h, i >> \in Layouts /\ DOMAIN << a, b, c, d, e, f, g, h, i >> = 1 .. 9
  BY <1>2 DEF Layouts
<1>4. PICK s : s = << a, b, c, d, e, f, g, h, i >>
  OBVIOUS
<1>5. /\ s[1][1] = "time_hhmmss" /\ s[2][1] = "price" /\ s[3][1] = "broker_buy_id"
      /\ s[4][1] = "broker_sell_id" /\ s[5][1] = "quantity" /\ s[6][1] = "trade_id"
      /\ s[7][1] = "condition" /\ s[8][1] = "aggressor" /\ s[9][1] = "original_conditions"
  BY <1>1, <1>4
<1>6. s \in Layouts /\ DOMAIN s = 1 .. 9
  BY <1>3, <1>4
<1>7. Names(s) = {s[1][1], s[2][1], s[3][1], s[4][1], s[5][1], s[6][1], s[7][1], s[8][1], s[9][1]} \ {"_"}
  BY <1>6, Names9
<1>8. Names(s) = {"time_hhmmss", "price", "broker_buy_id", "broker_sell_id", "quantity", "trade_id", "condition", "aggressor", "original_conditions"}
  BY <1>5, <1>7
<1> QED BY <1>1, <1>4, <1>6, <1>8 DEF TradeLayout

LEMMA NewsHeadWordsLayout ==
    /\ NewsHead \in Layouts
    /\ Names(NewsHead) = {}
<1>1. PICK a : a = <<"_", "bytes">>
  OBVIOUS
<1>2. a \in Entries
  BY <1>1 DEF Entries, Labels, WireTypes
<1>3. << a, a >> \in Layouts /\ DOMAIN << a, a >> = 1 .. 2
  BY <1>2 DEF Layouts
<1>4. PICK s : s = << a, a >>
  OBVIOUS
<1>5. s[1][1] = "_" /\ s[2][1] = "_"
  BY <1>1, <1>4
<1>6. s \in Layouts /\ DOMAIN s = 1 .. 2
  BY <1>3, <1>4
<1>7. Names(s) = {s[1][1], s[2][1]} \ {"_"}
  BY <1>6, Names2
<1>8. Names(s) = {}
  BY <1>5, <1>7
<1> QED BY <1>1, <1>4, <1>6, <1>8 DEF NewsHead

LEMMA HeadlineFieldsLayout ==
    /\ Headline \in Layouts
    /\ Names(Headline) = {"agency", "code", "date", "time", "category"}
<1>1. PICK a, b, c, d, e, f : /\ a = <<"agency", "bytes">> /\ b = <<"code", "bytes">>
                              /\ c = <<"date", "u32">> /\ d = <<"time", "u32">>
                              /\ e = <<"category", "u32">> /\ f = <<"_", "bytes">>
  OBVIOUS
<1>2. /\ a \in Entries /\ b \in Entries /\ c \in Entries /\ d \in Entries /\ e \in Entries
      /\ f \in Entries
  BY <1>1 DEF Entries, Labels, WireTypes
<1>3. << a, b, c, d, e, f >> \in Layouts /\ DOMAIN << a, b, c, d, e, f >> = 1 .. 6
  BY <1>2 DEF Layouts
<1>4. PICK s : s = << a, b, c, d, e, f >>
  OBVIOUS
<1>5. /\ s[1][1] = "agency" /\ s[2][1] = "code" /\ s[3][1] = "date"
      /\ s[4][1] = "time" /\ s[5][1] = "category" /\ s[6][1] = "_"
  BY <1>1, <1>4
<1>6. s \in Layouts /\ DOMAIN s = 1 .. 6
  BY <1>3, <1>4
<1>7. Names(s) = {s[1][1], s[2][1], s[3][1], s[4][1], s[5][1], s[6][1]} \ {"_"}
  BY <1>6, Names6
<1>8. Names(s) = {"agency", "code", "date", "time", "category"}
  BY <1>5, <1>7
<1> QED BY <1>1, <1>4, <1>6, <1>8 DEF Headline

LEMMA BodyFieldsLayout ==
    /\ << <<"agency", "bytes">>, <<"code", "bytes">> >> \in Layouts
    /\ Names(<< <<"agency", "bytes">>, <<"code", "bytes">> >>) = {"agency", "code"}
<1>1. PICK a, b : a = <<"agency", "bytes">> /\ b = <<"code", "bytes">>
  OBVIOUS
<1>2. a \in Entries /\ b \in Entries
  BY <1>1 DEF Entries, Labels, WireTypes
<1>3. << a, b >> \in Layouts /\ DOMAIN << a, b >> = 1 .. 2
  BY <1>2 DEF Layouts
<1>4. PICK s : s = << a, b >>
  OBVIOUS
<1>5. s[1][1] = "agency" /\ s[2][1] = "code"
  BY <1>1, <1>4
<1>6. s \in Layouts /\ DOMAIN s = 1 .. 2
  BY <1>3, <1>4
<1>7. Names(s) = {s[1][1], s[2][1]} \ {"_"}
  BY <1>6, Names2
<1>8. Names(s) = {"agency", "code"}
  BY <1>5, <1>7
<1> QED BY <1>1, <1>4, <1>6, <1>8

LEMMA VapHeadFieldsLayout ==
    /\ VapHead \in Layouts
    /\ Names(VapHead) = {"ticker"}
<1>1. PICK a, b : a = <<"_", "bytes">> /\ b = <<"ticker", "bytes">>
  OBVIOUS
<1>2. a \in Entries /\ b \in Entries
  BY <1>1 DEF Entries, Labels, WireTypes
<1>3. << a, b >> \in Layouts /\ DOMAIN << a, b >> = 1 .. 2
  BY <1>2 DEF Layouts
<1>4. PICK s : s = << a, b >>
  OBVIOUS
<1>5. s[1][1] = "_" /\ s[2][1] = "ticker"
  BY <1>1, <1>4
<1>6. s \in Layouts /\ DOMAIN s = 1 .. 2
  BY <1>3, <1>4
<1>7. Names(s) = {s[1][1], s[2][1]} \ {"_"}
  BY <1>6, Names2
<1>8. Names(s) = {"ticker"}
  BY <1>5, <1>7
<1> QED BY <1>1, <1>4, <1>6, <1>8 DEF VapHead

LEMMA VolumeFieldsLayout ==
    /\ VapVolumes \in Layouts
    /\ Names(VapVolumes) = {"price", "buyer_trades", "buyer_volume", "seller_trades", "seller_volume", "direct_trades", "direct_volume", "undefined_trades", "undefined_volume"}
<1>1. PICK a, b, c, d, e, f, g, h, i : /\ a = <<"price", "f64">> /\ b = <<"buyer_trades", "f64">>
                                       /\ c = <<"buyer_volume", "f64">> /\ d = <<"seller_trades", "f64">>
                                       /\ e = <<"seller_volume", "f64">> /\ f = <<"direct_trades", "f64">>
                                       /\ g = <<"direct_volume", "f64">> /\ h = <<"undefined_trades", "f64">>
                                       /\ i = <<"undefined_volume", "f64">>
  OBVIOUS
<1>2. /\ a \in Entries /\ b \in Entries /\ c \in Entries /\ d \in Entries /\ e \in Entries
      /\ f \in Entries /\ g \in Entries /\ h \in Entries /\ i \in Entries
  BY <1>1 DEF Entries, Labels, WireTypes
<1>3. << a, b, c, d, e, f, g, h, i >> \in Layouts /\ DOMAIN << a, b, c, d, e, f, g, h, i >> = 1 .. 9
  BY <1>2 DEF Layouts
<1>4. PICK s : s = << a, b, c, d, e, f, g, h, i >>
  OBVIOUS
<1>5. /\ s[1][1] = "price" /\ s[2][1] = "buyer_trades" /\ s[3][1] = "buyer_volume"
      /\ s[4][1] = "seller_trades" /\ s[5][1] = "seller_volume" /\ s[6][1] = "direct_trades"
      /\ s[7][1] = "direct_volume" /\ s[8][1] = "undefined_trades" /\ s[9][1] = "undefined_volume"
  BY <1>1, <1>4
<1>6. s \in Layouts /\ DOMAIN s = 1 .. 9
  BY <1>3, <1>4
<1>7. Names(s) = {s[1][1], s[2][1], s[3][1], s[4][1], s[5][1], s[6][1], s[7][1], s[8][1], s[9][1]} \ {"_"}
  BY <1>6, Names9
<1>8. Names(s) = {"price", "buyer_trades", "buyer_volume", "seller_trades", "seller_volume", "direct_trades", "direct_volume", "undefined_trades", "undefined_volume"}
  BY <1>5, <1>7
<1> QED BY <1>1, <1>4, <1>6, <1>8 DEF VapVolumes

LEMMA PeriodFieldLayout ==
    /\ << <<"period_minutes", "period">> >> \in Layouts
    /\ Names(<< <<"period_minutes", "period">> >>) = {"period_minutes"}
<1>1. PICK a : a = <<"period_minutes", "period">>
  OBVIOUS
<1>2. a \in Entries
  BY <1>1 DEF Entries, Labels, WireTypes
<1>3. << a >> \in Layouts /\ DOMAIN << a >> = 1 .. 1
  BY <1>2 DEF Layouts
<1>4. PICK s : s = << a >>
  OBVIOUS
<1>5. s[1][1] = "period_minutes"
  BY <1>1, <1>4
<1>6. s \in Layouts /\ DOMAIN s = 1 .. 1
  BY <1>3, <1>4
<1>7. Names(s) = {s[1][1]} \ {"_"}
  BY <1>6, Names1
<1>8. Names(s) = {"period_minutes"}
  BY <1>5, <1>7
<1> QED BY <1>1, <1>4, <1>6, <1>8

LEMMA VapTailFieldsLayout ==
    /\ VapTail \in Layouts
    /\ Names(VapTail) = {"rlp_trades", "rlp_volume", "auction_trades", "auction_volume"}
<1>1. PICK a, b, c, d : /\ a = <<"rlp_trades", "f64">> /\ b = <<"rlp_volume", "f64">>
                        /\ c = <<"auction_trades", "f64">> /\ d = <<"auction_volume", "f64">>
  OBVIOUS
<1>2. a \in Entries /\ b \in Entries /\ c \in Entries /\ d \in Entries
  BY <1>1 DEF Entries, Labels, WireTypes
<1>3. << a, b, c, d >> \in Layouts /\ DOMAIN << a, b, c, d >> = 1 .. 4
  BY <1>2 DEF Layouts
<1>4. PICK s : s = << a, b, c, d >>
  OBVIOUS
<1>5. /\ s[1][1] = "rlp_trades" /\ s[2][1] = "rlp_volume" /\ s[3][1] = "auction_trades"
      /\ s[4][1] = "auction_volume"
  BY <1>1, <1>4
<1>6. s \in Layouts /\ DOMAIN s = 1 .. 4
  BY <1>3, <1>4
<1>7. Names(s) = {s[1][1], s[2][1], s[3][1], s[4][1]} \ {"_"}
  BY <1>6, Names4
<1>8. Names(s) = {"rlp_trades", "rlp_volume", "auction_trades", "auction_volume"}
  BY <1>5, <1>7
<1> QED BY <1>1, <1>4, <1>6, <1>8 DEF VapTail

LEMMA MarketFieldsLayout ==
    /\ << <<"_", "bytes">>, <<"market", "bytes">> >> \in Layouts
    /\ Names(<< <<"_", "bytes">>, <<"market", "bytes">> >>) = {"market"}
<1>1. PICK a, b : a = <<"_", "bytes">> /\ b = <<"market", "bytes">>
  OBVIOUS
<1>2. a \in Entries /\ b \in Entries
  BY <1>1 DEF Entries, Labels, WireTypes
<1>3. << a, b >> \in Layouts /\ DOMAIN << a, b >> = 1 .. 2
  BY <1>2 DEF Layouts
<1>4. PICK s : s = << a, b >>
  OBVIOUS
<1>5. s[1][1] = "_" /\ s[2][1] = "market"
  BY <1>1, <1>4
<1>6. s \in Layouts /\ DOMAIN s = 1 .. 2
  BY <1>3, <1>4
<1>7. Names(s) = {s[1][1], s[2][1]} \ {"_"}
  BY <1>6, Names2
<1>8. Names(s) = {"market"}
  BY <1>5, <1>7
<1> QED BY <1>1, <1>4, <1>6, <1>8

LEMMA TickerFieldLayout ==
    /\ << <<"ticker", "bytes">> >> \in Layouts
    /\ Names(<< <<"ticker", "bytes">> >>) = {"ticker"}
<1>1. PICK a : a = <<"ticker", "bytes">>
  OBVIOUS
<1>2. a \in Entries
  BY <1>1 DEF Entries, Labels, WireTypes
<1>3. << a >> \in Layouts /\ DOMAIN << a >> = 1 .. 1
  BY <1>2 DEF Layouts
<1>4. PICK s : s = << a >>
  OBVIOUS
<1>5. s[1][1] = "ticker"
  BY <1>1, <1>4
<1>6. s \in Layouts /\ DOMAIN s = 1 .. 1
  BY <1>3, <1>4
<1>7. Names(s) = {s[1][1]} \ {"_"}
  BY <1>6, Names1
<1>8. Names(s) = {"ticker"}
  BY <1>5, <1>7
<1> QED BY <1>1, <1>4, <1>6, <1>8

LEMMA BrokerFieldsLayout ==
    /\ << <<"_", "bytes">>, <<"exchange", "bytes">>, <<"code", "bytes">>, <<"name", "bytes">>, <<"cedro_id", "bytes">>, <<"active", "flag">> >> \in Layouts
    /\ Names(<< <<"_", "bytes">>, <<"exchange", "bytes">>, <<"code", "bytes">>, <<"name", "bytes">>, <<"cedro_id", "bytes">>, <<"active", "flag">> >>) = {"exchange", "code", "name", "cedro_id", "active"}
<1>1. PICK a, b, c, d, e, f : /\ a = <<"_", "bytes">> /\ b = <<"exchange", "bytes">>
                              /\ c = <<"code", "bytes">> /\ d = <<"name", "bytes">>
                              /\ e = <<"cedro_id", "bytes">> /\ f = <<"active", "flag">>
  OBVIOUS
<1>2. /\ a \in Entries /\ b \in Entries /\ c \in Entries /\ d \in Entries /\ e \in Entries
      /\ f \in Entries
  BY <1>1 DEF Entries, Labels, WireTypes
<1>3. << a, b, c, d, e, f >> \in Layouts /\ DOMAIN << a, b, c, d, e, f >> = 1 .. 6
  BY <1>2 DEF Layouts
<1>4. PICK s : s = << a, b, c, d, e, f >>
  OBVIOUS
<1>5. /\ s[1][1] = "_" /\ s[2][1] = "exchange" /\ s[3][1] = "code"
      /\ s[4][1] = "name" /\ s[5][1] = "cedro_id" /\ s[6][1] = "active"
  BY <1>1, <1>4
<1>6. s \in Layouts /\ DOMAIN s = 1 .. 6
  BY <1>3, <1>4
<1>7. Names(s) = {s[1][1], s[2][1], s[3][1], s[4][1], s[5][1], s[6][1]} \ {"_"}
  BY <1>6, Names6
<1>8. Names(s) = {"exchange", "code", "name", "cedro_id", "active"}
  BY <1>5, <1>7
<1> QED BY <1>1, <1>4, <1>6, <1>8

LEMMA TimeFieldsLayout ==
    /\ << <<"date", "u32">>, <<"time", "u32">> >> \in Layouts
    /\ Names(<< <<"date", "u32">>, <<"time", "u32">> >>) = {"date", "time"}
<1>1. PICK a, b : a = <<"date", "u32">> /\ b = <<"time", "u32">>
  OBVIOUS
<1>2. a \in Entries /\ b \in Entries
  BY <1>1 DEF Entries, Labels, WireTypes
<1>3. << a, b >> \in Layouts /\ DOMAIN << a, b >> = 1 .. 2
  BY <1>2 DEF Layouts
<1>4. PICK s : s = << a, b >>
  OBVIOUS
<1>5. s[1][1] = "date" /\ s[2][1] = "time"
  BY <1>1, <1>4
<1>6. s \in Layouts /\ DOMAIN s = 1 .. 2
  BY <1>3, <1>4
<1>7. Names(s) = {s[1][1], s[2][1]} \ {"_"}
  BY <1>6, Names2
<1>8. Names(s) = {"date", "time"}
  BY <1>5, <1>7
<1> QED BY <1>1, <1>4, <1>6, <1>8

LEMMA ErrorFieldsLayout ==
    /\ << <<"_", "bytes">>, <<"code", "u16">> >> \in Layouts
    /\ Names(<< <<"_", "bytes">>, <<"code", "u16">> >>) = {"code"}
<1>1. PICK a, b : a = <<"_", "bytes">> /\ b = <<"code", "u16">>
  OBVIOUS
<1>2. a \in Entries /\ b \in Entries
  BY <1>1 DEF Entries, Labels, WireTypes
<1>3. << a, b >> \in Layouts /\ DOMAIN << a, b >> = 1 .. 2
  BY <1>2 DEF Layouts
<1>4. PICK s : s = << a, b >>
  OBVIOUS
<1>5. s[1][1] = "_" /\ s[2][1] = "code"
  BY <1>1, <1>4
<1>6. s \in Layouts /\ DOMAIN s = 1 .. 2
  BY <1>3, <1>4
<1>7. Names(s) = {s[1][1], s[2][1]} \ {"_"}
  BY <1>6, Names2
<1>8. Names(s) = {"code"}
  BY <1>5, <1>7
<1> QED BY <1>1, <1>4, <1>6, <1>8

LEMMA Understood ==
    ASSUME NEW kind \in DOMAIN ProtocolMessage, NEW toks, NEW layout \in Layouts, NEW more,
           {"kind"} \cup DOMAIN more \cup Names(layout) = ProtocolMessage[kind] \cup {"kind"}
    PROVE  WellFormed(message(kind, read(toks, layout), more))
<1>1. Fields(read(toks, layout), Names(layout))
  BY ReadFields
<1>2. PICK m : m = message(kind, read(toks, layout), more)
  OBVIOUS
<1>3. /\ Fields(m, {"kind"} \cup DOMAIN more \cup Names(layout))
      /\ m.err = "none" => m.val.kind = kind
  BY <1>1, <1>2, MessageFields
<1>4. WellFormed(m)
  BY <1>3 DEF Fields, WellFormed
<1> QED BY <1>2, <1>4

LEMMA Refused ==
    ASSUME NEW kind \in ErrorKinds
    PROVE  WellFormed(Err(kind))
<1>1. Err(kind).err = kind
  BY DEF Err
<1>2. kind # "none"
  BY DEF ErrorKinds
<1> QED BY <1>1, <1>2 DEF WellFormed

LEMMA Kinds ==
    /\ {"Empty", "UnknownHeader", "MissingField", "InvalidField"} \subseteq ErrorKinds
    /\ DOMAIN NoMore = {} /\ \A n : DOMAIN None(n) = {n}
BY DEF ErrorKinds, NoMore, None, :>

LEMMA BookKinds ==
    /\ {"BookAdd", "BookUpdate", "BookSingle", "BookPrefix", "BookClearAll", "BookEndOfInitial",
        "AggBookAdd", "AggBookUpdate", "AggBookSingle", "AggBookClearAll", "AggBookEndOfInitial"}
           \subseteq DOMAIN ProtocolMessage
    /\ ProtocolMessage["BookAdd"] = {"ticker"} \cup BookEntry
    /\ ProtocolMessage["BookUpdate"] = {"ticker", "old_pos"} \cup BookEntry
    /\ ProtocolMessage["BookSingle"] = {"ticker"} \cup BookDelete
    /\ ProtocolMessage["BookPrefix"] = {"ticker"} \cup BookDelete
    /\ ProtocolMessage["BookClearAll"] = {"ticker"}
    /\ ProtocolMessage["BookEndOfInitial"] = {"ticker"}
    /\ ProtocolMessage["AggBookAdd"] = {"ticker"} \cup AggBookLevel
    /\ ProtocolMessage["AggBookUpdate"] = {"ticker"} \cup AggBookLevel
    /\ ProtocolMessage["AggBookSingle"] = {"ticker"} \cup BookDelete
    /\ ProtocolMessage["AggBookClearAll"] = {"ticker"}
    /\ ProtocolMessage["AggBookEndOfInitial"] = {"ticker"}
BY DEF ProtocolMessage

LEMMA MoreKinds ==
    /\ {"Quote", "TradeAdd", "TradeDelete", "TradeRemoveAll", "TradeEndOfSubscribe",
        "TradeEndOfSnapshot", "NewsHeadline", "NewsHistoryItem", "NewsHistoryEnd", "NewsBody",
        "Vap", "ServerTime", "MqcSymbol", "MqcEnd", "GpnItem", "Error"}
           \subseteq DOMAIN ProtocolMessage
    /\ ProtocolMessage["Quote"] = {"ticker", "time_hhmmss", "diff"}
    /\ ProtocolMessage["TradeAdd"] = {"ticker"} \cup Trade
    /\ ProtocolMessage["TradeDelete"] = {"ticker", "trade_id"}
    /\ ProtocolMessage["TradeRemoveAll"] = {"ticker"}
    /\ ProtocolMessage["TradeEndOfSubscribe"] = {"ticker"}
    /\ ProtocolMessage["TradeEndOfSnapshot"] = {"ticker", "request_id"}
    /\ ProtocolMessage["NewsHeadline"] = NewsHeadline
    /\ ProtocolMessage["NewsHistoryItem"] = {"request_id"} \cup NewsHeadline
    /\ ProtocolMessage["NewsHistoryEnd"] = {"request_id"}
    /\ ProtocolMessage["NewsBody"] = {"request_id", "agency", "code", "body_raw"}
    /\ ProtocolMessage["Vap"] = VapEntry
    /\ ProtocolMessage["ServerTime"] = {"date", "time"}
    /\ ProtocolMessage["MqcSymbol"] = {"market", "ticker"}
    /\ ProtocolMessage["MqcEnd"] = {"market"}
    /\ ProtocolMessage["GpnItem"] = GpnItem
    /\ ProtocolMessage["Error"] = CedroError
BY DEF ProtocolMessage

LEMMA EntryRead ==
    ASSUME NEW kind \in DOMAIN ProtocolMessage, NEW toks, NEW layout \in Layouts,
           Names(layout) \cup BookEntry = ProtocolMessage[kind],
           "position" \in Names(layout)
    PROVE  WellFormed(read_entry(kind, toks, layout))
<1> DEFINE short == layout \o EntryTail
           long == layout \o EntryTail \o OfferTail
           none == None("order_id") @@ None("offer_type")
<1>1. short \in Layouts /\ Names(short) = Names(layout) \cup Names(EntryTail)
  BY EntryTailLayout, LayoutCat
<1>2. long \in Layouts /\ Names(long) = Names(short) \cup Names(OfferTail)
  BY <1>1, OfferTailLayout, LayoutCat
<1>3. DOMAIN none = {"order_id", "offer_type"}
  BY DEF None, @@, :>
<1> HIDE DEF short, long, none
<1>4. {"kind"} \cup DOMAIN none \cup Names(short) = ProtocolMessage[kind] \cup {"kind"}
  BY <1>1, <1>3, EntryTailLayout DEF BookEntry
<1>5. {"kind"} \cup DOMAIN NoMore \cup Names(long) = ProtocolMessage[kind] \cup {"kind"}
  BY <1>1, <1>2, EntryTailLayout, OfferTailLayout, Kinds DEF BookEntry
<1>6. WellFormed(message(kind, read(toks, short), none)) /\ WellFormed(message(kind, read(toks, long), NoMore))
  BY <1>1, <1>2, <1>4, <1>5, Understood
<1> QED BY <1>6 DEF read_entry, short, long, none

LEMMA AddParsed == ASSUME NEW toks PROVE WellFormed(parse_add(toks)) /\ WellFormed(parse_update(toks))
<1>1. PICK p, q : p = << <<"position", "u32">> >> /\ q = << <<"position", "u32">>, <<"old_pos", "u32">> >>
  OBVIOUS
<1>2. /\ p \in Layouts /\ Names(p) = {"position"}
      /\ q \in Layouts /\ Names(q) = {"position", "old_pos"}
  BY <1>1, PositionLayout, PositionsLayout
<1>3. /\ TickerOp \o p \in Layouts /\ Names(TickerOp \o p) = {"ticker", "position"}
      /\ TickerOp \o q \in Layouts /\ Names(TickerOp \o q) = {"ticker", "position", "old_pos"}
  BY <1>2, TickerOpLayout, LayoutCat
<1>4. /\ Names(TickerOp \o p) \cup BookEntry = ProtocolMessage["BookAdd"]
      /\ Names(TickerOp \o q) \cup BookEntry = ProtocolMessage["BookUpdate"]
  BY <1>3, BookKinds DEF BookEntry
<1>5. /\ WellFormed(read_entry("BookAdd", toks, TickerOp \o p))
      /\ WellFormed(read_entry("BookUpdate", toks, TickerOp \o q))
  BY <1>3, <1>4, BookKinds, EntryRead
<1> QED BY <1>1, <1>5 DEF parse_add, parse_update

\* The first four entries of a layout of six.
LEMMA FirstFour ==
    ASSUME NEW a \in Layouts, NEW b \in Layouts, Len(a) = 3, Len(b) = 3
    PROVE  /\ SubSeq(a \o b, 1, 4) \in Layouts
           /\ Names(SubSeq(a \o b, 1, 4)) = {a[1][1], a[2][1], a[3][1], b[1][1]} \ {"_"}
<1>1. PICK c : c = a \o b
  OBVIOUS
<1>2. /\ c \in Seq(Entries) /\ Len(c) = 6
      /\ \A i \in 1 .. 6 : c[i] = IF i <= 3 THEN a[i] ELSE b[i - 3]
  <2>1. a \in Seq(Entries) /\ b \in Seq(Entries)
    BY DEF Layouts
  <2>2. /\ c \in Seq(Entries) /\ Len(c) = Len(a) + Len(b)
        /\ \A i \in 1 .. Len(a) + Len(b) : c[i] = IF i <= Len(a) THEN a[i] ELSE b[i - Len(a)]
    BY <1>1, <2>1, ConcatProperties
  <2>3. PICK m, n : m = Len(a) /\ n = m + Len(b)
    OBVIOUS
  <2>4. m = 3 /\ n = 6
    BY <2>3
  <2>5. /\ c \in Seq(Entries) /\ Len(c) = n
        /\ \A i \in 1 .. n : c[i] = IF i <= m THEN a[i] ELSE b[i - m]
    BY <2>2, <2>3
  <2> QED BY <2>4, <2>5
<1>3. c[1] = a[1] /\ c[2] = a[2] /\ c[3] = a[3] /\ c[4] = b[1]
  <2>1. 1 \in 1 .. 6 /\ 2 \in 1 .. 6 /\ 3 \in 1 .. 6 /\ 4 \in 1 .. 6 /\ 4 - 3 = 1
    OBVIOUS
  <2>2. ~(4 <= 3) /\ 1 <= 3 /\ 2 <= 3 /\ 3 <= 3
    OBVIOUS
  <2>3. c[4] = b[4 - 3]
    BY <1>2, <2>1, <2>2
  <2> QED BY <1>2, <2>1, <2>2, <2>3
<1>4. PICK s : s = SubSeq(c, 1, 4)
  OBVIOUS
<1>5. \A i \in 1 .. 4 : c[i] \in Entries
  BY <1>2
<1>6. s \in Seq(Entries) /\ Len(s) = 4 /\ \A i \in 1 .. 4 : s[i] = c[i]
  BY <1>2, <1>4, <1>5, SubSeqProperties
<1>7. s \in Layouts /\ DOMAIN s = 1 .. 4
  BY <1>6 DEF Layouts
<1>8. s[1] = a[1] /\ s[2] = a[2] /\ s[3] = a[3] /\ s[4] = b[1]
  BY <1>3, <1>6
<1>9. Names(s) = {s[1][1], s[2][1], s[3][1], s[4][1]} \ {"_"}
  BY <1>7, Names4
<1> QED BY <1>1, <1>4, <1>7, <1>8, <1>9

\* The layouts of a delete.
LEMMA DeleteLayouts ==
    ASSUME NEW p, p = << <<"_", "bytes">>, <<"side", "side">>, <<"position", "u32">> >>
    PROVE  /\ TickerOp \o p \in Layouts /\ Names(TickerOp \o p) = {"ticker", "side", "position"}
           /\ SubSeq(TickerOp \o p, 1, 4) \in Layouts
           /\ Names(SubSeq(TickerOp \o p, 1, 4)) = {"ticker"}
<1>1. p \in Layouts /\ Names(p) = {"side", "position"}
  BY DeleteTailLayout
<1>2. Len(p) = 3 /\ p[1][1] = "_"
  OBVIOUS
<1>3. Len(TickerOp) = 3 /\ TickerOp[1][1] = "_" /\ TickerOp[2][1] = "ticker" /\ TickerOp[3][1] = "_"
  BY DEF TickerOp
<1>4. PICK q : q = p
  OBVIOUS
<1>5. q \in Layouts /\ Names(q) = {"side", "position"} /\ Len(q) = 3 /\ q[1][1] = "_"
  BY <1>1, <1>2, <1>4
<1>6. TickerOp \o q \in Layouts /\ Names(TickerOp \o q) = {"ticker", "side", "position"}
  <2>1. TickerOp \o q \in Layouts /\ Names(TickerOp \o q) = Names(TickerOp) \cup Names(q)
    BY <1>5, TickerOpLayout, LayoutCat
  <2> QED BY <1>5, <2>1, TickerOpLayout
<1>7. /\ SubSeq(TickerOp \o q, 1, 4) \in Layouts
      /\ Names(SubSeq(TickerOp \o q, 1, 4)) = {TickerOp[1][1], TickerOp[2][1], TickerOp[3][1], q[1][1]} \ {"_"}
  BY <1>3, <1>5, TickerOpLayout, FirstFour
<1>8. Names(SubSeq(TickerOp \o q, 1, 4)) = {"ticker"}
  BY <1>3, <1>5, <1>7
<1> QED BY <1>4, <1>6, <1>7, <1>8

LEMMA DeleteParsed ==
    ASSUME NEW toks, NEW kinds, DOMAIN kinds \subseteq {"1", "2", "3"},
           \A k \in DOMAIN kinds :
              /\ kinds[k] \in DOMAIN ProtocolMessage
              /\ ProtocolMessage[kinds[k]] = IF k = "3" THEN {"ticker"} ELSE {"ticker"} \cup BookDelete
    PROVE  WellFormed(parse_delete(toks, kinds))
<1>1. PICK one : one = TickerOp \o << <<"_", "bytes">>, <<"side", "side">>, <<"position", "u32">> >>
  OBVIOUS
<1>2. parse_delete(toks, kinds) =
          IF Len(toks) < 4 THEN Err("MissingField")
          ELSE IF toks[4] \notin DOMAIN kinds THEN Err("InvalidField")
          ELSE message(kinds[toks[4]], read(toks, IF toks[4] = "3" THEN SubSeq(one, 1, 4) ELSE one), NoMore)
  BY <1>1 DEF parse_delete
<1>3. WellFormed(Err("MissingField")) /\ WellFormed(Err("InvalidField"))
  BY Refused, Kinds
<1>4. ASSUME toks[4] \in DOMAIN kinds
      PROVE  WellFormed(message(kinds[toks[4]], read(toks, IF toks[4] = "3" THEN SubSeq(one, 1, 4) ELSE one), NoMore))
  <2>1. PICK l, k : l = (IF toks[4] = "3" THEN SubSeq(one, 1, 4) ELSE one) /\ k = kinds[toks[4]]
    OBVIOUS
  <2>p. PICK p : p = << <<"_", "bytes">>, <<"side", "side">>, <<"position", "u32">> >>
    OBVIOUS
  <2>2. l \in Layouts /\ Names(l) = IF toks[4] = "3" THEN {"ticker"} ELSE {"ticker"} \cup BookDelete
    <3>1. one = TickerOp \o p
      BY <1>1, <2>p
    <3> QED BY <2>1, <2>p, <3>1, DeleteLayouts DEF BookDelete
  <2>3. k \in DOMAIN ProtocolMessage /\ Names(l) = ProtocolMessage[k]
    BY <1>4, <2>1, <2>2
  <2>4. {"kind"} \cup DOMAIN NoMore \cup Names(l) = ProtocolMessage[k] \cup {"kind"}
    BY <2>3, Kinds
  <2>5. WellFormed(message(k, read(toks, l), NoMore))
    BY <2>2, <2>3, <2>4, Understood
  <2> QED BY <2>1, <2>5
<1> QED BY <1>2, <1>3, <1>4
\* A message whose fields are those of its layout.
LEMMA Plain ==
    ASSUME NEW kind \in DOMAIN ProtocolMessage, NEW toks, NEW layout \in Layouts,
           Names(layout) = ProtocolMessage[kind]
    PROVE  WellFormed(message(kind, read(toks, layout), NoMore))
<1>1. {"kind"} \cup DOMAIN NoMore \cup Names(layout) = ProtocolMessage[kind] \cup {"kind"}
  BY Kinds
<1> QED BY <1>1, Understood

\* The refusals of the dispatches.
LEMMA Refusals == /\ WellFormed(Err("Empty")) /\ WellFormed(Err("UnknownHeader"))
                  /\ WellFormed(Err("MissingField")) /\ WellFormed(Err("InvalidField"))
BY Refused, Kinds

LEMMA BookParsed == ASSUME NEW toks PROVE WellFormed(bqt(toks))
<1>1. PICK kinds : kinds = "1" :> "BookSingle" @@ "2" :> "BookPrefix" @@ "3" :> "BookClearAll"
  OBVIOUS
<1>2. /\ DOMAIN kinds = {"1", "2", "3"}
      /\ kinds["1"] = "BookSingle" /\ kinds["2"] = "BookPrefix" /\ kinds["3"] = "BookClearAll"
  BY <1>1 DEF :>, @@
<1>3. WellFormed(parse_delete(toks, kinds))
  BY <1>2, BookKinds, DeleteParsed
<1>4. WellFormed(message("BookEndOfInitial", read(toks, TickerOp), NoMore))
  BY BookKinds, TickerOpLayout, Plain
<1> QED BY <1>1, <1>3, <1>4, AddParsed, Refusals DEF bqt

LEMMA LevelRead ==
    ASSUME NEW kind \in {"AggBookAdd", "AggBookUpdate"}, NEW toks
    PROVE  WellFormed(read_level(kind, toks))
<1>1. PICK p : p = << <<"position", "u32">>, <<"side", "side">>, <<"price", "f64">>, <<"quantity", "u64">>,
                      <<"offer_count", "u32">>, <<"timestamp_ddmmhhmm", "u32">> >>
  OBVIOUS
<1>2. p \in Layouts /\ Names(p) = AggBookLevel
  BY <1>1, LevelTailLayout DEF AggBookLevel
<1>3. TickerOp \o p \in Layouts /\ Names(TickerOp \o p) = {"ticker"} \cup AggBookLevel
  BY <1>2, TickerOpLayout, LayoutCat
<1>4. kind \in DOMAIN ProtocolMessage /\ ProtocolMessage[kind] = {"ticker"} \cup AggBookLevel
  BY BookKinds
<1>5. WellFormed(message(kind, read(toks, TickerOp \o p), NoMore))
  BY <1>3, <1>4, Plain
<1> QED BY <1>1, <1>5 DEF read_level

LEMMA AggBookParsed == ASSUME NEW toks PROVE WellFormed(sab(toks))
<1>1. PICK kinds : kinds = "1" :> "AggBookSingle" @@ "3" :> "AggBookClearAll"
  OBVIOUS
<1>2. /\ DOMAIN kinds = {"1", "3"}
      /\ kinds["1"] = "AggBookSingle" /\ kinds["3"] = "AggBookClearAll"
  BY <1>1 DEF :>, @@
<1>3. WellFormed(parse_delete(toks, kinds))
  BY <1>2, BookKinds, DeleteParsed
<1>4. WellFormed(message("AggBookEndOfInitial", read(toks, TickerOp), NoMore))
  BY BookKinds, TickerOpLayout, Plain
<1>5. WellFormed(read_level("AggBookAdd", toks)) /\ WellFormed(read_level("AggBookUpdate", toks))
  BY LevelRead
<1> QED BY <1>1, <1>3, <1>4, <1>5, Refusals DEF sab

LEMMA TradeAddParsed == ASSUME NEW toks PROVE WellFormed(parse_trade_add(toks))
<1> DEFINE f == trade_fields(toks)
           more(request) == [operation_code |-> toks[3], ticker |-> toks[2], request_id |-> request]
           trade(fields, request) == message("TradeAdd", read(fields, TradeLayout), more(request))
<1>1. ASSUME NEW fields, NEW request PROVE WellFormed(trade(fields, request))
  <2>1. DOMAIN more(request) = {"operation_code", "ticker", "request_id"}
    OBVIOUS
  <2>2. PICK m : m = more(request)
    OBVIOUS
  <2>3. {"kind"} \cup DOMAIN m \cup Names(TradeLayout) = ProtocolMessage["TradeAdd"] \cup {"kind"}
    BY <2>1, <2>2, TradeFieldsLayout, MoreKinds DEF Trade
  <2>4. WellFormed(message("TradeAdd", read(fields, TradeLayout), m))
    BY <2>3, TradeFieldsLayout, MoreKinds, Understood
  <2> QED BY <2>2, <2>4
<1>2. parse_trade_add(toks) = CASE Len(f) = 9  -> trade(f, <<>>)
                                [] Len(f) = 10 -> trade(SubSeq(f, 1, 6) \o SubSeq(f, 8, 10), Some(f[7]))
                                [] OTHER       -> Err("InvalidField")
  BY DEF parse_trade_add
<1> HIDE DEF f, trade
<1>3. WellFormed(trade(f, <<>>)) /\ WellFormed(trade(SubSeq(f, 1, 6) \o SubSeq(f, 8, 10), Some(f[7])))
  BY <1>1
<1> QED BY <1>2, <1>3, Refusals

LEMMA TradeParsed == ASSUME NEW toks PROVE WellFormed(gqt(toks))
<1>1. PICK p, q : p = << <<"trade_id", "bytes">> >> /\ q = << <<"request_id", "bytes">> >>
  OBVIOUS
<1>2. p \in Layouts /\ Names(p) = {"trade_id"} /\ q \in Layouts /\ Names(q) = {"request_id"}
  BY <1>1, TradeIdLayout, RequestIdLayout
<1>3. /\ TickerOp \o p \in Layouts /\ Names(TickerOp \o p) = {"ticker", "trade_id"}
      /\ TickerOp \o q \in Layouts /\ Names(TickerOp \o q) = {"ticker", "request_id"}
  BY <1>2, TickerOpLayout, LayoutCat
<1>4. /\ WellFormed(message("TradeDelete", read(toks, TickerOp \o p), NoMore))
      /\ WellFormed(message("TradeEndOfSnapshot", read(toks, TickerOp \o q), NoMore))
  BY <1>3, MoreKinds, Plain
<1>5. /\ WellFormed(message("TradeRemoveAll", read(toks, TickerOp), NoMore))
      /\ WellFormed(message("TradeEndOfSubscribe", read(toks, TickerOp), NoMore))
  BY TickerOpLayout, MoreKinds, Plain
<1> QED BY <1>1, <1>4, <1>5, TradeAddParsed, Refusals DEF gqt
\* A message that ends in a text.
LEMMA TextRead ==
    ASSUME NEW kind \in DOMAIN ProtocolMessage, NEW toks, NEW layout \in Layouts, NEW text,
           Names(layout) \cup {text} = ProtocolMessage[kind]
    PROVE  WellFormed(read_text(kind, toks, layout, text))
<1>1. PICK more : more = text :> take_rest(toks, Len(layout))
  OBVIOUS
<1>2. DOMAIN more = {text}
  BY <1>1 DEF :>
<1>3. {"kind"} \cup DOMAIN more \cup Names(layout) = ProtocolMessage[kind] \cup {"kind"}
  BY <1>2
<1>4. WellFormed(message(kind, read(toks, layout), more))
  BY <1>3, Understood
<1> QED BY <1>1, <1>4 DEF read_text

LEMMA NewsParsed == ASSUME NEW toks PROVE WellFormed(nem(toks))
<1>1. PICK p, q : p = << <<"request_id", "bytes">> >> /\ q = << <<"agency", "bytes">>, <<"code", "bytes">> >>
  OBVIOUS
<1>2. p \in Layouts /\ Names(p) = {"request_id"} /\ q \in Layouts /\ Names(q) = {"agency", "code"}
  BY <1>1, RequestIdLayout, BodyFieldsLayout
<1>3. NewsRequest \in Layouts /\ Names(NewsRequest) = {"request_id"}
  BY <1>1, <1>2, NewsHeadWordsLayout, LayoutCat DEF NewsRequest
<1>4. /\ NewsHead \o Headline \in Layouts
      /\ Names(NewsHead \o Headline) = {"agency", "code", "date", "time", "category"}
      /\ NewsRequest \o Headline \in Layouts
      /\ Names(NewsRequest \o Headline) = {"request_id", "agency", "code", "date", "time", "category"}
  BY <1>3, NewsHeadWordsLayout, HeadlineFieldsLayout, LayoutCat
<1>5. NewsRequest \o q \in Layouts /\ Names(NewsRequest \o q) = {"request_id", "agency", "code"}
  BY <1>2, <1>3, LayoutCat
<1>6. WellFormed(read_text("NewsHeadline", toks, NewsHead \o Headline, "title"))
  <2>1. Names(NewsHead \o Headline) \cup {"title"} = ProtocolMessage["NewsHeadline"]
    BY <1>4, MoreKinds DEF NewsHeadline
  <2> QED BY <1>4, <2>1, MoreKinds, TextRead
<1>7. WellFormed(read_text("NewsHistoryItem", toks, NewsRequest \o Headline, "title"))
  <2>1. Names(NewsRequest \o Headline) \cup {"title"} = ProtocolMessage["NewsHistoryItem"]
    BY <1>4, MoreKinds DEF NewsHeadline
  <2> QED BY <1>4, <2>1, MoreKinds, TextRead
<1>8. WellFormed(read_text("NewsBody", toks, NewsRequest \o q, "body_raw"))
  <2>1. Names(NewsRequest \o q) \cup {"body_raw"} = ProtocolMessage["NewsBody"]
    BY <1>5, MoreKinds
  <2> QED BY <1>5, <2>1, MoreKinds, TextRead
<1>9. WellFormed(message("NewsHistoryEnd", read(toks, NewsRequest), NoMore))
  BY <1>3, MoreKinds, Plain
<1> QED BY <1>1, <1>6, <1>7, <1>8, <1>9, Refusals DEF nem

LEMMA VapParsed == ASSUME NEW toks PROVE WellFormed(vap(toks))
<1>1. WellFormed(vap_end(toks))
  <2> DEFINE zeros == [n \in {(VapVolumes \o VapTail)[i][1] : i \in 1..13} |-> "0"]
             period == IF Len(toks) > 3 /\ toks[4] # "" THEN Then(parse_u32(toks[4]), Some)
                       ELSE Ok(<<>>)
             more == zeros @@ "period_minutes" :> period.val
  <2>1. vap_end(toks) = IF period.err # "none" THEN period
                        ELSE message("Vap", read(toks, VapHead), more)
    BY DEF vap_end
  <2>2. Outcome(period)
    <3>1. Outcome(parse_u32(toks[4]))
      BY Outcomes
    <3> QED BY <3>1 DEF Then, Outcome, Ok
  <2>3. DOMAIN zeros = Names(VapVolumes) \cup Names(VapTail)
    <3>1. PICK l : l = VapVolumes \o VapTail
      OBVIOUS
    <3>2. l \in Layouts /\ Names(l) = Names(VapVolumes) \cup Names(VapTail)
      BY <3>1, VolumeFieldsLayout, VapTailFieldsLayout, LayoutCat
    <3>3. PICK v, w : v = VapVolumes /\ w = VapTail
      OBVIOUS
    <3>4. Len(v) = 9 /\ Len(w) = 4
      BY <3>3 DEF VapVolumes, VapTail
    <3>5. (\A i \in 1 .. 9 : v[i][1] # "_") /\ (\A i \in 1 .. 4 : w[i][1] # "_")
      BY <3>3 DEF VapVolumes, VapTail
    <3>6. v \in Seq(Entries) /\ w \in Seq(Entries)
      BY <3>3, VolumeFieldsLayout, VapTailFieldsLayout DEF Layouts
    <3>7. DOMAIN l = 1 .. 13 /\ \A i \in 1 .. 13 : l[i][1] # "_"
      <4>1. /\ l \in Seq(Entries) /\ Len(l) = Len(v) + Len(w)
            /\ \A i \in 1 .. Len(v) + Len(w) : l[i] = IF i <= Len(v) THEN v[i] ELSE w[i - Len(v)]
        BY <3>1, <3>3, <3>6, ConcatProperties
      <4>2. DOMAIN l = 1 .. 13 /\ \A i \in 1 .. 13 : l[i] = IF i <= 9 THEN v[i] ELSE w[i - 9]
        BY <3>4, <4>1
      <4>3. ASSUME NEW i \in 1 .. 13 PROVE l[i][1] # "_"
        <5>1. CASE i <= 9
          <6>1. i \in 1 .. 9 /\ l[i] = v[i]
            BY <4>2, <5>1
          <6> QED BY <3>5, <6>1
        <5>2. CASE ~(i <= 9)
          <6>1. i - 9 \in 1 .. 4 /\ l[i] = w[i - 9]
            BY <4>2, <5>2
          <6> QED BY <3>5, <6>1
        <5> QED BY <5>1, <5>2
      <4> QED BY <4>2, <4>3
    <3>8. Names(l) = {l[i][1] : i \in 1 .. 13}
      BY <3>7 DEF Names
    <3> QED BY <3>1, <3>2, <3>8
  <2>4. DOMAIN more = Names(VapVolumes) \cup Names(VapTail) \cup {"period_minutes"}
    <3> HIDE DEF zeros, period
    <3> QED BY <2>3 DEF @@, :>
  <2> HIDE DEF more, period
  <2>5. {"kind"} \cup DOMAIN more \cup Names(VapHead) = ProtocolMessage["Vap"] \cup {"kind"}
    BY <2>4, VapHeadFieldsLayout, VolumeFieldsLayout, VapTailFieldsLayout, MoreKinds DEF VapEntry
  <2>6. WellFormed(message("Vap", read(toks, VapHead), more))
    BY <2>5, VapHeadFieldsLayout, MoreKinds, Understood
  <2>7. period.err # "none" => WellFormed(period)
    BY <2>2 DEF Outcome, WellFormed
  <2> QED BY <2>1, <2>6, <2>7
<1>2. WellFormed(message("Vap", read(toks, VapHead \o VapVolumes \o << <<"period_minutes", "period">> >>
                                           \o VapTail), NoMore))
  <2>1. PICK p : p = << <<"period_minutes", "period">> >>
    OBVIOUS
  <2>2. p \in Layouts /\ Names(p) = {"period_minutes"}
    BY <2>1, PeriodFieldLayout
  <2>3. PICK a, b, c : a = VapHead \o VapVolumes /\ b = a \o p /\ c = b \o VapTail
    OBVIOUS
  <2>4. a \in Layouts /\ Names(a) = Names(VapHead) \cup Names(VapVolumes)
    BY <2>3, VapHeadFieldsLayout, VolumeFieldsLayout, LayoutCat
  <2>5. b \in Layouts /\ Names(b) = Names(a) \cup {"period_minutes"}
    BY <2>2, <2>3, <2>4, LayoutCat
  <2>6. c \in Layouts /\ Names(c) = Names(b) \cup Names(VapTail)
    BY <2>3, <2>5, VapTailFieldsLayout, LayoutCat
  <2>7. Names(c) = ProtocolMessage["Vap"]
    BY <2>4, <2>5, <2>6, VapHeadFieldsLayout, VolumeFieldsLayout, VapTailFieldsLayout, MoreKinds DEF VapEntry
  <2>8. WellFormed(message("Vap", read(toks, c), NoMore))
    BY <2>6, <2>7, MoreKinds, Plain
  <2> QED BY <2>1, <2>3, <2>8
<1> QED BY <1>1, <1>2 DEF vap

LEMMA CatalogParsed == ASSUME NEW toks PROVE WellFormed(mqc(toks))
<1>1. PICK p, q : p = << <<"_", "bytes">>, <<"market", "bytes">> >> /\ q = << <<"ticker", "bytes">> >>
  OBVIOUS
<1>2. p \in Layouts /\ Names(p) = {"market"} /\ q \in Layouts /\ Names(q) = {"ticker"}
  BY <1>1, MarketFieldsLayout, TickerFieldLayout
<1>3. p \o q \in Layouts /\ Names(p \o q) = {"market", "ticker"}
  BY <1>2, LayoutCat
<1>4. WellFormed(message("MqcEnd", read(toks, p), NoMore)) /\ WellFormed(message("MqcSymbol", read(toks, p \o q), NoMore))
  BY <1>2, <1>3, MoreKinds, Plain
<1> QED BY <1>1, <1>4 DEF mqc

LEMMA BrokerParsed == ASSUME NEW toks PROVE WellFormed(gpn(toks))
<1>1. PICK p : p = << <<"_", "bytes">>, <<"exchange", "bytes">>, <<"code", "bytes">>, <<"name", "bytes">>,
                      <<"cedro_id", "bytes">>, <<"active", "flag">> >>
  OBVIOUS
<1>2. p \in Layouts /\ Names(p) = GpnItem
  BY <1>1, BrokerFieldsLayout DEF GpnItem
<1>3. WellFormed(message("GpnItem", read(toks, p), NoMore))
  BY <1>2, MoreKinds, Plain
<1> QED BY <1>1, <1>3 DEF gpn

LEMMA TimeParsed == ASSUME NEW toks PROVE WellFormed(gtc(toks))
<1>1. PICK p, t : p = << <<"date", "u32">>, <<"time", "u32">> >>
                  /\ t = <<SubSeq(toks[2], 1, 8), SubSeq(toks[2], 9, 14)>>
  OBVIOUS
<1>2. p \in Layouts /\ Names(p) = {"date", "time"}
  BY <1>1, TimeFieldsLayout
<1>3. WellFormed(message("ServerTime", read(t, p), NoMore))
  BY <1>2, MoreKinds, Plain
<1> QED BY <1>1, <1>3, Refusals DEF gtc

LEMMA ErrorParsed == ASSUME NEW toks PROVE WellFormed(error(toks))
<1>1. PICK p, more : p = << <<"_", "bytes">>, <<"code", "u16">> >> /\ more = "context" :> after(toks, 2)
  OBVIOUS
<1>2. p \in Layouts /\ Names(p) = {"code"} /\ DOMAIN more = {"context"}
  BY <1>1, ErrorFieldsLayout DEF :>
<1>3. {"kind"} \cup DOMAIN more \cup Names(p) = ProtocolMessage["Error"] \cup {"kind"}
  BY <1>2, MoreKinds DEF CedroError
<1>4. WellFormed(message("Error", read(toks, p), more))
  BY <1>2, <1>3, MoreKinds, Understood
<1> QED BY <1>1, <1>4 DEF error

\* The type the table gives to an index is a wire type.
LEMMA ValueType == ASSUME NEW idx PROVE variant[field_type(idx)][2] \in WireTypes
<1>1. field_type(idx) \in {"Time", "TimeMs", "Date", "DateTime", "Int", "Phase", "Char", "Str", "Float"}
  BY DEF field_type
<1> QED BY <1>1 DEF variant, WireTypes

LEMMA QuoteParsed == ASSUME NEW toks PROVE WellFormed(sqt(toks))
<1> DEFINE stop == Min({j \in 4..Len(toks) + 2 : j % 2 = 0 /\ (j > Len(toks) \/ toks[j] = "")})
           pairs == (stop - 4) \div 2
           idx(k) == parse_u16(toks[2 + 2 * k])
           pair(k) == IF idx(k).err # "none" THEN idx(k)
                      ELSE IF 3 + 2 * k > Len(toks) THEN Err("MissingField")
                      ELSE decode_value(idx(k).val, toks[3 + 2 * k])
           bad == {k \in 1..pairs : pair(k).err # "none"}
           head == read(toks, << <<"_", "bytes">>, <<"ticker", "bytes">>, <<"time_hhmmss", "u32">> >>)
           diff == "diff" :> [k \in 1..pairs |-> pair(k).val]
<1>1. sqt(toks) = IF head.err = "none" /\ bad # {} THEN pair(Min(bad)) ELSE message("Quote", head, diff)
  BY DEF sqt
<1>2. ASSUME NEW k PROVE Outcome(pair(k))
  <2>1. Outcome(idx(k)) /\ Outcome(Err("MissingField"))
    BY Outcomes DEF Outcome, Err, ErrorKinds
  <2>2. Outcome(decode_value(idx(k).val, toks[3 + 2 * k]))
    <3>1. PICK i, raw : i = idx(k).val /\ raw = toks[3 + 2 * k]
      OBVIOUS
    <3>2. Outcome(decode(variant[field_type(i)][2], raw))
      BY ValueType, DecodeOutcome
    <3>3. Outcome(decode_value(i, raw))
      BY <3>2 DEF decode_value, Then, Outcome, Ok
    <3> QED BY <3>1, <3>3
  <2> QED BY <2>1, <2>2
<1>3. bad # {} => Min(bad) \in bad
  <2>1. bad \in SUBSET Nat
    <3>1. \A k \in 1 .. pairs : k \in Nat
      <4> HIDE DEF pairs
      <4> QED OBVIOUS
    <3> QED BY <3>1
  <2> HIDE DEF bad
  <2>2. bad # {} => \E x \in bad : \A y \in bad : x <= y
    BY <2>1, Least
  <2> QED BY <2>2 DEF Min
<1>4. bad # {} => WellFormed(pair(Min(bad)))
  <2>1. PICK m : m = Min(bad)
    OBVIOUS
  <2>2. bad # {} => pair(m).err # "none"
    BY <1>3, <2>1
  <2>3. Outcome(pair(m))
    BY <1>2
  <2> HIDE DEF pair, bad
  <2> QED BY <2>1, <2>2, <2>3 DEF Outcome, WellFormed
<1>5. WellFormed(message("Quote", head, diff))
  <2>1. PICK p : p = << <<"_", "bytes">>, <<"ticker", "bytes">>, <<"time_hhmmss", "u32">> >>
    OBVIOUS
  <2>2. p \in Layouts /\ Names(p) = {"ticker", "time_hhmmss"}
    BY <2>1, QuoteHeadLayout
  <2>3. DOMAIN diff = {"diff"}
    BY DEF :>
  <2> HIDE DEF diff
  <2>4. {"kind"} \cup DOMAIN diff \cup Names(p) = ProtocolMessage["Quote"] \cup {"kind"}
    BY <2>2, <2>3, MoreKinds
  <2>5. WellFormed(message("Quote", read(toks, p), diff))
    BY <2>2, <2>4, MoreKinds, Understood
  <2> QED BY <2>1, <2>5
<1> HIDE DEF pair, bad, head, diff
<1> QED BY <1>1, <1>4, <1>5

LEMMA FrameParsed == ASSUME NEW toks PROVE WellFormed(parse_frame(toks))
<1>1. /\ WellFormed(sqt(toks)) /\ WellFormed(bqt(toks)) /\ WellFormed(sab(toks))
      /\ WellFormed(gqt(toks)) /\ WellFormed(nem(toks)) /\ WellFormed(vap(toks))
      /\ WellFormed(gtc(toks)) /\ WellFormed(mqc(toks)) /\ WellFormed(gpn(toks))
      /\ WellFormed(error(toks))
  BY QuoteParsed, BookParsed, AggBookParsed, TradeParsed, NewsParsed, VapParsed, TimeParsed,
     CatalogParsed, BrokerParsed, ErrorParsed
<1> QED BY <1>1, Refusals DEF parse_frame

-----------------------------------------------------------------------------
(***************************************************************************)
(* A damaged token stays in its place.  toks is the frame as it was sent   *)
(* and dam the same frame with another token in place i.  The prover has   *)
(* no theory of the empty text: Blank stands for it, and is expanded only  *)
(* where Zenon unfolds a parser.                                           *)
(***************************************************************************)

\* Two frames that differ in place i at most.
Frames == Seq(STRING)
Blank == ""
Damaged(toks, dam, i) ==
    /\ toks \in Frames /\ dam \in Frames /\ Len(dam) = Len(toks)
    /\ \A j \in 1 .. Len(toks) : j # i => dam[j] = toks[j]

\* Two records that agree on the fields X, or on all of them but one.
Same(v, w, X) == \A f \in X : w[f] = v[f]
Near(v, w, X) == \E n : \A f \in X : f # n => w[f] = v[f]

\* Of two results that are messages, the second is the first but for one field.
Alike(r, s) ==
    r.err = "none" /\ s.err = "none" =>
        s.val.kind = r.val.kind /\ Near(r.val, s.val, DOMAIN r.val)

LEMMA FrameLength ==
    ASSUME NEW toks \in Frames
    PROVE  Len(toks) \in Nat /\ DOMAIN toks = 1 .. Len(toks)
BY DEF Frames

\* What a layout reads without error is each field's own token, decoded.
LEMMA ReadFieldByField ==
    ASSUME NEW toks, NEW layout \in Layouts, read(toks, layout).err = "none"
    PROVE  /\ \A i \in DOMAIN layout : ~(i > Len(toks))
           /\ read(toks, layout).val =
                 [n \in Names(layout) |->
                    LET i == CHOOSE i \in DOMAIN layout : layout[i][1] = n
                    IN  decode(layout[i][2], toks[i]).val]
<1> DEFINE field(i) == decode(layout[i][2], toks[i])
           bad == {i \in DOMAIN layout : i > Len(toks) \/ field(i).err # "none"}
           name(i) == layout[i][1]
           rec == [n \in {name(i) : i \in DOMAIN layout} \ {"_"} |->
                    field(CHOOSE i \in DOMAIN layout : name(i) = n).val]
<1>1. read(toks, layout) = IF bad = {} THEN Ok(rec)
                           ELSE IF Min(bad) > Len(toks) THEN Err("MissingField") ELSE field(Min(bad))
  BY Zenon DEF read
<1>2. CASE bad = {}
  <2>1. Ok(rec).val = rec
    BY DEF Ok
  <2>2. rec = [n \in Names(layout) |->
                 LET i == CHOOSE i \in DOMAIN layout : layout[i][1] = n
                 IN  decode(layout[i][2], toks[i]).val]
    BY Zenon DEF Names
  <2>3. \A i \in DOMAIN layout : ~(i > Len(toks))
    BY <1>2
  <2>4. read(toks, layout).val = rec
    <3> HIDE DEF rec, bad
    <3> QED BY <1>1, <1>2, <2>1
  <2> QED BY <2>2, <2>3, <2>4
<1>3. CASE bad # {}
  <2>1. Min(bad) \in bad
    <3>1. bad \in SUBSET Nat
      BY DEF Layouts
    <3> HIDE DEF bad
    <3>2. \E x \in bad : \A y \in bad : x <= y
      BY <1>3, <3>1, Least
    <3> QED BY <3>2 DEF Min
  <2>2. CASE Min(bad) > Len(toks)
    <3>1. read(toks, layout) = Err("MissingField")
      BY <1>1, <1>3, <2>2
    <3>2. Err("MissingField").err = "MissingField"
      BY DEF Err
    <3> QED BY <3>1, <3>2
  <2>3. CASE ~(Min(bad) > Len(toks))
    <3>1. read(toks, layout) = field(Min(bad))
      BY <1>1, <1>3, <2>3
    <3>2. PICK m : m = Min(bad)
      OBVIOUS
    <3>3. field(m).err # "none"
      BY <2>1, <2>3, <3>2
    <3> QED BY <3>1, <3>2, <3>3
  <2> QED BY <2>2, <2>3
<1> QED BY <1>2, <1>3

\* A damaged token is one field of what a layout reads, or none of it.
LEMMA ReadAlike ==
    ASSUME NEW toks, NEW dam, NEW i, Damaged(toks, dam, i), NEW layout \in Layouts,
           read(toks, layout).err = "none", read(dam, layout).err = "none"
    PROVE  /\ Near(read(toks, layout).val, read(dam, layout).val, Names(layout))
           /\ i \notin DOMAIN layout =>
                 Same(read(toks, layout).val, read(dam, layout).val, Names(layout))
<1>1. PICK v, w : v = read(toks, layout).val /\ w = read(dam, layout).val
  OBVIOUS
<1>2. /\ v = [n \in Names(layout) |->
                 LET j == CHOOSE j \in DOMAIN layout : layout[j][1] = n
                 IN  decode(layout[j][2], toks[j]).val]
      /\ w = [n \in Names(layout) |->
                 LET j == CHOOSE j \in DOMAIN layout : layout[j][1] = n
                 IN  decode(layout[j][2], dam[j]).val]
      /\ \A j \in DOMAIN layout : ~(j > Len(toks))
  BY <1>1, ReadFieldByField
<1>3. ASSUME NEW n \in Names(layout)
      PROVE  w[n] = v[n] \/ (i \in DOMAIN layout /\ n = layout[i][1])
  <2>1. PICK j : j = CHOOSE k \in DOMAIN layout : layout[k][1] = n
    OBVIOUS
  <2>2. \E k \in DOMAIN layout : layout[k][1] = n
    BY DEF Names
  <2>3. j \in DOMAIN layout /\ layout[j][1] = n
    BY <2>1, <2>2
  <2>4. v[n] = decode(layout[j][2], toks[j]).val /\ w[n] = decode(layout[j][2], dam[j]).val
    BY <1>2, <2>1
  <2>5. CASE j = i
    BY <2>3, <2>5
  <2>6. CASE j # i
    <3>1. j \in 1 .. Len(toks)
      BY <1>2, <2>3 DEF Layouts, Damaged, Frames
    <3> QED BY <2>4, <2>6, <3>1 DEF Damaged
  <2> QED BY <2>5, <2>6
<1>4. Near(v, w, Names(layout))
  BY <1>3 DEF Near
<1>5. i \notin DOMAIN layout => Same(v, w, Names(layout))
  BY <1>3 DEF Same
<1> QED BY <1>1, <1>4, <1>5

\* One difference in the fields read or in the ones added is one in the message.
LEMMA MessageAlike ==
    ASSUME NEW kind, NEW names, NEW r, NEW s, Fields(r, names), Fields(s, names),
           NEW more, NEW less, DOMAIN less = DOMAIN more,
           r.err = "none" /\ s.err = "none" =>
              \/ Same(more, less, DOMAIN more) /\ Near(r.val, s.val, names)
              \/ Near(more, less, DOMAIN more) /\ Same(r.val, s.val, names)
    PROVE  Alike(message(kind, r, more), message(kind, s, less))
<1>1. CASE r.err = "none" /\ s.err = "none"
  <2>1. PICK X : X = DOMAIN more
    OBVIOUS
  <2> DEFINE m == [kind |-> kind] @@ more @@ r.val
             l == [kind |-> kind] @@ less @@ s.val
  <2>2. /\ DOMAIN m = {"kind"} \cup X \cup names /\ m["kind"] = kind /\ l["kind"] = kind
        /\ \A f \in DOMAIN m : f # "kind" => m[f] = IF f \in X THEN more[f] ELSE r.val[f]
        /\ \A f \in DOMAIN m : f # "kind" => l[f] = IF f \in X THEN less[f] ELSE s.val[f]
    BY <1>1, <2>1 DEF @@, Fields
  <2>3. message(kind, r, more) = Ok(m) /\ message(kind, s, less) = Ok(l)
    BY <1>1 DEF message
  <2> HIDE DEF m, l
  <2>4. Ok(m).val = m /\ Ok(l).val = l
    BY DEF Ok
  <2>5. CASE Same(more, less, X) /\ Near(r.val, s.val, names)
    <3>1. PICK n : \A f \in names : f # n => s.val[f] = r.val[f]
      BY <2>5 DEF Near
    <3>2. \A f \in DOMAIN m : f # n => l[f] = m[f]
      BY <2>2, <2>5, <3>1 DEF Same
    <3> QED BY <2>2, <2>3, <2>4, <3>2 DEF Alike, Near
  <2>6. CASE Near(more, less, X) /\ Same(r.val, s.val, names)
    <3>1. PICK n : \A f \in X : f # n => less[f] = more[f]
      BY <2>6 DEF Near
    <3>2. \A f \in DOMAIN m : f # n => l[f] = m[f]
      BY <2>2, <2>6, <3>1 DEF Same
    <3> QED BY <2>2, <2>3, <2>4, <3>2 DEF Alike, Near
  <2> QED BY <1>1, <2>1, <2>5, <2>6
<1>2. CASE ~(r.err = "none" /\ s.err = "none")
  <2>1. (r.err # "none" => message(kind, r, more) = r) /\ (s.err # "none" => message(kind, s, less) = s)
    BY DEF message
  <2> QED BY <1>2, <2>1 DEF Alike
<1> QED BY <1>1, <1>2

\* A message whose fields come from the layout alone.
LEMMA ReadMessage ==
    ASSUME NEW toks, NEW dam, NEW i, Damaged(toks, dam, i), NEW layout \in Layouts, NEW kind, NEW more
    PROVE  Alike(message(kind, read(toks, layout), more), message(kind, read(dam, layout), more))
<1>1. PICK r, s : r = read(toks, layout) /\ s = read(dam, layout)
  OBVIOUS
<1>2. Fields(r, Names(layout)) /\ Fields(s, Names(layout))
  BY <1>1, ReadFields
<1>3. r.err = "none" /\ s.err = "none" => Near(r.val, s.val, Names(layout))
  BY <1>1, ReadAlike
<1>4. Same(more, more, DOMAIN more)
  BY DEF Same
<1>5. Alike(message(kind, r, more), message(kind, s, more))
  BY <1>2, <1>3, <1>4, MessageAlike
<1> QED BY <1>1, <1>5

\* A message one of whose fields, the last ones' or another, is not read by the layout.
LEMMA ReadMore ==
    ASSUME NEW toks, NEW dam, NEW i, Damaged(toks, dam, i), NEW layout \in Layouts, NEW kind,
           NEW more, NEW less, DOMAIN less = DOMAIN more,
           less = more \/ (i \notin DOMAIN layout /\ Near(more, less, DOMAIN more))
    PROVE  Alike(message(kind, read(toks, layout), more), message(kind, read(dam, layout), less))
<1>1. PICK r, s : r = read(toks, layout) /\ s = read(dam, layout)
  OBVIOUS
<1>2. Fields(r, Names(layout)) /\ Fields(s, Names(layout))
  BY <1>1, ReadFields
<1>3. r.err = "none" /\ s.err = "none" =>
         /\ Near(r.val, s.val, Names(layout))
         /\ i \notin DOMAIN layout => Same(r.val, s.val, Names(layout))
  BY <1>1, ReadAlike
<1>4. less = more => Same(more, less, DOMAIN more)
  BY DEF Same
<1>5. Alike(message(kind, r, more), message(kind, s, less))
  BY <1>2, <1>3, <1>4, MessageAlike
<1> QED BY <1>1, <1>5

LEMMA RefusedAlike ==
    ASSUME NEW r, NEW kind \in ErrorKinds
    PROVE  Alike(Err(kind), r) /\ Alike(r, Err(kind))
<1>1. Err(kind).err = kind /\ kind # "none"
  BY DEF Err, ErrorKinds
<1> QED BY <1>1 DEF Alike

\* The tokens behind the damaged one.
LEMMA RestSame ==
    ASSUME NEW toks, NEW dam, NEW i, Damaged(toks, dam, i), NEW n \in Nat, i \in Int, i <= n
    PROVE  after(dam, n) = after(toks, n) /\ take_rest(dam, n) = take_rest(toks, n)
<1>0. toks \in Seq(STRING) /\ dam \in Seq(STRING) /\ Len(dam) = Len(toks) /\ Len(toks) \in Nat
      /\ \A j \in 1 .. Len(toks) : j # i => dam[j] = toks[j]
  BY DEF Damaged, Frames
<1>1. PICK a, b : a = SubSeq(toks, n + 1, Len(toks)) /\ b = SubSeq(dam, n + 1, Len(toks))
  OBVIOUS
<1>2. CASE n + 1 <= Len(toks)
  <2>1. PICK m \in Nat : m = Len(toks) - n
    BY <1>0, <1>2
  <2>2. /\ a \in Seq(STRING) /\ Len(a) = m /\ \A j \in 1 .. m : a[j] = toks[n + j]
        /\ b \in Seq(STRING) /\ Len(b) = m /\ \A j \in 1 .. m : b[j] = dam[n + j]
    BY <1>0, <1>1, <1>2, <2>1
  <2>3. \A j \in 1 .. m : dam[n + j] = toks[n + j]
    BY <1>0, <2>1
  <2>4. a = b
    BY <2>2, <2>3, SeqEqual
  <2> QED BY <1>0, <1>1, <2>4 DEF after, take_rest
<1>3. CASE ~(n + 1 <= Len(toks))
  <2>1. a = << >> /\ b = << >>
    BY <1>0, <1>1, <1>3
  <2> QED BY <1>0, <1>1, <2>1 DEF after, take_rest
<1> QED BY <1>2, <1>3

\* The book parsers.
LEMMA EntryAlike ==
    ASSUME NEW toks, NEW dam, NEW i, Damaged(toks, dam, i), NEW layout \in Layouts, NEW kind
    PROVE  Alike(read_entry(kind, toks, layout), read_entry(kind, dam, layout))
<1>1. PICK short, long, none : /\ short = layout \o EntryTail
                               /\ long = layout \o EntryTail \o OfferTail
                               /\ none = None("order_id") @@ None("offer_type")
  OBVIOUS
<1>2. short \in Layouts /\ long \in Layouts
  <2>1. layout \o EntryTail \in Layouts
    BY EntryTailLayout, LayoutCat
  <2> QED BY <1>1, <2>1, OfferTailLayout, LayoutCat
<1>3. /\ Alike(message(kind, read(toks, short), none), message(kind, read(dam, short), none))
      /\ Alike(message(kind, read(toks, long), NoMore), message(kind, read(dam, long), NoMore))
  BY <1>2, ReadMessage
<1>4. /\ read_entry(kind, toks, layout) = IF Len(toks) <= Len(short) THEN message(kind, read(toks, short), none)
                                          ELSE message(kind, read(toks, long), NoMore)
      /\ read_entry(kind, dam, layout) = IF Len(dam) <= Len(short) THEN message(kind, read(dam, short), none)
                                         ELSE message(kind, read(dam, long), NoMore)
  BY <1>1 DEF read_entry
<1>5. Len(dam) = Len(toks)
  BY DEF Damaged
<1> QED BY <1>3, <1>4, <1>5

LEMMA DeleteAlike ==
    ASSUME NEW toks, NEW dam, NEW i, Damaged(toks, dam, i), i # 4, NEW kinds
    PROVE  Alike(parse_delete(toks, kinds), parse_delete(dam, kinds))
<1>1. PICK p : p = << <<"_", "bytes">>, <<"side", "side">>, <<"position", "u32">> >>
  OBVIOUS
<1>2. PICK one : one = TickerOp \o p
  OBVIOUS
<1>3. ASSUME NEW t
      PROVE  parse_delete(t, kinds) =
                IF Len(t) < 4 THEN Err("MissingField")
                ELSE IF t[4] \notin DOMAIN kinds THEN Err("InvalidField")
                ELSE message(kinds[t[4]], read(t, IF t[4] = "3" THEN SubSeq(one, 1, 4) ELSE one), NoMore)
  BY <1>1, <1>2 DEF parse_delete
<1>4. one \in Layouts /\ SubSeq(one, 1, 4) \in Layouts
  BY <1>1, <1>2, DeleteLayouts
<1>5. Len(dam) = Len(toks) /\ (~(Len(toks) < 4) => dam[4] = toks[4])
  BY FrameLength DEF Damaged
<1>6. PICK l, k : l = (IF toks[4] = "3" THEN SubSeq(one, 1, 4) ELSE one) /\ k = kinds[toks[4]]
  OBVIOUS
<1>7. Alike(message(k, read(toks, l), NoMore), message(k, read(dam, l), NoMore))
  BY <1>4, <1>6, ReadMessage
<1>8. Alike(Err("MissingField"), Err("MissingField")) /\ Alike(Err("InvalidField"), Err("InvalidField"))
  BY RefusedAlike, Kinds
<1>9. CASE Len(toks) < 4
  BY <1>3, <1>5, <1>8, <1>9
<1>10. CASE ~(Len(toks) < 4) /\ toks[4] \notin DOMAIN kinds
  BY <1>3, <1>5, <1>8, <1>10
<1>11. CASE ~(Len(toks) < 4) /\ toks[4] \in DOMAIN kinds
  <2>1. dam[4] = toks[4] /\ ~(Len(dam) < 4)
    BY <1>5, <1>11
  <2>2. parse_delete(toks, kinds) = message(k, read(toks, l), NoMore)
    BY <1>3, <1>6, <1>11
  <2>3. parse_delete(dam, kinds) = message(k, read(dam, l), NoMore)
    BY <1>3, <1>6, <1>11, <2>1
  <2> QED BY <1>7, <2>2, <2>3
<1> QED BY <1>9, <1>10, <1>11

LEMMA BookAlike ==
    ASSUME NEW toks, NEW dam, NEW i, Damaged(toks, dam, i), i # 3, i = 4 => toks[3] # "D"
    PROVE  Alike(bqt(toks), bqt(dam))
<1>1. PICK p, q : p = << <<"position", "u32">> >> /\ q = << <<"position", "u32">>, <<"old_pos", "u32">> >>
  OBVIOUS
<1>2. TickerOp \o p \in Layouts /\ TickerOp \o q \in Layouts /\ TickerOp \in Layouts
  BY <1>1, PositionLayout, PositionsLayout, TickerOpLayout, LayoutCat
<1>3. PICK kinds : kinds = "1" :> "BookSingle" @@ "2" :> "BookPrefix" @@ "3" :> "BookClearAll"
  OBVIOUS
<1>4. Len(dam) = Len(toks) /\ (~(Len(toks) < 3) => dam[3] = toks[3])
  BY FrameLength DEF Damaged
<1>5. /\ Alike(read_entry("BookAdd", toks, TickerOp \o p), read_entry("BookAdd", dam, TickerOp \o p))
      /\ Alike(read_entry("BookUpdate", toks, TickerOp \o q), read_entry("BookUpdate", dam, TickerOp \o q))
  BY <1>2, EntryAlike
<1>6. Alike(parse_add(toks), parse_add(dam)) /\ Alike(parse_update(toks), parse_update(dam))
  BY <1>1, <1>5 DEF parse_add, parse_update
<1>7. i # 4 => Alike(parse_delete(toks, kinds), parse_delete(dam, kinds))
  BY DeleteAlike
<1>8. Alike(message("BookEndOfInitial", read(toks, TickerOp), NoMore),
            message("BookEndOfInitial", read(dam, TickerOp), NoMore))
  BY <1>2, ReadMessage
<1>9. Alike(Err("MissingField"), Err("MissingField")) /\ Alike(Err("InvalidField"), Err("InvalidField"))
  BY RefusedAlike, Kinds
<1>10. CASE Len(toks) < 3
  BY <1>4, <1>9, <1>10 DEF bqt
<1>11. CASE ~(Len(toks) < 3)
  BY <1>3, <1>4, <1>6, <1>7, <1>8, <1>9, <1>11 DEF bqt
<1> QED BY <1>10, <1>11

LEMMA AggBookAlike ==
    ASSUME NEW toks, NEW dam, NEW i, Damaged(toks, dam, i), i # 3, i = 4 => toks[3] # "D"
    PROVE  Alike(sab(toks), sab(dam))
<1>1. PICK p : p = << <<"position", "u32">>, <<"side", "side">>, <<"price", "f64">>, <<"quantity", "u64">>,
                      <<"offer_count", "u32">>, <<"timestamp_ddmmhhmm", "u32">> >>
  OBVIOUS
<1>2. TickerOp \o p \in Layouts /\ TickerOp \in Layouts
  BY <1>1, LevelTailLayout, TickerOpLayout, LayoutCat
<1>3. PICK kinds : kinds = "1" :> "AggBookSingle" @@ "3" :> "AggBookClearAll"
  OBVIOUS
<1>4. Len(dam) = Len(toks) /\ (~(Len(toks) < 3) => dam[3] = toks[3])
  BY FrameLength DEF Damaged
<1>5. ASSUME NEW kind PROVE Alike(read_level(kind, toks), read_level(kind, dam))
  <2>1. Alike(message(kind, read(toks, TickerOp \o p), NoMore), message(kind, read(dam, TickerOp \o p), NoMore))
    BY <1>2, ReadMessage
  <2> QED BY <1>1, <2>1 DEF read_level
<1>6. i # 4 => Alike(parse_delete(toks, kinds), parse_delete(dam, kinds))
  BY DeleteAlike
<1>7. Alike(message("AggBookEndOfInitial", read(toks, TickerOp), NoMore),
            message("AggBookEndOfInitial", read(dam, TickerOp), NoMore))
  BY <1>2, ReadMessage
<1>8. Alike(Err("MissingField"), Err("MissingField")) /\ Alike(Err("InvalidField"), Err("InvalidField"))
  BY RefusedAlike, Kinds
<1>9. CASE Len(toks) < 3
  BY <1>4, <1>8, <1>9 DEF sab
<1>10. CASE ~(Len(toks) < 3)
  BY <1>3, <1>4, <1>5, <1>6, <1>7, <1>8, <1>10 DEF sab
<1> QED BY <1>9, <1>10

\* The catalogs and the errors.
LEMMA CatalogAlike ==
    ASSUME NEW toks, NEW dam, NEW i, Damaged(toks, dam, i),
           i = 3 => toks[3] # "E" /\ dam[3] # "E"
    PROVE  Alike(mqc(toks), mqc(dam))
<1>1. PICK p, q : p = << <<"_", "bytes">>, <<"market", "bytes">> >> /\ q = << <<"ticker", "bytes">> >>
  OBVIOUS
<1>2. p \in Layouts /\ p \o q \in Layouts
  BY <1>1, MarketFieldsLayout, TickerFieldLayout, LayoutCat
<1>3. /\ Alike(message("MqcEnd", read(toks, p), NoMore), message("MqcEnd", read(dam, p), NoMore))
      /\ Alike(message("MqcSymbol", read(toks, p \o q), NoMore), message("MqcSymbol", read(dam, p \o q), NoMore))
  BY <1>2, ReadMessage
<1>4. Len(dam) = Len(toks) /\ (Len(toks) = 3 => (dam[3] = "E" <=> toks[3] = "E"))
  BY FrameLength DEF Damaged
<1>5. ASSUME NEW t
      PROVE  mqc(t) = IF Len(t) = 3 /\ t[3] = "E" THEN message("MqcEnd", read(t, p), NoMore)
                      ELSE message("MqcSymbol", read(t, p \o q), NoMore)
  BY <1>1 DEF mqc
<1> QED BY <1>3, <1>4, <1>5

LEMMA BrokerAlike ==
    ASSUME NEW toks, NEW dam, NEW i, Damaged(toks, dam, i)
    PROVE  Alike(gpn(toks), gpn(dam))
<1>1. PICK p : p = << <<"_", "bytes">>, <<"exchange", "bytes">>, <<"code", "bytes">>, <<"name", "bytes">>,
                      <<"cedro_id", "bytes">>, <<"active", "flag">> >>
  OBVIOUS
<1>2. p \in Layouts
  BY <1>1, BrokerFieldsLayout
<1>3. Alike(message("GpnItem", read(toks, p), NoMore), message("GpnItem", read(dam, p), NoMore))
  BY <1>2, ReadMessage
<1> QED BY <1>1, <1>3 DEF gpn

\* A field that is what is left of the frame behind the layout.
LEMMA RestAlike ==
    ASSUME NEW toks, NEW dam, NEW i \in Nat, Damaged(toks, dam, i), NEW layout \in Layouts, NEW kind,
           NEW text
    PROVE  /\ Alike(read_text(kind, toks, layout, text), read_text(kind, dam, layout, text))
           /\ Alike(message(kind, read(toks, layout), text :> after(toks, Len(layout))),
                    message(kind, read(dam, layout), text :> after(dam, Len(layout))))
<1>0. Len(layout) \in Nat /\ DOMAIN layout = 1 .. Len(layout)
  BY DEF Layouts
<1>1. ASSUME NEW x, NEW y, i <= Len(layout) => y = x
      PROVE  Alike(message(kind, read(toks, layout), text :> x), message(kind, read(dam, layout), text :> y))
  <2>1. PICK more, less : more = text :> x /\ less = text :> y
    OBVIOUS
  <2>2. DOMAIN more = {text} /\ DOMAIN less = {text}
    BY <2>1 DEF :>
  <2>3. Near(more, less, DOMAIN more)
    BY <2>2 DEF Near
  <2>4. less = more \/ i \notin DOMAIN layout
    BY <1>0, <1>1, <2>1
  <2>5. Alike(message(kind, read(toks, layout), more), message(kind, read(dam, layout), less))
    BY <2>2, <2>3, <2>4, ReadMore
  <2> QED BY <2>1, <2>5
<1>2. i <= Len(layout) => /\ after(dam, Len(layout)) = after(toks, Len(layout))
                          /\ take_rest(dam, Len(layout)) = take_rest(toks, Len(layout))
  BY <1>0, RestSame
<1>3. Alike(message(kind, read(toks, layout), text :> take_rest(toks, Len(layout))),
            message(kind, read(dam, layout), text :> take_rest(dam, Len(layout))))
  BY <1>1, <1>2
<1>4. Alike(message(kind, read(toks, layout), text :> after(toks, Len(layout))),
            message(kind, read(dam, layout), text :> after(dam, Len(layout))))
  BY <1>1, <1>2
<1> QED BY <1>3, <1>4 DEF read_text

LEMMA ErrorAlike ==
    ASSUME NEW toks, NEW dam, NEW i \in Nat, Damaged(toks, dam, i)
    PROVE  Alike(error(toks), error(dam))
<1>1. PICK p : p = << <<"_", "bytes">>, <<"code", "u16">> >>
  OBVIOUS
<1>2. p \in Layouts /\ Len(p) = 2
  BY <1>1, ErrorFieldsLayout
<1>3. Alike(message("Error", read(toks, p), "context" :> after(toks, 2)),
            message("Error", read(dam, p), "context" :> after(dam, 2)))
  BY <1>2, RestAlike
<1> QED BY <1>1, <1>3 DEF error

LEMMA NewsAlike ==
    ASSUME NEW toks, NEW dam, NEW i \in Nat, Damaged(toks, dam, i), i # 2, Len(toks) >= 2,
           i = 4 /\ toks[2] = "L" => toks[4] # "END" /\ dam[4] # "END"
    PROVE  Alike(nem(toks), nem(dam))
<1>1. PICK p, q : p = << <<"request_id", "bytes">> >> /\ q = << <<"agency", "bytes">>, <<"code", "bytes">> >>
  OBVIOUS
<1>2. p \in Layouts /\ q \in Layouts
  BY <1>1, RequestIdLayout, BodyFieldsLayout
<1>3. NewsRequest \in Layouts
  BY <1>1, <1>2, NewsHeadWordsLayout, LayoutCat DEF NewsRequest
<1>4. NewsHead \o Headline \in Layouts /\ NewsRequest \o Headline \in Layouts /\ NewsRequest \o q \in Layouts
  BY <1>2, <1>3, NewsHeadWordsLayout, HeadlineFieldsLayout, LayoutCat
<1>5. /\ Alike(read_text("NewsHeadline", toks, NewsHead \o Headline, "title"),
               read_text("NewsHeadline", dam, NewsHead \o Headline, "title"))
      /\ Alike(read_text("NewsHistoryItem", toks, NewsRequest \o Headline, "title"),
               read_text("NewsHistoryItem", dam, NewsRequest \o Headline, "title"))
      /\ Alike(read_text("NewsBody", toks, NewsRequest \o q, "body_raw"),
               read_text("NewsBody", dam, NewsRequest \o q, "body_raw"))
  BY <1>4, RestAlike
<1>6. Alike(message("NewsHistoryEnd", read(toks, NewsRequest), NoMore),
            message("NewsHistoryEnd", read(dam, NewsRequest), NoMore))
  BY <1>3, ReadMessage
<1>7. Alike(Err("MissingField"), Err("MissingField")) /\ Alike(Err("InvalidField"), Err("InvalidField"))
  BY RefusedAlike, Kinds
<1>8. /\ Len(dam) = Len(toks) /\ dam[2] = toks[2]
      /\ ~(Len(toks) < 4) /\ toks[2] = "L" => (dam[4] = "END" <=> toks[4] = "END")
  BY FrameLength DEF Damaged
<1>9. CASE toks[2] = "A"
  BY <1>5, <1>8, <1>9 DEF nem
<1>10. CASE toks[2] = "L"
  <2>1. ASSUME NEW t, t[2] = "L"
        PROVE  nem(t) = IF Len(t) < 4 THEN Err("MissingField")
                        ELSE IF t[4] = "END" THEN message("NewsHistoryEnd", read(t, NewsRequest), NoMore)
                        ELSE read_text("NewsHistoryItem", t, NewsRequest \o Headline, "title")
    BY <2>1 DEF nem
  <2> QED BY <1>5, <1>6, <1>7, <1>8, <1>10, <2>1
<1>11. CASE toks[2] = "N"
  BY <1>1, <1>5, <1>8, <1>11 DEF nem
<1>12. CASE toks[2] \notin {"A", "L", "N"}
  BY <1>7, <1>8, <1>12 DEF nem
<1> QED BY <1>9, <1>10, <1>11, <1>12

LEMMA VapAlike ==
    ASSUME NEW toks, NEW dam, NEW i \in Nat, Damaged(toks, dam, i),
           i = 3 => toks[3] # "E" /\ dam[3] # "E"
    PROVE  Alike(vap(toks), vap(dam))
<1>1. PICK c : c = VapHead \o VapVolumes \o << <<"period_minutes", "period">> >> \o VapTail
  OBVIOUS
<1>2. c \in Layouts
  <2>1. PICK p : p = << <<"period_minutes", "period">> >>
    OBVIOUS
  <2>2. p \in Layouts
    BY <2>1, PeriodFieldLayout
  <2>3. VapHead \o VapVolumes \in Layouts
    BY VapHeadFieldsLayout, VolumeFieldsLayout, LayoutCat
  <2>4. VapHead \o VapVolumes \o p \in Layouts
    BY <2>2, <2>3, LayoutCat
  <2> QED BY <1>1, <2>1, <2>4, VapTailFieldsLayout, LayoutCat
<1>3. Alike(message("Vap", read(toks, c), NoMore), message("Vap", read(dam, c), NoMore))
  BY <1>2, ReadMessage
<1>4. Alike(vap_end(toks), vap_end(dam))
  <2> DEFINE zeros == [n \in {(VapVolumes \o VapTail)[k][1] : k \in 1..13} |-> "0"]
             period(t) == IF Len(t) > 3 /\ t[4] # "" THEN Then(parse_u32(t[4]), Some)
                          ELSE Ok(<<>>)
             more(x) == zeros @@ "period_minutes" :> x
  <2>1. ASSUME NEW t
        PROVE  vap_end(t) = IF period(t).err # "none" THEN period(t)
                            ELSE message("Vap", read(t, VapHead), more(period(t).val))
    BY DEF vap_end
  <2>2. VapHead \in Layouts /\ DOMAIN VapHead = 1 .. 2
    <3>1. DOMAIN VapHead = 1 .. 2
      BY DEF VapHead
    <3> QED BY <3>1, VapHeadFieldsLayout
  <2>3. i # 4 => period(dam) = period(toks)
    <3>1. Len(dam) = Len(toks) /\ (Len(toks) > 3 /\ i # 4 => dam[4] = toks[4])
      BY FrameLength DEF Damaged
    <3> QED BY <3>1
  <2>4. ASSUME NEW x, NEW y
        PROVE  /\ DOMAIN more(y) = DOMAIN more(x)
               /\ \A f \in DOMAIN more(x) : f # "period_minutes" => more(y)[f] = more(x)[f]
    <3> HIDE DEF zeros
    <3> QED BY DEF @@, :>
  <2> HIDE DEF more, period
  <2>5. PICK x, y : x = more(period(toks).val) /\ y = more(period(dam).val)
    OBVIOUS
  <2>6. DOMAIN y = DOMAIN x /\ Near(x, y, DOMAIN x) /\ (i # 4 => y = x)
    BY <2>3, <2>4, <2>5 DEF Near
  <2>7. Alike(message("Vap", read(toks, VapHead), x), message("Vap", read(dam, VapHead), y))
    BY <2>2, <2>6, ReadMore
  <2>8. CASE period(toks).err # "none"
    BY <2>1, <2>8 DEF Alike
  <2>9. CASE period(dam).err # "none"
    BY <2>1, <2>9 DEF Alike
  <2>10. CASE period(toks).err = "none" /\ period(dam).err = "none"
    BY <2>1, <2>5, <2>7, <2>10
  <2> QED BY <2>8, <2>9, <2>10
<1>5. /\ Len(dam) = Len(toks) /\ (Len(toks) > 2 => (dam[3] = "E" <=> toks[3] = "E"))
  BY FrameLength DEF Damaged
<1>6. ASSUME NEW t
      PROVE  vap(t) = IF Len(t) > 2 /\ t[3] = "E" THEN vap_end(t)
                      ELSE message("Vap", read(t, c), NoMore)
  BY <1>1 DEF vap
<1> QED BY <1>3, <1>4, <1>5, <1>6

\* The pairs of a quote.
Even(j) == j % 2 = 0
Ends(toks) == {j \in 4..Len(toks) + 2 : Even(j) /\ (j > Len(toks) \/ toks[j] = Blank)}
Stop(toks) == Min(Ends(toks))
Pairs(toks) == (Stop(toks) - 4) \div 2
Pair(toks, k) ==
    LET idx == parse_u16(toks[2 + 2 * k]) IN
    IF idx.err # "none" THEN idx
    ELSE IF 3 + 2 * k > Len(toks) THEN Err("MissingField")
    ELSE decode_value(idx.val, toks[3 + 2 * k])
Diff(toks) == [k \in 1..Pairs(toks) |-> Pair(toks, k).val]

LEMMA EndsAt ==
    ASSUME NEW toks, NEW j
    PROVE  j \in Ends(toks) <=> j \in 4 .. Len(toks) + 2 /\ Even(j) /\ (j > Len(toks) \/ toks[j] = Blank)
BY Zenon DEF Ends

LEMMA QuoteForm ==
    ASSUME NEW toks, sqt(toks).err = "none"
    PROVE  sqt(toks) = message("Quote", read(toks, << <<"_", "bytes">>, <<"ticker", "bytes">>,
                                                      <<"time_hhmmss", "u32">> >>),
                               "diff" :> Diff(toks))
<1> DEFINE bad == {k \in 1..Pairs(toks) : Pair(toks, k).err # "none"}
           head == read(toks, << <<"_", "bytes">>, <<"ticker", "bytes">>, <<"time_hhmmss", "u32">> >>)
<1>1. sqt(toks) = IF head.err = "none" /\ bad # {} THEN Pair(toks, Min(bad))
                  ELSE message("Quote", head, "diff" :> Diff(toks))
  BY Zenon DEF sqt, Diff, Pair, Pairs, Stop, Ends, Even, Blank
<1>2. bad # {} => Min(bad) \in bad
  <2>1. bad \in SUBSET Nat
    <3>1. PICK p : p = Pairs(toks)
      OBVIOUS
    <3>2. \A k \in 1 .. p : k \in Nat
      OBVIOUS
    <3> QED BY <3>1, <3>2
  <2> HIDE DEF bad
  <2>2. bad # {} => \E x \in bad : \A y \in bad : x <= y
    BY <2>1, Least
  <2> QED BY <2>2 DEF Min
<1>3. bad # {} => Pair(toks, Min(bad)).err # "none"
  BY <1>2
<1> HIDE DEF bad, head
<1> QED BY <1>1, <1>3 DEF head

LEMMA QuoteSame ==
    ASSUME NEW toks, NEW dam, NEW i \in Nat, Damaged(toks, dam, i), i < 4, Len(toks) >= 2
    PROVE  Diff(dam) = Diff(toks)
<1>1. PICK n \in Nat : n = Len(toks) /\ Len(dam) = n
  BY FrameLength DEF Damaged
<1>2. \A j \in 4 .. n : dam[j] = toks[j]
  BY <1>1 DEF Damaged
<1>3. ASSUME NEW j PROVE j \in Ends(dam) <=> j \in Ends(toks)
  <2>1. j \in 4 .. n + 2 => j > n \/ dam[j] = toks[j]
    <3>1. j \in 4 .. n + 2 /\ ~(j > n) => j \in 4 .. n
      OBVIOUS
    <3> QED BY <1>2, <3>1
  <2>2. /\ j \in Ends(dam) <=> j \in 4 .. n + 2 /\ Even(j) /\ (j > n \/ dam[j] = Blank)
        /\ j \in Ends(toks) <=> j \in 4 .. n + 2 /\ Even(j) /\ (j > n \/ toks[j] = Blank)
    BY <1>1, EndsAt
  <2> QED BY <2>1, <2>2
<1>4. Stop(dam) = Stop(toks)
  <2>1. Ends(dam) = Ends(toks)
    BY <1>3
  <2> QED BY <2>1 DEF Stop
<1>5. Pairs(dam) = Pairs(toks)
  BY <1>4 DEF Pairs
<1>6. Stop(toks) \in 4 .. n + 2
  <2>1. PICK ends : ends = Ends(toks)
    OBVIOUS
  <2>2. ends \in SUBSET Nat /\ ends \subseteq 4 .. n + 2 /\ ends # {}
    <3>1. ASSUME NEW j \in ends PROVE j \in 4 .. n + 2
      BY <1>1, <2>1, <3>1 DEF Ends
    <3>2. Even(n + 1) \/ Even(n + 2)
      BY DEF Even
    <3>3. n + 1 \in 4 .. n + 2 \/ n = 2
      BY <1>1
    <3>4. n = 2 => Even(n + 2)
      BY DEF Even
    <3>5. ASSUME NEW m \in {n + 1, n + 2}, Even(m), m \in 4 .. n + 2 PROVE m \in ends
      <4>1. m > n
        OBVIOUS
      <4> QED BY <1>1, <2>1, <3>5, <4>1, EndsAt
    <3>6. n + 1 \in ends \/ n + 2 \in ends
      BY <1>1, <3>2, <3>3, <3>4, <3>5
    <3> QED BY <3>1, <3>6
  <2>3. \E x \in ends : \A y \in ends : x <= y
    BY <2>2, Least
  <2>4. Min(ends) \in ends
    BY <2>3 DEF Min
  <2>5. Stop(toks) = Min(ends)
    BY <2>1 DEF Stop
  <2> QED BY <2>2, <2>4, <2>5
<1>7. ASSUME NEW k \in 1 .. Pairs(toks) PROVE Pair(dam, k) = Pair(toks, k)
  <2>1. PICK s \in 4 .. n + 2 : s = Stop(toks)
    BY <1>6
  <2>2. k \in Nat /\ 1 <= k /\ k <= (s - 4) \div 2
    BY <2>1 DEF Pairs
  <2>3. 2 * k <= s - 4
    BY <1>1, <2>1, <2>2
  <2>4. 2 + 2 * k \in 4 .. n
    BY <1>1, <2>1, <2>2, <2>3
  <2>5. ~(3 + 2 * k > n) => 3 + 2 * k \in 4 .. n
    BY <1>1, <2>2
  <2>6. dam[2 + 2 * k] = toks[2 + 2 * k] /\ (~(3 + 2 * k > n) => dam[3 + 2 * k] = toks[3 + 2 * k])
    BY <1>2, <2>4, <2>5
  <2> QED BY <1>1, <2>6 DEF Pair
<1> QED BY <1>5, <1>7 DEF Diff

LEMMA QuoteAlike ==
    ASSUME NEW toks, NEW dam, NEW i \in Nat, Damaged(toks, dam, i), Len(toks) >= 2
    PROVE  Alike(sqt(toks), sqt(dam))
<1>1. PICK p : p = << <<"_", "bytes">>, <<"ticker", "bytes">>, <<"time_hhmmss", "u32">> >>
  OBVIOUS
<1>2. p \in Layouts /\ DOMAIN p = 1 .. 3
  <2>1. PICK a, b, c : a = <<"_", "bytes">> /\ b = <<"ticker", "bytes">> /\ c = <<"time_hhmmss", "u32">>
    OBVIOUS
  <2>2. p = << a, b, c >>
    BY <1>1, <2>1
  <2>3. DOMAIN p = 1 .. 3
    BY <2>2
  <2> QED BY <1>1, <2>3, QuoteHeadLayout
<1>3. PICK x, y : x = "diff" :> Diff(toks) /\ y = "diff" :> Diff(dam)
  OBVIOUS
<1>4. DOMAIN x = {"diff"} /\ DOMAIN y = {"diff"}
  BY <1>3 DEF :>
<1>5. Near(x, y, DOMAIN x)
  BY <1>4 DEF Near
<1>6. y = x \/ i \notin DOMAIN p
  BY <1>2, <1>3, QuoteSame
<1>7. Alike(message("Quote", read(toks, p), x), message("Quote", read(dam, p), y))
  BY <1>2, <1>4, <1>5, <1>6, ReadMore
<1>8. CASE sqt(toks).err = "none" /\ sqt(dam).err = "none"
  <2>1. sqt(toks) = message("Quote", read(toks, p), x)
    BY <1>1, <1>3, <1>8, QuoteForm
  <2>2. sqt(dam) = message("Quote", read(dam, p), y)
    BY <1>1, <1>3, <1>8, QuoteForm
  <2> QED BY <1>7, <2>1, <2>2
<1>9. CASE ~(sqt(toks).err = "none" /\ sqt(dam).err = "none")
  BY <1>9 DEF Alike
<1> QED BY <1>8, <1>9

\* The trades.  An empty token from the thirteenth on ends the fields.
LEMMA TradeFieldsDamaged ==
    ASSUME NEW toks, NEW dam, NEW i \in Nat, Damaged(toks, dam, i), Len(toks) >= 3,
           i >= 13 /\ i <= Len(toks) => toks[i] # Blank /\ dam[i] # Blank
    PROVE  Damaged(trade_fields(toks), trade_fields(dam), i - 3)
<1>0. PICK n \in Nat : n = Len(toks) - 3
  BY FrameLength DEF Damaged
<1>1. PICK f, g : f = after(toks, 3) /\ g = after(dam, 3)
  OBVIOUS
<1>2. toks \in Seq(STRING) /\ dam \in Seq(STRING) /\ Len(toks) = n + 3 /\ Len(dam) = n + 3
      /\ \A j \in 1 .. n + 3 : j # i => dam[j] = toks[j]
  BY <1>0, FrameLength DEF Damaged, Frames
<1>3. /\ f \in Seq(STRING) /\ Len(f) = n /\ \A j \in 1 .. n : f[j] = toks[j + 3]
      /\ g \in Seq(STRING) /\ Len(g) = n /\ \A j \in 1 .. n : g[j] = dam[j + 3]
  <2>1. f = SubSeq(toks, 4, n + 3) /\ g = SubSeq(dam, 4, n + 3)
    BY <1>1, <1>2 DEF after
  <2> QED BY <1>2, <2>1
<1>4. \A j \in 1 .. n : j # i - 3 => g[j] = f[j]
  BY <1>2, <1>3
<1>5. \A j \in 10 .. n : g[j] = Blank <=> f[j] = Blank
  <2> SUFFICES ASSUME NEW j \in 10 .. n PROVE g[j] = Blank <=> f[j] = Blank
    OBVIOUS
  <2>1. CASE j # i - 3
    BY <1>4, <2>1
  <2>2. CASE j = i - 3
    <3>1. j + 3 = i /\ i >= 13 /\ i <= Len(toks) /\ j \in 1 .. n
      BY <1>2, <2>2
    <3>2. toks[i] # Blank /\ dam[i] # Blank
      BY <3>1
    <3>3. f[j] = toks[i] /\ g[j] = dam[i]
      BY <1>3, <3>1
    <3> QED BY <3>2, <3>3
  <2> QED BY <2>1, <2>2
<1>6. PICK m : m = Min({j \in 10 .. n : f[j] = Blank} \cup {n + 1}) - 1
  OBVIOUS
<1>7. {j \in 10 .. n : g[j] = Blank} = {j \in 10 .. n : f[j] = Blank}
  BY <1>5
<1>8. trade_fields(toks) = SubSeq(f, 1, m) /\ trade_fields(dam) = SubSeq(g, 1, m)
  <2>1. ASSUME NEW t
        PROVE  trade_fields(t) =
                  SubSeq(after(t, 3), 1, Min({j \in 10 .. Len(after(t, 3)) : after(t, 3)[j] = Blank}
                                             \cup {Len(after(t, 3)) + 1}) - 1)
    BY Zenon DEF trade_fields, Blank
  <2>2. trade_fields(toks) = SubSeq(f, 1, m)
    BY <1>1, <1>3, <1>6, <2>1
  <2>3. trade_fields(dam) = SubSeq(g, 1, m)
    BY <1>1, <1>3, <1>6, <1>7, <2>1
  <2> QED BY <2>2, <2>3
<1>9. m \in 0 .. n
  <2>1. PICK ends : ends = {j \in 10 .. n : f[j] = Blank} \cup {n + 1}
    OBVIOUS
  <2>2. ends \in SUBSET Nat /\ ends # {} /\ ends \subseteq 1 .. n + 1
    BY <2>1
  <2>3. \E x \in ends : \A y \in ends : x <= y
    BY <2>2, Least
  <2>4. Min(ends) \in ends
    BY <2>3 DEF Min
  <2>5. PICK e \in 1 .. n + 1 : e = Min(ends)
    BY <2>2, <2>4
  <2>6. m = e - 1
    BY <1>6, <2>1, <2>5
  <2> QED BY <2>6
<1>10. PICK a, b : a = SubSeq(f, 1, m) /\ b = SubSeq(g, 1, m)
  OBVIOUS
<1>11. /\ a \in Seq(STRING) /\ Len(a) = m /\ \A j \in 1 .. m : a[j] = f[j]
       /\ b \in Seq(STRING) /\ Len(b) = m /\ \A j \in 1 .. m : b[j] = g[j]
  BY <1>3, <1>9, <1>10
<1>12. Damaged(a, b, i - 3)
  BY <1>4, <1>9, <1>11 DEF Damaged, Frames
<1> QED BY <1>8, <1>10, <1>12

\* The ten fields of a snapshot's trade without the request id.
LEMMA Spliced ==
    ASSUME NEW f, NEW g, NEW i \in Int, Damaged(f, g, i), Len(f) = 10
    PROVE  \E k \in Int : /\ Damaged(SubSeq(f, 1, 6) \o SubSeq(f, 8, 10),
                                     SubSeq(g, 1, 6) \o SubSeq(g, 8, 10), k)
                          /\ (i = 7 => k = 0) /\ (i < 1 => k < 1)
<1>1. /\ f \in Seq(STRING) /\ g \in Seq(STRING) /\ Len(f) = 10 /\ Len(g) = 10
      /\ \A j \in 1 .. 10 : j # i => g[j] = f[j]
  BY DEF Damaged, Frames
<1>2. ASSUME NEW t \in Seq(STRING), Len(t) = 10
      PROVE  /\ SubSeq(t, 1, 6) \o SubSeq(t, 8, 10) \in Seq(STRING)
             /\ Len(SubSeq(t, 1, 6) \o SubSeq(t, 8, 10)) = 9
             /\ \A j \in 1 .. 9 : (SubSeq(t, 1, 6) \o SubSeq(t, 8, 10))[j] = IF j <= 6 THEN t[j] ELSE t[j + 1]
  <2>1. PICK a, b : a = SubSeq(t, 1, 6) /\ b = SubSeq(t, 8, 10)
    OBVIOUS
  <2>2. a \in Seq(STRING) /\ Len(a) = 6 /\ \A j \in 1 .. 6 : a[j] = t[j]
    BY <1>2, <2>1
  <2>3. b \in Seq(STRING) /\ Len(b) = 3 /\ \A j \in 1 .. 3 : b[j] = t[j + 7]
    <3>1. PICK u, v : u = 8 /\ v = 10
      OBVIOUS
    <3>2. u \in 1 .. Len(t) + 1 /\ v \in u - 1 .. Len(t) /\ b = SubSeq(t, u, v)
      BY <1>2, <2>1, <3>1
    <3>21. u \in Int /\ v \in Int /\ u <= v
      BY <3>1
    <3>22. PICK S : S = STRING
      OBVIOUS
    <3>23. t \in Seq(S) /\ \A j \in u .. v : t[j] \in S
      <4>1. t \in Seq(S) /\ DOMAIN t = 1 .. 10
        BY <1>2, <3>22
      <4>2. \A j \in 1 .. 10 : t[j] \in S
        BY <4>1, ElementOfSeq, <1>2
      <4>3. \A j \in u .. v : j \in 1 .. 10
        BY <3>1
      <4> QED BY <4>1, <4>2, <4>3
    <3>24. /\ SubSeq(t, u, v) \in Seq(S)
           /\ Len(SubSeq(t, u, v)) = IF u <= v THEN v - u + 1 ELSE 0
           /\ \A j \in 1 .. v - u + 1 : SubSeq(t, u, v)[j] = t[u + j - 1]
      BY <3>21, <3>23, SubSeqProperties
    <3>3. /\ b \in Seq(STRING) /\ Len(b) = v - u + 1
          /\ \A j \in 1 .. v - u + 1 : b[j] = t[u + j - 1]
      BY <3>2, <3>21, <3>22, <3>24
    <3>4. v - u + 1 = 3 /\ \A j \in 1 .. 3 : u + j - 1 = j + 7
      BY <3>1
    <3> QED BY <3>3, <3>4
  <2>4. PICK c : c = a \o b
    OBVIOUS
  <2>5. /\ c \in Seq(STRING) /\ Len(c) = Len(a) + Len(b)
        /\ \A j \in 1 .. Len(a) + Len(b) : c[j] = IF j <= Len(a) THEN a[j] ELSE b[j - Len(a)]
    BY <2>2, <2>3, <2>4, ConcatProperties
  <2>6. Len(c) = 9 /\ \A j \in 1 .. 9 : c[j] = IF j <= 6 THEN a[j] ELSE b[j - 6]
    <3>1. Len(a) = 6 /\ Len(b) = 3 /\ Len(a) + Len(b) = 9
      BY <2>2, <2>3
    <3> QED BY <2>5, <3>1
  <2>7. ASSUME NEW j \in 1 .. 9 PROVE c[j] = IF j <= 6 THEN t[j] ELSE t[j + 1]
    <3>1. CASE j <= 6
      <4>1. c[j] = a[j]
        BY <2>6, <3>1
      <4>2. j \in 1 .. 6
        BY <3>1
      <4>3. a[j] = t[j]
        BY <2>2, <4>2
      <4> QED BY <3>1, <4>1, <4>3
    <3>2. CASE ~(j <= 6)
      <4>1. PICK l \in 1 .. 3 : l = j - 6
        BY <3>2
      <4>2. c[j] = b[l]
        BY <2>6, <3>2, <4>1
      <4>3. b[l] = t[l + 7] /\ l + 7 = j + 1
        BY <2>3, <4>1
      <4> QED BY <3>2, <4>2, <4>3
    <3> QED BY <3>1, <3>2
  <2> QED BY <2>1, <2>4, <2>5, <2>6, <2>7
<1>3. PICK a, b : a = SubSeq(f, 1, 6) \o SubSeq(f, 8, 10) /\ b = SubSeq(g, 1, 6) \o SubSeq(g, 8, 10)
  OBVIOUS
<1>4. /\ a \in Seq(STRING) /\ Len(a) = 9 /\ \A j \in 1 .. 9 : a[j] = IF j <= 6 THEN f[j] ELSE f[j + 1]
      /\ b \in Seq(STRING) /\ Len(b) = 9 /\ \A j \in 1 .. 9 : b[j] = IF j <= 6 THEN g[j] ELSE g[j + 1]
  BY <1>1, <1>2, <1>3
<1>5. PICK k \in Int : k = IF i <= 6 THEN i ELSE IF i = 7 THEN 0 ELSE i - 1
  OBVIOUS
<1>6. ASSUME NEW j \in 1 .. 9, j # k PROVE b[j] = a[j]
  <2>1. CASE j <= 6
    BY <1>1, <1>4, <1>5, <1>6, <2>1
  <2>2. CASE ~(j <= 6)
    <3>1. PICK l \in 1 .. 10 : l = j + 1
      OBVIOUS
    <3>2. l # i
      BY <1>5, <1>6, <2>2, <3>1
    <3> QED BY <1>1, <1>4, <2>2, <3>1, <3>2
  <2> QED BY <2>1, <2>2
<1>7. Damaged(a, b, k) /\ (i = 7 => k = 0) /\ (i < 1 => k < 1)
  BY <1>4, <1>5, <1>6 DEF Damaged, Frames
<1> QED BY <1>3, <1>7

LEMMA TradeAddAlike ==
    ASSUME NEW toks, NEW dam, NEW i \in Nat, Damaged(toks, dam, i), Len(toks) >= 3, i >= 2, i # 3,
           i >= 13 /\ i <= Len(toks) => toks[i] # Blank /\ dam[i] # Blank
    PROVE  Alike(parse_trade_add(toks), parse_trade_add(dam))
<1> DEFINE more(t, request) == [operation_code |-> t[3], ticker |-> t[2], request_id |-> request]
           trade(t, fields, request) == message("TradeAdd", read(fields, TradeLayout), more(t, request))
<1>1. PICK f, g : f = trade_fields(toks) /\ g = trade_fields(dam)
  OBVIOUS
<1>2. Damaged(f, g, i - 3)
  BY <1>1, TradeFieldsDamaged
<1>3. Len(g) = Len(f) /\ f \in Frames /\ g \in Frames
  BY <1>2 DEF Damaged
<1>4. PICK ff, gg : ff = SubSeq(f, 1, 6) \o SubSeq(f, 8, 10) /\ gg = SubSeq(g, 1, 6) \o SubSeq(g, 8, 10)
  OBVIOUS
<1>5. /\ parse_trade_add(toks) = CASE Len(f) = 9  -> trade(toks, f, <<>>)
                                   [] Len(f) = 10 -> trade(toks, ff, Some(f[7]))
                                   [] OTHER       -> Err("InvalidField")
      /\ parse_trade_add(dam) = CASE Len(g) = 9  -> trade(dam, g, <<>>)
                                  [] Len(g) = 10 -> trade(dam, gg, Some(g[7]))
                                  [] OTHER       -> Err("InvalidField")
  BY <1>1, <1>4 DEF parse_trade_add
<1>6. TradeLayout \in Layouts
  BY TradeFieldsLayout
<1>7. dam[3] = toks[3] /\ (i # 2 => dam[2] = toks[2])
  BY FrameLength DEF Damaged
<1>8. ASSUME NEW x, NEW y
      PROVE  /\ DOMAIN more(dam, y) = DOMAIN more(toks, x)
             /\ i # 2 \/ y = x => Near(more(toks, x), more(dam, y), DOMAIN more(toks, x))
             /\ i # 2 /\ y = x => more(dam, y) = more(toks, x)
  <2>1. DOMAIN more(dam, y) = DOMAIN more(toks, x)
    OBVIOUS
  <2>2. i # 2 /\ y = x => more(dam, y) = more(toks, x)
    BY <1>7
  <2>3. CASE i # 2
    <3>1. \A n \in DOMAIN more(toks, x) : n # "request_id" => more(dam, y)[n] = more(toks, x)[n]
      BY <1>7, <2>3
    <3> QED BY <2>1, <2>2, <3>1 DEF Near
  <2>4. CASE y = x
    <3>1. \A n \in DOMAIN more(toks, x) : n # "ticker" => more(dam, y)[n] = more(toks, x)[n]
      BY <1>7, <2>4
    <3> QED BY <2>1, <2>2, <3>1 DEF Near
  <2> QED BY <2>1, <2>2, <2>3, <2>4
<1> HIDE DEF more
<1>9. ASSUME NEW a, NEW b, NEW k \in Int, Damaged(a, b, k), NEW x, NEW y,
             i = 2 => y = x /\ k < 1,
             y = x \/ k < 1
      PROVE  Alike(trade(toks, a, x), trade(dam, b, y))
  <2>1. PICK u, v : u = more(toks, x) /\ v = more(dam, y)
    OBVIOUS
  <2>2. DOMAIN v = DOMAIN u /\ Near(u, v, DOMAIN u) /\ (i # 2 /\ y = x => v = u)
    BY <1>8, <1>9, <2>1
  <2>3. v = u \/ k < 1
    BY <1>9, <2>2
  <2>4. k < 1 => k \notin DOMAIN TradeLayout
    BY <1>6 DEF Layouts
  <2>5. Alike(message("TradeAdd", read(a, TradeLayout), u), message("TradeAdd", read(b, TradeLayout), v))
    BY <1>6, <1>9, <2>2, <2>3, <2>4, ReadMore
  <2> QED BY <2>1, <2>5
<1>10. CASE Len(f) = 9
  <2>1. PICK k \in Int : k = i - 3
    OBVIOUS
  <2>2. PICK e : e = <<>>
    OBVIOUS
  <2>3. Alike(trade(toks, f, e), trade(dam, g, e))
    BY <1>2, <1>9, <2>1
  <2>4. parse_trade_add(toks) = trade(toks, f, e) /\ parse_trade_add(dam) = trade(dam, g, e)
    <3> HIDE DEF trade
    <3> QED BY <1>3, <1>5, <1>10, <2>2
  <2> HIDE DEF trade
  <2> QED BY <2>3, <2>4
<1>11. CASE Len(f) = 10
  <2>1. PICK j \in Int : j = i - 3
    OBVIOUS
  <2>2. PICK k \in Int : Damaged(ff, gg, k) /\ (j = 7 => k = 0) /\ (j < 1 => k < 1)
    BY <1>2, <1>4, <1>11, <2>1, Spliced
  <2>3. PICK x, y : x = Some(f[7]) /\ y = Some(g[7])
    OBVIOUS
  <2>4. j # 7 => y = x
    BY <1>2, <1>11, <2>1, <2>3 DEF Damaged, Some
  <2>5. (i = 2 => y = x /\ k < 1) /\ (y = x \/ k < 1)
    BY <2>1, <2>2, <2>4
  <2>6. Alike(trade(toks, ff, x), trade(dam, gg, y))
    BY <1>9, <2>2, <2>5
  <2>7. parse_trade_add(toks) = trade(toks, ff, x) /\ parse_trade_add(dam) = trade(dam, gg, y)
    <3> HIDE DEF trade
    <3> QED BY <1>3, <1>5, <1>11, <2>3
  <2> HIDE DEF trade
  <2> QED BY <2>6, <2>7
<1>12. CASE Len(f) # 9 /\ Len(f) # 10
  <2>1. parse_trade_add(toks) = Err("InvalidField")
    <3> HIDE DEF trade
    <3> QED BY <1>5, <1>12
  <2> QED BY <2>1, RefusedAlike, Kinds
<1> QED BY <1>10, <1>11, <1>12

LEMMA TradeAlike ==
    ASSUME NEW toks, NEW dam, NEW i \in Nat, Damaged(toks, dam, i), i >= 2, i # 3,
           toks[3] = "A" /\ i >= 13 /\ i <= Len(toks) => toks[i] # Blank /\ dam[i] # Blank,
           toks[3] = "E" /\ i = 4 => toks[4] # Blank /\ dam[4] # Blank
    PROVE  Alike(gqt(toks), gqt(dam))
<1>1. PICK p, q : p = TickerOp \o << <<"trade_id", "bytes">> >> /\ q = TickerOp \o << <<"request_id", "bytes">> >>
  OBVIOUS
<1>2. TickerOp \in Layouts /\ p \in Layouts /\ q \in Layouts
  BY <1>1, TickerOpLayout, TradeIdLayout, RequestIdLayout, LayoutCat
<1>3. Len(dam) = Len(toks) /\ Len(toks) \in Nat
  BY FrameLength DEF Damaged
<1> DEFINE Finish(t) == IF Len(t) = 3 \/ t[4] = Blank
                        THEN message("TradeEndOfSubscribe", read(t, TickerOp), NoMore)
                        ELSE message("TradeEndOfSnapshot", read(t, q), NoMore)
<1>4. ASSUME NEW t
      PROVE  gqt(t) = IF Len(t) < 3 THEN Err("MissingField")
                      ELSE CASE t[3] = "A" -> parse_trade_add(t)
                             [] t[3] = "D" -> message("TradeDelete", read(t, p), NoMore)
                             [] t[3] = "R" -> message("TradeRemoveAll", read(t, TickerOp), NoMore)
                             [] t[3] = "E" -> Finish(t)
                             [] OTHER      -> Err("InvalidField")
  BY <1>1, Zenon DEF gqt, Blank
<1>5. Alike(Finish(toks), Finish(dam)) \/ toks[3] # "E" \/ Len(toks) < 3
  <2>1. SUFFICES ASSUME toks[3] = "E", Len(toks) >= 3 PROVE Alike(Finish(toks), Finish(dam))
    BY <1>3
  <2>2. Len(toks) = 3 \/ (toks[4] = Blank <=> dam[4] = Blank)
    <3>1. CASE Len(toks) = 3
      BY <3>1
    <3>2. CASE i = 4
      BY <2>1, <3>2
    <3>3. CASE Len(toks) # 3 /\ i # 4
      <4>1. 4 \in 1 .. Len(toks) /\ 4 # i
        BY <1>3, <2>1, <3>3
      <4>2. dam[4] = toks[4]
        BY <4>1 DEF Damaged
      <4> QED BY <4>2
    <3> QED BY <3>1, <3>2, <3>3
  <2>3. /\ Alike(message("TradeEndOfSubscribe", read(toks, TickerOp), NoMore),
                 message("TradeEndOfSubscribe", read(dam, TickerOp), NoMore))
        /\ Alike(message("TradeEndOfSnapshot", read(toks, q), NoMore),
                 message("TradeEndOfSnapshot", read(dam, q), NoMore))
    BY <1>2, ReadMessage
  <2>4. CASE Len(toks) = 3 \/ toks[4] = Blank
    BY <1>3, <2>2, <2>3, <2>4
  <2>5. CASE ~(Len(toks) = 3 \/ toks[4] = Blank)
    BY <1>3, <2>2, <2>3, <2>5
  <2> QED BY <2>4, <2>5
<1> HIDE DEF Finish
<1>6. CASE Len(toks) < 3
  <2>1. gqt(toks) = Err("MissingField")
    BY <1>4, <1>6
  <2> QED BY <2>1, RefusedAlike, Kinds
<1>7. CASE ~(Len(toks) < 3)
  <2>1. Len(toks) >= 3 /\ ~(Len(dam) < 3)
    BY <1>3, <1>7
  <2>2. PICK op : op = toks[3]
    OBVIOUS
  <2>3. dam[3] = op
    BY <1>3, <2>1, <2>2 DEF Damaged
  <2>4. ASSUME NEW t, ~(Len(t) < 3), t[3] = op
        PROVE  gqt(t) = CASE op = "A" -> parse_trade_add(t)
                          [] op = "D" -> message("TradeDelete", read(t, p), NoMore)
                          [] op = "R" -> message("TradeRemoveAll", read(t, TickerOp), NoMore)
                          [] op = "E" -> Finish(t)
                          [] OTHER    -> Err("InvalidField")
    BY <1>4, <2>4
  <2>5. CASE op = "A"
    <3>1. Alike(parse_trade_add(toks), parse_trade_add(dam))
      BY <2>1, <2>2, <2>5, TradeAddAlike
    <3> QED BY <1>7, <2>1, <2>2, <2>3, <2>4, <2>5, <3>1
  <2>6. CASE op = "D"
    <3>1. Alike(message("TradeDelete", read(toks, p), NoMore), message("TradeDelete", read(dam, p), NoMore))
      BY <1>2, ReadMessage
    <3> QED BY <1>7, <2>1, <2>2, <2>3, <2>4, <2>6, <3>1
  <2>7. CASE op = "R"
    <3>1. Alike(message("TradeRemoveAll", read(toks, TickerOp), NoMore),
                message("TradeRemoveAll", read(dam, TickerOp), NoMore))
      BY <1>2, ReadMessage
    <3> QED BY <1>7, <2>1, <2>2, <2>3, <2>4, <2>7, <3>1
  <2>8. CASE op = "E"
    BY <1>5, <1>7, <2>1, <2>2, <2>3, <2>4, <2>8
  <2>9. CASE op \notin {"A", "D", "R", "E"}
    <3>1. gqt(toks) = Err("InvalidField")
      BY <1>7, <2>2, <2>4, <2>9
    <3> QED BY <3>1, RefusedAlike, Kinds
  <2> QED BY <2>5, <2>6, <2>7, <2>8, <2>9
<1> QED BY <1>6, <1>7

\* The places whose token decides what the frame is, not what a field of it
\* holds: the operation of a book, a trade, a news item; the kind of a
\* deletion; the token that, by being empty or one of the protocol's words,
\* ends a list or a trade.  The server's time is one token of two fields.
Steers(toks, i) ==
    \/ toks[1] \in {"B", "Z", "V"} /\ i = 3
    \/ toks[1] \in {"B", "Z"} /\ toks[3] = "D" /\ i = 4
    \/ toks[1] = "V" /\ toks[3] = "E" /\ i = 4 /\ toks[i] = Blank
    \/ toks[1] = "V" /\ toks[3] = "A" /\ i >= 13 /\ toks[i] = Blank
    \/ toks[1] = "O" /\ i = 2
    \/ toks[1] = "O" /\ toks[2] = "L" /\ i = 4 /\ toks[i] = "END"
    \/ toks[1] \in {"VAP", "C"} /\ i = 3 /\ toks[i] = "E"
    \/ toks[1] = "GTC"

LEMMA FrameAlike ==
    ASSUME NEW toks, NEW dam, NEW i \in Nat, Damaged(toks, dam, i), i >= 2, Len(toks) >= 2,
           ~Steers(toks, i), ~Steers(dam, i)
    PROVE  Alike(parse_frame(toks), parse_frame(dam))
<1>1. Len(dam) = Len(toks) /\ Len(toks) \in Nat /\ Len(toks) >= 2
  BY FrameLength DEF Damaged
<1>2. PICK h : h = toks[1]
  OBVIOUS
<1>3. dam[1] = h
  BY <1>1, <1>2 DEF Damaged
<1>4. ASSUME NEW t, t = <<"">> PROVE Len(t) = 1
  BY <1>4
<1>5. ASSUME NEW t, Len(t) = Len(toks), t[1] = h
      PROVE  parse_frame(t) = CASE h = "T"   -> sqt(t)
                                [] h = "B"   -> bqt(t)
                                [] h = "Z"   -> sab(t)
                                [] h = "V"   -> gqt(t)
                                [] h = "O"   -> nem(t)
                                [] h = "VAP" -> vap(t)
                                [] h = "GTC" -> gtc(t)
                                [] h = "C"   -> mqc(t)
                                [] h = "G"   -> gpn(t)
                                [] h = "E"   -> error(t)
                                [] OTHER     -> Err("UnknownHeader")
  <2>1. Len(t) # 1 /\ ~(Len(t) < 2)
    BY <1>1, <1>5
  <2>2. t # <<"">>
    BY <1>4, <2>1, Zenon
  <2> QED BY <1>5, <2>1, <2>2, Zenon DEF parse_frame
<1>6. /\ parse_frame(toks) = CASE h = "T"   -> sqt(toks)
                                [] h = "B"   -> bqt(toks)
                                [] h = "Z"   -> sab(toks)
                                [] h = "V"   -> gqt(toks)
                                [] h = "O"   -> nem(toks)
                                [] h = "VAP" -> vap(toks)
                                [] h = "GTC" -> gtc(toks)
                                [] h = "C"   -> mqc(toks)
                                [] h = "G"   -> gpn(toks)
                                [] h = "E"   -> error(toks)
                                [] OTHER     -> Err("UnknownHeader")
      /\ parse_frame(dam) = CASE h = "T"   -> sqt(dam)
                                [] h = "B"   -> bqt(dam)
                                [] h = "Z"   -> sab(dam)
                                [] h = "V"   -> gqt(dam)
                                [] h = "O"   -> nem(dam)
                                [] h = "VAP" -> vap(dam)
                                [] h = "GTC" -> gtc(dam)
                                [] h = "C"   -> mqc(dam)
                                [] h = "G"   -> gpn(dam)
                                [] h = "E"   -> error(dam)
                                [] OTHER     -> Err("UnknownHeader")
  BY <1>1, <1>2, <1>3, <1>5
<1>7. ASSUME NEW j \in 1 .. Len(toks), j # i PROVE dam[j] = toks[j]
  BY <1>7 DEF Damaged
<1>8. CASE h = "T"
  <2>1. Alike(sqt(toks), sqt(dam))
    BY QuoteAlike
  <2> QED BY <1>6, <1>8, <2>1
<1>9. CASE h = "B"
  <2>1. i # 3 /\ (i = 4 => toks[3] # "D")
    BY <1>2, <1>9 DEF Steers
  <2>2. Alike(bqt(toks), bqt(dam))
    BY <2>1, BookAlike
  <2> QED BY <1>6, <1>9, <2>2
<1>10. CASE h = "Z"
  <2>1. i # 3 /\ (i = 4 => toks[3] # "D")
    BY <1>2, <1>10 DEF Steers
  <2>2. Alike(sab(toks), sab(dam))
    BY <2>1, AggBookAlike
  <2> QED BY <1>6, <1>10, <2>2
<1>11. CASE h = "V"
  <2>1. /\ i # 3
        /\ toks[3] = "A" /\ i >= 13 => toks[i] # Blank
        /\ dam[3] = "A" /\ i >= 13 => dam[i] # Blank
        /\ toks[3] = "E" /\ i = 4 => toks[i] # Blank
        /\ dam[3] = "E" /\ i = 4 => dam[i] # Blank
    BY <1>2, <1>3, <1>11 DEF Steers
  <2>2. CASE Len(toks) >= 3
    <3>1. dam[3] = toks[3]
      BY <1>1, <1>7, <2>1, <2>2
    <3>2. /\ toks[3] = "A" /\ i >= 13 /\ i <= Len(toks) => toks[i] # Blank /\ dam[i] # Blank
          /\ toks[3] = "E" /\ i = 4 => toks[4] # Blank /\ dam[4] # Blank
      BY <2>1, <3>1
    <3>3. Alike(gqt(toks), gqt(dam))
      BY <2>1, <3>2, TradeAlike
    <3> QED BY <1>6, <1>11, <3>3
  <2>3. CASE ~(Len(toks) >= 3)
    <3>1. gqt(toks) = Err("MissingField")
      <4>1. Len(toks) < 3
        BY <1>1, <2>3
      <4> QED BY <4>1, Zenon DEF gqt
    <3>2. parse_frame(toks) = Err("MissingField")
      BY <1>6, <1>11, <3>1
    <3> QED BY <3>2, RefusedAlike, Kinds
  <2> QED BY <2>2, <2>3
<1>12. CASE h = "O"
  <2>1. i # 2 /\ (toks[2] = "L" /\ i = 4 => toks[i] # "END") /\ (dam[2] = "L" /\ i = 4 => dam[i] # "END")
    BY <1>2, <1>3, <1>12 DEF Steers
  <2>2. dam[2] = toks[2]
    BY <1>1, <1>7, <2>1
  <2>3. i = 4 /\ toks[2] = "L" => toks[4] # "END" /\ dam[4] # "END"
    BY <2>1, <2>2
  <2>4. Alike(nem(toks), nem(dam))
    BY <2>1, <2>3, NewsAlike
  <2> QED BY <1>6, <1>12, <2>4
<1>13. CASE h = "VAP"
  <2>1. i = 3 => toks[3] # "E" /\ dam[3] # "E"
    BY <1>2, <1>3, <1>13 DEF Steers
  <2>2. Alike(vap(toks), vap(dam))
    BY <2>1, VapAlike
  <2> QED BY <1>6, <1>13, <2>2
<1>14. CASE h = "GTC"
  BY <1>2, <1>14 DEF Steers
<1>15. CASE h = "C"
  <2>1. i = 3 => toks[3] # "E" /\ dam[3] # "E"
    BY <1>2, <1>3, <1>15 DEF Steers
  <2>2. Alike(mqc(toks), mqc(dam))
    BY <2>1, CatalogAlike
  <2> QED BY <1>6, <1>15, <2>2
<1>16. CASE h = "G"
  <2>1. Alike(gpn(toks), gpn(dam))
    BY BrokerAlike
  <2> QED BY <1>6, <1>16, <2>1
<1>17. CASE h = "E"
  <2>1. Alike(error(toks), error(dam))
    BY ErrorAlike
  <2> QED BY <1>6, <1>17, <2>1
<1>18. CASE h \notin {"T", "B", "Z", "V", "O", "VAP", "GTC", "C", "G", "E"}
  <2>1. parse_frame(toks) = Err("UnknownHeader")
    BY <1>6, <1>18
  <2> QED BY <2>1, RefusedAlike, Kinds
<1> QED BY <1>8, <1>9, <1>10, <1>11, <1>12, <1>13, <1>14, <1>15, <1>16, <1>17, <1>18

-----------------------------------------------------------------------------
(***************************************************************************)
(* The inductive invariant.  The mutex is held exactly while a thread is   *)
(* in write_line, and what the server got since the last line break is     *)
(* what the thread at the line break wrote.  What the orchestrator has     *)
(* left is the rest of the bootstrap behind calls that the server heard.   *)
(***************************************************************************)
OnlyWrites(s) == \A i \in 1 .. Len(s) : s[i].do = "write"

Behind(s, heard) ==
    s # << >> =>
        \E p \in 0 .. Len(run) :
            /\ Len(s) = Len(run) - p
            /\ \A i \in 1 .. Len(s) : s[i] = run[p + i]
            /\ \A i \in 1 .. p : \A w : run[i] = Write(w) => << w >> \in heard

Types == /\ lock \in Threads \cup {NoThread}
         /\ pc \in [Threads -> {"idle", "payload", "newline"}]
         /\ calls \in [Threads -> Seq(AllOps)]

Mutex == \A t \in Threads : pc[t] # "idle" <=> lock = t

Busy == \A t \in Threads : pc[t] # "idle" => calls[t] # << >> /\ Head(calls[t]).do = "write"

OneLine ==
    socket => /\ \A t \in Threads : pc[t] = "newline" => partial = << Head(calls[t]).what >>
              /\ (\A t \in Threads : pc[t] # "newline") => partial = << >>

Entered == registry \subseteq SubscriptionKind \X Universe

SInv == /\ Types /\ Mutex /\ Busy /\ OneLine /\ Entered
        /\ \A t \in Others : OnlyWrites(calls[t])
        /\ Behind(calls[Orchestrator], received)
        /\ CommandsWhole
        /\ RegistryBehindWire

\* What is left behind the first call.
LEMMA Returned ==
    ASSUME NEW s \in Seq(AllOps), s # << >>
    PROVE  /\ Head(s) \in AllOps /\ Head(s) = s[1]
           /\ Tail(s) \in Seq(AllOps) /\ Len(Tail(s)) = Len(s) - 1 /\ Len(s) \in Nat \ {0}
           /\ \A i \in 1 .. Len(s) - 1 : Tail(s)[i] = s[i + 1]
<1>1. Len(s) \in Nat \ {0}
  OBVIOUS
<1> QED BY <1>1, HeadTailProperties

LEMMA TailWrites ==
    ASSUME NEW s \in Seq(AllOps), s # << >>, OnlyWrites(s)
    PROVE  OnlyWrites(Tail(s))
<1> DEFINE u == Tail(s)
<1>1. Len(u) = Len(s) - 1 /\ Len(s) \in Nat \ {0} /\ \A i \in 1 .. Len(s) - 1 : u[i] = s[i + 1]
  BY Returned
<1> HIDE DEF u
<1>2. ASSUME NEW i \in 1 .. Len(u) PROVE u[i].do = "write"
  <2>1. i + 1 \in 1 .. Len(s) /\ u[i] = s[i + 1]
    BY <1>1
  <2> QED BY <2>1 DEF OnlyWrites
<1> QED BY <1>2 DEF OnlyWrites, u

LEMMA TailBehind ==
    ASSUME NEW s \in Seq(AllOps), s # << >>, NEW heard, NEW now, heard \subseteq now,
           Behind(s, heard), \A w : Head(s) = Write(w) => << w >> \in now
    PROVE  Behind(Tail(s), now)
<1> DEFINE u == Tail(s)
<1>1. /\ Len(u) = Len(s) - 1 /\ Len(s) \in Nat \ {0} /\ \A i \in 1 .. Len(s) - 1 : u[i] = s[i + 1]
      /\ Head(s) = s[1]
  BY Returned
<1>2. PICK p \in 0 .. Len(run) :
          /\ Len(s) = Len(run) - p
          /\ \A i \in 1 .. Len(s) : s[i] = run[p + i]
          /\ \A i \in 1 .. p : \A w : run[i] = Write(w) => << w >> \in heard
  BY DEF Behind
<1>3. Len(run) \in Nat
  BY RunSound
<1> HIDE DEF u
<1>4. PICK q \in 0 .. Len(run) : q = p + 1 /\ Len(u) = Len(run) - q
  BY <1>1, <1>2, <1>3
<1>5. ASSUME NEW i \in 1 .. Len(u) PROVE u[i] = run[q + i]
  <2>1. PICK j \in 1 .. Len(s) : j = i + 1 /\ p + j = q + i /\ i \in 1 .. Len(s) - 1
    BY <1>1, <1>3, <1>4
  <2>2. s[j] = run[p + j]
    BY <1>2
  <2>3. u[i] = s[j]
    BY <1>1, <2>1
  <2> QED BY <2>1, <2>2, <2>3
<1>6. ASSUME NEW i \in 1 .. q, NEW w, run[i] = Write(w) PROVE << w >> \in now
  <2>1. CASE i \in 1 .. p
    BY <1>2, <1>6, <2>1
  <2>2. CASE i = p + 1
    <3>1. 1 \in 1 .. Len(s)
      BY <1>1
    <3>2. s[1] = run[p + 1]
      BY <1>2, <3>1
    <3> QED BY <1>1, <1>6, <2>2, <3>2
  <2> QED BY <1>3, <1>4, <2>1, <2>2
<1>7. Behind(u, now)
  BY <1>4, <1>5, <1>6 DEF Behind
<1> QED BY <1>7 DEF u

\* An entry that comes next has had its command heard.
LEMMA EntryHeard ==
    ASSUME NEW s \in Seq(AllOps), s # << >>, NEW heard, Behind(s, heard),
           NEW k, NEW t, Head(s) = Enter(k, t)
    PROVE  << command(k, t) >> \in heard
<1>1. PICK p \in 0 .. Len(run) :
          /\ Len(s) = Len(run) - p
          /\ \A i \in 1 .. Len(s) : s[i] = run[p + i]
          /\ \A i \in 1 .. p : \A w : run[i] = Write(w) => << w >> \in heard
  BY DEF Behind
<1>2. Len(run) \in Nat
  BY RunSound
<1>3. Head(s) = s[1] /\ Len(s) \in Nat \ {0}
  BY Returned
<1>4. 1 \in 1 .. Len(s) /\ p + 1 \in 1 .. Len(run)
  BY <1>1, <1>2, <1>3
<1>5. PICK m \in 1 .. Len(run) : m = p + 1
  BY <1>4
<1>6. run[m] = Enter(k, t)
  BY <1>1, <1>3, <1>4, <1>5
<1>7. PICK j \in 1 .. m - 1 : run[j] = Write(command(k, t))
  BY <1>6, RunSound DEF Sound
<1>8. j \in 1 .. p
  BY <1>2, <1>5, <1>7
<1> QED BY <1>1, <1>7, <1>8

LEMMA InitSInv == Init => SInv
<1> SUFFICES ASSUME Init PROVE SInv
  OBVIOUS
<1>1. PICK other \in [Others -> OtherCommands] :
          calls = [t \in Threads |-> IF t = Orchestrator THEN run ELSE << Write(other[t]) >>]
  BY DEF Init
<1>2. run \in Seq(AllOps)
  BY RunSound DEF AllOps
<1>3. ASSUME NEW t \in Others
      PROVE  /\ << Write(other[t]) >> \in Seq(AllOps) /\ OnlyWrites(<< Write(other[t]) >>)
             /\ calls[t] = << Write(other[t]) >>
  <2>1. PICK o \in AllOps : o = Write(other[t]) /\ o.do = "write"
    BY OpForms DEF AllOps
  <2>2. << o >> \in Seq(AllOps) /\ OnlyWrites(<< o >>)
    BY <2>1 DEF OnlyWrites
  <2>3. calls[t] = << Write(other[t]) >>
    BY <1>1, SessionAssumption DEF Threads
  <2> QED BY <2>1, <2>2, <2>3
<1>4. calls \in [Threads -> Seq(AllOps)] /\ calls[Orchestrator] = run
  BY <1>1, <1>2, <1>3 DEF Threads
<1>5. Behind(run, {})
  <2>1. PICK p \in 0 .. Len(run) : p = 0 /\ Len(run) = Len(run) - p /\ 1 .. p = {}
    BY RunSound
  <2>2. \A i \in 1 .. Len(run) : p + i = i
    BY <2>1, RunSound
  <2>3. \A i \in 1 .. Len(run) : run[i] = run[p + i]
    BY <2>2
  <2> QED BY <2>1, <2>3 DEF Behind
<1>6. \A t \in Threads : pc[t] = "idle" /\ lock # t
  BY SessionAssumption DEF Init, Threads
<1>7. Types /\ Mutex /\ Busy /\ OneLine /\ Entered
  BY <1>4, <1>6 DEF Init, Types, Mutex, Busy, OneLine, Entered
<1>8. CommandsWhole /\ RegistryBehindWire
  BY DEF Init, CommandsWhole, RegistryBehindWire
<1> QED BY <1>3, <1>4, <1>5, <1>7, <1>8 DEF SInv, Init

\* Steps that leave the sink, the calls and the registry alone, and may close the
\* socket.
LEMMA Aside ==
    ASSUME SInv, UNCHANGED << lock, pc, calls, partial, received, registry >>, socket' => socket
    PROVE  SInv'
<1>1. Types' /\ Mutex' /\ Busy' /\ OneLine' /\ Entered'
  BY DEF SInv, Types, Mutex, Busy, OneLine, Entered
<1>2. CommandsWhole' /\ RegistryBehindWire'
  BY DEF SInv, CommandsWhole, RegistryBehindWire
<1>3. (\A t \in Others : OnlyWrites(calls[t]))' /\ Behind(calls[Orchestrator], received)'
  BY DEF SInv
<1> QED BY <1>1, <1>2, <1>3 DEF SInv

LEMMA StepLock ==
    ASSUME SInv, NEW t \in Threads, write_line_lock(t)
    PROVE  SInv'
<1>1. /\ pc' = [pc EXCEPT ![t] = "payload"] /\ lock' = t /\ lock = NoThread /\ pc[t] = "idle"
      /\ calls[t] # << >> /\ Head(calls[t]).do = "write"
      /\ calls' = calls /\ socket' = socket /\ partial' = partial /\ received' = received /\ registry' = registry
  BY DEF write_line_lock, Calling, Goto
<1>2. Types /\ Mutex /\ Busy /\ OneLine
  BY DEF SInv
<1>3. /\ pc'[t] = "payload" /\ pc' \in [Threads -> {"idle", "payload", "newline"}]
      /\ \A u \in Threads \ {t} : pc'[u] = pc[u]
      /\ \A u \in Threads : pc[u] = "idle"
  BY <1>1, <1>2, SessionAssumption DEF Types, Mutex, Threads
<1>4. Types'
  BY <1>1, <1>2, <1>3 DEF Types
<1>5. Mutex' /\ Busy' /\ OneLine'
  BY <1>1, <1>2, <1>3 DEF Mutex, Busy, OneLine
<1>6. Entered' /\ CommandsWhole' /\ RegistryBehindWire'
  BY <1>1 DEF SInv, Entered, CommandsWhole, RegistryBehindWire
<1>7. (\A u \in Others : OnlyWrites(calls[u]))' /\ Behind(calls[Orchestrator], received)'
  BY <1>1 DEF SInv
<1> QED BY <1>4, <1>5, <1>6, <1>7 DEF SInv

LEMMA StepPayload ==
    ASSUME SInv, NEW t \in Threads, write_payload(t)
    PROVE  SInv'
<1>1. /\ pc' = [pc EXCEPT ![t] = "newline"] /\ pc[t] = "payload" /\ socket
      /\ partial' = Append(partial, Head(calls[t]).what)
      /\ lock' = lock /\ calls' = calls /\ socket' = socket /\ received' = received /\ registry' = registry
  BY DEF write_payload, Goto
<1>2. Types /\ Mutex /\ Busy /\ OneLine
  BY DEF SInv
<1>3. /\ pc'[t] = "newline" /\ pc' \in [Threads -> {"idle", "payload", "newline"}]
      /\ \A u \in Threads \ {t} : pc'[u] = pc[u]
  BY <1>1, <1>2 DEF Types
<1>4. lock = t /\ \A u \in Threads \ {t} : pc[u] = "idle"
  BY <1>1, <1>2 DEF Mutex
<1>5. partial = << >>
  BY <1>1, <1>2, <1>4 DEF OneLine
<1>6. partial' = << Head(calls[t]).what >>
  <2>1. PICK w : w = Head(calls[t]).what
    OBVIOUS
  <2>2. Append(<< >>, w) = << w >>
    OBVIOUS
  <2> QED BY <1>1, <1>5, <2>1, <2>2
<1>7. Types' /\ Mutex' /\ Busy'
  BY <1>1, <1>2, <1>3, <1>4 DEF Types, Mutex, Busy
<1>8. OneLine'
  BY <1>1, <1>3, <1>4, <1>6 DEF OneLine
<1>9. Entered' /\ CommandsWhole' /\ RegistryBehindWire'
  BY <1>1 DEF SInv, Entered, CommandsWhole, RegistryBehindWire
<1>10. (\A u \in Others : OnlyWrites(calls[u]))' /\ Behind(calls[Orchestrator], received)'
  BY <1>1 DEF SInv
<1> QED BY <1>7, <1>8, <1>9, <1>10 DEF SInv

\* A thread that leaves write_line frees the mutex; the others are outside.
LEMMA Leaves ==
    ASSUME SInv, NEW t \in Threads, pc[t] # "idle", lock' = NoThread, pc' = [pc EXCEPT ![t] = "idle"],
           NEW s \in Seq(AllOps), calls' = [calls EXCEPT ![t] = s]
    PROVE  /\ Types' /\ Mutex' /\ Busy'
           /\ \A u \in Threads : pc'[u] = "idle"
           /\ calls'[t] = s /\ \A u \in Threads \ {t} : calls'[u] = calls[u]
<1>1. Types /\ Mutex
  BY DEF SInv
<1>2. \A u \in Threads \ {t} : pc[u] = "idle"
  BY <1>1 DEF Mutex
<1>3. pc' \in [Threads -> {"idle", "payload", "newline"}] /\ \A u \in Threads : pc'[u] = "idle"
  BY <1>1, <1>2 DEF Types
<1>4. /\ calls' \in [Threads -> Seq(AllOps)] /\ calls'[t] = s
      /\ \A u \in Threads \ {t} : calls'[u] = calls[u]
  BY <1>1 DEF Types
<1>5. Types'
  BY <1>3, <1>4 DEF Types
<1>6. Mutex' /\ Busy'
  BY <1>3, SessionAssumption DEF Mutex, Busy, Threads
<1> QED BY <1>3, <1>4, <1>5, <1>6

LEMMA StepNewline ==
    ASSUME SInv, NEW t \in Threads, write_newline(t)
    PROVE  SInv'
<1> DEFINE w == Head(calls[t]).what
<1>1. /\ pc' = [pc EXCEPT ![t] = "idle"] /\ pc[t] = "newline" /\ socket
      /\ received' = received \cup {partial} /\ partial' = << >> /\ lock' = NoThread
      /\ calls' = [calls EXCEPT ![t] = Tail(calls[t])]
      /\ socket' = socket /\ registry' = registry
  BY DEF write_newline, Return, Goto
<1>2. Types /\ Busy /\ OneLine
  BY DEF SInv
<1>3. calls[t] \in Seq(AllOps) /\ calls[t] # << >> /\ Head(calls[t]).do = "write" /\ partial = << w >>
  BY <1>1, <1>2 DEF Types, Busy, OneLine
<1>4. Tail(calls[t]) \in Seq(AllOps) /\ Head(calls[t]) \in AllOps
  BY <1>3, Returned
<1>5. Head(calls[t]) = Write(w) /\ w # << "cut" >>
  BY <1>3, <1>4, OpTypes
<1>6. /\ Types' /\ Mutex' /\ Busy'
      /\ \A u \in Threads : pc'[u] = "idle"
      /\ calls'[t] = Tail(calls[t]) /\ \A u \in Threads \ {t} : calls'[u] = calls[u]
  <2>1. PICK s \in Seq(AllOps) : s = Tail(calls[t])
    BY <1>4
  <2> QED BY <1>1, <2>1, Leaves
<1>7. OneLine'
  BY <1>1, <1>6 DEF OneLine
<1>8. Entered' /\ RegistryBehindWire'
  BY <1>1 DEF SInv, Entered, RegistryBehindWire
<1>9. CommandsWhole'
  <2>1. Len(partial) = 1 /\ partial[1] # << "cut" >>
    <3>1. PICK v : v = w
      OBVIOUS
    <3>2. Len(<< v >>) = 1 /\ << v >>[1] = v
      OBVIOUS
    <3> QED BY <1>3, <1>5, <3>1, <3>2
  <2> QED BY <1>1, <2>1 DEF SInv, CommandsWhole
<1>10. ASSUME NEW u \in Others PROVE OnlyWrites(calls'[u])
  <2>1. CASE u = t
    <3>1. OnlyWrites(calls[t])
      BY <2>1 DEF SInv
    <3> QED BY <1>3, <1>6, <2>1, <3>1, TailWrites
  <2>2. CASE u # t
    BY <1>6, <2>2 DEF SInv, Threads
  <2> QED BY <2>1, <2>2
<1>11. Behind(calls'[Orchestrator], received')
  <2>1. Behind(calls[Orchestrator], received) /\ received \subseteq received'
    BY <1>1 DEF SInv
  <2>2. CASE t = Orchestrator
    <3>1. \A v : Head(calls[t]) = Write(v) => << v >> \in received'
      BY <1>1, <1>3, <1>5, OpForms
    <3>2. Behind(Tail(calls[t]), received')
      BY <1>3, <2>1, <2>2, <3>1, TailBehind
    <3> QED BY <1>6, <2>2, <3>2
  <2>3. CASE t # Orchestrator
    <3>1. calls'[Orchestrator] = calls[Orchestrator]
      BY <1>6, <2>3 DEF Threads
    <3>2. Behind(calls[Orchestrator], received')
      BY <2>1 DEF Behind
    <3> QED BY <3>1, <3>2
  <2> QED BY <2>2, <2>3
<1> QED BY <1>6, <1>7, <1>8, <1>9, <1>10, <1>11 DEF SInv

LEMMA StepFailed ==
    ASSUME SInv, NEW t \in Threads, write_failed(t)
    PROVE  SInv'
<1>1. /\ pc' = [pc EXCEPT ![t] = "idle"] /\ pc[t] # "idle" /\ ~socket' /\ lock' = NoThread
      /\ calls' = [calls EXCEPT ![t] = << >>]
      /\ received' = received /\ registry' = registry
  BY DEF write_failed, Return, Goto
<1>2. /\ Types' /\ Mutex' /\ Busy'
      /\ calls'[t] = << >> /\ \A u \in Threads \ {t} : calls'[u] = calls[u]
  <2>1. PICK s : s = << >>
    OBVIOUS
  <2>2. s \in Seq(AllOps)
    BY <2>1
  <2> QED BY <1>1, <2>1, <2>2, Leaves
<1>3. OneLine'
  BY <1>1 DEF OneLine
<1>4. Entered' /\ RegistryBehindWire' /\ CommandsWhole'
  BY <1>1 DEF SInv, Entered, RegistryBehindWire, CommandsWhole
<1>5. ASSUME NEW u \in Others PROVE OnlyWrites(calls'[u])
  <2>1. CASE u = t
    BY <1>2, <2>1 DEF OnlyWrites
  <2>2. CASE u # t
    BY <1>2, <2>2 DEF SInv, Threads
  <2> QED BY <2>1, <2>2
<1>6. Behind(calls'[Orchestrator], received')
  <2>1. CASE t = Orchestrator
    BY <1>2, <2>1 DEF Behind
  <2>2. CASE t # Orchestrator
    <3>1. calls'[Orchestrator] = calls[Orchestrator]
      BY <1>2, <2>2 DEF Threads
    <3> QED BY <1>1, <3>1 DEF SInv
  <2> QED BY <2>1, <2>2
<1> QED BY <1>2, <1>3, <1>4, <1>5, <1>6 DEF SInv

LEMMA StepAdd ==
    ASSUME SInv, NEW t \in Threads, add(t)
    PROVE  SInv'
<1>1. /\ pc' = [pc EXCEPT ![t] = "idle"] /\ pc[t] = "idle" /\ calls[t] # << >> /\ Head(calls[t]).do = "enter"
      /\ registry' = registry \cup {Head(calls[t]).what}
      /\ calls' = [calls EXCEPT ![t] = Tail(calls[t])]
      /\ lock' = lock /\ socket' = socket /\ partial' = partial /\ received' = received
  BY DEF add, Calling, Return, Goto
<1>2. Types /\ Mutex /\ Busy /\ OneLine
  BY DEF SInv
<1>3. calls[t] \in Seq(AllOps) /\ pc' = pc
  BY <1>1, <1>2 DEF Types
<1>4. Head(calls[t]) \in AllOps /\ Head(calls[t]) = calls[t][1] /\ Tail(calls[t]) \in Seq(AllOps)
      /\ Len(calls[t]) \in Nat \ {0}
  BY <1>1, <1>3, Returned
<1>5. t = Orchestrator
  <2> SUFFICES ASSUME t \in Others PROVE FALSE
    BY DEF Threads
  <2>1. OnlyWrites(calls[t]) /\ 1 \in 1 .. Len(calls[t])
    BY <1>4 DEF SInv
  <2>2. calls[t][1].do = "write"
    BY <2>1 DEF OnlyWrites
  <2> QED BY <1>1, <1>4, <2>2
<1>6. PICK k \in SubscriptionKind, u \in Universe : Head(calls[t]) = Enter(k, u)
  BY <1>1, <1>4, OpTypes
<1>7. << command(k, u) >> \in received
  BY <1>1, <1>3, <1>5, <1>6, EntryHeard DEF SInv
<1>8. /\ calls' \in [Threads -> Seq(AllOps)] /\ calls'[t] = Tail(calls[t])
      /\ \A v \in Threads \ {t} : calls'[v] = calls[v]
  BY <1>1, <1>2, <1>4 DEF Types
<1>9. Types' /\ Mutex'
  BY <1>1, <1>2, <1>3, <1>8 DEF Types, Mutex
<1>10. Busy' /\ OneLine'
  BY <1>1, <1>2, <1>3, <1>8 DEF Busy, OneLine
<1>11. PICK r : r = << k, u >>
  OBVIOUS
<1>r. r \in SubscriptionKind \X Universe /\ r[1] = k /\ r[2] = u
  BY <1>11
<1>12. registry' = registry \cup {r}
  BY <1>1, <1>6, <1>11, OpForms
<1>13. Entered'
  BY <1>12, <1>r DEF SInv, Entered
<1>14. RegistryBehindWire'
  BY <1>1, <1>7, <1>r, <1>12 DEF SInv, RegistryBehindWire
<1>15. CommandsWhole'
  BY <1>1 DEF SInv, CommandsWhole
<1>16. \A v \in Others : OnlyWrites(calls'[v])
  BY <1>5, <1>8, SessionAssumption DEF SInv, Threads
<1>17. Behind(calls'[Orchestrator], received')
  <2>1. \A w : Head(calls[t]) = Write(w) => << w >> \in received'
    BY <1>6, OpForms
  <2>2. Behind(calls[t], received) /\ received \subseteq received'
    BY <1>1, <1>5 DEF SInv
  <2>3. Behind(Tail(calls[t]), received')
    BY <1>1, <1>3, <2>1, <2>2, TailBehind
  <2> QED BY <1>5, <1>8, <2>3
<1> QED BY <1>9, <1>10, <1>13, <1>14, <1>15, <1>16, <1>17 DEF SInv

LEMMA NextSInv == SInv /\ [Next]_vars => SInv'
<1> SUFFICES ASSUME SInv, [Next]_vars PROVE SInv'
  OBVIOUS
<1>1. CASE \E t \in Threads : ThreadStep(t)
  BY <1>1, StepLock, StepPayload, StepNewline, StepFailed, StepAdd DEF ThreadStep
<1>2. CASE server_line \/ client_parse \/ server_close
  <2>1. UNCHANGED << lock, pc, calls, partial, received, registry >> /\ (socket' => socket)
    BY <1>2 DEF server_line, client_parse, server_close
  <2> QED BY <2>1, Aside
<1>3. CASE UNCHANGED vars
  <2>1. UNCHANGED << lock, pc, calls, partial, received, registry >> /\ (socket' => socket)
    BY <1>3 DEF vars
  <2> QED BY <2>1, Aside
<1> QED BY <1>1, <1>2, <1>3 DEF Next

-----------------------------------------------------------------------------
\* Every line the server gets is one command of one call, whole, whatever the
\* threads that write, the order they run in and the writes that fail: nobody
\* writes between a payload and its line break, and no line break follows a
\* payload that was cut (CommandSink::write_line).
THEOREM LinesAreWhole == Spec => []CommandsWhole
<1>1. SInv => CommandsWhole
  BY DEF SInv
<1> QED BY <1>1, InitSInv, NextSInv, PTL DEF Spec

\* The registry holds no subscription that the server was not asked for, for
\* every universe and every failing call: what bootstrap::run enters is behind
\* the commands it wrote, and an error ends it.
THEOREM RegistryFollowsWire == Spec => []RegistryBehindWire
<1>1. SInv => RegistryBehindWire
  BY DEF SInv
<1> QED BY <1>1, InitSInv, NextSInv, PTL DEF Spec

-----------------------------------------------------------------------------
\* Whatever the tokens of a frame, parse_frame returns one of ParseError's kinds
\* or a message with exactly the fields of its kind: every path of the ten
\* parsers fills the message it announces (cedro-protocol/src/parser).
THEOREM EveryFrameAnswered == \A toks : WellFormed(parse_frame(toks))
BY FrameParsed

\* A token that arrives changed, whatever it was and whatever it becomes, is
\* refused or changes the one field it is: it never shifts the other fields of
\* the message, nor its kind, unless it stands or ends up in one of the places
\* that steer the parser.  So Scanner::next and `?` of the ten parsers keep
\* every token in its place (cedro-protocol/src/parser).
THEOREM DamageStaysLocal ==
    ASSUME NEW toks \in Seq(STRING), NEW i \in 2 .. Len(toks), NEW d \in STRING,
           parse_frame(toks).err = "none",
           ~Steers(toks, i), ~Steers([toks EXCEPT ![i] = d], i)
    PROVE  Contained(parse_frame([toks EXCEPT ![i] = d]), parse_frame(toks).val)
<1>1. PICK dam : dam = [toks EXCEPT ![i] = d]
  OBVIOUS
<1>2. Damaged(toks, dam, i)
  BY <1>1 DEF Damaged, Frames
<1>3. i \in Nat /\ i >= 2 /\ Len(toks) >= 2
  OBVIOUS
<1>4. PICK r, s : r = parse_frame(toks) /\ s = parse_frame(dam)
  OBVIOUS
<1>5. Alike(r, s)
  BY <1>1, <1>2, <1>3, <1>4, FrameAlike
<1>6. CASE s.err = "none"
  <2>1. s.val.kind = r.val.kind /\ Near(r.val, s.val, DOMAIN r.val)
    BY <1>4, <1>5, <1>6 DEF Alike
  <2>2. PICK n : \A f \in DOMAIN r.val : f # n => s.val[f] = r.val[f]
    BY <2>1 DEF Near
  <2>3. PICK changed : changed = {f \in DOMAIN r.val : s.val[f] # r.val[f]}
    OBVIOUS
  <2>4. changed \subseteq {n}
    BY <2>2, <2>3
  <2>5. Cardinality(changed) <= 1
    <3>1. IsFiniteSet({n}) /\ Cardinality({n}) = 1
      BY FS_Singleton
    <3>2. changed \in SUBSET {n}
      BY <2>4
    <3> QED BY <3>1, <3>2, FS_Subset
  <2> QED BY <1>1, <1>4, <2>1, <2>3, <2>5 DEF Contained
<1>7. CASE s.err # "none"
  BY <1>1, <1>4, <1>7 DEF Contained
<1> QED BY <1>6, <1>7

Answered == got # NotYet => WellFormed(got)

LEMMA StepAnswered ==
    ASSUME Answered, socket \in BOOLEAN, [Next]_vars
    PROVE  Answered' /\ socket' \in BOOLEAN
<1>1. CASE \E t \in Threads : ThreadStep(t)
  <2>1. got' = got /\ (socket' = socket \/ socket' = FALSE)
    BY <1>1 DEF ThreadStep, write_line_lock, write_payload, write_newline, write_failed, add, Session
  <2> QED BY <2>1 DEF Answered
<1>2. CASE server_line
  <2>1. got' = NotYet /\ socket' = socket
    BY <1>2 DEF server_line
  <2> QED BY <2>1 DEF Answered
<1>3. CASE client_parse
  <2>1. got' = parse_frame(line.toks) /\ socket' = socket
    BY <1>3 DEF client_parse
  <2>2. WellFormed(got')
    BY <2>1, FrameParsed
  <2>3. Answered'
    BY <2>2 DEF Answered
  <2> QED BY <2>1, <2>3
<1>4. CASE server_close \/ UNCHANGED vars
  <2>1. got' = got /\ (socket' = socket \/ socket' = FALSE)
    BY <1>4 DEF server_close, vars
  <2> QED BY <2>1 DEF Answered
<1> QED BY <1>1, <1>2, <1>3, <1>4 DEF Next

\* The session's variables keep their types, and what the client makes of a
\* line is never half a message.
THEOREM SessionTyped == Spec => []TypeOK
<1>1. Init => Answered /\ socket \in BOOLEAN
  BY DEF Init, Answered
<1>2. (Answered /\ socket \in BOOLEAN) /\ [Next]_vars => (Answered /\ socket \in BOOLEAN)'
  BY StepAnswered
<1>3. SInv /\ Answered /\ socket \in BOOLEAN => TypeOK
  BY DEF SInv, Types, Entered, Universe, Answered, TypeOK
<1> QED BY <1>1, <1>2, <1>3, InitSInv, NextSInv, PTL DEF Spec
=============================================================================
