-------------------------- MODULE RawArchiveProofs --------------------------
(***************************************************************************)
(* Proofs about RawArchive, for every set of hours, every size of the      *)
(* queue and of the encoder's buffer, and every number of frames and of    *)
(* runs: what a reader gets is what was pushed, and a shutdown on a disk   *)
(* that works saves all of it.                                             *)
(***************************************************************************)
EXTENDS RawArchive, SequenceTheorems, WellFoundedInduction, TLAPS

-----------------------------------------------------------------------------
(***************************************************************************)
(* Induction over the naturals, for a property given as a set.             *)
(***************************************************************************)

\* A set of naturals that is not empty has a least element.
LEMMA Least ==
    ASSUME NEW T \in SUBSET Nat, T # {}
    PROVE  \E x \in T : \A y \in T : x <= y
<1>1. IsWellFoundedOn(OpToRel(<, Nat), Nat)
  BY NatLessThanWellFounded
<1>2. PICK x \in T : \A y \in T : ~(<< y, x >> \in OpToRel(<, Nat))
  BY <1>1, WFMin
<1>3. \A y \in T : ~(y < x)
  BY <1>2 DEF OpToRel
<1> QED BY <1>3

\* A set with 0 and the successor of each of its naturals has them all.
LEMMA SetInduction ==
    ASSUME NEW S, 0 \in S, \A n \in Nat : n \in S => n + 1 \in S
    PROVE  Nat \subseteq S
<1> SUFFICES ASSUME Nat \ S # {} PROVE FALSE
  OBVIOUS
<1>1. PICK x \in Nat \ S : \A y \in Nat \ S : x <= y
  BY Least
<1>2. x - 1 \in Nat /\ x - 1 \in S
  BY <1>1
<1> QED BY <1>1, <1>2

\* F[i] is the first i sequences of ss put together.
Joins(F, ss, n) == \A i \in 1 .. n : F[i] = IF i = 1 THEN ss[1] ELSE F[i - 1] \o ss[i]

LEMMA JoinsExists ==
    ASSUME NEW X, NEW n \in Nat, NEW ss, \A i \in 1 .. n : ss[i] \in Seq(X)
    PROVE  \E F \in [1 .. n -> Seq(X)] : Joins(F, ss, n)
<1> DEFINE D == {m \in Nat : m <= n => \E F \in [1 .. m -> Seq(X)] : Joins(F, ss, m)}
<1>1. 0 \in D
  <2>1. [i \in 1 .. 0 |-> << >>] \in [1 .. 0 -> Seq(X)] /\ Joins([i \in 1 .. 0 |-> << >>], ss, 0)
    BY DEF Joins
  <2> QED BY <2>1
<1>2. ASSUME NEW m \in Nat, m \in D PROVE m + 1 \in D
  <2> SUFFICES ASSUME m + 1 <= n PROVE \E F \in [1 .. m + 1 -> Seq(X)] : Joins(F, ss, m + 1)
    OBVIOUS
  <2>1. PICK F \in [1 .. m -> Seq(X)] : Joins(F, ss, m)
    BY <1>2
  <2> DEFINE last == IF m = 0 THEN ss[1] ELSE F[m] \o ss[m + 1]
             G == [i \in 1 .. m + 1 |-> IF i = m + 1 THEN last ELSE F[i]]
  <2>2. last \in Seq(X)
    <3>1. CASE m = 0
      BY <3>1
    <3>2. CASE m # 0
      <4>1. F[m] \in Seq(X) /\ ss[m + 1] \in Seq(X)
        BY <3>2
      <4> QED BY <3>2, <4>1, ConcatProperties
    <3> QED BY <3>1, <3>2
  <2>3. G \in [1 .. m + 1 -> Seq(X)]
    <3> HIDE DEF last
    <3> QED BY <2>2
  <2>4. Joins(G, ss, m + 1)
    <3> SUFFICES ASSUME NEW i \in 1 .. m + 1
                 PROVE  G[i] = IF i = 1 THEN ss[1] ELSE G[i - 1] \o ss[i]
      BY DEF Joins
    <3>1. CASE i = m + 1
      <4>1. m # 0 => m \in 1 .. m + 1 /\ m # m + 1 /\ G[m] = F[m]
        OBVIOUS
      <4>2. G[i] = last
        BY <3>1
      <4> HIDE DEF G
      <4> QED BY <3>1, <4>1, <4>2
    <3>2. CASE i # m + 1
      <4>1. i \in 1 .. m /\ G[i] = F[i]
        BY <3>2
      <4>2. i # 1 => i - 1 \in 1 .. m + 1 /\ i - 1 # m + 1 /\ G[i - 1] = F[i - 1]
        BY <3>2
      <4>3. F[i] = IF i = 1 THEN ss[1] ELSE F[i - 1] \o ss[i]
        BY <2>1, <4>1 DEF Joins
      <4> HIDE DEF G
      <4> QED BY <4>1, <4>2, <4>3
    <3> QED BY <3>1, <3>2
  <2> HIDE DEF G
  <2> QED BY <2>3, <2>4
<1> HIDE DEF D
<1>3. n \in D
  BY <1>1, <1>2, SetInduction
<1> QED BY <1>3 DEF D

LEMMA Flattened ==
    ASSUME NEW X, NEW ss \in Seq(Seq(X)), ss # << >>
    PROVE  \E F \in [1 .. Len(ss) -> Seq(X)] : Joins(F, ss, Len(ss)) /\ FlattenSeq(ss) = F[Len(ss)]
<1> DEFINE n == Len(ss)
           C(F) == F = [i \in 1 .. n |-> IF i = 1 THEN ss[i] ELSE F[i - 1] \o ss[i]]
<1>1. n \in Nat \ {0} /\ \A i \in 1 .. n : ss[i] \in Seq(X)
  OBVIOUS
<1>2. PICK F \in [1 .. n -> Seq(X)] : Joins(F, ss, n)
  BY <1>1, JoinsExists
<1>3. C(F)
  <2>1. \A i \in 1 .. n : F[i] = IF i = 1 THEN ss[i] ELSE F[i - 1] \o ss[i]
    BY <1>2 DEF Joins
  <2> QED BY <2>1
<1>4. FlattenSeq(ss) = (CHOOSE G : C(G))[n]
  BY <1>1 DEF FlattenSeq
<1>5. PICK G : G = CHOOSE H : C(H)
  OBVIOUS
<1>6. C(G)
  BY <1>3, <1>5
<1>7. \A i \in 1 .. n : G[i] = IF i = 1 THEN ss[i] ELSE G[i - 1] \o ss[i]
  BY <1>6
<1>8. \A i \in 1 .. n : F[i] = IF i = 1 THEN ss[i] ELSE F[i - 1] \o ss[i]
  BY <1>2 DEF Joins
<1> DEFINE D == {i \in Nat : i \in 1 .. n => G[i] = F[i]}
<1>9. Nat \subseteq D
  <2>1. 0 \in D
    OBVIOUS
  <2>2. ASSUME NEW i \in Nat, i \in D PROVE i + 1 \in D
    <3> SUFFICES ASSUME NEW m \in 1 .. n, m = i + 1 PROVE G[m] = F[m]
      OBVIOUS
    <3> HIDE DEF n
    <3>1. CASE m = 1
      BY <1>7, <1>8, <3>1
    <3>2. CASE m # 1
      <4>1. m - 1 = i /\ i \in 1 .. n
        BY <1>1, <3>2
      <4>2. G[m - 1] = F[m - 1]
        BY <2>2, <4>1
      <4>3. G[m] = G[m - 1] \o ss[m] /\ F[m] = F[m - 1] \o ss[m]
        BY <1>7, <1>8, <3>2
      <4> QED BY <4>2, <4>3
    <3> QED BY <3>1, <3>2
  <2> HIDE DEF D
  <2> QED BY <2>1, <2>2, SetInduction
<1>10. G[n] = F[n]
  <2>1. n \in D /\ n \in 1 .. n
    <3> HIDE DEF n, D
    <3> QED BY <1>1, <1>9
  <2> QED BY <2>1
<1> QED BY <1>2, <1>4, <1>5, <1>10

-----------------------------------------------------------------------------
(***************************************************************************)
(* The streams of a file: what they hold, their order, and what a write    *)
(* makes of them.                                                          *)
(***************************************************************************)
Streams == [frames : Seq(Frames), ended : BOOLEAN]

Holds(s, n) == \E i \in 1 .. Len(s) : \E j \in 1 .. Len(s[i].frames) : n = s[i].frames[j]

Increasing(q) == \A i, j \in 1 .. Len(q) : i < j => q[i] < q[j]

Sorted(s) ==
    \A i, k \in 1 .. Len(s) : \A j \in 1 .. Len(s[i].frames), l \in 1 .. Len(s[k].frames) :
        (i < k \/ (i = k /\ j < l)) => s[i].frames[j] < s[k].frames[l]

\* Everything in s is older than everything in q.
Older(s, q) == \A n : Holds(s, n) => \A j \in 1 .. Len(q) : n < q[j]

\* The streams s after `out` and, if `end`, the end mark: in the last one, or in
\* a new one.
Wrote(s, started, out, end) ==
    IF started
    THEN [s EXCEPT ![Len(s)] = [frames |-> @.frames \o out, ended |-> end]]
    ELSE Append(s, [frames |-> out, ended |-> end])

\* z is s with `out` behind the b frames of its stream `last`.
Grown(z, s, last, b, out, end) ==
    /\ z \in Seq(Streams) /\ Len(z) = last /\ last \in Nat \ {0} /\ b \in Nat
    /\ Len(s) \in {last - 1, last}
    /\ \A i \in 1 .. last - 1 : z[i] = s[i]
    /\ z[last].ended = end
    /\ Len(s) = last => Len(s[last].frames) = b
    /\ Len(s) = last - 1 => b = 0
    /\ Len(z[last].frames) = b + Len(out)
    /\ \A j \in 1 .. b : z[last].frames[j] = s[last].frames[j]
    /\ \A j \in 1 .. Len(out) : z[last].frames[b + j] = out[j]

LEMMA WroteNew ==
    ASSUME NEW s \in Seq(Streams), NEW out \in Seq(Frames), NEW end \in BOOLEAN
    PROVE  Grown(Wrote(s, FALSE, out, end), s, Len(s) + 1, 0, out, end)
<1> DEFINE x == [frames |-> out, ended |-> end]
           z == Append(s, x)
<1>1. x \in Streams /\ x.frames = out /\ x.ended = end
  BY DEF Streams
<1>2. Wrote(s, FALSE, out, end) = z
  BY DEF Wrote
<1> HIDE DEF x
<1>3. /\ z \in Seq(Streams) /\ Len(z) = Len(s) + 1 /\ Len(s) \in Nat
      /\ \A i \in 1 .. Len(s) : z[i] = s[i]
      /\ z[Len(s) + 1] = x
  BY <1>1, AppendProperties
<1> HIDE DEF z
<1>4. PICK m \in Nat \ {0} : m = Len(s) + 1 /\ m - 1 = Len(s)
  BY <1>3
<1>5. PICK b \in Nat : b = 0 /\ 1 .. b = {} /\ Len(out) = b + Len(out)
  OBVIOUS
<1>6. \A j \in 1 .. Len(out) : b + j = j
  BY <1>5
<1>7. z[m] = x /\ Len(z) = m /\ \A i \in 1 .. m - 1 : z[i] = s[i]
  BY <1>3, <1>4
<1>8. Len(s) \in {m - 1, m} /\ Len(s) # m
  <2>1. PICK l \in Nat : l = Len(s)
    BY <1>3
  <2>2. m = l + 1
    BY <1>4, <2>1
  <2>3. l \in {m - 1, m} /\ l # m
    BY <2>2
  <2> QED BY <2>1, <2>3
<1>9. \A j \in 1 .. Len(out) : z[m].frames[b + j] = out[j]
  BY <1>1, <1>6, <1>7
<1>10. Grown(z, s, m, b, out, end)
  BY <1>1, <1>3, <1>5, <1>7, <1>8, <1>9 DEF Grown
<1> QED BY <1>2, <1>4, <1>5, <1>10

LEMMA WroteMore ==
    ASSUME NEW s \in Seq(Streams), s # << >>, NEW out \in Seq(Frames), NEW end \in BOOLEAN
    PROVE  Grown(Wrote(s, TRUE, out, end), s, Len(s), Len(s[Len(s)].frames), out, end)
<1>1. PICK m \in Nat \ {0} : m = Len(s) /\ m \in 1 .. m
  OBVIOUS
<1>e. s[m] \in Streams
  BY <1>1
<1>2. PICK a \in Seq(Frames) : a = s[m].frames
  BY <1>e DEF Streams
<1> DEFINE c == a \o out
           x == [frames |-> c, ended |-> end]
           z == [s EXCEPT ![m] = x]
<1>3. /\ c \in Seq(Frames) /\ Len(c) = Len(a) + Len(out) /\ Len(a) \in Nat /\ Len(out) \in Nat
      /\ \A i \in 1 .. Len(a) + Len(out) : c[i] = IF i <= Len(a) THEN a[i] ELSE out[i - Len(a)]
  BY ConcatProperties
<1>4. Wrote(s, TRUE, out, end) = z
  BY <1>1, <1>2 DEF Wrote
<1> HIDE DEF c
<1>5. x \in Streams /\ x.frames = c /\ x.ended = end
  BY <1>3 DEF Streams
<1> HIDE DEF x
<1>6. z \in Seq(Streams) /\ Len(z) = m /\ z[m] = x /\ \A i \in 1 .. m - 1 : z[i] = s[i]
  BY <1>1, <1>5
<1> HIDE DEF z
<1>7. \A j \in 1 .. Len(a) : c[j] = a[j]
  BY <1>3
<1>l. Len(a) \in Nat /\ Len(out) \in Nat
  BY <1>3
<1>8. ASSUME NEW j \in 1 .. Len(out) PROVE c[Len(a) + j] = out[j]
  <2>1. PICK i \in 1 .. Len(a) + Len(out) : i = Len(a) + j /\ ~(i <= Len(a)) /\ i - Len(a) = j
    BY <1>l
  <2>2. c[i] = out[i - Len(a)]
    BY <1>3, <2>1
  <2> QED BY <2>1, <2>2
<1>9. PICK b \in Nat : b = Len(a)
  BY <1>l
<1>c. Len(c) = b + Len(out) /\ Len(s) \in {m - 1, m} /\ Len(s) # m - 1
  BY <1>1, <1>3, <1>9
<1>10. Grown(z, s, m, b, out, end)
  BY <1>1, <1>2, <1>5, <1>6, <1>7, <1>8, <1>9, <1>c DEF Grown
<1> QED BY <1>1, <1>2, <1>4, <1>9, <1>10

\* What a write leaves in its place, and what it adds.
OldCells(z, s, last, b) ==
    \A i \in 1 .. Len(s) :
        /\ i \in 1 .. Len(z)
        /\ \A j \in 1 .. Len(s[i].frames) : /\ j \in 1 .. Len(z[i].frames)
                                            /\ z[i].frames[j] = s[i].frames[j]
                                            /\ i = last => j <= b

NewCells(z, s, last, b, out) ==
    \A i \in 1 .. Len(z) : \A j \in 1 .. Len(z[i].frames) :
        \/ i \in 1 .. Len(s) /\ j \in 1 .. Len(s[i].frames)
        \/ i = last /\ j > b /\ j - b \in 1 .. Len(out) /\ z[i].frames[j] = out[j - b]

LEMMA GrownCells ==
    ASSUME NEW s \in Seq(Streams), NEW z, NEW last, NEW b, NEW out \in Seq(Frames), NEW end,
           Grown(z, s, last, b, out, end)
    PROVE  OldCells(z, s, last, b) /\ NewCells(z, s, last, b, out)
<1>g. /\ z \in Seq(Streams) /\ Len(z) = last /\ last \in Nat \ {0} /\ b \in Nat
      /\ Len(s) \in {last - 1, last}
      /\ \A i \in 1 .. last - 1 : z[i] = s[i]
      /\ Len(s) = last => Len(s[last].frames) = b
      /\ Len(s) = last - 1 => b = 0
      /\ Len(z[last].frames) = b + Len(out)
      /\ \A j \in 1 .. b : z[last].frames[j] = s[last].frames[j]
      /\ \A j \in 1 .. Len(out) : z[last].frames[b + j] = out[j]
  BY DEF Grown
<1>a. last \in Nat \ {0} /\ b \in Nat /\ Len(out) \in Nat
  BY <1>g
<1>t. \A i \in 1 .. Len(s) : Len(s[i].frames) \in Nat
  BY DEF Streams
<1>1. ASSUME NEW i \in 1 .. Len(s)
      PROVE  /\ i \in 1 .. Len(z)
             /\ \A j \in 1 .. Len(s[i].frames) : /\ j \in 1 .. Len(z[i].frames)
                                                 /\ z[i].frames[j] = s[i].frames[j]
                                                 /\ i = last => j <= b
  <2>1. i \in 1 .. last
    BY <1>a, <1>g
  <2>2. CASE i = last
    <3>1. Len(s) = last
      BY <1>a, <1>g, <2>2
    <3>2. Len(s[i].frames) = b /\ Len(z[i].frames) = b + Len(out)
      BY <1>g, <2>2, <3>1
    <3>3. \A j \in 1 .. b : j \in 1 .. b + Len(out) /\ j <= b
      BY <1>a
    <3> QED BY <1>g, <2>1, <2>2, <3>2, <3>3
  <2>3. CASE i # last
    <3>1. i \in 1 .. last - 1
      BY <1>a, <2>1, <2>3
    <3> QED BY <1>g, <2>1, <2>3, <3>1
  <2> QED BY <2>2, <2>3
<1>2. ASSUME NEW i \in 1 .. Len(z), NEW j \in 1 .. Len(z[i].frames)
      PROVE  \/ i \in 1 .. Len(s) /\ j \in 1 .. Len(s[i].frames)
             \/ i = last /\ j > b /\ j - b \in 1 .. Len(out) /\ z[i].frames[j] = out[j - b]
  <2>1. i \in 1 .. last
    BY <1>g
  <2>2. CASE i # last
    <3>1. i \in 1 .. last - 1
      BY <1>a, <2>1, <2>2
    <3>2. i \in 1 .. Len(s)
      BY <1>a, <1>g, <3>1
    <3> QED BY <1>g, <3>1, <3>2
  <2>3. CASE i = last
    <3>1. j \in 1 .. b + Len(out)
      BY <1>g, <2>3
    <3>2. CASE j <= b
      <4>1. b # 0 /\ j \in 1 .. b
        BY <1>a, <3>1, <3>2
      <4>2. Len(s) = last
        BY <1>g, <4>1
      <4> QED BY <1>g, <2>1, <2>3, <4>1, <4>2
    <3>3. CASE ~(j <= b)
      <4>1. PICK x \in 1 .. Len(out) : x = j - b /\ b + x = j /\ j > b
        BY <1>a, <3>1, <3>3
      <4>2. z[last].frames[b + x] = out[x]
        BY <1>g
      <4> QED BY <2>3, <4>1, <4>2
    <3> QED BY <3>2, <3>3
  <2> QED BY <2>2, <2>3
<1> QED BY <1>1, <1>2 DEF OldCells, NewCells

HoldsAlso(z, s, out) == \A n : Holds(z, n) <=> (Holds(s, n) \/ \E j \in 1 .. Len(out) : n = out[j])

LEMMA GrownHolds ==
    ASSUME NEW s \in Seq(Streams), NEW z, NEW last, NEW b, NEW out \in Seq(Frames), NEW end,
           Grown(z, s, last, b, out, end)
    PROVE  HoldsAlso(z, s, out)
<1> SUFFICES ASSUME NEW n PROVE Holds(z, n) <=> (Holds(s, n) \/ \E j \in 1 .. Len(out) : n = out[j])
  BY DEF HoldsAlso
<1>c. OldCells(z, s, last, b) /\ NewCells(z, s, last, b, out)
  BY GrownCells
<1>1. ASSUME Holds(s, n) PROVE Holds(z, n)
  <2>0. PICK i \in 1 .. Len(s) : \E j \in 1 .. Len(s[i].frames) : n = s[i].frames[j]
    BY <1>1 DEF Holds
  <2>1. PICK j \in 1 .. Len(s[i].frames) : n = s[i].frames[j]
    BY <2>0
  <2>2. i \in 1 .. Len(z) /\ j \in 1 .. Len(z[i].frames) /\ z[i].frames[j] = s[i].frames[j]
    BY <1>c DEF OldCells
  <2> QED BY <2>1, <2>2 DEF Holds
<1>2. ASSUME NEW j \in 1 .. Len(out), n = out[j] PROVE Holds(z, n)
  <2>1. /\ last \in Nat \ {0} /\ b \in Nat /\ Len(z) = last /\ Len(z[last].frames) = b + Len(out)
        /\ z[last].frames[b + j] = out[j]
    BY DEF Grown
  <2>2. Len(out) \in Nat
    OBVIOUS
  <2>3. last \in 1 .. last /\ b + j \in 1 .. b + Len(out)
    BY <2>1, <2>2
  <2> QED BY <1>2, <2>1, <2>3 DEF Holds
<1>3. ASSUME Holds(z, n) PROVE Holds(s, n) \/ \E j \in 1 .. Len(out) : n = out[j]
  <2>0. PICK i \in 1 .. Len(z) : \E j \in 1 .. Len(z[i].frames) : n = z[i].frames[j]
    BY <1>3 DEF Holds
  <2>1. PICK j \in 1 .. Len(z[i].frames) : n = z[i].frames[j]
    BY <2>0
  <2>2. CASE i \in 1 .. Len(s) /\ j \in 1 .. Len(s[i].frames)
    <3>1. z[i].frames[j] = s[i].frames[j]
      BY <1>c, <2>2 DEF OldCells
    <3> QED BY <2>1, <2>2, <3>1 DEF Holds
  <2>3. CASE j - b \in 1 .. Len(out) /\ z[i].frames[j] = out[j - b]
    BY <2>1, <2>3
  <2> QED BY <1>c, <2>2, <2>3 DEF NewCells
<1> QED BY <1>1, <1>2, <1>3

LEMMA GrownSorted ==
    ASSUME NEW s \in Seq(Streams), NEW z, NEW last, NEW b, NEW out \in Seq(Frames), NEW end,
           Grown(z, s, last, b, out, end), Sorted(s), Increasing(out), Older(s, out)
    PROVE  Sorted(z)
<1> SUFFICES ASSUME NEW i \in 1 .. Len(z), NEW k \in 1 .. Len(z),
                    NEW j \in 1 .. Len(z[i].frames), NEW l \in 1 .. Len(z[k].frames),
                    i < k \/ (i = k /\ j < l)
             PROVE  z[i].frames[j] < z[k].frames[l]
  BY DEF Sorted
<1> DEFINE Old(x, y) == x \in 1 .. Len(s) /\ y \in 1 .. Len(s[x].frames)
           New(x, y) == x = last /\ y > b /\ y - b \in 1 .. Len(out) /\ z[x].frames[y] = out[y - b]
<1>c. OldCells(z, s, last, b) /\ NewCells(z, s, last, b, out)
  BY GrownCells
<1>1. (Old(i, j) \/ New(i, j)) /\ (Old(k, l) \/ New(k, l))
  BY <1>c DEF NewCells
<1>2. /\ Old(i, j) => z[i].frames[j] = s[i].frames[j] /\ (i = last => j <= b)
      /\ Old(k, l) => z[k].frames[l] = s[k].frames[l] /\ (k = last => l <= b)
  BY <1>c DEF OldCells
<1>3. last \in Nat \ {0} /\ b \in Nat /\ Len(z) = last
  BY DEF Grown
<1>4. CASE Old(i, j) /\ Old(k, l)
  BY <1>2, <1>4 DEF Sorted
<1>5. CASE Old(i, j) /\ New(k, l)
  <2>1. Holds(s, s[i].frames[j])
    BY <1>5 DEF Holds
  <2> QED BY <1>2, <1>5, <2>1 DEF Older
<1>6. CASE New(i, j) /\ Old(k, l)
  <2>1. i = last /\ j > b /\ k = last /\ l <= b
    BY <1>2, <1>3, <1>6
  <2>2. z \in Seq(Streams)
    BY DEF Grown
  <2>3. z[i] \in Streams /\ z[k] \in Streams
    BY <2>2
  <2>4. j \in Nat /\ l \in Nat
    BY <2>3 DEF Streams
  <2> QED BY <1>3, <2>1, <2>4
<1>7. CASE New(i, j) /\ New(k, l)
  <2>1. i = k /\ j < l /\ j - b < l - b
    <3>1. z \in Seq(Streams)
      BY DEF Grown
    <3>2. z[i] \in Streams /\ z[k] \in Streams
      BY <3>1
    <3>3. j \in Nat /\ l \in Nat
      BY <3>2 DEF Streams
    <3> QED BY <1>3, <1>7, <3>3
  <2> QED BY <1>7, <2>1 DEF Increasing
<1> QED BY <1>1, <1>4, <1>5, <1>6, <1>7

-----------------------------------------------------------------------------
(***************************************************************************)
(* The way of a frame: through the queue q, the encoder's buffer b and the *)
(* files fs.  What is further on is older, and everything was accepted.    *)
(***************************************************************************)
Core(fs, b, q, acc) ==
    /\ fs \in [Hours -> Seq(Streams)] /\ b \in Seq(Frames) /\ q \in Seq(Frames)
    /\ Increasing(b) /\ Increasing(q)
    /\ \A i \in 1 .. Len(b), j \in 1 .. Len(q) : b[i] < q[j]
    /\ \A i \in 1 .. Len(b) : b[i] \in acc
    /\ \A j \in 1 .. Len(q) : q[j] \in acc
    /\ \A h \in Hours : /\ Sorted(fs[h]) /\ Older(fs[h], b) /\ Older(fs[h], q)
                        /\ \A n : Holds(fs[h], n) => n \in acc
    /\ \A g, h \in Hours : g # h => \A n : ~(Holds(fs[g], n) /\ Holds(fs[h], n))

\* Every accepted frame is somewhere.
Kept(fs, b, q, acc) ==
    \A n \in acc : \/ \E h \in Hours : Holds(fs[h], n)
                   \/ \E i \in 1 .. Len(b) : n = b[i]
                   \/ \E j \in 1 .. Len(q) : n = q[j]

\* Every stream has its end mark, but the one the encoder of hour h writes.
Lasting(fs, h, started) ==
    \A g \in Hours : \A i \in 1 .. Len(fs[g]) : fs[g][i].ended \/ (started /\ g = h /\ i = Len(fs[g]))

\* The frames a write takes out of a buffer, those it leaves, and the files after it.
FirstOf(b, k) == SubSeq(b, 1, k)
Rest(b, k)  == SubSeq(b, k + 1, Len(b))

WroteTo(fs, h, started, out, end) == [fs EXCEPT ![h] = Wrote(fs[h], started, out, end)]

\* The buffer with the next frame of the queue, and the queue without it.
Behind(q, x) == Append(q, x)
Joined(b, q) == Append(b, Head(q))
Left(q)      == Tail(q)

LEMMA Cut ==
    ASSUME NEW b \in Seq(Frames), NEW k \in 0 .. Len(b),
           NEW out, out = FirstOf(b, k), NEW r, r = Rest(b, k)
    PROVE  /\ out \in Seq(Frames) /\ Len(out) = k /\ \A i \in 1 .. k : out[i] = b[i]
           /\ r \in Seq(Frames) /\ Len(r) = Len(b) - k /\ \A i \in 1 .. Len(b) - k : r[i] = b[k + i]
           /\ Len(b) \in Nat /\ k \in Nat
<1>1. Len(b) \in Nat /\ k \in Nat /\ k <= Len(b)
  OBVIOUS
<1>2. out \in Seq(Frames) /\ Len(out) = k /\ \A i \in 1 .. k : out[i] = b[i]
  <2>1. \A i \in 1 .. k : b[i] \in Frames /\ i \in 1 .. Len(b)
    BY <1>1
  <2>2. Len(out) = k /\ \A i \in 1 .. k : out[i] = b[1 + i - 1]
    BY <1>1, SubSeqProperties DEF FirstOf
  <2>3. \A i \in 1 .. k : 1 + i - 1 = i
    BY <1>1
  <2>4. out \in Seq(Frames)
    BY <1>1, SubSeqProperties DEF FirstOf
  <2> QED BY <2>2, <2>3, <2>4
<1>3. r \in Seq(Frames) /\ Len(r) = Len(b) - k /\ \A i \in 1 .. Len(b) - k : r[i] = b[k + i]
  <2>1. PICK m \in 1 .. Len(b) + 1 : m = k + 1
    BY <1>1
  <2>2. r = SubSeq(b, m, Len(b))
    BY <2>1 DEF Rest
  <2>3. r \in Seq(Frames)
    BY <1>1, <2>2, SubSeqProperties
  <2>4. /\ Len(r) = IF m <= Len(b) THEN Len(b) - m + 1 ELSE 0
        /\ \A i \in 1 .. Len(b) - m + 1 : r[i] = b[m + i - 1]
    BY <1>1, <2>2, SubSeqProperties
  <2>5. Len(r) = Len(b) - k
    BY <1>1, <2>1, <2>4
  <2>6. \A i \in 1 .. Len(b) - k : i \in 1 .. Len(b) - m + 1 /\ m + i - 1 = k + i
    BY <1>1, <2>1
  <2> QED BY <2>3, <2>4, <2>5, <2>6
<1> QED BY <1>1, <1>2, <1>3

LEMMA WriteOut ==
    ASSUME NEW fs, NEW e, NEW k, NEW end
    PROVE  write_out(fs, e, k, end) = WroteTo(fs, e.hour, e.started, FirstOf(e.buf, k), end)
BY DEF write_out, Wrote, WroteTo, FirstOf

LEMMA Dropped ==
    ASSUME NEW fs, NEW b, NEW q, NEW acc, Core(fs, b, q, acc)
    PROVE  Core(fs, << >>, q, acc) /\ Core(fs, << >>, << >>, acc)
<1>1. PICK c : c = << >>
  OBVIOUS
<1>2. c \in Seq(Frames) /\ Len(c) = 0 /\ 1 .. Len(c) = {}
  BY <1>1
<1>3. Increasing(c) /\ \A h \in Hours : Older(fs[h], c)
  BY <1>2 DEF Increasing, Older
<1>4. Core(fs, c, q, acc)
  BY <1>2, <1>3 DEF Core
<1>5. Core(fs, c, c, acc)
  BY <1>2, <1>3 DEF Core
<1> QED BY <1>1, <1>4, <1>5

\* The writer takes a frame from the queue into the encoder.
LEMMA Taken ==
    ASSUME NEW fs, NEW b, NEW q, NEW acc, Core(fs, b, q, acc), q # << >>,
           NEW c, c = Joined(b, q), NEW t, t = Left(q)
    PROVE  /\ Core(fs, c, t, acc) /\ Len(c) = Len(b) + 1 /\ Len(b) \in Nat
           /\ Len(t) = Len(q) - 1
           /\ Kept(fs, b, q, acc) => Kept(fs, c, t, acc)
<1>0. b \in Seq(Frames) /\ q \in Seq(Frames)
  BY DEF Core
<1>1. Len(q) \in Nat \ {0} /\ Len(b) \in Nat
  BY <1>0
<1>2. PICK x \in Frames : x = Head(q) /\ x = q[1]
  BY <1>0, HeadTailProperties
<1>3. t \in Seq(Frames) /\ Len(t) = Len(q) - 1 /\ \A j \in 1 .. Len(q) - 1 : t[j] = q[j + 1]
  BY <1>0, HeadTailProperties DEF Left
<1>4. /\ c \in Seq(Frames) /\ Len(c) = Len(b) + 1
      /\ \A i \in 1 .. Len(b) : c[i] = b[i]
      /\ c[Len(b) + 1] = x
  BY <1>0, <1>2, AppendProperties DEF Joined
<1>5. \A j \in 1 .. Len(t) : j + 1 \in 1 .. Len(q) /\ 1 < j + 1 /\ t[j] = q[j + 1]
  BY <1>1, <1>3
<1>6. 1 \in 1 .. Len(q)
  BY <1>1
<1>7. \A i \in 1 .. Len(c) : i \in 1 .. Len(b) \/ i = Len(b) + 1
  BY <1>1, <1>4
<1>8. ASSUME NEW i \in 1 .. Len(c)
      PROVE  /\ c[i] \in acc
             /\ \A j \in 1 .. Len(t) : c[i] < t[j]
             /\ \A h \in Hours : \A n : Holds(fs[h], n) => n < c[i]
  <2>1. CASE i \in 1 .. Len(b)
    BY <1>4, <1>5, <2>1 DEF Core, Older
  <2>2. CASE i = Len(b) + 1
    <3>1. c[i] = q[1]
      BY <1>2, <1>4, <2>2
    <3>2. \A j \in 1 .. Len(t) : q[1] < t[j]
      BY <1>5, <1>6 DEF Core, Increasing
    <3> QED BY <1>6, <3>1, <3>2 DEF Core, Older
  <2> QED BY <1>7, <2>1, <2>2
<1>9. Increasing(c)
  <2> SUFFICES ASSUME NEW i \in 1 .. Len(c), NEW j \in 1 .. Len(c), i < j PROVE c[i] < c[j]
    BY DEF Increasing
  <2>1. i \in 1 .. Len(b)
    BY <1>1, <1>4
  <2>2. CASE j \in 1 .. Len(b)
    BY <1>4, <2>1, <2>2 DEF Core, Increasing
  <2>3. CASE j = Len(b) + 1
    <3>1. c[j] = q[1] /\ c[i] = b[i]
      BY <1>2, <1>4, <2>1, <2>3
    <3> QED BY <1>6, <2>1, <3>1 DEF Core
  <2> QED BY <1>7, <2>2, <2>3
<1>10. Increasing(t)
  <2> SUFFICES ASSUME NEW i \in 1 .. Len(t), NEW j \in 1 .. Len(t), i < j PROVE t[i] < t[j]
    BY DEF Increasing
  <2>1. PICK k \in 1 .. Len(q), l \in 1 .. Len(q) : k = i + 1 /\ l = j + 1 /\ k < l
    BY <1>5
  <2>2. t[i] = q[k] /\ t[j] = q[l]
    BY <1>5, <2>1
  <2> QED BY <2>1, <2>2 DEF Core, Increasing
<1>11. \A h \in Hours : Older(fs[h], c) /\ Older(fs[h], t)
  BY <1>5, <1>8 DEF Core, Older
<1>12. \A j \in 1 .. Len(t) : t[j] \in acc
  BY <1>5 DEF Core
<1>13. Core(fs, c, t, acc)
  BY <1>3, <1>4, <1>8, <1>9, <1>10, <1>11, <1>12 DEF Core
<1>14. ASSUME Kept(fs, b, q, acc) PROVE Kept(fs, c, t, acc)
  <2> SUFFICES ASSUME NEW n \in acc
               PROVE  \/ \E h \in Hours : Holds(fs[h], n)
                      \/ \E i \in 1 .. Len(c) : n = c[i]
                      \/ \E j \in 1 .. Len(t) : n = t[j]
    BY DEF Kept
  <2>1. CASE \E h \in Hours : Holds(fs[h], n)
    BY <2>1
  <2>2. CASE \E i \in 1 .. Len(b) : n = b[i]
    <3>1. \A i \in 1 .. Len(b) : i \in 1 .. Len(c)
      BY <1>1, <1>4
    <3> QED BY <1>4, <2>2, <3>1
  <2>3. CASE \E j \in 1 .. Len(q) : n = q[j]
    <3>1. PICK j \in 1 .. Len(q) : n = q[j]
      BY <2>3
    <3>2. CASE j = 1
      <4>1. Len(b) + 1 \in 1 .. Len(c)
        BY <1>1, <1>4
      <4> QED BY <1>2, <1>4, <3>1, <3>2, <4>1
    <3>3. CASE j # 1
      <4>1. PICK k \in 1 .. Len(t) : k + 1 = j
        <5>1. j - 1 \in 1 .. Len(t) /\ j - 1 + 1 = j
          BY <1>1, <1>3, <3>3
        <5> QED BY <5>1
      <4> QED BY <1>5, <3>1, <4>1
    <3> QED BY <3>2, <3>3
  <2> QED BY <1>14, <2>1, <2>2, <2>3 DEF Kept
<1> QED BY <1>1, <1>3, <1>4, <1>13, <1>14

\* A frame is accepted: it is newer than all that were.
Newest(x, acc) == \A n \in acc : n < x

LEMMA Pushed ==
    ASSUME NEW fs, NEW b, NEW q, NEW acc, Core(fs, b, q, acc),
           NEW x \in Frames, Newest(x, acc), NEW t, t = Behind(q, x), NEW now, now = acc \cup {x}
    PROVE  /\ Core(fs, b, t, now) /\ Len(t) = Len(q) + 1
           /\ Kept(fs, b, q, acc) => Kept(fs, b, t, now)
<1>0. b \in Seq(Frames) /\ q \in Seq(Frames)
  BY DEF Core
<1>1. Len(q) \in Nat
  BY <1>0
<1>2. /\ t \in Seq(Frames) /\ Len(t) = Len(q) + 1
      /\ \A j \in 1 .. Len(q) : t[j] = q[j]
      /\ t[Len(q) + 1] = x
  BY <1>0, AppendProperties DEF Behind
<1>3. \A j \in 1 .. Len(t) : j \in 1 .. Len(q) \/ j = Len(q) + 1
  BY <1>1, <1>2
<1>4. x \in Int /\ \A n \in acc : n < x
  BY ArchiveAssumption DEF Frames, Newest
<1>5. ASSUME NEW j \in 1 .. Len(t)
      PROVE  /\ t[j] \in now
             /\ \A i \in 1 .. Len(b) : b[i] < t[j]
             /\ \A h \in Hours : \A n : Holds(fs[h], n) => n < t[j]
  <2>1. CASE j \in 1 .. Len(q)
    BY <1>2, <2>1 DEF Core, Older
  <2>2. CASE j = Len(q) + 1
    BY <1>2, <1>4, <2>2 DEF Core
  <2> QED BY <1>3, <2>1, <2>2
<1>6. Increasing(t)
  <2> SUFFICES ASSUME NEW i \in 1 .. Len(t), NEW j \in 1 .. Len(t), i < j PROVE t[i] < t[j]
    BY DEF Increasing
  <2>1. i \in 1 .. Len(q)
    BY <1>1, <1>2
  <2>2. CASE j \in 1 .. Len(q)
    BY <1>2, <2>1, <2>2 DEF Core, Increasing
  <2>3. CASE j = Len(q) + 1
    <3>1. t[j] = x /\ t[i] = q[i] /\ q[i] \in acc
      BY <1>2, <2>1, <2>3 DEF Core
    <3> QED BY <1>4, <3>1
  <2> QED BY <1>3, <2>2, <2>3
<1>7. \A h \in Hours : Older(fs[h], t)
  BY <1>5 DEF Older
<1>8. Core(fs, b, t, now)
  BY <1>2, <1>5, <1>6, <1>7 DEF Core
<1>9. ASSUME Kept(fs, b, q, acc) PROVE Kept(fs, b, t, now)
  <2> SUFFICES ASSUME NEW n \in now
               PROVE  \/ \E h \in Hours : Holds(fs[h], n)
                      \/ \E i \in 1 .. Len(b) : n = b[i]
                      \/ \E j \in 1 .. Len(t) : n = t[j]
    BY DEF Kept
  <2>1. CASE n = x
    <3>1. Len(q) + 1 \in 1 .. Len(t)
      BY <1>1, <1>2
    <3> QED BY <1>2, <2>1, <3>1
  <2>2. CASE n \in acc
    <3>1. \A j \in 1 .. Len(q) : j \in 1 .. Len(t)
      BY <1>1, <1>2
    <3> QED BY <1>2, <1>9, <2>2, <3>1 DEF Kept
  <2> QED BY <2>1, <2>2
<1> QED BY <1>2, <1>8, <1>9

\* The encoder writes its first k frames to the file of hour h.
LEMMA Written ==
    ASSUME NEW fs, NEW b, NEW q, NEW acc, Core(fs, b, q, acc),
           NEW h \in Hours, NEW started \in BOOLEAN, started => fs[h] # << >>,
           NEW k \in 0 .. Len(b), NEW end \in BOOLEAN,
           NEW f, f = WroteTo(fs, h, started, FirstOf(b, k), end), NEW r, r = Rest(b, k)
    PROVE  /\ Core(f, r, q, acc) /\ f[h] # << >>
           /\ Kept(fs, b, q, acc) => Kept(f, r, q, acc)
           /\ Lasting(fs, h, started) => Lasting(f, h, ~end)
<1>0. fs \in [Hours -> Seq(Streams)] /\ b \in Seq(Frames) /\ q \in Seq(Frames)
  BY DEF Core
<1>1. PICK out : out = FirstOf(b, k)
  OBVIOUS
<1>2. /\ out \in Seq(Frames) /\ Len(out) = k /\ \A i \in 1 .. k : out[i] = b[i]
      /\ r \in Seq(Frames) /\ Len(r) = Len(b) - k /\ \A i \in 1 .. Len(b) - k : r[i] = b[k + i]
  BY ZenonT(60), <1>0, <1>1, Cut
<1>3. Len(b) \in Nat /\ k \in Nat /\ k <= Len(b)
  BY <1>0
<1>4. PICK s \in Seq(Streams) : s = fs[h]
  BY <1>0
<1>5. PICK z : z = Wrote(s, started, out, end)
  OBVIOUS
<1>6. \E last, a : Grown(z, s, last, a, out, end) /\ last = (IF started THEN Len(s) ELSE Len(s) + 1)
  <2>1. CASE started
    <3>1. Grown(Wrote(s, TRUE, out, end), s, Len(s), Len(s[Len(s)].frames), out, end)
      BY <1>2, <1>4, <2>1, WroteMore
    <3>2. z = Wrote(s, TRUE, out, end)
      BY <1>5, <2>1
    <3> QED BY <2>1, <3>1, <3>2
  <2>2. CASE ~started
    <3>1. Grown(Wrote(s, FALSE, out, end), s, Len(s) + 1, 0, out, end)
      BY <1>2, WroteNew
    <3>2. z = Wrote(s, FALSE, out, end)
      BY <1>5, <2>2
    <3> QED BY <2>2, <3>1, <3>2
  <2> QED BY <2>1, <2>2
<1>7. PICK last, a : Grown(z, s, last, a, out, end) /\ last = (IF started THEN Len(s) ELSE Len(s) + 1)
  BY <1>6
<1>8. z \in Seq(Streams) /\ Len(z) = last /\ last \in Nat \ {0}
  BY <1>7 DEF Grown
<1>9. f \in [Hours -> Seq(Streams)] /\ f[h] = z /\ \A g \in Hours \ {h} : f[g] = fs[g]
  BY <1>0, <1>1, <1>4, <1>5, <1>8 DEF WroteTo
<1>10. \A n : Holds(z, n) <=> (Holds(s, n) \/ \E j \in 1 .. Len(out) : n = out[j])
  <2>1. Grown(z, s, last, a, out, end) /\ out \in Seq(Frames)
    BY <1>2, <1>7
  <2>2. HoldsAlso(z, s, out)
    BY <2>1, GrownHolds
  <2> QED BY <2>2 DEF HoldsAlso
<1>11. \A j \in 1 .. Len(out) : j \in 1 .. Len(b) /\ j <= k /\ out[j] = b[j]
  BY <1>2, <1>3
<1>12. ASSUME NEW i \in 1 .. Len(r)
       PROVE  /\ k + i \in 1 .. Len(b) /\ r[i] = b[k + i]
              /\ \A j \in 1 .. Len(out) : out[j] < r[i]
  <2>1. i \in 1 .. Len(b) - k
    BY <1>2
  <2>2. PICK m \in 1 .. Len(b) : m = k + i /\ k < m
    BY <1>3, <2>1
  <2>3. r[i] = b[m]
    BY <1>2, <2>1, <2>2
  <2>4. \A j \in 1 .. Len(out) : j < m
    BY <1>3, <1>11, <2>2
  <2> QED BY <1>11, <2>2, <2>3, <2>4 DEF Core, Increasing
<1>13. Increasing(out)
  BY <1>11 DEF Core, Increasing
<1>14. Increasing(r)
  <2> SUFFICES ASSUME NEW i \in 1 .. Len(r), NEW j \in 1 .. Len(r), i < j PROVE r[i] < r[j]
    BY DEF Increasing
  <2>1. PICK m \in 1 .. Len(b), l \in 1 .. Len(b) : m = k + i /\ l = k + j /\ m < l
    BY <1>3, <1>12
  <2>2. r[i] = b[m] /\ r[j] = b[l]
    BY <1>12, <2>1
  <2> QED BY <2>1, <2>2 DEF Core, Increasing
<1>15. Older(s, out) /\ Older(s, r) /\ Older(s, q)
  <2>1. Older(s, b) /\ Older(s, q)
    BY <1>4 DEF Core
  <2> QED BY <1>11, <1>12, <2>1 DEF Older
<1>16. Sorted(z)
  BY <1>2, <1>4, <1>7, <1>13, <1>15, GrownSorted DEF Core
<1>17. Older(z, r) /\ Older(z, q) /\ \A n : Holds(z, n) => n \in acc
  <2>1. Older(z, r)
    BY <1>10, <1>12, <1>15 DEF Older
  <2>2. Older(z, q)
    BY <1>10, <1>11, <1>15 DEF Older, Core
  <2>3. \A n : Holds(z, n) => n \in acc
    BY <1>4, <1>10, <1>11 DEF Core
  <2> QED BY <2>1, <2>2, <2>3
<1>18. ASSUME NEW g \in Hours, g # h
       PROVE  /\ Sorted(fs[g]) /\ Older(fs[g], r) /\ Older(fs[g], q)
              /\ \A n : Holds(fs[g], n) => n \in acc /\ ~Holds(z, n)
  <2>1. Sorted(fs[g]) /\ Older(fs[g], b) /\ Older(fs[g], q) /\ \A n : Holds(fs[g], n) => n \in acc
    BY DEF Core
  <2>2. Older(fs[g], r)
    BY <1>12, <2>1 DEF Older
  <2>3. ASSUME NEW n, Holds(fs[g], n), Holds(z, n) PROVE FALSE
    <3>1. ~Holds(s, n)
      BY <1>4, <1>18, <2>3 DEF Core
    <3>2. PICK j \in 1 .. Len(out) : n = out[j]
      BY <1>10, <2>3, <3>1
    <3>3. n < b[j] /\ n = b[j] /\ b[j] \in Frames
      BY <1>0, <1>11, <2>1, <2>3, <3>2 DEF Older
    <3> QED BY <3>3, ArchiveAssumption DEF Frames
  <2> QED BY <2>1, <2>2, <2>3
<1>19. /\ \A i \in 1 .. Len(r), j \in 1 .. Len(q) : r[i] < q[j]
       /\ \A i \in 1 .. Len(r) : r[i] \in acc
       /\ \A j \in 1 .. Len(q) : q[j] \in acc
  BY <1>12 DEF Core
<1>20. \A g \in Hours : /\ Sorted(f[g]) /\ Older(f[g], r) /\ Older(f[g], q)
                        /\ \A n : Holds(f[g], n) => n \in acc
  BY <1>9, <1>16, <1>17, <1>18
<1>21. ASSUME NEW g \in Hours, NEW g2 \in Hours, g # g2, NEW n, Holds(f[g], n), Holds(f[g2], n) PROVE FALSE
  <2>1. CASE g # h /\ g2 # h
    BY <1>9, <1>21, <2>1 DEF Core
  <2>2. CASE g = h
    BY <1>9, <1>18, <1>21, <2>2
  <2>3. CASE g2 = h
    BY <1>9, <1>18, <1>21, <2>3
  <2> QED BY <2>1, <2>2, <2>3
<1>22. Core(f, r, q, acc)
  <2>1. Increasing(q)
    BY DEF Core
  <2> QED BY <1>0, <1>2, <1>9, <1>14, <1>19, <1>20, <1>21, <2>1 DEF Core
<1>23. f[h] # << >>
  BY <1>8, <1>9
<1>24. ASSUME Kept(fs, b, q, acc) PROVE Kept(f, r, q, acc)
  <2> SUFFICES ASSUME NEW n \in acc
               PROVE  \/ \E g \in Hours : Holds(f[g], n)
                      \/ \E i \in 1 .. Len(r) : n = r[i]
                      \/ \E j \in 1 .. Len(q) : n = q[j]
    BY DEF Kept
  <2>1. CASE \E g \in Hours : Holds(fs[g], n)
    BY <1>4, <1>9, <1>10, <2>1
  <2>2. CASE \E i \in 1 .. Len(b) : n = b[i]
    <3>1. PICK i \in 1 .. Len(b) : n = b[i]
      BY <2>2
    <3>2. CASE i <= k
      <4>1. i \in 1 .. Len(out) /\ out[i] = b[i]
        BY <1>2, <1>3, <3>2
      <4> QED BY <1>9, <1>10, <3>1, <4>1
    <3>3. CASE ~(i <= k)
      <4>1. PICK j \in 1 .. Len(r) : k + j = i
        <5>1. i - k \in 1 .. Len(b) - k /\ k + (i - k) = i
          BY <1>3, <3>3
        <5> QED BY <1>2, <5>1
      <4> QED BY <1>12, <3>1, <4>1
    <3> QED BY <3>2, <3>3
  <2>3. CASE \E j \in 1 .. Len(q) : n = q[j]
    BY <2>3
  <2> QED BY <1>24, <2>1, <2>2, <2>3 DEF Kept
<1>25. ASSUME Lasting(fs, h, started) PROVE Lasting(f, h, ~end)
  <2> SUFFICES ASSUME NEW g \in Hours, NEW i \in 1 .. Len(f[g])
               PROVE  f[g][i].ended \/ (~end /\ g = h /\ i = Len(f[g]))
    BY DEF Lasting
  <2>1. CASE g # h
    <3>1. f[g] = fs[g]
      BY <1>9, <2>1
    <3> QED BY <1>25, <2>1, <3>1 DEF Lasting
  <2>2. CASE g = h /\ i = last
    <3>1. z[last].ended = end
      BY <1>7 DEF Grown
    <3> QED BY <1>8, <1>9, <2>2, <3>1
  <2>3. CASE g = h /\ i # last
    <3>1. i \in 1 .. last - 1
      BY <1>8, <1>9, <2>3
    <3>2. z[i] = s[i] /\ Len(s) \in {last - 1, last} /\ last \in Nat
      BY <1>7, <3>1 DEF Grown
    <3>3. i \in 1 .. Len(s) /\ ~(started /\ i = Len(s))
      BY <1>7, <1>8, <3>1, <3>2
    <3>4. s[i].ended
      BY <1>4, <1>25, <3>3 DEF Lasting
    <3> QED BY <1>9, <2>3, <3>2, <3>4
  <2> QED BY <2>1, <2>2, <2>3
<1> QED BY <1>22, <1>23, <1>24, <1>25

-----------------------------------------------------------------------------
(***************************************************************************)
(* What a reader gets: the frames of the streams, from the first one on.   *)
(***************************************************************************)

\* c has the frames of the first m streams of s, and no others.
Prefix(c, s, m) ==
    /\ \A x \in 1 .. Len(c) : \E i \in 1 .. m : \E j \in 1 .. Len(s[i].frames) : c[x] = s[i].frames[j]
    /\ \A i \in 1 .. m : \A j \in 1 .. Len(s[i].frames) : \E x \in 1 .. Len(c) : c[x] = s[i].frames[j]

LEMMA PrefixGrows ==
    ASSUME NEW s \in Seq(Streams), Sorted(s), NEW m \in 1 .. Len(s), NEW c \in Seq(Frames),
           Increasing(c), Prefix(c, s, m - 1), NEW d, d = c \o s[m].frames
    PROVE  d \in Seq(Frames) /\ Increasing(d) /\ Prefix(d, s, m)
<1>m. m \in Nat \ {0} /\ Len(s) \in Nat
  OBVIOUS
<1>1. s[m] \in Streams
  OBVIOUS
<1>2. PICK a \in Seq(Frames) : a = s[m].frames
  BY <1>1 DEF Streams
<1>3. /\ d \in Seq(Frames) /\ Len(d) = Len(c) + Len(a)
      /\ \A x \in 1 .. Len(c) + Len(a) : d[x] = IF x <= Len(c) THEN c[x] ELSE a[x - Len(c)]
  BY <1>2, ConcatProperties
<1>l. Len(c) \in Nat /\ Len(a) \in Nat
  OBVIOUS
<1>4. ASSUME NEW x \in 1 .. Len(d)
      PROVE  \/ x \in 1 .. Len(c) /\ d[x] = c[x]
             \/ x > Len(c) /\ x - Len(c) \in 1 .. Len(a) /\ d[x] = a[x - Len(c)]
  <2>1. x \in 1 .. Len(c) + Len(a)
    BY <1>3
  <2>2. CASE x <= Len(c)
    <3>1. x \in 1 .. Len(c)
      BY <1>l, <2>1, <2>2
    <3> QED BY <1>3, <2>1, <2>2, <3>1
  <2>3. CASE ~(x <= Len(c))
    <3>1. x > Len(c) /\ x - Len(c) \in 1 .. Len(a)
      BY <1>l, <2>1, <2>3
    <3> QED BY <1>3, <2>1, <2>3, <3>1
  <2> QED BY <2>2, <2>3
<1>5. \A x \in 1 .. Len(c) : x \in 1 .. Len(d) /\ d[x] = c[x]
  <2>1. \A x \in 1 .. Len(c) : x \in 1 .. Len(c) + Len(a) /\ x <= Len(c)
    BY <1>l
  <2> QED BY <1>3, <2>1
<1>6. ASSUME NEW y \in 1 .. Len(a) PROVE Len(c) + y \in 1 .. Len(d) /\ d[Len(c) + y] = a[y]
  <2>0. Len(c) + y \in 1 .. Len(c) + Len(a) /\ ~(Len(c) + y <= Len(c)) /\ Len(c) + y - Len(c) = y
    BY <1>l
  <2>1. PICK x \in 1 .. Len(c) + Len(a) : x = Len(c) + y /\ ~(x <= Len(c)) /\ x - Len(c) = y
    BY <2>0
  <2>2. d[x] = a[x - Len(c)]
    BY <1>3, <2>1
  <2> QED BY <1>3, <2>1, <2>2
<1>7. ASSUME NEW x \in 1 .. Len(c), NEW y \in 1 .. Len(a) PROVE c[x] < a[y]
  <2>1. PICK i \in 1 .. m - 1 : \E j \in 1 .. Len(s[i].frames) : c[x] = s[i].frames[j]
    BY DEF Prefix
  <2>2. PICK j \in 1 .. Len(s[i].frames) : c[x] = s[i].frames[j]
    BY <2>1
  <2>3. i \in 1 .. Len(s) /\ i < m
    BY <1>m
  <2> QED BY <1>2, <2>2, <2>3 DEF Sorted
<1>8. Increasing(a)
  BY <1>2, <1>m DEF Sorted, Increasing
<1>9. Increasing(d)
  <2> SUFFICES ASSUME NEW x \in 1 .. Len(d), NEW y \in 1 .. Len(d), x < y PROVE d[x] < d[y]
    BY DEF Increasing
  <2>1. CASE x \in 1 .. Len(c) /\ d[x] = c[x] /\ y \in 1 .. Len(c) /\ d[y] = c[y]
    BY <2>1 DEF Increasing
  <2>2. CASE x \in 1 .. Len(c) /\ d[x] = c[x] /\ y - Len(c) \in 1 .. Len(a) /\ d[y] = a[y - Len(c)]
    BY <1>7, <2>2
  <2>3. CASE x > Len(c) /\ y \in 1 .. Len(c)
    BY <1>l, <1>3, <2>3
  <2>4. CASE /\ x - Len(c) \in 1 .. Len(a) /\ d[x] = a[x - Len(c)]
             /\ y - Len(c) \in 1 .. Len(a) /\ d[y] = a[y - Len(c)]
    <3>1. x - Len(c) < y - Len(c)
      BY <1>l, <1>3
    <3> QED BY <1>8, <2>4, <3>1 DEF Increasing
  <2> QED BY <1>4, <2>1, <2>2, <2>3, <2>4
<1>10. ASSUME NEW x \in 1 .. Len(d)
       PROVE  \E i \in 1 .. m : \E j \in 1 .. Len(s[i].frames) : d[x] = s[i].frames[j]
  <2>1. CASE x \in 1 .. Len(c) /\ d[x] = c[x]
    <3>1. PICK i \in 1 .. m - 1 : \E j \in 1 .. Len(s[i].frames) : c[x] = s[i].frames[j]
      BY <2>1 DEF Prefix
    <3>2. i \in 1 .. m
      BY <1>m
    <3> QED BY <2>1, <3>1, <3>2
  <2>2. CASE x - Len(c) \in 1 .. Len(a) /\ d[x] = a[x - Len(c)]
    <3>1. m \in 1 .. m
      BY <1>m
    <3> QED BY <1>2, <2>2, <3>1
  <2> QED BY <1>4, <2>1, <2>2
<1>11. ASSUME NEW i \in 1 .. m, NEW j \in 1 .. Len(s[i].frames) PROVE \E x \in 1 .. Len(d) : d[x] = s[i].frames[j]
  <2>1. CASE i = m
    BY <1>2, <1>6, <2>1
  <2>2. CASE i # m
    <3>1. i \in 1 .. m - 1
      BY <1>m, <2>2
    <3>2. PICK x \in 1 .. Len(c) : c[x] = s[i].frames[j]
      BY <3>1 DEF Prefix
    <3> QED BY <1>5, <3>2
  <2> QED BY <2>1, <2>2
<1> QED BY <1>3, <1>9, <1>10, <1>11 DEF Prefix

LEMMA PrefixRead ==
    ASSUME NEW s \in Seq(Streams), Sorted(s), NEW m \in 0 .. Len(s),
           NEW r, r = FlattenSeq([i \in 1 .. m |-> s[i].frames])
    PROVE  r \in Seq(Frames) /\ Increasing(r) /\ Prefix(r, s, m)
<1>m. m \in Nat /\ Len(s) \in Nat /\ m <= Len(s)
  OBVIOUS
<1>0. PICK ss : ss = [i \in 1 .. m |-> s[i].frames]
  OBVIOUS
<1>1. \A i \in 1 .. m : s[i] \in Streams
  BY <1>m
<1>2. ss \in Seq(Seq(Frames)) /\ Len(ss) = m /\ \A i \in 1 .. m : ss[i] = s[i].frames
  <2>1. \A i \in 1 .. m : s[i].frames \in Seq(Frames)
    BY <1>1 DEF Streams
  <2> QED BY <1>0, <1>m, <2>1
<1>3. CASE m = 0
  <2>1. r = ss /\ ss = << >>
    BY <1>0, <1>2, <1>3 DEF FlattenSeq
  <2>2. r = << >>
    BY <2>1
  <2>3. r \in Seq(Frames) /\ Len(r) = 0
    BY <2>2
  <2>4. 1 .. Len(r) = {} /\ 1 .. m = {}
    BY <1>3, <2>3
  <2> QED BY <2>3, <2>4 DEF Increasing, Prefix
<1>4. CASE m # 0
  <2>1. ss # << >>
    BY <1>2, <1>4
  <2>2. PICK F \in [1 .. m -> Seq(Frames)] : Joins(F, ss, m) /\ r = F[m]
    <3>1. r = FlattenSeq(ss)
      BY <1>0
    <3>2. \E F \in [1 .. Len(ss) -> Seq(Frames)] : Joins(F, ss, Len(ss)) /\ FlattenSeq(ss) = F[Len(ss)]
      BY <1>2, <2>1, Flattened
    <3> QED BY <1>2, <3>1, <3>2
  <2> DEFINE D == {i \in Nat : i \in 1 .. m => Increasing(F[i]) /\ Prefix(F[i], s, i)}
  <2>3. 0 \in D
    BY <1>m
  <2>4. ASSUME NEW i \in Nat, i \in D PROVE i + 1 \in D
    <3> SUFFICES ASSUME NEW l \in 1 .. m, l = i + 1 PROVE Increasing(F[l]) /\ Prefix(F[l], s, l)
      OBVIOUS
    <3>1. F[l] = IF l = 1 THEN ss[1] ELSE F[l - 1] \o ss[l]
      BY <2>2 DEF Joins
    <3>2. l \in 1 .. Len(s)
      BY <1>m
    <3>3. CASE l # 1
      <4>1. l - 1 = i /\ i \in 1 .. m
        BY <1>m, <3>3
      <4>2. PICK c \in Seq(Frames) : c = F[l - 1]
        BY <4>1
      <4>3. Increasing(c) /\ Prefix(c, s, l - 1)
        BY <2>4, <4>1, <4>2
      <4>4. F[l] = c \o s[l].frames
        BY <1>2, <3>1, <3>3, <4>2
      <4> QED BY <3>2, <4>3, <4>4, PrefixGrows
    <3>4. CASE l = 1
      <4>1. F[l] = s[l].frames /\ s[l] \in Streams
        BY <1>1, <1>2, <3>1, <3>4
      <4>2. Increasing(F[l])
        BY <3>2, <4>1 DEF Sorted, Increasing
      <4>3. \A j \in 1 .. l : j = l
        BY <3>4
      <4>4. l \in 1 .. l
        BY <3>4
      <4>5. Prefix(F[l], s, l)
        BY <4>1, <4>3, <4>4 DEF Prefix
      <4> QED BY <4>2, <4>5
    <3> QED BY <3>3, <3>4
  <2> HIDE DEF D
  <2>5. m \in D
    BY <1>m, <2>3, <2>4, SetInduction
  <2>6. m \in 1 .. m
    BY <1>m, <1>4
  <2> QED BY <2>2, <2>5, <2>6 DEF D
<1> QED BY <1>3, <1>4

LEMMA Reading ==
    ASSUME NEW h, NEW s \in Seq(Streams), s = file[h], Sorted(s), NEW r, r = Readable(h)
    PROVE  /\ r \in Seq(Frames) /\ Increasing(r)
           /\ \A x \in 1 .. Len(r) : Holds(s, r[x])
           /\ (\A i \in 1 .. Len(s) : s[i].ended) => \A n : Holds(s, n) => \E x \in 1 .. Len(r) : r[x] = n
<1>1. PICK I : I = {i \in 1 .. Len(s) : ~s[i].ended}
  OBVIOUS
<1>2. PICK stop : stop = IF I # {} THEN Min(I) ELSE 0
  OBVIOUS
<1>3. PICK m : m = IF stop = 0 THEN Len(s) ELSE stop
  OBVIOUS
<1>4. r = FlattenSeq([i \in 1 .. m |-> s[i].frames])
  BY <1>1, <1>2, <1>3 DEF Readable, SelectInSeq
<1>5. m \in 0 .. Len(s) /\ ((\A i \in 1 .. Len(s) : s[i].ended) => m = Len(s))
  <2>0. Len(s) \in Nat
    OBVIOUS
  <2>1. CASE I = {}
    BY <1>2, <1>3, <2>0, <2>1
  <2>2. CASE I # {}
    <3>1. I \in SUBSET Nat
      BY <1>1, <2>0
    <3>2. \E x \in I : \A y \in I : x <= y
      BY <2>2, <3>1, Least
    <3>3. Min(I) \in I
      BY <3>2 DEF Min
    <3>4. stop \in 1 .. Len(s) /\ ~s[stop].ended
      BY <1>1, <1>2, <2>2, <3>3
    <3> QED BY <1>3, <2>0, <3>4
  <2> QED BY <2>1, <2>2
<1>6. r \in Seq(Frames) /\ Increasing(r) /\ Prefix(r, s, m)
  BY <1>4, <1>5, PrefixRead
<1>7. \A i \in 1 .. m : i \in 1 .. Len(s)
  BY <1>5
<1>8. \A x \in 1 .. Len(r) : Holds(s, r[x])
  BY <1>6, <1>7 DEF Prefix, Holds
<1>9. m = Len(s) => \A n : Holds(s, n) => \E x \in 1 .. Len(r) : r[x] = n
  BY <1>6 DEF Prefix, Holds
<1> QED BY <1>5, <1>6, <1>8, <1>9

-----------------------------------------------------------------------------
(***************************************************************************)
(* The steps of the writer, on files fs, an encoder e and a queue q.       *)
(***************************************************************************)
Encoders == [hour : Hours \cup {NoHour}, started : BOOLEAN, buf : Seq(Frames),
             since_flush : 0 .. FlushEvery - 1]

Fine(fs, e, q, acc) ==
    /\ e \in Encoders /\ Len(e.buf) <= e.since_flush
    /\ e.hour = NoHour => e = NoFile
    /\ e.started => fs[e.hour] # << >>
    /\ Core(fs, e.buf, q, acc)

Whole(fs, e, q, acc) == Kept(fs, e.buf, q, acc) /\ Lasting(fs, e.hour, e.started)

LEMMA NoFileIs == /\ NoFile \in Encoders /\ NoFile.hour = NoHour /\ NoFile.started = FALSE
                  /\ NoFile.buf = << >> /\ Len(NoFile.buf) = 0 /\ NoFile.since_flush = 0
<1>1. NoFile.hour = NoHour /\ NoFile.started = FALSE /\ NoFile.buf = << >> /\ NoFile.since_flush = 0
  BY DEF NoFile
<1>2. Len(NoFile.buf) = 0
  BY <1>1
<1>3. NoFile \in Encoders
  BY ArchiveAssumption DEF NoFile, Encoders
<1> QED BY <1>1, <1>2, <1>3

LEMMA NoneFine ==
    ASSUME NEW fs, NEW b, NEW q, NEW acc, Core(fs, b, q, acc)
    PROVE  Fine(fs, NoFile, q, acc)
<1>1. Core(fs, << >>, q, acc)
  BY Dropped
<1>2. Len(NoFile.buf) <= NoFile.since_flush
  BY NoFileIs
<1> QED BY <1>1, <1>2, NoFileIs DEF Fine

\* A write that fails happens on a disk that fails, and loses the encoder.
LEMMA CutFine ==
    ASSUME NEW fs, NEW e, NEW q, NEW acc, Core(fs, e.buf, q, acc),
           e.hour \in Hours, e.started \in BOOLEAN, e.started => fs[e.hour] # << >>,
           NEW f \in cut_short(fs, e)
    PROVE  Core(f, << >>, q, acc) /\ ~healthy
<1>1. ~healthy
  BY DEF cut_short, IoErrors
<1>2. f = fs \/ \E k \in 0 .. Len(e.buf) : f = write_out(fs, e, k, FALSE)
  BY DEF cut_short
<1>3. CASE f = fs
  BY <1>1, <1>3, Dropped
<1>4. ASSUME NEW k \in 0 .. Len(e.buf), f = write_out(fs, e, k, FALSE)
      PROVE  Core(f, << >>, q, acc)
  <2>0. PICK b : b = e.buf
    OBVIOUS
  <2>a. PICK h \in Hours, st \in BOOLEAN : h = e.hour /\ st = e.started
    OBVIOUS
  <2>b. PICK end \in BOOLEAN : end = FALSE
    OBVIOUS
  <2>1. b = e.buf /\ h = e.hour /\ st = e.started /\ end = FALSE
    BY <2>0, <2>a, <2>b
  <2>2. f = WroteTo(fs, h, st, FirstOf(b, k), end)
    BY <1>4, <2>1, WriteOut
  <2>3. PICK r : r = Rest(b, k)
    OBVIOUS
  <2>4. Core(fs, b, q, acc) /\ (st => fs[h] # << >>) /\ k \in 0 .. Len(b)
    BY <2>1
  <2>5. Core(f, r, q, acc)
    BY <2>2, <2>3, <2>4, Written
  <2> QED BY <2>5, Dropped
<1> QED BY <1>1, <1>2, <1>3, <1>4

LEMMA FinalizeFine ==
    ASSUME NEW fs, NEW e, NEW q, NEW acc, Fine(fs, e, q, acc), e # NoFile, NEW f \in finalize(fs, e)
    PROVE  /\ Core(f, << >>, q, acc)
           /\ healthy /\ Whole(fs, e, q, acc) => Kept(f, << >>, q, acc) /\ Lasting(f, NoHour, FALSE)
<1>1. e.hour \in Hours /\ e.started \in BOOLEAN /\ e.buf \in Seq(Frames) /\ Core(fs, e.buf, q, acc)
      /\ (e.started => fs[e.hour] # << >>)
  BY DEF Fine, Encoders
<1>2. f \in cut_short(fs, e) \/ f = write_out(fs, e, Len(e.buf), TRUE)
  BY DEF finalize
<1>3. CASE f \in cut_short(fs, e)
  BY <1>1, <1>3, CutFine
<1>4. CASE f = write_out(fs, e, Len(e.buf), TRUE)
  <2>1. PICK b \in Seq(Frames), h \in Hours, st \in BOOLEAN : b = e.buf /\ h = e.hour /\ st = e.started
    BY <1>1
  <2>a. PICK k \in 0 .. Len(b) : k = Len(b)
    OBVIOUS
  <2>b. PICK end \in BOOLEAN : end = TRUE
    OBVIOUS
  <2>2. k = Len(b) /\ end = TRUE
    BY <2>a, <2>b
  <2>3. f = WroteTo(fs, h, st, FirstOf(b, k), end)
    BY <1>4, <2>1, <2>2, WriteOut
  <2>4. PICK r : r = Rest(b, k)
    OBVIOUS
  <2>5. r = << >>
    <3>1. r \in Seq(Frames) /\ Len(r) = Len(b) - k
      BY <2>4, Cut
    <3>2. Len(r) = 0
      BY <2>2, <3>1
    <3> QED BY <3>1, <3>2
  <2>6. Core(fs, b, q, acc) /\ (st => fs[h] # << >>)
    BY <1>1, <2>1
  <2>7. /\ Core(f, r, q, acc)
        /\ Kept(fs, b, q, acc) => Kept(f, r, q, acc)
        /\ Lasting(fs, h, st) => Lasting(f, h, ~end)
    BY <2>3, <2>4, <2>6, Written
  <2>8. Lasting(f, h, ~end) => Lasting(f, NoHour, FALSE)
    BY <2>2 DEF Lasting
  <2>9. Whole(fs, e, q, acc) => Kept(fs, b, q, acc) /\ Lasting(fs, h, st)
    BY <2>1 DEF Whole
  <2> QED BY <2>5, <2>7, <2>8, <2>9
<1> QED BY <1>2, <1>3, <1>4

\* need_rotate.
LEMMA RotateFine ==
    ASSUME NEW fs, NEW e, NEW q, NEW acc, Fine(fs, e, q, acc), hour \in Hours, NEW r \in rotate(fs, e)
    PROVE  /\ Fine(r.file, r.state, q, acc)
           /\ r.state = NoFile \/ r.state.hour = hour
           /\ healthy /\ Whole(fs, e, q, acc) => r.state # NoFile /\ Whole(r.file, r.state, q, acc)
<1>n. \A x : x.hour = hour => x # NoFile
  BY ArchiveAssumption, NoFileIs
<1>1. CASE e.hour = hour
  <2>1. r = [file |-> fs, state |-> e]
    BY <1>1 DEF rotate
  <2>2. r.file = fs /\ r.state = e
    BY <2>1
  <2> QED BY <1>1, <1>n, <2>2
<1>2. CASE e.hour # hour
  <2>1. PICK f \in (IF e = NoFile THEN {fs} ELSE finalize(fs, e)), o \in open : r = [file |-> f, state |-> o]
    <3> DEFINE fin == IF e = NoFile THEN {fs} ELSE finalize(fs, e)
    <3>1. rotate(fs, e) = {[file |-> f, state |-> o] : f \in fin, o \in open}
      BY <1>2 DEF rotate
    <3> HIDE DEF fin
    <3>2. \E f \in fin, o \in open : r = [file |-> f, state |-> o]
      BY <3>1
    <3> QED BY <3>2 DEF fin
  <2>2. r.file = f /\ r.state = o
    BY <2>1
  <2>3. /\ Core(f, << >>, q, acc)
        /\ healthy /\ Whole(fs, e, q, acc) => Kept(f, << >>, q, acc) /\ Lasting(f, NoHour, FALSE)
    <3>1. CASE e = NoFile
      <4>1. f = fs
        BY <2>1, <3>1
      <4>2. Core(fs, << >>, q, acc)
        BY Dropped DEF Fine
      <4>3. Whole(fs, e, q, acc) => Kept(fs, << >>, q, acc) /\ Lasting(fs, NoHour, FALSE)
        BY <3>1, NoFileIs DEF Whole
      <4> QED BY <4>1, <4>2, <4>3
    <3>2. CASE e # NoFile
      BY <2>1, <3>2, FinalizeFine
    <3> QED BY <3>1, <3>2
  <2>4. CASE o = NoFile /\ ~healthy
    BY <2>2, <2>3, <2>4, NoneFine
  <2>5. CASE o = [NoFile EXCEPT !.hour = hour]
    <3>0. o = [hour |-> hour, started |-> FALSE, buf |-> << >>, since_flush |-> 0]
      BY <2>5 DEF NoFile
    <3>1. /\ o \in Encoders /\ o.hour = hour /\ o.started = FALSE /\ o.buf = << >> /\ o.since_flush = 0
      <4>1. << >> \in Seq(Frames) /\ 0 \in 0 .. FlushEvery - 1
        BY ArchiveAssumption
      <4>2. o \in Encoders
        BY <3>0, <4>1 DEF Encoders
      <4> QED BY <3>0, <4>2
    <3>2. Len(o.buf) <= o.since_flush
      BY <3>1
    <3>3. hour # NoHour
      BY ArchiveAssumption
    <3>4. Fine(f, o, q, acc)
      BY <2>3, <3>1, <3>2, <3>3 DEF Fine
    <3>5. Lasting(f, NoHour, FALSE) => Lasting(f, hour, FALSE)
      BY DEF Lasting
    <3>6. healthy /\ Whole(fs, e, q, acc) => Whole(f, o, q, acc)
      BY <2>3, <3>1, <3>5 DEF Whole
    <3> QED BY <1>n, <2>2, <3>1, <3>4, <3>6
  <2>6. (o = NoFile /\ ~healthy) \/ o = [NoFile EXCEPT !.hour = hour]
    BY <2>1 DEF open, IoErrors
  <2> QED BY <2>4, <2>5, <2>6
<1> QED BY <1>1, <1>2

\* The encoder with the frame n, and what it keeps once k frames are out.
Encoded(e, n) == [e EXCEPT !.buf = Append(@, n), !.since_flush = @ + 1]
Keeps(b, k)   == [b EXCEPT !.started = @ \/ k > 0, !.buf = SubSeq(@, k + 1, Len(@))]

\* What write_frame makes of the files, with b the encoder that has the frame:
\* everything is out, or a part of it, or the write failed.
Outcome(fs, b, w) ==
    \/ /\ b.since_flush >= FlushEvery
       /\ w.file = write_out(fs, b, Len(b.buf), FALSE)
       /\ w.state = [Keeps(b, Len(b.buf)) EXCEPT !.since_flush = 0]
    \/ /\ ~(b.since_flush >= FlushEvery)
       /\ \E k \in 0 .. Len(b.buf) :
              /\ w.file = IF k = 0 THEN fs ELSE write_out(fs, b, k, FALSE)
              /\ w.state = Keeps(b, k)
    \/ /\ w.file \in cut_short(fs, b)
       /\ w.state = NoFile

LEMMA FrameOutcomes ==
    ASSUME NEW fs, NEW e, NEW n, NEW w \in write_frame(fs, e, n), NEW b, b = Encoded(e, n)
    PROVE  Outcome(fs, b, w)
<1> DEFINE done == IF b.since_flush >= FlushEvery
                   THEN {[file |-> write_out(fs, b, Len(b.buf), FALSE),
                          state |-> [Keeps(b, Len(b.buf)) EXCEPT !.since_flush = 0]]}
                   ELSE {[file |-> IF k = 0 THEN fs ELSE write_out(fs, b, k, FALSE),
                          state |-> Keeps(b, k)] : k \in 0 .. Len(b.buf)}
           cut == {[file |-> f, state |-> NoFile] : f \in cut_short(fs, b)}
<1>1. write_frame(fs, e, n) = done \cup cut
  BY Zenon DEF write_frame, Encoded, Keeps
<1>2. w \in done \/ w \in cut
  <2> HIDE DEF done, cut
  <2> QED BY <1>1
<1>3. CASE w \in cut
  <2>1. PICK f \in cut_short(fs, b) : w = [file |-> f, state |-> NoFile]
    BY <1>3, Zenon
  <2>2. w.file = f /\ w.state = NoFile
    BY <2>1
  <2> QED BY <2>1, <2>2, Zenon DEF Outcome
<1>4. CASE w \in done /\ b.since_flush >= FlushEvery
  <2>1. w = [file |-> write_out(fs, b, Len(b.buf), FALSE),
             state |-> [Keeps(b, Len(b.buf)) EXCEPT !.since_flush = 0]]
    BY <1>4, Zenon
  <2>2. /\ w.file = write_out(fs, b, Len(b.buf), FALSE)
        /\ w.state = [Keeps(b, Len(b.buf)) EXCEPT !.since_flush = 0]
    BY <2>1, Zenon
  <2> QED BY <1>4, <2>2, Zenon DEF Outcome
<1>5. CASE w \in done /\ ~(b.since_flush >= FlushEvery)
  <2>1. PICK k \in 0 .. Len(b.buf) :
            w = [file |-> IF k = 0 THEN fs ELSE write_out(fs, b, k, FALSE), state |-> Keeps(b, k)]
    BY <1>5, Zenon
  <2>2. w.file = (IF k = 0 THEN fs ELSE write_out(fs, b, k, FALSE)) /\ w.state = Keeps(b, k)
    BY <2>1, Zenon
  <2> QED BY <1>5, <2>1, <2>2, Zenon DEF Outcome
<1> QED BY <1>2, <1>3, <1>4, <1>5

LEMMA FrameFine ==
    ASSUME NEW fs, NEW e, NEW q, NEW acc, Fine(fs, e, q, acc), e.hour \in Hours, q # << >>,
           NEW w \in write_frame(fs, e, Head(q))
    PROVE  /\ Fine(w.file, w.state, Tail(q), acc)
           /\ healthy /\ Whole(fs, e, q, acc) => Whole(w.file, w.state, Tail(q), acc)
<1>1. PICK b : b = Encoded(e, Head(q))
  OBVIOUS
<1>2. PICK t : t = Left(q) /\ t = Tail(q)
  BY DEF Left
<1>3. PICK c : c = Joined(e.buf, q)
  OBVIOUS
<1>4. e \in Encoders /\ Core(fs, e.buf, q, acc) /\ Len(e.buf) <= e.since_flush /\ (e.started => fs[e.hour] # << >>)
  BY DEF Fine
<1>5. /\ Core(fs, c, t, acc) /\ Len(c) = Len(e.buf) + 1 /\ Len(e.buf) \in Nat
      /\ Kept(fs, e.buf, q, acc) => Kept(fs, c, t, acc)
  <2>1. PICK d : d = e.buf
    OBVIOUS
  <2>2. Core(fs, d, q, acc) /\ c = Joined(d, q) /\ t = Left(q)
    BY <1>2, <1>3, <1>4, <2>1
  <2>3. /\ Core(fs, c, t, acc) /\ Len(c) = Len(d) + 1 /\ Len(d) \in Nat
        /\ Kept(fs, d, q, acc) => Kept(fs, c, t, acc)
    BY <2>2, Taken
  <2> QED BY <2>1, <2>3
<1>6. c \in Seq(Frames)
  BY <1>5 DEF Core
<1>7. PICK h \in Hours, st \in BOOLEAN, n \in Nat :
          h = e.hour /\ st = e.started /\ n = e.since_flush + 1 /\ n <= FlushEvery
  <2>1. e.started \in BOOLEAN /\ e.since_flush \in 0 .. FlushEvery - 1
    BY <1>4 DEF Encoders
  <2> QED BY <2>1, ArchiveAssumption
<1>8. b = [hour |-> h, started |-> st, buf |-> c, since_flush |-> n]
  BY <1>1, <1>3, <1>4, <1>7 DEF Encoded, Encoders, Joined
<1>9. b.hour = h /\ b.started = st /\ b.buf = c /\ b.since_flush = n
  BY <1>8
<1>10. Len(c) \in Nat \ {0} /\ Len(c) <= n
  BY <1>4, <1>5, <1>7 DEF Encoders
<1>11. st => fs[h] # << >>
  BY <1>4, <1>7
<1>12. Whole(fs, e, q, acc) => Kept(fs, c, t, acc) /\ Lasting(fs, h, st)
  BY <1>5, <1>7 DEF Whole
<1>13. ASSUME NEW k \in 0 .. Len(c), NEW x \in Encoders, NEW f,
              x.hour = h, x.started = (st \/ k > 0), x.buf = Rest(c, k), Len(x.buf) <= x.since_flush,
              f = IF k = 0 THEN fs ELSE write_out(fs, b, k, FALSE)
       PROVE  Fine(f, x, t, acc) /\ (Whole(fs, e, q, acc) => Whole(f, x, t, acc))
  <2>1. h # NoHour
    BY ArchiveAssumption
  <2>2. PICK r : r = Rest(c, k)
    OBVIOUS
  <2>3. CASE k = 0
    <3>1. r = c
      <4>1. r \in Seq(Frames) /\ Len(r) = Len(c) - k /\ \A i \in 1 .. Len(c) - k : r[i] = c[k + i]
        BY <1>6, <2>2, Cut
      <4>2. Len(r) = Len(c) /\ \A i \in 1 .. Len(c) : i \in 1 .. Len(c) - k /\ k + i = i
        BY <1>6, <2>3, <4>1
      <4>3. \A i \in 1 .. Len(c) : r[i] = c[i]
        BY <4>1, <4>2
      <4> QED BY <1>6, <4>1, <4>2, <4>3, SeqEqual
    <3>2. f = fs /\ x.started = st /\ x.buf = c
      BY <1>13, <2>2, <2>3, <3>1
    <3> QED BY <1>5, <1>11, <1>12, <1>13, <2>1, <3>2 DEF Fine, Whole
  <2>4. CASE k # 0
    <3>0. PICK end \in BOOLEAN : end = FALSE
      OBVIOUS
    <3>1. f = WroteTo(fs, h, st, FirstOf(c, k), end)
      BY <1>9, <1>13, <2>4, <3>0, WriteOut
    <3>2. /\ Core(f, r, t, acc) /\ f[h] # << >>
          /\ Kept(fs, c, t, acc) => Kept(f, r, t, acc)
          /\ Lasting(fs, h, st) => Lasting(f, h, ~end)
      BY <1>5, <1>11, <2>2, <3>1, Written
    <3>3. k > 0
      BY <1>10, <2>4
    <3>4. x.started = ~end /\ x.started = TRUE /\ x.buf = r
      BY <1>13, <2>2, <3>0, <3>3
    <3> QED BY <1>12, <1>13, <2>1, <3>2, <3>4 DEF Fine, Whole
  <2> QED BY <2>3, <2>4
<1>14. ASSUME NEW k \in 0 .. Len(c)
       PROVE  Keeps(b, k) = [hour |-> h, started |-> (st \/ k > 0), buf |-> Rest(c, k), since_flush |-> n]
  <2>1. PICK y, z : y = (st \/ k > 0) /\ z = Rest(c, k)
    OBVIOUS
  <2>2. Keeps(b, k) = [b EXCEPT !.started = (st \/ k > 0), !.buf = Rest(c, k)]
    BY <1>9, Zenon DEF Keeps, Rest
  <2>3. Keeps(b, k) = [b EXCEPT !.started = y, !.buf = z]
    BY <2>1, <2>2, Zenon
  <2>4. Keeps(b, k) = [hour |-> h, started |-> y, buf |-> z, since_flush |-> n]
    BY <1>8, <2>3
  <2> QED BY <2>1, <2>4
<1>15. ASSUME NEW k \in 0 .. Len(c), NEW r, r = Rest(c, k)
       PROVE  r \in Seq(Frames) /\ Len(r) = Len(c) - k /\ k \in Nat
  BY <1>6, <1>15, Cut
<1>16. CASE /\ b.since_flush >= FlushEvery
            /\ w.file = write_out(fs, b, Len(b.buf), FALSE)
            /\ w.state = [Keeps(b, Len(b.buf)) EXCEPT !.since_flush = 0]
  <2>1. PICK k \in 0 .. Len(c) : k = Len(c) /\ k # 0
    BY <1>10
  <2>2. PICK r : r = Rest(c, k)
    OBVIOUS
  <2>3. r \in Seq(Frames) /\ Len(r) = 0
    BY <1>6, <1>15, <2>1, <2>2
  <2>4. w.state = [hour |-> h, started |-> (st \/ k > 0), buf |-> r, since_flush |-> 0]
    BY <1>9, <1>14, <1>16, <2>1, <2>2
  <2>5. w.state \in Encoders /\ w.state.hour = h /\ w.state.started = (st \/ k > 0) /\ w.state.buf = r
        /\ w.state.since_flush = 0
    BY <2>3, <2>4, ArchiveAssumption DEF Encoders
  <2>6. Len(w.state.buf) <= w.state.since_flush
    BY <2>3, <2>5
  <2>7. w.file = IF k = 0 THEN fs ELSE write_out(fs, b, k, FALSE)
    BY <1>9, <1>16, <2>1
  <2> QED BY <1>2, <1>13, <2>2, <2>5, <2>6, <2>7
<1>17. ASSUME ~(b.since_flush >= FlushEvery), NEW k \in 0 .. Len(b.buf),
              w.file = IF k = 0 THEN fs ELSE write_out(fs, b, k, FALSE), w.state = Keeps(b, k)
       PROVE  /\ Fine(w.file, w.state, Tail(q), acc)
              /\ healthy /\ Whole(fs, e, q, acc) => Whole(w.file, w.state, Tail(q), acc)
  <2>1. k \in 0 .. Len(c)
    BY <1>9
  <2>2. PICK r : r = Rest(c, k)
    OBVIOUS
  <2>3. r \in Seq(Frames) /\ Len(r) = Len(c) - k /\ k \in Nat
    BY <1>15, <2>1, <2>2
  <2>4. w.state = [hour |-> h, started |-> (st \/ k > 0), buf |-> r, since_flush |-> n]
    BY <1>14, <1>17, <2>1, <2>2
  <2>5. n \in 0 .. FlushEvery - 1
    BY <1>7, <1>9, <1>17, ArchiveAssumption
  <2>6. w.state \in Encoders /\ w.state.hour = h /\ w.state.started = (st \/ k > 0) /\ w.state.buf = r
        /\ w.state.since_flush = n
    BY <2>3, <2>4, <2>5 DEF Encoders
  <2>7. Len(w.state.buf) <= w.state.since_flush
    BY <1>10, <2>3, <2>6
  <2> QED BY <1>2, <1>13, <1>17, <2>1, <2>2, <2>6, <2>7
<1>18. CASE w.file \in cut_short(fs, b) /\ w.state = NoFile
  <2>0. Core(fs, b.buf, t, acc) /\ b.hour \in Hours /\ b.started \in BOOLEAN /\ (b.started => fs[b.hour] # << >>)
    BY <1>5, <1>9, <1>11
  <2>a. PICK f \in cut_short(fs, b) : f = w.file
    BY <1>18
  <2>b. Core(f, << >>, t, acc) /\ ~healthy
    BY <2>0, CutFine
  <2>1. Core(w.file, << >>, t, acc) /\ ~healthy
    BY <2>a, <2>b
  <2> QED BY <1>2, <1>18, <2>1, NoneFine
<1>19. PICK y : y = Head(q)
  OBVIOUS
<1>20. w \in write_frame(fs, e, y) /\ b = Encoded(e, y)
  BY <1>1, <1>19
<1>21. Outcome(fs, b, w)
  BY <1>20, FrameOutcomes
<1> QED BY <1>16, <1>17, <1>18, <1>21 DEF Outcome

-----------------------------------------------------------------------------
(***************************************************************************)
(* The inductive invariant, and what a healthy disk adds to it when the    *)
(* owner calls shutdown.                                                   *)
(***************************************************************************)
Counters ==
    /\ hour \in Hours
    /\ pushed \in 0 .. MaxFrames
    /\ accepted \subseteq 1 .. pushed
    /\ Len(queue) <= ChannelCap
    /\ closed \in BOOLEAN
    /\ writer \in {"recv", "ended"}
    /\ up \in BOOLEAN /\ orderly \in BOOLEAN
    /\ runs \in 1 .. MaxRuns
    /\ healthy \in BOOLEAN

Ended == writer = "ended" => closed /\ queue = << >> /\ state = NoFile

AInv == Counters /\ Fine(file, state, queue, accepted) /\ Ended

WInv == healthy => Whole(file, state, queue, accepted)

LEMMA InitAInv == Init => AInv /\ WInv
<1> SUFFICES ASSUME Init PROVE AInv /\ WInv
  OBVIOUS
<1>1. /\ hour \in Hours /\ pushed = 0 /\ accepted = {} /\ queue = << >> /\ closed = FALSE /\ writer = "recv"
      /\ state = NoFile /\ file = [h \in Hours |-> << >>]
      /\ up = TRUE /\ orderly = FALSE /\ runs = 1 /\ healthy = TRUE
  BY DEF Init
<1>2. PICK c : c = << >>
  OBVIOUS
<1>3. c \in Seq(Frames) /\ c \in Seq(Streams) /\ Len(c) = 0
  BY <1>2
<1>4. 1 .. Len(c) = {}
  BY <1>3
<1>5. (\A n : ~Holds(c, n)) /\ Sorted(c) /\ Increasing(c)
  BY <1>4 DEF Holds, Sorted, Increasing
<1>6. file \in [Hours -> Seq(Streams)] /\ \A h \in Hours : file[h] = c
  BY <1>1, <1>2, <1>3
<1>7. Core(file, c, c, {})
  BY <1>3, <1>4, <1>5, <1>6 DEF Core, Older
<1>8. Fine(file, state, queue, accepted)
  BY <1>1, <1>2, <1>7, NoneFine
<1>9. Counters
  <2>1. Len(queue) = 0
    BY <1>1
  <2>2. 0 \in 0 .. MaxFrames /\ 1 \in 1 .. MaxRuns /\ 0 <= ChannelCap
    BY ArchiveAssumption
  <2>3. accepted \subseteq 1 .. pushed /\ Len(queue) <= ChannelCap
    BY <1>1, <2>1, <2>2
  <2> QED BY <1>1, <2>2, <2>3 DEF Counters
<1>10. Ended
  BY <1>1 DEF Ended
<1>11. Whole(file, state, queue, accepted)
  BY <1>1, <1>4, <1>6 DEF Whole, Kept, Lasting
<1> QED BY <1>8, <1>9, <1>10, <1>11 DEF AInv, WInv

LEMMA PushStep ==
    ASSUME AInv, try_push
    PROVE  AInv' /\ (WInv => WInv')
<1>1. /\ up /\ ~closed /\ pushed < MaxFrames /\ pushed' = pushed + 1
      /\ hour' = hour /\ closed' = closed /\ writer' = writer /\ state' = state /\ file' = file
      /\ up' = up /\ orderly' = orderly /\ runs' = runs /\ healthy' = healthy
  BY DEF try_push
<1>2. Counters /\ Fine(file, state, queue, accepted) /\ Ended
  BY DEF AInv
<1>3. pushed \in Nat /\ pushed' \in 0 .. MaxFrames /\ pushed' \in Frames /\ accepted \subseteq 1 .. pushed'
      /\ pushed' \in 1 .. pushed' /\ Newest(pushed', accepted)
  BY <1>1, <1>2, ArchiveAssumption DEF Counters, Frames, Newest
<1>4. writer = "recv"
  BY <1>1, <1>2 DEF Counters, Ended
<1>5. CASE queue' = queue /\ accepted' = accepted
  <2>1. Counters'
    BY <1>1, <1>2, <1>3, <1>5 DEF Counters
  <2>2. Fine(file', state', queue', accepted') /\ (WInv => WInv')
    BY <1>1, <1>2, <1>5 DEF WInv
  <2> QED BY <1>1, <1>4, <2>1, <2>2 DEF AInv, Ended
<1>6. CASE Len(queue) < ChannelCap /\ queue' = Append(queue, pushed') /\ accepted' = accepted \cup {pushed'}
  <2>1. PICK x \in Frames : x = pushed'
    BY <1>3
  <2>2. PICK b, t, now : b = state.buf /\ t = Behind(queue, x) /\ now = accepted \cup {x}
    OBVIOUS
  <2>3. Core(file, b, queue, accepted) /\ Newest(x, accepted)
    BY <1>2, <1>3, <2>1, <2>2 DEF Fine
  <2>4. /\ Core(file, b, t, now) /\ Len(t) = Len(queue) + 1
        /\ Kept(file, b, queue, accepted) => Kept(file, b, t, now)
    BY <2>2, <2>3, Pushed
  <2>5. queue' = t /\ accepted' = now
    BY <1>6, <2>1, <2>2 DEF Behind
  <2>6. Len(queue) \in Nat
    BY <2>3 DEF Core
  <2>7. Len(t) <= ChannelCap
    <3>1. Len(queue) < ChannelCap /\ Len(t) = Len(queue) + 1
      BY <1>6, <2>4
    <3> QED BY <2>6, <3>1, ArchiveAssumption
  <2>8. now \subseteq 1 .. pushed'
    BY <1>3, <2>1, <2>2
  <2>9. Counters'
    BY <1>1, <1>2, <1>3, <2>5, <2>7, <2>8 DEF Counters
  <2>10. Fine(file', state', queue', accepted')
    BY <1>1, <1>2, <2>2, <2>4, <2>5 DEF Fine
  <2>11. WInv => WInv'
    BY <1>1, <2>2, <2>4, <2>5 DEF WInv, Whole
  <2> QED BY <1>1, <1>4, <2>9, <2>10, <2>11 DEF AInv, Ended
<1> QED BY <1>5, <1>6 DEF try_push

LEMMA WriterStep ==
    ASSUME AInv, writer_iteration
    PROVE  AInv' /\ (WInv => WInv')
<1>1. /\ up /\ writer = "recv" /\ queue # << >> /\ queue' = Tail(queue)
      /\ hour' = hour /\ pushed' = pushed /\ accepted' = accepted /\ closed' = closed /\ writer' = writer
      /\ up' = up /\ orderly' = orderly /\ runs' = runs /\ healthy' = healthy
  BY DEF writer_iteration
<1>2. Counters /\ Fine(file, state, queue, accepted)
  BY DEF AInv
<1>3. PICK r \in rotate(file, state) :
          IF r.state = NoFile
          THEN file' = r.file /\ state' = NoFile
          ELSE \E w \in write_frame(r.file, r.state, Head(queue)) : file' = w.file /\ state' = w.state
  BY DEF writer_iteration
<1>4. hour \in Hours
  BY <1>2 DEF Counters
<1>5. /\ Fine(r.file, r.state, queue, accepted)
      /\ r.state = NoFile \/ r.state.hour = hour
      /\ healthy /\ Whole(file, state, queue, accepted) => r.state # NoFile /\ Whole(r.file, r.state, queue, accepted)
  BY <1>2, <1>4, RotateFine
<1>6. queue \in Seq(Frames)
  BY <1>2 DEF Fine, Core
<1>7. Len(queue') <= ChannelCap
  <2>1. Len(queue') = Len(queue) - 1 /\ Len(queue) \in Nat
    BY <1>1, <1>6, HeadTailProperties
  <2> QED BY <1>2, <2>1, ArchiveAssumption DEF Counters
<1>8. Counters' /\ Ended'
  BY <1>1, <1>2, <1>7 DEF Counters, Ended
<1>9. Fine(file', state', queue', accepted') /\ (healthy /\ Whole(file, state, queue, accepted) => Whole(file', state', queue', accepted'))
  <2>1. PICK g, e : g = r.file /\ e = r.state
    OBVIOUS
  <2>2. CASE e = NoFile
    <3>1. PICK c, t : c = Joined(e.buf, queue) /\ t = Left(queue)
      OBVIOUS
    <3>2. Core(g, e.buf, queue, accepted)
      BY <1>5, <2>1 DEF Fine
    <3>3. PICK d : d = e.buf
      OBVIOUS
    <3>4. Core(g, d, queue, accepted) /\ c = Joined(d, queue)
      BY <3>1, <3>2, <3>3
    <3>5. Core(g, c, t, accepted)
      BY <1>1, <3>1, <3>4, Taken
    <3>6. Fine(g, NoFile, t, accepted)
      BY <3>5, NoneFine
    <3>7. file' = g /\ state' = NoFile /\ queue' = t
      BY <1>1, <1>3, <2>1, <2>2, <3>1 DEF Left
    <3> QED BY <1>1, <1>5, <2>1, <2>2, <3>6, <3>7
  <2>3. CASE e # NoFile
    <3>1. PICK w \in write_frame(g, e, Head(queue)) : file' = w.file /\ state' = w.state
      BY <1>3, <2>1, <2>3
    <3>2. Fine(g, e, queue, accepted) /\ e.hour \in Hours
      BY <1>4, <1>5, <2>1, <2>3
    <3>3. /\ Fine(w.file, w.state, Tail(queue), accepted)
          /\ healthy /\ Whole(g, e, queue, accepted) => Whole(w.file, w.state, Tail(queue), accepted)
      BY <1>1, <3>2, FrameFine
    <3> QED BY <1>1, <1>5, <2>1, <3>1, <3>3
  <2> QED BY <2>2, <2>3
<1> QED BY <1>1, <1>8, <1>9 DEF AInv, WInv

LEMMA EndStep ==
    ASSUME AInv, writer_end
    PROVE  AInv' /\ (WInv => WInv')
<1>1. /\ up /\ queue = << >> /\ closed /\ writer' = "ended" /\ state' = NoFile
      /\ file' \in (IF state = NoFile THEN {file} ELSE finalize(file, state))
      /\ hour' = hour /\ pushed' = pushed /\ accepted' = accepted /\ closed' = closed /\ queue' = queue
      /\ up' = up /\ orderly' = orderly /\ runs' = runs /\ healthy' = healthy
  BY DEF writer_end
<1>2. Counters /\ Fine(file, state, queue, accepted)
  BY DEF AInv
<1>3. Counters' /\ Ended'
  BY <1>1, <1>2 DEF Counters, Ended
<1>4. PICK f : f = file'
  OBVIOUS
<1>5. /\ Core(f, << >>, queue, accepted)
      /\ healthy /\ Whole(file, state, queue, accepted) => Kept(f, << >>, queue, accepted) /\ Lasting(f, NoHour, FALSE)
  <2>1. CASE state = NoFile
    <3>1. f = file
      BY <1>1, <1>4, <2>1
    <3>2. Core(file, << >>, queue, accepted)
      BY <1>2, Dropped DEF Fine
    <3> QED BY <2>1, <3>1, <3>2, NoFileIs DEF Whole
  <2>2. CASE state # NoFile
    <3>1. f \in finalize(file, state)
      BY <1>1, <1>4, <2>2
    <3> QED BY <1>2, <2>2, <3>1, FinalizeFine
  <2> QED BY <2>1, <2>2
<1>6. Fine(f, NoFile, queue, accepted)
  BY <1>5, NoneFine
<1>7. healthy /\ Whole(file, state, queue, accepted) => Whole(f, NoFile, queue, accepted)
  BY <1>5, NoFileIs DEF Whole
<1>8. Fine(file', state', queue', accepted') /\ (WInv => WInv')
  BY <1>1, <1>4, <1>6, <1>7 DEF WInv
<1> QED BY <1>3, <1>8 DEF AInv

\* The process is gone; after a shutdown nothing was left in it.
LEMMA GoneStep ==
    ASSUME AInv, exit \/ crash
    PROVE  AInv' /\ (CallsShutdown /\ WInv => WInv')
<1>1. PICK how \in BOOLEAN : /\ up' = FALSE /\ orderly' = how /\ queue' = << >> /\ state' = NoFile
                             /\ healthy' = (healthy /\ how) /\ hour' = hour /\ pushed' = pushed
                             /\ accepted' = accepted /\ closed' = closed /\ writer' = writer
                             /\ file' = file /\ runs' = runs
                             /\ how /\ CallsShutdown => writer = "ended"
  <2>1. CASE exit
    <3>1. Ends(TRUE) /\ (CallsShutdown => writer = "ended")
      BY <2>1 DEF exit
    <3> QED BY <3>1 DEF Ends
  <2>2. CASE crash
    <3>1. Ends(FALSE)
      BY <2>2 DEF crash
    <3> QED BY <3>1 DEF Ends
  <2> QED BY <2>1, <2>2
<1>2. Counters /\ Fine(file, state, queue, accepted) /\ Ended
  BY DEF AInv
<1>3. Len(queue') <= ChannelCap
  <2>1. Len(queue') = 0
    BY <1>1
  <2> QED BY <2>1, ArchiveAssumption
<1>4. Counters' /\ Ended'
  BY <1>1, <1>2, <1>3 DEF Counters, Ended
<1>5. Fine(file', state', queue', accepted')
  <2>1. Core(file, << >>, << >>, accepted)
    BY <1>2, Dropped DEF Fine
  <2>2. Fine(file, NoFile, << >>, accepted)
    BY <2>1, NoneFine
  <2> QED BY <1>1, <2>2
<1>6. ASSUME CallsShutdown, WInv PROVE WInv'
  <2> SUFFICES ASSUME healthy' PROVE Whole(file', state', queue', accepted')
    BY DEF WInv
  <2>1. healthy /\ how
    BY <1>1
  <2>2. queue = << >> /\ state = NoFile
    BY <1>1, <1>2, <1>6, <2>1 DEF Ended
  <2> QED BY <1>1, <1>6, <2>1, <2>2 DEF WInv
<1> QED BY <1>4, <1>5, <1>6 DEF AInv

LEMMA OtherStep ==
    ASSUME AInv, close \/ restart \/ disk_fails \/ (\E h \in Hours : clock(h)) \/ UNCHANGED vars
    PROVE  AInv' /\ (WInv => WInv')
<1>1. /\ queue' = queue /\ state' = state /\ file' = file /\ accepted' = accepted /\ pushed' = pushed
      /\ healthy' => healthy
  BY DEF close, restart, disk_fails, clock, vars
<1>2. Counters /\ Fine(file, state, queue, accepted) /\ Ended
  BY DEF AInv
<1>3. Counters'
  <2>1. CASE close \/ disk_fails \/ (\E h \in Hours : clock(h)) \/ UNCHANGED vars
    BY <1>1, <1>2, <2>1 DEF Counters, close, disk_fails, clock, vars
  <2>2. CASE restart
    <3>1. runs' \in 1 .. MaxRuns
      BY <1>2, <2>2, ArchiveAssumption DEF Counters, restart
    <3> QED BY <1>1, <1>2, <2>2, <3>1 DEF Counters, restart
  <2> QED BY <2>1, <2>2
<1>4. Ended'
  BY <1>1, <1>2 DEF Ended, close, restart, disk_fails, clock, vars
<1>5. Fine(file', state', queue', accepted') /\ (WInv => WInv')
  BY <1>1, <1>2 DEF WInv
<1> QED BY <1>3, <1>4, <1>5 DEF AInv

LEMMA NextAInv == AInv /\ [Next]_vars => AInv' /\ (CallsShutdown /\ WInv => WInv')
<1> SUFFICES ASSUME AInv, [Next]_vars PROVE AInv' /\ (CallsShutdown /\ WInv => WInv')
  OBVIOUS
<1>1. CASE try_push
  BY <1>1, PushStep
<1>2. CASE writer_iteration
  BY <1>2, WriterStep
<1>3. CASE writer_end
  BY <1>3, EndStep
<1>4. CASE exit \/ crash
  BY <1>4, GoneStep
<1>5. CASE close \/ restart \/ disk_fails \/ (\E h \in Hours : clock(h)) \/ UNCHANGED vars
  BY <1>5, OtherStep
<1> QED BY <1>1, <1>2, <1>3, <1>4, <1>5 DEF Next

LEMMA ArchiveInvariant == Spec => []AInv
BY InitAInv, NextAInv, PTL DEF Spec

-----------------------------------------------------------------------------
\* The archive's state keeps its type, and the encoder never holds as much as
\* the flush threshold, whatever fails (HourFile::write_frame).
THEOREM TypeCorrect == Spec => []TypeOK
<1>1. AInv => TypeOK
  <2> SUFFICES ASSUME AInv PROVE TypeOK
    OBVIOUS
  <2>1. Counters /\ Fine(file, state, queue, accepted)
    BY DEF AInv
  <2>2. state \in Encoders /\ Len(state.buf) <= state.since_flush /\ queue \in Seq(Frames)
        /\ file \in [Hours -> Seq(Streams)]
    BY <2>1 DEF Fine, Core
  <2>3. Len(state.buf) < FlushEvery
    <3>1. state.since_flush \in 0 .. FlushEvery - 1 /\ state.buf \in Seq(Frames)
      BY <2>2 DEF Encoders
    <3>2. Len(state.buf) \in Nat
      BY <3>1
    <3> QED BY <2>2, <3>1, <3>2, ArchiveAssumption
  <2>4. accepted \subseteq Frames
    BY <2>1, ArchiveAssumption DEF Counters, Frames
  <2> QED BY <2>1, <2>2, <2>3, <2>4 DEF TypeOK, Counters, Encoders, Streams
<1> QED BY <1>1, ArchiveInvariant, PTL

\* Whatever fails and whenever, with any number of frames and runs and with a
\* clock that is set back: a reader of the archive gets frames that were
\* accepted, in the order they were pushed, and no frame twice.
THEOREM ArchiveIsFaithful == Spec => []ArchiveFaithful
<1>1. AInv => ArchiveFaithful
  <2> SUFFICES ASSUME AInv PROVE ArchiveFaithful
    OBVIOUS
  <2>1. Core(file, state.buf, queue, accepted)
    BY DEF AInv, Fine
  <2>2. ASSUME NEW h \in Hours, NEW r, r = Readable(h)
        PROVE  /\ DOMAIN r = 1 .. Len(r) /\ Increasing(r)
               /\ \A n \in ToSet(r) : Holds(file[h], n) /\ n \in accepted
    <3>1. PICK s \in Seq(Streams) : s = file[h] /\ Sorted(s)
      BY <2>1 DEF Core
    <3>2. r \in Seq(Frames) /\ Increasing(r) /\ \A x \in 1 .. Len(r) : Holds(s, r[x])
      BY <2>2, <3>1, Reading
    <3>3. DOMAIN r = 1 .. Len(r)
      BY <3>2
    <3>4. \A n \in ToSet(r) : Holds(s, n)
      BY <3>2, <3>3 DEF ToSet
    <3> QED BY <2>1, <3>1, <3>2, <3>3, <3>4 DEF Core
  <2>3. ASSUME NEW h \in Hours, NEW i \in DOMAIN Readable(h), NEW j \in DOMAIN Readable(h), i < j
        PROVE  Readable(h)[i] < Readable(h)[j]
    <3>1. PICK r : r = Readable(h)
      OBVIOUS
    <3>2. DOMAIN r = 1 .. Len(r) /\ Increasing(r)
      BY <2>2, <3>1
    <3> QED BY <2>3, <3>1, <3>2 DEF Increasing
  <2>4. \A h \in Hours : ToSet(Readable(h)) \subseteq accepted
    BY <2>2
  <2>5. ASSUME NEW g \in Hours, NEW h \in Hours, g # h, NEW n \in ToSet(Readable(g)), n \in ToSet(Readable(h))
        PROVE  FALSE
    <3>1. Holds(file[g], n) /\ Holds(file[h], n)
      BY <2>2, <2>5
    <3> QED BY <2>1, <2>5, <3>1 DEF Core
  <2>6. \A g, h \in Hours : g # h => ToSet(Readable(g)) \cap ToSet(Readable(h)) = {}
    BY <2>5
  <2> QED BY <2>3, <2>4, <2>6 DEF ArchiveFaithful
<1> QED BY <1>1, ArchiveInvariant, PTL

\* An owner that calls shutdown, on a disk that works: every accepted frame can
\* be read once the writer has ended, after any rotations, also back to an hour
\* that has a file, and after any earlier runs (ArchiveHandle::shutdown).  The
\* hypothesis is what ingest-daemon leaves out.
THEOREM ShutdownSaves == CallsShutdown => (Spec => []ShutdownSavesAll)
<1> SUFFICES ASSUME CallsShutdown PROVE Spec => []ShutdownSavesAll
  OBVIOUS
<1>1. Init => AInv /\ WInv
  BY InitAInv
<1>2. AInv /\ WInv /\ [Next]_vars => AInv' /\ WInv'
  BY NextAInv
<1>3. AInv /\ WInv => ShutdownSavesAll
  <2> SUFFICES ASSUME AInv, WInv, healthy, writer = "ended", NEW n \in accepted PROVE InArchive(n)
    BY DEF ShutdownSavesAll
  <2>1. Core(file, state.buf, queue, accepted) /\ queue = << >> /\ state = NoFile
    BY DEF AInv, Fine, Ended
  <2>2. Kept(file, << >>, << >>, accepted) /\ Lasting(file, NoHour, FALSE)
    BY <2>1, NoFileIs DEF WInv, Whole
  <2>3. 1 .. Len(<< >>) = {}
    OBVIOUS
  <2>4. PICK h \in Hours : Holds(file[h], n)
    BY <2>2, <2>3 DEF Kept
  <2>5. PICK s \in Seq(Streams) : s = file[h] /\ Sorted(s)
    BY <2>1 DEF Core
  <2>6. \A i \in 1 .. Len(s) : s[i].ended
    BY <2>2, <2>5 DEF Lasting
  <2>7. PICK r : r = Readable(h)
    OBVIOUS
  <2>8. r \in Seq(Frames) /\ \A m : Holds(s, m) => \E x \in 1 .. Len(r) : r[x] = m
    BY <2>5, <2>6, <2>7, Reading
  <2>9. PICK x \in 1 .. Len(r) : r[x] = n
    BY <2>4, <2>5, <2>8
  <2>10. n \in ToSet(r)
    BY <2>8, <2>9 DEF ToSet
  <2> QED BY <2>7, <2>10 DEF InArchive
<1> QED BY <1>1, <1>2, <1>3, PTL DEF Spec
=============================================================================
