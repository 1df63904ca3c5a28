------------------------- MODULE CedroStreamProofs -------------------------
(***************************************************************************)
(* Proofs about CedroStream for every timeout, every amount of text and of *)
(* data, and every way reads cut what the server sends: its types, that    *)
(* the handshake is over in time and loses no prompt, and that the frames  *)
(* are those of the stream.                                                *)
(***************************************************************************)
EXTENDS CedroStream, FiniteSetTheorems, SequenceTheorems, WellFoundedInduction, TLAPS

-----------------------------------------------------------------------------
(***************************************************************************)
(* Sequences and their parts.                                              *)
(***************************************************************************)

\* SubSeq and concatenation under names of their own, for lemmas to match.
Part(s, a, b) == SubSeq(s, a, b)
Cat(x, y) == x \o y

LEMMA PartOf ==
    ASSUME NEW X, NEW s \in Seq(X), NEW a \in 1 .. Len(s) + 1, NEW b \in 0 .. Len(s), a <= b + 1
    PROVE  /\ Part(s, a, b) \in Seq(X) /\ Len(Part(s, a, b)) = b - a + 1
           /\ \A i \in 1 .. b - a + 1 : Part(s, a, b)[i] = s[a + i - 1]
<1>1. Len(s) \in Nat
  OBVIOUS
<1> QED BY <1>1, SubSeqProperties DEF Part

LEMMA CatOf ==
    ASSUME NEW X, NEW x \in Seq(X), NEW y \in Seq(X)
    PROVE  /\ Cat(x, y) \in Seq(X) /\ Len(Cat(x, y)) = Len(x) + Len(y)
           /\ Len(x) \in Nat /\ Len(y) \in Nat
           /\ \A i \in 1 .. Len(x) + Len(y) :
                 Cat(x, y)[i] = IF i <= Len(x) THEN x[i] ELSE y[i - Len(x)]
  BY ConcatProperties DEF Cat

\* The bytes of a read go to the end of a buffer.
LEMMA ReadTypes ==
    ASSUME NEW X, NEW s \in Seq(X), NEW w \in Seq(X), NEW n \in 1 .. Len(w)
    PROVE  /\ Part(w, 1, n) \in Seq(X) /\ Len(Part(w, 1, n)) = n
           /\ Part(w, n + 1, Len(w)) \in Seq(X) /\ Len(Part(w, n + 1, Len(w))) = Len(w) - n
           /\ Cat(s, Part(w, 1, n)) \in Seq(X)
<1>1. Len(w) \in Nat
  OBVIOUS
<1>2. Part(w, 1, n) \in Seq(X) /\ Len(Part(w, 1, n)) = n
  BY <1>1, PartOf
<1>3. Part(w, n + 1, Len(w)) \in Seq(X) /\ Len(Part(w, n + 1, Len(w))) = Len(w) - n
  <2> DEFINE m == n + 1
  <2>1. m \in 1 .. Len(w) + 1 /\ Len(w) \in 0 .. Len(w) /\ m <= Len(w) + 1
    BY <1>1
  <2> HIDE DEF m
  <2>2. Part(w, m, Len(w)) \in Seq(X) /\ Len(Part(w, m, Len(w))) = Len(w) - m + 1
    BY <2>1, PartOf
  <2> QED BY <1>1, <2>2 DEF m
<1> QED BY <1>2, <1>3, CatOf

\* A set of naturals that is not empty has a least element.
LEMMA Least ==
    ASSUME NEW T \in SUBSET Nat, T # {}
    PROVE  \E x \in T : \A y \in T : x <= y
<1>1. IsWellFoundedOn(OpToRel(<, Nat), Nat)
  BY NatLessThanWellFounded
<1>2. PICK x \in T : \A y \in T : ~(<< y, x >> \in OpToRel(<, Nat))
  BY <1>1, WFMin
<1>3. \A y \in T : ~(y < x)
  BY <1>2 DEF OpToRel
<1> QED BY <1>3

-----------------------------------------------------------------------------
(***************************************************************************)
(* Searching: memmem::find and memchr2.                                    *)
(***************************************************************************)

LEMMA Needles ==
    /\ Steps = 1 .. 4 /\ Len(Needle) = 4
    /\ \A s \in Steps : Needle[s] = << Needle[s][1], Needle[s][2] >>
    /\ \A s \in Steps : {Needle[s][1], Needle[s][2]} \subseteq PromptBytes
    /\ \A s, r \in Steps : Needle[s][1] # Needle[r][2] /\ (Needle[s][1] = Needle[r][1] => s = r)
                           /\ (Needle[s][2] = Needle[r][2] => s = r)
    /\ PromptBytes \cap Data = {} /\ "text" \notin PromptBytes
<1>1. Steps = 1 .. 4 /\ Len(Needle) = 4
  BY DEF Steps, Needle
<1>2. \A s \in Steps : Needle[s] = << Needle[s][1], Needle[s][2] >> /\ DOMAIN Needle[s] = {1, 2}
  BY <1>1 DEF Needle
<1>3. \A s \in Steps : ToSet(Needle[s]) = {Needle[s][1], Needle[s][2]}
  BY <1>2 DEF ToSet
<1>4. \A s \in Steps : {Needle[s][1], Needle[s][2]} \subseteq PromptBytes
  BY <1>3 DEF PromptBytes
<1>5. \A b \in PromptBytes : \E s \in Steps : b \in {Needle[s][1], Needle[s][2]}
  BY <1>3 DEF PromptBytes
<1>6. PromptBytes \cap Data = {} /\ "text" \notin PromptBytes
  <2>1. \A s \in Steps : {Needle[s][1], Needle[s][2]} \cap (Data \cup {"text"}) = {}
    BY <1>1 DEF Needle, Data, Terminators
  <2> QED BY <1>5, <2>1
<1>7. \A s, r \in Steps : Needle[s][1] # Needle[r][2] /\ (Needle[s][1] = Needle[r][1] => s = r)
                          /\ (Needle[s][2] = Needle[r][2] => s = r)
  BY <1>1 DEF Needle
<1> QED BY <1>1, <1>2, <1>4, <1>6, <1>7

\* A needle is found where its two bytes are.
LEMMA FoundAt ==
    ASSUME NEW X, NEW s \in Seq(X), NEW r \in Steps
    PROVE  /\ \A i \in Found(s, Needle[r]) : i \in 1 .. Len(s) - 1 /\ s[i] = Needle[r][1] /\ s[i + 1] = Needle[r][2]
           /\ \A i \in 1 .. Len(s) - 1 :
                 s[i] = Needle[r][1] /\ s[i + 1] = Needle[r][2] => i \in Found(s, Needle[r])
<1>1. \A i \in 1 .. Len(s) - 1 : SubSeq(s, i, i + 1) = << s[i], s[i + 1] >>
  <2> TAKE i \in 1 .. Len(s) - 1
  <2>1. Part(s, i, i + 1) \in Seq(X) /\ Len(Part(s, i, i + 1)) = 2
    BY SubSeqProperties DEF Part
  <2>2. Part(s, i, i + 1)[1] = s[i] /\ Part(s, i, i + 1)[2] = s[i + 1]
    BY SubSeqProperties DEF Part
  <2> DEFINE p == Part(s, i, i + 1)
  <2> HIDE DEF p
  <2>3. p = << p[1], p[2] >>
    BY <2>1 DEF p
  <2> QED BY <2>2, <2>3 DEF p, Part
<1>2. Needle[r] = << Needle[r][1], Needle[r][2] >>
  BY Needles
<1>3. \A i \in 1 .. Len(s) - 1 :
         SubSeq(s, i, i + 1) = Needle[r] <=> (s[i] = Needle[r][1] /\ s[i + 1] = Needle[r][2])
  <2> TAKE i \in 1 .. Len(s) - 1
  <2> DEFINE a == s[i]
             b == s[i + 1]
             c == Needle[r][1]
             d == Needle[r][2]
  <2>1. SubSeq(s, i, i + 1) = << a, b >> /\ Needle[r] = << c, d >>
    BY <1>1, <1>2
  <2>2. << a, b >> = << c, d >> <=> (a = c /\ b = d)
    OBVIOUS
  <2> HIDE DEF a, b, c, d
  <2>3. SubSeq(s, i, i + 1) = Needle[r] <=> (a = c /\ b = d)
    BY <2>1, <2>2
  <2> QED BY <2>3 DEF a, b, c, d
<1> QED BY <1>3 DEF Found

\* The place find returns.
LEMMA FirstFound ==
    ASSUME NEW X, NEW s \in Seq(X), NEW n, Found(s, n) # {}
    PROVE  find(s, n) \in Found(s, n) /\ find(s, n) \in 1 .. Len(s) - 1
<1>1. Found(s, n) \in SUBSET Nat /\ Found(s, n) \subseteq 1 .. Len(s) - 1
  BY DEF Found
<1>2. \E i \in Found(s, n) : \A j \in Found(s, n) : i <= j
  BY <1>1, Least
<1>3. find(s, n) \in Found(s, n)
  BY <1>2 DEF find
<1> QED BY <1>1, <1>3

\* The first terminator.
LEMMA FirstTerminator ==
    ASSUME splitter \in Seq(Bytes)
    PROVE  /\ terminator = 0 => \A i \in 1 .. Len(splitter) : splitter[i] \notin Terminators
           /\ terminator # 0 =>
                /\ terminator \in 1 .. Len(splitter) /\ splitter[terminator] \in Terminators
                /\ \A i \in 1 .. terminator - 1 : splitter[i] \notin Terminators
<1> DEFINE I == {i \in 1 .. Len(splitter) : splitter[i] \in Terminators}
<1>1. terminator = IF I # {} THEN Min(I) ELSE 0
  BY DEF terminator, SelectInSeq
<1>2. I \subseteq 1 .. Len(splitter) /\ I \in SUBSET Nat
  OBVIOUS
<1>3. CASE I = {}
  BY <1>1, <1>3
<1>4. CASE I # {}
  <2>1. \E x \in I : \A y \in I : x <= y
    <3> HIDE DEF I
    <3> QED BY <1>2, <1>4, Least
  <2>2. Min(I) \in I /\ \A y \in I : Min(I) <= y
    <3> HIDE DEF I
    <3> QED BY <2>1 DEF Min
  <2>3. terminator \in I /\ \A y \in I : terminator <= y
    <3> HIDE DEF I
    <3> QED BY <1>1, <1>4, <2>2
  <2>4. \A i \in 1 .. terminator - 1 : i \notin I /\ i \in 1 .. Len(splitter)
    <3> HIDE DEF I
    <3> QED BY <1>2, <2>3
  <2>5. terminator # 0
    <3> HIDE DEF I
    <3> QED BY <1>2, <2>3
  <2> QED BY <2>3, <2>4, <2>5
<1> QED BY <1>3, <1>4

-----------------------------------------------------------------------------
(***************************************************************************)
(* What the server sends.                                                  *)
(***************************************************************************)

LEMMA CountOf ==
    ASSUME NEW X, NEW s \in Seq(X), NEW S
    PROVE  Count(s, S) \in Nat
<1>1. IsFiniteSet(1 .. Len(s)) /\ {i \in DOMAIN s : s[i] \in S} \in SUBSET (1 .. Len(s))
  BY FS_Interval
<1> QED BY <1>1, FS_Subset, FS_CardinalityType DEF Count

LEMMA CountAppend ==
    ASSUME NEW X, NEW s \in Seq(X), NEW b \in X, NEW S
    PROVE  Count(Append(s, b), S) = Count(s, S) + IF b \in S THEN 1 ELSE 0
<1> DEFINE C == {i \in DOMAIN s : s[i] \in S}
           n == Len(s) + 1
           t == Append(s, b)
           D == {i \in DOMAIN t : t[i] \in S}
<1>1. /\ DOMAIN t = 1 .. n /\ DOMAIN s = 1 .. Len(s) /\ Len(s) \in Nat
      /\ t[n] = b /\ \A i \in 1 .. Len(s) : t[i] = s[i]
  OBVIOUS
<1>2. IsFiniteSet(C) /\ n \notin C
  <2>1. IsFiniteSet(1 .. Len(s)) /\ C \in SUBSET (1 .. Len(s))
    BY FS_Interval
  <2> QED BY <2>1, FS_Subset
<1>3. D = IF b \in S THEN C \cup {n} ELSE C
  <2> HIDE DEF t
  <2> QED BY <1>1
<1>4. Cardinality(C) \in Nat /\ Cardinality(C \cup {n}) = Cardinality(C) + 1
  <2> HIDE DEF C, n
  <2> QED BY <1>2, FS_AddElement, FS_CardinalityType
<1>5. Cardinality(D) = Cardinality(C) + IF b \in S THEN 1 ELSE 0
  <2> HIDE DEF C, D, n
  <2> QED BY <1>3, <1>4
<1> QED BY <1>5 DEF Count

\* The prompts are sent one byte after the other.
Promised == Count(sent, PromptBytes) \in 0 .. 8

\* Byte x of prompt s, counted over all prompts.
Rank(s, x) == 2 * (s - 1) + x

LEMMA ServerSends ==
    ASSUME sent \in Seq(Bytes), Promised, NEW b \in ServerNext
    PROVE  /\ b \in Bytes
           /\ Count(Append(sent, b), PromptBytes) \in Count(sent, PromptBytes) .. 8
           /\ \/ b \notin PromptBytes
              \/ \E s \in Steps, x \in 1 .. 2 :
                    /\ b = Needle[Order[s]][x]
                    /\ Count(sent, PromptBytes) + 1 = Rank(s, x)
                    /\ Count(Append(sent, b), PromptBytes) = Rank(s, x)
<1> DEFINE k == Count(sent, PromptBytes)
<1>1. k \in 0 .. 8
  BY DEF Promised
<1> HIDE DEF k
<1>2. CASE b \in Data \cup {"text"}
  <2>1. b \in Bytes /\ b \notin PromptBytes
    BY <1>2, Needles DEF Bytes
  <2>2. Count(Append(sent, b), PromptBytes) = k + IF b \in PromptBytes THEN 1 ELSE 0
    BY <2>1, CountAppend DEF k
  <2> QED BY <1>1, <2>1, <2>2 DEF k
<1>3. CASE k < 8 /\ b = Needle[Order[(k \div 2) + 1]][(k % 2) + 1]
  <2> DEFINE s == (k \div 2) + 1
             x == (k % 2) + 1
  <2>1. s \in 1 .. 4 /\ x \in 1 .. 2 /\ k + 1 = Rank(s, x)
    BY <1>1, <1>3 DEF Rank
  <2> HIDE DEF s, x
  <2>2. s \in Steps /\ Order[s] \in Steps
    BY <2>1, Needles, StreamAssumption
  <2>3. b = Needle[Order[s]][x]
    BY <1>3 DEF s, x
  <2>4. b \in PromptBytes /\ b \in Bytes
    <3>1. b \in {Needle[Order[s]][1], Needle[Order[s]][2]}
      BY <2>1, <2>3
    <3> QED BY <2>2, <3>1, Needles DEF Bytes
  <2>5. Count(Append(sent, b), PromptBytes) = k + IF b \in PromptBytes THEN 1 ELSE 0
    BY <2>4, CountAppend DEF k
  <2>6. Count(Append(sent, b), PromptBytes) = k + 1
    BY <2>4, <2>5
  <2> QED BY <1>1, <1>3, <2>1, <2>2, <2>3, <2>4, <2>6 DEF k
<1> QED BY <1>1, <1>2, <1>3, Needles DEF ServerNext, k

-----------------------------------------------------------------------------
(***************************************************************************)
(* The deadline: a read begins before it, and waits no longer than its own *)
(* timeout.                                                                *)
(***************************************************************************)
Deadline ==
    /\ client = "connect" => clock = 0
    /\ client = "read" => clock < Timeout + waited
    /\ client = "await" => clock < 2 * Timeout

\* The reader is spawned when the handshake is over.
Spawned == reader # "none" => client = "connected"

Inv == TypeOK /\ Promised /\ Deadline /\ Spawned

LEMMA InitInv == Init => Inv
<1> SUFFICES ASSUME Init PROVE Inv
  OBVIOUS
<1>1. Count(<< >>, PromptBytes) = 0
  <2>1. {i \in DOMAIN << >> : << >>[i] \in PromptBytes} = {}
    OBVIOUS
  <2> QED BY <2>1, FS_EmptySet DEF Count
<1> QED BY <1>1, StreamAssumption, Needles DEF Init, Inv, TypeOK, Promised, Deadline, Spawned

LEMMA NextInv == Inv /\ [Next]_vars => Inv'
<1> SUFFICES ASSUME Inv, [Next]_vars PROVE Inv'
  OBVIOUS
<1> USE DEF Inv
<1>t. Timeout \in Nat \ {0}
  BY StreamAssumption
<1>1. CASE server_send
  <2>1. PICK b \in ServerNext : sent' = Append(sent, b) /\ wire' = Append(wire, b)
    BY <1>1 DEF server_send
  <2>2. b \in Bytes /\ Count(Append(sent, b), PromptBytes) \in Count(sent, PromptBytes) .. 8
    BY ServerSends DEF TypeOK
  <2>3. UNCHANGED << peer, handshake, stream >>
    BY <1>1 DEF server_send
  <2>4. sent' \in Seq(Bytes) /\ wire' \in Seq(Bytes)
    BY <2>1, <2>2 DEF TypeOK
  <2>5. TypeOK'
    BY <2>3, <2>4 DEF TypeOK, handshake, stream
  <2>6. Promised'
    BY <2>1, <2>2 DEF Promised
  <2> QED BY <2>3, <2>5, <2>6 DEF Deadline, Spawned, handshake, stream
<1>2. CASE server_close
  BY <1>2 DEF server_close, TypeOK, Promised, Deadline, Spawned, handshake, stream
<1>3. CASE open_connect
  BY <1>3, <1>t DEF open_connect, TypeOK, Promised, Deadline, Spawned, stream
<1>4. CASE hs_answer
  <2>1. /\ client = "await" /\ step < 4 /\ Found(buf, Needle[step]) # {}
        /\ buf' = drain(buf, Needle[step])
        /\ client' \in {"await", "failed"} /\ step' \in {step, step + 1}
        /\ UNCHANGED << sent, wire, peer, clock, waited, stream >>
    BY <1>4, Needles DEF hs_answer
  <2>2. buf' \in Seq(Bytes)
    <3>1. PICK j : j = find(buf, Needle[step])
      OBVIOUS
    <3>2. j \in 1 .. Len(buf) - 1
      BY <2>1, <3>1, FirstFound DEF TypeOK
    <3>3. Part(buf, j + 2, Len(buf)) \in Seq(Bytes)
      BY <3>2, SubSeqProperties DEF TypeOK, Part
    <3> QED BY <2>1, <3>1, <3>3 DEF drain, Part
  <2>3. step' \in Steps
    BY <2>1, Needles DEF TypeOK
  <2> QED BY <2>1, <2>2, <2>3 DEF TypeOK, Promised, Deadline, Spawned, stream
<1>5. CASE hs_connected
  BY <1>5 DEF hs_connected, TypeOK, Promised, Deadline, Spawned
<1>6. CASE hs_check
  <2>1. CASE clock >= Timeout
    BY <1>6, <1>t, <2>1 DEF hs_check, TypeOK, Promised, Deadline, Spawned, stream
  <2>2. CASE ~(clock >= Timeout)
    <3>1. client = "await" /\ client' = "read" /\ clock < Timeout /\ waited' = 0
      BY <1>6, <1>t, <2>2 DEF hs_check, TypeOK
    <3>2. UNCHANGED << sent, wire, peer, step, buf, clock, stream >>
      BY <1>6 DEF hs_check
    <3> QED BY <1>t, <3>1, <3>2 DEF TypeOK, Promised, Deadline, Spawned, stream
  <2> QED BY <2>1, <2>2
<1>7. CASE hs_read
  <2>1. PICK n \in 1 .. Len(wire) :
           buf' = Cat(buf, Part(wire, 1, n)) /\ wire' = Part(wire, n + 1, Len(wire))
    BY <1>7 DEF hs_read, Cat, Part
  <2>2. buf' \in Seq(Bytes) /\ wire' \in Seq(Bytes)
    BY <2>1, ReadTypes DEF TypeOK
  <2>3. /\ client = "read" /\ client' = "await"
        /\ UNCHANGED << sent, peer, step, clock, waited, stream >>
    BY <1>7 DEF hs_read
  <2>4. TypeOK' /\ Promised'
    BY <2>2, <2>3 DEF TypeOK, Promised, stream
  <2>5. Deadline' /\ Spawned'
    BY <1>t, <2>3 DEF TypeOK, Deadline, Spawned, stream
  <2> QED BY <2>4, <2>5
<1>8. CASE hs_read_err
  BY <1>8 DEF hs_read_err, TypeOK, Promised, Deadline, Spawned, stream
<1>9. CASE tick
  BY <1>9, <1>t DEF tick, TypeOK, Promised, Deadline, Spawned, stream
<1>10. CASE reader_read
  <2>1. PICK n \in 1 .. Len(wire) :
           /\ fed' = Cat(fed, Part(wire, 1, n)) /\ splitter' = Cat(splitter, Part(wire, 1, n))
           /\ wire' = Part(wire, n + 1, Len(wire))
    BY <1>10 DEF reader_read, Cat, Part
  <2>2. fed' \in Seq(Bytes) /\ splitter' \in Seq(Bytes) /\ wire' \in Seq(Bytes)
    BY <2>1, ReadTypes DEF TypeOK
  <2>3. reader = "read" /\ reader' = "split" /\ UNCHANGED << sent, peer, handshake, frames >>
    BY <1>10 DEF reader_read
  <2> QED BY <2>2, <2>3 DEF TypeOK, Promised, Deadline, Spawned, handshake
<1>11. CASE next_frame
  <2>1. PICK t : t = terminator
    OBVIOUS
  <2>2. /\ t \in 1 .. Len(splitter) /\ splitter[t] \in Terminators
        /\ \A i \in 1 .. t - 1 : splitter[i] \notin Terminators
    BY <1>11, <2>1, FirstTerminator DEF next_frame, TypeOK
  <2> DEFINE p == Part(splitter, 1, t - 1)
             kd == IF splitter[t] = "bang" THEN "Bang" ELSE "Newline"
             f == [kind |-> kd, bytes |-> p]
  <2>3. /\ frames' = Append(frames, f) /\ splitter' = Part(splitter, t + 1, Len(splitter))
        /\ UNCHANGED << sent, wire, peer, handshake, reader, fed >>
    BY <1>11, <2>1 DEF next_frame, Part
  <2>4. Part(splitter, t + 1, Len(splitter)) \in Seq(Bytes)
    BY <2>2, ReadTypes DEF TypeOK
  <2>5. p \in Seq(Bytes \ Terminators)
    <3>1. p \in Seq(Bytes) /\ Len(p) = t - 1 /\ \A i \in 1 .. t - 1 : p[i] = splitter[i]
      BY <2>2, SubSeqProperties DEF TypeOK, Part
    <3>2. \A i \in 1 .. Len(p) : p[i] \in Bytes \ Terminators
      <4>1. \A i \in 1 .. t - 1 : splitter[i] \in Bytes
        BY <2>2 DEF TypeOK
      <4> HIDE DEF p
      <4> QED BY <2>2, <3>1, <4>1
    <3> HIDE DEF p
    <3> QED BY <3>1, <3>2
  <2>6. f \in [kind : {"Bang", "Newline"}, bytes : Seq(Bytes \ Terminators)]
    <3> HIDE DEF p
    <3> QED BY <2>5
  <2>7. frames' \in Seq([kind : {"Bang", "Newline"}, bytes : Seq(Bytes \ Terminators)])
    <3> HIDE DEF f
    <3> QED BY <2>3, <2>6 DEF TypeOK
  <2>8. splitter' \in Seq(Bytes)
    BY <2>3, <2>4
  <2> HIDE DEF f
  <2> QED BY <2>3, <2>7, <2>8 DEF TypeOK, Promised, Deadline, Spawned, handshake
<1>12. CASE next_frame_none
  BY <1>12 DEF next_frame_none, TypeOK, Promised, Deadline, Spawned, handshake
<1>13. CASE reader_end
  BY <1>13 DEF reader_end, TypeOK, Promised, Deadline, Spawned, handshake
<1>14. CASE UNCHANGED vars
  BY <1>14 DEF vars, TypeOK, Promised, Deadline, Spawned, handshake, stream
<1> QED BY <1>1, <1>2, <1>3, <1>4, <1>5, <1>6, <1>7, <1>8, <1>9, <1>10, <1>11, <1>12, <1>13, <1>14
        DEF Next

(***************************************************************************)
(* The variables keep their types: no frame that next_frame returns holds  *)
(* a terminator, and no read of the handshake outlives its timeout.        *)
(***************************************************************************)
THEOREM TypeCorrect == Spec => []TypeOK
<1>1. Inv => TypeOK
  BY DEF Inv
<1> QED BY <1>1, InitInv, NextInv, PTL DEF Spec

(***************************************************************************)
(* perform and consume_until are over before twice the timeout, for every  *)
(* timeout and whatever the server sends, or withholds, and when.          *)
(***************************************************************************)
THEOREM HandshakeEnds == Spec => []HandshakeBounded
<1>1. Inv => HandshakeBounded
  BY StreamAssumption DEF Inv, Deadline, TypeOK, HandshakeBounded
<1> QED BY <1>1, InitInv, NextInv, PTL DEF Spec

-----------------------------------------------------------------------------
(***************************************************************************)
(* The buffer of the handshake.  It holds what was read behind some place  *)
(* of the stream, and every prompt that is still to be answered begins     *)
(* behind that place.  That rests on the order of the prompts: one that is *)
(* found takes everything before it out of the buffer.                     *)
(***************************************************************************)
InOrder == \A s \in Steps : Order[s] = s

WireIsTail ==
    /\ Len(wire) <= Len(sent)
    /\ \A i \in 1 .. Len(wire) : wire[i] = sent[Len(sent) - Len(wire) + i]

Ranked ==
    \A i \in 1 .. Len(sent) : \A s \in Steps : \A x \in 1 .. 2 :
        sent[i] = Needle[s][x] => Rank(s, x) <= Count(sent, PromptBytes)

Ordered ==
    \A i, j \in 1 .. Len(sent) : \A s, r \in Steps :
        sent[i] = Needle[s][1] /\ sent[j] = Needle[r][1] /\ s < r => i < j

\* b is what is between c and the bytes on the wire.
BufferFrom(b, c) ==
    /\ c \in 0 .. Len(sent) - Len(wire)
    /\ Len(b) = Len(sent) - Len(wire) - c
    /\ \A i \in 1 .. Len(b) : b[i] = sent[c + i]

\* No prompt from number n on begins before c.
AheadOf(n, c) ==
    \A s \in Steps : \A i \in 1 .. Len(sent) : s >= n /\ sent[i] = Needle[s][1] => i > c

Kept ==
    client \in {"connect", "await", "read"} => \E c \in Nat : BufferFrom(buf, c) /\ AheadOf(step, c)

PInv == WireIsTail /\ Ranked /\ Ordered /\ Kept

LEMMA InitPInv == Init => PInv
<1> SUFFICES ASSUME Init PROVE PInv
  OBVIOUS
<1>1. BufferFrom(buf, 0) /\ AheadOf(step, 0)
  BY DEF Init, BufferFrom, AheadOf
<1> QED BY <1>1 DEF Init, PInv, WireIsTail, Ranked, Ordered, Kept

LEMMA SendPInv ==
    ASSUME Inv, PInv, InOrder, server_send
    PROVE  PInv'
<1>1. PICK b \in ServerNext : sent' = Append(sent, b) /\ wire' = Append(wire, b)
  BY DEF server_send
<1>2. UNCHANGED << client, step, buf, reader >>
  BY DEF server_send, handshake, stream
<1>3. sent \in Seq(Bytes) /\ wire \in Seq(Bytes) /\ buf \in Seq(Bytes) /\ step \in Steps
  BY DEF Inv, TypeOK
<1>4. /\ b \in Bytes
      /\ Count(Append(sent, b), PromptBytes) \in Count(sent, PromptBytes) .. 8
      /\ \/ b \notin PromptBytes
         \/ \E s \in Steps, x \in 1 .. 2 :
               /\ b = Needle[Order[s]][x]
               /\ Count(sent, PromptBytes) + 1 = Rank(s, x)
               /\ Count(Append(sent, b), PromptBytes) = Rank(s, x)
  BY <1>3, ServerSends DEF Inv
<1> DEFINE n == Len(sent)
           k == Count(sent, PromptBytes)
           l == Count(Append(sent, b), PromptBytes)
<1>5. /\ n \in Nat /\ Len(sent') = n + 1 /\ sent'[n + 1] = b /\ \A i \in 1 .. n : sent'[i] = sent[i]
      /\ Len(wire) \in Nat /\ Len(wire') = Len(wire) + 1 /\ wire'[Len(wire) + 1] = b
      /\ \A i \in 1 .. Len(wire) : wire'[i] = wire[i]
  BY <1>1, <1>3, <1>4
<1>6. k \in 0 .. 8 /\ l \in k .. 8 /\ Count(sent, PromptBytes)' = l
  BY <1>1, <1>4 DEF Inv, Promised
<1>7. \A s \in Steps : \A x \in 1 .. 2 : b = Needle[s][x] => Rank(s, x) = k + 1 /\ Rank(s, x) = l
  <2> SUFFICES ASSUME NEW s \in Steps, NEW x \in 1 .. 2, b = Needle[s][x]
               PROVE  Rank(s, x) = k + 1 /\ Rank(s, x) = l
    OBVIOUS
  <2>1. b \in PromptBytes
    BY Needles
  <2>2. PICK r \in Steps, y \in 1 .. 2 :
           b = Needle[Order[r]][y] /\ k + 1 = Rank(r, y) /\ l = Rank(r, y)
    BY <1>4, <2>1
  <2>3. b = Needle[r][y]
    BY <2>2 DEF InOrder
  <2>4. y = x
    <3>1. x \in {1, 2} /\ y \in {1, 2}
      OBVIOUS
    <3>2. Needle[s][1] # Needle[r][2] /\ Needle[r][1] # Needle[s][2]
      BY Needles
    <3>3. ~(x = 1 /\ y = 2) /\ ~(x = 2 /\ y = 1)
      BY <2>3, <3>2
    <3> QED BY <3>1, <3>3
  <2>5. r = s
    <3>1. x \in {1, 2}
      OBVIOUS
    <3>2. (Needle[s][1] = Needle[r][1] => s = r) /\ (Needle[s][2] = Needle[r][2] => s = r)
      BY Needles
    <3> QED BY <2>3, <2>4, <3>1, <3>2
  <2> QED BY <2>2, <2>4, <2>5
<1> HIDE DEF n, k, l
<1>8. WireIsTail'
  <2>1. Len(wire) <= n /\ \A i \in 1 .. Len(wire) : wire[i] = sent[n - Len(wire) + i]
    BY DEF PInv, WireIsTail, n
  <2>2. Len(wire') <= Len(sent')
    BY <1>5, <2>1
  <2>3. \A i \in 1 .. Len(wire') : wire'[i] = sent'[Len(sent') - Len(wire') + i]
    BY <1>5, <2>1
  <2> QED BY <2>2, <2>3 DEF WireIsTail
<1>9. \A s \in Steps : \A x \in 1 .. 2 : Rank(s, x) \in Int
  BY Needles DEF Rank
<1>10. Ranked'
  <2> SUFFICES ASSUME NEW i \in 1 .. n + 1, NEW s \in Steps, NEW x \in 1 .. 2, sent'[i] = Needle[s][x]
               PROVE  Rank(s, x) <= l
    BY <1>5, <1>6 DEF Ranked
  <2>1. CASE i \in 1 .. n
    <3>1. Rank(s, x) <= k
      BY <1>5, <2>1 DEF PInv, Ranked, n, k
    <3> QED BY <1>6, <1>9, <3>1
  <2>2. CASE i = n + 1
    BY <1>5, <1>6, <1>7, <1>9, <2>2
  <2> QED BY <1>5, <2>1, <2>2
<1>11. Ordered'
  <2> SUFFICES ASSUME NEW i \in 1 .. n + 1, NEW j \in 1 .. n + 1, NEW s \in Steps, NEW r \in Steps,
                      sent'[i] = Needle[s][1], sent'[j] = Needle[r][1], s < r
               PROVE  i < j
    BY <1>5 DEF Ordered
  <2>1. CASE i \in 1 .. n /\ j \in 1 .. n
    BY <1>5, <2>1 DEF PInv, Ordered, n
  <2>2. CASE i \in 1 .. n /\ j = n + 1
    BY <1>5, <2>2
  <2>3. CASE i = n + 1 /\ j \in 1 .. n
    <3>1. Rank(r, 1) <= k
      BY <1>5, <2>3 DEF PInv, Ranked, n, k
    <3>2. Rank(s, 1) = k + 1
      BY <1>5, <1>7, <2>3
    <3>3. Rank(s, 1) < Rank(r, 1)
      BY Needles DEF Rank
    <3> QED BY <1>6, <1>9, <3>1, <3>2, <3>3
  <2>4. CASE i = n + 1 /\ j = n + 1
    BY <2>4, Needles
  <2> QED BY <1>5, <2>1, <2>2, <2>3, <2>4
<1>12. Kept'
  <2> SUFFICES ASSUME client \in {"connect", "await", "read"}
               PROVE  (\E c \in Nat : BufferFrom(buf, c) /\ AheadOf(step, c))'
    BY <1>2 DEF PInv, Kept
  <2>1. PICK c \in Nat : BufferFrom(buf, c) /\ AheadOf(step, c)
    BY DEF PInv, Kept
  <2>2. Len(buf) \in Nat /\ Len(wire) <= n
    BY <1>3 DEF PInv, WireIsTail, n
  <2>3. c \in 0 .. n - Len(wire) /\ Len(buf) = n - Len(wire) - c /\ \A i \in 1 .. Len(buf) : buf[i] = sent[c + i]
    BY <2>1 DEF BufferFrom, n
  <2>4. Len(sent') - Len(wire') = n - Len(wire)
    BY <1>5
  <2>5. \A i \in 1 .. Len(buf) : c + i \in 1 .. n
    BY <1>5, <2>2, <2>3
  <2>6. BufferFrom(buf, c)'
    BY <1>2, <1>5, <2>3, <2>4, <2>5 DEF BufferFrom
  <2>7. AheadOf(step, c)'
    <3> SUFFICES ASSUME NEW s \in Steps, NEW i \in 1 .. n + 1, s >= step, sent'[i] = Needle[s][1]
                 PROVE  i > c
      BY <1>2, <1>5 DEF AheadOf
    <3>1. CASE i \in 1 .. n
      BY <1>5, <2>1, <3>1 DEF AheadOf, n
    <3>2. CASE i = n + 1
      BY <1>5, <2>3, <3>2
    <3> QED BY <1>5, <3>1, <3>2
  <2> QED BY <2>6, <2>7
<1> QED BY <1>8, <1>10, <1>11, <1>12 DEF PInv

LEMMA AnswerPInv ==
    ASSUME Inv, PInv, hs_answer
    PROVE  PInv'
<1>1. /\ client = "await" /\ step < 4 /\ Found(buf, Needle[step]) # {}
      /\ buf' = drain(buf, Needle[step])
      /\ client' = "failed" \/ step' = step + 1
      /\ UNCHANGED << sent, wire, reader >>
  BY Needles DEF hs_answer, stream
<1>2. sent \in Seq(Bytes) /\ wire \in Seq(Bytes) /\ buf \in Seq(Bytes) /\ step \in Steps
  BY DEF Inv, TypeOK
<1>3. WireIsTail' /\ Ranked' /\ Ordered'
  BY <1>1 DEF PInv, WireIsTail, Ranked, Ordered
<1>4. Kept'
  <2>1. PICK c \in Nat : BufferFrom(buf, c) /\ AheadOf(step, c)
    BY <1>1 DEF PInv, Kept
  <2>2. PICK j : j = find(buf, Needle[step])
    OBVIOUS
  <2>3. j \in 1 .. Len(buf) - 1 /\ buf[j] = Needle[step][1] /\ buf[j + 1] = Needle[step][2]
    BY <1>1, <1>2, <2>2, FirstFound, FoundAt
  <2> DEFINE n == Len(sent) - Len(wire)
             d == c + j + 1
  <2>4. /\ Len(buf) \in Nat /\ n \in Nat /\ Len(sent) \in Nat /\ n <= Len(sent)
        /\ c \in 0 .. n /\ Len(buf) = n - c
        /\ \A i \in 1 .. Len(buf) : buf[i] = sent[c + i]
    BY <1>2, <2>1 DEF BufferFrom, PInv, WireIsTail
  <2>5. buf' = Part(buf, j + 2, Len(buf))
    BY <1>1, <2>2 DEF drain, Part
  <2>6. Len(buf') = Len(buf) - j - 1 /\ \A i \in 1 .. Len(buf') : buf'[i] = buf[i + j + 1]
    BY SMTT(30), <1>2, <2>3, <2>5, SubSeqProperties DEF Part
  <2>7. d \in 0 .. n /\ Len(buf') = n - d
    BY <2>3, <2>4, <2>6
  <2>8. \A i \in 1 .. Len(buf') : buf'[i] = sent[d + i]
    <3> TAKE i \in 1 .. Len(buf')
    <3>1. i + j + 1 \in 1 .. Len(buf) /\ c + (i + j + 1) = d + i
      BY <2>3, <2>4, <2>6
    <3>2. buf'[i] = buf[i + j + 1] /\ buf[i + j + 1] = sent[c + (i + j + 1)]
      BY <2>4, <2>6, <3>1
    <3> QED BY <3>1, <3>2
  <2>9. BufferFrom(buf, d)'
    BY <1>1, <2>7, <2>8 DEF BufferFrom
  <2>10. \A s \in Steps : \A i \in 1 .. Len(sent) : s >= step + 1 /\ sent[i] = Needle[s][1] => i > d
    <3> SUFFICES ASSUME NEW s \in Steps, NEW i \in 1 .. Len(sent), s >= step + 1, sent[i] = Needle[s][1]
                 PROVE  i > d
      OBVIOUS
    <3>1. c + j \in 1 .. Len(sent) /\ sent[c + j] = Needle[step][1] /\ sent[c + (j + 1)] = Needle[step][2]
      BY <2>3, <2>4
    <3>2. step < s
      BY <1>2, Needles
    <3>3. c + j < i
      BY <1>2, <3>1, <3>2 DEF PInv, Ordered
    <3>4. i # c + (j + 1)
      BY <1>2, <3>1, Needles
    <3> QED BY <2>3, <3>3, <3>4
  <2>11. step' = step + 1 => AheadOf(step, d)'
    BY <1>1, <2>10 DEF AheadOf
  <2>12. d \in Nat
    BY <2>4, <2>7
  <2> HIDE DEF d
  <2> QED BY <1>1, <2>9, <2>11, <2>12 DEF Kept
<1> QED BY <1>3, <1>4 DEF PInv

\* A read takes the first bytes off the wire.
LEMMA TakePInv ==
    ASSUME Inv, PInv, NEW n \in 1 .. Len(wire), wire' = Part(wire, n + 1, Len(wire)), sent' = sent
    PROVE  /\ WireIsTail' /\ Ranked' /\ Ordered' /\ Len(wire') = Len(wire) - n
           /\ \A i \in 1 .. n : Part(wire, 1, n)[i] = sent[Len(sent) - Len(wire) + i]
<1>1. sent \in Seq(Bytes) /\ wire \in Seq(Bytes)
  BY DEF Inv, TypeOK
<1>2. Len(wire') = Len(wire) - n /\ \A i \in 1 .. Len(wire) - n : wire'[i] = wire[n + i]
  BY <1>1, SubSeqProperties DEF Part
<1>3. /\ Len(wire) <= Len(sent) /\ Len(wire) \in Nat /\ Len(sent) \in Nat
      /\ \A i \in 1 .. Len(wire) : wire[i] = sent[Len(sent) - Len(wire) + i]
  <2>1. Len(wire) \in Nat /\ Len(sent) \in Nat
    BY <1>1
  <2> QED BY <2>1 DEF PInv, WireIsTail
<1>4. \A i \in 1 .. Len(wire') : wire'[i] = sent'[Len(sent') - Len(wire') + i]
  <2> TAKE i \in 1 .. Len(wire')
  <2>1. n + i \in 1 .. Len(wire)
    BY <1>2, <1>3
  <2>3. Len(sent) - Len(wire) + (n + i) = Len(sent) - Len(wire') + i
    <3>1. Len(wire') = Len(wire) - n /\ Len(wire) \in Int /\ Len(sent) \in Int /\ i \in Int /\ n \in Int
      BY <1>2, <1>3
    <3> QED BY <3>1
  <2>2. wire'[i] = wire[n + i] /\ wire[n + i] = sent[Len(sent) - Len(wire) + (n + i)]
    BY <1>2, <1>3, <2>1
  <2> QED BY <2>2, <2>3
<1>5. WireIsTail'
  BY <1>2, <1>3, <1>4 DEF WireIsTail
<1>6. \A i \in 1 .. n : Part(wire, 1, n)[i] = wire[i]
  BY <1>1, SubSeqProperties DEF Part
<1>7. Ranked' /\ Ordered'
  BY DEF PInv, Ranked, Ordered
<1> QED BY <1>2, <1>3, <1>5, <1>6, <1>7

LEMMA ReadPInv ==
    ASSUME Inv, PInv, hs_read
    PROVE  PInv'
<1>1. PICK n \in 1 .. Len(wire) :
         buf' = Cat(buf, Part(wire, 1, n)) /\ wire' = Part(wire, n + 1, Len(wire))
  BY DEF hs_read, Cat, Part
<1>2. client = "read" /\ UNCHANGED << sent, step, reader >>
  BY DEF hs_read, stream
<1>3. sent \in Seq(Bytes) /\ wire \in Seq(Bytes) /\ buf \in Seq(Bytes) /\ step \in Steps
  BY DEF Inv, TypeOK
<1>4. /\ WireIsTail' /\ Ranked' /\ Ordered' /\ Len(wire') = Len(wire) - n
      /\ \A i \in 1 .. n : Part(wire, 1, n)[i] = sent[Len(sent) - Len(wire) + i]
  BY <1>1, <1>2, TakePInv
<1>5. PICK c \in Nat : BufferFrom(buf, c) /\ AheadOf(step, c)
  BY <1>2 DEF PInv, Kept
<1> DEFINE m == Len(sent) - Len(wire)
<1>6. /\ Len(buf) \in Nat /\ m \in Nat /\ c \in 0 .. m /\ Len(buf) = m - c
      /\ \A i \in 1 .. Len(buf) : buf[i] = sent[c + i]
  BY <1>3, <1>5 DEF BufferFrom, PInv, WireIsTail
<1>7. Len(Part(wire, 1, n)) = n /\ Part(wire, 1, n) \in Seq(Bytes)
  BY <1>3, ReadTypes
<1>8. Len(buf') = Len(buf) + n
  BY <1>1, <1>3, <1>7, CatOf
<1>9. \A i \in 1 .. Len(buf) + n : buf'[i] = IF i <= Len(buf) THEN buf[i] ELSE Part(wire, 1, n)[i - Len(buf)]
  BY <1>1, <1>3, <1>7, CatOf
<1>10. \A i \in 1 .. Len(buf') : buf'[i] = sent[c + i]
  <2> TAKE i \in 1 .. Len(buf')
  <2>1. CASE i <= Len(buf)
    BY <1>6, <1>8, <1>9, <2>1
  <2>2. CASE i > Len(buf)
    <3> HIDE DEF m
    <3>1. i - Len(buf) \in 1 .. n /\ m + (i - Len(buf)) = c + i
      BY <1>6, <1>8, <2>2
    <3>2. buf'[i] = Part(wire, 1, n)[i - Len(buf)]
      BY <1>6, <1>8, <1>9, <2>2
    <3>3. Part(wire, 1, n)[i - Len(buf)] = sent[m + (i - Len(buf))]
      BY <1>4, <3>1 DEF m
    <3> QED BY <3>1, <3>2, <3>3
  <2> QED BY <1>6, <1>8, <2>1, <2>2
<1>11. Len(wire') <= Len(wire) /\ Len(sent') - Len(wire') = m + n
  BY <1>2, <1>3, <1>4
<1>12. BufferFrom(buf, c)'
  BY <1>2, <1>6, <1>8, <1>10, <1>11 DEF BufferFrom
<1>13. AheadOf(step, c)'
  BY <1>2, <1>5 DEF AheadOf
<1>14. Kept'
  BY <1>2, <1>12, <1>13 DEF Kept, PInv
<1> QED BY <1>4, <1>14 DEF PInv

LEMMA NextPInv == InOrder /\ Inv /\ PInv /\ [Next]_vars => PInv'
<1> SUFFICES ASSUME InOrder, Inv, PInv, [Next]_vars PROVE PInv'
  OBVIOUS
<1> DEFINE Talking == {"connect", "await", "read"}
<1>1. ASSUME UNCHANGED << sent, wire >>,
             client' \in Talking => client \in Talking /\ UNCHANGED << step, buf >>
      PROVE  PInv'
  <2>1. WireIsTail' /\ Ranked' /\ Ordered'
    BY <1>1 DEF PInv, WireIsTail, Ranked, Ordered
  <2>2. ASSUME client' \in Talking PROVE (\E c \in Nat : BufferFrom(buf, c) /\ AheadOf(step, c))'
    <3>1. PICK c \in Nat : BufferFrom(buf, c) /\ AheadOf(step, c)
      BY <1>1, <2>2 DEF PInv, Kept
    <3>2. BufferFrom(buf, c)' /\ AheadOf(step, c)'
      BY <1>1, <2>2, <3>1 DEF BufferFrom, AheadOf
    <3> QED BY <3>2
  <2> QED BY <1>1, <2>1, <2>2 DEF PInv, Kept
<1>2. reader # "none" => client = "connected"
  BY DEF Inv, Spawned
<1>3. CASE server_send
  BY <1>3, SendPInv
<1>4. CASE server_close
  BY <1>1, <1>4 DEF server_close, handshake
<1>5. CASE open_connect
  BY <1>1, <1>5 DEF open_connect
<1>6. CASE hs_answer
  BY <1>6, AnswerPInv
<1>7. CASE hs_connected
  BY <1>1, <1>7 DEF hs_connected
<1>8. CASE hs_check
  BY <1>1, <1>8 DEF hs_check
<1>9. CASE hs_read
  BY <1>9, ReadPInv
<1>10. CASE hs_read_err
  BY <1>1, <1>10 DEF hs_read_err
<1>11. CASE tick
  BY <1>1, <1>11 DEF tick
<1>12. CASE reader_read
  <2>1. PICK n \in 1 .. Len(wire) : wire' = Part(wire, n + 1, Len(wire))
    BY <1>12 DEF reader_read, Part
  <2>2. sent' = sent /\ client = "connected" /\ client' = client
    BY <1>2, <1>12 DEF reader_read, handshake
  <2>3. WireIsTail' /\ Ranked' /\ Ordered'
    BY <2>1, <2>2, TakePInv
  <2> QED BY <2>2, <2>3 DEF PInv, Kept
<1>13. CASE next_frame
  BY <1>1, <1>13 DEF next_frame, handshake
<1>14. CASE next_frame_none
  BY <1>1, <1>14 DEF next_frame_none, handshake
<1>15. CASE reader_end
  BY <1>1, <1>15 DEF reader_end, handshake
<1>16. CASE UNCHANGED vars
  BY <1>1, <1>16 DEF vars, handshake
<1> QED BY <1>3, <1>4, <1>5, <1>6, <1>7, <1>8, <1>9, <1>10, <1>11, <1>12, <1>13, <1>14, <1>15, <1>16
        DEF Next

(***************************************************************************)
(* With the prompts in the order that handshake.rs expects, no prompt that *)
(* was read is dropped before it was answered, however reads cut and join  *)
(* them and however much text is between them (HandshakeBuf, "we must not  *)
(* drop the surplus").  With another order TLC finds one dropped.          *)
(***************************************************************************)
THEOREM PromptsAreKept == InOrder => (Spec => []NoPromptLost)
<1> SUFFICES ASSUME InOrder PROVE Spec => []NoPromptLost
  OBVIOUS
<1>1. Inv /\ PInv => NoPromptLost
  <2> SUFFICES ASSUME Inv, PInv, client \in {"await", "read"},
                      NEW s \in Steps, s >= step, NEW i \in Found(Read, Needle[s])
               PROVE  Found(buf, Needle[s]) # {}
    BY DEF NoPromptLost
  <2>1. sent \in Seq(Bytes) /\ wire \in Seq(Bytes) /\ buf \in Seq(Bytes) /\ Len(wire) <= Len(sent)
    BY DEF Inv, TypeOK, PInv, WireIsTail
  <2> DEFINE m == Len(sent) - Len(wire)
  <2>2. m \in 0 .. Len(sent) /\ Len(sent) \in Nat
    BY <2>1
  <2>3. Read = Part(sent, 1, m)
    BY DEF Read, Part
  <2>4. Read \in Seq(Bytes) /\ Len(Read) = m /\ \A j \in 1 .. m : Read[j] = sent[j]
    <3> HIDE DEF m
    <3> QED BY <2>1, <2>2, <2>3, SubSeqProperties DEF Part
  <2>5. i \in 1 .. m - 1 /\ sent[i] = Needle[s][1] /\ sent[i + 1] = Needle[s][2]
    <3>1. i \in 1 .. Len(Read) - 1 /\ Read[i] = Needle[s][1] /\ Read[i + 1] = Needle[s][2]
      BY <2>4, FoundAt
    <3> HIDE DEF m
    <3> QED BY <2>2, <2>4, <3>1
  <2>6. PICK c \in Nat : BufferFrom(buf, c) /\ AheadOf(step, c)
    BY DEF PInv, Kept
  <2>7. i > c
    BY <2>2, <2>5, <2>6 DEF AheadOf
  <2>8. Len(buf) = m - c /\ \A j \in 1 .. Len(buf) : buf[j] = sent[c + j]
    BY <2>6 DEF BufferFrom
  <2> DEFINE a == i - c
  <2>9. a \in 1 .. Len(buf) - 1 /\ c + a = i /\ c + (a + 1) = i + 1
    <3> HIDE DEF m
    <3> QED BY <2>2, <2>5, <2>7, <2>8
  <2> HIDE DEF a, m
  <2>10. a + 1 \in 1 .. Len(buf) /\ a \in 1 .. Len(buf)
    BY <2>1, <2>9
  <2>11. buf[a] = Needle[s][1] /\ buf[a + 1] = Needle[s][2]
    BY <2>5, <2>8, <2>9, <2>10
  <2> QED BY <2>1, <2>9, <2>11, FoundAt
<1>2. Inv /\ PInv /\ [Next]_vars => PInv'
  BY NextPInv
<1> QED BY <1>1, <1>2, InitInv, NextInv, InitPInv, PTL DEF Spec

-----------------------------------------------------------------------------
(***************************************************************************)
(* The frames of a byte string.                                            *)
(***************************************************************************)

LEMMA EndsGrow ==
    ASSUME NEW s, NEW a \in Nat, NEW b \in Nat
    PROVE  /\ IsFiniteSet(Ends(s, a)) /\ Cardinality(Ends(s, a)) \in Nat
           /\ a <= b => Cardinality(Ends(s, a)) <= Cardinality(Ends(s, b))
           /\ a < b /\ s[b] \in Terminators => Cardinality(Ends(s, a)) < Cardinality(Ends(s, b))
<1>1. \A n \in Nat : IsFiniteSet(Ends(s, n)) /\ Cardinality(Ends(s, n)) \in Nat
  <2> TAKE n \in Nat
  <2>1. IsFiniteSet(1 .. n) /\ Ends(s, n) \in SUBSET (1 .. n)
    BY FS_Interval DEF Ends
  <2> QED BY <2>1, FS_Subset, FS_CardinalityType
<1>2. a <= b => Ends(s, a) \in SUBSET Ends(s, b)
  BY DEF Ends
<1>3. a < b /\ s[b] \in Terminators => Ends(s, a) # Ends(s, b)
  BY DEF Ends
<1>4. IsFiniteSet(Ends(s, a)) /\ IsFiniteSet(Ends(s, b)) /\ Cardinality(Ends(s, a)) \in Nat
      /\ Cardinality(Ends(s, b)) \in Nat
  BY <1>1
<1> DEFINE A == Ends(s, a)
           B == Ends(s, b)
<1> HIDE DEF A, B
<1>5. A \in SUBSET B => Cardinality(A) <= Cardinality(B) /\ (Cardinality(B) = Cardinality(A) => B = A)
  BY <1>4, FS_Subset DEF A, B
<1> QED BY <1>2, <1>3, <1>4, <1>5 DEF A, B

\* The terminator number k is the only one with that number.
LEMMA NthIs ==
    ASSUME NEW s \in Seq(Bytes), NEW e \in Ends(s, Len(s))
    PROVE  NthEnd(s, Cardinality(Ends(s, e))) = e
<1>1. Len(s) \in Nat
  OBVIOUS
<1>2. ASSUME NEW i \in Ends(s, Len(s)), Cardinality(Ends(s, i)) = Cardinality(Ends(s, e)) PROVE i = e
  <2>1. i \in Nat /\ e \in Nat /\ s[i] \in Terminators /\ s[e] \in Terminators
    BY <1>1 DEF Ends
  <2>2. /\ Cardinality(Ends(s, i)) \in Nat
        /\ i < e => Cardinality(Ends(s, i)) < Cardinality(Ends(s, e))
        /\ e < i => Cardinality(Ends(s, e)) < Cardinality(Ends(s, i))
    BY <2>1, EndsGrow
  <2> QED BY <1>2, <2>1, <2>2
<1> QED BY <1>2 DEF NthEnd

\* One terminator more.
LEMMA EndsNext ==
    ASSUME NEW s, NEW a \in Nat, NEW b \in Nat, a < b, s[b] \in Terminators,
           \A i \in a + 1 .. b - 1 : s[i] \notin Terminators
    PROVE  Cardinality(Ends(s, b)) = Cardinality(Ends(s, a)) + 1
<1>1. Ends(s, b) = Ends(s, a) \cup {b} /\ b \notin Ends(s, a)
  BY DEF Ends
<1>2. IsFiniteSet(Ends(s, a))
  BY EndsGrow
<1> DEFINE A == Ends(s, a)
<1> HIDE DEF A
<1>3. Cardinality(A \cup {b}) = Cardinality(A) + 1
  BY <1>1, <1>2, FS_AddElement DEF A
<1> QED BY <1>1, <1>3 DEF A

\* What begins a byte string keeps its terminators and its frames.
Begins(s, t) == Len(s) <= Len(t) /\ \A i \in 1 .. Len(s) : t[i] = s[i]

LEMMA EndsKept ==
    ASSUME NEW s \in Seq(Bytes), NEW t \in Seq(Bytes), Begins(s, t), NEW n \in 0 .. Len(s)
    PROVE  Ends(t, n) = Ends(s, n) /\ Ends(s, Len(s)) \subseteq Ends(t, Len(t))
<1>1. Len(s) \in Nat /\ Len(t) \in Nat
  OBVIOUS
<1> QED BY <1>1 DEF Ends, Begins

LEMMA FrameKept ==
    ASSUME NEW s \in Seq(Bytes), NEW t \in Seq(Bytes), Begins(s, t),
           NEW a \in Nat, NEW e \in 1 .. Len(s), a < e
    PROVE  FrameOf(t, a, e) = FrameOf(s, a, e)
<1>1. Len(s) \in Nat /\ Len(t) \in Nat /\ Len(s) <= Len(t)
  BY DEF Begins
<1>2. t[e] = s[e]
  BY DEF Begins
<1>3. Part(t, a + 1, e - 1) \in Seq(Bytes) /\ Part(s, a + 1, e - 1) \in Seq(Bytes)
  BY <1>1, SubSeqProperties DEF Part
<1>4. Len(Part(t, a + 1, e - 1)) = e - 1 - a /\ Len(Part(s, a + 1, e - 1)) = e - 1 - a
  BY <1>1, SubSeqProperties DEF Part
<1>5. \A i \in 1 .. e - 1 - a : Part(t, a + 1, e - 1)[i] = t[a + i] /\ Part(s, a + 1, e - 1)[i] = s[a + i]
  BY <1>1, SubSeqProperties DEF Part
<1>6. \A i \in 1 .. e - 1 - a : t[a + i] = s[a + i]
  BY <1>1 DEF Begins
<1> DEFINE p == Part(t, a + 1, e - 1)
           q == Part(s, a + 1, e - 1)
<1>7. p = q
  <2> HIDE DEF p, q
  <2> QED BY <1>3, <1>4, <1>5, <1>6, SeqEqual DEF p, q
<1>8. SubSeq(t, a + 1, e - 1) = SubSeq(s, a + 1, e - 1)
  BY <1>7 DEF Part
<1> QED BY <1>2, <1>8 DEF FrameOf

\* Where frame number k of s begins.
Before(s, k) == IF k = 1 THEN 0 ELSE NthEnd(s, k - 1)

\* f is frame number k of s.
FrameAt(f, s, k) ==
    \E e \in Ends(s, Len(s)) : Cardinality(Ends(s, e)) = k /\ f = FrameOf(s, Before(s, k), e)

\* Frames 1 .. m of s have ends.
HasEnds(s, m) == \A k \in 1 .. m : \E e \in Ends(s, Len(s)) : Cardinality(Ends(s, e)) = k

LEMMA BeforeKept ==
    ASSUME NEW s \in Seq(Bytes), NEW t \in Seq(Bytes), Begins(s, t),
           NEW m \in Nat, HasEnds(s, m), NEW k \in 1 .. m + 1
    PROVE  /\ Before(t, k) = Before(s, k) /\ Before(s, k) \in 0 .. Len(s)
           /\ Before(s, k) = 0 \/ s[Before(s, k)] \in Terminators
           /\ k # 1 => Cardinality(Ends(s, Before(s, k))) = k - 1
<1>1. CASE k = 1
  BY <1>1 DEF Before
<1>2. CASE k # 1
  <2>1. PICK e \in Ends(s, Len(s)) : Cardinality(Ends(s, e)) = k - 1
    BY <1>2 DEF HasEnds
  <2>2. NthEnd(s, k - 1) = e
    BY <2>1, NthIs
  <2>3. e \in 1 .. Len(s) /\ s[e] \in Terminators /\ Len(s) \in Nat
    BY DEF Ends
  <2>4. e \in Ends(t, Len(t)) /\ Ends(t, e) = Ends(s, e)
    BY <2>3, EndsKept
  <2>5. NthEnd(t, k - 1) = e
    BY <2>1, <2>4, NthIs
  <2> QED BY <1>2, <2>1, <2>2, <2>3, <2>5 DEF Before
<1> QED BY <1>1, <1>2

LEMMA FrameAtKept ==
    ASSUME NEW s \in Seq(Bytes), NEW t \in Seq(Bytes), Begins(s, t),
           NEW m \in Nat, HasEnds(s, m), NEW k \in 1 .. m, NEW f, FrameAt(f, s, k)
    PROVE  FrameAt(f, t, k)
<1>1. PICK e \in Ends(s, Len(s)) : Cardinality(Ends(s, e)) = k /\ f = FrameOf(s, Before(s, k), e)
  BY DEF FrameAt
<1>2. e \in 1 .. Len(s) /\ s[e] \in Terminators /\ Len(s) \in Nat
  BY DEF Ends
<1>3. e \in Ends(t, Len(t)) /\ Ends(t, e) = Ends(s, e)
  BY <1>2, EndsKept
<1>4. PICK a : a = Before(s, k)
  OBVIOUS
<1>5. a \in Nat /\ Before(t, k) = a /\ (k # 1 => Cardinality(Ends(s, a)) = k - 1) /\ (k = 1 => a = 0)
  BY <1>2, <1>4, BeforeKept DEF Before
<1>6. a < e
  <2>1. CASE k = 1
    BY <1>2, <1>5, <2>1
  <2>2. CASE k # 1
    <3>1. e <= a => Cardinality(Ends(s, e)) <= Cardinality(Ends(s, a))
      BY <1>2, <1>5, EndsGrow
    <3> QED BY <1>1, <1>2, <1>5, <2>2, <3>1
  <2> QED BY <2>1, <2>2
<1>7. FrameOf(t, a, e) = FrameOf(s, a, e)
  BY <1>2, <1>5, <1>6, FrameKept
<1> QED BY <1>1, <1>3, <1>4, <1>5, <1>7 DEF FrameAt

-----------------------------------------------------------------------------
(***************************************************************************)
(* The splitter holds what follows some terminator of the stream, and the  *)
(* frames it has returned are the frames up to that terminator.            *)
(***************************************************************************)
Rest(b, s, c) ==
    /\ c \in 0 .. Len(s) /\ Len(b) = Len(s) - c
    /\ \A i \in 1 .. Len(b) : b[i] = s[c + i]

SplitAt(c) ==
    /\ Rest(splitter, fed, c)
    /\ c = 0 \/ fed[c] \in Terminators
    /\ Cardinality(Ends(fed, c)) = Len(frames)

FInv ==
    /\ \E c \in Nat : SplitAt(c)
    /\ \A k \in 1 .. Len(frames) : FrameAt(frames[k], fed, k)
    /\ reader # "split" => \A i \in 1 .. Len(splitter) : splitter[i] \notin Terminators

LEMMA InitFInv == Init => FInv
<1> SUFFICES ASSUME Init PROVE FInv
  OBVIOUS
<1>1. splitter = << >> /\ fed = << >> /\ frames = << >>
  BY DEF Init
<1>2. Ends(fed, 0) = {}
  BY DEF Ends
<1>3. Cardinality(Ends(fed, 0)) = 0
  BY <1>2, FS_EmptySet
<1>4. SplitAt(0)
  BY <1>1, <1>3 DEF SplitAt, Rest
<1> QED BY <1>1, <1>4 DEF FInv

LEMMA FramesHaveEnds ==
    ASSUME FInv
    PROVE  HasEnds(fed, Len(frames))
  BY DEF FInv, FrameAt, HasEnds

LEMMA ReadFInv ==
    ASSUME Inv, FInv, reader_read
    PROVE  FInv'
<1>1. PICK n \in 1 .. Len(wire) :
         fed' = Cat(fed, Part(wire, 1, n)) /\ splitter' = Cat(splitter, Part(wire, 1, n))
  BY DEF reader_read, Cat, Part
<1>2. reader' = "split" /\ frames' = frames
  BY DEF reader_read
<1>3. fed \in Seq(Bytes) /\ wire \in Seq(Bytes) /\ splitter \in Seq(Bytes) /\ Len(frames) \in Nat
  BY DEF Inv, TypeOK
<1>4. PICK x : x = Part(wire, 1, n)
  OBVIOUS
<1>5. x \in Seq(Bytes) /\ Len(x) = n /\ n \in Nat
  BY <1>3, <1>4, ReadTypes
<1>6. /\ fed' \in Seq(Bytes) /\ Len(fed') = Len(fed) + n /\ Len(fed) \in Nat
      /\ \A i \in 1 .. Len(fed) + n : fed'[i] = IF i <= Len(fed) THEN fed[i] ELSE x[i - Len(fed)]
  BY ZenonT(60), <1>1, <1>3, <1>4, <1>5, CatOf
<1>7. /\ Len(splitter') = Len(splitter) + n /\ Len(splitter) \in Nat
      /\ \A i \in 1 .. Len(splitter) + n :
            splitter'[i] = IF i <= Len(splitter) THEN splitter[i] ELSE x[i - Len(splitter)]
  BY ZenonT(60), <1>1, <1>3, <1>4, <1>5, CatOf
<1>8. Begins(fed, fed')
  BY <1>5, <1>6 DEF Begins
<1>9. \A k \in 1 .. Len(frames) : FrameAt(frames[k], fed', k)
  <2> TAKE k \in 1 .. Len(frames)
  <2>1. FrameAt(frames[k], fed, k)
    BY DEF FInv
  <2> QED BY <1>3, <1>6, <1>8, <2>1, FramesHaveEnds, FrameAtKept
<1>10. PICK c \in Nat : SplitAt(c)
  BY DEF FInv
<1>11. /\ c \in 0 .. Len(fed) /\ Len(splitter) = Len(fed) - c
       /\ \A i \in 1 .. Len(splitter) : splitter[i] = fed[c + i]
  BY <1>10 DEF SplitAt, Rest
<1>12. \A i \in 1 .. Len(splitter') : splitter'[i] = fed'[c + i]
  <2> TAKE i \in 1 .. Len(splitter')
  <2>1. c + i \in 1 .. Len(fed) + n
    BY <1>6, <1>7, <1>11
  <2>2. CASE i <= Len(splitter)
    BY <1>6, <1>7, <1>11, <2>1, <2>2
  <2>3. CASE i > Len(splitter)
    <3>1. c + i - Len(fed) = i - Len(splitter) /\ ~(c + i <= Len(fed))
      BY <1>6, <1>7, <1>11, <2>3
    <3>2. splitter'[i] = x[i - Len(splitter)]
      BY <1>7, <2>3
    <3>3. fed'[c + i] = x[c + i - Len(fed)]
      BY <1>6, <2>1, <3>1
    <3> QED BY <3>1, <3>2, <3>3
  <2> QED BY <1>7, <2>2, <2>3
<1>13. Rest(splitter', fed', c)
  BY <1>5, <1>6, <1>7, <1>11, <1>12 DEF Rest
<1>14. Ends(fed', c) = Ends(fed, c)
  BY <1>3, <1>6, <1>8, <1>11, EndsKept
<1>15. c = 0 \/ fed'[c] \in Terminators
  BY <1>6, <1>10, <1>11 DEF SplitAt
<1>16. SplitAt(c)'
  BY <1>2, <1>10, <1>13, <1>14, <1>15 DEF SplitAt
<1> QED BY <1>2, <1>9, <1>16 DEF FInv

LEMMA FrameFInv ==
    ASSUME Inv, FInv, next_frame
    PROVE  FInv'
<1>1. reader = "split" /\ terminator # 0 /\ reader' = reader /\ fed' = fed
  BY DEF next_frame
<1>2. fed \in Seq(Bytes) /\ splitter \in Seq(Bytes) /\ Len(frames) \in Nat /\ Len(fed) \in Nat
  BY DEF Inv, TypeOK
<1>3. PICK t : t = terminator
  OBVIOUS
<1>4. /\ t \in 1 .. Len(splitter) /\ splitter[t] \in Terminators
      /\ \A i \in 1 .. t - 1 : splitter[i] \notin Terminators
  BY <1>1, <1>2, <1>3, FirstTerminator
<1> DEFINE kd == IF splitter[t] = "bang" THEN "Bang" ELSE "Newline"
           f == [kind |-> kd, bytes |-> SubSeq(splitter, 1, t - 1)]
           m == Len(frames)
<1>5. frames' = Append(frames, f) /\ splitter' = Part(splitter, t + 1, Len(splitter))
  BY <1>3 DEF next_frame, Part
<1>6. Len(frames') = m + 1 /\ frames'[m + 1] = f /\ \A k \in 1 .. m : frames'[k] = frames[k]
  <2>1. frames \in Seq([kind : {"Bang", "Newline"}, bytes : Seq(Bytes \ Terminators)])
    BY DEF Inv, TypeOK
  <2> HIDE DEF f
  <2> QED BY <1>5, <2>1
<1>7. PICK c \in Nat : SplitAt(c)
  BY DEF FInv
<1>8. /\ c \in 0 .. Len(fed) /\ Len(splitter) = Len(fed) - c
      /\ \A i \in 1 .. Len(splitter) : splitter[i] = fed[c + i]
      /\ c = 0 \/ fed[c] \in Terminators
      /\ Cardinality(Ends(fed, c)) = m
  BY <1>7 DEF SplitAt, Rest
<1> DEFINE e == c + t
<1>9. e \in 1 .. Len(fed) /\ c < e /\ fed[e] \in Terminators /\ splitter[t] = fed[e]
  BY <1>2, <1>4, <1>8
<1>10. \A i \in c + 1 .. e - 1 : fed[i] \notin Terminators
  <2> TAKE i \in c + 1 .. e - 1
  <2>1. i - c \in 1 .. t - 1 /\ i - c \in 1 .. Len(splitter) /\ c + (i - c) = i
    BY <1>4, <1>8
  <2> QED BY <1>4, <1>8, <2>1
<1>e. e \in Nat
  BY <1>9
<1> HIDE DEF e
<1>11. Cardinality(Ends(fed, e)) = m + 1
  BY ZenonT(60), <1>8, <1>9, <1>10, <1>e, EndsNext
<1>12. e \in Ends(fed, Len(fed))
  BY <1>9 DEF Ends
<1>13. Before(fed, m + 1) = c
  <2>1. CASE c = 0
    <3>1. Ends(fed, 0) = {}
      BY DEF Ends
    <3>2. m = 0
      BY <1>8, <2>1, <3>1, FS_EmptySet
    <3> QED BY <2>1, <3>2 DEF Before
  <2>2. CASE c # 0
    <3>1. c \in Ends(fed, Len(fed)) /\ c \in Ends(fed, c)
      BY <1>2, <1>8, <2>2 DEF Ends
    <3>2. NthEnd(fed, m) = c
      BY <1>2, <1>8, <3>1, NthIs
    <3>3. m # 0
      <4>1. IsFiniteSet(Ends(fed, c))
        BY EndsGrow
      <4> QED BY <1>8, <3>1, <4>1, FS_EmptySet
    <3> QED BY <1>2, <3>2, <3>3 DEF Before
  <2> QED BY <2>1, <2>2
<1>14. f = FrameOf(fed, c, e)
  <2>1. Part(splitter, 1, t - 1) = Part(fed, c + 1, e - 1)
    <3>1. Part(splitter, 1, t - 1) \in Seq(Bytes) /\ Part(fed, c + 1, e - 1) \in Seq(Bytes)
      BY <1>2, <1>4, <1>8, <1>9, SubSeqProperties DEF Part
    <3>2. Len(Part(splitter, 1, t - 1)) = t - 1 /\ Len(Part(fed, c + 1, e - 1)) = t - 1
      BY <1>2, <1>4, <1>8, <1>9, SubSeqProperties DEF Part, e
    <3>3. \A i \in 1 .. t - 1 : Part(splitter, 1, t - 1)[i] = splitter[i]
      BY <1>2, <1>4, SubSeqProperties DEF Part
    <3>4. \A i \in 1 .. t - 1 : Part(fed, c + 1, e - 1)[i] = fed[c + i]
      BY <1>2, <1>4, <1>8, <1>9, SubSeqProperties DEF Part, e
    <3>5. \A i \in 1 .. t - 1 : splitter[i] = fed[c + i]
      BY <1>4, <1>8
    <3> DEFINE p == Part(splitter, 1, t - 1)
               q == Part(fed, c + 1, e - 1)
    <3> HIDE DEF p, q
    <3>6. p = q
      BY <3>1, <3>2, <3>3, <3>4, <3>5, SeqEqual DEF p, q
    <3> QED BY <3>6 DEF p, q
  <2>2. SubSeq(splitter, 1, t - 1) = SubSeq(fed, c + 1, e - 1)
    BY <2>1 DEF Part
  <2> QED BY <1>9, <2>2 DEF FrameOf
<1> HIDE DEF f
<1>15. FrameAt(f, fed, m + 1)
  BY <1>11, <1>12, <1>13, <1>14 DEF FrameAt
<1>16. \A k \in 1 .. Len(frames') : FrameAt(frames'[k], fed', k)
  <2> TAKE k \in 1 .. Len(frames')
  <2>1. CASE k \in 1 .. m
    BY <1>1, <1>6, <2>1 DEF FInv
  <2>2. CASE k = m + 1
    BY <1>1, <1>6, <1>15, <2>2
  <2> QED BY <1>2, <1>6, <2>1, <2>2
<1>17. Len(splitter') = Len(splitter) - t /\ \A i \in 1 .. Len(splitter) - t : splitter'[i] = splitter[t + i]
  BY <1>2, <1>4, <1>5, SubSeqProperties DEF Part
<1>18. \A i \in 1 .. Len(splitter') : splitter'[i] = fed[e + i]
  <2> TAKE i \in 1 .. Len(splitter')
  <2>1. t + i \in 1 .. Len(splitter) /\ c + (t + i) = e + i
    BY <1>4, <1>8, <1>17 DEF e
  <2>2. splitter'[i] = splitter[t + i] /\ splitter[t + i] = fed[c + (t + i)]
    BY <1>8, <1>17, <2>1
  <2> QED BY <2>1, <2>2
<1>19. e \in Nat /\ Rest(splitter', fed', e)
  BY <1>1, <1>2, <1>4, <1>8, <1>9, <1>17, <1>18 DEF Rest, e
<1>20. SplitAt(e)'
  BY <1>1, <1>6, <1>9, <1>11, <1>19 DEF SplitAt
<1>21. reader' = "split"
  BY <1>1
<1> QED BY <1>16, <1>19, <1>20, <1>21 DEF FInv

LEMMA NextFInv == Inv /\ FInv /\ [Next]_vars => FInv'
<1> SUFFICES ASSUME Inv, FInv, [Next]_vars PROVE FInv'
  OBVIOUS
<1>1. ASSUME UNCHANGED << splitter, fed, frames >>,
             reader' # "split" => \A i \in 1 .. Len(splitter) : splitter[i] \notin Terminators
      PROVE  FInv'
  <2>1. PICK c \in Nat : SplitAt(c)
    BY DEF FInv
  <2>2. SplitAt(c)'
    BY <1>1, <2>1 DEF SplitAt
  <2> QED BY <1>1, <2>2 DEF FInv
<1>2. ASSUME UNCHANGED stream PROVE FInv'
  BY <1>1, <1>2 DEF stream, FInv
<1>3. CASE hs_connected
  <2>1. reader' # "split" => reader # "split"
    BY <1>3 DEF hs_connected, Inv, Spawned
  <2>2. UNCHANGED << splitter, fed, frames >>
    BY <1>3 DEF hs_connected
  <2> QED BY <1>1, <2>1, <2>2 DEF FInv
<1>4. CASE reader_read
  BY <1>4, ReadFInv
<1>5. CASE next_frame
  BY <1>5, FrameFInv
<1>6. CASE next_frame_none
  BY <1>1, <1>6, FirstTerminator DEF next_frame_none, Inv, TypeOK
<1>7. CASE reader_end
  BY <1>1, <1>7 DEF reader_end, FInv
<1> QED BY <1>2, <1>3, <1>4, <1>5, <1>6, <1>7
        DEF Next, server_send, server_close, open_connect, hs_answer, hs_check, hs_read, hs_read_err, tick, vars

(***************************************************************************)
(* The frames that FrameSplitter::next_frame returns are the frames of the *)
(* stream, in order, for every stream and every way reads cut it, and none *)
(* is left when the reader goes back to read.                              *)
(***************************************************************************)
THEOREM FramesAreExact == Spec => []FramesExact
<1>1. Inv /\ FInv => FramesExact
  <2> SUFFICES ASSUME Inv, FInv PROVE FramesExact
    OBVIOUS
  <2>1. fed \in Seq(Bytes) /\ Len(fed) \in Nat /\ splitter \in Seq(Bytes) /\ Len(splitter) \in Nat
    BY DEF Inv, TypeOK
  <2>2. frames \in Seq([kind : {"Bang", "Newline"}, bytes : Seq(Bytes \ Terminators)])
    BY DEF Inv, TypeOK
  <2> DEFINE m == Len(frames)
             n == Cardinality(Ends(fed, Len(fed)))
             F == FramesOf(fed)
  <2>3. m \in Nat /\ n \in Nat
    BY <2>1, <2>2, EndsGrow
  <2>4. PICK c \in Nat : SplitAt(c)
    BY DEF FInv
  <2>5. m <= n
    <3>1. c <= Len(fed) /\ Cardinality(Ends(fed, c)) = m
      BY <2>1, <2>4 DEF SplitAt, Rest
    <3> QED BY <2>1, <3>1, EndsGrow
  <2>6. F = [k \in 1 .. n |-> FrameOf(fed, Before(fed, k), NthEnd(fed, k))]
    BY DEF FramesOf, Before
  <2>7. \A k \in 1 .. m : frames[k] = F[k]
    <3> TAKE k \in 1 .. m
    <3>1. PICK e \in Ends(fed, Len(fed)) :
             Cardinality(Ends(fed, e)) = k /\ frames[k] = FrameOf(fed, Before(fed, k), e)
      BY DEF FInv, FrameAt
    <3>2. NthEnd(fed, k) = e
      BY <2>1, <3>1, NthIs
    <3>3. k \in 1 .. n
      BY <2>3, <2>5
    <3> HIDE DEF m, n, F
    <3> QED BY <2>6, <3>1, <3>2, <3>3
  <2>8. Len(F) = n /\ F \in Seq({F[k] : k \in 1 .. n}) /\ DOMAIN F = 1 .. n
    <3> HIDE DEF n
    <3> QED BY <2>3, <2>6
  <2>9. IsPrefix(frames, F)
    <3>1. Part(frames, 1, m) = Part(F, 1, m)
      <4>1. PICK X : X = {F[k] : k \in 1 .. n}
        OBVIOUS
      <4>2. \A k \in 1 .. m : F[k] \in X /\ frames[k] \in X
        BY <2>3, <2>5, <2>7, <4>1
      <4> HIDE DEF m, n, F
      <4>3. /\ Part(frames, 1, m) \in Seq(X) /\ Len(Part(frames, 1, m)) = m
            /\ \A k \in 1 .. m : Part(frames, 1, m)[k] = frames[k]
        BY <2>3, <4>2, SubSeqProperties DEF Part
      <4>4. /\ Part(F, 1, m) \in Seq(X) /\ Len(Part(F, 1, m)) = m
            /\ \A k \in 1 .. m : Part(F, 1, m)[k] = F[k]
        BY <2>3, <4>2, SubSeqProperties DEF Part
      <4> QED BY <2>7, <4>3, <4>4, SeqEqual
    <3> QED BY <2>5, <2>8, <3>1 DEF IsPrefix, Part
  <2>10. ASSUME reader # "split" PROVE frames = F
    <3>1. \A i \in 1 .. Len(splitter) : splitter[i] \notin Terminators
      BY <2>10 DEF FInv
    <3>2. /\ c \in 0 .. Len(fed) /\ Len(splitter) = Len(fed) - c
          /\ \A i \in 1 .. Len(splitter) : splitter[i] = fed[c + i]
          /\ Cardinality(Ends(fed, c)) = m
      BY <2>4 DEF SplitAt, Rest
    <3>3. \A i \in c + 1 .. Len(fed) : fed[i] \notin Terminators
      <4> TAKE i \in c + 1 .. Len(fed)
      <4>1. i - c \in 1 .. Len(splitter) /\ c + (i - c) = i
        BY <2>1, <3>2
      <4> QED BY <3>1, <3>2, <4>1
    <3>4. Ends(fed, Len(fed)) = Ends(fed, c)
      BY <2>1, <3>2, <3>3 DEF Ends
    <3>5. m = n
      BY <3>2, <3>4
    <3>6. DOMAIN frames = 1 .. m
      BY <2>2
    <3>7. frames = [k \in 1 .. m |-> frames[k]]
      BY <2>2
    <3> HIDE DEF m, n, F
    <3>8. F = [k \in 1 .. n |-> F[k]]
      BY <2>6
    <3> QED BY <2>7, <3>5, <3>7, <3>8
  <2> QED BY <2>9, <2>10 DEF FramesExact
<1> QED BY <1>1, InitInv, NextInv, InitFInv, NextFInv, PTL DEF Spec
=============================================================================
