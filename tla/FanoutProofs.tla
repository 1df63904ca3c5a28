---------------------------- MODULE FanoutProofs ----------------------------
(***************************************************************************)
(* Proofs about Fanout for every set of tickers, every choice of windows   *)
(* and flushers and every number of payloads: the newest payload of a key  *)
(* is never dropped, and coalescer and publisher implement LatestFeed.     *)
(***************************************************************************)
EXTENDS Fanout, FiniteSetTheorems, TLAPS

-----------------------------------------------------------------------------
(***************************************************************************)
(* The inductive invariant.                                                *)
(***************************************************************************)

\* TypeOK without its bound on the publishes of a flusher, which is OnePublish.
Types ==
    /\ accepted \in [Keys -> Payloads]
    /\ pending \in [Keys -> Payloads]
    /\ flusher \in [Flushers -> [pc : {"idle", "flushing", "done"}, batch : [Keys -> Payloads]]]
    /\ publishing \subseteq
          [by : Flushers \cup {"submit"}, key : Keys, n : Payloads \ {0},
           left : (SUBSET Writes) \ {{}}]
    /\ attempted \in [Keys -> Payloads]
    /\ stream \in [Keys -> Payloads]
    /\ snapshot \in [Keys -> Payloads]
    /\ refused \subseteq Keys \X Payloads
    /\ exited \in BOOLEAN

\* A flusher awaits each of its publishes.
OnePublish == \A p, q \in publishing : p.by # "submit" /\ p.by = q.by => p = q

\* Outside flush_once a flusher has nothing in its hands.
HandsEmpty == \A f \in Flushers : flusher[f].pc # "flushing" => flusher[f].batch = Empty

\* Nothing is ahead of what it was made from.
Behind ==
    /\ \A k \in Keys :
          /\ pending[k] <= accepted[k] /\ attempted[k] <= accepted[k]
          /\ stream[k] <= attempted[k] /\ snapshot[k] <= attempted[k]
          /\ \A f \in Flushers : flusher[f].batch[k] <= accepted[k]
    /\ \A p \in publishing : p.n <= attempted[p.key]

(***************************************************************************)
(* While the flush task is on its own, the payloads of a coalesced key are *)
(* in line: what is being published is the newest one handed to the sink,  *)
(* what the flush task holds is no older, and what is pending is no older  *)
(* than that.                                                              *)
(***************************************************************************)
InLine ==
    OnlyFlushTask => \A k \in Coalesced :
        /\ pending[k] # 0 => attempted[k] <= pending[k]
        /\ \A f \in Flushers : flusher[f].batch[k] # 0 =>
              /\ attempted[k] <= flusher[f].batch[k]
              /\ pending[k] # 0 => flusher[f].batch[k] <= pending[k]
        /\ \A p \in publishing : p.key = k => p.by = "flush_task" /\ p.n = attempted[k]

IInv == Types /\ OnePublish /\ HandsEmpty /\ Behind /\ NewestKept /\ InLine

-----------------------------------------------------------------------------
\* The newer of two payloads.
LEMMA MaxOfTwo ==
    ASSUME NEW a \in Int, NEW b \in Int
    PROVE  Max({a, b}) = IF a <= b THEN b ELSE a
<1> DEFINE m == IF a <= b THEN b ELSE a
<1>1. m \in {a, b} /\ \A y \in {a, b} : m >= y
  OBVIOUS
<1>2. \A x \in {a, b} : (\A y \in {a, b} : x >= y) => x = m
  OBVIOUS
<1> QED BY <1>1, <1>2 DEF Max

\* Types and OnePublish are TypeOK.
LEMMA InvTypeOK == Types /\ OnePublish => TypeOK
<1> SUFFICES ASSUME Types, OnePublish, NEW f \in Flushers
             PROVE  Cardinality({p \in publishing : p.by = f}) <= 1
  BY DEF Types, TypeOK
<1> DEFINE S == {p \in publishing : p.by = f}
<1>1. f # "submit"
  BY FanoutAssumption
<1>2. CASE S = {}
  BY <1>2, FS_EmptySet
<1>3. CASE S # {}
  <2>1. PICK p : p \in S
    BY <1>3
  <2>2. S = {p}
    BY <2>1, <1>1 DEF OnePublish
  <2> QED BY <2>2, FS_Singleton
<1> QED BY <1>2, <1>3

LEMMA InitIInv == Init => IInv
<1> SUFFICES ASSUME Init PROVE IInv
  OBVIOUS
<1>0. Empty \in [Keys -> Payloads] /\ \A k \in Keys : Empty[k] = 0
  BY FanoutAssumption DEF Empty, Payloads
<1> USE DEF Init
<1>1. Types
  BY <1>0 DEF Types
<1>2. OnePublish /\ HandsEmpty
  BY DEF OnePublish, HandsEmpty
<1>3. Behind /\ NewestKept
  BY <1>0 DEF Behind, NewestKept
<1>4. InLine
  BY <1>0 DEF InLine, Coalesced, Keys
<1> QED BY <1>1, <1>2, <1>3, <1>4 DEF IInv

\* FanoutSink::publish: the newest payload handed to the sink.
LEMMA PublishAttempts ==
    ASSUME Types, NEW by, NEW k \in Keys, NEW n \in Payloads, publish(by, k, n)
    PROVE  /\ attempted' \in [Keys -> Payloads]
           /\ attempted'[k] = IF attempted[k] <= n THEN n ELSE attempted[k]
           /\ \A j \in Keys : j # k => attempted'[j] = attempted[j]
<1>1. attempted[k] \in Int /\ n \in Int
  BY FanoutAssumption DEF Types, Payloads
<1>2. Max({attempted[k], n}) = IF attempted[k] <= n THEN n ELSE attempted[k]
  BY <1>1, MaxOfTwo
<1>3. attempted' = [attempted EXCEPT ![k] = Max({attempted[k], n})]
  BY DEF publish
<1> QED BY <1>2, <1>3 DEF Types

LEMMA SubmitIInv ==
    ASSUME IInv, NEW k \in Keys, submit(k)
    PROVE  IInv'
<1> USE FanoutAssumption DEF IInv, Types
<1>1. /\ accepted[k] + 1 \in Payloads \ {0}
      /\ accepted' = [accepted EXCEPT ![k] = accepted[k] + 1]
      /\ UNCHANGED << flusher, stream, snapshot, refused, exited >>
  BY DEF submit, Payloads
<1>2. OnlyFlushTask' = OnlyFlushTask
  BY <1>1 DEF OnlyFlushTask
<1>3. CASE k \in Coalesced
  <2>1. /\ pending' = [pending EXCEPT ![k] = accepted[k] + 1]
        /\ UNCHANGED << publishing, attempted >>
    BY <1>1, <1>3 DEF submit
  <2>2. Types'
    BY <1>1, <2>1
  <2>3. OnePublish' /\ HandsEmpty'
    BY <1>1, <2>1 DEF OnePublish, HandsEmpty
  <2>4. Behind' /\ NewestKept'
    BY <1>1, <2>1 DEF Behind, NewestKept, Payloads
  <2>5. InLine'
    BY <1>1, <1>2, <2>1 DEF InLine, Behind, Payloads, Coalesced, Keys
  <2> QED BY <2>2, <2>3, <2>4, <2>5
<1>4. CASE k \notin Coalesced
  <2>1. publish("submit", k, accepted[k] + 1) /\ pending' = pending
    BY <1>1, <1>4 DEF submit
  <2> DEFINE new == [by |-> "submit", key |-> k, n |-> accepted[k] + 1, left |-> Writes]
  <2>2. publishing' = publishing \cup {new}
    BY <2>1 DEF publish
  <2>3. /\ attempted' \in [Keys -> Payloads]
        /\ attempted'[k] = accepted[k] + 1
        /\ \A j \in Keys : j # k => attempted'[j] = attempted[j]
    BY <1>1, <2>1, PublishAttempts DEF Behind, Payloads
  <2>4. Types'
    <3>1. new \in [by : Flushers \cup {"submit"}, key : Keys, n : Payloads \ {0},
                   left : (SUBSET Writes) \ {{}}]
      BY <1>1 DEF Writes
    <3> HIDE DEF new
    <3> QED BY <1>1, <2>1, <2>2, <2>3, <3>1
  <2>5. OnePublish' /\ HandsEmpty'
    BY <1>1, <2>1, <2>2 DEF OnePublish, HandsEmpty
  <2>6. Behind' /\ NewestKept'
    <3>1. NewestKept'
      BY <1>1, <2>1, <2>3 DEF NewestKept
    <3>2. \A j \in Keys : attempted[j] <= attempted'[j] /\ attempted'[j] <= accepted'[j]
      BY <1>1, <2>3 DEF Behind, Payloads
    <3>3. \A p \in publishing' : p.n <= attempted'[p.key]
      BY <1>1, <2>2, <2>3, <3>2 DEF Behind, Payloads
    <3> QED BY <1>1, <2>1, <2>3, <3>1, <3>2, <3>3 DEF Behind, Payloads
  <2>7. InLine'
    BY <1>1, <1>2, <1>4, <2>1, <2>2, <2>3 DEF InLine, Coalesced, Keys
  <2> QED BY <2>4, <2>5, <2>6, <2>7
<1> QED BY <1>3, <1>4

LEMMA FlushTakeIInv ==
    ASSUME IInv, NEW f \in Flushers, flush_take(f)
    PROVE  IInv'
<1> USE FanoutAssumption DEF IInv, Types
<1>1. /\ flusher[f].pc = "idle" /\ flusher[f].batch = Empty
      /\ flusher' = [flusher EXCEPT ![f] = [pc |-> "flushing", batch |-> pending]]
      /\ pending' = Empty
      /\ UNCHANGED << accepted, publishing, attempted, stream, snapshot, refused, exited >>
  BY DEF flush_take, HandsEmpty
<1>2. Empty \in [Keys -> Payloads] /\ \A k \in Keys : Empty[k] = 0
  BY DEF Empty, Payloads
<1>3. /\ flusher'[f].pc = "flushing" /\ flusher'[f].batch = pending
      /\ \A g \in Flushers \ {f} : flusher'[g] = flusher[g]
  BY <1>1
<1>4. Types'
  BY <1>1, <1>2
<1>5. OnePublish' /\ HandsEmpty'
  BY <1>1, <1>3 DEF OnePublish, HandsEmpty
<1>6. Behind'
  BY <1>1, <1>2, <1>3 DEF Behind, Payloads
<1>7. NewestKept'
  BY <1>1, <1>2, <1>3 DEF NewestKept, Behind, Payloads
<1>8. InLine'
  <2> SUFFICES ASSUME OnlyFlushTask' PROVE InLine'
    BY DEF InLine
  <2>1. f = "flush_task" /\ OnlyFlushTask
    BY <1>1, <1>3 DEF OnlyFlushTask
  <2>2. \A k \in Coalesced : k \in Keys
    BY DEF Coalesced, Keys
  <2> QED BY <1>1, <1>2, <1>3, <2>1, <2>2 DEF InLine
<1> QED BY <1>4, <1>5, <1>6, <1>7, <1>8

LEMMA FlushNextIInv ==
    ASSUME IInv, NEW f \in Flushers, flush_next(f)
    PROVE  IInv'
<1> USE FanoutAssumption DEF IInv, Types
<1>1. /\ flusher[f].pc = "flushing"
      /\ \A p \in publishing : p.by # f
      /\ UNCHANGED << accepted, pending, stream, snapshot, refused, exited >>
  BY DEF flush_next
<1>2. PICK k \in Keys :
         /\ flusher[f].batch[k] # 0
         /\ flusher' = [flusher EXCEPT ![f].batch[k] = 0]
         /\ publish(f, k, flusher[f].batch[k])
  BY DEF flush_next
<1> DEFINE n == flusher[f].batch[k]
           new == [by |-> f, key |-> k, n |-> n, left |-> Writes]
<1>3. n \in Payloads \ {0} /\ n \in Nat
  BY <1>2 DEF Payloads
<1>4. publishing' = publishing \cup {new}
  BY <1>2 DEF publish
<1>5. /\ attempted' \in [Keys -> Payloads]
      /\ attempted'[k] = IF attempted[k] <= n THEN n ELSE attempted[k]
      /\ \A j \in Keys : j # k => attempted'[j] = attempted[j]
  BY <1>2, <1>3, PublishAttempts
<1>6. new \in [by : Flushers \cup {"submit"}, key : Keys, n : Payloads \ {0},
               left : (SUBSET Writes) \ {{}}]
  BY <1>3 DEF Writes
<1>7. /\ new.by = f /\ new.key = k /\ new.n = n
  OBVIOUS
<1>8. /\ flusher'[f].pc = "flushing" /\ flusher'[f].batch[k] = 0
      /\ flusher'[f].batch \in [Keys -> Payloads]
      /\ \A j \in Keys : j # k => flusher'[f].batch[j] = flusher[f].batch[j]
      /\ \A g \in Flushers \ {f} : flusher'[g] = flusher[g]
      /\ flusher' \in [Flushers -> [pc : {"idle", "flushing", "done"}, batch : [Keys -> Payloads]]]
  BY <1>1, <1>2 DEF Payloads
<1> HIDE DEF new
<1>9. Types'
  BY <1>1, <1>4, <1>5, <1>6, <1>8
<1>10. OnePublish' /\ HandsEmpty'
  BY <1>1, <1>4, <1>7, <1>8 DEF OnePublish, HandsEmpty
<1>11. \A j \in Keys : attempted[j] <= attempted'[j] /\ attempted'[j] <= accepted[j]
  BY <1>3, <1>5 DEF Behind, Payloads
<1>12. Behind'
  <2>1. \A p \in publishing' : p.n <= attempted'[p.key]
    BY <1>3, <1>4, <1>5, <1>7, <1>11 DEF Behind, Payloads
  <2>2. \A j \in Keys, g \in Flushers : flusher'[g].batch[j] <= accepted[j]
    BY <1>8 DEF Behind, Payloads
  <2> QED BY <1>1, <1>5, <1>11, <2>1, <2>2 DEF Behind, Payloads
<1>13. NewestKept'
  <2> SUFFICES ASSUME NEW j \in Keys
               PROVE  accepted[j] \in {pending[j], attempted'[j]} \cup {flusher'[g].batch[j] : g \in Flushers}
    BY <1>1 DEF NewestKept
  <2>1. CASE accepted[j] \in {pending[j], attempted[j]}
    BY <2>1, <1>5, <1>11 DEF Payloads
  <2>2. ASSUME NEW g \in Flushers, accepted[j] = flusher[g].batch[j], g # f \/ j # k
        PROVE  accepted[j] = flusher'[g].batch[j]
    BY <2>2, <1>8
  <2>3. CASE j = k /\ accepted[j] = flusher[f].batch[j]
    <3>1. accepted[j] = n /\ n <= attempted'[j] /\ attempted'[j] <= accepted[j]
      BY <2>3, <1>3, <1>5, <1>11 DEF Payloads
    <3>2. attempted'[j] = accepted[j]
      BY <1>3, <1>5, <3>1 DEF Payloads
    <3> QED BY <3>2
  <2> QED BY <2>1, <2>2, <2>3 DEF NewestKept
<1>14. InLine'
  <2> SUFFICES ASSUME OnlyFlushTask' PROVE InLine'
    BY DEF InLine
  <2>1. f = "flush_task" /\ OnlyFlushTask
    BY <1>1, <1>8 DEF OnlyFlushTask
  <2>2. \A j \in Coalesced : j \in Keys
    BY DEF Coalesced, Keys
  <2> SUFFICES ASSUME NEW j \in Coalesced
               PROVE  /\ pending[j] # 0 => attempted'[j] <= pending[j]
                      /\ \A g \in Flushers : flusher'[g].batch[j] # 0 =>
                            /\ attempted'[j] <= flusher'[g].batch[j]
                            /\ pending[j] # 0 => flusher'[g].batch[j] <= pending[j]
                      /\ \A p \in publishing' : p.key = j => p.by = "flush_task" /\ p.n = attempted'[j]
    BY <1>1 DEF InLine
  <2>3. \A g \in Flushers \ {f} : flusher[g].batch[j] = 0
    <3>1. \A g \in Flushers \ {f} : flusher[g].batch = Empty
      BY <2>1 DEF OnlyFlushTask, HandsEmpty
    <3> QED BY <2>2, <3>1 DEF Empty
  <2>4. CASE j # k
    <3>1. attempted'[j] = attempted[j] /\ \A g \in Flushers : flusher'[g].batch[j] = flusher[g].batch[j]
      BY <1>5, <1>8, <2>2, <2>4
    <3>2. \A p \in publishing' : p.key = j => p \in publishing
      BY <1>4, <1>7, <2>4
    <3> QED BY <2>1, <3>1, <3>2 DEF InLine
  <2>5. CASE j = k
    <3>1. attempted'[k] = n /\ (pending[k] # 0 => n <= pending[k])
      BY <1>2, <1>3, <1>5, <2>1, <2>5 DEF InLine, Payloads
    <3>2. \A p \in publishing : p.key # k
      BY <1>1, <2>1, <2>5 DEF InLine
    <3> QED BY <1>4, <1>7, <1>8, <2>1, <2>3, <2>5, <3>1, <3>2
  <2> QED BY <2>4, <2>5
<1> QED BY <1>9, <1>10, <1>12, <1>13, <1>14

LEMMA FlushEndIInv ==
    ASSUME IInv, NEW f \in Flushers, flush_end(f) \/ (flush_all_fails /\ f = "flush_all")
    PROVE  IInv'
<1> USE FanoutAssumption DEF IInv, Types
<1>1. /\ flusher[f].batch = Empty
      /\ f # "flush_task" => flusher'[f].pc # "idle"
      /\ flusher' = [flusher EXCEPT ![f].pc = flusher'[f].pc]
      /\ flusher'[f].pc \in {"idle", "done"}
      /\ UNCHANGED << accepted, pending, publishing, attempted, stream, snapshot,
                      refused, exited >>
  BY DEF flush_end, flush_all_fails, HandsEmpty
<1>2. \A g \in Flushers : flusher'[g].batch = flusher[g].batch /\ (g # f => flusher'[g] = flusher[g])
  BY <1>1
<1>3. Types'
  BY <1>1
<1>4. OnePublish' /\ HandsEmpty'
  BY <1>1, <1>2 DEF OnePublish, HandsEmpty, Empty
<1>5. Behind' /\ NewestKept'
  BY SMTT(30), <1>1, <1>2 DEF Behind, NewestKept
<1>6. InLine'
  <2>1. OnlyFlushTask' => OnlyFlushTask
    BY <1>1, <1>2 DEF OnlyFlushTask
  <2> QED BY <1>1, <1>2, <2>1 DEF InLine
<1> QED BY <1>3, <1>4, <1>5, <1>6

LEMMA PublishIInv ==
    ASSUME IInv, NEW p \in publishing, publish_nats(p) \/ publish_redis(p)
    PROVE  IInv'
<1> USE FanoutAssumption DEF IInv, Types
<1>1. PICK w \in p.left : Written(p, w)
  BY DEF publish_nats, publish_redis
<1>2. /\ UNCHANGED << accepted, pending, flusher, attempted, exited >>
      /\ stream' \in {stream, [stream EXCEPT ![p.key] = p.n]}
      /\ snapshot' \in {snapshot, [snapshot EXCEPT ![p.key] = p.n]}
      /\ refused' \in {refused, refused \cup {<< p.key, p.n >>}}
  BY DEF publish_nats, publish_redis, Refuses, Lost
<1> DEFINE rest == [p EXCEPT !.left = @ \ {w}]
<1>3. p.key \in Keys /\ p.n \in Payloads \ {0} /\ p.n <= attempted[p.key]
  BY DEF Behind
<1>4. /\ rest.by = p.by /\ rest.key = p.key /\ rest.n = p.n
      /\ p.left # {w} => rest \in [by : Flushers \cup {"submit"}, key : Keys, n : Payloads \ {0},
                                  left : (SUBSET Writes) \ {{}}]
  OBVIOUS
<1>5. \/ publishing' = publishing \ {p}
      \/ publishing' = (publishing \ {p}) \cup {rest} /\ p.left # {w}
  BY <1>1 DEF Written
<1> HIDE DEF rest
<1>6. Types'
  BY <1>2, <1>3, <1>4, <1>5
<1>7. OnePublish' /\ HandsEmpty'
  BY <1>2, <1>4, <1>5 DEF OnePublish, HandsEmpty, Empty
<1>8. Behind' /\ NewestKept'
  BY <1>2, <1>3, <1>4, <1>5 DEF Behind, NewestKept, Payloads
<1>9. InLine'
  <2>1. OnlyFlushTask' = OnlyFlushTask
    BY <1>2 DEF OnlyFlushTask
  <2> QED BY <1>2, <1>4, <1>5, <2>1 DEF InLine
<1> QED BY <1>6, <1>7, <1>8, <1>9

LEMMA NextIInv == IInv /\ [Next]_vars => IInv'
<1> SUFFICES ASSUME IInv, [Next]_vars PROVE IInv'
  OBVIOUS
<1>1. ASSUME NEW k \in Keys, redis_expire(k) PROVE IInv'
  <2> USE DEF IInv, Types
  <2>1. /\ snapshot' = [snapshot EXCEPT ![k] = 0]
        /\ UNCHANGED << accepted, pending, flusher, publishing, attempted, stream, refused, exited >>
    BY <1>1 DEF redis_expire
  <2>2. Types'
    BY <2>1, FanoutAssumption DEF Payloads
  <2>3. OnePublish' /\ HandsEmpty' /\ NewestKept'
    BY <2>1 DEF OnePublish, HandsEmpty, NewestKept
  <2>4. Behind'
    BY <2>1, FanoutAssumption DEF Behind, Payloads
  <2>5. InLine'
    BY <2>1 DEF InLine, OnlyFlushTask
  <2> QED BY <2>2, <2>3, <2>4, <2>5
<1>2. CASE exit
  <2>1. /\ exited' \in BOOLEAN
        /\ UNCHANGED << accepted, pending, flusher, publishing, attempted, stream, snapshot, refused >>
    BY <1>2 DEF exit
  <2>2. Types' /\ OnePublish' /\ HandsEmpty' /\ NewestKept'
    BY <2>1 DEF IInv, Types, OnePublish, HandsEmpty, NewestKept
  <2>3. Behind' /\ InLine'
    BY <2>1 DEF IInv, Behind, InLine, OnlyFlushTask
  <2> QED BY <2>2, <2>3 DEF IInv
<1>3. CASE flush_all_fails
  <2>1. "flush_all" \in Flushers
    BY <1>3 DEF flush_all_fails
  <2> QED BY <1>3, <2>1, FlushEndIInv
<1>4. CASE UNCHANGED vars
  <2>1. Types' /\ OnePublish' /\ HandsEmpty' /\ NewestKept'
    BY <1>4 DEF vars, IInv, Types, OnePublish, HandsEmpty, NewestKept
  <2>2. Behind' /\ InLine'
    BY <1>4 DEF vars, IInv, Behind, InLine, OnlyFlushTask
  <2> QED BY <2>1, <2>2 DEF IInv
<1>5. ASSUME NEW k \in Keys, submit(k) PROVE IInv'
  BY <1>5, SubmitIInv
<1>6. ASSUME NEW f \in Flushers, flush_take(f) PROVE IInv'
  BY <1>6, FlushTakeIInv
<1>7. ASSUME NEW f \in Flushers, flush_next(f) PROVE IInv'
  BY <1>7, FlushNextIInv
<1>8. ASSUME NEW f \in Flushers, flush_end(f) PROVE IInv'
  BY <1>8, FlushEndIInv
<1>9. ASSUME NEW p \in publishing, publish_nats(p) \/ publish_redis(p) PROVE IInv'
  BY <1>9, PublishIInv
<1> QED BY <1>1, <1>2, <1>3, <1>4, <1>5, <1>6, <1>7, <1>8, <1>9 DEF Next

(***************************************************************************)
(* Map, flushers, publishes and sinks keep their types, and a flusher has  *)
(* at most one publish under way (flush_once awaits each).                 *)
(***************************************************************************)
THEOREM TypeCorrect == Spec => []TypeOK
<1>1. IInv => TypeOK
  BY InvTypeOK DEF IInv
<1> QED BY <1>1, InitIInv, NextIInv, PTL DEF Spec

(***************************************************************************)
(* A payload leaves the coalescer only for a newer one or to the sink,     *)
(* whatever is submitted while a flush awaits the network (flush_once      *)
(* takes the map before it publishes) and whichever writes fail.           *)
(***************************************************************************)
THEOREM NewestIsKept == Spec => []NewestKept
<1>1. IInv => NewestKept
  BY DEF IInv
<1> QED BY <1>1, InitIInv, NextIInv, PTL DEF Spec

-----------------------------------------------------------------------------
(***************************************************************************)
(* The refinement of LatestFeed, step by step.                             *)
(***************************************************************************)

\* A publish offers its payload, or one that was overtaken changes nothing.
LEMMA PublishOffers ==
    ASSUME IInv, NEW by, NEW k \in Keys, NEW n \in Payloads, publish(by, k, n)
    PROVE  \/ attempted' = attempted
           \/ \E m \in attempted[k] + 1 .. MaxUpdates : attempted' = [attempted EXCEPT ![k] = m]
<1>1. /\ attempted \in [Keys -> Payloads] /\ attempted' \in [Keys -> Payloads]
      /\ attempted'[k] = IF attempted[k] <= n THEN n ELSE attempted[k]
      /\ \A j \in Keys : j # k => attempted'[j] = attempted[j]
  BY PublishAttempts DEF IInv, Types
<1>2. CASE attempted[k] < n
  <2>1. n \in attempted[k] + 1 .. MaxUpdates
    BY <1>1, <1>2, FanoutAssumption DEF Payloads
  <2>2. attempted' = [attempted EXCEPT ![k] = n]
    BY <1>1, <1>2, FanoutAssumption DEF Payloads
  <2> QED BY <2>1, <2>2
<1>3. CASE ~(attempted[k] < n)
  <2>1. attempted' = attempted
    BY <1>1, <1>3, FanoutAssumption DEF Payloads
  <2> QED BY <2>1
<1> QED BY <1>2, <1>3

(***************************************************************************)
(* What a step does to the three variables of the feed: it offers a newer  *)
(* payload, begins to drain, writes one payload to one of the sinks (the   *)
(* newest one, if the order is kept), drops a snapshot, or nothing.        *)
(***************************************************************************)
LEMMA FeedStep ==
    ASSUME IInv, [Next]_vars
    PROVE  \/ /\ OnlyFlushTask' = OnlyFlushTask /\ UNCHANGED << stream, snapshot >>
              /\ \/ attempted' = attempted
                 \/ \E k \in Keys : \E m \in attempted[k] + 1 .. MaxUpdates :
                        attempted' = [attempted EXCEPT ![k] = m]
           \/ ~OnlyFlushTask' /\ UNCHANGED << attempted, stream, snapshot >>
           \/ /\ OnlyFlushTask' = OnlyFlushTask /\ UNCHANGED attempted
              /\ \E p \in publishing :
                    /\ p.key \in Keys /\ p.n \in 1 .. attempted[p.key]
                    /\ p.key \in Coalesced /\ OnlyFlushTask => p.n = attempted[p.key]
                    /\ \/ stream' \in {stream, [stream EXCEPT ![p.key] = p.n]} /\ UNCHANGED snapshot
                       \/ snapshot' \in {snapshot, [snapshot EXCEPT ![p.key] = p.n]} /\ UNCHANGED stream
           \/ /\ OnlyFlushTask' = OnlyFlushTask /\ UNCHANGED << attempted, stream >>
              /\ Expires /\ \E k \in Keys : snapshot' = [snapshot EXCEPT ![k] = 0]
<1> USE DEF OnlyFlushTask
<1>1. ASSUME NEW k \in Keys, submit(k)
      PROVE  /\ OnlyFlushTask' = OnlyFlushTask /\ UNCHANGED << stream, snapshot >>
             /\ \/ attempted' = attempted
                \/ \E m \in attempted[k] + 1 .. MaxUpdates : attempted' = [attempted EXCEPT ![k] = m]
  <2>1. /\ UNCHANGED << flusher, stream, snapshot >>
        /\ accepted[k] + 1 \in Payloads
        /\ attempted' = attempted \/ publish("submit", k, accepted[k] + 1)
    BY <1>1, FanoutAssumption DEF submit, IInv, Types, Payloads
  <2> QED BY <2>1, PublishOffers
<1>2. ASSUME NEW f \in Flushers, flush_take(f)
      PROVE  /\ UNCHANGED << attempted, stream, snapshot >>
             /\ OnlyFlushTask' = OnlyFlushTask \/ ~OnlyFlushTask'
  <2>1. /\ UNCHANGED << attempted, stream, snapshot >>
        /\ flusher' = [flusher EXCEPT ![f] = [pc |-> "flushing", batch |-> pending]]
    BY <1>2 DEF flush_take
  <2>2. CASE f = "flush_task"
    BY <2>1, <2>2 DEF IInv, Types
  <2>3. CASE f # "flush_task"
    BY <2>1, <2>3 DEF IInv, Types
  <2> QED BY <2>1, <2>2, <2>3
<1>3. ASSUME NEW f \in Flushers, flush_next(f)
      PROVE  /\ OnlyFlushTask' = OnlyFlushTask /\ UNCHANGED << stream, snapshot >>
             /\ \/ attempted' = attempted
                \/ \E k \in Keys : \E m \in attempted[k] + 1 .. MaxUpdates :
                       attempted' = [attempted EXCEPT ![k] = m]
  <2>1. PICK k \in Keys :
           /\ flusher' = [flusher EXCEPT ![f].batch[k] = 0]
           /\ publish(f, k, flusher[f].batch[k])
    BY <1>3 DEF flush_next
  <2>2. flusher[f].batch[k] \in Payloads /\ UNCHANGED << stream, snapshot >>
    BY <1>3 DEF flush_next, IInv, Types
  <2>3. \A g \in Flushers : flusher'[g].pc = flusher[g].pc
    BY <2>1 DEF IInv, Types
  <2> QED BY <2>1, <2>2, <2>3, PublishOffers
<1>4. ASSUME NEW f \in Flushers, flush_end(f)
      PROVE  OnlyFlushTask' = OnlyFlushTask /\ UNCHANGED << attempted, stream, snapshot >>
  BY <1>4, FanoutAssumption DEF flush_end, IInv, Types
<1>5. ASSUME flush_all_fails
      PROVE  ~OnlyFlushTask' /\ UNCHANGED << attempted, stream, snapshot >>
  BY <1>5 DEF flush_all_fails, IInv, Types
<1>6. ASSUME NEW p \in publishing, publish_nats(p) \/ publish_redis(p)
      PROVE  /\ OnlyFlushTask' = OnlyFlushTask /\ UNCHANGED attempted
             /\ p.key \in Keys /\ p.n \in 1 .. attempted[p.key]
             /\ p.key \in Coalesced /\ OnlyFlushTask => p.n = attempted[p.key]
             /\ \/ stream' \in {stream, [stream EXCEPT ![p.key] = p.n]} /\ UNCHANGED snapshot
                \/ snapshot' \in {snapshot, [snapshot EXCEPT ![p.key] = p.n]} /\ UNCHANGED stream
  <2>1. /\ UNCHANGED << flusher, attempted >>
        /\ \/ stream' \in {stream, [stream EXCEPT ![p.key] = p.n]} /\ UNCHANGED snapshot
           \/ snapshot' \in {snapshot, [snapshot EXCEPT ![p.key] = p.n]} /\ UNCHANGED stream
    BY <1>6 DEF publish_nats, publish_redis, Refuses, Lost
  <2>2. p.key \in Keys /\ p.n \in 1 .. attempted[p.key]
    BY FanoutAssumption DEF IInv, Types, Behind, Payloads
  <2>3. p.key \in Coalesced /\ OnlyFlushTask => p.n = attempted[p.key]
    BY DEF IInv, InLine
  <2> QED BY <2>1, <2>2, <2>3
<1>7. ASSUME NEW k \in Keys, redis_expire(k)
      PROVE  /\ OnlyFlushTask' = OnlyFlushTask /\ UNCHANGED << attempted, stream >>
             /\ Expires /\ snapshot' = [snapshot EXCEPT ![k] = 0]
  BY <1>7 DEF redis_expire
<1>8. CASE exit \/ UNCHANGED vars
  BY <1>8 DEF exit, vars
<1> HIDE DEF OnlyFlushTask
<1> QED BY <1>1, <1>2, <1>3, <1>4, <1>5, <1>6, <1>7, <1>8 DEF Next

\* A step of the fanout is a step of the feed on NATS, or changes nothing of it.
LEMMA NatsStep == IInv /\ [Next]_vars => [NatsFeed!FeedNext]_(NatsFeed!feedVars)
<1> SUFFICES ASSUME IInv, [Next]_vars
             PROVE  NatsFeed!FeedNext \/ UNCHANGED NatsFeed!feedVars
  OBVIOUS
<1> USE DEF NatsFeed!FeedNext, NatsFeed!feedVars
<1>1. attempted \in [Keys -> Payloads] /\ stream \in [Keys -> Payloads]
  BY DEF IInv, Types
<1>2. ASSUME OnlyFlushTask' = OnlyFlushTask, stream' = stream,
             NEW k \in Keys, NEW m \in attempted[k] + 1 .. MaxUpdates,
             attempted' = [attempted EXCEPT ![k] = m]
      PROVE  NatsFeed!Offer(k)
  BY <1>2 DEF NatsFeed!Offer
<1>3. ASSUME ~OnlyFlushTask', UNCHANGED << attempted, stream >>
      PROVE  NatsFeed!Drain
  BY <1>3 DEF NatsFeed!Drain
<1>4. ASSUME OnlyFlushTask' = OnlyFlushTask, attempted' = attempted, NEW k \in Keys,
             NEW n \in 1 .. attempted[k], k \in Coalesced /\ OnlyFlushTask => n = attempted[k],
             stream' = [stream EXCEPT ![k] = n]
      PROVE  NatsFeed!Show(k)
  BY <1>4 DEF NatsFeed!Show
<1> QED BY <1>2, <1>3, <1>4, FeedStep

\* The same of the snapshots in Redis, which may also expire.
LEMMA RedisStep == IInv /\ [Next]_vars => [RedisFeed!FeedNext]_(RedisFeed!feedVars)
<1> SUFFICES ASSUME IInv, [Next]_vars
             PROVE  RedisFeed!FeedNext \/ UNCHANGED RedisFeed!feedVars
  OBVIOUS
<1> USE DEF RedisFeed!FeedNext, RedisFeed!feedVars
<1>2. ASSUME OnlyFlushTask' = OnlyFlushTask, snapshot' = snapshot,
             NEW k \in Keys, NEW m \in attempted[k] + 1 .. MaxUpdates,
             attempted' = [attempted EXCEPT ![k] = m]
      PROVE  RedisFeed!Offer(k)
  BY <1>2 DEF RedisFeed!Offer
<1>3. ASSUME ~OnlyFlushTask', UNCHANGED << attempted, snapshot >>
      PROVE  RedisFeed!Drain
  BY <1>3 DEF RedisFeed!Drain
<1>4. ASSUME OnlyFlushTask' = OnlyFlushTask, attempted' = attempted, NEW k \in Keys,
             NEW n \in 1 .. attempted[k], k \in Coalesced /\ OnlyFlushTask => n = attempted[k],
             snapshot' = [snapshot EXCEPT ![k] = n]
      PROVE  RedisFeed!Show(k)
  BY <1>4 DEF RedisFeed!Show
<1>5. ASSUME OnlyFlushTask' = OnlyFlushTask, attempted' = attempted, Expires, NEW k \in Keys,
             snapshot' = [snapshot EXCEPT ![k] = 0]
      PROVE  RedisFeed!Forget(k)
  BY <1>5 DEF RedisFeed!Forget
<1> QED BY <1>2, <1>3, <1>4, <1>5, FeedStep

(***************************************************************************)
(* The coalescer and the NATS half of the publisher implement LatestFeed:  *)
(* until the flush of the shutdown begins, a publish of a coalesced key is *)
(* the publish of the newest payload handed to the sink.                   *)
(***************************************************************************)
THEOREM StreamRefinesFeed == Spec => StreamIsLatestFeed
<1>1. Init => NatsFeed!FeedInit
  BY DEF Init, Empty, NatsFeed!FeedInit, OnlyFlushTask
<1> QED BY <1>1, InitIInv, NextIInv, NatsStep, PTL DEF Spec, StreamIsLatestFeed, NatsFeed!FeedSpec

(***************************************************************************)
(* The coalescer and the Redis half of the publisher implement LatestFeed, *)
(* with snapshots that expire if they are written with a time to live.     *)
(***************************************************************************)
THEOREM SnapshotRefinesFeed == Spec => SnapshotIsLatestFeed
<1>1. Init => RedisFeed!FeedInit
  BY DEF Init, Empty, RedisFeed!FeedInit, OnlyFlushTask
<1> QED BY <1>1, InitIInv, NextIInv, RedisStep, PTL DEF Spec, SnapshotIsLatestFeed, RedisFeed!FeedSpec
=============================================================================
