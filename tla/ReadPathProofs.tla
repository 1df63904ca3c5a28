--------------------------- MODULE ReadPathProofs ---------------------------
(***************************************************************************)
(* Proofs about ReadPath for every set of keys and of requests and every   *)
(* number of payloads: a batch is a picture of one moment, and a client    *)
(* that polls a coalesced key never goes back.                             *)
(***************************************************************************)
EXTENDS ReadPath, TLAPS

Codes == {"ok", "missing_auth", "invalid_token", "ticker_not_found", "book_not_available",
          "bad_request", "rejected", "internal"}

\* The key a single endpoint reads.
SingleKey == key(req, req.tickers[1])

(***************************************************************************)
(* The inductive invariant: the types; what the handler holds while it     *)
(* waits for Redis and after; and the order of what a client has seen.     *)
(***************************************************************************)
Types ==
    /\ FeedTypeOK
    /\ pc \in {"idle", "reading", "read"}
    /\ req \in Requests \cup {NoRequest}
    /\ pc # "idle" => req \in Requests
    /\ pc = "read" => values \in [DOMAIN asked(req) -> Nat]
    /\ reply.code \in Codes
    /\ seen \in [Keys -> Nat] /\ cache \in [Keys -> Nat]

\* A single endpoint that got a value got it for a key of Redis.
SingleRead ==
    pc = "read" /\ ~IsBatch(req) => 1 \in DOMAIN values /\ (values[1] # 0 => SingleKey \in Keys)

\* The handler was given what the cut c of its request says.
Given(c) ==
    /\ c = [t \in {asked(req)[i] : i \in DOMAIN asked(req)} |-> c[t]]
    /\ values = [i \in DOMAIN asked(req) |-> c[asked(req)[i]]]

\* What Redis holds while a batch waits is among the cuts, and so is what the
\* handler was given.
CutsKept ==
    IsBatch(req) =>
        /\ pc = "reading" => cut(req, shown) \in cuts
        /\ pc = "read" => \E c \in cuts : Given(c)

\* What a client has seen of a key is no newer than what it can see next.
SeenFirst(k) ==
    /\ seen[k] <= offered[k]
    /\ shown[k] # 0 => seen[k] <= shown[k] /\ shown[k] <= offered[k]
    /\ cache[k] \in {0, seen[k]}
    /\ pc = "read" /\ ~IsBatch(req) /\ SingleKey = k /\ values[1] # 0 =>
          /\ seen[k] <= values[1] /\ values[1] <= offered[k]
          /\ shown[k] # 0 => values[1] <= shown[k]

IInv ==
    /\ Types /\ SingleRead /\ CutsKept
    /\ ~draining => \A k \in Ordered : SeenFirst(k)

-----------------------------------------------------------------------------
\* The handlers answer with the codes of ApiError.
LEMMA RefusalCode ==
    ASSUME NEW r PROVE refusal(r) \in Codes \cup {"none"}
<1>1. require_token(r) \in {"missing_auth", "invalid_token", "ok"}
  BY DEF require_token
<1> QED BY <1>1 DEF refusal, Codes

LEMMA InitIInv == Init => IInv
<1> SUFFICES ASSUME Init PROVE IInv
  OBVIOUS
<1>1. Types
  <2>1. FeedTypeOK
    <3>1. FeedInit
      BY DEF Init
    <3>2. \A k \in Keys : Newest[k] \in Nat
      BY ReadPathAssumption
    <3>3. draining \in BOOLEAN
      BY <3>1 DEF FeedInit
    <3> QED BY <3>1, <3>2, <3>3 DEF FeedInit, FeedTypeOK
  <2>2. reply.code \in Codes
    BY DEF Init, Error, Codes
  <2>3. Nothing \in [Keys -> Nat]
    BY DEF Nothing
  <2> QED BY <2>1, <2>2, <2>3 DEF Init, Types
<1>2. SingleRead /\ CutsKept
  BY DEF Init, SingleRead, CutsKept
<1>3. \A k \in Ordered : SeenFirst(k)
  BY ReadPathAssumption DEF Init, FeedInit, SeenFirst, Nothing
<1> QED BY <1>1, <1>2, <1>3 DEF IInv

\* A step of the feed leaves its types, and what an ordered key shows is new.
LEMMA FeedSteps ==
    ASSUME FeedTypeOK, FeedNext
    PROVE  /\ FeedTypeOK'
           /\ draining => draining'
           /\ \A k \in Keys : offered[k] <= offered'[k]
           /\ ~draining' => \A k \in Ordered : shown'[k] \in {0, shown[k], offered[k]}
<1> USE ReadPathAssumption DEF FeedTypeOK
<1>1. CASE Drain
  BY <1>1 DEF Drain
<1>2. ASSUME NEW j \in Keys, Offer(j)
      PROVE  /\ FeedTypeOK'
             /\ draining' = draining /\ shown' = shown
             /\ \A k \in Keys : offered[k] <= offered'[k]
  <2>1. PICK n \in offered[j] + 1 .. Newest[j] : offered' = [offered EXCEPT ![j] = n]
    BY <1>2 DEF Offer
  <2>2. draining' = draining /\ shown' = shown
    BY <1>2 DEF Offer
  <2> QED BY <2>1, <2>2
<1>3. ASSUME NEW j \in Keys, Show(j)
      PROVE  /\ FeedTypeOK'
             /\ draining' = draining /\ offered' = offered
             /\ ~draining => \A k \in Ordered : shown'[k] \in {shown[k], offered[k]}
  <2>1. PICK n \in 1 .. offered[j] :
           /\ j \in Ordered /\ ~draining => n = offered[j]
           /\ shown' = [shown EXCEPT ![j] = n]
    BY <1>3 DEF Show
  <2>2. draining' = draining /\ offered' = offered
    BY <1>3 DEF Show
  <2>3. n \in Nat
    BY <2>1
  <2> QED BY <2>1, <2>2, <2>3
<1>4. ASSUME NEW j \in Keys, Forget(j)
      PROVE  /\ FeedTypeOK'
             /\ draining' = draining /\ offered' = offered
             /\ \A k \in Ordered : shown'[k] \in {shown[k], 0}
  BY <1>4 DEF Forget
<1>5. \A k \in Keys : offered[k] <= offered[k]
  OBVIOUS
<1> HIDE DEF FeedTypeOK
<1> QED BY <1>1, <1>2, <1>3, <1>4, <1>5 DEF FeedNext

LEMMA PublishIInv == ASSUME IInv, publish PROVE IInv'
<1>1. FeedTypeOK /\ FeedNext
  BY DEF IInv, Types, publish
<1>2. /\ FeedTypeOK'
      /\ draining => draining'
      /\ \A k \in Keys : offered[k] <= offered'[k]
      /\ ~draining' => \A k \in Ordered : shown'[k] \in {0, shown[k], offered[k]}
  BY <1>1, FeedSteps
<1>3. UNCHANGED <<pc, req, values, reply, seen, cache>>
  BY DEF publish
<1>4. Types' /\ SingleRead'
  BY <1>2, <1>3 DEF IInv, Types, SingleRead, SingleKey
<1>5. CutsKept'
  <2>1. IsBatch(req) /\ pc = "reading" => cuts' = cuts \cup {cut(req, shown')}
    BY DEF publish
  <2>2. cuts \subseteq cuts'
    BY DEF publish
  <2>3. cut(req, shown)' = cut(req, shown')
    BY <1>3 DEF cut, held
  <2>4. \A c : Given(c)' = Given(c)
    BY <1>3 DEF Given
  <2> QED BY <1>3, <2>1, <2>2, <2>3, <2>4 DEF IInv, CutsKept
<1>6. ASSUME ~draining', NEW k \in Ordered PROVE SeenFirst(k)'
  <2>1. SeenFirst(k) /\ k \in Keys
    BY <1>2, <1>6, ReadPathAssumption DEF IInv
  <2>2. /\ offered[k] \in Nat /\ offered'[k] \in Nat /\ shown[k] \in Nat /\ shown'[k] \in Nat
        /\ seen[k] \in Nat /\ offered[k] <= offered'[k]
        /\ shown'[k] \in {0, shown[k], offered[k]}
    BY <1>2, <1>6, <2>1 DEF IInv, Types, FeedTypeOK
  <2>3. pc = "read" /\ ~IsBatch(req) => values[1] \in Nat
    BY DEF IInv, Types, SingleRead
  <2> QED BY <1>3, <2>1, <2>2, <2>3 DEF SeenFirst, SingleKey
<1> QED BY <1>4, <1>5, <1>6 DEF IInv

\* Nobody reads and nothing is published.
LEMMA CutsStay ==
    ASSUME CutsKept, UNCHANGED <<shown, pc, req, values, cuts>> PROVE CutsKept'
<1>1. cut(req, shown)' = cut(req, shown)
  BY DEF cut, held
<1>2. \A c : Given(c)' = Given(c)
  BY DEF Given
<1> QED BY <1>1, <1>2 DEF CutsKept

\* The router: refused at once, or on the way to Redis.
LEMMA ReceiveIInv == ASSUME IInv, NEW r \in Requests, receive(r) PROVE IInv'
<1>1. UNCHANGED <<offered, shown, draining, values, seen, cache>> /\ pc = "idle"
  BY DEF receive
<1>2. CASE r.endpoint = "health" \/ refusal(r) # "none"
  <2>1. reply' = Error(IF r.endpoint = "health" THEN "ok" ELSE refusal(r))
        /\ UNCHANGED <<pc, req, cuts>>
    BY <1>2 DEF receive
  <2>2. reply'.code \in Codes
    BY <1>2, <2>1, RefusalCode DEF Error, Codes
  <2>3. Types'
    BY <1>1, <2>1, <2>2 DEF IInv, Types, FeedTypeOK
  <2>4. pc' # "reading" /\ pc' # "read"
    BY <1>1, <2>1
  <2>5. ASSUME ~draining', NEW k \in Ordered PROVE SeenFirst(k)'
    BY <1>1, <2>4, <2>5 DEF IInv, SeenFirst
  <2> QED BY <2>3, <2>4, <2>5 DEF IInv, SingleRead, CutsKept
<1>3. CASE ~(r.endpoint = "health" \/ refusal(r) # "none")
  <2>1. /\ pc' = "reading" /\ req' = r /\ reply' = Error("ok")
        /\ cuts' = IF IsBatch(r) THEN {cut(r, shown)} ELSE {}
    BY <1>3 DEF receive
  <2>2. Types'
    BY <1>1, <2>1 DEF IInv, Types, FeedTypeOK, Error, Codes
  <2>3. CutsKept'
    <3>1. cut(req, shown)' = cut(r, shown)
      BY <1>1, <2>1 DEF cut, held
    <3> QED BY <2>1, <3>1 DEF CutsKept
  <2>4. ASSUME ~draining', NEW k \in Ordered PROVE SeenFirst(k)'
    BY <1>1, <2>1, <2>4 DEF IInv, SeenFirst
  <2> QED BY <2>1, <2>2, <2>3, <2>4 DEF IInv, SingleRead
<1> QED BY <1>2, <1>3

\* The one command: the values are those of this moment.
LEMMA RedisReadIInv == ASSUME IInv, redis_read PROVE IInv'
<1> DEFINE D == DOMAIN asked(req)
<1>1. /\ pc = "reading" /\ pc' = "read"
      /\ values' = [i \in D |-> held(req, asked(req)[i], shown)]
      /\ UNCHANGED <<offered, shown, draining, req, reply, seen, cache, cuts>>
  BY DEF redis_read
<1>2. req \in Requests /\ FeedTypeOK
  BY <1>1 DEF IInv, Types
<1>3. \A t : held(req, t, shown) \in Nat
  BY <1>2 DEF held, FeedTypeOK
<1>4. Types'
  BY <1>1, <1>2, <1>3 DEF IInv, Types, FeedTypeOK
<1>5. ~IsBatch(req) => /\ 1 \in D /\ values'[1] = held(req, req.tickers[1], shown)
                       /\ values'[1] # 0 => SingleKey \in Keys /\ values'[1] = shown[SingleKey]
  BY <1>1, <1>2, ReadPathAssumption DEF IsBatch, asked, held, SingleKey
<1>6. SingleRead'
  BY <1>1, <1>5 DEF SingleRead, SingleKey
<1>7. CutsKept'
  <2>0. PICK c : c = cut(req, shown)
    OBVIOUS
  <2>1. IsBatch(req) => c \in cuts
    BY <1>1, <2>0 DEF IInv, CutsKept
  <2>2. c = [t \in {asked(req)[i] : i \in D} |-> c[t]]
    BY <2>0 DEF cut
  <2>3. \A i \in D : c[asked(req)[i]] = held(req, asked(req)[i], shown)
    BY <2>0 DEF cut
  <2>4. Given(c)'
    BY <1>1, <2>2, <2>3 DEF Given
  <2> QED BY <1>1, <2>1, <2>4 DEF CutsKept
<1>8. ASSUME ~draining', NEW k \in Ordered PROVE SeenFirst(k)'
  <2>1. SeenFirst(k) /\ k \in Keys
    BY <1>1, <1>8, ReadPathAssumption DEF IInv
  <2>2. shown[k] \in Nat
    BY <1>2, <2>1 DEF FeedTypeOK
  <2> QED BY <1>1, <1>5, <2>1, <2>2 DEF SeenFirst, SingleKey
<1> QED BY <1>4, <1>6, <1>7, <1>8 DEF IInv

\* The handler has answered: nothing of the request is left.
LEMMA DoneIInv ==
    ASSUME IInv, Done, UNCHANGED <<offered, shown, draining>>,
           reply'.code \in Codes, seen' \in [Keys -> Nat], cache' \in [Keys -> Nat],
           ~draining => \A k \in Ordered :
               /\ seen'[k] <= offered[k]
               /\ shown[k] # 0 => seen'[k] <= shown[k] /\ shown[k] <= offered[k]
               /\ cache'[k] \in {0, seen'[k]}
    PROVE  IInv'
<1>1. pc' = "idle" /\ req' = NoRequest
  BY DEF Done
<1>2. Types'
  BY <1>1 DEF IInv, Types, FeedTypeOK
<1>3. ~draining' => \A k \in Ordered : SeenFirst(k)'
  BY <1>1 DEF SeenFirst
<1> QED BY <1>1, <1>2, <1>3 DEF IInv, SingleRead, CutsKept

LEMMA RedisFailsIInv == ASSUME IInv, redis_fails PROVE IInv'
<1>1. Done /\ UNCHANGED <<offered, shown, draining, seen, cache>> /\ reply' = Error("internal")
  BY DEF redis_fails
<1>2. reply'.code \in Codes /\ seen' \in [Keys -> Nat] /\ cache' \in [Keys -> Nat]
  BY <1>1 DEF IInv, Types, Error, Codes
<1>3. ~draining => \A k \in Ordered : SeenFirst(k)
  BY DEF IInv
<1> QED BY <1>1, <1>2, <1>3, DoneIInv DEF SeenFirst

LEMMA RespondBatchIInv == ASSUME IInv, respond_batch PROVE IInv'
<1>1. Done /\ UNCHANGED <<offered, shown, draining, seen, cache>> /\ reply'.code = "ok"
  BY DEF respond_batch
<1>2. reply'.code \in Codes /\ seen' \in [Keys -> Nat] /\ cache' \in [Keys -> Nat]
  BY <1>1 DEF IInv, Types, Codes
<1>3. ~draining => \A k \in Ordered : SeenFirst(k)
  BY DEF IInv
<1> QED BY <1>1, <1>2, <1>3, DoneIInv DEF SeenFirst

\* What a single answer does to what the client has seen.
LEMMA SingleSees ==
    ASSUME IInv, respond_single
    PROVE  \/ UNCHANGED <<seen, cache>>
           \/ /\ SingleKey \in Keys /\ values[1] \in Nat
              /\ seen' = [seen EXCEPT ![SingleKey] = values[1]]
              /\ cache' = [cache EXCEPT ![SingleKey] = values[1]]
              /\ ~draining /\ SingleKey \in Ordered =>
                    /\ seen[SingleKey] <= values[1] /\ values[1] <= offered[SingleKey]
                    /\ shown[SingleKey] # 0 => values[1] <= shown[SingleKey]
<1>1. pc = "read" /\ ~IsBatch(req)
  BY DEF respond_single
<1>2. CASE values[1] = 0
  BY <1>2 DEF respond_single
<1>3. CASE values[1] # 0
  <2>1. seen' = [seen EXCEPT ![SingleKey] = values[1]] /\ cache' = [cache EXCEPT ![SingleKey] = values[1]]
    BY <1>3 DEF respond_single, snapshot_response, SingleKey
  <2>2. SingleKey \in Keys /\ values[1] \in Nat
    BY <1>1, <1>3 DEF IInv, Types, SingleRead
  <2>3. ~draining /\ SingleKey \in Ordered => SeenFirst(SingleKey)
    BY DEF IInv
  <2> QED BY <1>1, <1>3, <2>1, <2>2, <2>3 DEF SeenFirst
<1> QED BY <1>2, <1>3

LEMMA RespondSingleIInv == ASSUME IInv, respond_single PROVE IInv'
<1>1. Done /\ UNCHANGED <<offered, shown, draining>>
  BY DEF respond_single
<1>2. reply'.code \in Codes
  BY DEF respond_single, snapshot_response, Error, Codes
<1>3. seen \in [Keys -> Nat] /\ cache \in [Keys -> Nat]
  BY DEF IInv, Types
<1>4. seen' \in [Keys -> Nat] /\ cache' \in [Keys -> Nat]
  BY <1>3, SingleSees
<1>5. ASSUME ~draining, NEW k \in Ordered
      PROVE  /\ seen'[k] <= offered[k]
             /\ shown[k] # 0 => seen'[k] <= shown[k] /\ shown[k] <= offered[k]
             /\ cache'[k] \in {0, seen'[k]}
  <2>1. SeenFirst(k) /\ k \in Keys
    BY <1>5, ReadPathAssumption DEF IInv
  <2>2. CASE UNCHANGED <<seen, cache>>
    BY <2>1, <2>2 DEF SeenFirst
  <2>3. CASE ~UNCHANGED <<seen, cache>>
    BY <1>3, <1>5, <2>1, <2>3, SingleSees DEF SeenFirst
  <2> QED BY <2>2, <2>3
<1> QED BY <1>1, <1>2, <1>4, <1>5, DoneIInv

LEMMA CacheHitIInv == ASSUME IInv, NEW r \in Requests, cache_hit(r) PROVE IInv'
<1> DEFINE k == key(r, r.tickers[1])
<1>1. /\ k \in Keys /\ cache[k] # 0 /\ pc = "idle"
      /\ seen' = [seen EXCEPT ![k] = cache[k]] /\ reply'.code = "ok"
      /\ UNCHANGED <<offered, shown, draining, pc, req, values, cache, cuts>>
  BY DEF cache_hit
<1> HIDE DEF k
<1>2. Types'
  BY <1>1 DEF IInv, Types, FeedTypeOK, Codes
<1>3. ASSUME ~draining', NEW j \in Ordered PROVE SeenFirst(j)'
  <2>1. SeenFirst(j) /\ j \in Keys /\ seen \in [Keys -> Nat]
    BY <1>1, <1>3, ReadPathAssumption DEF IInv, Types
  <2>2. seen'[j] = seen[j]
    BY <1>1, <2>1 DEF SeenFirst
  <2> QED BY <1>1, <2>1, <2>2 DEF SeenFirst
<1> QED BY <1>1, <1>2, <1>3 DEF IInv, SingleRead, CutsKept

LEMMA CacheExpireIInv == ASSUME IInv, NEW k \in Keys, cache_expire(k) PROVE IInv'
<1>1. /\ cache' = [cache EXCEPT ![k] = 0]
      /\ UNCHANGED <<offered, shown, draining, pc, req, values, reply, seen, cuts>>
  BY DEF cache_expire
<1>2. Types'
  BY <1>1 DEF IInv, Types, FeedTypeOK
<1>3. ASSUME ~draining', NEW j \in Ordered PROVE SeenFirst(j)'
  <2>1. SeenFirst(j) /\ j \in Keys /\ cache \in [Keys -> Nat]
    BY <1>1, <1>3, ReadPathAssumption DEF IInv, Types
  <2> QED BY <1>1, <2>1 DEF SeenFirst, SingleKey
<1>4. SingleRead' /\ CutsKept'
  BY <1>1, CutsStay DEF IInv, SingleRead, SingleKey
<1> QED BY <1>2, <1>3, <1>4 DEF IInv

LEMMA NextIInv == IInv /\ [Next]_vars => IInv'
<1> SUFFICES ASSUME IInv, [Next]_vars PROVE IInv'
  OBVIOUS
<1>1. CASE Next
  BY <1>1, PublishIInv, ReceiveIInv, CacheHitIInv, RedisReadIInv, RedisFailsIInv,
     RespondSingleIInv, RespondBatchIInv, CacheExpireIInv DEF Next, respond
<1>2. CASE UNCHANGED vars
  <2>1. Types' /\ SingleRead'
    BY <1>2 DEF vars, IInv, Types, FeedTypeOK, SingleRead, SingleKey
  <2>2. CutsKept'
    BY <1>2, CutsStay DEF vars, IInv
  <2>3. ~draining' => \A k \in Ordered : SeenFirst(k)'
    BY <1>2 DEF vars, IInv, SeenFirst, SingleKey
  <2> QED BY <2>1, <2>2, <2>3 DEF IInv
<1> QED BY <1>1, <1>2

-----------------------------------------------------------------------------
(***************************************************************************)
(* The variables keep their types; what Redis gave a handler has one value *)
(* per ticker it was asked for, in their order (SnapshotStore::get_batch). *)
(***************************************************************************)
THEOREM TypeCorrect == Spec => []TypeOK
<1>1. IInv => TypeOK
  <2> SUFFICES ASSUME IInv PROVE TypeOK
    OBVIOUS
  <2>1. status(reply.code) \in {200, 400, 401, 404, 500}
    BY DEF IInv, Types, Codes, status
  <2> QED BY <2>1 DEF IInv, Types, TypeOK
<1> QED BY <1>1, InitIInv, NextIInv, PTL DEF Spec

(***************************************************************************)
(* A batch is a picture of one moment between the request and the answer,  *)
(* for any tickers, any number of publishes and any cut of the waiting     *)
(* (api-server's batch, which zips what one MGET returned).                *)
(***************************************************************************)
THEOREM BatchIsOneCut == Spec => BatchOneCut
<1> DEFINE A == pc = "read" /\ pc' = "idle" /\ IsBatch(req) => reply'.body \in cuts
<1>1. ASSUME IInv, [Next]_vars, pc = "read", pc' = "idle", IsBatch(req) PROVE reply'.body \in cuts
  <2>1. respond_batch
    BY <1>1 DEF Next, vars, publish, receive, cache_hit, redis_read, redis_fails, respond,
                respond_single, cache_expire
  <2>2. PICK c \in cuts : Given(c)
    BY <1>1 DEF IInv, CutsKept
  <2> DEFINE ts == asked(req)
             T == {ts[i] : i \in DOMAIN ts}
  <2>3. reply'.body = [t \in T |-> values[CHOOSE i \in DOMAIN ts : ts[i] = t]]
    BY <2>1 DEF respond_batch
  <2>4. ASSUME NEW t \in T PROVE values[CHOOSE i \in DOMAIN ts : ts[i] = t] = c[t]
    <3> DEFINE j == CHOOSE i \in DOMAIN ts : ts[i] = t
    <3>1. \E i \in DOMAIN ts : ts[i] = t
      OBVIOUS
    <3>2. j \in DOMAIN ts /\ ts[j] = t
      BY <3>1
    <3> QED BY <2>2, <3>2 DEF Given
  <2>5. c = [t \in T |-> c[t]]
    BY <2>2 DEF Given
  <2>6. reply'.body = [t \in T |-> c[t]]
    BY <2>3, <2>4
  <2> QED BY <2>2, <2>5, <2>6
<1>2. IInv /\ [Next]_vars => [A]_vars
  BY <1>1
<1> QED BY <1>2, InitIInv, NextIInv, PTL DEF Spec, BatchOneCut

(***************************************************************************)
(* A client that polls a coalesced key through the single endpoints never  *)
(* goes back to an older payload while the daemon is up, for any number of *)
(* keys, payloads, failed reads and expired snapshots.                     *)
(***************************************************************************)
THEOREM SinglesNeverGoBack == Spec => SinglesMonotonic
<1> DEFINE A == draining \/ \A k \in Ordered : seen'[k] >= seen[k]
<1>1. ASSUME IInv, [Next]_vars, ~draining, NEW k \in Ordered PROVE seen'[k] >= seen[k]
  <2>1. k \in Keys /\ seen \in [Keys -> Nat] /\ SeenFirst(k)
    BY <1>1, ReadPathAssumption DEF IInv, Types
  <2>2. CASE seen' = seen
    BY <2>1, <2>2
  <2>3. CASE \E r \in Requests : cache_hit(r)
    BY <2>1, <2>3 DEF cache_hit, SeenFirst
  <2>4. CASE respond_single
    BY <1>1, <2>1, <2>4, SingleSees
  <2> QED
    BY <1>1, <2>2, <2>3, <2>4 DEF Next, vars, publish, receive, redis_read, redis_fails, respond,
       respond_batch, cache_expire
<1>2. IInv /\ [Next]_vars => [A]_vars
  BY <1>1
<1> QED BY <1>2, InitIInv, NextIInv, PTL DEF Spec, SinglesMonotonic
=============================================================================
