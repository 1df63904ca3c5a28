------------------------------ MODULE ReadPath ------------------------------
(***************************************************************************)
(* The HTTP side of the API server: the handlers that answer a client from *)
(* the Redis snapshots, while the ingest daemon goes on publishing.  Redis *)
(* is LatestFeed, which the fanout is shown to implement; Redis executes   *)
(* one command at a time, so that GET and MGET each read at one moment.    *)
(*                                                                         *)
(* A handler checks the request and refuses it, or awaits Redis and then   *)
(* answers; it keeps nothing between requests, so that one client is       *)
(* enough.  The answers of the single endpoints may be kept for a second   *)
(* by a cache of the client's, as their Cache-Control says.                *)
(***************************************************************************)
EXTENDS LatestFeed, Sequences, FiniteSets, TLC

CONSTANTS Kinds, Tickers,   \* SnapshotKind, and the tickers of Redis
          Requests,         \* the requests clients send
          MaxBatch,         \* MAX_BATCH
          MaxLimit,         \* the largest limit of /v1/trades
          StoredAs          \* how the daemon encodes what it stores

ASSUME ReadPathAssumption ==
    /\ Keys = Kinds \X Tickers
    /\ Ordered \subseteq Keys /\ Newest \in [Keys -> Nat]
    \* The path of a single endpoint names one ticker.
    /\ \A r \in Requests : r.endpoint \notin {"quote_batch", "book_batch"} => DOMAIN r.tickers = {1}
    /\ MaxBatch \in Nat /\ MaxLimit \in Nat
    /\ StoredAs \in {"json", "msgpack", "blob"}

VARIABLES pc,      \* where the handler is
          req,     \* the request it answers
          values,  \* what Redis gave it, one value per ticker asked for
          reply,   \* the last answer
          seen,    \* key -> payload of its last single answer
          cache,   \* key -> payload the client's cache holds, 0 for none
          cuts     \* history: what Redis held at each moment of a batch

readVars == <<pc, req, values, reply, seen, cache, cuts>>
vars == <<offered, shown, draining, pc, req, values, reply, seen, cache, cuts>>

Nothing == [k \in Keys |-> 0]

NoRequest == [endpoint |-> "none"]

Error(code) == [code |-> code, body |-> <<>>, label |-> "json", form |-> "json"]

\* ApiError::status.
status(code) == CASE code = "ok" -> 200
                  [] code \in {"missing_auth", "invalid_token"} -> 401
                  [] code \in {"ticker_not_found", "book_not_available"} -> 404
                  [] code \in {"bad_request", "rejected"} -> 400
                  [] code = "internal" -> 500

Init ==
    /\ FeedInit
    /\ pc = "idle" /\ values = <<>>
    /\ req = NoRequest /\ reply = Error("ok")
    /\ seen = Nothing /\ cache = Nothing
    /\ cuts = {}

-----------------------------------------------------------------------------
\* require_token and extract_bearer: no header, a header that is not a bearer
\* token or an empty one, a token that is not among the valid ones.
require_token(r) == CASE r.auth = "absent" -> "missing_auth"
                      [] r.auth \in {"malformed", "unknown"} -> "invalid_token"
                      [] OTHER -> "ok"

\* The tickers of a batch, without the blanks between commas.
batch_tickers(r) == SelectSeq(r.tickers, LAMBDA t : t # "")

IsBatch(r) == r.endpoint \in {"quote_batch", "book_batch"}

asked(r) == IF IsBatch(r) THEN batch_tickers(r) ELSE r.tickers

\* What is refused before the handler turns to Redis, in this order: the
\* extractors reject a query they cannot read before the handler runs.
refusal(r) ==
    IF r.endpoint = "health" THEN "none"
    ELSE IF ~r.readable THEN "rejected"
    ELSE IF require_token(r) # "ok" THEN require_token(r)
    ELSE IF \/ r.endpoint = "trades" /\ (r.since \/ r.limit = 0 \/ r.limit > MaxLimit)
            \/ IsBatch(r) /\ Len(asked(r)) \notin 1 .. MaxBatch
         THEN "bad_request"
    ELSE "none"

kind(r) == CASE r.endpoint \in {"quote_single", "quote_batch"} -> "quote"
             [] r.endpoint \in {"book_single", "book_batch"}   -> "book"
             [] r.endpoint = "trades"                          -> "trade"

key(r, t) == <<kind(r), t>>

\* What Redis, holding s, answers for a ticker, and for those of the request.
held(r, t, s) == IF key(r, t) \in Keys THEN s[key(r, t)] ELSE 0
cut(r, s) == [t \in {asked(r)[i] : i \in DOMAIN asked(r)} |-> held(r, t, s)]

\* The handler has answered.
Done == pc' = "idle" /\ req' = NoRequest /\ values' = <<>> /\ cuts' = {}

\* The router calls the handler, which answers at once or goes to Redis.
receive(r) ==
    /\ pc = "idle"
    /\ IF r.endpoint = "health" \/ refusal(r) # "none"
       THEN /\ reply' = Error(IF r.endpoint = "health" THEN "ok" ELSE refusal(r))
            /\ UNCHANGED <<pc, req, cuts>>
       ELSE /\ pc' = "reading" /\ req' = r /\ reply' = Error("ok")
            /\ cuts' = IF IsBatch(r) THEN {cut(r, shown)} ELSE {}
    /\ UNCHANGED <<offered, shown, draining, values, seen, cache>>

\* Mutants: one GET per ticker; the tickers Redis does not know are left out.
redis_read_OneByOne ==
    /\ pc = "reading"
    /\ values' = Append(values, held(req, asked(req)[Len(values) + 1], shown))
    /\ pc' = IF Len(values') = Len(asked(req)) THEN "read" ELSE "reading"
    /\ UNCHANGED <<offered, shown, draining, req, reply, seen, cache, cuts>>

redis_read_KnownOnly ==
    /\ pc = "reading"
    /\ values' = SelectSeq([i \in DOMAIN asked(req) |-> held(req, asked(req)[i], shown)], LAMBDA v : v # 0)
    /\ pc' = "read"
    /\ UNCHANGED <<offered, shown, draining, req, reply, seen, cache, cuts>>

\* SnapshotStore::get and get_batch: one command, the values in the order of
\* the tickers.
redis_read ==
    /\ pc = "reading"
    /\ values' = [i \in DOMAIN asked(req) |-> held(req, asked(req)[i], shown)]
    /\ pc' = "read"
    /\ UNCHANGED <<offered, shown, draining, req, reply, seen, cache, cuts>>

\* No connection, or an error of the command.
redis_fails ==
    /\ pc = "reading"
    /\ reply' = Error("internal")
    /\ Done
    /\ UNCHANGED <<offered, shown, draining, seen, cache>>

-----------------------------------------------------------------------------
\* snapshot_response: the stored bytes as they are, under the label the client
\* asked for; its Cache-Control lets the client keep them.
snapshot_response ==
    LET k == key(req, req.tickers[1])
    IN  /\ reply' = [code |-> "ok", body |-> req.tickers[1] :> values[1],
                     label |-> req.accept, form |-> StoredAs]
        /\ seen' = [seen EXCEPT ![k] = values[1]]
        /\ cache' = [cache EXCEPT ![k] = values[1]]

\* quote_single, book_single and trades, once Redis has answered.
respond_single ==
    /\ pc = "read" /\ ~IsBatch(req)
    /\ IF values[1] # 0 THEN snapshot_response
       ELSE /\ reply' = Error(IF req.endpoint = "book_single" THEN "book_not_available"
                              ELSE "ticker_not_found")
            /\ UNCHANGED <<seen, cache>>
    /\ Done
    /\ UNCHANGED <<offered, shown, draining>>

\* batch: the tickers with their values, null for the unknown ones, encoded as
\* the client asked for; a ticker asked for twice is answered once.
respond_batch ==
    /\ pc = "read" /\ IsBatch(req)
    /\ LET ts == asked(req)
       IN  reply' = [code |-> "ok", label |-> req.accept, form |-> req.accept,
                     body |-> [t \in {ts[i] : i \in DOMAIN ts} |->
                                 values[CHOOSE i \in DOMAIN ts : ts[i] = t]]]
    /\ Done
    /\ UNCHANGED <<offered, shown, draining, seen, cache>>

-----------------------------------------------------------------------------
\* The client's cache answers in place of the server, and forgets.
cache_hit(r) ==
    /\ pc = "idle" /\ r.endpoint \in {"quote_single", "book_single", "trades"}
    /\ key(r, r.tickers[1]) \in Keys /\ cache[key(r, r.tickers[1])] # 0
    /\ LET k == key(r, r.tickers[1])
       IN  /\ reply' = [code |-> "ok", body |-> r.tickers[1] :> cache[k],
                        label |-> r.accept, form |-> StoredAs]
           /\ seen' = [seen EXCEPT ![k] = cache[k]]
    /\ UNCHANGED <<offered, shown, draining, pc, req, values, cache, cuts>>

cache_expire(k) ==
    /\ cache[k] # 0
    /\ cache' = [cache EXCEPT ![k] = 0]
    /\ UNCHANGED <<offered, shown, draining, pc, req, values, reply, seen, cuts>>

\* A step of the feed while the handler is wherever it is.
publish ==
    /\ FeedNext
    /\ cuts' = IF pc = "reading" /\ IsBatch(req) THEN cuts \cup {cut(req, shown')} ELSE cuts
    /\ UNCHANGED <<pc, req, values, reply, seen, cache>>

respond == respond_single \/ respond_batch

Next ==
    \/ publish
    \/ \E r \in Requests : receive(r) \/ cache_hit(r)
    \/ redis_read \/ redis_fails
    \/ respond
    \/ \E k \in Keys : cache_expire(k)

Spec == Init /\ [][Next]_vars

-----------------------------------------------------------------------------
\* Every variable has its type; Redis answered with one value per ticker, in
\* the order they were asked for (SnapshotStore::get_batch).
TypeOK ==
    /\ FeedTypeOK
    /\ pc \in {"idle", "reading", "read"}
    /\ req \in Requests \cup {NoRequest}
    /\ pc = "read" => DOMAIN values = DOMAIN asked(req)
    /\ status(reply.code) \in {200, 400, 401, 404, 500}
    /\ seen \in [Keys -> Nat] /\ cache \in [Keys -> Nat]

(***************************************************************************)
(* A batch is a picture of one moment: there was a moment between the      *)
(* request and the answer at which Redis held, for every ticker of the     *)
(* answer, exactly what the answer says, whatever the daemon published     *)
(* while the handler was waiting (get_batch is one MGET, batch zips).      *)
(***************************************************************************)
BatchOneCut ==
    [][pc = "read" /\ pc' = "idle" /\ IsBatch(req) => reply'.body \in cuts]_vars

(***************************************************************************)
(* A client that polls a coalesced key through the single endpoints never  *)
(* gets an older payload than it got before, while snapshots expire, reads *)
(* fail, and its cache answers for the server; until the daemon shuts down.*)
(***************************************************************************)
SinglesMonotonic == [][draining \/ \A k \in Ordered : seen'[k] >= seen[k]]_vars

(***************************************************************************)
(* ARCHITECTURE.md 5.7.3: with Accept: application/msgpack an answer is    *)
(* MessagePack; so an answer is encoded as it is labelled.                 *)
(***************************************************************************)
LabelHonest == reply.label = reply.form
=============================================================================
