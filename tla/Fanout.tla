------------------------------- MODULE Fanout -------------------------------
(***************************************************************************)
(* The coalescer in front of NATS and Redis (fanout/src/coalescer.rs and   *)
(* publisher.rs): tasks submit payloads per (kind, ticker) key; the flush  *)
(* task takes the pending map under its lock and publishes what it took    *)
(* one key after the other; flush_all calls flush_once too, at shutdown.   *)
(* A publish is two concurrent writes, either of which may fail.  A kind   *)
(* whose window is zero is published by the submitting task itself.        *)
(*                                                                         *)
(* The payloads of a key are numbered in the order the coalescer receives  *)
(* them; 0 is none.                                                        *)
(***************************************************************************)
EXTENDS Integers, FiniteSets, FiniteSetsExt

CONSTANTS
    Tickers,
    Kinds,          \* kinds that are submitted
    ZeroWindow,     \* kinds whose window is zero
    Flushers,       \* callers of flush_once: the flush task, and flush_all or not
    SinkFails,      \* whether NATS and Redis may refuse a write
    Expires,        \* whether snapshots are written with a time to live
    MaxUpdates      \* bound: payloads per key

ASSUME FanoutAssumption ==
    /\ Kinds \subseteq {"quote", "book", "trade"}
    /\ ZeroWindow \subseteq Kinds
    /\ Flushers \subseteq {"flush_task", "flush_all"}
    /\ SinkFails \in BOOLEAN /\ Expires \in BOOLEAN
    /\ MaxUpdates \in Nat

VARIABLES
    accepted,       \* key -> number of payloads submitted
    pending,        \* the coalescer's map
    flusher,        \* flusher -> where it is in flush_once, and what it took
    publishing,     \* calls of FanoutSink::publish that have not returned
    attempted,      \* key -> newest payload handed to the sink
    stream,         \* key -> payload last published on NATS
    snapshot,       \* key -> payload stored in Redis
    refused,        \* payloads one of whose writes has failed
    exited          \* the process has ended

vars == << accepted, pending, flusher, publishing, attempted, stream, snapshot, refused, exited >>

Keys == Kinds \X Tickers
Coalesced == (Kinds \ ZeroWindow) \X Tickers
Payloads == 0 .. MaxUpdates
Empty == [k \in Keys |-> 0]
Writes == {"nats", "redis"}

\* A flusher has at most one publish under way: it awaits each.
TypeOK ==
    /\ accepted \in [Keys -> Payloads]
    /\ pending \in [Keys -> Payloads]
    /\ flusher \in [Flushers -> [pc : {"idle", "flushing", "done"}, batch : [Keys -> Payloads]]]
    /\ publishing \subseteq
          [by : Flushers \cup {"submit"}, key : Keys, n : Payloads \ {0},
           left : (SUBSET Writes) \ {{}}]
    /\ \A f \in Flushers : Cardinality({p \in publishing : p.by = f}) <= 1
    /\ attempted \in [Keys -> Payloads]
    /\ stream \in [Keys -> Payloads]
    /\ snapshot \in [Keys -> Payloads]
    /\ refused \subseteq Keys \X Payloads
    /\ exited \in BOOLEAN

\* Coalescer::new.
Init ==
    /\ accepted = Empty /\ pending = Empty
    /\ flusher = [f \in Flushers |-> [pc |-> "idle", batch |-> Empty]]
    /\ publishing = {}
    /\ attempted = Empty /\ stream = Empty /\ snapshot = Empty
    /\ refused = {} /\ exited = FALSE

-----------------------------------------------------------------------------
\* FanoutSink::publish is called.
publish(by, k, n) ==
    /\ publishing' = publishing \cup {[by |-> by, key |-> k, n |-> n, left |-> Writes]}
    /\ attempted' = [attempted EXCEPT ![k] = Max({@, n})]

\* Mutant: a payload that finds another one pending is dropped.
submit_KeepsFirst(k) ==
    /\ ~exited /\ accepted[k] < MaxUpdates
    /\ accepted' = [accepted EXCEPT ![k] = @ + 1]
    /\ IF k \in Coalesced
       THEN /\ pending' = [pending EXCEPT ![k] = IF @ = 0 THEN accepted'[k] ELSE @]
            /\ UNCHANGED << publishing, attempted >>
       ELSE /\ publish("submit", k, accepted'[k])
            /\ UNCHANGED pending
    /\ UNCHANGED << flusher, stream, snapshot, refused, exited >>

\* Coalescer::submit: publish at once, or replace what is pending.
submit(k) ==
    /\ ~exited /\ accepted[k] < MaxUpdates
    /\ accepted' = [accepted EXCEPT ![k] = @ + 1]
    /\ IF k \in Coalesced
       THEN /\ pending' = [pending EXCEPT ![k] = accepted'[k]]
            /\ UNCHANGED << publishing, attempted >>
       ELSE /\ publish("submit", k, accepted'[k])
            /\ UNCHANGED pending
    /\ UNCHANGED << flusher, stream, snapshot, refused, exited >>

\* flush_once, first part: take the map, under its lock.
flush_take(f) ==
    /\ ~exited /\ flusher[f].pc = "idle"
    /\ flusher' = [flusher EXCEPT ![f] = [pc |-> "flushing", batch |-> pending]]
    /\ pending' = Empty
    /\ UNCHANGED << accepted, publishing, attempted, stream, snapshot, refused, exited >>

\* flush_once, the loop: the next key in the map's order, which is arbitrary.
flush_next(f) ==
    /\ ~exited /\ flusher[f].pc = "flushing"
    /\ \A p \in publishing : p.by # f
    /\ \E k \in Keys :
          /\ flusher[f].batch[k] # 0
          /\ flusher' = [flusher EXCEPT ![f].batch[k] = 0]
          /\ publish(f, k, flusher[f].batch[k])
    /\ UNCHANGED << accepted, pending, stream, snapshot, refused, exited >>

\* Mutant: the map is emptied at the end, when its payloads are published.
flush_end_Clears(f) ==
    /\ ~exited /\ flusher[f].pc = "flushing" /\ flusher[f].batch = Empty
    /\ \A p \in publishing : p.by # f
    /\ flusher' = [flusher EXCEPT ![f].pc = IF f = "flush_task" THEN "idle" ELSE "done"]
    /\ pending' = Empty
    /\ UNCHANGED << accepted, publishing, attempted, stream, snapshot, refused, exited >>

\* Mutant: the flush task does not wait for the last publish of its flush.
flush_end_Detached(f) ==
    /\ ~exited /\ flusher[f].pc = "flushing" /\ flusher[f].batch = Empty
    /\ flusher' = [flusher EXCEPT ![f].pc = IF f = "flush_task" THEN "idle" ELSE "done"]
    /\ publishing' = {[p EXCEPT !.by = IF @ = f THEN "submit" ELSE @] : p \in publishing}
    /\ UNCHANGED << accepted, pending, attempted, stream, snapshot, refused, exited >>

\* flush_once returns: the flush task goes on to its next tick.
flush_end(f) ==
    /\ ~exited /\ flusher[f].pc = "flushing" /\ flusher[f].batch = Empty
    /\ \A p \in publishing : p.by # f
    /\ flusher' = [flusher EXCEPT ![f].pc = IF f = "flush_task" THEN "idle" ELSE "done"]
    /\ UNCHANGED << accepted, pending, publishing, attempted, stream, snapshot,
                    refused, exited >>

\* Pipeline::flush_all with a writer whose flush fails: flush_once is not reached.
flush_all_fails ==
    /\ "flush_all" \in Flushers /\ ~exited
    /\ flusher["flush_all"].pc = "idle"
    /\ flusher' = [flusher EXCEPT !["flush_all"].pc = "done"]
    /\ UNCHANGED << accepted, pending, publishing, attempted, stream, snapshot,
                    refused, exited >>

-----------------------------------------------------------------------------
\* Mutant: a publish whose writes are over does not return.
Written_Hangs(p, w) ==
    publishing' = (publishing \ {p}) \cup {[p EXCEPT !.left = @ \ {w}]}

\* One of the two writes of a publish is over; the call returns after both.
Written(p, w) ==
    publishing' = (publishing \ {p})
                  \cup (IF p.left = {w} THEN {} ELSE {[p EXCEPT !.left = @ \ {w}]})

\* A write fails: publish returns the error, and nobody tries again.
Refuses(p) == SinkFails /\ refused' = refused \cup {<< p.key, p.n >>}

\* The NATS half of FanoutPublisher::publish.
publish_nats(p) ==
    /\ ~exited /\ "nats" \in p.left
    /\ Written(p, "nats")
    /\ \/ stream' = [stream EXCEPT ![p.key] = p.n] /\ UNCHANGED refused
       \/ Refuses(p) /\ UNCHANGED stream
    /\ UNCHANGED << accepted, pending, flusher, attempted, snapshot, exited >>

\* A SET that fails was not executed, or it was and its answer is lost.
Lost(p) == snapshot' \in {snapshot, [snapshot EXCEPT ![p.key] = p.n]}

\* Mutant: a refused SET is tried again in the background.
publish_redis_Retries(p) ==
    /\ ~exited /\ "redis" \in p.left
    /\ \/ Written(p, "redis") /\ snapshot' = [snapshot EXCEPT ![p.key] = p.n] /\ UNCHANGED refused
       \/ /\ Refuses(p) /\ Lost(p)
          /\ publishing' = (publishing \ {p})
                \cup {[p EXCEPT !.left = @ \ {"redis"}] : w \in p.left \ {"redis"}}
                \cup {[p EXCEPT !.by = "submit", !.left = {"redis"}]}
    /\ UNCHANGED << accepted, pending, flusher, attempted, stream, exited >>

\* The Redis half: connect, then SET, with EX or without.
publish_redis(p) ==
    /\ ~exited /\ "redis" \in p.left
    /\ Written(p, "redis")
    /\ \/ snapshot' = [snapshot EXCEPT ![p.key] = p.n] /\ UNCHANGED refused
       \/ Refuses(p) /\ Lost(p)
    /\ UNCHANGED << accepted, pending, flusher, attempted, stream, exited >>

\* Redis drops a snapshot whose time to live is over.
redis_expire(k) ==
    /\ Expires /\ snapshot[k] # 0
    /\ snapshot' = [snapshot EXCEPT ![k] = 0]
    /\ UNCHANGED << accepted, pending, flusher, publishing, attempted, stream, refused, exited >>

\* After flush_all main stops the threads and returns, at some time.
exit ==
    /\ "flush_all" \in Flushers /\ ~exited
    /\ flusher["flush_all"].pc = "done"
    /\ exited' = TRUE
    /\ UNCHANGED << accepted, pending, flusher, publishing, attempted, stream, snapshot,
                    refused >>

Next ==
    \/ \E k \in Keys : submit(k)
    \/ \E f \in Flushers : flush_take(f) \/ flush_next(f) \/ flush_end(f)
    \/ flush_all_fails
    \/ \E p \in publishing : publish_nats(p) \/ publish_redis(p)
    \/ \E k \in Keys : redis_expire(k)
    \/ exit

Spec == Init /\ [][Next]_vars

(***************************************************************************)
(* The runtime polls the flush task, whose interval ticks for ever, a      *)
(* flush that has begun goes on, and NATS and Redis answer or fail.  The   *)
(* flush of the shutdown need not begin.                                   *)
(***************************************************************************)
Fairness ==
    /\ \A f \in Flushers \cap {"flush_task"} : WF_vars(flush_take(f))
    /\ \A f \in Flushers : WF_vars(flush_next(f)) /\ WF_vars(flush_end(f))
    /\ \A k \in Keys, n \in Payloads :
          WF_vars(\E p \in publishing : p.key = k /\ p.n = n
                                        /\ (publish_nats(p) \/ publish_redis(p)))

FairSpec == Spec /\ Fairness

-----------------------------------------------------------------------------
(***************************************************************************)
(* A payload is dropped only in favour of a newer one: the newest payload  *)
(* of a key is in the map, in the hands of a flusher, or has been handed   *)
(* to the sink, whatever is submitted while a flush awaits the network and *)
(* whichever publishes fail.                                               *)
(***************************************************************************)
NewestKept ==
    \A k \in Keys :
        accepted[k] \in {pending[k], attempted[k]} \cup {flusher[f].batch[k] : f \in Flushers}

\* Until the flush of the shutdown begins the flush task is on its own.
OnlyFlushTask == \A f \in Flushers \ {"flush_task"} : flusher[f].pc = "idle"

(***************************************************************************)
(* The coalescer and the publisher implement LatestFeed, once for NATS and *)
(* once for Redis.  What is offered is what was handed to the sink; the    *)
(* coalesced keys are in order; the feed drains from the time the flush of *)
(* the shutdown begins.                                                    *)
(***************************************************************************)
NatsFeed ==
    INSTANCE LatestFeed WITH
        Ordered <- Coalesced, Expires <- FALSE, Newest <- [k \in Keys |-> MaxUpdates],
        offered <- attempted, shown <- stream, draining <- ~OnlyFlushTask

RedisFeed ==
    INSTANCE LatestFeed WITH
        Ordered <- Coalesced, Newest <- [k \in Keys |-> MaxUpdates],
        offered <- attempted, shown <- snapshot, draining <- ~OnlyFlushTask

(***************************************************************************)
(* coalescer.rs: "keeps the *latest* payload for each PublishKey"; lib.rs: *)
(* "only the latest update for each key is published".  Until the flush of *)
(* the shutdown begins, a write to NATS or to Redis of a coalesced key is  *)
(* always the write of the newest payload handed to the sink: subscribers  *)
(* and snapshots never go back, though publishes fail, snapshots expire    *)
(* and payloads are submitted while the flush task awaits the sink.        *)
(***************************************************************************)
StreamIsLatestFeed == NatsFeed!FeedSpec
SnapshotIsLatestFeed == RedisFeed!FeedSpec

(***************************************************************************)
(* Subscribers of a coalesced key never go back, the shutdown included:    *)
(* its flush may overtake a publish of the flush task.                     *)
(***************************************************************************)
NeverOlderAtShutdown ==
    [][\A k \in Coalesced : stream'[k] >= stream[k]]_vars

(***************************************************************************)
(* A coalesced key that stays quiet is soon shown as it is, whatever was   *)
(* pending, being flushed or failing when it was submitted: its newest     *)
(* payload reaches NATS and Redis unless a write of that very payload      *)
(* fails.                                                                  *)
(***************************************************************************)
CatchesUp ==
    \A k \in Coalesced, n \in Payloads \ {0} :
        LET new     == accepted[k] = n /\ attempted[k] # n
            excused == accepted[k] # n \/ << k, n >> \in refused \/ exited
        IN  /\ new ~> stream[k] = n \/ excused
            /\ new ~> snapshot[k] = n \/ excused

(***************************************************************************)
(* coalescer.rs, flush_once: "Used by tests + on shutdown to make sure no  *)
(* update is lost": when the process ends every key's newest payload has   *)
(* been handed to the sink.                                                *)
(***************************************************************************)
ShutdownLosesNothing == exited => \A k \in Keys : attempted[k] = accepted[k]
=============================================================================
