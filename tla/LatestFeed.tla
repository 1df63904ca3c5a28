----------------------------- MODULE LatestFeed -----------------------------
(***************************************************************************)
(* What the fanout promises to those who read what it publishes: for each  *)
(* key, payloads numbered in the order they were handed in, of which the   *)
(* readers are shown the newest one offered, not every one.  A key that is *)
(* not Ordered may be shown an older payload after a newer one, and so may *)
(* every key once the feed is draining.  Fanout implements it twice, for   *)
(* the NATS subjects and for the Redis snapshots.                          *)
(***************************************************************************)
EXTENDS Integers

CONSTANTS Keys,
          Ordered,   \* keys that are never shown an older payload
          Expires,   \* whether what is shown may be forgotten
          Newest     \* bound: key -> number of its payloads

VARIABLES offered,   \* key -> newest payload offered to the readers
          shown,     \* key -> payload the readers see, 0 for none
          draining   \* the feed is being shut down

feedVars == <<offered, shown, draining>>

FeedTypeOK ==
    /\ offered \in [Keys -> Nat] /\ \A k \in Keys : offered[k] <= Newest[k]
    /\ shown \in [Keys -> Nat]
    /\ draining \in BOOLEAN

FeedInit ==
    /\ offered = [k \in Keys |-> 0]
    /\ shown = [k \in Keys |-> 0]
    /\ draining = FALSE

\* A newer payload is on its way to the readers; some may have been skipped.
Offer(k) ==
    /\ \E n \in offered[k] + 1 .. Newest[k] : offered' = [offered EXCEPT ![k] = n]
    /\ UNCHANGED <<shown, draining>>

\* Mutant: a publish that was overtaken is still shown.
Show_Overtaken(k) ==
    /\ \E n \in 1 .. offered[k] : shown' = [shown EXCEPT ![k] = n]
    /\ UNCHANGED <<offered, draining>>

\* The readers see a payload: the newest, where the order is kept.
Show(k) ==
    /\ \E n \in 1 .. offered[k] :
          /\ k \in Ordered /\ ~draining => n = offered[k]
          /\ shown' = [shown EXCEPT ![k] = n]
    /\ UNCHANGED <<offered, draining>>

Forget(k) ==
    /\ Expires
    /\ shown' = [shown EXCEPT ![k] = 0]
    /\ UNCHANGED <<offered, draining>>

Drain ==
    /\ draining' = TRUE
    /\ UNCHANGED <<offered, shown>>

FeedNext == Drain \/ \E k \in Keys : Offer(k) \/ Show(k) \/ Forget(k)

FeedSpec == FeedInit /\ [][FeedNext]_feedVars
=============================================================================
