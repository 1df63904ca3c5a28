----------------------------- MODULE BookEngine -----------------------------
(***************************************************************************)
(* The registry of order books (market-engine/src/book/engine.rs) under    *)
(* concurrent callers.  BookEngine::apply reads the filter, releases the   *)
(* filter's lock, then applies the operation under the shard's mutex: two  *)
(* steps, between which set_allowed may run.  The message a caller holds   *)
(* matters only in the second step, so it is chosen there.  A shard is a   *)
(* mutex around the books of some tickers; as an application is one step,  *)
(* which shard a ticker hashes to (shard_for) makes no difference.         *)
(***************************************************************************)
EXTENDS OrderBook

CONSTANTS
    Tickers,
    Callers,        \* threads that call apply
    Idle,           \* a caller that is not inside apply
    MaxEntries      \* bound: entries resting in one book

ASSUME IdleAssumption == Idle \notin Tickers
ASSUME MaxEntriesAssumption == MaxEntries \in Nat

VARIABLES
    books,          \* ticker -> its book; EmptyBook while not tracked
    tracked,        \* tickers with an entry in some shard's map
    allowed,        \* tickers is_allowed accepts; no filter (None) is Tickers
    call,           \* caller -> the ticker it found allowed, or Idle
    late,           \* callers whose ticker was filtered out after their check
    clean           \* tickers whose feed has kept resting ids unique

vars == << books, tracked, allowed, call, late, clean >>

TypeOK ==
    /\ books \in [Tickers -> Books]
    /\ tracked \subseteq Tickers
    /\ allowed \subseteq Tickers
    /\ call \in [Callers -> Tickers \cup {Idle}]
    /\ late \subseteq Callers
    /\ clean \subseteq Tickers

\* BookEngine::new: no book and no filter.
Init ==
    /\ books = [t \in Tickers |-> EmptyBook]
    /\ tracked = {}
    /\ allowed = Tickers
    /\ call = [c \in Callers |-> Idle]
    /\ late = {}
    /\ clean = Tickers

-----------------------------------------------------------------------------
\* set_allowed(None) and set_allowed(Some(S)).
set_allowed(S) ==
    /\ S # allowed
    /\ allowed' = S
    /\ late' = late \cup {c \in Callers : call[c] # Idle /\ call[c] \notin S}
    /\ UNCHANGED << books, tracked, call, clean >>

\* Mutant: the filter is not consulted.
apply_check_Unfiltered(c, t) ==
    /\ call[c] = Idle
    /\ call' = [call EXCEPT ![c] = t]
    /\ UNCHANGED << books, tracked, allowed, late, clean >>

\* apply, first part: is_allowed under the filter's read lock.  A ticker that
\* is not allowed makes apply return false and changes nothing.
apply_check(c, t) ==
    /\ call[c] = Idle
    /\ t \in allowed
    /\ call' = [call EXCEPT ![c] = t]
    /\ UNCHANGED << books, tracked, allowed, late, clean >>

Size(b) == Len(b.vec["Buy"]) + Len(b.vec["Sell"])

\* apply, second part: the shard is locked, the book created if it is new, and
\* the operation applied to it.
apply_locked(c, op) ==
    /\ call[c] # Idle
    /\ LET t == call[c]
           b == apply(books[t], op)
       IN  /\ Size(b) <= MaxEntries
           /\ books' = [books EXCEPT ![t] = b]
           /\ tracked' = tracked \cup {t}
           /\ clean' = IF op.op = "ClearAll" THEN clean \cup {t}
                       ELSE IF IdsUnique(b) THEN clean ELSE clean \ {t}
    /\ call' = [call EXCEPT ![c] = Idle]
    /\ late' = late \ {c}
    /\ UNCHANGED allowed

Next ==
    \/ \E S \in SUBSET Tickers : set_allowed(S)
    \/ \E c \in Callers, t \in Tickers : apply_check(c, t)
    \/ \E c \in Callers, op \in BookOps : apply_locked(c, op)

Spec == Init /\ [][Next]_vars

-----------------------------------------------------------------------------
(***************************************************************************)
(* Whatever the feed sends, duplicate ids, missing ids and positions out   *)
(* of range included, an id found in by_order_id leads to that order: no   *)
(* insertion, update or removal leaves an index entry pointing past the    *)
(* end of a side or at a neighbour (shift_indices_after).                  *)
(***************************************************************************)
IndexSound == \A t \in Tickers : Sound(books[t])

(***************************************************************************)
(* As long as the feed keeps resting ids unique (types.rs calls them       *)
(* "Unique-ish"), every resting order with an id can be looked up: no      *)
(* operation on one order drops the index entry of another.                *)
(***************************************************************************)
IndexComplete == \A t \in clean : Complete(books[t])

\* Order id i rests ahead of j on the same side.
Ahead(b, i, j) ==
    \E s \in Sides : \E p, q \in 1 .. Len(b.vec[s]) :
        p < q /\ b.vec[s][p] = i /\ b.vec[s][q] = j

(***************************************************************************)
(* Queue priority: an operation on a book with unique ids never changes    *)
(* which of two resting orders is ahead of the other, unless it carries    *)
(* one of the two (Vec::insert, Vec::remove and Vec::drain keep the order  *)
(* of what they leave).                                                    *)
(***************************************************************************)
PriorityKept ==
    \A t \in clean : \A op \in BookOps :
        LET b == books[t]
            n == apply(b, op)
        IN  \A i, j \in OrderIds :
                /\ op.op \in {"Add", "Update"} => op.order_id \notin {i, j}
                /\ Resting(b, i) /\ Resting(b, j) /\ Resting(n, i) /\ Resting(n, j)
                => (Ahead(b, i, j) <=> Ahead(n, i, j))

(***************************************************************************)
(* A book outside the filter is touched only by a call that read the       *)
(* filter before it was narrowed (is_allowed releases its lock before the  *)
(* shard is locked): once such calls have returned, the filter holds.      *)
(***************************************************************************)
FilterHonoured ==
    [][\A t \in Tickers :
          books'[t] # books[t] \/ (t \in tracked' /\ t \notin tracked) =>
              t \in allowed \/ \E c \in late : call[c] = t]_vars
=============================================================================
