----------------------------- MODULE OrderBook -----------------------------
(***************************************************************************)
(* The book of one ticker (market-engine/src/book/order_book.rs): two      *)
(* positional vectors and an index from order id to (side, position) that  *)
(* every insertion and removal has to keep aligned with the vectors.       *)
(*                                                                         *)
(* A resting entry is represented by the order id it carries, or NoId for  *)
(* the 7-field BQT layout that has none: price, quantity and broker are    *)
(* copied along and never looked at.  Positions are the code's, from 0;    *)
(* the entry at position p is vec[side][p + 1].  The hash map by_order_id  *)
(* is a total function whose absent keys map to NoSlot.                    *)
(***************************************************************************)
EXTENDS Integers, Sequences, SequencesExt

CONSTANTS
    OrderIds,       \* order ids the feed may use
    NoId,           \* entry.order_id = None
    MaxPosition     \* largest position a message of the feed names (u32)

ASSUME NoIdAssumption == NoId \notin OrderIds
ASSUME MaxPositionAssumption == MaxPosition \in Nat

Sides == {"Buy", "Sell"}
Entries == OrderIds \cup {NoId}
Positions == 0 .. MaxPosition

NoSlot == [side |-> "None", idx |-> 0]
Slots == [side : Sides \cup {"None"}, idx : Nat]

Books == [vec : [Sides -> Seq(Entries)],
          by_order_id : [OrderIds -> Slots],
          initialised : BOOLEAN]

EmptyBook == [vec |-> [s \in Sides |-> << >>],
              by_order_id |-> [id \in OrderIds |-> NoSlot],
              initialised |-> FALSE]

(***************************************************************************)
(* The messages a book can receive (BookOp and BookDelete).                *)
(***************************************************************************)
BookOps ==
    [op : {"Add"}, side : Sides, position : Positions, order_id : Entries]
    \cup [op : {"Update"}, old_pos : Positions, side : Sides,
          position : Positions, order_id : Entries]
    \cup [op : {"Single", "PrefixInclusive"}, side : Sides, position : Positions]
    \cup [op : {"ClearAll", "EndOfInitial"}]

-----------------------------------------------------------------------------
(***************************************************************************)
(* Moves the slots of `side` at or after `from` by `by`; a slot that would *)
(* become negative is left where it is.                                    *)
(***************************************************************************)
shift_indices_after(index, side, from, by) ==
    [id \in OrderIds |->
        IF /\ index[id].side = side
           /\ index[id].idx >= from
           /\ index[id].idx + by >= 0
        THEN [index[id] EXCEPT !.idx = @ + by]
        ELSE index[id]]

\* The index without an order id (None is never a key).
forget(index, id) == [k \in OrderIds |-> IF k = id THEN NoSlot ELSE index[k]]

\* The index with an order id at a slot (None is not entered).
record(index, id, side, idx) ==
    [k \in OrderIds |-> IF k = id THEN [side |-> side, idx |-> idx] ELSE index[k]]

\* Mutant: the entries behind the insertion point are shifted from pos + 1 on.
add_ShiftsAfter(b, side, pos, id) ==
    LET v == b.vec[side] IN
    IF pos >= Len(v)
    THEN [b EXCEPT !.vec[side] = Append(v, id),
                   !.by_order_id = record(@, id, side, Len(v))]
    ELSE [b EXCEPT !.vec[side] = InsertAt(v, pos + 1, id),
                   !.by_order_id =
                       record(shift_indices_after(@, side, pos + 1, 1), id, side, pos)]

\* Mutant: the position of a pushed entry is the length before the push less one.
add_Underflow(b, side, pos, id) ==
    LET v == b.vec[side] IN
    IF pos >= Len(v)
    THEN [b EXCEPT !.vec[side] = Append(v, id),
                   !.by_order_id = record(@, id, side, Len(v) - 1)]
    ELSE [b EXCEPT !.vec[side] = InsertAt(v, pos + 1, id),
                   !.by_order_id =
                       record(shift_indices_after(@, side, pos, 1), id, side, pos)]

(***************************************************************************)
(* OrderBook::add: push at the end when the position is past it, otherwise *)
(* insert there and shift the index, then enter the order's id.            *)
(***************************************************************************)
add(b, side, pos, id) ==
    LET v == b.vec[side] IN
    IF pos >= Len(v)
    THEN [b EXCEPT !.vec[side] = Append(v, id),
                   !.by_order_id = record(@, id, side, Len(v))]
    ELSE [b EXCEPT !.vec[side] = InsertAt(v, pos + 1, id),
                   !.by_order_id =
                       record(shift_indices_after(@, side, pos, 1), id, side, pos)]

\* Mutant: the last element takes the removed one's place (swap_remove).
remove_at_Swap(b, side, pos) ==
    LET v == b.vec[side] IN
    [b EXCEPT !.vec[side] = Front([v EXCEPT ![pos + 1] = Last(v)]),
              !.by_order_id = forget(@, v[pos + 1])]

(***************************************************************************)
(* vec.remove(pos), shift, and drop the removed order's id: the common     *)
(* beginning of update and of a Single delete.                             *)
(***************************************************************************)
remove_at(b, side, pos) ==
    LET v == b.vec[side] IN
    [b EXCEPT !.vec[side] = RemoveAt(v, pos + 1),
              !.by_order_id =
                  forget(shift_indices_after(@, side, pos, -1), v[pos + 1])]

\* Mutant: an updated order is not entered in the index again.
update_LosesId(b, old_pos, side, pos, id) ==
    IF old_pos >= Len(b.vec[side])
    THEN add(b, side, pos, id)
    ELSE LET n == add(remove_at(b, side, old_pos), side, pos, id)
         IN  [n EXCEPT !.by_order_id = forget(@, id)]

(***************************************************************************)
(* OrderBook::update: an old position out of range makes it an add; the    *)
(* entry is otherwise taken out and inserted again the way add does.       *)
(***************************************************************************)
update(b, old_pos, side, pos, id) ==
    IF old_pos >= Len(b.vec[side])
    THEN add(b, side, pos, id)
    ELSE add(remove_at(b, side, old_pos), side, pos, id)

\* OrderBook::delete, BookDelete::Single.
delete_single(b, side, pos) ==
    IF pos < Len(b.vec[side]) THEN remove_at(b, side, pos) ELSE b

(***************************************************************************)
(* OrderBook::delete, BookDelete::PrefixInclusive: drain positions 0..pos, *)
(* drop the drained ids, then shift what is left of the side.              *)
(***************************************************************************)
delete_prefix(b, side, pos) ==
    LET v   == b.vec[side]
        end == IF pos + 1 < Len(v) THEN pos + 1 ELSE Len(v)
        kept == [id \in OrderIds |->
                    IF \E i \in 1 .. end : v[i] = id THEN NoSlot ELSE b.by_order_id[id]]
    IN  [b EXCEPT !.vec[side] = SubSeq(v, end + 1, Len(v)),
                  !.by_order_id = shift_indices_after(kept, side, 0, -end)]

\* OrderBook::delete, BookDelete::ClearAll: both sides and the index, and not
\* the initialised flag.
clear_all(b) == [EmptyBook EXCEPT !.initialised = b.initialised]

\* OrderBook::apply.
apply(b, op) ==
    CASE op.op = "Add"    -> add(b, op.side, op.position, op.order_id)
      [] op.op = "Update" -> update(b, op.old_pos, op.side, op.position, op.order_id)
      [] op.op = "Single" -> delete_single(b, op.side, op.position)
      [] op.op = "PrefixInclusive" -> delete_prefix(b, op.side, op.position)
      [] op.op = "ClearAll" -> clear_all(b)
      [] op.op = "EndOfInitial" -> [b EXCEPT !.initialised = TRUE]

-----------------------------------------------------------------------------
\* The order id rests somewhere in the book.
Resting(b, id) == \E s \in Sides : \E i \in 1 .. Len(b.vec[s]) : b.vec[s][i] = id

\* No order id rests twice in the book.
IdsUnique(b) ==
    \A s, t \in Sides : \A i \in 1 .. Len(b.vec[s]), j \in 1 .. Len(b.vec[t]) :
        b.vec[s][i] = b.vec[t][j] /\ b.vec[s][i] \in OrderIds => s = t /\ i = j

\* An indexed id is at the side and position the index names.
Sound(b) ==
    \A id \in OrderIds :
        LET slot == b.by_order_id[id] IN
        slot.side \in Sides =>
            /\ slot.idx < Len(b.vec[slot.side])
            /\ b.vec[slot.side][slot.idx + 1] = id

\* Every resting order id is indexed.
Complete(b) ==
    \A id \in OrderIds : Resting(b, id) => b.by_order_id[id].side \in Sides
=============================================================================
