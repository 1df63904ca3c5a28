----------------------------- MODULE StagedTrade -----------------------------
(***************************************************************************)
(* The record of a trade in the log (persistence/src/trade_writer.rs):     *)
(* encode_wal and decode_wal.  A trade has a fixed part (time, asset,      *)
(* price and amount, copied as they are), four optional fields and a flag. *)
(* A record is a sequence of fields: the fixed part, the flags byte as the *)
(* set of its bits, and the optional fields that are there.                *)
(***************************************************************************)
EXTENDS Integers, Sequences, SequencesExt

None == "None"
Optional == {"buyer_id", "seller_id", "aggressor_side", "trade_id"}

flags(t) == {f \in Optional : t[f] # None} \cup (IF t.is_direct THEN {"is_direct"} ELSE {})

\* An optional field in the record: nothing when it is not there.
field(t, f) == IF t[f] = None THEN << >> ELSE << t[f] >>

\* Mutant: two of the optional fields are written in the other order.
encode_wal_Swapped(t) ==
    << t.fixed, flags(t) >>
    \o field(t, "seller_id") \o field(t, "buyer_id")
    \o field(t, "aggressor_side") \o field(t, "trade_id")

encode_wal(t) ==
    << t.fixed, flags(t) >>
    \o field(t, "buyer_id") \o field(t, "seller_id")
    \o field(t, "aggressor_side") \o field(t, "trade_id")

(***************************************************************************)
(* What dispatch appends for a trade instead: nothing, and then JSON, the  *)
(* first eight bytes of which are no time chrono can represent.            *)
(***************************************************************************)
NoTime == "NoTime"
EmptyRecord == << >>
JsonBlob == << NoTime, {} >>
Placeholders == {EmptyRecord, JsonBlob}

\* What the cursor of decode_wal moves by at an optional field.
step(bits, f) == IF f \in bits THEN 1 ELSE 0

\* Whether decode_wal returns a trade: the record is as long as its flags say,
\* and its time is in range.
Decodable(bytes) ==
    /\ Len(bytes) >= 2
    /\ Len(bytes) >= 2 + step(bytes[2], "buyer_id") + step(bytes[2], "seller_id")
                       + step(bytes[2], "aggressor_side") + step(bytes[2], "trade_id")
    /\ bytes[1] # NoTime

\* The optional field f, when the cursor has read p fields of the record.
read_flag(bytes, p, f) == IF f \in bytes[2] THEN bytes[p + 1] ELSE None

decode_wal(bytes) ==
    LET bits == bytes[2]
        p == 2
        q == p + step(bits, "buyer_id")
        r == q + step(bits, "seller_id")
        s == r + step(bits, "aggressor_side")
    IN  [fixed          |-> bytes[1],
         buyer_id       |-> read_flag(bytes, p, "buyer_id"),
         seller_id      |-> read_flag(bytes, q, "seller_id"),
         aggressor_side |-> read_flag(bytes, r, "aggressor_side"),
         trade_id       |-> read_flag(bytes, s, "trade_id"),
         is_direct      |-> "is_direct" \in bits]
=============================================================================
