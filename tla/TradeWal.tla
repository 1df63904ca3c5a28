------------------------------ MODULE TradeWal ------------------------------
(***************************************************************************)
(* The write-ahead log of trades (persistence/src/wal.rs): a BufWriter in  *)
(* front of a file opened in append mode.  A record is its payload; the    *)
(* length prefix and CRC matter only as what tells a torn record from a    *)
(* whole one.  Every method runs under the log's mutex, so each is one     *)
(* function from the log to the log.                                       *)
(*                                                                         *)
(*   file     what the file holds (as the process sees it), Torn where a   *)
(*            write was cut short                                          *)
(*   bufw     records still in the BufWriter                               *)
(*   split    the first record of bufw has its first bytes in the file     *)
(*            already: the BufWriter filled up in the middle of it         *)
(*   durable  the file as of the last fsync                                *)
(***************************************************************************)
EXTENDS Integers, Sequences, SequencesExt

CONSTANTS
    Torn,           \* a record of which only some bytes reached the file
    BufRecords      \* records that fit the BufWriter (64 KiB in the code)

ASSUME BufRecordsAssumption == BufRecords \in Nat \ {0}

\* The logs of records with these payloads.
Wals(payloads) ==
    LET Records == payloads \cup {Torn} IN
    [file : Seq(Records), bufw : Seq(Records), split : BOOLEAN, durable : Seq(Records)]

\* TradeWal::open on a file that holds `content`, of which `durable` is on
\* the disk: the file is kept as it is and appended to.
open(content, durable) ==
    [file |-> content, bufw |-> << >>, split |-> FALSE, durable |-> durable]

\* BufWriter::flush.
flush_buf(w) == [w EXCEPT !.file = @ \o w.bufw, !.bufw = << >>, !.split = FALSE]

(***************************************************************************)
(* TradeWal::append: the record goes to the BufWriter.  A full BufWriter   *)
(* first writes out what it holds; as a record is three writes, that can   *)
(* happen before the record or inside it.                                  *)
(***************************************************************************)
append(w, payload) ==
    IF Len(w.bufw) < BufRecords
    THEN {[w EXCEPT !.bufw = Append(@, payload)]}
    ELSE {[flush_buf(w) EXCEPT !.bufw = << payload >>, !.split = s] : s \in BOOLEAN}

\* TradeWal::append when the BufWriter cannot be written out: nothing of the
\* record is kept, or the beginning that still fitted.
append_err(w) ==
    {v \in {w, [w EXCEPT !.bufw = Append(@, Torn)]} : Len(w.bufw) >= BufRecords}

\* The BufWriter has written n of its records, and with `cut` part of the next.
Written(w, n, cut) == [w EXCEPT !.file = @ \o SubSeq(w.bufw, 1, n),
                                !.bufw = SubSeq(w.bufw, n + 1, Len(w.bufw)),
                                !.split = cut]

\* BufWriter::flush cut short by an error: a beginning is written, the rest kept.
flush_err(w) ==
    {f \in {Written(w, n, cut) : n \in 0 .. Len(w.bufw), cut \in BOOLEAN} :
        /\ f.split => f.bufw # << >>
        /\ w.split /\ f.bufw = w.bufw => f.split}

\* TradeWal::sync: flush, then sync_all.
sync(w) == [flush_buf(w) EXCEPT !.durable = w.file \o w.bufw]

\* TradeWal::truncate: flush, then set_len(0); the new length is not fsynced.
truncate(w) == [flush_buf(w) EXCEPT !.file = << >>]

\* The records of a file before the first torn one.
Whole(file) ==
    SubSeq(file, 1, SelectInSeq(Append(file, Torn), LAMBDA r : r = Torn) - 1)

\* TradeWal::replay: flush, then read until the tail is short or a CRC fails.
replay(w) == Whole(flush_buf(w).file)

-----------------------------------------------------------------------------
\* The file after the process dies: the kernel still has what was written.
ProcessDies(w) == IF w.split THEN Append(w.file, Torn) ELSE w.file

\* The files a power loss can leave: the one last fsynced, or, of what was
\* written since, any beginning, its last record torn or not.
PowerLost(w) ==
    LET written == ProcessDies(w)
        cuts == {SubSeq(written, 1, n) : n \in 0 .. Len(written)}
        torn == {Append(SubSeq(written, 1, n), Torn) : n \in 0 .. Len(written) - 1}
    IN  {w.durable} \cup {f \in cuts \cup torn :
                             IsPrefix(w.durable, written) => IsPrefix(w.durable, f)}
=============================================================================
