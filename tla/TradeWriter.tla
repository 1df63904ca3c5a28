----------------------------- MODULE TradeWriter -----------------------------
(***************************************************************************)
(* The batch writer of trades (persistence/src/trade_writer.rs): tasks of  *)
(* the tokio runtime call stage and flush concurrently; a flush drains the *)
(* buffer, fsyncs the log, runs one INSERT ... ON CONFLICT DO NOTHING and  *)
(* truncates the log.  The buffer's mutex is released after the drain and  *)
(* the log's after every call, so these are separate steps.  The faults    *)
(* the code handles or is exposed to are turned on by the constant Faults. *)
(***************************************************************************)
EXTENDS StagedTrade, TradeWal, FiniteSets

CONSTANTS
    Trades,         \* StagedTrade records, no two with the same fixed part
    Tasks,          \* tasks that call stage and flush
    BatchSize,      \* PersistenceConfig::batch_size
    Faults,         \* subset of AllFaults
    Direct,         \* whether dispatch appends its placeholders to the log
    Replays,        \* whether a boot calls recover_from_wal: what it may do
    MaxCrashes      \* bound: crashes of the process or the machine

\* trade_id is NULL in the table.
NoTradeId == {t \in Trades : t.trade_id = None}

\* What may be appended to the log.
Payloads == {encode_wal(t) : t \in Trades} \cup Placeholders

AllFaults == {"wal_io", "db_error", "reply_lost", "crash", "power"}

ASSUME WriterAssumption ==
    /\ \A t \in Trades :
          /\ t = [fixed |-> t.fixed, buyer_id |-> t.buyer_id, seller_id |-> t.seller_id,
                  aggressor_side |-> t.aggressor_side, trade_id |-> t.trade_id,
                  is_direct |-> t.is_direct]
          /\ t.is_direct \in BOOLEAN
          /\ t.fixed # NoTime
    /\ \A t, u \in Trades : t.fixed = u.fixed => t = u
    /\ Torn \notin Payloads
    /\ Direct \in BOOLEAN
    /\ BatchSize \in Nat
    /\ Faults \subseteq AllFaults
    /\ Replays \subseteq BOOLEAN
    /\ MaxCrashes \in Nat

VARIABLES
    wal,            \* the log
    buffer,         \* TradeWriter.buffer
    task,           \* task -> where it is in stage or flush, with its locals
    db,             \* trade -> number of its rows in public.trades
    up,             \* the process runs
    crashes,
    fresh,          \* trades the engine has not staged yet
    acked,          \* trades whose stage returned Ok
    logged          \* trades whose record a successful sync covered

vars == << wal, buffer, task, db, up, crashes, fresh, acked, logged >>

(***************************************************************************)
(* A task's locals: `staging` is the trade of a stage call (a set of at    *)
(* most one), `batch` what it drained.                                     *)
(***************************************************************************)
Idle == [pc |-> "idle", staging |-> {}, batch |-> << >>]

TypeOK ==
    /\ wal \in Wals(Payloads)
    /\ buffer \in Seq(Trades)
    /\ task \in [Tasks -> [pc : {"idle", "push", "sync", "insert", "truncate"},
                           staging : SUBSET Trades, batch : Seq(Trades)]]
    /\ db \in [Trades -> Nat]
    /\ up \in BOOLEAN
    /\ crashes \in 0 .. MaxCrashes
    /\ fresh \subseteq Trades
    /\ acked \subseteq Trades
    /\ logged \subseteq Trades

Init ==
    /\ wal = open(<< >>, << >>)
    /\ buffer = << >>
    /\ task = [k \in Tasks |-> Idle]
    /\ db = [t \in Trades |-> 0]
    /\ up = TRUE
    /\ crashes = 0
    /\ fresh = Trades
    /\ acked = {}
    /\ logged = {}

-----------------------------------------------------------------------------
\* The call of task k returns an error: its locals are dropped.
Fails(k) ==
    /\ task' = [task EXCEPT ![k] = Idle]
    /\ UNCHANGED << buffer, db, up, crashes, fresh, acked, logged >>

\* An I/O error of sync or truncate, in its flush or after it.
WalFails(k) == Fails(k) /\ wal' \in flush_err(wal)

\* dispatch and spawn_persist append to the log themselves, next to stage; of
\* each placeholder the model has one in the log at a time.
persist_append(r) ==
    /\ Direct /\ up
    /\ r \notin ToSet(wal.file \o wal.bufw)
    /\ wal' \in append(wal, r)
    /\ UNCHANGED << buffer, task, db, up, crashes, fresh, acked, logged >>

\* stage, first part: the trade's record is appended to the log.
stage_append(k, t) ==
    /\ up /\ task[k] = Idle /\ t \in fresh
    /\ fresh' = fresh \ {t}
    /\ wal' \in append(wal, encode_wal(t))
    /\ task' = [task EXCEPT ![k] = [pc |-> "push", staging |-> {t}, batch |-> << >>]]
    /\ UNCHANGED << buffer, db, up, crashes, acked, logged >>

\* stage, first part, when the append fails: nothing is buffered.
stage_append_err(k, t) ==
    /\ "wal_io" \in Faults
    /\ up /\ task[k] = Idle /\ t \in fresh
    /\ fresh' = fresh \ {t}
    /\ wal' \in append_err(wal)
    /\ UNCHANGED << buffer, task, db, up, crashes, acked, logged >>

\* Mutant: the batch is copied and the buffer is left as it is.
stage_push_Copies(k) ==
    LET pushed == buffer \o SetToSeq(task[k].staging) IN
    /\ up /\ task[k].pc = "push"
    /\ buffer' = pushed
    /\ IF Len(pushed) >= BatchSize
       THEN /\ task' = [task EXCEPT ![k].pc = "sync", ![k].batch = pushed]
            /\ UNCHANGED acked
       ELSE /\ task' = [task EXCEPT ![k] = Idle]
            /\ acked' = acked \cup task[k].staging
    /\ UNCHANGED << wal, db, up, crashes, fresh, logged >>

(***************************************************************************)
(* stage, second part, under the buffer's lock: push the trade; a buffer   *)
(* that has reached the batch size is taken and flushed by this task.      *)
(***************************************************************************)
stage_push(k) ==
    LET pushed == buffer \o SetToSeq(task[k].staging) IN
    /\ up /\ task[k].pc = "push"
    /\ IF Len(pushed) >= BatchSize
       THEN /\ buffer' = << >>
            /\ task' = [task EXCEPT ![k].pc = "sync", ![k].batch = pushed]
            /\ UNCHANGED acked
       ELSE /\ buffer' = pushed
            /\ task' = [task EXCEPT ![k] = Idle]
            /\ acked' = acked \cup task[k].staging
    /\ UNCHANGED << wal, db, up, crashes, fresh, logged >>

\* Mutant: a timer flush waits for a full batch.
flush_OnlyFull(k) ==
    /\ up /\ task[k] = Idle /\ Len(buffer) >= BatchSize
    /\ buffer' = << >>
    /\ task' = [task EXCEPT ![k] = [pc |-> "sync", staging |-> {}, batch |-> buffer]]
    /\ UNCHANGED << wal, db, up, crashes, fresh, acked, logged >>

\* flush: take the buffer; an empty one makes it return at once.
flush(k) ==
    /\ up /\ task[k] = Idle /\ buffer # << >>
    /\ buffer' = << >>
    /\ task' = [task EXCEPT ![k] = [pc |-> "sync", staging |-> {}, batch |-> buffer]]
    /\ UNCHANGED << wal, db, up, crashes, fresh, acked, logged >>

\* The trades whose record is on the disk.
Covered(w) == {t \in Trades : encode_wal(t) \in ToSet(w.durable)}

\* Mutant: the log is emptied before the INSERT.
flush_sync_Truncates(k) ==
    /\ up /\ task[k].pc = "sync"
    /\ wal' = truncate(sync(wal))
    /\ logged' = logged \cup Covered(sync(wal))
    /\ task' = [task EXCEPT ![k].pc = "insert"]
    /\ UNCHANGED << buffer, db, up, crashes, fresh, acked >>

\* flush_drained, first part: fsync the log.
flush_sync(k) ==
    /\ up /\ task[k].pc = "sync"
    /\ wal' = sync(wal)
    /\ logged' = logged \cup Covered(sync(wal))
    /\ task' = [task EXCEPT ![k].pc = "insert"]
    /\ UNCHANGED << buffer, db, up, crashes, fresh, acked >>

flush_sync_err(k) ==
    /\ "wal_io" \in Faults
    /\ up /\ task[k].pc = "sync"
    /\ WalFails(k)

\* The rows after the INSERT: a trade that has a trade_id conflicts with its
\* own row, a NULL trade_id conflicts with nothing.
rows_after(batch) ==
    [t \in Trades |->
        IF t \notin ToSet(batch) THEN db[t]
        ELSE IF t \in NoTradeId THEN db[t] + Cardinality({i \in DOMAIN batch : batch[i] = t})
        ELSE 1]

\* flush_drained, second part: the INSERT commits.
flush_insert(k) ==
    /\ up /\ task[k].pc = "insert"
    /\ db' = rows_after(task[k].batch)
    /\ task' = [task EXCEPT ![k].pc = "truncate"]
    /\ UNCHANGED << wal, buffer, up, crashes, fresh, acked, logged >>

\* The INSERT is refused: the batch is dropped with the call.
flush_insert_err(k) ==
    /\ "db_error" \in Faults
    /\ up /\ task[k].pc = "insert"
    /\ Fails(k) /\ UNCHANGED wal

\* The INSERT commits but its answer is lost: the call fails all the same.
flush_insert_lost(k) ==
    /\ "reply_lost" \in Faults
    /\ up /\ task[k].pc = "insert"
    /\ db' = rows_after(task[k].batch)
    /\ task' = [task EXCEPT ![k] = Idle]
    /\ UNCHANGED << wal, buffer, up, crashes, fresh, acked, logged >>

\* flush_drained, last part: the log is emptied and the call returns Ok.
flush_truncate(k) ==
    /\ up /\ task[k].pc = "truncate"
    /\ wal' = truncate(wal)
    /\ task' = [task EXCEPT ![k] = Idle]
    /\ acked' = acked \cup task[k].staging
    /\ UNCHANGED << buffer, db, up, crashes, fresh, logged >>

flush_truncate_err(k) ==
    /\ "wal_io" \in Faults
    /\ up /\ task[k].pc = "truncate"
    /\ WalFails(k)

-----------------------------------------------------------------------------
\* The process dies, or the machine does: memory is gone.
Dies(file, durable) ==
    /\ up /\ crashes < MaxCrashes
    /\ wal' = open(file, durable)
    /\ buffer' = << >>
    /\ task' = [k \in Tasks |-> Idle]
    /\ up' = FALSE
    /\ crashes' = crashes + 1
    /\ UNCHANGED << db, fresh, acked, logged >>

crash == "crash" \in Faults /\ Dies(ProcessDies(wal), wal.durable)

power_loss == "power" \in Faults /\ \E f \in PowerLost(wal) : Dies(f, f)

\* What recover_from_wal puts in the buffer: the records it can decode, one by
\* one in the order of the log.
recovered(records) ==
    LET taken[i \in 0 .. Len(records)] ==
            IF i = 0 THEN << >>
            ELSE IF Decodable(records[i]) THEN Append(taken[i - 1], decode_wal(records[i]))
            ELSE taken[i - 1]
    IN  taken[Len(records)]

(***************************************************************************)
(* connect opens the log.  recover_from_wal replays it into the buffer if  *)
(* the boot calls it: that of the daemon only connects (pipeline::build),  *)
(* and recover_from_wal has no caller, so that {FALSE} is the daemon as it *)
(* is and {TRUE} the boot that recover_from_wal is written for.            *)
(***************************************************************************)
restart ==
    /\ ~up
    /\ up' = TRUE
    /\ \E replays \in Replays :
          buffer' = IF replays THEN recovered(replay(wal)) ELSE << >>
    /\ UNCHANGED << wal, task, db, crashes, fresh, acked, logged >>

Next ==
    \/ \E k \in Tasks, t \in Trades : stage_append(k, t) \/ stage_append_err(k, t)
    \/ \E k \in Tasks :
          \/ stage_push(k) \/ flush(k)
          \/ flush_sync(k) \/ flush_sync_err(k)
          \/ flush_insert(k) \/ flush_insert_err(k) \/ flush_insert_lost(k)
          \/ flush_truncate(k) \/ flush_truncate_err(k)
    \/ \E r \in Placeholders : persist_append(r)
    \/ crash \/ power_loss \/ restart

Spec == Init /\ [][Next]_vars

(***************************************************************************)
(* The runtime polls every task that can run, and the timer of             *)
(* spawn_flush_timer calls flush every 100 ms.                             *)
(***************************************************************************)
Fairness ==
    /\ WF_vars(restart)
    /\ \A k \in Tasks :
          /\ WF_vars(stage_push(k))
          /\ WF_vars(flush_sync(k) \/ flush_sync_err(k))
          /\ WF_vars(flush_insert(k) \/ flush_insert_err(k) \/ flush_insert_lost(k))
          /\ WF_vars(flush_truncate(k) \/ flush_truncate_err(k))
    /\ WF_vars(\E k \in Tasks : flush(k))

FairSpec == Spec /\ Fairness

-----------------------------------------------------------------------------
Stored(t) == db[t] > 0

InMemory(t) ==
    \/ t \in ToSet(buffer)
    \/ \E k \in Tasks : t \in task[k].staging \cup ToSet(task[k].batch)

Replayable(t) == t \in ToSet(recovered(replay(wal)))

(***************************************************************************)
(* Once an fsync of the log has covered a trade's record, the trade is in  *)
(* the table, on its way there in memory, or in the log, where             *)
(* recover_from_wal finds it: what flush_drained relies on when it calls   *)
(* sync before the INSERT and truncate after it.  It is the promise of the *)
(* log to a boot that replays; the boot of the daemon does not, and then   *)
(* the first truncate after it removes what nobody has read                *)
(* (TradeWriterNoReplay.cfg).                                              *)
(***************************************************************************)
NoLoggedTradeLost == \A t \in logged : Stored(t) \/ InMemory(t) \/ Replayable(t)

(***************************************************************************)
(* Whatever fails and however tasks interleave, a trade with a trade_id    *)
(* has at most one row, and one without has at most one per run of the     *)
(* process: stage and flush drain under the buffer's lock, and recovery    *)
(* replays a record once.                                                  *)
(***************************************************************************)
OncePerIncarnation ==
    \A t \in Trades : db[t] <= IF t \in NoTradeId THEN 1 + crashes ELSE 1

(***************************************************************************)
(* In every run of the process, a trade that stage has appended or that    *)
(* recover_from_wal has put back reaches the table, by its own task when   *)
(* the buffer is full or by the timer's flush, though answers to the       *)
(* INSERT are lost, unless that run ends in a crash.  It does not depend   *)
(* on whether the boot replays.                                            *)
(***************************************************************************)
StagedEventuallyStored ==
    \A t \in Trades, n \in 0 .. MaxCrashes :
        InMemory(t) /\ crashes = n ~> Stored(t) \/ crashes > n

(***************************************************************************)
(* wal.rs: "Every staged trade is fsync'd to this file before we           *)
(* acknowledge to the engine": a trade whose stage returned Ok is on the   *)
(* disk, in the log or in the table.                                       *)
(***************************************************************************)
AckedIsDurable == \A t \in acked : Stored(t) \/ t \in Covered(wal)

(***************************************************************************)
(* recover_from_wal: "the unique constraint on (time, asset_id, trade_id)  *)
(* makes re-processing safe": no trade ever gets two rows.                 *)
(***************************************************************************)
ReprocessingSafe == \A t \in Trades : db[t] <= 1
=============================================================================
