---------------------------- MODULE MarketState ----------------------------
(***************************************************************************)
(* The per-ticker states of the two engines that are maps of independent   *)
(* entries: the consolidated quote (market-engine/src/quote.rs) and the    *)
(* window of recent trades (market-engine/src/trade.rs).  Each operation   *)
(* runs under the DashMap lock of its ticker, so each is a function from   *)
(* the ticker's state to the ticker's state.  The value a message carries  *)
(* is represented by the number n of the frame that carried it; 0 is no    *)
(* value.                                                                  *)
(***************************************************************************)
EXTENDS Integers, Sequences, SequencesExt

CONSTANTS
    Fields,             \* field indices of the SQT message
    PerTickerCapacity   \* argument of TradeBuffer::new

ASSUME CapacityAssumption == PerTickerCapacity \in Nat

-----------------------------------------------------------------------------
\* QuoteState::default.
NoQuote == [time_hhmmss |-> 0, version |-> 0, fields |-> [f \in Fields |-> 0]]

\* Mutant: a field that has a value keeps it.
apply_diff_KeepsOld(q, n, diff) ==
    [time_hhmmss |-> n,
     version |-> q.version + 1,
     fields |-> [f \in Fields |->
                    IF f \in diff /\ q.fields[f] = 0 THEN n ELSE q.fields[f]]]

\* QuoteState::apply_diff: the fields of the diff replace the stored ones.
apply_diff(q, n, diff) ==
    [time_hhmmss |-> n,
     version |-> q.version + 1,
     fields |-> [f \in Fields |-> IF f \in diff THEN n ELSE q.fields[f]]]

-----------------------------------------------------------------------------
\* TradeBuffer::new never keeps less than one trade.
per_ticker_capacity == IF PerTickerCapacity = 0 THEN 1 ELSE PerTickerCapacity

\* TradeBuffer::push: the oldest trade leaves a full window.
push(window, n, trade_id) ==
    Append(IF Len(window) = per_ticker_capacity THEN Tail(window) ELSE window,
           [n |-> n, trade_id |-> trade_id])

\* Mutant: the trade at the front goes, whichever it is.
remove_Front(window, trade_id) ==
    IF \E i \in DOMAIN window : window[i].trade_id = trade_id THEN Tail(window) ELSE window

\* TradeBuffer::remove: the first trade with this id, if there is one.
remove(window, trade_id) ==
    LET pos == SelectInSeq(window, LAMBDA r : r.trade_id = trade_id) IN
    IF pos = 0 THEN window ELSE RemoveAt(window, pos)
=============================================================================
