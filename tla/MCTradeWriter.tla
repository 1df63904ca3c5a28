---------------------------- MODULE MCTradeWriter ----------------------------
(* Model-checking instance of TradeWriter. *)
EXTENDS TradeWriter, TLC

\* Trades with every, some and none of the optional fields.
Full == [fixed |-> "t1", buyer_id |-> "b1", seller_id |-> "s1", aggressor_side |-> "buy",
         trade_id |-> "id1", is_direct |-> TRUE]
Partial == [fixed |-> "t2", buyer_id |-> None, seller_id |-> "s2", aggressor_side |-> None,
            trade_id |-> "id2", is_direct |-> FALSE]
Minimal == [fixed |-> "t3", buyer_id |-> None, seller_id |-> None, aggressor_side |-> None,
            trade_id |-> "id3", is_direct |-> FALSE]
Anonymous == [Full EXCEPT !.fixed = "t4", !.trade_id = None]

TwoTrades == {Full, Partial}
OneAnonymous == {Full, Anonymous}
ThreeTrades == {Full, Partial, Minimal}
ThreeOneAnonymous == {Full, Partial, Anonymous}

\* Tasks are interchangeable; used only where no liveness is checked.
TaskSymmetry == Permutations(Tasks)
=============================================================================
