-------------------------- MODULE MCIngestPipeline --------------------------
(* Model-checking instances of IngestPipeline: the messages of each feed. *)
EXTENDS IngestPipeline

\* Updates of a quote and of a book.
StateFeed ==
    [kind : {"quote"}, ticker : Tickers, diff : SUBSET Fields \ {{}}]
    \cup [kind : {"book"}, ticker : Tickers]

\* Trades, busted trades and clears.
TradeFeed ==
    [kind : {"add", "delete"}, ticker : Tickers, trade_id : TradeIds]
    \cup [kind : {"clear"}, ticker : Tickers]

\* Everything that goes to an engine, and a frame that goes to none.
EngineFeed == StateFeed \cup TradeFeed \cup [kind : {"broker"}, cedro_id : Brokers]

\* Messages whose content does not matter.
PlainFeed == [kind : {"book"}, ticker : Tickers]

\* Fields and trade ids are interchangeable where the whole feed is sent.
DataSymmetry == Permutations(Fields) \cup Permutations(TradeIds)
=============================================================================
