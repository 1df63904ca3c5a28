--------------------------- MODULE MCIngestDaemon ---------------------------
(* Model-checking instance of IngestDaemon. *)
EXTENDS IngestDaemon

\* Answers to MQC, and an update that needs a subscription.
DaemonFeed ==
    [kind : {"symbol"}, market : {"Bovespa"}, ticker : Tickers]
    \cup [kind : {"book"}, ticker : Tickers]
=============================================================================
