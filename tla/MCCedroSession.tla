--------------------------- MODULE MCCedroSession ---------------------------
(* A universe of two tickers, one of them with a book, and one more thread. *)
EXTENDS CedroSession

MCTickers == <<"PETR4", "WINFUT">>
MCOther   == {subscribe_quote("VALE3", TRUE), unsubscribe_quote("PETR4"),
              subscribe_book_aggregated("VALE3", FALSE), subscribe_book_aggregated("VALE3", TRUE),
              unsubscribe_book_aggregated("VALE3"), unsubscribe_book_detailed("PETR4"),
              subscribe_trades("VALE3", <<>>), unsubscribe_trades("PETR4"),
              subscribe_news("5"), unsubscribe_news("5"), get_server_time, quit}
=============================================================================
