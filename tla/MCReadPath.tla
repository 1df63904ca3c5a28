---------------------------- MODULE MCReadPath -----------------------------
(* Two tickers whose quotes change, a book and a trade, and a ticker Redis   *)
(* does not know; requests that reach every check of the handlers.           *)
EXTENDS ReadPath

MCKinds   == {"quote", "book", "trade"}
MCTickers == {"A", "B"}
MCKeys    == MCKinds \X MCTickers
MCOrdered == {"quote", "book"} \X MCTickers
MCNewest  == [k \in MCKeys |-> CASE k = <<"quote", "A">> -> 2
                                 [] k \in {<<"quote", "B">>, <<"trade", "A">>} -> 1
                                 [] OTHER -> 0]

Plain == [endpoint |-> "quote_single", auth |-> "valid", accept |-> "json", readable |-> TRUE,
          tickers |-> <<"A">>, limit |-> 1, since |-> FALSE]

MCRequests ==
    {[Plain EXCEPT !.endpoint = e] : e \in {"health", "quote_single", "book_single", "trades"}} \cup
    {[Plain EXCEPT !.auth = a] : a \in {"absent", "malformed", "unknown"}} \cup
    {[Plain EXCEPT !.endpoint = "trades", !.limit = n] : n \in {0, MaxLimit, MaxLimit + 1}} \cup
    {[Plain EXCEPT !.endpoint = "trades", !.since = TRUE],
     [Plain EXCEPT !.endpoint = "quote_batch", !.readable = FALSE, !.auth = "absent"],
     [Plain EXCEPT !.accept = "msgpack"]} \cup
    {[Plain EXCEPT !.endpoint = "quote_batch", !.tickers = ts] :
        ts \in {<<>>, <<"A", "B">>, <<"B", "", "A">>, <<"A", "A">>, <<"X", "B">>, <<"A", "B", "X">>}} \cup
    {[Plain EXCEPT !.endpoint = "book_batch", !.tickers = <<"A", "B">>]}
=============================================================================
