----------------------------- MODULE CedroWire -----------------------------
(***************************************************************************)
(* The lines the Cedro server sends, as the protocol's tables lay them     *)
(* out: what the parsers have to understand.  The server is external; the  *)
(* forms are those the headers of the parsers quote from its manual, the   *)
(* types of a quote's fields those of the table in api.md, 4.1.1.  A       *)
(* form is a sequence of parts.  A part names a field of the message, or   *)
(* is a fixed word of the line, and has spellings: the tokens that may     *)
(* stand there, each with the value they stand for.                        *)
(***************************************************************************)
EXTENDS Integers, Sequences, SequencesExt, TLC

As(tok, value) == << <<tok>>, value >>
Itself(S)      == {As(tok, tok) : tok \in S}
Optional(S)    == {<<s[1], <<s[2]>> >> : s \in S}

Field(name, spellings) == [name |-> name, spellings |-> spellings]
Word(tok)              == Field("_", Itself({tok}))
Absent(name)           == Field(name, {<< <<>>, <<>> >>})

Texts      == Itself({"PETR4", "9"})
Ids        == Itself({"9", ""})
Counts     == Itself({"0", "255", "4294967295"}) \cup {As("006", "6")}
Quantities == Counts \cup Itself({"4294967296", "9223372036854775808"})
Prices     == Itself({"0", "-5", "255"}) \cup {As("1.50", "1.5")}
Sides      == {As("A", "Buy"), As("V", "Sell")}
Conditions == {As("0", "NotDirect"), As("6", "PointInTimeAuction"), As("255", "255")}
Aggressors == {As("I", "Undefined"), As("V", "Seller"), As("Z", "Z")}
Flags      == {As("0", FALSE), As("1", TRUE)}
Titles     == {<< <<"PETR4">>, <<"PETR4">> >>, << <<"PETR4", "", "9">>, <<"PETR4", "", "9">> >>}

\* The changes of a quote: every type of the table of api.md, alone and with
\* another one.
Change(idx, tok, variant, value) == [toks |-> <<idx, tok>>, pair |-> <<idx, variant, value>>]
LastPrice == Change("2", "1.50", "Float", "1.5")
Changes ==
    {Change("0", "145946", "Time", "145946"), Change("1", "20170308", "Date", "20170308"),
     LastPrice, Change("6", "-5", "Int", "-5"),
     Change("50", "4294967296", "DateTime", "4294967296"), Change("56", "A", "Char", "A"),
     Change("72", "0", "Char", "0"), Change("74", "P", "Char", "P"),
     Change("88", "P", "Phase", "P"), Change("88", "PN", "Phase", "PN"),
     Change("47", "", "Str", ""), Change("142", "145946", "Time", "145946")}

(***************************************************************************)
(* The rows of the table whose type is not the one field_type gives them,  *)
(* with the type of the table: the integers 83 and 124, the tick direction *)
(* 106, a text of one or two bytes, the month 120, which is YYYYMM, and    *)
(* the date 141, a text.                                                   *)
(***************************************************************************)
Departures ==
    {Change("106", tick, "Str", tick) : tick \in {"+", "0+", "-", "0-"}} \cup
    {Change("83", "255", "Int", "255"), Change("124", "0", "Int", "0"),
     Change("120", "201703", "Date", "201703"), Change("141", "20170308", "Str", "20170308")}

Diffs(changes) ==
    {<< FlattenSeq([k \in DOMAIN c |-> c[k].toks]), [k \in DOMAIN c |-> c[k].pair] >> :
        c \in {<<a>> : a \in changes} \cup {<<a, LastPrice>> : a \in changes}}
NoDiff == << <<>>, <<>> >>

(***************************************************************************)
(* The forms.                                                              *)
(***************************************************************************)
Form(kind, parts) == [kind |-> kind, parts |-> parts]

Ticker     == Field("ticker", Texts)
Level(more) == <<Field("side", Sides), Field("price", Prices), Field("quantity", Quantities)>>
               \o more \o <<Field("timestamp_ddmmhhmm", Counts)>>
Offer      == Level(<<Field("broker_id", Counts)>>)
Identified == <<Field("order_id", Optional(Ids)), Field("offer_type", Optional(Itself({"L", "O"})))>>
Legacy     == <<Absent("order_id"), Absent("offer_type")>>
Position   == Field("position", Counts)

QuoteForm(diffs) ==
    Form("Quote", <<Word("T"), Ticker, Field("time_hhmmss", Counts), Field("diff", diffs)>>)
QuoteForms     == {QuoteForm(Diffs(Changes) \cup {NoDiff})}
DepartingForms == {QuoteForm(Diffs(Departures))}

BookForms ==
    {Form("BookAdd", <<Word("B"), Ticker, Word("A"), Position>> \o Offer \o tail) :
        tail \in {Identified, Legacy}} \cup
    {Form("BookUpdate", <<Word("B"), Ticker, Word("U"), Position, Field("old_pos", Counts)>>
                        \o Offer \o tail) : tail \in {Identified, Legacy}} \cup
    {Form("BookSingle", <<Word("B"), Ticker, Word("D"), Word("1"), Field("side", Sides), Position>>),
     Form("BookPrefix", <<Word("B"), Ticker, Word("D"), Word("2"), Field("side", Sides), Position>>),
     Form("BookClearAll", <<Word("B"), Ticker, Word("D"), Word("3")>>),
     Form("BookEndOfInitial", <<Word("B"), Ticker, Word("E")>>)}

AggBookForms ==
    {Form(k[1], <<Word("Z"), Ticker, Word(k[2]), Position>> \o Level(<<Field("offer_count", Counts)>>)) :
        k \in {<<"AggBookAdd", "A">>, <<"AggBookUpdate", "U">>}} \cup
    {Form("AggBookSingle", <<Word("Z"), Ticker, Word("D"), Word("1"), Field("side", Sides), Position>>),
     Form("AggBookClearAll", <<Word("Z"), Ticker, Word("D"), Word("3")>>),
     Form("AggBookEndOfInitial", <<Word("Z"), Ticker, Word("E")>>)}

TradeForm(request) ==
    Form("TradeAdd", <<Word("V"), Ticker, Field("operation_code", Itself({"A"})),
                       Field("time_hhmmss", Counts), Field("price", Prices),
                       Field("broker_buy_id", Counts), Field("broker_sell_id", Itself({"1", "3"})),
                       Field("quantity", Quantities), Field("trade_id", Ids), request,
                       Field("condition", Conditions), Field("aggressor", Aggressors),
                       Field("original_conditions", Itself({"0", "R Y"}))>>)

TradeForms ==
    {TradeForm(Absent("request_id")),
     Form("TradeDelete", <<Word("V"), Ticker, Word("D"), Field("trade_id", Ids)>>),
     Form("TradeRemoveAll", <<Word("V"), Ticker, Word("R")>>),
     Form("TradeEndOfSubscribe", <<Word("V"), Ticker, Word("E")>>)}

SnapshotForms ==
    {TradeForm(Field("request_id", Optional(Itself({"9", "x"})))),
     Form("TradeEndOfSnapshot", <<Word("V"), Ticker, Word("E"), Field("request_id", Texts)>>)}

News(more) ==
    more \o <<Field("agency", Texts), Field("code", Texts), Field("date", Counts),
              Field("time", Counts), Field("category", Counts), Word("12"), Field("title", Titles)>>

HeadlineForms == {Form("NewsHeadline", News(<<Word("O"), Word("A")>>))}

HistoryForms ==
    {Form("NewsHistoryItem", News(<<Word("O"), Word("L"), Field("request_id", Texts)>>)),
     Form("NewsHistoryEnd", <<Word("O"), Word("L"), Field("request_id", Texts), Word("END")>>),
     Form("NewsBody", <<Word("O"), Word("N"), Field("request_id", Texts), Field("agency", Texts),
                        Field("code", Texts), Field("body_raw", Titles)>>)}

\* The end of a list stands for an entry of zeros, as the header of vap.rs says.
Volumes(names, spellings) == [i \in DOMAIN names |-> Field(names[i], spellings)]
Traded == <<"price", "buyer_trades", "buyer_volume", "seller_trades", "seller_volume",
            "direct_trades", "direct_volume", "undefined_trades", "undefined_volume">>
Retail == <<"rlp_trades", "rlp_volume", "auction_trades", "auction_volume">>
Period(none) == Field("period_minutes", Optional(Itself({"50"})) \cup {<<none, <<>> >>})
VapForms ==
    {Form("Vap", <<Word("VAP"), Ticker>> \o Volumes(Traded, Prices) \o <<Period(<<"0">>)>>
                 \o Volumes(Retail, Prices)),
     Form("Vap", <<Word("VAP"), Ticker, Word("E"), Period(<<>>)>>
                 \o Volumes(Traded \o Retail, {<< <<>>, "0" >>}))}

CatalogForms == {Form("MqcSymbol", <<Word("C"), Field("market", Texts), Ticker>>),
                 Form("MqcEnd", <<Word("C"), Field("market", Texts), Word("E")>>)}

BrokerForms == {Form("GpnItem", <<Word("G"), Field("exchange", Texts), Field("code", Texts),
                                  Field("name", Texts), Field("cedro_id", Ids), Field("active", Flags)>>)}

ErrorForms == {Form("Error", <<Word("E"), Field("code", Itself({"3", "255"})),
                               Field("context", Titles \cup {<< <<>>, <<>> >>})>>)}

(***************************************************************************)
(* The lines of a form: every spelling of every part, one part at a time.  *)
(***************************************************************************)
Usual(part) == CHOOSE s \in part.spellings : TRUE

\* The line and the message it stands for; own[i] says the token is a field's.
Line(form, k, spelling) ==
    LET said(i) == IF i = k THEN spelling ELSE Usual(form.parts[i])
        fields == {i \in DOMAIN form.parts : form.parts[i].name # "_"}
        part(n) == CHOOSE i \in fields : form.parts[i].name = n
    IN  [toks |-> FlattenSeq([i \in DOMAIN form.parts |-> said(i)[1]]),
         own  |-> FlattenSeq([i \in DOMAIN form.parts |->
                      [j \in DOMAIN said(i)[1] |-> i \in fields]]),
         msg  |-> [n \in {form.parts[i].name : i \in fields} |-> said(part(n))[2]]
                  @@ "kind" :> form.kind]

Lines(forms) == UNION {UNION {{Line(f, k, s) : s \in f.parts[k].spellings} :
                                 k \in DOMAIN f.parts} : f \in forms}

QuoteLines    == Lines(QuoteForms)
DepartingLines == Lines(DepartingForms)
BookLines     == Lines(BookForms)
AggBookLines  == Lines(AggBookForms)
TradeLines    == Lines(TradeForms)
CatalogLines  == Lines(CatalogForms)
BrokerLines   == Lines(BrokerForms)
HeadlineLines == Lines(HeadlineForms)
ErrorLines    == Lines(ErrorForms)
TimeLines     == {[toks |-> <<"GTC", "20170308145946">>, own |-> <<FALSE, TRUE>>,
                   msg |-> [kind |-> "ServerTime", date |-> "20170308", time |-> "145946"]]}

\* Lines for which the client has no command.
HistoryLines  == Lines(HistoryForms)
VapLines      == Lines(VapForms)
SnapshotLines == Lines(SnapshotForms)
=============================================================================
