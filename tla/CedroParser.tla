---------------------------- MODULE CedroParser ----------------------------
(***************************************************************************)
(* The message parsers of cedro-protocol: parse_frame and the ten parsers  *)
(* it dispatches to.  A frame is the sequence of tokens its colons         *)
(* separate, which is what Scanner::next yields one by one: a frame that   *)
(* ends in a colon has an empty last token.  What the parsers tell apart   *)
(* of a token is whether it is a number, of which form and width, how many *)
(* bytes it has and whether it is one of the protocol's letters.           *)
(*                                                                         *)
(* A parser is a layout: which field of the message each token is, and how *)
(* it is decoded.  The fields are read in order and the first one that is  *)
(* missing or malformed decides the error, as the `?` of the code does.    *)
(* An Option is a sequence of at most one element.                         *)
(***************************************************************************)
EXTENDS Integers, Sequences, FiniteSets, FiniteSetsExt

\* The function of one pair, and two functions put together, as TLC's module
\* has them; defined here so that proofs can expand them.
d :> e == [x \in {d} |-> e]
f @@ g == [x \in DOMAIN f \cup DOMAIN g |-> IF x \in DOMAIN f THEN f[x] ELSE g[x]]

(***************************************************************************)
(* Numbers.  A numeral is its text, the canonical text of its value, the   *)
(* bits its magnitude needs, and its shape: only digits, a minus and       *)
(* digits, or another form f64's parser accepts.                           *)
(***************************************************************************)
Octets == {"0", "1", "2", "3", "6", "9", "47", "50", "56", "72", "74", "83", "88", "106", "120",
           "124", "141", "142", "255"}

Numeral(text, value, bits, shape) ==
    [text |-> text, value |-> value, bits |-> bits, shape |-> shape]

Numerals ==
    {Numeral(d, d, 8, "digits") : d \in Octets} \cup
    {Numeral("006", "6", 3, "digits"),
     Numeral("145946", "145946", 18, "digits"),
     Numeral("201703", "201703", 18, "digits"),
     Numeral("20170308", "20170308", 25, "digits"),
     Numeral("4294967295", "4294967295", 32, "digits"),
     Numeral("4294967296", "4294967296", 33, "digits"),
     Numeral("9223372036854775808", "9223372036854775808", 64, "digits"),
     Numeral("18446744073709551616", "18446744073709551616", 65, "digits"),
     Numeral("-5", "-5", 3, "signed"),
     Numeral("1.50", "1.5", 1, "decimal"),
     Numeral("NaN", "NaN", 0, "decimal")}

(***************************************************************************)
(* Results of a parser, and ParseError's kinds.                            *)
(***************************************************************************)
ErrorKinds == {"Empty", "UnknownHeader", "MissingField", "InvalidField",
               "BadEncoding", "BadInteger", "BadFloat"}

Ok(v)    == [err |-> "none", val |-> v]
Err(kind) == [err |-> kind, val |-> ""]

\* A token that is not UTF-8, which only the floats look at.
NotUtf8 == "<ff>"

\* The value of a numeral of the given shapes that fits the width.
number(tok, shapes, width, kind) ==
    LET fits == {n \in Numerals : n.text = tok /\ n.shape \in shapes
                                  /\ n.bits <= width}
    IN  IF fits = {} THEN Err(kind) ELSE Ok((CHOOSE n \in fits : TRUE).value)

parse_u64(tok) == number(tok, {"digits"}, 64, "BadInteger")
parse_u32(tok) == number(tok, {"digits"}, 32, "BadInteger")
parse_u16(tok) == number(tok, {"digits"}, 16, "BadInteger")
parse_i64(tok) == number(tok, {"digits", "signed"}, 63, "BadInteger")
parse_f64(tok) == IF tok = NotUtf8 THEN Err("BadEncoding")
                  ELSE number(tok, {"digits", "signed", "decimal"}, 65, "BadFloat")

single_byte(tok) == IF Len(tok) = 1 THEN Ok(tok) ELSE Err("InvalidField")

Side == "A" :> "Buy" @@ "V" :> "Sell"

parse_side(tok) == IF tok \in DOMAIN Side THEN Ok(Side[tok]) ELSE Err("InvalidField")

\* A byte or a code with no name of its own is kept: Unknown carries it.
TradeAggressor(byte) ==
    LET names == "I" :> "Undefined" @@ "A" :> "Buyer" @@ "V" :> "Seller"
    IN  IF byte \in DOMAIN names THEN names[byte] ELSE byte

TradeCondition(code) ==
    LET names == "0" :> "NotDirect" @@ "1" :> "Direct" @@ "2" :> "Rlp" @@ "3" :> "Rfq"
                 @@ "4" :> "MidpointTrade" @@ "5" :> "OpeningPrice"
                 @@ "6" :> "PointInTimeAuction"
    IN  IF code \in DOMAIN names THEN names[code] ELSE code

\* The result with f applied to the value, if there is one.
Then(r, f(_)) == IF r.err = "none" THEN Ok(f(r.val)) ELSE r

Some(v) == <<v>>

(***************************************************************************)
(* The messages: the fields of each kind, ProtocolMessage's variants with  *)
(* the variants of their operations.                                       *)
(***************************************************************************)
BookEntry == {"position", "side", "price", "quantity", "broker_id",
              "timestamp_ddmmhhmm", "order_id", "offer_type"}
BookDelete == {"side", "position"}
AggBookLevel == {"position", "side", "price", "quantity", "offer_count", "timestamp_ddmmhhmm"}
Trade == {"operation_code", "time_hhmmss", "price", "broker_buy_id", "broker_sell_id",
          "quantity", "trade_id", "request_id", "condition", "aggressor",
          "original_conditions"}
NewsHeadline == {"agency", "code", "date", "time", "category", "title"}
VapEntry == {"ticker", "price", "buyer_trades", "buyer_volume", "seller_trades",
             "seller_volume", "direct_trades", "direct_volume", "undefined_trades",
             "undefined_volume", "period_minutes", "rlp_trades", "rlp_volume",
             "auction_trades", "auction_volume"}
GpnItem == {"exchange", "code", "name", "cedro_id", "active"}
CedroError == {"code", "context"}

ProtocolMessage ==
    [Quote |-> {"ticker", "time_hhmmss", "diff"},
     BookAdd |-> {"ticker"} \cup BookEntry, BookUpdate |-> {"ticker", "old_pos"} \cup BookEntry,
     BookSingle |-> {"ticker"} \cup BookDelete, BookPrefix |-> {"ticker"} \cup BookDelete,
     BookClearAll |-> {"ticker"}, BookEndOfInitial |-> {"ticker"},
     AggBookAdd |-> {"ticker"} \cup AggBookLevel, AggBookUpdate |-> {"ticker"} \cup AggBookLevel,
     AggBookSingle |-> {"ticker"} \cup BookDelete, AggBookClearAll |-> {"ticker"},
     AggBookEndOfInitial |-> {"ticker"},
     TradeAdd |-> {"ticker"} \cup Trade, TradeDelete |-> {"ticker", "trade_id"},
     TradeRemoveAll |-> {"ticker"}, TradeEndOfSubscribe |-> {"ticker"},
     TradeEndOfSnapshot |-> {"ticker", "request_id"},
     NewsHeadline |-> NewsHeadline, NewsHistoryItem |-> {"request_id"} \cup NewsHeadline,
     NewsHistoryEnd |-> {"request_id"}, NewsBody |-> {"request_id", "agency", "code", "body_raw"},
     Vap |-> VapEntry, ServerTime |-> {"date", "time"},
     MqcSymbol |-> {"market", "ticker"}, MqcEnd |-> {"market"}, GpnItem |-> GpnItem,
     Error |-> CedroError]

\* A result is an error or a message with exactly the fields of its kind.
WellFormed(r) ==
    IF r.err = "none"
    THEN /\ r.val.kind \in DOMAIN ProtocolMessage
         /\ DOMAIN r.val = ProtocolMessage[r.val.kind] \cup {"kind"}
    ELSE r.err \in ErrorKinds

(***************************************************************************)
(* What one token means as a field of the given wire type.                 *)
(***************************************************************************)
decode(type, tok) ==
    CASE type = "bytes"      -> Ok(tok)
      [] type = "some_bytes" -> Ok(Some(tok))
      [] type = "u16"        -> parse_u16(tok)
      [] type = "u32"        -> parse_u32(tok)
      [] type = "u64"        -> parse_u64(tok)
      [] type = "i64"        -> parse_i64(tok)
      [] type = "f64"        -> parse_f64(tok)
      [] type = "byte"       -> single_byte(tok)
      [] type = "some_byte"  -> Then(single_byte(tok), Some)
      [] type = "side"       -> parse_side(tok)
      [] type = "aggressor"  -> Then(single_byte(tok), TradeAggressor)
      [] type = "condition"  -> Then(parse_u16(tok), TradeCondition)
      [] type = "phase"      -> Ok(SubSeq(tok, 1, Min({2, Len(tok)})))
      [] type = "flag"       -> IF tok \in {"0", "1"} THEN Ok(tok = "1") ELSE Err("InvalidField")
      [] type = "period"     -> IF tok \in {"0", ""} THEN Ok(<<>>)
                                ELSE Then(parse_u32(tok), Some)

\* Scanner::required and the conversions, field by field: the record of the
\* decoded fields, or the error of the first field that is missing or bad.
\* A token named "_" has to be there and is not kept.
read(toks, layout) ==
    LET field(i) == decode(layout[i][2], toks[i])
        bad  == {i \in DOMAIN layout : i > Len(toks) \/ field(i).err # "none"}
        name(i) == layout[i][1]
    IN  IF bad = {}
        THEN Ok([n \in {name(i) : i \in DOMAIN layout} \ {"_"} |->
                    field(CHOOSE i \in DOMAIN layout : name(i) = n).val])
        ELSE IF Min(bad) > Len(toks) THEN Err("MissingField") ELSE field(Min(bad))

\* The tokens after the first n, and the same as one text: Scanner::take_rest
\* of a frame that ends in a colon is the empty text.
after(toks, n)     == SubSeq(toks, n + 1, Len(toks))
take_rest(toks, n) == IF after(toks, n) = <<"">> THEN <<>> ELSE after(toks, n)

\* The message of the given kind with the fields read and the ones added.
message(kind, r, more) == IF r.err = "none" THEN Ok([kind |-> kind] @@ more @@ r.val) ELSE r

None(n) == n :> <<>>
NoMore  == <<>>

(***************************************************************************)
(* SQT: index and value pairs up to the end of the frame or to an empty    *)
(* index, each value decoded as the table types its index.                 *)
(***************************************************************************)
field_type(idx) ==
    CASE idx \in {"0", "5", "15", "16", "58", "59"}                 -> "Time"
      [] idx \in {"142", "143", "144", "145"}                       -> "TimeMs"
      [] idx \in {"1", "54", "64", "87", "129", "141", "154", "208"} -> "Date"
      [] idx \in {"50", "51", "125"}                                -> "DateTime"
      [] idx \in {"6", "7", "8", "9", "19", "20", "44", "45", "46", "49", "57", "60",
                  "61", "62", "63", "65", "67", "84", "100", "101", "102", "110",
                  "111", "113", "114", "115", "118", "119", "130", "136", "137",
                  "138", "203", "205", "209", "213"}                -> "Int"
      [] idx = "88"                                                 -> "Phase"
      [] idx \in {"56", "72", "74", "106"}                          -> "Char"
      [] idx \in {"47", "48", "52", "53", "66", "81", "96", "105", "109", "116", "117",
                  "122", "126", "139", "204", "206", "207", "214", "215"} -> "Str"
      [] OTHER                                                      -> "Float"

\* The variant of QuoteFieldValue and the wire type of each FieldType.
variant == [Float |-> <<"Float", "f64">>, Int |-> <<"Int", "i64">>, Time |-> <<"Time", "u32">>,
            TimeMs |-> <<"Time", "u32">>, Date |-> <<"Date", "u32">>,
            DateTime |-> <<"DateTime", "u64">>, Char |-> <<"Char", "byte">>,
            Phase |-> <<"Phase", "phase">>, Str |-> <<"Str", "bytes">>]

decode_value(idx, raw) ==
    LET v == variant[field_type(idx)] IN Then(decode(v[2], raw), LAMBDA x : <<idx, v[1], x>>)

sqt(toks) ==
    LET stop == Min({j \in 4..Len(toks) + 2 : j % 2 = 0 /\ (j > Len(toks) \/ toks[j] = "")})
        pairs == (stop - 4) \div 2
        idx(k) == parse_u16(toks[2 + 2 * k])
        pair(k) == IF idx(k).err # "none" THEN idx(k)
                   ELSE IF 3 + 2 * k > Len(toks) THEN Err("MissingField")
                   ELSE decode_value(idx(k).val, toks[3 + 2 * k])
        bad == {k \in 1..pairs : pair(k).err # "none"}
        head == read(toks, << <<"_", "bytes">>, <<"ticker", "bytes">>,
                              <<"time_hhmmss", "u32">> >>)
    IN  IF head.err = "none" /\ bad # {} THEN pair(Min(bad))
        ELSE message("Quote", head, "diff" :> [k \in 1..pairs |-> pair(k).val])

(***************************************************************************)
(* BQT and SAB: the detailed and the aggregated book.                      *)
(***************************************************************************)
TickerOp == << <<"_", "bytes">>, <<"ticker", "bytes">>, <<"_", "bytes">> >>
EntryTail == << <<"side", "side">>, <<"price", "f64">>, <<"quantity", "u64">>,
                <<"broker_id", "u32">>, <<"timestamp_ddmmhhmm", "u32">> >>
OfferTail == << <<"order_id", "some_bytes">>, <<"offer_type", "some_byte">> >>

\* Mutants of read_entry: the short form leaves the options out of the entry;
\* an offer type that is not one byte is read as the short form.
read_entry_NoOptions(kind, toks, layout) ==
    IF Len(toks) <= Len(layout \o EntryTail)
    THEN message(kind, read(toks, layout \o EntryTail), NoMore)
    ELSE message(kind, read(toks, layout \o EntryTail \o OfferTail), NoMore)

read_entry_Lenient(kind, toks, layout) ==
    IF Len(toks) <= Len(layout \o EntryTail) + 1 \/ Len(toks[Len(layout \o EntryTail) + 2]) # 1
    THEN message(kind, read(toks, layout \o EntryTail), None("order_id") @@ None("offer_type"))
    ELSE message(kind, read(toks, layout \o EntryTail \o OfferTail), NoMore)

\* The order id and the offer type come together or not at all.
read_entry(kind, toks, layout) ==
    IF Len(toks) <= Len(layout \o EntryTail)
    THEN message(kind, read(toks, layout \o EntryTail), None("order_id") @@ None("offer_type"))
    ELSE message(kind, read(toks, layout \o EntryTail \o OfferTail), NoMore)

parse_add(toks) == read_entry("BookAdd", toks, TickerOp \o << <<"position", "u32">> >>)

parse_update(toks) ==
    read_entry("BookUpdate", toks, TickerOp \o << <<"position", "u32">>, <<"old_pos", "u32">> >>)

\* kinds maps the delete kinds the parser accepts to their messages.
parse_delete(toks, kinds) ==
    LET one == TickerOp \o << <<"_", "bytes">>, <<"side", "side">>, <<"position", "u32">> >>
    IN  IF Len(toks) < 4 THEN Err("MissingField")
        ELSE IF toks[4] \notin DOMAIN kinds THEN Err("InvalidField")
        ELSE message(kinds[toks[4]],
                     read(toks, IF toks[4] = "3" THEN SubSeq(one, 1, 4) ELSE one), NoMore)

bqt(toks) ==
    IF Len(toks) < 3 THEN Err("MissingField")
    ELSE CASE toks[3] = "A" -> parse_add(toks)
           [] toks[3] = "U" -> parse_update(toks)
           [] toks[3] = "D" -> parse_delete(toks, "1" :> "BookSingle" @@ "2" :> "BookPrefix"
                                                  @@ "3" :> "BookClearAll")
           [] toks[3] = "E" -> message("BookEndOfInitial", read(toks, TickerOp), NoMore)
           [] OTHER         -> Err("InvalidField")

read_level(kind, toks) ==
    message(kind, read(toks, TickerOp \o << <<"position", "u32">>, <<"side", "side">>,
                                            <<"price", "f64">>, <<"quantity", "u64">>,
                                            <<"offer_count", "u32">>,
                                            <<"timestamp_ddmmhhmm", "u32">> >>), NoMore)

sab(toks) ==
    IF Len(toks) < 3 THEN Err("MissingField")
    ELSE CASE toks[3] = "A" -> read_level("AggBookAdd", toks)
           [] toks[3] = "U" -> read_level("AggBookUpdate", toks)
           [] toks[3] = "D" -> parse_delete(toks, "1" :> "AggBookSingle" @@ "3" :> "AggBookClearAll")
           [] toks[3] = "E" -> message("AggBookEndOfInitial", read(toks, TickerOp), NoMore)
           [] OTHER         -> Err("InvalidField")

(***************************************************************************)
(* GQT: a trade of a subscription has nine fields, one of a snapshot ten,  *)
(* the request id being the seventh.                                       *)
(***************************************************************************)
TradeLayout ==
    << <<"time_hhmmss", "u32">>, <<"price", "f64">>, <<"broker_buy_id", "u32">>,
       <<"broker_sell_id", "u32">>, <<"quantity", "u64">>, <<"trade_id", "bytes">>,
       <<"condition", "condition">>, <<"aggressor", "aggressor">>,
       <<"original_conditions", "bytes">> >>

\* The fields after the operation, up to an empty one that follows nine.
trade_fields(toks) ==
    LET f == after(toks, 3)
    IN  SubSeq(f, 1, Min({i \in 10..Len(f) : f[i] = ""} \cup {Len(f) + 1}) - 1)

\* Mutant: the request id is taken from the place of the trade id.
parse_trade_add_OffByOne(toks) ==
    LET f == trade_fields(toks)
        trade(fields, request) ==
            message("TradeAdd", read(fields, TradeLayout),
                    [operation_code |-> toks[3], ticker |-> toks[2], request_id |-> request])
    IN  CASE Len(f) = 9  -> trade(f, <<>>)
          [] Len(f) = 10 -> trade(SubSeq(f, 1, 5) \o SubSeq(f, 7, 10), Some(f[6]))
          [] OTHER       -> Err("InvalidField")

parse_trade_add(toks) ==
    LET f == trade_fields(toks)
        trade(fields, request) ==
            message("TradeAdd", read(fields, TradeLayout),
                    [operation_code |-> toks[3], ticker |-> toks[2], request_id |-> request])
    IN  CASE Len(f) = 9  -> trade(f, <<>>)
          [] Len(f) = 10 -> trade(SubSeq(f, 1, 6) \o SubSeq(f, 8, 10), Some(f[7]))
          [] OTHER       -> Err("InvalidField")

gqt(toks) ==
    IF Len(toks) < 3 THEN Err("MissingField")
    ELSE CASE toks[3] = "A" -> parse_trade_add(toks)
           [] toks[3] = "D" -> message("TradeDelete",
                                   read(toks, TickerOp \o << <<"trade_id", "bytes">> >>), NoMore)
           [] toks[3] = "R" -> message("TradeRemoveAll", read(toks, TickerOp), NoMore)
           [] toks[3] = "E" ->
                IF Len(toks) = 3 \/ toks[4] = ""
                THEN message("TradeEndOfSubscribe", read(toks, TickerOp), NoMore)
                ELSE message("TradeEndOfSnapshot",
                         read(toks, TickerOp \o << <<"request_id", "bytes">> >>), NoMore)
           [] OTHER         -> Err("InvalidField")

(***************************************************************************)
(* NEM: headlines, history and bodies.  The title and the body are what is *)
(* left of the frame, colons included.                                     *)
(***************************************************************************)
Headline == << <<"agency", "bytes">>, <<"code", "bytes">>, <<"date", "u32">>,
               <<"time", "u32">>, <<"category", "u32">>, <<"_", "bytes">> >>
NewsHead    == << <<"_", "bytes">>, <<"_", "bytes">> >>
NewsRequest == NewsHead \o << <<"request_id", "bytes">> >>

\* The layout and then the rest of the frame as one text.
read_text(kind, toks, layout, text) ==
    message(kind, read(toks, layout), text :> take_rest(toks, Len(layout)))

nem(toks) ==
    CASE toks[2] = "A" -> read_text("NewsHeadline", toks, NewsHead \o Headline, "title")
      [] toks[2] = "L" ->
           IF Len(toks) < 4 THEN Err("MissingField")
           ELSE IF toks[4] = "END" THEN message("NewsHistoryEnd", read(toks, NewsRequest), NoMore)
           ELSE read_text("NewsHistoryItem", toks, NewsRequest \o Headline, "title")
      [] toks[2] = "N" ->
           read_text("NewsBody", toks, NewsRequest \o << <<"agency", "bytes">>, <<"code", "bytes">> >>,
                     "body_raw")
      [] OTHER -> Err("InvalidField")

(***************************************************************************)
(* VAP, MQC, GPN, GTC and the server's errors.                             *)
(***************************************************************************)
VapHead    == << <<"_", "bytes">>, <<"ticker", "bytes">> >>
VapVolumes == << <<"price", "f64">>, <<"buyer_trades", "f64">>, <<"buyer_volume", "f64">>,
                 <<"seller_trades", "f64">>, <<"seller_volume", "f64">>,
                 <<"direct_trades", "f64">>, <<"direct_volume", "f64">>,
                 <<"undefined_trades", "f64">>, <<"undefined_volume", "f64">> >>
VapTail    == << <<"rlp_trades", "f64">>, <<"rlp_volume", "f64">>,
                 <<"auction_trades", "f64">>, <<"auction_volume", "f64">> >>

\* The end of a list is an entry of zeros.
vap_end(toks) ==
    LET zeros == [n \in {(VapVolumes \o VapTail)[i][1] : i \in 1..13} |-> "0"]
        period == IF Len(toks) > 3 /\ toks[4] # "" THEN Then(parse_u32(toks[4]), Some)
                  ELSE Ok(<<>>)
    IN  IF period.err # "none" THEN period
        ELSE message("Vap", read(toks, VapHead), zeros @@ "period_minutes" :> period.val)

vap(toks) ==
    IF Len(toks) > 2 /\ toks[3] = "E" THEN vap_end(toks)
    ELSE message("Vap", read(toks, VapHead \o VapVolumes \o << <<"period_minutes", "period">> >>
                                           \o VapTail), NoMore)

mqc(toks) ==
    LET market == << <<"_", "bytes">>, <<"market", "bytes">> >>
    IN  IF Len(toks) = 3 /\ toks[3] = "E"
        THEN message("MqcEnd", read(toks, market), NoMore)
        ELSE message("MqcSymbol", read(toks, market \o << <<"ticker", "bytes">> >>), NoMore)

gpn(toks) ==
    message("GpnItem", read(toks, << <<"_", "bytes">>, <<"exchange", "bytes">>,
                                     <<"code", "bytes">>, <<"name", "bytes">>,
                                     <<"cedro_id", "bytes">>, <<"active", "flag">> >>), NoMore)

\* One field of fourteen bytes, the date and the time run together.
gtc(toks) ==
    IF Len(toks[2]) # 14 THEN Err("InvalidField")
    ELSE message("ServerTime",
                 read(<<SubSeq(toks[2], 1, 8), SubSeq(toks[2], 9, 14)>>,
                      << <<"date", "u32">>, <<"time", "u32">> >>), NoMore)

error(toks) ==
    message("Error", read(toks, << <<"_", "bytes">>, <<"code", "u16">> >>),
            "context" :> after(toks, 2))

(***************************************************************************)
(* The dispatch on the header, which counts only with the colon after it.  *)
(* The kind of the terminator is ignored.                                  *)
(***************************************************************************)
parse_frame(toks) ==
    IF toks = <<"">> THEN Err("Empty")
    ELSE IF Len(toks) < 2 THEN Err("UnknownHeader")
    ELSE CASE toks[1] = "T"   -> sqt(toks)
           [] toks[1] = "B"   -> bqt(toks)
           [] toks[1] = "Z"   -> sab(toks)
           [] toks[1] = "V"   -> gqt(toks)
           [] toks[1] = "O"   -> nem(toks)
           [] toks[1] = "VAP" -> vap(toks)
           [] toks[1] = "GTC" -> gtc(toks)
           [] toks[1] = "C"   -> mqc(toks)
           [] toks[1] = "G"   -> gpn(toks)
           [] toks[1] = "E"   -> error(toks)
           [] OTHER           -> Err("UnknownHeader")
=============================================================================
