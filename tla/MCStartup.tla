----------------------------- MODULE MCStartup -----------------------------
(***************************************************************************)
(* Command lines for Startup: the four formats of --instruments and their  *)
(* mixtures, twins, exchanges that do not exist, and quotes of every kind  *)
(* (listed, to be replaced, not to be replaced).                           *)
(***************************************************************************)
EXTENDS Startup

Sym(b, t)   == Symbol(b, t, "-")
Slash(b, t) == Symbol(b, t, "/")

Line(instrument, instruments, exchange, region) ==
  [list |-> FALSE, instrument |-> instrument, instruments |-> instruments,
   exchange |-> exchange, region |-> region, port |-> FALSE]

Default == Part(Sym("BTC", "USDT"), NoExchange)

\* --instrument: every base and quote of the table and some others, at every
\* exchange, with @ or without.
Bases   == {"BTC", "XBT", "ETH", "LTC", "ADA", "XRP"}
Quotes  == {"USD", "USDT", "USDC", "EUR", "GBP"}
Singles ==
  {Line(Part(Symbol(b, t, s), at), {}, e, "europe") :
     b \in Bases, t \in Quotes, s \in {"-"}, at \in {NoExchange, "kraken"},
     e \in KnownExchanges}

\* --instruments: up to two parts of seven kinds, three of three kinds.
Three == {Part(Sym("ETH", "USDC"), "kraken"), Part(Slash("ADA", "USDC"), NoExchange),
          Part(NoSymbol, "bitstamp")}
Parts == Three \cup {Part(Sym("ADA", "USD"), "binance"), Part(NoSymbol, NoExchange),
                     Part(Sym("ADA", "USD"), ""), Part(NoSymbol, "")}
Lists ==
  {Line(Default, {l}, "kraken", "global") :
     l \in UNION {[1..n -> Parts] : n \in 0..2} \cup [1..3 -> Three]}

Others ==
  {Line(Part(Symbol("LTC", "USDC", ""), "bitstamp"), {}, "okx", "europe"),
   Line(Default, {<<Part(Symbol("LTC", "USDC", ""), NoExchange)>>}, "kraken", "europe")} \cup
  {Line(Default, {}, "okx", "mars"),
   [Line(Default, {}, "okx", "europe") EXCEPT !.list = TRUE],
   [Line(Default, {}, "okx", "europe") EXCEPT !.port = TRUE]}

MCCommandLines == Singles \cup Lists \cup Others
=============================================================================
