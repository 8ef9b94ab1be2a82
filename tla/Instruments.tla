---------------------------- MODULE Instruments ----------------------------
(***************************************************************************)
(* Which market a client is started for: the --instrument and              *)
(* --instruments flags, the table of known markets, the fallback of the    *)
(* quote currency, and the listing (main.rs, instrument_aliases.rs).       *)
(*                                                                         *)
(* A symbol is its two currencies and the separator between them; with no  *)
(* separator ("BTCUSDT") the code sees one word.  Upper and lower case,    *)
(* which every comparison here ignores, are left out, as are words with    *)
(* more than one separator or @.                                           *)
(***************************************************************************)
EXTENDS Naturals, Sequences, SequencesExt, FiniteSetsExt

Symbol(base, target, sep) == [base |-> base, target |-> target, sep |-> sep]

\* What stands between two commas: symbol, symbol@exchange or @exchange.  What
\* follows an @ may be empty, which is not the same as no @.
NoSymbol   == Symbol("", "", "")
NoExchange == "no @"
Part(symbol, at) == [symbol |-> symbol, at |-> at]

Symbols         == [base : STRING, target : STRING, sep : STRING]
InstrumentParts == [symbol : Symbols, at : STRING]

Markets(base, targets, exchange) == {<<base, t, exchange>> : t \in targets}

COIN_ALIASES ==
  UNION {
    Markets("BTC",  {"EUR", "USDT", "USDC"},        "okx"),
    Markets("ETH",  {"EUR", "USDT", "USD"},         "okx"),
    Markets("SOL",  {"EUR", "USDT", "USD"},         "okx"),
    Markets("LTC",  {"EUR", "USDT"},                "okx"),
    Markets("XLM",  {"EUR", "USDT"},                "okx"),
    Markets("ADA",  {"EUR", "USDT", "USD"},         "okx"),
    Markets("DOGE", {"EUR", "USDT", "USDC"},        "okx"),
    Markets("XBT",  {"USD", "EUR", "USDC"},         "kraken"),
    Markets("ETH",  {"USD", "EUR"},                 "kraken"),
    Markets("SOL",  {"USD", "EUR"},                 "kraken"),
    Markets("LTC",  {"USD", "EUR", "GBP", "USDT"},  "kraken"),
    Markets("XLM",  {"USD", "EUR"},                 "kraken"),
    Markets("ADA",  {"USD", "EUR", "USDC"},         "kraken"),
    Markets("XDG",  {"USD", "USDT", "EUR"},         "kraken"),
    Markets("BTC",  {"USD"},                        "bitstamp"),
    Markets("ETH",  {"USD"},                        "bitstamp"),
    Markets("SOL",  {"USD"},                        "bitstamp"),
    Markets("LTC",  {"USD"},                        "bitstamp"),
    Markets("XLM",  {"USD", "EUR"},                 "bitstamp"),
    Markets("ADA",  {"USD", "EUR"},                 "bitstamp"),
    Markets("DOGE", {"USD"},                        "bitstamp") }

\* The regions and exchanges that EXCHANGE_URL has an entry for.
KnownRegions   == {"global", "europe"}
KnownExchanges == {"okx", "kraken", "bitstamp"}

-----------------------------------------------------------------------------
(***************************************************************************)
(* parse_instruments_list: the pairs named so far, and whether one of them *)
(* came with its exchange.                                                 *)
(***************************************************************************)
NothingParsed == [pairs |-> <<>>, implied |-> FALSE]

\* Mutant: a symbol without an exchange takes that of the pair before it.
ParsePartImplied(default, sofar, part) ==
  CASE part.symbol = NoSymbol /\ part.at # NoExchange /\ sofar.implied ->
         [sofar EXCEPT !.pairs = Append(@, Part(Last(@).symbol, part.at))]
    [] part.symbol = NoSymbol /\ (part.at = NoExchange \/ ~sofar.implied) -> sofar
    [] part.symbol # NoSymbol /\ part.at # NoExchange ->
         [pairs |-> Append(sofar.pairs, part), implied |-> TRUE]
    [] part.symbol # NoSymbol /\ part.at = NoExchange ->
         [sofar EXCEPT !.pairs =
            Append(@, Part(part.symbol, IF sofar.implied THEN Last(@).at ELSE default))]

ParsePart(default, sofar, part) ==
  CASE part.symbol = NoSymbol /\ part.at # NoExchange /\ sofar.implied ->
         [sofar EXCEPT !.pairs = Append(@, Part(Last(@).symbol, part.at))]
    [] part.symbol = NoSymbol /\ (part.at = NoExchange \/ ~sofar.implied) -> sofar
    [] part.symbol # NoSymbol /\ part.at # NoExchange ->
         [pairs |-> Append(sofar.pairs, part), implied |-> TRUE]
    [] part.symbol # NoSymbol /\ part.at = NoExchange ->
         [sofar EXCEPT !.pairs = Append(@, Part(part.symbol, default))]

ParseInstrumentsList(parts, default) ==
  LET parsed[i \in 0..Len(parts)] ==
        IF i = 0 THEN NothingParsed ELSE ParsePart(default, parsed[i - 1], parts[i])
  IN  parsed[Len(parts)].pairs

-----------------------------------------------------------------------------
\* find_fallback_target, as a set of at most one currency.  Its last arm is for
\* spellings that the callers have already put in upper case.
FindFallbackTarget(requested, available) ==
  LET Has(t) == t \in available
  IN  {t \in {"USDC", "USDT", "USD"} :
        /\ ~ Has(requested) /\ Has(t)
        /\ \/ requested = "USDC" /\ t = "USDT"
           \/ requested = "USDT" /\ t = "USDC"
           \/ requested \in {"USDC", "USDT"} /\ t = "USD" /\ ~ Has("USDC") /\ ~ Has("USDT")
           \/ requested = "USD" /\ t = "USDT"
           \/ requested = "USD" /\ t = "USDC" /\ ~ Has("USDT")}

\* Kraken's markets are written with a slash where a dash was.
FormatInstrument(symbol, exchange) ==
  IF exchange = "kraken" /\ symbol.sep = "-" THEN [symbol EXCEPT !.sep = "/"] ELSE symbol

Targets(base, exchange) == {m[2] : m \in {a \in COIN_ALIASES : a[1] = base /\ a[3] = exchange}}

\* cli_inst_id: the symbol that was asked for, without its separator.
CliInstId(symbol) == <<symbol.base, symbol.target>>

\* resolve_one_instrument: the market if the table has it, else the fallback,
\* else what was typed.
ResolveOneInstrument(instrument, default) ==
  LET exchange  == IF instrument.at = NoExchange THEN default ELSE instrument.at
      s         == instrument.symbol
      available == IF s.sep = "" THEN {} ELSE Targets(s.base, exchange)
      found     == IF s.target \in available THEN {s.target}
                   ELSE FindFallbackTarget(s.target, available)
      written   == {Symbol(s.base, t, "-") : t \in found}
  IN  [symbol   |-> FormatInstrument(CHOOSE w \in (IF written = {} THEN {s} ELSE written) : TRUE,
                                     exchange),
       exchange |-> exchange,
       id       |-> CliInstId(s)]

-----------------------------------------------------------------------------
(***************************************************************************)
(* print_instrument_table, without its notes: for each pair of the table,  *)
(* what it is called at each exchange.                                     *)
(***************************************************************************)
NormalizeBase(base) == CASE base = "XBT" -> "BTC" [] base = "XDG" -> "DOGE" [] OTHER -> base

\* check_fallback.
Cell(base, target, exchange) ==
  LET entries   == {m \in COIN_ALIASES : m[3] = exchange /\ NormalizeBase(m[1]) = base}
      exact     == {Symbol(m[1], target, "-") : m \in {e \in entries : e[2] = target}}
      fallback  == {Symbol(base, t, "-") : t \in FindFallbackTarget(target, {m[2] : m \in entries})}
      shown     == IF exact # {} THEN exact
                   ELSE IF fallback # {} THEN fallback ELSE {Symbol(base, target, "-")}
  IN  [base |-> base, target |-> target, exchange |-> exchange,
       shown |-> FormatInstrument(CHOOSE s \in shown : TRUE, exchange)]

InstrumentTable ==
  {Cell(NormalizeBase(m[1]), m[2], e) : m \in COIN_ALIASES, e \in KnownExchanges}

-----------------------------------------------------------------------------
(***************************************************************************)
(* What the flags and the fallback are documented to mean.                 *)
(***************************************************************************)
\* The quote currencies that may stand for one that was asked for, best first
\* (ADR-021): none but itself unless it is a dollar.
Chain(target) ==
  CASE target = "USDC" -> <<"USDC", "USDT", "USD">>
    [] target = "USDT" -> <<"USDT", "USDC", "USD">>
    [] target = "USD"  -> <<"USD", "USDT", "USDC">>
    [] OTHER           -> <<target>>

\* The first of them that is there, or what was asked for.
Quote(target, available) ==
  LET There == {i \in DOMAIN Chain(target) : Chain(target)[i] \in available}
  IN  IF There = {} THEN target ELSE Chain(target)[Min(There)]

Market(a) ==
  IF a.symbol.sep = "" THEN a.symbol.target
  ELSE Quote(a.symbol.target, Targets(a.symbol.base, a.at))

\* r is what the pair a asks for: stored under what was typed, at its exchange, and
\* in the market the chain says.
Runs(r, a) ==
  /\ r.id = CliInstId(a.symbol)
  /\ r.exchange = a.at
  /\ r.symbol.base = a.symbol.base
  /\ r.symbol.target = Market(a)

\* ADR-024 has three formats and their hybrids.  In all of them @exchange comes
\* after a symbol@exchange or after another @exchange of the same run.
Documented(parts) ==
  \A i \in DOMAIN parts : parts[i].symbol = NoSymbol =>
    /\ parts[i].at # NoExchange
    /\ \E j \in 1..(i - 1) :
         /\ parts[j].symbol # NoSymbol /\ parts[j].at # NoExchange
         /\ \A h \in (j + 1)..i : parts[h].symbol = NoSymbol

\* The parts that name a symbol or come after one that does.
Named(parts) == {i \in DOMAIN parts : \E j \in 1..i : parts[j].symbol # NoSymbol}

\* What a part asks for: its own symbol, or that of the run it is in, at its own
\* exchange or at --exchange.
Wanted(parts, default, i) ==
  LET own == Max({j \in 1..i : parts[j].symbol # NoSymbol})
  IN  Part(parts[own].symbol, IF parts[i].at = NoExchange THEN default ELSE parts[i].at)
=============================================================================
