------------------------------ MODULE Metrics ------------------------------
(***************************************************************************)
(* What the clients of one process publish and what its HTTP server        *)
(* answers: the gauges of LobMetrics behind GET /metrics, and the status   *)
(* map behind GET /status (traits/mod.rs, update_* of the three ws.rs).    *)
(*                                                                         *)
(* A client sets gauges one at a time, and a request reads them one at a   *)
(* time in another thread, in the order its hash maps have.  The status    *)
(* map is under one lock: each write to it, and each answer from it, is    *)
(* one step.  Which book a message leads to is the subject of BitstampFeed *)
(* and StreamFeed: here it is any of Books.                                *)
(*                                                                         *)
(* Option<f64>, and a gauge that may not exist yet, are sets of at most    *)
(* one number.  Clocks (lob_last_update_timestamp, ts) and the rate that   *)
(* /metrics does not report (trades_per_second) are left out.              *)
(***************************************************************************)
EXTENDS LobFilter, Functions

CONSTANTS Clients,      \* the tasks main has spawned
          Keyings,      \* what each client may publish under: gauge labels, status key
          Exchange,     \* Exchange[k]: "okx", "kraken" or "bitstamp"
          Books,        \* the books messages may lead to
          TradePrices,  \* the prices trades may have; 0 if read with unwrap_or(0.0)
          Label,        \* Label[p]: p printed with two decimals, as a number
          GatherOrders, \* orders in which a request may come to the gauges
          MaxMessages,  \* bound: messages handled
          MaxRequests   \* bound: requests begun

ASSUME MetricsAssumption ==
  /\ IsFiniteSet(Clients)
  /\ \A k \in Keyings : \A c \in Clients : Exchange[k[c]] \in {"okx", "kraken", "bitstamp"}
  /\ Books \subseteq Book
  /\ TradePrices \subseteq Nat
  /\ Label \in [Prices -> Nat]
  /\ MaxMessages \in Nat /\ MaxRequests \in Nat

VARIABLES
  key,      \* key[c]: exchange and cli_instrument of c
  up,       \* up[c]: c reads messages
  todo,     \* what c has still to write for the message it handles
  gauge,    \* gauge[k][g]: the registry
  status,   \* status_handle
  request,  \* the GET /metrics under way: what it has read of one key
  log,      \* history: the books c published or is publishing
  opened,   \* history: how long log[c] was when this connection began
  traded,   \* history: price of the last trade of this connection
  counted,  \* history: trade messages received under each key; at OKX, messages
            \* whose first data element reads as a trade
  handled   \* messages handled, for MaxMessages

vars == <<key, up, todo, gauge, status, request, log, opened, traded, counted, handled>>

Keys == UNION {{k[c] : c \in Clients} : k \in Keyings}

\* The clients that publish under k.
Owners(k) == {c \in Clients : key[c] = k}

-----------------------------------------------------------------------------
Gauge(what, side, at) == [what |-> what, side |-> side, at |-> at]
BestOf(s)     == Gauge("best", s, 0)              \* lob_best_bid, lob_best_ask
SpreadGauge   == Gauge("spread", "ask", 0)        \* lob_spread
TradesGauge   == Gauge("trades", "ask", 0)        \* trades_total
DepthAt(s, p) == Gauge("depth", s, Label[p])      \* lob_depth_bid, lob_depth_ask

BookGauges == {BestOf(s) : s \in Sides} \cup {SpreadGauge}
                \cup {DepthAt(s, p) : s \in Sides, p \in Prices}
Gauges     == BookGauges \cup {TradesGauge}

\* gather() comes to every gauge.
ASSUME GatherAssumption == \A o \in GatherOrders : o \in Seq(Gauges) /\ Range(o) = Gauges

\* spread(): best ask minus best bid, if there are both.
Spread(bk) == {a - b : a \in Best("ask", bk["ask"]), b \in Best("bid", bk["bid"])}

\* total_bid_size(), total_ask_size().
Totals(bk) == [s \in Sides |-> SumFunction(bk[s])]

\* The levels of a side in the order of its BTreeMap, best first.
Ladder(s, lv) ==
  [i \in 1..Cardinality(Listed(lv)) |->
     CHOOSE p \in Listed(lv) : Rank(s, lv, p) = i - 1]

-----------------------------------------------------------------------------
(***************************************************************************)
(* What handling a message writes, in order.                               *)
(***************************************************************************)
Write(op, at, value) == [op |-> op, at |-> at, value |-> value]

IfAny(op, at, values) ==
  IF values = {} THEN <<>> ELSE <<Write(op, at, CHOOSE v \in values : TRUE)>>

\* Mutant: the ladder from its far end.
DepthWritesFarFirst(s, lv) ==
  LET L == Ladder(s, lv)
      At(i) == L[Len(L) + 1 - i]
  IN  [i \in DOMAIN L |-> Write("set", DepthAt(s, At(i)), lv[At(i)])]

\* update_depth_metrics: one gauge per level, and none for a level that is gone.
DepthWrites(s, lv) ==
  [i \in DOMAIN Ladder(s, lv) |->
     Write("set", DepthAt(s, Ladder(s, lv)[i]), lv[Ladder(s, lv)[i]])]

\* persist_message of OKX and Bitstamp, when the trade is stored: the last price is
\* set again, and to 0 if it cannot be read.
StoredWrites(px) ==
  <<Write("price", TradesGauge, IF px = {} THEN 0 ELSE CHOOSE p \in px : TRUE)>>

\* Mutant: a trade is counted only if its price can be read.
TradeWritesPriced(k, read, px, stored) ==
  (IF px = {} THEN <<>> ELSE <<Write("inc", TradesGauge, 1)>>)
    \o IfAny("price", TradesGauge, px) \o (IF stored THEN StoredWrites(px) ELSE <<>>)

\* Mutant: the spread is left as it was.
BookWritesNoSpread(bk) ==
  IfAny("set", BestOf("bid"), Best("bid", bk["bid"]))
    \o IfAny("set", BestOf("ask"), Best("ask", bk["ask"]))
    \o <<Write("sizes", SpreadGauge, 0)>>
    \o DepthWrites("bid", bk["bid"]) \o DepthWrites("ask", bk["ask"])

\* update_lob_metrics, then update_depth_metrics.
BookWrites(bk) ==
  IfAny("set", BestOf("bid"), Best("bid", bk["bid"]))
    \o IfAny("set", BestOf("ask"), Best("ask", bk["ask"]))
    \o IfAny("set", SpreadGauge, Spread(bk))
    \o <<Write("sizes", SpreadGauge, 0)>>
    \o DepthWrites("bid", bk["bid"]) \o DepthWrites("ask", bk["ask"])

\* Which messages the exchange of k has counted: every trade message, at OKX those
\* whose first data element reads as a trade.
Counts(k, read) == read \/ Exchange[k] # "okx"

\* trades_total.inc(), then update_last_price if the price can be read.
TradeWrites(k, read, px, stored) ==
  (IF Counts(k, read) THEN <<Write("inc", TradesGauge, 1)>> ELSE <<>>)
    \o IfAny("price", TradesGauge, px) \o (IF stored THEN StoredWrites(px) ELSE <<>>)

\* A price that cannot be read, or one.
Options == {{}} \cup {{p} : p \in TradePrices}

-----------------------------------------------------------------------------
NoGauges == [g \in Gauges |-> {}]

\* The entry update_status_active puts in place, whatever was there before (and
\* main's first one); its active and detail fields are in ClientLoop.
FreshEntry == [last |-> {}, size |-> [s \in Sides |-> 0]]

NoRequest == [of |-> CHOOSE k \in Keys : TRUE, left |-> <<>>, seen |-> NoGauges,
              since |-> [c \in Clients |-> 0], begun |-> 0]

Init ==
  /\ key \in Keyings
  /\ up = [c \in Clients |-> FALSE]
  /\ todo = [c \in Clients |-> <<>>]
  /\ gauge = [k \in Keys |-> NoGauges]
  /\ status = [k \in Keys |-> FreshEntry]
  /\ request = NoRequest
  /\ log = [c \in Clients |-> <<>>]
  /\ opened = [c \in Clients |-> 0]
  /\ traded = [c \in Clients |-> {}]
  /\ counted = [k \in Keys |-> 0]
  /\ handled = 0

\* Mutant: an entry that is there only has its flag changed.
ReportKeeping(c) ==
  /\ opened' = [opened EXCEPT ![c] = Len(log[c])]
  /\ traded' = [traded EXCEPT ![c] = {}]
  /\ UNCHANGED <<key, todo, gauge, status, request, log, counted, handled>>

\* update_status_active on an accepted connection and again once subscribed,
\* on a failed connect (Kraken, Bitstamp), and on the end of a connection.
Report(c) ==
  /\ status' = [status EXCEPT ![key[c]] = FreshEntry]
  /\ opened' = [opened EXCEPT ![c] = Len(log[c])]
  /\ traded' = [traded EXCEPT ![c] = {}]
  /\ UNCHANGED <<key, todo, gauge, request, log, counted, handled>>

Connect(c) == ~up[c] /\ up' = [up EXCEPT ![c] = TRUE] /\ Report(c)

ConnectFailed(c) == ~up[c] /\ Report(c) /\ UNCHANGED up

Disconnect(c) ==
  up[c] /\ todo[c] = <<>> /\ up' = [up EXCEPT ![c] = FALSE] /\ Report(c)

\* The next message; the previous one is dealt with.
Receive(c) ==
  /\ up[c] /\ todo[c] = <<>>
  /\ handled < MaxMessages /\ handled' = handled + 1
  /\ UNCHANGED <<key, up, gauge, status, request, opened>>

\* A book message leads to the book bk.
Publish(c, bk) ==
  /\ Receive(c)
  /\ log' = [log EXCEPT ![c] = Append(@, bk)]
  /\ todo' = [todo EXCEPT ![c] = BookWrites(bk)]
  /\ UNCHANGED <<traded, counted>>

\* A trade message: whether its first data element reads as a trade, the price
\* px, if that can be read, and whether it is stored before the next message is
\* read.  A trade without a price is stored only by OKX, and Kraken sets no price
\* when it stores one.  OKX takes the same path for events and for messages it
\* does not know, which it never stores.
Trade(c, read, px, stored) ==
  /\ px # {} => read
  /\ stored => /\ read
               /\ \/ Exchange[key[c]] = "okx"
                  \/ Exchange[key[c]] = "bitstamp" /\ px # {}
  /\ Receive(c)
  /\ todo' = [todo EXCEPT ![c] = TradeWrites(key[c], read, px, stored)]
  /\ traded' = [traded EXCEPT ![c] = IF px = {} THEN @ ELSE px]
  /\ counted' = [counted EXCEPT ![key[c]] =
                   IF read \/ Exchange[key[c]] \in {"kraken", "bitstamp"} THEN @ + 1 ELSE @]
  /\ UNCHANGED log

-----------------------------------------------------------------------------
(***************************************************************************)
(* The writes, each atomic.                                                *)
(***************************************************************************)
NextWrite(c, op) ==
  /\ todo[c] # <<>> /\ Head(todo[c]).op = op
  /\ todo' = [todo EXCEPT ![c] = Tail(@)]
  /\ UNCHANGED <<key, up, request, log, opened, traded, counted, handled>>

\* Mutant: a second sample beside the first.
SetGaugeAdding(c) ==
  /\ NextWrite(c, "set")
  /\ gauge' = [gauge EXCEPT ![key[c]][Head(todo[c]).at] = @ \cup {Head(todo[c]).value}]
  /\ UNCHANGED status

\* with_label_values(..).set(..)
SetGauge(c) ==
  /\ NextWrite(c, "set")
  /\ gauge' = [gauge EXCEPT ![key[c]][Head(todo[c]).at] = {Head(todo[c]).value}]
  /\ UNCHANGED status

\* with_label_values(..).inc()
CountTrade(c) ==
  /\ NextWrite(c, "inc")
  /\ gauge' = [gauge EXCEPT ![key[c]][TradesGauge] =
                 IF @ = {} THEN {1} ELSE {n + 1 : n \in @}]
  /\ UNCHANGED status

\* Mutant: only one of the sizes.
SetSizesOfBids(c) ==
  /\ NextWrite(c, "sizes")
  /\ status' = [status EXCEPT ![key[c]].size["bid"] =
                  Totals(log[c][Len(log[c])])["bid"]]
  /\ UNCHANGED gauge

\* The end of update_lob_metrics.
SetSizes(c) ==
  /\ NextWrite(c, "sizes")
  /\ status' = [status EXCEPT ![key[c]].size = Totals(log[c][Len(log[c])])]
  /\ UNCHANGED gauge

\* update_last_price, and the same in persist_message.
SetPrice(c) ==
  /\ NextWrite(c, "price")
  /\ status' = [status EXCEPT ![key[c]].last = {Head(todo[c]).value}]
  /\ UNCHANGED gauge

-----------------------------------------------------------------------------
(***************************************************************************)
(* GET /metrics, as far as one key of the answer is concerned.             *)
(***************************************************************************)
\* How many books c has published to the end.
Settled(c) ==
  IF \E i \in DOMAIN todo[c] : todo[c][i].op \in {"set", "sizes"}
    THEN Len(log[c]) - 1 ELSE Len(log[c])

Begin(k, order) ==
  /\ request.left = <<>> /\ request.begun < MaxRequests
  /\ request' = [of |-> k, left |-> order, seen |-> NoGauges,
                 since |-> [c \in Clients |-> Settled(c)],
                 begun |-> request.begun + 1]
  /\ UNCHANGED <<key, up, todo, gauge, status, log, opened, traded, counted, handled>>

\* gather() comes to the next gauge.
Gather ==
  /\ request.left # <<>>
  /\ request' = [request EXCEPT !.left = Tail(@),
                    !.seen[Head(request.left)] = gauge[request.of][Head(request.left)]]
  /\ UNCHANGED <<key, up, todo, gauge, status, log, opened, traded, counted, handled>>

Next ==
  \/ \E c \in Clients :
       \/ Connect(c) \/ ConnectFailed(c) \/ Disconnect(c)
       \/ \E bk \in Books : Publish(c, bk)
       \/ \E read, stored \in BOOLEAN, px \in Options : Trade(c, read, px, stored)
       \/ SetGauge(c) \/ CountTrade(c) \/ SetSizes(c) \/ SetPrice(c)
  \/ \E k \in Keys, order \in GatherOrders : Begin(k, order)
  \/ Gather

Spec == Init /\ [][Next]_vars

-----------------------------------------------------------------------------
\* At most one value per gauge.
IsRegistry(r) ==
  r \in [Gauges -> SUBSET Int] /\ \A g \in Gauges : \A m, n \in r[g] : m = n

Writes == [op : {"set"}, at : BookGauges, value : Int]
            \cup [op : {"inc", "sizes"}, at : Gauges, value : Nat]
            \cup [op : {"price"}, at : Gauges, value : TradePrices \cup {0}]

\* Every variable has its type.
TypeOK ==
  /\ key \in Keyings
  /\ up \in [Clients -> BOOLEAN]
  /\ todo \in [Clients -> Seq(Writes)]
  /\ DOMAIN gauge = Keys /\ \A k \in Keys : IsRegistry(gauge[k])
  /\ status \in [Keys -> [last : Options \cup {{0}}, size : [Sides -> Nat]]]
  /\ DOMAIN request = {"of", "left", "seen", "since", "begun"}
  /\ request.begun > 0 => request.of \in Keys
  /\ request.left # <<>> => request.begun > 0
  /\ request.left \in Seq(Gauges) /\ IsRegistry(request.seen)
  /\ request.since \in [Clients -> Nat] /\ request.begun \in 0..MaxRequests
  /\ log \in [Clients -> Seq(Books)] /\ opened \in [Clients -> Nat]
  /\ \A c \in Clients : opened[c] <= Len(log[c])
  /\ traded \in [Clients -> Options]
  /\ counted \in [Keys -> Nat] /\ handled \in 0..MaxMessages

\* c publishes under a key of its own.
Alone(c) == Owners(key[c]) = {c}

\* The prices of a book that gauge g of a level stands for: those that print alike.
Alike(bk, g) == {p \in Listed(bk[g.side]) : g.what = "depth" /\ Label[p] = g.at}

\* What gauge g says of a book: of prices that print alike, the size of the one
\* furthest from the market.
InBook(bk, g) ==
  CASE g.what = "best"   -> Best(g.side, bk[g.side])
    [] g.what = "spread" -> Spread(bk)
    [] g.what = "depth"  ->
         {bk[g.side][p] : p \in {q \in Alike(bk, g) :
                                   \A r \in Alike(bk, g) : ~Better(g.side, q, r)}}

\* What g says after the books l[1..n]: what the last of them that has it says.
Shown(l, n, g) ==
  UNION {InBook(l[i], g) : i \in {j \in 1..n : InBook(l[j], g) # {}
                                     /\ \A h \in (j + 1)..n : InBook(l[h], g) = {}}}

\* What g may say from when l[1..n] were published to the end: what it says
\* after one of the books since, or, in passing, the size of a level of theirs
\* that prints alike.
ShownSince(l, n, g) ==
  {Shown(l, i, g) : i \in n..Len(l)}
    \cup UNION {{{l[i][g.side][p]} : p \in Alike(l[i], g)} : i \in (n + 1)..Len(l)}

\* The gauges of a client alone under its key follow its books, over any
\* number of books, trades and reconnects: between messages each says what the
\* last book that has it says, during a message that or what the next one says.
GaugesFollow ==
  \A c \in Clients : Alone(c) =>
    \A g \in BookGauges : gauge[key[c]][g] \in ShownSince(log[c], Settled(c), g)

\* An answer of /metrics may mix books, but no value in it is older than the
\* last book published to the end when the request began.
AnswerRecent ==
  \A c \in Clients : (Alone(c) /\ request.of = key[c] /\ request.begun > 0) =>
    \A g \in BookGauges \ Range(request.left) :
      request.seen[g] \in ShownSince(log[c], request.since[c], g)

\* Whatever can be read of a trade message, and whether or not it is stored, it is
\* counted once, also when two clients count under one key: the counter and the
\* increments still to come are the messages received, at Kraken and Bitstamp all
\* trade messages, at OKX those that carry a trade.  A last price is in /status
\* only once the trade it is of, or one before, is in /metrics.
TradesCounted ==
  \A k \in Keys :
    LET due == {c \in Owners(k) : \E i \in DOMAIN todo[c] : todo[c][i].op = "inc"}
    IN  /\ (IF gauge[k][TradesGauge] = {} THEN 0
            ELSE CHOOSE n \in gauge[k][TradesGauge] : TRUE) + Cardinality(due) = counted[k]
        /\ status[k].last # {} => gauge[k][TradesGauge] # {}

\* The sizes in /status are those of one book, never the bids of one and the
\* asks of another, whoever writes and reports under the key; those of a client
\* alone under its key, and its last price, are of its current connection (or, at
\* OKX, 0 for a price that was stored and could not be read).
StatusTruth ==
  /\ \A k \in Keys :
       \/ status[k].size = FreshEntry.size
       \/ \E c \in Owners(k) : \E i \in DOMAIN log[c] : status[k].size = Totals(log[c][i])
  /\ \A c \in Clients : (Alone(c) /\ todo[c] = <<>>) =>
       /\ \/ status[key[c]].last = traded[c]
          \/ Exchange[key[c]] = "okx" /\ status[key[c]].last = {0}
       /\ status[key[c]].size = IF Len(log[c]) > opened[c]
                                  THEN Totals(log[c][Len(log[c])]) ELSE FreshEntry.size
-----------------------------------------------------------------------------
(***************************************************************************)
(* The inductive invariant behind these: what a client has still to write  *)
(* leads from what can be seen to what its messages say.                   *)
(***************************************************************************)
Due(c, op) == {i \in DOMAIN todo[c] : todo[c][i].op = op}

\* One message at a time, while connected; a trade is counted first.
TodoShape ==
  \A c \in Clients :
    /\ todo[c] # <<>> => up[c]
    /\ Due(c, "inc") \subseteq {1}
    /\ Due(c, "set") \cup Due(c, "sizes") # {} => Len(log[c]) > opened[c]

\* A trade that sets a price was counted, or is before that.
CountedFirst ==
  \A c \in Clients :
    Due(c, "price") # {} => Due(c, "inc") # {} \/ gauge[key[c]][TradesGauge] # {}

\* After the writes of sizes and prices /status tells of this connection.
StatusLeads ==
  \A c \in Clients : Alone(c) =>
    /\ Due(c, "sizes") = {} =>
         status[key[c]].size = IF Len(log[c]) > opened[c]
                                 THEN Totals(log[c][Len(log[c])]) ELSE FreshEntry.size
    /\ Due(c, "price") = {} =>
         \/ status[key[c]].last = traded[c]
         \/ Exchange[key[c]] = "okx" /\ status[key[c]].last = {0}
    /\ \A i \in Due(c, "price") :
         \/ {todo[c][i].value} = traded[c]
         \/ Exchange[key[c]] = "okx" /\ todo[c][i].value = 0

Pending(c, g) == {i \in Due(c, "set") : todo[c][i].at = g}

\* The last write of a gauge brings it to what the books say.
GaugesLead ==
  \A c \in Clients : Alone(c) =>
    \A g \in BookGauges :
      /\ Pending(c, g) = {} => gauge[key[c]][g] = Shown(log[c], Len(log[c]), g)
      /\ \A i \in Pending(c, g) :
           /\ {todo[c][i].value} \in ShownSince(log[c], Len(log[c]) - 1, g)
           /\ (\A j \in Pending(c, g) : j <= i) =>
                {todo[c][i].value} = Shown(log[c], Len(log[c]), g)

\* A request began in the past.
BegunBefore == \A c \in Clients : request.since[c] <= Settled(c)

GInv ==
  /\ TypeOK /\ TodoShape /\ TradesCounted /\ CountedFirst /\ StatusTruth /\ StatusLeads
  /\ GaugesFollow /\ GaugesLead /\ BegunBefore /\ AnswerRecent
=============================================================================
