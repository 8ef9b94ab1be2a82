----------------------------- MODULE MCMetrics -----------------------------
(***************************************************************************)
(* Small instances of Metrics: two clients that publish under keys of      *)
(* their own or, when the same pair is listed twice, under one key.        *)
(* Prices are in thousandths: 100 and 104 print alike (0.10), 110 does not.*)
(***************************************************************************)
EXTENDS Metrics

CONSTANTS a, b

MCPrices  == {100, 104, 110}
MCClients == {a, b}
MCLabel   == [p \in MCPrices |-> (p + 5) \div 10]

MCKeyings == {[c \in MCClients |-> c], [c \in MCClients |-> a]}

MCExchange == [k \in MCClients |-> IF k = a THEN "okx" ELSE "bitstamp"]

Side(p, n, q, m) == [x \in MCPrices |-> IF x = p THEN n ELSE IF x = q THEN m ELSE 0]

\* Two bids that print alike below an ask, a book without bids, and one that
\* lost its ask.
MCBooks == {
  [s \in Sides |-> IF s = "bid" THEN Side(100, 1, 104, 2) ELSE Side(110, 1, 110, 1)],
  [s \in Sides |-> IF s = "bid" THEN EmptyLevels ELSE Side(104, 3, 110, 4)],
  [s \in Sides |-> IF s = "bid" THEN Side(104, 2, 110, 5) ELSE EmptyLevels] }

\* By kind and side, and backwards.
MCOrder == <<BestOf("ask"), BestOf("bid"), DepthAt("ask", 100), DepthAt("ask", 110),
             DepthAt("bid", 110), DepthAt("bid", 100), SpreadGauge, TradesGauge>>
MCOrders == {MCOrder, [i \in 1..8 |-> MCOrder[9 - i]]}
=============================================================================
