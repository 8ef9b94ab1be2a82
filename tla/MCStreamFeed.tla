---------------------------- MODULE MCStreamFeed ----------------------------
(***************************************************************************)
(* Small instances of StreamFeed, with the prices and diffs of             *)
(* MCBitstampFeed's kind: a side that grows, shrinks, changes a size and   *)
(* becomes empty.                                                          *)
(***************************************************************************)
EXTENDS StreamFeed

MCPrices == {100, 104, 110}

Lv(p, a)   == [price |-> p, amount |-> a]
Bids(l)    == [s \in Sides |-> IF s = "bid" THEN l ELSE <<>>]
Both(b, a) == [s \in Sides |-> IF s = "bid" THEN b ELSE a]

MCDiffs == {
  Bids(<<Lv(100, 1)>>),
  Bids(<<Lv(110, 1), Lv(104, 1), Lv(100, 2)>>),
  Bids(<<Lv(110, 0), Lv(104, 0)>>),
  Bids(<<Lv(100, 0)>>),
  Both(<<Lv(104, 3)>>, <<Lv(104, 0), Lv(110, 1)>>) }

WidePct   == [kind |-> "MaxLevelPct", n |-> 100]
NoLevel   == [kind |-> "MaxLevel", n |-> 0]
OneLevel  == [kind |-> "MaxLevel", n |-> 1]
TwoLevels == [kind |-> "MaxLevel", n |-> 2]
AnyFilter == {WidePct, NoLevel, OneLevel, TwoLevels}
=============================================================================
