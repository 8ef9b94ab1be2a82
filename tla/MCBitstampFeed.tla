--------------------------- MODULE MCBitstampFeed ---------------------------
(***************************************************************************)
(* Small instances of BitstampFeed.  Three prices, 100, 104 and 110: a     *)
(* window of 5 percent below the best bid 110 leaves 104 and 100 out, one  *)
(* below 104 keeps 100.                                                    *)
(***************************************************************************)
EXTENDS BitstampFeed

MCPrices == {100, 104, 110}

Lv(p, a)   == [price |-> p, amount |-> a]
Bids(l)    == [s \in Sides |-> IF s = "bid" THEN l ELSE <<>>]
Asks(l)    == [s \in Sides |-> IF s = "ask" THEN l ELSE <<>>]
Both(b, a) == [s \in Sides |-> IF s = "bid" THEN b ELSE a]

\* Growing and shrinking, a size change, and one diff that replaces the best
\* bid and opens the other side.
MCDiffs == {
  Bids(<<Lv(100, 1)>>),
  Bids(<<Lv(110, 1), Lv(104, 1), Lv(100, 2)>>),
  Bids(<<Lv(110, 0)>>),
  Both(<<Lv(104, 0)>>, <<Lv(110, 1)>>) }

\* The same for one side of a book kept at few levels: enough new levels in
\* one diff to pass the limit, removals of unknown prices before them.
MCDeepDiffs == {
  Bids(<<Lv(110, 1), Lv(104, 1), Lv(100, 1)>>),
  Bids(<<Lv(110, 0), Lv(104, 2)>>),
  Bids(<<Lv(100, 2)>>),
  Asks(<<Lv(110, 1), Lv(104, 1)>>),
  Asks(<<Lv(104, 0), Lv(110, 3), Lv(100, 1)>>) }

WidePct  == [kind |-> "MaxLevelPct", n |-> 100]
FivePct  == [kind |-> "MaxLevelPct", n |-> 5]
TwoLevels == [kind |-> "MaxLevel", n |-> 2]
=============================================================================
