----------------------------- MODULE LobFilter -----------------------------
(***************************************************************************)
(* The level-2 book as every exchange client keeps it, and the pre-filter  *)
(* that decides which levels enter it (traits/mod.rs).                     *)
(*                                                                         *)
(* A side of a book is a function from prices to sizes in which 0 stands   *)
(* for "no such level": the code never stores a level of size 0 (a zero    *)
(* size removes the key), so the map of the code and this function carry   *)
(* the same information.  Option<f64> is a set of at most one price.       *)
(* Prices and sizes are naturals; the percentage window is compared by     *)
(* cross multiplication, without the rounding of f64.                      *)
(***************************************************************************)
EXTENDS Naturals, Sequences, FiniteSets

CONSTANT Prices   \* the prices a level can have

ASSUME PricesAssumption == Prices \subseteq Nat /\ IsFiniteSet(Prices)

Sides == {"bid", "ask"}

Levels == [Prices -> Nat]
Book   == [Sides -> Levels]

\* One [price, amount] pair of a message.
Entry == [price : Prices, amount : Nat]

EmptyLevels == [p \in Prices |-> 0]
EmptyBook   == [s \in Sides |-> EmptyLevels]

\* The levels present on a side.
Listed(lv) == {p \in Prices : lv[p] # 0}

\* p is closer to the market than q.
Better(side, p, q) == IF side = "bid" THEN p > q ELSE p < q

\* best_bid() / best_ask(): the first key of the side's BTreeMap, if any.
Best(side, lv) == {p \in Listed(lv) : \A q \in Listed(lv) : ~Better(side, q, p)}

\* How many levels of lv are closer to the market than p: the position of p in
\* lv sorted best level first.
Rank(side, lv, p) == Cardinality({q \in Listed(lv) : Better(side, q, p)})

(***************************************************************************)
(* The filters: MaxLevelPct keeps what is within n percent of the best     *)
(* price of its own side, MaxLevel keeps n levels per side.                *)
(***************************************************************************)
Filter == [kind : {"MaxLevelPct", "MaxLevel"}, n : Nat]

\* price >= best * (1 - pct/100), price <= best * (1 + pct/100).  The first
\* product is moved across so that every term stays a natural number.
WithinPct(side, n, best, price) ==
  IF side = "bid" THEN price * 100 + best * n >= best * 100
                  ELSE price * 100 <= best * (100 + n)

\* Mutants: MaxLevel that does not look whether the level exists, and one that
\* admits a level too many.
ShouldIncludeNewOnly(f, side, best, price, amount, count, exists) ==
  \/ amount = 0
  \/ f.kind = "MaxLevelPct" /\ \A b \in best : WithinPct(side, f.n, b, price)
  \/ f.kind = "MaxLevel" /\ count < f.n

ShouldIncludeOneMore(f, side, best, price, amount, count, exists) ==
  \/ amount = 0
  \/ f.kind = "MaxLevelPct" /\ \A b \in best : WithinPct(side, f.n, b, price)
  \/ f.kind = "MaxLevel" /\ (exists \/ count <= f.n)

\* should_include.
ShouldInclude(f, side, best, price, amount, count, exists) ==
  \/ amount = 0
  \/ /\ f.kind = "MaxLevelPct"
     /\ \A b \in best : WithinPct(side, f.n, b, price)
  \/ /\ f.kind = "MaxLevel"
     /\ exists \/ count < f.n

\* A batch that lists a price at most once.
DistinctPrices(l) == \A i, j \in DOMAIN l : l[i].price = l[j].price => i = j

(***************************************************************************)
(* Applying a batch: the entries of l at the positions K, in order.  A     *)
(* later entry for the same price overwrites an earlier one, and a size of *)
(* 0 removes the level.                                                    *)
(***************************************************************************)
Touches(l, K, p) == \E i \in K : l[i].price = p

LastAt(l, K, p) ==
  CHOOSE i \in K : /\ l[i].price = p
                   /\ \A j \in K : l[j].price = p => j <= i

Upsert(lv, l, K) ==
  [p \in Prices |-> IF Touches(l, K, p) THEN l[LastAt(l, K, p)].amount
                                        ELSE lv[p]]
=============================================================================
