---------------------------- MODULE BitstampBook ----------------------------
(***************************************************************************)
(* OrderBook of bitstamp/lob.rs on the path the client runs: the REST      *)
(* snapshot and the diff_order_book messages, both through the pre-filter. *)
(* (Orders of the live_orders channel are not subscribed by the client.)   *)
(***************************************************************************)
EXTENDS LobFilter

CONSTANTS LevelFilter,    \* the LobFilter the command line selected
          SnapshotDepth   \* --snapshot-depth

ASSUME FilterAssumption == LevelFilter \in Filter /\ SnapshotDepth \in Nat

\* filter_snapshot counts the levels it keeps and compares with the best one
\* of the listing.  The REST endpoint lists the best level first, so what is
\* kept is a prefix and the count at p is Rank.
FilterSnapshot(side, lv) ==
  [p \in Prices |->
     IF lv[p] # 0 /\ ShouldInclude(LevelFilter, side, Best(side, lv), p, lv[p],
                                   Rank(side, lv, p), FALSE)
     THEN lv[p] ELSE 0]

\* apply_snapshot: clear the side, insert the first snapshot_depth levels.
ApplySnapshot(side, lv) ==
  [p \in Prices |-> IF Rank(side, lv, p) < SnapshotDepth THEN lv[p] ELSE 0]

ProcessSnapshot(listing) ==
  [s \in Sides |-> ApplySnapshot(s, FilterSnapshot(s, listing[s]))]

\* Entries before position i whose price was not in the book: filter_diff adds
\* one to its running count for each of them it keeps.  (When it keeps fewer,
\* the count has reached the limit already and stays there.)
NewBefore(lv, l, i) == {j \in DOMAIN l : j < i /\ l[j].price \notin Listed(lv)}

\* Mutant: the count of levels is not advanced within the diff.
FilterDiffUncounted(side, lv, l) ==
  {i \in DOMAIN l :
     ShouldInclude(LevelFilter, side, Best(side, lv), l[i].price, l[i].amount,
                   Cardinality(Listed(lv)), l[i].price \in Listed(lv))}

\* filter_diff: best prices, presence and the initial count are those of the
\* book before the diff.
FilterDiff(side, lv, l) ==
  {i \in DOMAIN l :
     ShouldInclude(LevelFilter, side, Best(side, lv), l[i].price, l[i].amount,
                   Cardinality(Listed(lv)) + Cardinality(NewBefore(lv, l, i)),
                   l[i].price \in Listed(lv))}

\* Mutants: a diff's size is added to, or taken from, the size in the book.
ProcessDiffAdding(bk, d) ==
  [s \in Sides |-> [p \in Prices |->
     bk[s][p] + Upsert(EmptyLevels, d[s], FilterDiff(s, bk[s], d[s]))[p]]]

ProcessDiffSubtracting(bk, d) ==
  [s \in Sides |-> [p \in Prices |->
     bk[s][p] - Upsert(EmptyLevels, d[s], FilterDiff(s, bk[s], d[s]))[p]]]

\* apply_diff of what filter_diff kept; d gives the entry list of each side.
ProcessDiff(bk, d) ==
  [s \in Sides |-> Upsert(bk[s], d[s], FilterDiff(s, bk[s], d[s]))]

-----------------------------------------------------------------------------
(***************************************************************************)
(* What a filter and a depth amount to.                                    *)
(***************************************************************************)
\* Every level of every message passes the filter.
AdmitsAll ==
  /\ LevelFilter.kind = "MaxLevelPct"
  /\ \A s \in Sides : \A p, q \in Prices : WithinPct(s, LevelFilter.n, q, p)

\* And every level of a snapshot is within its depth.
KeepsAll == AdmitsAll /\ Cardinality(Prices) <= SnapshotDepth

\* Every change of a level already in the book passes the filter.
KeepsUpdates == LevelFilter.kind = "MaxLevel" \/ AdmitsAll
=============================================================================
