----------------------------- MODULE StreamBook -----------------------------
(***************************************************************************)
(* OrderBook of okx/lob.rs and kraken/lob.rs, the same algorithm twice:    *)
(* snapshot and update messages of one channel, each through the           *)
(* pre-filter.  A snapshot message is given by the side it lists (levels   *)
(* of size 0 are not listed), an update by its entries; f is the LobFilter *)
(* the command line selected.                                              *)
(***************************************************************************)
EXTENDS LobFilter

\* filter_snapshot_levels: compared with the best level of the message itself;
\* MaxLevel sorts and truncates.
Kept(f, side, lv, p) ==
  IF f.kind = "MaxLevel"
  THEN Rank(side, lv, p) < f.n
  ELSE ShouldInclude(f, side, Best(side, lv), p, lv[p], 0, FALSE)

FilterSnapshot(f, side, lv) ==
  [p \in Prices |-> IF lv[p] # 0 /\ Kept(f, side, lv, p) THEN lv[p] ELSE 0]

\* Mutant: the filter loses removals.
FilterUpdateNoRemovals(f, side, lv, l) ==
  {i \in DOMAIN l :
     /\ l[i].amount # 0
     /\ ShouldInclude(f, side, Best(side, lv), l[i].price, l[i].amount,
                      Cardinality(Listed(lv)), l[i].price \in Listed(lv))}

\* filter_levels: every entry is compared with the book before the message, its
\* number of levels included.
FilterUpdate(f, side, lv, l) ==
  {i \in DOMAIN l :
     ShouldInclude(f, side, Best(side, lv), l[i].price, l[i].amount,
                   Cardinality(Listed(lv)), l[i].price \in Listed(lv))}

\* Mutant: the side is not cleared.
ProcessSnapshotMerging(f, bk, listing) ==
  [s \in Sides |->
     LET kept == FilterSnapshot(f, s, listing[s])
     IN  [p \in Prices |-> IF kept[p] # 0 THEN kept[p] ELSE bk[s][p]]]

\* process_msg of a snapshot: apply_snapshot clears a side and inserts what was
\* kept; a side the message lists nothing for is left alone.
ProcessSnapshot(f, bk, listing) ==
  [s \in Sides |->
     LET kept == FilterSnapshot(f, s, listing[s])
     IN  IF Listed(kept) = {} THEN bk[s] ELSE kept]

\* Mutant: an update's size is taken from the size in the book.
ProcessUpdateSubtracting(f, bk, d) ==
  [s \in Sides |-> [p \in Prices |->
     bk[s][p] - Upsert(EmptyLevels, d[s], FilterUpdate(f, s, bk[s], d[s]))[p]]]

\* process_msg of an update: apply_update of what filter_levels kept.
ProcessUpdate(f, bk, d) ==
  [s \in Sides |-> Upsert(bk[s], d[s], FilterUpdate(f, s, bk[s], d[s]))]

-----------------------------------------------------------------------------
\* Every level of every message passes the filter.
AdmitsAll(f) ==
  /\ f.kind = "MaxLevelPct"
  /\ \A s \in Sides : \A p, q \in Prices : WithinPct(s, f.n, q, p)

\* Every change of a level already in the book passes the filter.
KeepsUpdates(f) == f.kind = "MaxLevel" \/ AdmitsAll(f)
=============================================================================
