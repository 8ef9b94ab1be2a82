-------------------------- MODULE LobFilterProofs --------------------------
(***************************************************************************)
(* Facts about the operators of LobFilter that the order books of every    *)
(* exchange rest on, for every set of prices, every batch and every limit. *)
(***************************************************************************)
EXTENDS LobFilter, SequenceTheorems, FunctionTheorems, FiniteSetTheorems, TLAPS

\* The first message of a queue and what is left behind it.
LEMMA ReadOne ==
  ASSUME NEW S, NEW q \in Seq(S), q # <<>>
  PROVE  /\ Head(q) = q[1] /\ Head(q) \in S
         /\ Tail(q) \in Seq(S)
         /\ 1 \in DOMAIN q
         /\ Len(q) \in Nat /\ Len(q) > 0
         /\ Len(Tail(q)) = Len(q) - 1
         /\ DOMAIN q = 1..Len(q) /\ DOMAIN Tail(q) = 1..(Len(q) - 1)
         /\ \A i \in DOMAIN Tail(q) : i + 1 \in DOMAIN q /\ Tail(q)[i] = q[i + 1]
         /\ Tail(q) = <<>> <=> Len(q) = 1
<1>1. /\ Head(q) = q[1] /\ Head(q) \in S
      /\ Tail(q) \in Seq(S)
      /\ Len(q) \in Nat /\ Len(q) > 0 /\ Len(Tail(q)) = Len(q) - 1
      /\ DOMAIN q = 1..Len(q)
  BY HeadTailProperties, LenProperties, EmptySeq
<1>2. DOMAIN Tail(q) = 1..(Len(q) - 1)
  BY <1>1, LenProperties
<1>3. ASSUME NEW i \in DOMAIN Tail(q)
      PROVE  i + 1 \in DOMAIN q /\ Tail(q)[i] = q[i + 1]
  BY <1>1, <1>2, HeadTailProperties
<1>4. Tail(q) = <<>> <=> Len(q) = 1
  <2>1. \A t \in Seq(S) : t = <<>> <=> Len(t) = 0
    BY EmptySeq
  <2>. QED
    BY <1>1, <2>1
<1>. QED
  BY <1>1, <1>2, <1>3, <1>4

-----------------------------------------------------------------------------
\* In such a batch, the last kept entry for a price is its only one.
LEMMA LastAtUnique ==
  ASSUME NEW l \in Seq(Entry), DistinctPrices(l),
         NEW K \in SUBSET DOMAIN l, NEW p, NEW i \in K, l[i].price = p
  PROVE  LastAt(l, K, p) = i
<1>1. i \in Nat
  BY DOMAIN l = 1..Len(l), LenProperties
<1>2. \A j \in K : l[j].price = p => j = i
  BY DEF DistinctPrices
<1>3. /\ l[i].price = p
      /\ \A j \in K : l[j].price = p => j <= i
  BY <1>1, <1>2
<1>4. \A k \in K : (l[k].price = p /\ \A j \in K : l[j].price = p => j <= k) => k = i
  BY <1>2
<1>. QED
  BY <1>3, <1>4 DEF LastAt

\* Entries of a batch have a price in Prices and a natural size.
LEMMA EntryType ==
  ASSUME NEW l \in Seq(Entry), NEW i \in DOMAIN l
  PROVE  l[i].price \in Prices /\ l[i].amount \in Nat
<1>1. l[i] \in Entry
  BY ElementOfSeq, LenProperties
<1>. QED
  BY <1>1 DEF Entry

\* What Upsert does to one price: the entry decides, or nothing changes.
LEMMA UpsertAt ==
  ASSUME NEW lv \in Levels, NEW l \in Seq(Entry), DistinctPrices(l),
         NEW K \in SUBSET DOMAIN l, NEW p \in Prices
  PROVE  /\ \A i \in K : l[i].price = p => Upsert(lv, l, K)[p] = l[i].amount
         /\ ~Touches(l, K, p) => Upsert(lv, l, K)[p] = lv[p]
<1>1. ASSUME NEW i \in K, l[i].price = p
      PROVE  Upsert(lv, l, K)[p] = l[i].amount
  <2>1. LastAt(l, K, p) = i
    BY <1>1, LastAtUnique
  <2>2. Touches(l, K, p)
    BY <1>1 DEF Touches
  <2>. QED
    BY <2>1, <2>2 DEF Upsert
<1>2. ~Touches(l, K, p) => Upsert(lv, l, K)[p] = lv[p]
  BY DEF Upsert
<1>. QED
  BY <1>1, <1>2

\* Applying any part of a batch to a side gives a side.
LEMMA UpsertType ==
  ASSUME NEW lv \in Levels, NEW l \in Seq(Entry), DistinctPrices(l),
         NEW K \in SUBSET DOMAIN l
  PROVE  Upsert(lv, l, K) \in Levels
<1>1. ASSUME NEW p \in Prices
      PROVE  Upsert(lv, l, K)[p] \in Nat
  <2>1. CASE Touches(l, K, p)
    <3>1. PICK i \in K : l[i].price = p
      BY <2>1 DEF Touches
    <3>2. \A j \in K : l[j].price = p => Upsert(lv, l, K)[p] = l[j].amount
      BY UpsertAt
    <3>3. l[i].amount \in Nat
      BY EntryType
    <3>. QED
      BY <3>1, <3>2, <3>3
  <2>2. CASE ~Touches(l, K, p)
    BY <2>2, UpsertAt DEF Levels
  <2>. QED
    BY <2>1, <2>2
<1>2. Upsert(lv, l, K) = [p \in Prices |-> Upsert(lv, l, K)[p]]
  BY DEF Upsert
<1>. QED
  BY <1>1, <1>2 DEF Levels

-----------------------------------------------------------------------------
\* The least-number principle, from the well-foundedness of the inclusion of
\* finite sets.
LEMMA LeastNatural ==
  ASSUME NEW T \in SUBSET Nat, T # {}
  PROVE  \E m \in T : \A k \in T : m <= k
<1> DEFINE Below == {0..k : k \in T}
<1>1. Below \subseteq FiniteSubsetsOf(Nat) /\ Below # {}
  <2>1. ASSUME NEW k \in T
        PROVE  (0..k) \in FiniteSubsetsOf(Nat)
    <3>1. IsFiniteSet(0..k) /\ (0..k) \in SUBSET Nat
      BY FS_Interval
    <3>. QED
      BY <3>1 DEF FiniteSubsetsOf
  <2>. QED
    BY <2>1
<1>2. PICK b \in Below : \A c \in Below : <<c, b>> \notin StrictSubsetOrdering(Nat)
  <2> HIDE DEF Below
  <2>. QED
    BY <1>1, FS_StrictSubsetOrderingWellFounded, WFMin
<1>3. PICK m \in T : b = 0..m
  OBVIOUS
<1>4. ASSUME NEW k \in T, k < m
      PROVE  FALSE
  <2>1. /\ (0..k) \in SUBSET Nat /\ (0..m) \in SUBSET Nat
        /\ (0..k) \subseteq (0..m) /\ (0..k) # (0..m)
    BY <1>4
  <2>2. <<0..k, 0..m>> \in StrictSubsetOrdering(Nat)
    BY <2>1 DEF StrictSubsetOrdering
  <2>. QED
    BY <1>2, <1>3, <2>2
<1>. QED
  BY <1>4

\* And the greatest-number principle for bounded sets.
LEMMA GreatestNatural ==
  ASSUME NEW T \in SUBSET Nat, T # {}, NEW n \in Nat, \A k \in T : k <= n
  PROVE  \E m \in T : \A k \in T : k <= m
<1> DEFINE Slack == {n - k : k \in T}
<1>1. Slack \in SUBSET Nat /\ Slack # {}
  <2>1. \A k \in T : n - k \in Nat
    OBVIOUS
  <2>. QED
    BY <2>1
<1>2. PICK x \in Slack : \A y \in Slack : x <= y
  <2> HIDE DEF Slack
  <2>. QED
    BY <1>1, LeastNatural
<1>3. PICK m \in T : x = n - m
  OBVIOUS
<1>4. ASSUME NEW k \in T
      PROVE  k <= m
  <2>1. n - m <= n - k
    BY <1>2, <1>3
  <2>. QED
    BY <2>1
<1>. QED
  BY <1>4

\* The rank of a level is a number, and a better level has a smaller one.
LEMMA RankOrder ==
  ASSUME NEW side \in Sides, NEW lv, NEW p \in Listed(lv)
  PROVE  /\ Rank(side, lv, p) \in Nat
         /\ \A q \in Listed(lv) : Better(side, q, p) =>
               Rank(side, lv, q) + 1 <= Rank(side, lv, p)
<1> DEFINE Ahead(q) == {r \in Listed(lv) : Better(side, r, q)}
<1>1. IsFiniteSet(Listed(lv)) /\ Listed(lv) \subseteq Nat
  BY PricesAssumption, FS_Subset DEF Listed
<1>2. ASSUME NEW q \in Listed(lv)
      PROVE  /\ IsFiniteSet(Ahead(q)) /\ Rank(side, lv, q) = Cardinality(Ahead(q))
             /\ Rank(side, lv, q) \in Nat
  <2>1. IsFiniteSet(Ahead(q))
    BY <1>1, FS_Subset
  <2>. QED
    BY <2>1, FS_CardinalityType DEF Rank
<1>3. ASSUME NEW q \in Listed(lv), Better(side, q, p)
      PROVE  Rank(side, lv, q) + 1 <= Rank(side, lv, p)
  <2>1. /\ ~Better(side, q, q)
        /\ \A r \in Nat : Better(side, r, q) => Better(side, r, p)
    BY <1>1, <1>3 DEF Better
  <2>2. Ahead(q) \cup {q} \subseteq Ahead(p) /\ q \notin Ahead(q)
    BY <1>1, <1>3, <2>1
  <2>3. Cardinality(Ahead(q) \cup {q}) = Cardinality(Ahead(q)) + 1
    BY <1>2, <2>2, FS_AddElement
  <2>4. Cardinality(Ahead(q) \cup {q}) <= Cardinality(Ahead(p))
    BY <1>2, <2>2, FS_Subset
  <2> HIDE DEF Ahead
  <2>. QED
    BY <1>2, <2>3, <2>4
<1>. QED
  BY <1>2, <1>3

\* Among some levels of a side there is one whose rank is smallest, and one
\* whose rank is largest if ranks are bounded.
LEMMA ExtremeRanks ==
  ASSUME NEW side \in Sides, NEW lv, NEW T \in SUBSET Listed(lv), T # {}
  PROVE  /\ \E p \in T : \A q \in T : Rank(side, lv, p) <= Rank(side, lv, q)
         /\ \A n \in Nat : (\A p \in T : Rank(side, lv, p) <= n) =>
               \E p \in T : \A q \in T : Rank(side, lv, q) <= Rank(side, lv, p)
<1> DEFINE R == {Rank(side, lv, p) : p \in T}
<1>1. \A p \in T : Rank(side, lv, p) \in Nat
  BY RankOrder
<1>2. \E p \in T : \A q \in T : Rank(side, lv, p) <= Rank(side, lv, q)
  <2>1. R \in SUBSET Nat /\ R # {}
    BY <1>1
  <2>2. PICK m \in R : \A k \in R : m <= k
    <3> HIDE DEF R
    <3>. QED
      BY <2>1, LeastNatural
  <2>. QED
    BY <2>2
<1>3. ASSUME NEW n \in Nat, \A p \in T : Rank(side, lv, p) <= n
      PROVE  \E p \in T : \A q \in T : Rank(side, lv, q) <= Rank(side, lv, p)
  <2>1. R \in SUBSET Nat /\ R # {} /\ \A k \in R : k <= n
    BY <1>1, <1>3
  <2>2. PICK m \in R : \A k \in R : k <= m
    <3> HIDE DEF R
    <3>. QED
      BY <2>1, GreatestNatural
  <2>. QED
    BY <2>2
<1>. QED
  BY <1>2, <1>3

\* A side that lists something has a level no other is better than.
LEMMA BestExists ==
  ASSUME NEW side \in Sides, NEW lv, Listed(lv) # {}
  PROVE  \E p \in Listed(lv) : Rank(side, lv, p) = 0
<1>1. PICK p \in Listed(lv) :
         \A q \in Listed(lv) : Rank(side, lv, p) <= Rank(side, lv, q)
  BY ExtremeRanks
<1>2. \A q \in Listed(lv) : ~Better(side, q, p)
  BY <1>1, RankOrder
<1>3. {q \in Listed(lv) : Better(side, q, p)} = {}
  BY <1>2
<1>. QED
  BY <1>3, FS_EmptySet DEF Rank

\* At most n levels of a side have fewer than n better ones.
LEMMA RankBound ==
  ASSUME NEW side \in Sides, NEW lv, NEW n \in Nat,
         NEW T \in SUBSET Listed(lv), \A p \in T : Rank(side, lv, p) < n
  PROVE  IsFiniteSet(T) /\ Cardinality(T) <= n
<1>1. IsFiniteSet(Listed(lv)) /\ IsFiniteSet(T) /\ T \subseteq Nat
  BY PricesAssumption, FS_Subset DEF Listed
<1>2. CASE T = {}
  BY <1>2, FS_EmptySet
<1>3. CASE T # {}
  <2> DEFINE Ahead(p) == {q \in Listed(lv) : Better(side, q, p)}
  <2>1. PICK p \in T : \A q \in T : Rank(side, lv, q) <= Rank(side, lv, p)
    <3>1. \A p \in T : Rank(side, lv, p) <= n
      BY RankOrder
    <3>. QED
      BY <1>3, <3>1, ExtremeRanks
  <2>2. ASSUME NEW q \in T, q # p
        PROVE  q \in Ahead(p)
    <3> SUFFICES ASSUME ~Better(side, q, p) PROVE FALSE
      OBVIOUS
    <3>1. Better(side, p, q)
      BY <1>1, <2>2 DEF Better
    <3>2. /\ Rank(side, lv, p) + 1 <= Rank(side, lv, q)
          /\ Rank(side, lv, p) \in Nat /\ Rank(side, lv, q) \in Nat
      BY <3>1, RankOrder
    <3>. QED
      BY <2>1, <3>2
  <2>3. T \subseteq Ahead(p) \cup {p} /\ p \notin Ahead(p)
    BY <1>1, <2>2 DEF Better
  <2>4. IsFiniteSet(Ahead(p))
    BY <1>1, FS_Subset
  <2>5. /\ IsFiniteSet(Ahead(p) \cup {p})
        /\ Cardinality(Ahead(p) \cup {p}) = Cardinality(Ahead(p)) + 1
    BY <2>3, <2>4, FS_AddElement
  <2>6. Cardinality(T) <= Cardinality(Ahead(p)) + 1
    BY <2>3, <2>5, FS_Subset
  <2>7. Rank(side, lv, p) = Cardinality(Ahead(p)) /\ Rank(side, lv, p) \in Nat
    BY RankOrder DEF Rank
  <2>8. Cardinality(T) \in Nat
    BY <1>1, FS_CardinalityType
  <2> HIDE DEF Ahead
  <2>. QED
    BY <1>1, <2>6, <2>7, <2>8
<1>. QED
  BY <1>2, <1>3
=============================================================================
