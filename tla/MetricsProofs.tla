---------------------------- MODULE MetricsProofs ----------------------------
(***************************************************************************)
(* Proofs about Metrics, for any clients, keys, books, prices and orders   *)
(* of gathering, and any number of messages and requests.                  *)
(***************************************************************************)
EXTENDS Metrics, LobFilterProofs

\* The sum of a function's values is a natural number if they are.  The sum is a
\* fold, a function that recurs over the subsets of the domain; that there is one
\* such function, with natural values, is shown size by size.
LEMMA SumIsNat ==
  ASSUME NEW S, IsFiniteSet(S), NEW f \in [S -> Nat]
  PROVE  SumFunction(f) \in Nat
<1> DEFINE Chosen(s) == CHOOSE x \in s : TRUE
           Body(g, s) == IF s = {} THEN 0 ELSE f[Chosen(s)] + g[s \ {Chosen(s)}]
           IsSum(g)   == g = [s \in SUBSET S |-> Body(g, s)]
           Upto(n)    == \E g \in [SUBSET S -> Nat] : \A s \in SUBSET S :
                            Cardinality(s) <= n => g[s] = Body(g, s)
<1>1. SumFunction(f) = (CHOOSE g : IsSum(g))[S]
  BY DEF SumFunction, SumFunctionOnSet, FoldFunctionOnSet, MapThenFoldSet
<1>2. ASSUME NEW s \in SUBSET S
      PROVE  /\ Cardinality(s) \in Nat /\ (Cardinality(s) = 0 <=> s = {})
             /\ s # {} => /\ Chosen(s) \in s /\ s \ {Chosen(s)} \in SUBSET S
                          /\ Cardinality(s \ {Chosen(s)}) = Cardinality(s) - 1
  <2>1. IsFiniteSet(s)
    BY FS_Subset
  <2>. QED
    BY <2>1, FS_CardinalityType, FS_EmptySet, FS_RemoveElement
<1>c. \A s \in SUBSET S : Cardinality(s) \in Nat /\ (Cardinality(s) = 0 <=> s = {})
  BY <1>2
<1>3. ASSUME NEW g \in [SUBSET S -> Nat], NEW s \in SUBSET S
      PROVE  Body(g, s) \in Nat
  <2>1. CASE s # {}
    <3>1. f[Chosen(s)] \in Nat /\ g[s \ {Chosen(s)}] \in Nat
      BY <1>2, <2>1
    <3>. QED
      BY <2>1, <3>1
  <2>. QED
    BY <2>1
<1>4. Upto(0)
  <2>1. [s \in SUBSET S |-> 0] \in [SUBSET S -> Nat]
    OBVIOUS
  <2>2. \A s \in SUBSET S : Cardinality(s) <= 0 => s = {}
    BY <1>c
  <2>. QED
    BY <2>1, <2>2
<1>5. ASSUME NEW n \in Nat, Upto(n) PROVE Upto(n + 1)
  <2>1. PICK g \in [SUBSET S -> Nat] : \A s \in SUBSET S :
               Cardinality(s) <= n => g[s] = Body(g, s)
    BY <1>5
  <2> DEFINE h == [s \in SUBSET S |-> IF Cardinality(s) <= n THEN g[s] ELSE Body(g, s)]
  <2>2. h \in [SUBSET S -> Nat]
    BY <1>3
  <2>3. ASSUME NEW s \in SUBSET S, Cardinality(s) <= n + 1
        PROVE  h[s] = Body(h, s)
    <3>1. h[s] = Body(g, s)
      BY <2>1
    <3>2. s # {} => h[s \ {Chosen(s)}] = g[s \ {Chosen(s)}]
      BY <1>2, <2>3
    <3>. QED
      BY <3>1, <3>2
  <2>. QED
    BY <2>2, <2>3
<1>6. \A n \in Nat : Upto(n)
  <2> DEFINE Bad == {n \in Nat : ~Upto(n)}
  <2> HIDE DEF Upto
  <2> SUFFICES ASSUME Bad # {} PROVE FALSE
    OBVIOUS
  <2>1. PICK m \in Bad : \A k \in Bad : m <= k
    <3>1. Bad \in SUBSET Nat
      OBVIOUS
    <3> HIDE DEF Bad
    <3>. QED
      BY <3>1, LeastNatural
  <2>2. m \in Nat /\ ~Upto(m) /\ m # 0
    BY <1>4
  <2>3. m - 1 \in Nat /\ ~(m <= m - 1) /\ (m - 1) + 1 = m
    BY <2>2
  <2>4. Upto(m - 1)
    BY <2>1, <2>3
  <2>5. Upto((m - 1) + 1)
    BY <1>5, <2>3, <2>4
  <2>. QED
    BY <2>2, <2>3, <2>5
<1>7. PICK g \in [SUBSET S -> Nat] : \A s \in SUBSET S : g[s] = Body(g, s)
  <2>1. Cardinality(S) \in Nat /\ \A s \in SUBSET S : Cardinality(s) <= Cardinality(S)
    BY FS_CardinalityType, FS_Subset
  <2>. QED
    BY <1>6, <2>1
<1>8. ASSUME NEW h, IsSum(h) PROVE h = g
  <2> DEFINE Sizes == {Cardinality(s) : s \in {r \in SUBSET S : h[r] # g[r]}}
  <2>1. \A s \in SUBSET S : h[s] = Body(h, s)
    BY <1>8
  <2>2. Sizes = {}
    <3> SUFFICES ASSUME Sizes # {} PROVE FALSE
      OBVIOUS
    <3>1. Sizes \in SUBSET Nat
      BY <1>c
    <3>2. PICK m \in Sizes : \A k \in Sizes : m <= k
      <4> HIDE DEF Sizes
      <4>. QED
        BY <3>1, LeastNatural
    <3>3. PICK s \in SUBSET S : h[s] # g[s] /\ Cardinality(s) = m
      BY <3>2
    <3>4. s # {}
      BY <1>7, <2>1, <3>3
    <3>5. h[s \ {Chosen(s)}] = g[s \ {Chosen(s)}]
      <4>1. /\ s \ {Chosen(s)} \in SUBSET S /\ m \in Nat
            /\ Cardinality(s \ {Chosen(s)}) = m - 1
        BY <1>2, <1>c, <3>3, <3>4
      <4>2. ~(m <= Cardinality(s \ {Chosen(s)}))
        BY <4>1
      <4>. QED
        BY <3>2, <4>1, <4>2
    <3>. QED
      BY <1>7, <2>1, <3>3, <3>4, <3>5
  <2>3. \A s \in SUBSET S : h[s] = g[s]
    BY <2>2
  <2>4. h = [s \in SUBSET S |-> h[s]] /\ g = [s \in SUBSET S |-> g[s]]
    BY <1>8
  <2>. QED
    BY <2>3, <2>4
<1>9. IsSum(g)
  BY <1>7
<1>10. (CHOOSE h : IsSum(h)) = g
  <2> HIDE DEF IsSum
  <2>. QED
    BY <1>8, <1>9
<1>. QED
  BY <1>1, <1>10
\* A sequence over a set is one over a larger set.
LEMMA SeqWiden ==
  ASSUME NEW S, NEW T, S \subseteq T, NEW q \in Seq(S)
  PROVE  q \in Seq(T)
<1>1. Len(q) \in Nat /\ DOMAIN q = 1..Len(q) /\ \A i \in 1..Len(q) : q[i] \in S
  BY LenProperties, ElementOfSeq
<1>2. q = [i \in 1..Len(q) |-> q[i]]
  BY <1>1, LenProperties
<1>. QED
  BY <1>1, <1>2

-----------------------------------------------------------------------------
(***************************************************************************)
(* What the books say.                                                     *)
(***************************************************************************)
\* A level of a book is an integer, and so are its sizes.
LEMMA BookType ==
  ASSUME NEW bk \in Books, NEW s \in Sides
  PROVE  /\ bk[s] \in Levels /\ Listed(bk[s]) \subseteq Prices
         /\ Listed(bk[s]) \subseteq Nat /\ IsFiniteSet(Listed(bk[s]))
         /\ \A p \in Prices : bk[s][p] \in Nat
<1>1. bk[s] \in Levels
  BY MetricsAssumption DEF Book
<1>2. Listed(bk[s]) \subseteq Prices
  BY DEF Listed
<1>. QED
  BY <1>1, <1>2, PricesAssumption, FS_Subset DEF Levels

\* There is at most one best price, and at most one spread.
LEMMA BestIsOne ==
  ASSUME NEW bk \in Books, NEW s \in Sides
  PROVE  /\ Best(s, bk[s]) \subseteq Nat
         /\ \A p, q \in Best(s, bk[s]) : p = q
<1>1. Listed(bk[s]) \subseteq Nat
  BY BookType
<1>. QED
  BY <1>1 DEF Best, Better

\* A book has at most one spread.
LEMMA SpreadIsOne ==
  ASSUME NEW bk \in Books
  PROVE  /\ Spread(bk) \subseteq Int
         /\ \A p, q \in Spread(bk) : p = q
<1>1. "bid" \in Sides /\ "ask" \in Sides
  BY DEF Sides
<1>2. /\ Best("ask", bk["ask"]) \subseteq Nat
      /\ \A p, q \in Best("ask", bk["ask"]) : p = q
      /\ Best("bid", bk["bid"]) \subseteq Nat
      /\ \A p, q \in Best("bid", bk["bid"]) : p = q
  BY <1>1, BestIsOne
<1>. QED
  BY <1>2 DEF Spread

\* The total sizes of a book are numbers.
LEMMA TotalsType ==
  ASSUME NEW bk \in Books
  PROVE  Totals(bk) \in [Sides -> Nat]
<1>1. ASSUME NEW s \in Sides PROVE SumFunction(bk[s]) \in Nat
  BY BookType, SumIsNat, PricesAssumption DEF Levels
<1>. QED
  BY <1>1 DEF Totals

\* Every level has a place in the ladder, and every place a level: the prices of
\* rank below n are at most n, so if others are left the best of them has rank n.
LEMMA LadderType ==
  ASSUME NEW bk \in Books, NEW s \in Sides
  PROVE  /\ Cardinality(Listed(bk[s])) \in Nat
         /\ DOMAIN Ladder(s, bk[s]) = 1..Cardinality(Listed(bk[s]))
         /\ \A i \in DOMAIN Ladder(s, bk[s]) :
              /\ Ladder(s, bk[s])[i] \in Listed(bk[s])
              /\ Rank(s, bk[s], Ladder(s, bk[s])[i]) = i - 1
         /\ \A p \in Listed(bk[s]) : \E i \in DOMAIN Ladder(s, bk[s]) :
              Ladder(s, bk[s])[i] = p
<1> DEFINE lv == bk[s]
           N  == Cardinality(Listed(lv))
<1>0. /\ IsFiniteSet(Listed(lv)) /\ Listed(lv) \subseteq Nat /\ N \in Nat
      /\ \A p \in Listed(lv) : Rank(s, lv, p) \in Nat
  BY BookType, FS_CardinalityType, RankOrder
<1>1. ASSUME NEW n \in Nat, n < N
      PROVE  \E p \in Listed(lv) : Rank(s, lv, p) = n
  <2> DEFINE T == {p \in Listed(lv) : Rank(s, lv, p) < n}
             Rest == Listed(lv) \ T
  <2>1. IsFiniteSet(T) /\ Cardinality(T) \in Nat /\ Cardinality(T) <= n
    BY RankBound, FS_CardinalityType
  <2>2. Rest # {}
    BY <1>0, <1>1, <2>1
  <2>3. PICK p \in Rest : \A q \in Rest : Rank(s, lv, p) <= Rank(s, lv, q)
    BY <2>2, ExtremeRanks
  <2>4. Rank(s, lv, p) \in Nat /\ ~(Rank(s, lv, p) < n)
    BY <1>0, <2>3
  <2>5. {q \in Listed(lv) : Better(s, q, p)} \subseteq T
    <3> SUFFICES ASSUME NEW q \in Listed(lv), Better(s, q, p), q \in Rest PROVE FALSE
      OBVIOUS
    <3>1. Rank(s, lv, q) + 1 <= Rank(s, lv, p)
      BY <2>3, RankOrder
    <3>2. Rank(s, lv, p) <= Rank(s, lv, q)
      BY <2>3
    <3>. QED
      BY <1>0, <2>4, <3>1, <3>2
  <2>6. Rank(s, lv, p) <= Cardinality(T)
    BY <2>1, <2>5, FS_Subset DEF Rank
  <2>7. Rank(s, lv, p) = n
    BY <2>1, <2>4, <2>6
  <2>. QED
    BY <2>3, <2>7
<1>2. ASSUME NEW i \in 1..N
      PROVE  Ladder(s, lv)[i] \in Listed(lv) /\ Rank(s, lv, Ladder(s, lv)[i]) = i - 1
  <2>1. i - 1 \in Nat /\ i - 1 < N
    BY <1>0
  <2>2. \E p \in Listed(lv) : Rank(s, lv, p) = i - 1
    BY <1>1, <2>1
  <2>. QED
    BY <2>2 DEF Ladder
<1>3. ASSUME NEW p \in Listed(lv) PROVE \E i \in 1..N : Ladder(s, lv)[i] = p
  <2>1. Rank(s, lv, p) \in Nat /\ Rank(s, lv, p) < N
    <3> DEFINE Ahead == {q \in Listed(lv) : Better(s, q, p)}
    <3>1. Ahead \subseteq Listed(lv) \ {p}
      BY <1>0 DEF Better
    <3>2. IsFiniteSet(Listed(lv) \ {p}) /\ Cardinality(Listed(lv) \ {p}) = N - 1
      BY <1>0, FS_RemoveElement
    <3>3. Cardinality(Ahead) <= N - 1
      BY <3>1, <3>2, FS_Subset
    <3>. QED
      BY <1>0, <3>3 DEF Rank
  <2> DEFINE i == Rank(s, lv, p) + 1
  <2>2. i \in 1..N /\ i - 1 = Rank(s, lv, p)
    BY <1>0, <2>1
  <2>3. Ladder(s, lv)[i] \in Listed(lv) /\ Rank(s, lv, Ladder(s, lv)[i]) = Rank(s, lv, p)
    BY <1>2, <2>2
  <2>4. Ladder(s, lv)[i] = p
    <3> DEFINE q == Ladder(s, lv)[i]
    <3>1. q \in Listed(lv) /\ Rank(s, lv, q) = Rank(s, lv, p) /\ Rank(s, lv, p) \in Nat
      BY <1>0, <2>3
    <3> HIDE DEF q, i
    <3>2. ~Better(s, p, q) /\ ~Better(s, q, p)
      BY <3>1, RankOrder
    <3>. QED
      BY <1>0, <3>1, <3>2 DEF Better, q
  <2>. QED
    BY <2>2, <2>4
<1>4. DOMAIN Ladder(s, lv) = 1..N
  BY DEF Ladder
<1>. QED
  BY <1>0, <1>2, <1>3, <1>4

-----------------------------------------------------------------------------
(***************************************************************************)
(* What the writes of a message lead to.                                   *)
(***************************************************************************)
SetsOf(W, g) == {i \in DOMAIN W : W[i].op = "set" /\ W[i].at = g}

\* The writes W leave gauge g with the value in X, if there is one, and pass
\* through no others than those in A.
Brings(W, g, X, A) ==
  /\ SetsOf(W, g) = {} => X = {}
  /\ \A i \in SetsOf(W, g) :
       /\ {W[i].value} = X \/ W[i].value \in A
       /\ (\A j \in SetsOf(W, g) : j <= i) => {W[i].value} = X

\* What a sequence that writes g, or does not, is part of.
LEMMA ConcatWrites ==
  ASSUME NEW T, NEW U \in Seq(T), NEW V \in Seq(T), NEW g, NEW X, NEW A
  PROVE  /\ U \o V \in Seq(T)
         /\ SetsOf(U, g) = {} /\ SetsOf(V, g) = {} => SetsOf(U \o V, g) = {}
         /\ Brings(U, g, X, A) /\ SetsOf(V, g) = {} => Brings(U \o V, g, X, A)
         /\ SetsOf(U, g) = {} /\ Brings(V, g, X, A) => Brings(U \o V, g, X, A)
<1>1. /\ U \o V \in Seq(T) /\ Len(U) \in Nat /\ Len(V) \in Nat
      /\ DOMAIN U = 1..Len(U) /\ DOMAIN V = 1..Len(V)
      /\ DOMAIN (U \o V) = 1..(Len(U) + Len(V))
      /\ \A i \in 1..Len(U) : (U \o V)[i] = U[i]
      /\ \A i \in 1..Len(V) : (U \o V)[Len(U) + i] = V[i]
  BY ConcatProperties, LenProperties
<1>2. \A i \in 1..(Len(U) + Len(V)) : i \in 1..Len(U) \/ i - Len(U) \in 1..Len(V)
  BY <1>1
<1>3. SetsOf(V, g) = {} => SetsOf(U \o V, g) = SetsOf(U, g)
  <2> SUFFICES ASSUME SetsOf(V, g) = {}, NEW i \in 1..(Len(U) + Len(V))
               PROVE  i \in SetsOf(U \o V, g) <=> i \in SetsOf(U, g)
    BY <1>1 DEF SetsOf
  <2>1. CASE i \in 1..Len(U)
    BY <1>1, <2>1 DEF SetsOf
  <2>2. CASE i - Len(U) \in 1..Len(V) /\ i \notin 1..Len(U)
    <3>1. (U \o V)[i] = V[i - Len(U)]
      BY <1>1, <2>2
    <3>. QED
      BY <1>1, <2>2, <3>1 DEF SetsOf
  <2>. QED
    BY <1>2, <2>1, <2>2
<1>4. SetsOf(U, g) = {} =>
        /\ \A i \in SetsOf(U \o V, g) : /\ i - Len(U) \in SetsOf(V, g)
                                        /\ (U \o V)[i] = V[i - Len(U)]
        /\ \A i \in SetsOf(V, g) : Len(U) + i \in SetsOf(U \o V, g)
  <2> SUFFICES ASSUME SetsOf(U, g) = {}
               PROVE  /\ \A i \in SetsOf(U \o V, g) : /\ i - Len(U) \in SetsOf(V, g)
                                                      /\ (U \o V)[i] = V[i - Len(U)]
                      /\ \A i \in SetsOf(V, g) : Len(U) + i \in SetsOf(U \o V, g)
    OBVIOUS
  <2>1. ASSUME NEW i \in SetsOf(U \o V, g)
        PROVE  i - Len(U) \in SetsOf(V, g) /\ (U \o V)[i] = V[i - Len(U)]
    <3>1. i \notin 1..Len(U)
      BY <1>1 DEF SetsOf
    <3>2. i - Len(U) \in 1..Len(V) /\ i \in Int
      BY <1>1, <1>2, <3>1 DEF SetsOf
    <3>3. (U \o V)[i] = V[i - Len(U)]
      BY <1>1, <3>2
    <3>. QED
      BY <1>1, <3>2, <3>3 DEF SetsOf
  <2>2. ASSUME NEW i \in SetsOf(V, g) PROVE Len(U) + i \in SetsOf(U \o V, g)
    BY <1>1 DEF SetsOf
  <2>. QED
    BY <2>1, <2>2
<1>5. ASSUME Brings(U, g, X, A), SetsOf(V, g) = {} PROVE Brings(U \o V, g, X, A)
  <2>1. \A i \in SetsOf(U, g) : (U \o V)[i] = U[i]
    BY <1>1 DEF SetsOf
  <2>. QED
    BY <1>3, <1>5, <2>1 DEF Brings
<1>6. ASSUME SetsOf(U, g) = {}, Brings(V, g, X, A) PROVE Brings(U \o V, g, X, A)
  <2>1. SetsOf(U \o V, g) = {} => X = {}
    BY <1>4, <1>6 DEF Brings
  <2>2. ASSUME NEW i \in SetsOf(U \o V, g)
        PROVE  /\ {(U \o V)[i].value} = X \/ (U \o V)[i].value \in A
               /\ (\A j \in SetsOf(U \o V, g) : j <= i) => {(U \o V)[i].value} = X
    <3> DEFINE h == i - Len(U)
    <3>1. h \in SetsOf(V, g) /\ (U \o V)[i] = V[h]
      BY <1>4, <1>6, <2>2
    <3>2. (\A j \in SetsOf(U \o V, g) : j <= i) => \A j \in SetsOf(V, g) : j <= h
      <4> SUFFICES ASSUME \A j \in SetsOf(U \o V, g) : j <= i, NEW j \in SetsOf(V, g)
                   PROVE  j <= h
        OBVIOUS
      <4>1. Len(U) + j <= i
        BY <1>4, <1>6
      <4>2. j \in Int /\ i \in Int
        BY <1>1 DEF SetsOf
      <4>. QED
        BY <1>1, <4>1, <4>2
    <3>. QED
      BY <1>6, <3>1, <3>2 DEF Brings
  <2>. QED
    BY <2>1, <2>2 DEF Brings
<1>. QED
  BY <1>1, <1>3, <1>5, <1>6

BookWriteSet == {w \in Writes : w.op \in {"set", "sizes"}}

\* A write of a value that may be missing.
LEMMA IfAnyWrites ==
  ASSUME NEW at \in BookGauges, NEW values \in SUBSET Int,
         \A m, n \in values : m = n
  PROVE  LET W == IfAny("set", at, values)
         IN  /\ W \in Seq(BookWriteSet)
             /\ Brings(W, at, values, {})
             /\ \A g : g # at => SetsOf(W, g) = {}
<1> DEFINE W == IfAny("set", at, values)
<1>1. CASE values = {}
  BY <1>1 DEF IfAny, Brings, SetsOf
<1>2. CASE values # {}
  <2>1. PICK n \in values : values = {n} /\ n \in Int
    BY <1>2
  <2>2. W = <<Write("set", at, n)>>
    BY <2>1 DEF IfAny
  <2>3. Write("set", at, n) \in BookWriteSet
    BY <2>1 DEF BookWriteSet, Writes, Write
  <2>4. W \in Seq(BookWriteSet) /\ DOMAIN W = {1} /\ W[1] = Write("set", at, n)
    <3> HIDE DEF W
    <3> DEFINE w == Write("set", at, n)
    <3>1. W = <<w>> /\ w \in BookWriteSet
      BY <2>2, <2>3
    <3> HIDE DEF w
    <3>2. W \in Seq(BookWriteSet) /\ DOMAIN W = {1} /\ W[1] = w
      BY <3>1
    <3>. QED
      BY <3>2 DEF w
  <2>5. W[1].op = "set" /\ W[1].at = at /\ W[1].value = n
    BY <2>4 DEF Write
  <2> HIDE DEF W
  <2>6. SetsOf(W, at) = {1} /\ \A g : g # at => SetsOf(W, g) = {}
    BY <2>4, <2>5 DEF SetsOf
  <2>7. Brings(W, at, values, {})
    BY <2>1, <2>5, <2>6 DEF Brings
  <2>. QED
    BY <2>4, <2>6, <2>7 DEF W
<1>. QED
  BY <1>1, <1>2

\* The ladder comes to the furthest of the prices that print alike last.
LEMMA DepthWritesBring ==
  ASSUME NEW bk \in Books, NEW s \in Sides
  PROVE  LET W == DepthWrites(s, bk[s])
         IN  /\ W \in Seq(BookWriteSet)
             /\ \A g \in BookGauges :
                  IF g.what = "depth" /\ g.side = s
                  THEN Brings(W, g, InBook(bk, g), {bk[g.side][p] : p \in Alike(bk, g)})
                  ELSE SetsOf(W, g) = {}
<1> DEFINE lv == bk[s]
           L  == Ladder(s, lv)
           W  == DepthWrites(s, lv)
           N  == Cardinality(Listed(lv))
<1>0. /\ N \in Nat /\ DOMAIN L = 1..N
      /\ \A i \in 1..N : L[i] \in Listed(lv) /\ Rank(s, lv, L[i]) = i - 1
      /\ \A p \in Listed(lv) : \E i \in 1..N : L[i] = p
  <2>1. N \in Nat /\ DOMAIN L = 1..N
    BY LadderType
  <2>2. \A i \in DOMAIN L : L[i] \in Listed(lv) /\ Rank(s, lv, L[i]) = i - 1
    BY LadderType
  <2>3. \A p \in Listed(lv) : \E i \in DOMAIN L : L[i] = p
    BY LadderType
  <2> HIDE DEF L, N
  <2>. QED
    BY <2>1, <2>2, <2>3
<1>w. W = [i \in 1..N |-> Write("set", DepthAt(s, L[i]), lv[L[i]])]
  BY <1>0 DEF DepthWrites
<1> HIDE DEF L, W, N
<1>1. /\ N \in Nat /\ DOMAIN L = 1..N /\ DOMAIN W = 1..N
      /\ \A i \in 1..N : L[i] \in Listed(lv) /\ Rank(s, lv, L[i]) = i - 1
      /\ \A p \in Listed(lv) : \E i \in 1..N : L[i] = p
  BY <1>0, <1>w
<1>2. /\ Listed(lv) \subseteq Prices /\ Listed(lv) \subseteq Nat
      /\ \A p \in Prices : lv[p] \in Nat
  BY BookType
<1>3. \A i \in 1..N : W[i] = Write("set", DepthAt(s, L[i]), lv[L[i]])
  BY <1>w
<1>f. ASSUME NEW i \in 1..N
      PROVE  W[i].op = "set" /\ W[i].at = DepthAt(s, L[i]) /\ W[i].value = lv[L[i]]
  <2> DEFINE d == DepthAt(s, L[i])
             v == lv[L[i]]
  <2>1. W[i] = Write("set", d, v)
    BY <1>3
  <2> HIDE DEF d, v
  <2>2. W[i].op = "set" /\ W[i].at = d /\ W[i].value = v
    BY <2>1 DEF Write
  <2>. QED
    BY <2>2 DEF d, v
<1>4. W \in Seq(BookWriteSet)
  <2>1. ASSUME NEW i \in 1..N PROVE W[i] \in BookWriteSet
    <3>1. /\ L[i] \in Prices /\ lv[L[i]] \in Int
      BY <1>1, <1>2
    <3>2. DepthAt(s, L[i]) \in BookGauges
      BY <3>1 DEF BookGauges
    <3>. QED
      <4> DEFINE d == DepthAt(s, L[i])
                 v == lv[L[i]]
      <4>1. W[i] = [op |-> "set", at |-> d, value |-> v]
        BY <1>3 DEF Write
      <4>2. d \in BookGauges /\ v \in Int
        BY <3>1, <3>2
      <4> HIDE DEF d, v
      <4>. QED
        BY <4>1, <4>2 DEF BookWriteSet, Writes
  <2>2. W = [i \in 1..N |-> W[i]]
    BY <1>w
  <2>. QED
    BY <1>1, <2>1, <2>2
<1>5. ASSUME NEW g \in BookGauges, g.what = "depth", g.side = s
      PROVE  Brings(W, g, InBook(bk, g), {bk[g.side][p] : p \in Alike(bk, g)})
  <2>1. PICK l \in Prices : g = DepthAt(s, l)
    BY <1>5 DEF BookGauges, DepthAt, BestOf, SpreadGauge, Gauge
  <2>2. g.at = Label[l] /\ \A p \in Prices : DepthAt(s, p) = g <=> Label[p] = g.at
    BY <2>1 DEF DepthAt, Gauge
  <2>3. Alike(bk, g) = {p \in Listed(lv) : Label[p] = g.at}
    BY <1>5 DEF Alike
  <2> DEFINE Far == {q \in Alike(bk, g) : \A r \in Alike(bk, g) : ~Better(s, q, r)}
  <2>4. InBook(bk, g) = {lv[p] : p \in Far}
    BY <1>5 DEF InBook
  <2>5. \A i \in 1..N : i \in SetsOf(W, g) <=> L[i] \in Alike(bk, g)
    <3> SUFFICES ASSUME NEW i \in 1..N
                 PROVE  i \in SetsOf(W, g) <=> L[i] \in Alike(bk, g)
      OBVIOUS
    <3>1. W[i].op = "set" /\ W[i].at = DepthAt(s, L[i]) /\ L[i] \in Listed(lv)
      BY <1>1, <1>f
    <3>2. W[i].at = g <=> Label[L[i]] = g.at
      BY <1>2, <2>2, <3>1
    <3>. QED
      BY <1>1, <2>3, <3>1, <3>2 DEF SetsOf
  <2>6. SetsOf(W, g) \subseteq 1..N
    BY <1>1 DEF SetsOf
  <2>7. \A i \in 1..N : W[i].value = lv[L[i]]
    BY <1>f
  <2>8. ASSUME SetsOf(W, g) = {} PROVE InBook(bk, g) = {}
    <3>1. Alike(bk, g) = {}
      BY <1>1, <2>3, <2>5, <2>8
    <3>. QED
      BY <2>4, <3>1
  <2>9. ASSUME NEW i \in SetsOf(W, g), \A j \in SetsOf(W, g) : j <= i
        PROVE  {W[i].value} = InBook(bk, g)
    <3>1. i \in 1..N /\ L[i] \in Alike(bk, g)
      BY <2>5, <2>6
    <3>2. ASSUME NEW r \in Alike(bk, g) PROVE ~Better(s, L[i], r) /\ (r # L[i] => Better(s, r, L[i]))
      <4>1. r \in Listed(lv) /\ L[i] \in Listed(lv)
        BY <2>3, <3>1
      <4>2. PICK j \in 1..N : L[j] = r
        BY <1>1, <4>1
      <4>3. j <= i
        BY <2>5, <2>9, <4>2
      <4>4. Rank(s, lv, r) = j - 1 /\ Rank(s, lv, L[i]) = i - 1
        BY <1>1, <3>1, <4>2
      <4>5. ~Better(s, L[i], r)
        <5> SUFFICES ASSUME Better(s, L[i], r) PROVE FALSE
          OBVIOUS
        <5>1. Rank(s, lv, L[i]) + 1 <= Rank(s, lv, r)
          BY <4>1, RankOrder
        <5>. QED
          BY <3>1, <4>3, <4>4, <5>1
      <4>. QED
        BY <1>2, <4>1, <4>5 DEF Better
    <3>3. Far = {L[i]}
      BY <3>1, <3>2
    <3>. QED
      BY <2>4, <2>7, <3>1, <3>3
  <2>10. ASSUME NEW i \in SetsOf(W, g)
         PROVE  W[i].value \in {bk[g.side][p] : p \in Alike(bk, g)}
    BY <1>5, <2>5, <2>6, <2>7
  <2>. QED
    BY <2>8, <2>9, <2>10 DEF Brings
<1>6. ASSUME NEW g \in BookGauges, ~(g.what = "depth" /\ g.side = s)
      PROVE  SetsOf(W, g) = {}
  <2>1. \A i \in 1..N : W[i].at.what = "depth" /\ W[i].at.side = s
    <3> SUFFICES ASSUME NEW i \in 1..N
                 PROVE  W[i].at.what = "depth" /\ W[i].at.side = s
      OBVIOUS
    <3>1. \A p : DepthAt(s, p).what = "depth" /\ DepthAt(s, p).side = s
      BY DEF DepthAt, Gauge
    <3>. QED
      BY <1>f, <3>1
  <2>. QED
    BY <1>1, <1>6, <2>1 DEF SetsOf
<1>. QED
  BY <1>4, <1>5, <1>6 DEF W

\* The writes of a book message bring every gauge to what the book says.
LEMMA BookWritesBring ==
  ASSUME NEW bk \in Books
  PROVE  /\ BookWrites(bk) \in Seq(BookWriteSet)
         /\ \E i \in DOMAIN BookWrites(bk) : BookWrites(bk)[i].op = "sizes"
         /\ \A g \in BookGauges :
              Brings(BookWrites(bk), g, InBook(bk, g), {bk[g.side][p] : p \in Alike(bk, g)})
<1> DEFINE A == IfAny("set", BestOf("bid"), Best("bid", bk["bid"]))
           B == IfAny("set", BestOf("ask"), Best("ask", bk["ask"]))
           C == IfAny("set", SpreadGauge, Spread(bk))
           S == <<Write("sizes", SpreadGauge, 0)>>
           D == DepthWrites("bid", bk["bid"])
           E == DepthWrites("ask", bk["ask"])
           Via(g) == {bk[g.side][p] : p \in Alike(bk, g)}
<1>0. BookWrites(bk) = A \o B \o C \o S \o D \o E
  BY DEF BookWrites
<1>s. "bid" \in Sides /\ "ask" \in Sides
  BY DEF Sides
<1>g. BestOf("bid") \in BookGauges /\ BestOf("ask") \in BookGauges /\ SpreadGauge \in BookGauges
  BY <1>s DEF BookGauges
<1>1. /\ A \in Seq(BookWriteSet) /\ Brings(A, BestOf("bid"), Best("bid", bk["bid"]), {})
      /\ \A g : g # BestOf("bid") => SetsOf(A, g) = {}
  <2>1. /\ Best("bid", bk["bid"]) \in SUBSET Int
        /\ \A m, n \in Best("bid", bk["bid"]) : m = n
    BY <1>s, BestIsOne
  <2>. QED
    BY <1>g, <2>1, IfAnyWrites
<1>2. /\ B \in Seq(BookWriteSet) /\ Brings(B, BestOf("ask"), Best("ask", bk["ask"]), {})
      /\ \A g : g # BestOf("ask") => SetsOf(B, g) = {}
  <2>1. /\ Best("ask", bk["ask"]) \in SUBSET Int
        /\ \A m, n \in Best("ask", bk["ask"]) : m = n
    BY <1>s, BestIsOne
  <2>. QED
    BY <1>g, <2>1, IfAnyWrites
<1>3. /\ C \in Seq(BookWriteSet) /\ Brings(C, SpreadGauge, Spread(bk), {})
      /\ \A g : g # SpreadGauge => SetsOf(C, g) = {}
  <2>1. Spread(bk) \in SUBSET Int /\ \A m, n \in Spread(bk) : m = n
    BY SpreadIsOne
  <2>. QED
    BY <1>g, <2>1, IfAnyWrites
<1>4. /\ S \in Seq(BookWriteSet) /\ \A g : SetsOf(S, g) = {}
      /\ DOMAIN S = {1} /\ S[1].op = "sizes"
  <2> DEFINE w == Write("sizes", SpreadGauge, 0)
  <2>1. w \in BookWriteSet
    BY <1>g DEF BookWriteSet, Writes, Write, Gauges
  <2>2. w.op = "sizes"
    BY DEF Write
  <2> HIDE DEF w
  <2>3. <<w>> \in Seq(BookWriteSet) /\ DOMAIN <<w>> = {1} /\ <<w>>[1] = w
    BY <2>1
  <2>4. S = <<w>>
    BY DEF w
  <2> HIDE DEF S
  <2>. QED
    BY <2>2, <2>3, <2>4 DEF SetsOf
<1>5. /\ D \in Seq(BookWriteSet) /\ E \in Seq(BookWriteSet)
      /\ \A g \in BookGauges : IF g.what = "depth" /\ g.side = "bid"
                              THEN Brings(D, g, InBook(bk, g), Via(g))
                              ELSE SetsOf(D, g) = {}
      /\ \A g \in BookGauges : IF g.what = "depth" /\ g.side = "ask"
                              THEN Brings(E, g, InBook(bk, g), Via(g))
                              ELSE SetsOf(E, g) = {}
  BY <1>s, DepthWritesBring
<1> HIDE DEF A, B, C, S, D, E
<1>6. /\ A \o B \in Seq(BookWriteSet) /\ A \o B \o C \in Seq(BookWriteSet)
      /\ A \o B \o C \o S \in Seq(BookWriteSet)
      /\ A \o B \o C \o S \o D \in Seq(BookWriteSet)
      /\ A \o B \o C \o S \o D \o E \in Seq(BookWriteSet)
  <2>1. A \o B \in Seq(BookWriteSet)
    BY <1>1, <1>2, ConcatWrites
  <2>2. A \o B \o C \in Seq(BookWriteSet)
    BY <2>1, <1>3, ConcatWrites
  <2>3. A \o B \o C \o S \in Seq(BookWriteSet)
    BY <2>2, <1>4, ConcatWrites
  <2>4. A \o B \o C \o S \o D \in Seq(BookWriteSet)
    BY <2>3, <1>5, ConcatWrites
  <2>. QED
    BY <2>1, <2>2, <2>3, <2>4, <1>5, ConcatWrites
<1>7. ASSUME NEW g \in BookGauges
      PROVE  Brings(BookWrites(bk), g, InBook(bk, g), Via(g))
  <2>1. CASE g.what = "depth" /\ g.side \in Sides
    <3>1. g # BestOf("bid") /\ g # BestOf("ask") /\ g # SpreadGauge
      BY <2>1 DEF BestOf, SpreadGauge, Gauge
    <3>2. SetsOf(A \o B \o C \o S, g) = {}
      <4>1. SetsOf(A \o B, g) = {}
        BY <1>1, <1>2, <3>1, ConcatWrites
      <4>2. SetsOf(A \o B \o C, g) = {}
        BY <4>1, <1>3, <1>6, <3>1, ConcatWrites
      <4>. QED
        BY <4>2, <1>4, <1>6, ConcatWrites
    <3>3. CASE g.side = "bid"
      <4>1. Brings(D, g, InBook(bk, g), Via(g)) /\ SetsOf(E, g) = {}
        BY <1>5, <2>1, <3>3
      <4> HIDE DEF Via
      <4>2. Brings(A \o B \o C \o S \o D, g, InBook(bk, g), Via(g))
        BY <4>1, <3>2, <1>5, <1>6, ConcatWrites
      <4>3. Brings(A \o B \o C \o S \o D \o E, g, InBook(bk, g), Via(g))
        BY <4>1, <4>2, <1>5, <1>6, ConcatWrites
      <4>. QED
        BY <4>3, <1>0
    <3>4. CASE g.side = "ask"
      <4>1. Brings(E, g, InBook(bk, g), Via(g)) /\ SetsOf(D, g) = {}
        BY <1>5, <2>1, <3>4
      <4> HIDE DEF Via
      <4>2. SetsOf(A \o B \o C \o S \o D, g) = {}
        BY <4>1, <3>2, <1>5, <1>6, ConcatWrites
      <4>3. Brings(A \o B \o C \o S \o D \o E, g, InBook(bk, g), Via(g))
        BY <4>1, <4>2, <1>5, <1>6, ConcatWrites
      <4>. QED
        BY <4>3, <1>0
    <3>. QED
      BY <2>1, <3>3, <3>4 DEF Sides
  <2>2. CASE g.what # "depth"
    <3>1. SetsOf(S, g) = {} /\ SetsOf(D, g) = {} /\ SetsOf(E, g) = {}
      BY <1>4, <1>5, <2>2
    <3> DEFINE V == Via(g)
    <3>2. V = {}
      BY <2>2 DEF Alike
    <3>3. Brings(A \o B \o C, g, InBook(bk, g), V) => Brings(BookWrites(bk), g, InBook(bk, g), V)
      <4> HIDE DEF V
      <4>1. Brings(A \o B \o C, g, InBook(bk, g), V) => Brings(A \o B \o C \o S, g, InBook(bk, g), V)
        BY <3>1, <1>4, <1>6, ConcatWrites
      <4>2. Brings(A \o B \o C \o S, g, InBook(bk, g), V)
               => Brings(A \o B \o C \o S \o D, g, InBook(bk, g), V)
        BY <3>1, <1>5, <1>6, ConcatWrites
      <4>3. Brings(A \o B \o C \o S \o D, g, InBook(bk, g), V)
               => Brings(A \o B \o C \o S \o D \o E, g, InBook(bk, g), V)
        BY <3>1, <1>5, <1>6, ConcatWrites
      <4>. QED
        BY <4>1, <4>2, <4>3, <1>0
    <3> HIDE DEF V
    <3>4. CASE g = BestOf("bid")
      <4>1. InBook(bk, g) = Best("bid", bk["bid"])
        BY <3>4 DEF InBook, BestOf, Gauge
      <4>2. g # BestOf("ask") /\ g # SpreadGauge
        BY <3>4 DEF BestOf, SpreadGauge, Gauge
      <4>3. Brings(A, g, InBook(bk, g), V)
        BY <1>1, <3>2, <3>4, <4>1
      <4>4. Brings(A \o B, g, InBook(bk, g), V)
        BY <1>1, <1>2, <4>2, <4>3, ConcatWrites
      <4>. QED
        BY <1>3, <1>6, <3>3, <4>2, <4>4, ConcatWrites DEF V
    <3>5. CASE g = BestOf("ask")
      <4>1. InBook(bk, g) = Best("ask", bk["ask"])
        BY <3>5 DEF InBook, BestOf, Gauge
      <4>2. g # BestOf("bid") /\ g # SpreadGauge
        BY <3>5 DEF BestOf, SpreadGauge, Gauge
      <4>3. Brings(B, g, InBook(bk, g), V)
        BY <1>2, <3>2, <3>5, <4>1
      <4>4. Brings(A \o B, g, InBook(bk, g), V)
        BY <1>1, <1>2, <4>2, <4>3, ConcatWrites
      <4>. QED
        BY <1>3, <1>6, <3>3, <4>2, <4>4, ConcatWrites DEF V
    <3>6. CASE g = SpreadGauge
      <4>1. InBook(bk, g) = Spread(bk)
        BY <3>6 DEF InBook, SpreadGauge, Gauge
      <4>2. g # BestOf("bid") /\ g # BestOf("ask")
        BY <3>6 DEF BestOf, SpreadGauge, Gauge
      <4>3. Brings(C, g, InBook(bk, g), V)
        BY <1>3, <3>2, <3>6, <4>1
      <4>4. SetsOf(A \o B, g) = {}
        BY <1>1, <1>2, <4>2, ConcatWrites
      <4>. QED
        BY <1>3, <1>6, <3>3, <4>3, <4>4, ConcatWrites DEF V
    <3>. QED
      BY <2>2, <3>4, <3>5, <3>6 DEF BookGauges, Sides, DepthAt, Gauge
  <2>. QED
    BY <2>1, <2>2 DEF BookGauges, DepthAt, BestOf, SpreadGauge, Gauge
<1>8. \E i \in DOMAIN BookWrites(bk) : BookWrites(bk)[i].op = "sizes"
  <2> DEFINE U == A \o B \o C
             n == Len(U) + 1
  <2>1. U \in Seq(BookWriteSet) /\ Len(U) \in Nat /\ Len(S) = 1
    BY <1>4, <1>6, LenProperties
  <2> HIDE DEF U
  <2>2. /\ Len(U \o S) = n /\ (U \o S)[n] = S[1] /\ U \o S \in Seq(BookWriteSet)
    <3>1. /\ U \o S \in Seq(BookWriteSet) /\ Len(U \o S) = Len(U) + Len(S)
          /\ \A i \in 1..(Len(U) + Len(S)) :
               (U \o S)[i] = IF i <= Len(U) THEN U[i] ELSE S[i - Len(U)]
      <4>1. U \in Seq(BookWriteSet) /\ S \in Seq(BookWriteSet)
        BY <1>4, <2>1
      <4> HIDE DEF S, n
      <4>. QED
        BY <4>1, ConcatProperties
    <3>2. n \in 1..(Len(U) + Len(S)) /\ ~(n <= Len(U)) /\ n - Len(U) = 1
      BY <2>1
    <3>3. (U \o S)[n] = S[n - Len(U)]
      BY <3>1, <3>2
    <3>. QED
      BY <2>1, <3>1, <3>2, <3>3
  <2>3. /\ U \o S \o D \in Seq(BookWriteSet) /\ Len(U \o S \o D) = n + Len(D)
        /\ (U \o S \o D)[n] = (U \o S)[n] /\ Len(D) \in Nat
    BY <1>5, <2>1, <2>2, ConcatProperties, LenProperties
  <2>4. /\ U \o S \o D \o E \in Seq(BookWriteSet) /\ Len(U \o S \o D \o E) = n + Len(D) + Len(E)
        /\ (U \o S \o D \o E)[n] = (U \o S \o D)[n] /\ Len(E) \in Nat
    BY <1>5, <2>1, <2>3, ConcatProperties, LenProperties
  <2>5. BookWrites(bk) = U \o S \o D \o E
    BY <1>0 DEF U
  <2>6. n \in DOMAIN (U \o S \o D \o E)
    BY <2>1, <2>3, <2>4, LenProperties
  <2>7. BookWrites(bk)[n].op = "sizes"
    BY <1>4, <2>2, <2>3, <2>4, <2>5
  <2>. QED
    BY <2>5, <2>6, <2>7
<1>. QED
  BY <1>0, <1>6, <1>7, <1>8

\* A trade is counted, and then has prices written: its own, or 0 for one that OKX
\* stores and nobody can read.
PricesFollow(W, px) ==
  \A i \in DOMAIN W \ {1} : W[i].op = "price" /\ (W[i].value \in px \/ (W[i].value = 0 /\ px = {}))
HasPrice(W) == 2 \in DOMAIN W /\ W[2].op = "price"

TradeShape(W, px, stored) ==
  /\ W \in Seq([op : {"inc", "price"}, at : Gauges, value : Nat])
  /\ W # <<>> /\ W[1].op = "inc"
  /\ PricesFollow(W, px)
  /\ (px = {} /\ stored = FALSE) => DOMAIN W = {1}
  /\ px # {} => HasPrice(W)

\* A trade that counts is counted first; a price that can be read is written next.
LEMMA TradeWritesShape ==
  ASSUME NEW k, NEW read \in BOOLEAN, Counts(k, read),
         NEW px \in Options, NEW stored \in BOOLEAN,
         NEW W, W = TradeWrites(k, read, px, stored)
  PROVE  TradeShape(W, px, stored)
<1> DEFINE PW == [op : {"inc", "price"}, at : Gauges, value : Nat]
           w  == Write("inc", TradesGauge, 1)
           v(n) == Write("price", TradesGauge, n)
<1>1. /\ w \in PW /\ w.op = "inc"
      /\ \A n \in Nat : v(n) \in PW /\ v(n).op = "price" /\ v(n).value = n
  BY DEF Write, Gauges
<1>2. CASE px = {}
  <2>1. IfAny("price", TradesGauge, px) = <<>> /\ StoredWrites(px) = <<v(0)>>
    BY <1>2 DEF IfAny, StoredWrites
  <2>2. W = <<w>> \o <<>> \o (IF stored THEN <<v(0)>> ELSE <<>>)
    BY <2>1 DEF TradeWrites
  <2>3. PICK x : x = v(0) /\ x \in PW /\ x.op = "price" /\ x.value = 0
    BY <1>1
  <2>4. W = IF stored THEN <<w, x>> ELSE <<w>>
    <3> HIDE DEF w, v, PW
    <3>. QED
      BY <2>2, <2>3, <1>1
  <2> HIDE DEF w, v
  <2>5. CASE stored
    <3>1. /\ W \in Seq(PW) /\ W # <<>> /\ W[1] = w /\ DOMAIN W = 1..2 /\ W[2] = x
      <4> HIDE DEF PW
      <4>. QED
        BY <1>1, <2>3, <2>4, <2>5
    <3>2. W[1].op = "inc" /\ W[2].op = "price" /\ W[2].value = 0
      BY <1>1, <2>3, <3>1
    <3>3. \A i \in DOMAIN W : i # 1 => i = 2
      BY <3>1
    <3>. QED
      BY <1>2, <2>5, <3>1, <3>2, <3>3 DEF PricesFollow, TradeShape
  <2>6. CASE ~stored
    <3>1. /\ W \in Seq(PW) /\ W # <<>> /\ W[1] = w /\ DOMAIN W = 1..1
      <4> HIDE DEF PW
      <4>. QED
        BY <1>1, <2>4, <2>6
    <3>. QED
      BY <1>1, <1>2, <3>1 DEF PricesFollow, TradeShape
  <2>. QED
    BY <2>5, <2>6
<1>3. CASE px # {}
  <2>1. PICK p \in Nat : px = {p}
    BY <1>3, MetricsAssumption DEF Options
  <2>2. IfAny("price", TradesGauge, px) = <<v(p)>> /\ StoredWrites(px) = <<v(p)>>
    BY <2>1 DEF IfAny, StoredWrites
  <2>3. W = <<w>> \o <<v(p)>> \o (IF stored THEN <<v(p)>> ELSE <<>>)
    BY <2>2 DEF TradeWrites
  <2>4. PICK x : x = v(p) /\ x \in PW /\ x.op = "price" /\ x.value = p
    BY <1>1
  <2>5. W = IF stored THEN <<w, x, x>> ELSE <<w, x>>
    <3> HIDE DEF w, v, PW
    <3>. QED
      BY <2>3, <2>4, <1>1
  <2> HIDE DEF w, v
  <2>6. CASE stored
    <3>1. /\ W \in Seq(PW) /\ W # <<>> /\ W[1] = w /\ DOMAIN W = 1..3 /\ W[2] = x /\ W[3] = x
      <4> HIDE DEF PW
      <4>. QED
        BY <1>1, <2>4, <2>5, <2>6
    <3>2. /\ W[1].op = "inc" /\ W[2].op = "price" /\ W[2].value \in px
          /\ W[3].op = "price" /\ W[3].value \in px
      BY <1>1, <2>1, <2>4, <3>1
    <3>3. \A i \in DOMAIN W : i # 1 => i = 2 \/ i = 3
      BY <3>1
    <3>4. 2 \in DOMAIN W
      BY <3>1
    <3>. QED
      <4>1. PricesFollow(W, px)
        BY <3>1, <3>2, <3>3 DEF PricesFollow
      <4>. QED
        BY <1>3, <3>1, <3>2, <3>4, <4>1 DEF HasPrice, TradeShape
  <2>7. CASE ~stored
    <3>1. /\ W \in Seq(PW) /\ W # <<>> /\ W[1] = w /\ DOMAIN W = 1..2 /\ W[2] = x
      <4> HIDE DEF PW
      <4>. QED
        BY <1>1, <2>4, <2>5, <2>7
    <3>2. W[1].op = "inc" /\ W[2].op = "price" /\ W[2].value \in px
      BY <1>1, <2>1, <2>4, <3>1
    <3>3. (\A i \in DOMAIN W : i # 1 => i = 2) /\ 2 \in DOMAIN W
      BY <3>1
    <3>. QED
      <4>1. PricesFollow(W, px)
        BY <3>1, <3>2, <3>3 DEF PricesFollow
      <4>. QED
        BY <1>3, <3>1, <3>2, <3>3, <4>1 DEF HasPrice, TradeShape
  <2>. QED
    BY <2>6, <2>7
<1>. QED
  BY <1>2, <1>3 DEF TradeShape

\* A message that does not count leads to no writes.
LEMMA UncountedWrites ==
  ASSUME NEW k, NEW read \in BOOLEAN, ~Counts(k, read),
         NEW px \in Options, px # {} => read,
         NEW stored \in BOOLEAN, stored => read
  PROVE  TradeWrites(k, read, px, stored) = <<>>
<1>1. ~read /\ px = {} /\ ~stored
  BY DEF Counts
<1>. QED
  BY <1>1 DEF TradeWrites, IfAny

-----------------------------------------------------------------------------
(***************************************************************************)
(* What a gauge says after some books.                                     *)
(***************************************************************************)
LEMMA ShownNext ==
  ASSUME NEW l, NEW n \in Nat, NEW g
  PROVE  Shown(l, n + 1, g) = IF InBook(l[n + 1], g) # {} THEN InBook(l[n + 1], g)
                              ELSE Shown(l, n, g)
<1> DEFINE Says(i) == InBook(l[i], g)
           Latest(m) == {i \in {j \in 1..m : Says(j) # {} /\ \A h \in (j + 1)..m : Says(h) = {}} : TRUE}
<1>0. \A m \in Nat : Shown(l, m, g) = UNION {Says(i) : i \in Latest(m)}
  BY DEF Shown
<1>1. CASE Says(n + 1) # {}
  <2> HIDE DEF Says
  <2>1. Latest(n + 1) = {n + 1}
    <3>1. \A j \in 1..(n + 1) : j = n + 1 \/ n + 1 \in (j + 1)..(n + 1)
      OBVIOUS
    <3>2. n + 1 \in 1..(n + 1) /\ \A h \in (n + 1 + 1)..(n + 1) : FALSE
      OBVIOUS
    <3>. QED
      BY <1>1, <3>1, <3>2
  <2>2. Shown(l, n + 1, g) = Says(n + 1)
    <3>1. UNION {Says(i) : i \in {n + 1}} = Says(n + 1)
      OBVIOUS
    <3>2. n + 1 \in Nat
      OBVIOUS
    <3> HIDE DEF Latest
    <3>. QED
      BY <1>0, <2>1, <3>1, <3>2
  <2>. QED
    BY <1>1, <2>2 DEF Says
<1>2. CASE Says(n + 1) = {}
  <2> HIDE DEF Says
  <2>1. Latest(n + 1) = Latest(n)
    <3>1. \A j \in 1..(n + 1) : j \in 1..n \/ j = n + 1
      OBVIOUS
    <3>2. \A j \in 1..n : \A h : h \in (j + 1)..(n + 1) <=> h \in (j + 1)..n \/ h = n + 1
      OBVIOUS
    <3>3. 1..n \subseteq 1..(n + 1)
      OBVIOUS
    <3>. QED
      BY <1>2, <3>1, <3>2, <3>3
  <2>2. Shown(l, n + 1, g) = Shown(l, n, g)
    BY <1>0, <2>1
  <2>. QED
    BY <1>2, <2>2 DEF Says
<1>. QED
  BY <1>1, <1>2

\* A book published says what it has, and leaves the rest as it was.
LEMMA ShownAppend ==
  ASSUME NEW l \in Seq(Books), NEW bk \in Books, NEW g
  PROVE  LET m == Append(l, bk)
         IN  /\ \A n \in 0..Len(l) : Shown(m, n, g) = Shown(l, n, g)
             /\ Shown(m, Len(m), g) = IF InBook(bk, g) # {} THEN InBook(bk, g)
                                      ELSE Shown(l, Len(l), g)
<1> DEFINE m == Append(l, bk)
<1>1. /\ Len(l) \in Nat /\ Len(m) = Len(l) + 1 /\ m[Len(l) + 1] = bk
      /\ \A i \in 1..Len(l) : m[i] = l[i]
  BY AppendProperties, LenProperties
<1> HIDE DEF m
<1>2. ASSUME NEW n \in 0..Len(l) PROVE Shown(m, n, g) = Shown(l, n, g)
  <2>1. \A i \in 1..n : m[i] = l[i] /\ \A h \in (i + 1)..n : m[h] = l[h]
    BY <1>1
  <2>. QED
    BY <2>1 DEF Shown
<1>3. Len(l) \in 0..Len(l)
  BY <1>1
<1>. QED
  BY <1>1, <1>2, <1>3, ShownNext DEF m

\* What may have been seen: after a book, or in passing.
LEMMA SinceMember ==
  ASSUME NEW l, NEW n, NEW g, NEW x
  PROVE  x \in ShownSince(l, n, g) <=>
           \/ \E i \in n..Len(l) : x = Shown(l, i, g)
           \/ \E i \in (n + 1)..Len(l) : \E p \in Alike(l[i], g) : x = {l[i][g.side][p]}
<1> DEFINE P == {Shown(l, i, g) : i \in n..Len(l)}
           F(i) == {{l[i][g.side][p]} : p \in Alike(l[i], g)}
           Q == UNION {F(i) : i \in (n + 1)..Len(l)}
<1>1. ShownSince(l, n, g) = P \cup Q
  BY Zenon DEF ShownSince
<1>2. x \in Q <=> \E i \in (n + 1)..Len(l) : x \in F(i)
  <2> HIDE DEF F
  <2>. QED
    OBVIOUS
<1>3. \A i : x \in F(i) <=> \E p \in Alike(l[i], g) : x = {l[i][g.side][p]}
  OBVIOUS
<1>4. x \in P <=> \E i \in n..Len(l) : x = Shown(l, i, g)
  OBVIOUS
<1> HIDE DEF P, Q, F
<1>. QED
  BY <1>1, <1>2, <1>3, <1>4

\* What may be seen since a book may be seen since an earlier one, and later on.
LEMMA SinceGrows ==
  ASSUME NEW l \in Seq(Books), NEW g, NEW n \in Nat, n <= Len(l)
  PROVE  /\ Shown(l, Len(l), g) \in ShownSince(l, n, g)
         /\ Shown(l, n, g) \in ShownSince(l, n, g)
         /\ \A m \in 0..n : ShownSince(l, n, g) \subseteq ShownSince(l, m, g)
         /\ \A bk \in Books : ShownSince(l, n, g) \subseteq ShownSince(Append(l, bk), n, g)
<1>0. Len(l) \in Nat
  BY LenProperties
<1>1. Shown(l, Len(l), g) \in ShownSince(l, n, g) /\ Shown(l, n, g) \in ShownSince(l, n, g)
  <2>1. Len(l) \in n..Len(l) /\ n \in n..Len(l)
    BY <1>0
  <2>. QED
    BY <2>1 DEF ShownSince
<1>2. ASSUME NEW m \in 0..n PROVE ShownSince(l, n, g) \subseteq ShownSince(l, m, g)
  <2>1. n..Len(l) \subseteq m..Len(l) /\ (n + 1)..Len(l) \subseteq (m + 1)..Len(l)
    BY <1>0
  <2>. QED
    BY <2>1 DEF ShownSince
<1>3. ASSUME NEW bk \in Books
      PROVE  ShownSince(l, n, g) \subseteq ShownSince(Append(l, bk), n, g)
  <2> DEFINE k == Append(l, bk)
  <2>1. /\ Len(k) = Len(l) + 1 /\ \A i \in 1..Len(l) : k[i] = l[i]
        /\ \A i \in 0..Len(l) : Shown(k, i, g) = Shown(l, i, g)
    BY AppendProperties, ShownAppend
  <2> HIDE DEF k
  <2>2. ASSUME NEW x \in ShownSince(l, n, g) PROVE x \in ShownSince(k, n, g)
    <3>1. CASE \E i \in n..Len(l) : x = Shown(l, i, g)
      <4>1. PICK i \in n..Len(l) : x = Shown(l, i, g)
        BY <3>1
      <4>2. i \in 0..Len(l) /\ i \in n..Len(k)
        BY <1>0, <2>1
      <4>3. x = Shown(k, i, g)
        BY <2>1, <4>1, <4>2
      <4>. QED
        BY <4>2, <4>3 DEF ShownSince
    <3>2. CASE \E i \in (n + 1)..Len(l) : \E p \in Alike(l[i], g) : x = {l[i][g.side][p]}
      <4>1. PICK i \in (n + 1)..Len(l) : \E p \in Alike(l[i], g) : x = {l[i][g.side][p]}
        BY <3>2
      <4>2. i \in 1..Len(l) /\ i \in (n + 1)..Len(k)
        BY <1>0, <2>1
      <4>3. k[i] = l[i]
        BY <2>1, <4>2
      <4>. QED
        BY <4>1, <4>2, <4>3 DEF ShownSince
    <3>. QED
      BY <2>2, <3>1, <3>2, SinceMember
  <2>. QED
    BY <2>2 DEF k
<1>. QED
  BY <1>1, <1>2, <1>3
-----------------------------------------------------------------------------
(***************************************************************************)
(* The actions.                                                            *)
(***************************************************************************)
LEMMA KeyType ==
  ASSUME TypeOK, NEW c \in Clients
  PROVE  /\ key[c] \in Keys
         /\ Alone(c) => \A d \in Clients \ {c} : key[d] # key[c]
  BY DEF TypeOK, Keys, Alone, Owners

\* The first write is carried out, the others move up.
LEMMA WriteMoves ==
  ASSUME TypeOK, NEW c \in Clients, NEW op, NextWrite(c, op)
  PROVE  /\ todo[c] # <<>> /\ 1 \in DOMAIN todo[c]
         /\ Head(todo[c]) = todo[c][1] /\ todo[c][1] \in Writes /\ todo[c][1].op = op
         /\ todo' \in [Clients -> Seq(Writes)]
         /\ \A d \in Clients \ {c} : todo'[d] = todo[d]
         /\ \A i \in DOMAIN todo'[c] : /\ i \in Nat /\ i + 1 \in DOMAIN todo[c]
                                       /\ i + 1 # 1 /\ todo'[c][i] = todo[c][i + 1]
         /\ \A i \in DOMAIN todo[c] : /\ i \in Nat
                                      /\ i # 1 => /\ i - 1 \in DOMAIN todo'[c]
                                                  /\ todo'[c][i - 1] = todo[c][i]
<1>1. todo[c] \in Seq(Writes) /\ todo[c] # <<>>
  BY DEF TypeOK, NextWrite
<1>2. /\ Head(todo[c]) = todo[c][1] /\ Head(todo[c]) \in Writes
      /\ Tail(todo[c]) \in Seq(Writes) /\ 1 \in DOMAIN todo[c]
      /\ Len(todo[c]) \in Nat /\ Len(todo[c]) > 0
      /\ DOMAIN todo[c] = 1..Len(todo[c]) /\ DOMAIN Tail(todo[c]) = 1..(Len(todo[c]) - 1)
      /\ \A i \in DOMAIN Tail(todo[c]) : Tail(todo[c])[i] = todo[c][i + 1]
  BY <1>1, ReadOne
<1>3. /\ todo' \in [Clients -> Seq(Writes)] /\ todo'[c] = Tail(todo[c])
      /\ \A d \in Clients \ {c} : todo'[d] = todo[d]
  BY <1>2 DEF TypeOK, NextWrite
<1>4. \A i \in DOMAIN todo[c] : i # 1 => i - 1 \in DOMAIN Tail(todo[c]) /\ (i - 1) + 1 = i
  BY <1>2
<1>5. \A i \in DOMAIN Tail(todo[c]) : i \in Nat /\ i + 1 \in DOMAIN todo[c] /\ i + 1 # 1
  BY <1>2
<1>6. \A i \in DOMAIN todo[c] : i # 1 => Tail(todo[c])[i - 1] = todo[c][i]
  BY <1>2, <1>4
<1>. QED
  BY <1>1, <1>2, <1>3, <1>4, <1>5, <1>6 DEF NextWrite

\* What is due after it.
LEMMA WriteDue ==
  ASSUME TypeOK, NEW c \in Clients, NEW op, NextWrite(c, op)
  PROVE  /\ \A o : \A i \in Due(c, o)' : i + 1 \in Due(c, o) /\ i \in Nat /\ i # 0
                                       /\ todo'[c][i] = todo[c][i + 1]
         /\ \A o : \A i \in Due(c, o) : i # 1 => i - 1 \in Due(c, o)'
         /\ \A o : 1 \in Due(c, o) <=> o = op
         /\ \A o : \A d \in Clients \ {c} : Due(d, o)' = Due(d, o)
<1>1. ASSUME NEW o, NEW i \in Due(c, o)'
      PROVE  i + 1 \in Due(c, o) /\ i \in Nat /\ i # 0 /\ todo'[c][i] = todo[c][i + 1]
  <2>1. i \in DOMAIN todo'[c] /\ todo'[c][i].op = o
    BY DEF Due
  <2>2. i \in Nat /\ i + 1 # 1 /\ i + 1 \in DOMAIN todo[c] /\ todo'[c][i] = todo[c][i + 1]
    BY <2>1, WriteMoves
  <2>. QED
    BY <2>1, <2>2 DEF Due
<1>2. ASSUME NEW o, NEW i \in Due(c, o), i # 1
      PROVE  i - 1 \in Due(c, o)'
  <2>1. i \in DOMAIN todo[c] /\ todo[c][i].op = o
    BY DEF Due
  <2>0. \A j \in DOMAIN todo[c] : j # 1 => /\ j - 1 \in DOMAIN todo'[c]
                                           /\ todo'[c][j - 1] = todo[c][j]
    BY WriteMoves
  <2>2. i - 1 \in DOMAIN todo'[c] /\ todo'[c][i - 1] = todo[c][i]
    BY <1>2, <2>0, <2>1
  <2>. QED
    BY <2>1, <2>2 DEF Due
<1>3. ASSUME NEW o PROVE 1 \in Due(c, o) <=> o = op
  BY WriteMoves DEF Due
<1>4. ASSUME NEW o, NEW d \in Clients \ {c} PROVE Due(d, o)' = Due(d, o)
  <2>1. todo'[d] = todo[d]
    BY WriteMoves
  <2>. QED
    BY <2>1 DEF Due
<1>. QED
  BY <1>1, <1>2, <1>3, <1>4

\* A report finds nothing under way.
LEMMA ReportFacts ==
  ASSUME TypeOK, TodoShape, NEW c \in Clients, Connect(c) \/ ConnectFailed(c) \/ Disconnect(c)
  PROVE  /\ todo[c] = <<>> /\ Report(c) /\ up' \in [Clients -> BOOLEAN]
         /\ \A d \in Clients \ {c} : up'[d] = up[d]
  BY DEF TypeOK, TodoShape, Connect, ConnectFailed, Disconnect

\* The step of a client that carries out a write.
WriteStep(c) == SetGauge(c) \/ CountTrade(c) \/ SetSizes(c) \/ SetPrice(c)

\* A write of sizes or of a book's gauge has a book to go by.
LEMMA LastBook ==
  ASSUME TypeOK, TodoShape, NEW c \in Clients, Due(c, "set") \cup Due(c, "sizes") # {}
  PROVE  Len(log[c]) \in DOMAIN log[c] /\ log[c][Len(log[c])] \in Books
<1>1. log[c] \in Seq(Books) /\ opened[c] \in Nat /\ Len(log[c]) > opened[c]
  BY DEF TypeOK, TodoShape
<1>2. Len(log[c]) \in 1..Len(log[c]) /\ DOMAIN log[c] = 1..Len(log[c])
  BY <1>1, LenProperties
<1>. QED
  BY <1>1, <1>2, ElementOfSeq

\* How many books of a client are published to the end.
LEMMA SettledFacts ==
  ASSUME TypeOK, TodoShape, NEW c \in Clients
  PROVE  /\ Settled(c) \in Nat /\ Settled(c) <= Len(log[c]) /\ Len(log[c]) \in Nat
         /\ Settled(c) = IF Due(c, "set") \cup Due(c, "sizes") # {} THEN Len(log[c]) - 1
                         ELSE Len(log[c])
<1>1. Len(log[c]) \in Nat
  BY LenProperties DEF TypeOK
<1>2. Settled(c) = IF Due(c, "set") \cup Due(c, "sizes") # {} THEN Len(log[c]) - 1
                   ELSE Len(log[c])
  BY DEF Settled, Due
<1>3. Due(c, "set") \cup Due(c, "sizes") # {} => Len(log[c]) > 0
  BY <1>1 DEF TodoShape, TypeOK
<1>. QED
  BY <1>1, <1>2, <1>3

\* Every step keeps the types.
LEMMA TypeStep ==
  ASSUME TypeOK, TodoShape, [Next]_vars
  PROVE  TypeOK'
<1>1. CASE UNCHANGED vars
  BY <1>1 DEF vars, TypeOK, IsRegistry, Keys
<1>2. ASSUME NEW c \in Clients, Connect(c) \/ ConnectFailed(c) \/ Disconnect(c)
      PROVE  TypeOK'
  <2>1. Report(c) /\ up' \in [Clients -> BOOLEAN] /\ key[c] \in Keys
    BY <1>2, ReportFacts, KeyType
  <2>2. FreshEntry \in [last : Options \cup {{0}}, size : [Sides -> Nat]]
    BY DEF FreshEntry, Options
  <2>3. status' \in [Keys -> [last : Options \cup {{0}}, size : [Sides -> Nat]]]
    BY <2>1, <2>2 DEF Report, TypeOK
  <2>4. /\ opened' \in [Clients -> Nat] /\ \A d \in Clients : opened'[d] <= Len(log'[d])
        /\ traded' \in [Clients -> Options]
    <3>1. \A d \in Clients : Len(log[d]) \in Nat
      BY LenProperties DEF TypeOK
    <3>2. {} \in Options
      BY DEF Options
    <3>. QED
      BY <2>1, <3>1, <3>2 DEF Report, TypeOK
  <2>. QED
    BY <2>1, <2>3, <2>4 DEF Report, TypeOK, IsRegistry
<1>3. ASSUME NEW c \in Clients, NEW bk \in Books, Publish(c, bk) PROVE TypeOK'
  <2>1. BookWrites(bk) \in Seq(Writes)
    BY BookWritesBring, SeqWiden DEF BookWriteSet
  <2>2. todo' \in [Clients -> Seq(Writes)]
    BY <1>3, <2>1 DEF Publish, TypeOK
  <2>3. /\ log' \in [Clients -> Seq(Books)]
        /\ \A d \in Clients : opened'[d] <= Len(log'[d])
    <3>1. /\ Append(log[c], bk) \in Seq(Books) /\ Len(Append(log[c], bk)) = Len(log[c]) + 1
          /\ Len(log[c]) \in Nat
      BY AppendProperties, LenProperties DEF TypeOK
    <3>2. opened[c] <= Len(log[c]) + 1
      BY <3>1 DEF TypeOK
    <3>. QED
      BY <1>3, <3>1, <3>2 DEF Publish, Receive, TypeOK
  <2>4. handled' \in 0..MaxMessages
    BY <1>3, MetricsAssumption DEF Publish, Receive, TypeOK
  <2>. QED
    <3>1. UNCHANGED <<key, up, gauge, status, request, opened, traded, counted>>
      BY <1>3 DEF Publish, Receive
    <3>. QED
      BY <2>2, <2>3, <2>4, <3>1 DEF TypeOK, IsRegistry, Keys
<1>4. ASSUME NEW c \in Clients, NEW read \in BOOLEAN, NEW px \in Options,
             NEW stored \in BOOLEAN, Trade(c, read, px, stored)
      PROVE  TypeOK'
  <2> DEFINE W == TradeWrites(key[c], read, px, stored)
             PW == [op : {"inc", "price"}, at : Gauges, value : Nat]
  <2>0. ASSUME ~Counts(key[c], read) PROVE todo' \in [Clients -> Seq(Writes)]
    <3>1. todo' = [todo EXCEPT ![c] = <<>>]
      BY <1>4, <2>0, UncountedWrites DEF Trade
    <3>2. <<>> \in Seq(Writes)
      OBVIOUS
    <3>. QED
      BY <3>1, <3>2 DEF TypeOK
  <2>1. ASSUME Counts(key[c], read) PROVE W \in Seq(Writes)
    <3>0. W = TradeWrites(key[c], read, px, stored)
      OBVIOUS
    <3>1. /\ W \in Seq(PW) /\ W[1].op = "inc" /\ PricesFollow(W, px)
      <4> HIDE DEF W
      <4>. QED
        BY <2>1, <3>0, TradeWritesShape DEF TradeShape
    <3> HIDE DEF W
    <3>2. Len(W) \in Nat /\ DOMAIN W = 1..Len(W) /\ W = [i \in 1..Len(W) |-> W[i]]
      BY <3>1, LenProperties
    <3>3. ASSUME NEW i \in 1..Len(W) PROVE W[i] \in Writes
      <4>1. W[i] \in PW
        BY <3>1, ElementOfSeq
      <4>2. CASE i = 1
        BY <3>1, <4>1, <4>2 DEF Writes
      <4>3. CASE i # 1
        <5>1. W[i].op = "price" /\ W[i].value \in TradePrices \cup {0}
          BY <3>1, <3>2, <4>3 DEF Options, PricesFollow
        <5>. QED
          BY <4>1, <5>1 DEF Writes
      <4>. QED
        BY <4>2, <4>3
    <3>4. W \in Seq(Writes)
      BY <3>2, <3>3
    <3>. QED
      BY <3>4 DEF W
  <2>2. todo' \in [Clients -> Seq(Writes)]
    <3> HIDE DEF W
    <3>1. Counts(key[c], read) => todo' = [todo EXCEPT ![c] = W]
      BY <1>4 DEF Trade, W
    <3>. QED
      BY <2>0, <2>1, <3>1 DEF TypeOK
  <2>3. traded' \in [Clients -> Options]
    BY <1>4 DEF Trade, TypeOK
  <2>4. counted' \in [Keys -> Nat]
    BY <1>4, KeyType DEF Trade, TypeOK
  <2>5. handled' \in 0..MaxMessages
    BY <1>4, MetricsAssumption DEF Trade, Receive, TypeOK
  <2>. QED
    <3>1. UNCHANGED <<key, up, gauge, status, request, opened, log>>
      BY <1>4 DEF Trade, Receive
    <3>. QED
      BY <2>2, <2>3, <2>4, <2>5, <3>1 DEF TypeOK, IsRegistry
<1>5. ASSUME NEW c \in Clients, SetGauge(c) PROVE TypeOK'
  <2>1. /\ todo' \in [Clients -> Seq(Writes)] /\ key[c] \in Keys
        /\ Head(todo[c]) \in Writes /\ Head(todo[c]).op = "set"
    BY <1>5, WriteMoves, KeyType DEF SetGauge
  <2>2. Head(todo[c]).at \in Gauges /\ Head(todo[c]).value \in Int
    BY <2>1 DEF Writes, Gauges
  <2>3. DOMAIN gauge' = Keys /\ \A k \in Keys : IsRegistry(gauge'[k])
    BY <1>5, <2>1, <2>2 DEF SetGauge, TypeOK, IsRegistry
  <2>. QED
    BY <1>5, <2>1, <2>3 DEF SetGauge, NextWrite, TypeOK, IsRegistry
<1>6. ASSUME NEW c \in Clients, CountTrade(c) PROVE TypeOK'
  <2>1. todo' \in [Clients -> Seq(Writes)] /\ key[c] \in Keys
    BY <1>6, WriteMoves, KeyType DEF CountTrade
  <2>2. TradesGauge \in Gauges
    BY DEF Gauges
  <2>3. DOMAIN gauge' = Keys /\ \A k \in Keys : IsRegistry(gauge'[k])
    BY <1>6, <2>1, <2>2 DEF CountTrade, TypeOK, IsRegistry
  <2>. QED
    BY <1>6, <2>1, <2>3 DEF CountTrade, NextWrite, TypeOK, IsRegistry
<1>7. ASSUME NEW c \in Clients, SetSizes(c) PROVE TypeOK'
  <2>1. todo' \in [Clients -> Seq(Writes)] /\ key[c] \in Keys
    BY <1>7, WriteMoves, KeyType DEF SetSizes
  <2>2. 1 \in Due(c, "sizes")
    BY <1>7, WriteDue DEF SetSizes
  <2>3. Totals(log[c][Len(log[c])]) \in [Sides -> Nat]
    BY <2>2, LastBook, TotalsType
  <2>4. status' \in [Keys -> [last : Options \cup {{0}}, size : [Sides -> Nat]]]
    BY <1>7, <2>1, <2>3 DEF SetSizes, TypeOK
  <2>. QED
    <3>1. UNCHANGED <<key, up, gauge, request, log, opened, traded, counted, handled>>
      BY <1>7 DEF SetSizes, NextWrite
    <3>. QED
      BY <2>1, <2>4, <3>1 DEF TypeOK, IsRegistry
<1>8. ASSUME NEW c \in Clients, SetPrice(c) PROVE TypeOK'
  <2>1. /\ todo' \in [Clients -> Seq(Writes)] /\ key[c] \in Keys
        /\ Head(todo[c]) \in Writes /\ Head(todo[c]).op = "price"
    BY <1>8, WriteMoves, KeyType DEF SetPrice
  <2>2. {Head(todo[c]).value} \in Options \cup {{0}}
    BY <2>1 DEF Writes, Options
  <2>3. status' \in [Keys -> [last : Options \cup {{0}}, size : [Sides -> Nat]]]
    BY <1>8, <2>1, <2>2 DEF SetPrice, TypeOK
  <2>4. UNCHANGED <<key, up, gauge, request, log, opened, traded, counted, handled>>
    BY <1>8 DEF SetPrice, NextWrite
  <2>. QED
    BY <2>1, <2>3, <2>4 DEF TypeOK, IsRegistry
<1>9. ASSUME NEW k \in Keys, NEW order \in GatherOrders, Begin(k, order) PROVE TypeOK'
  <2>1. /\ order \in Seq(Gauges) /\ IsRegistry(NoGauges)
    BY GatherAssumption DEF IsRegistry, NoGauges
  <2>2. [c \in Clients |-> Settled(c)] \in [Clients -> Nat]
    BY SettledFacts
  <2>3. request.begun + 1 \in 0..MaxRequests
    BY <1>9, MetricsAssumption DEF Begin, TypeOK
  <2>4. UNCHANGED <<key, up, todo, gauge, status, log, opened, traded, counted, handled>>
    BY <1>9 DEF Begin
  <2>5. request' = [of |-> k, left |-> order, seen |-> NoGauges,
                    since |-> [c \in Clients |-> Settled(c)], begun |-> request.begun + 1]
    BY <1>9 DEF Begin
  <2>6. /\ DOMAIN request' = {"of", "left", "seen", "since", "begun"} /\ request'.of \in Keys
        /\ request'.left \in Seq(Gauges) /\ IsRegistry(request'.seen)
        /\ request'.since \in [Clients -> Nat] /\ request'.begun \in 0..MaxRequests
    BY <2>1, <2>2, <2>3, <2>5
  <2>. QED
    <3>1. request'.begun > 0
      BY <2>5, <2>3, MetricsAssumption DEF TypeOK
    <3>. QED
      BY <2>4, <2>6, <3>1 DEF TypeOK, IsRegistry, Keys
<1>10. ASSUME Gather PROVE TypeOK'
  <2>1. Head(request.left) \in Gauges /\ Tail(request.left) \in Seq(Gauges)
    BY <1>10, ReadOne DEF Gather, TypeOK
  <2>2. UNCHANGED <<key, up, todo, gauge, status, log, opened, traded, counted, handled>>
    BY <1>10 DEF Gather
  <2>3. /\ DOMAIN request' = DOMAIN request /\ request'.of = request.of
        /\ request'.left = Tail(request.left)
        /\ request'.seen = [request.seen EXCEPT ![Head(request.left)] =
                              gauge[request.of][Head(request.left)]]
        /\ request'.since = request.since /\ request'.begun = request.begun
    BY <1>10 DEF Gather, TypeOK
  <2>4. IsRegistry(request'.seen)
    <3>1. IsRegistry(gauge[request.of]) /\ IsRegistry(request.seen)
      BY <1>10 DEF Gather, TypeOK
    <3>. QED
      BY <2>1, <2>3, <3>1 DEF IsRegistry
  <2>. QED
    <3>1. /\ request.begun > 0 /\ request.begun \in 0..MaxRequests /\ request.of \in Keys
          /\ request.since \in [Clients -> Nat]
      BY <1>10 DEF Gather, TypeOK
    <3>2. /\ DOMAIN request' = {"of", "left", "seen", "since", "begun"}
          /\ request'.of \in Keys /\ request'.left \in Seq(Gauges) /\ IsRegistry(request'.seen)
          /\ request'.since \in [Clients -> Nat] /\ request'.begun \in 0..MaxRequests
          /\ request'.begun > 0
      BY <2>1, <2>3, <2>4, <3>1 DEF TypeOK
    <3>. QED
      BY <2>2, <3>2 DEF TypeOK, IsRegistry, Keys
<1>. QED
  BY <1>1, <1>2, <1>3, <1>4, <1>5, <1>6, <1>7, <1>8, <1>9, <1>10 DEF Next
-----------------------------------------------------------------------------
(***************************************************************************)
(* What is due after each step.                                            *)
(***************************************************************************)
LEMMA PublishDue ==
  ASSUME TypeOK, NEW c \in Clients, NEW bk \in Books, Publish(c, bk)
  PROVE  /\ todo'[c] = BookWrites(bk) /\ todo[c] = <<>> /\ up[c]
         /\ \A d \in Clients \ {c} : todo'[d] = todo[d] /\ log'[d] = log[d]
         /\ \A o : Due(c, o) = {} /\ \A d \in Clients \ {c} : Due(d, o)' = Due(d, o)
         /\ Due(c, "inc")' = {} /\ Due(c, "price")' = {} /\ Due(c, "sizes")' # {}
         /\ log[c] \in Seq(Books) /\ log'[c] = Append(log[c], bk)
         /\ Len(log[c]) \in Nat /\ Len(log'[c]) = Len(log[c]) + 1
         /\ log'[c][Len(log'[c])] = bk
         /\ \A i \in DOMAIN log[c] : i \in DOMAIN log'[c] /\ log'[c][i] = log[c][i]
<1>1. /\ todo'[c] = BookWrites(bk) /\ todo[c] = <<>> /\ up[c]
      /\ \A d \in Clients \ {c} : todo'[d] = todo[d] /\ log'[d] = log[d]
      /\ log[c] \in Seq(Books) /\ log'[c] = Append(log[c], bk)
  BY DEF Publish, Receive, TypeOK
<1>2. \A o : Due(c, o) = {} /\ \A d \in Clients \ {c} : Due(d, o)' = Due(d, o)
  BY <1>1 DEF Due
<1>3. \A i \in DOMAIN todo'[c] : todo'[c][i].op \in {"set", "sizes"}
  <2>1. BookWrites(bk) \in Seq(BookWriteSet)
    BY BookWritesBring
  <2>2. \A i \in DOMAIN BookWrites(bk) : BookWrites(bk)[i] \in BookWriteSet
    BY <2>1, ElementOfSeq, LenProperties
  <2>. QED
    BY <1>1, <2>2 DEF BookWriteSet
<1>4. Due(c, "inc")' = {} /\ Due(c, "price")' = {}
  BY <1>3 DEF Due
<1>5. Due(c, "sizes")' # {}
  BY <1>1, BookWritesBring DEF Due
<1>6. /\ Len(log[c]) \in Nat /\ Len(log'[c]) = Len(log[c]) + 1
      /\ log'[c][Len(log'[c])] = bk
      /\ \A i \in DOMAIN log[c] : i \in DOMAIN log'[c] /\ log'[c][i] = log[c][i]
  <2>1. /\ Len(log[c]) \in Nat /\ DOMAIN log[c] = 1..Len(log[c])
        /\ Append(log[c], bk) \in Seq(Books)
        /\ Len(Append(log[c], bk)) = Len(log[c]) + 1
        /\ \A i \in 1..Len(log[c]) : Append(log[c], bk)[i] = log[c][i]
        /\ Append(log[c], bk)[Len(log[c]) + 1] = bk
    BY <1>1, AppendProperties, LenProperties
  <2>2. DOMAIN Append(log[c], bk) = 1..(Len(log[c]) + 1)
    BY <2>1, LenProperties
  <2>. QED
    BY <1>1, <2>1, <2>2
<1>. QED
  BY <1>1, <1>2, <1>4, <1>5, <1>6

\* What a trade message has still to write.
LEMMA TradeDue ==
  ASSUME TypeOK, NEW c \in Clients, NEW read \in BOOLEAN, NEW px \in Options,
         NEW stored \in BOOLEAN, Trade(c, read, px, stored)
  PROVE  /\ todo[c] = <<>> /\ up[c] /\ PricesFollow(todo'[c], px)
         /\ \A d \in Clients \ {c} : todo'[d] = todo[d]
         /\ \A o : Due(c, o) = {} /\ \A d \in Clients \ {c} : Due(d, o)' = Due(d, o)
         /\ Due(c, "inc")' = IF Counts(key[c], read) THEN {1} ELSE {}
         /\ Due(c, "set")' = {} /\ Due(c, "sizes")' = {}
         /\ Due(c, "price")' # {} => Counts(key[c], read)
         /\ px # {} => Due(c, "price")' # {}
         /\ \A i \in Due(c, "price")' :
              \/ {todo'[c][i].value} = px
              \/ px = {} /\ todo'[c][i].value = 0 /\ Exchange[key[c]] = "okx"
<1>1. /\ todo'[c] = TradeWrites(key[c], read, px, stored) /\ todo[c] = <<>> /\ up[c]
      /\ \A d \in Clients \ {c} : todo'[d] = todo[d]
  BY DEF Trade, Receive, TypeOK
<1>2. \A o : Due(c, o) = {} /\ \A d \in Clients \ {c} : Due(d, o)' = Due(d, o)
  BY <1>1 DEF Due
<1>3. CASE ~Counts(key[c], read)
  <2>1. todo'[c] = <<>> /\ px = {}
    BY <1>1, <1>3, UncountedWrites DEF Trade, Counts
  <2>2. \A o : Due(c, o)' = {}
    BY <2>1 DEF Due
  <2>. QED
    BY <1>1, <1>2, <1>3, <2>1, <2>2 DEF PricesFollow
<1>4. CASE Counts(key[c], read)
  <2>1. PICK W : W = TradeWrites(key[c], read, px, stored)
    OBVIOUS
  <2>2. /\ W \in Seq([op : {"inc", "price"}, at : Gauges, value : Nat])
        /\ W # <<>> /\ W[1].op = "inc" /\ PricesFollow(W, px)
        /\ (px = {} /\ stored = FALSE) => DOMAIN W = {1}
        /\ px # {} => HasPrice(W)
    <3>1. TradeShape(W, px, stored)
      BY <1>4, <2>1, TradeWritesShape
    <3>. QED
      BY <3>1 DEF TradeShape
  <2>3. todo'[c] = W
    BY <1>1, <2>1
  <2>4. \A o : Due(c, o)' = {i \in DOMAIN W : W[i].op = o}
    BY <2>3 DEF Due
  <2>5. 1 \in DOMAIN W
    BY <2>2, ReadOne
  <2>6. \A i \in DOMAIN W : i = 1 \/ W[i].op = "price"
    BY <2>2 DEF PricesFollow
  <2>7. Due(c, "inc")' = {1} /\ Due(c, "set")' = {} /\ Due(c, "sizes")' = {}
    BY <2>2, <2>4, <2>5, <2>6
  <2>8. px # {} => Due(c, "price")' # {}
    BY <2>2, <2>4 DEF HasPrice
  <2>9. ASSUME NEW i \in Due(c, "price")'
        PROVE  \/ {todo'[c][i].value} = px
               \/ px = {} /\ todo'[c][i].value = 0 /\ Exchange[key[c]] = "okx"
    <3>1. i \in DOMAIN W /\ i # 1
      BY <2>2, <2>4
    <3>2. W[i].value \in px \/ (W[i].value = 0 /\ px = {})
      BY <2>2, <3>1 DEF PricesFollow
    <3>3. CASE W[i].value \in px
      <4>1. {W[i].value} = px
        BY <3>3 DEF Options
      <4>. QED
        BY <4>1, <2>3
    <3>4. CASE W[i].value = 0 /\ px = {}
      <4>1. stored # FALSE
        BY <2>2, <3>1, <3>4
      <4>2. Exchange[key[c]] = "okx"
        BY <3>4, <4>1 DEF Trade
      <4>. QED
        BY <2>3, <3>4, <4>2
    <3>. QED
      BY <3>2, <3>3, <3>4
  <2>. QED
    BY <1>1, <1>2, <1>4, <2>2, <2>3, <2>7, <2>8, <2>9
<1>. QED
  BY <1>3, <1>4

\* One message at a time.
LEMMA TodoShapeStep ==
  ASSUME TypeOK, TodoShape, [Next]_vars
  PROVE  TodoShape'
<1> DEFINE Shape(d) == /\ todo[d] # <<>> => up[d]
                       /\ Due(d, "inc") \subseteq {1}
                       /\ Due(d, "set") \cup Due(d, "sizes") # {} => Len(log[d]) > opened[d]
<1>0. \A d \in Clients : Shape(d)
  BY DEF TodoShape
<1>k. ASSUME NEW d \in Clients, todo'[d] = todo[d], up'[d] = up[d], log'[d] = log[d],
             opened'[d] = opened[d]
      PROVE  Shape(d)'
  BY <1>0, <1>k DEF Due
<1> SUFFICES ASSUME NEW d \in Clients PROVE Shape(d)'
  BY DEF TodoShape
<1>1. CASE UNCHANGED <<todo, up, log, opened>>
  BY <1>1, <1>k
<1>2. ASSUME NEW c \in Clients, Connect(c) \/ ConnectFailed(c) \/ Disconnect(c)
      PROVE  Shape(d)'
  <2>1. /\ todo[c] = <<>> /\ \A e \in Clients \ {c} : up'[e] = up[e]
        /\ UNCHANGED <<todo, log>> /\ \A e \in Clients \ {c} : opened'[e] = opened[e]
    BY <1>2, ReportFacts DEF Report, TypeOK
  <2>2. CASE d = c
    BY <2>1, <2>2 DEF Due
  <2>. QED
    BY <1>k, <2>1, <2>2
<1>3. ASSUME NEW c \in Clients, NEW bk \in Books, Publish(c, bk) PROVE Shape(d)'
  <2>1. UNCHANGED <<up, opened>>
    BY <1>3 DEF Publish, Receive
  <2>2. CASE d = c
    <3>1. Len(log'[c]) > opened'[c]
      <4>1. opened[c] \in Nat /\ opened[c] <= Len(log[c])
        BY DEF TypeOK
      <4>. QED
        BY <1>3, <2>1, <4>1, PublishDue
    <3>. QED
      BY <1>3, <2>1, <2>2, <3>1, PublishDue
  <2>. QED
    BY <1>3, <1>k, <2>1, <2>2, PublishDue
<1>4. ASSUME NEW c \in Clients, NEW read \in BOOLEAN, NEW px \in Options,
             NEW stored \in BOOLEAN, Trade(c, read, px, stored)
      PROVE  Shape(d)'
  <2>1. UNCHANGED <<up, opened, log>>
    BY <1>4 DEF Trade, Receive
  <2>. QED
    BY <1>4, <1>k, <2>1, TradeDue
<1>5. ASSUME NEW c \in Clients, NEW op, NextWrite(c, op) PROVE Shape(d)'
  <2>1. UNCHANGED <<up, opened, log>>
    BY <1>5 DEF NextWrite
  <2>2. CASE d = c
    <3>1. todo[c] # <<>>
      BY <1>5 DEF NextWrite
    <3>2. Due(c, "inc")' \subseteq {1}
      BY <1>0, <1>5, WriteDue
    <3>3. Due(c, "set")' \cup Due(c, "sizes")' # {} => Due(c, "set") \cup Due(c, "sizes") # {}
      BY <1>5, WriteDue
    <3>. QED
      BY <1>0, <2>1, <2>2, <3>1, <3>2, <3>3
  <2>. QED
    <3>1. d # c => todo'[d] = todo[d]
      BY <1>5, WriteMoves
    <3>. QED
      BY <1>k, <2>1, <2>2, <3>1
<1>6. ASSUME NEW c \in Clients, SetGauge(c) \/ CountTrade(c) \/ SetSizes(c) \/ SetPrice(c)
      PROVE  Shape(d)'
  BY <1>5, <1>6 DEF SetGauge, CountTrade, SetSizes, SetPrice
<1>7. ASSUME NEW k \in Keys, NEW order \in GatherOrders, Begin(k, order)
      PROVE  UNCHANGED <<todo, up, log, opened>>
  BY <1>7 DEF Begin
<1>8. Gather \/ UNCHANGED vars => UNCHANGED <<todo, up, log, opened>>
  BY DEF Gather, vars
<1>. QED
  BY <1>1, <1>2, <1>3, <1>4, <1>6, <1>7, <1>8 DEF Next

-----------------------------------------------------------------------------
(***************************************************************************)
(* The counter of trades.                                                  *)
(***************************************************************************)
\* What a counter that may not exist yet says, and who is about to increment it.
Counter(S) == IF S = {} THEN 0 ELSE CHOOSE n \in S : TRUE
DueAt(k)   == {c \in Owners(k) : Due(c, "inc") # {}}
CounterAt(k) == Counter(gauge[k][TradesGauge]) + Cardinality(DueAt(k)) = counted[k]

\* The clients keep their keys.
LEMMA KeyStays ==
  ASSUME [Next]_vars
  PROVE  key' = key /\ Keys' = Keys /\ \A c : Alone(c)' = Alone(c) /\ \A k : Owners(k)' = Owners(k)
<1>1. key' = key
  BY DEF Next, vars, Connect, ConnectFailed, Disconnect, Report, Publish, Trade, Receive,
         SetGauge, CountTrade, SetSizes, SetPrice, NextWrite, Begin, Gather
<1>. QED
  BY <1>1 DEF Alone, Owners, Keys

\* An increment adds one, to a counter that is not there yet as well.
LEMMA CounterUp ==
  ASSUME NEW S \in SUBSET Int, \A m, n \in S : m = n
  PROVE  /\ Counter(S) \in Int
         /\ Counter(IF S = {} THEN {1} ELSE {n + 1 : n \in S}) = Counter(S) + 1
<1>1. CASE S = {}
  BY <1>1 DEF Counter
<1>2. CASE S # {}
  <2>1. PICK n \in S : S = {n}
    BY <1>2
  <2>2. {m + 1 : m \in S} = {n + 1}
    BY <2>1
  <2>. QED
    BY <1>2, <2>1, <2>2 DEF Counter
<1>. QED
  BY <1>1, <1>2

\* The counter is no gauge of a book.
LEMMA TradesApart == TradesGauge \in Gauges /\ TradesGauge \notin BookGauges
<1>1. \A s, p : TradesGauge # BestOf(s) /\ TradesGauge # DepthAt(s, p)
  BY DEF TradesGauge, BestOf, DepthAt, Gauge
<1>2. TradesGauge # SpreadGauge
  BY DEF TradesGauge, SpreadGauge, Gauge
<1>3. ASSUME TradesGauge \in BookGauges PROVE FALSE
  <2>1. CASE TradesGauge \in {BestOf(s) : s \in Sides}
    BY <1>1, <2>1
  <2>2. CASE TradesGauge \in {DepthAt(s, p) : s \in Sides, p \in Prices}
    BY <1>1, <2>2
  <2>. QED
    BY <1>2, <1>3, <2>1, <2>2 DEF BookGauges
<1>. QED
  BY <1>3 DEF Gauges

\* Whoever is due to increment a counter does so at once: it is the first write.
LEMMA IncFirst ==
  ASSUME TypeOK, TodoShape, NEW c \in Clients, NEW op, NextWrite(c, op)
  PROVE  /\ Due(c, "inc") = IF op = "inc" THEN {1} ELSE {}
         /\ Due(c, "inc")' = {}
<1>1. Due(c, "inc") = IF op = "inc" THEN {1} ELSE {}
  BY WriteDue DEF TodoShape
<1>2. ASSUME NEW i \in Due(c, "inc")' PROVE FALSE
  <2>1. i + 1 \in Due(c, "inc") /\ i \in Nat /\ i # 0
    BY WriteDue
  <2>. QED
    BY <1>1, <2>1
<1>. QED
  BY <1>1, <1>2

\* The counter follows the messages.
LEMMA CounterStep ==
  ASSUME TypeOK, TodoShape, TradesCounted, [Next]_vars
  PROVE  \A k \in Keys : CounterAt(k)'
<1>0. \A k \in Keys : Counter(gauge[k][TradesGauge]) + Cardinality(DueAt(k)) = counted[k]
  BY DEF TradesCounted, Counter, DueAt, Due
<1>k. key' = key
  BY KeyStays
<1>f. /\ \A k : IsFiniteSet(DueAt(k)) /\ Cardinality(DueAt(k)) \in Nat
      /\ \A k \in Keys : counted[k] \in Nat
  <2>1. \A k : DueAt(k) \subseteq Clients
    BY DEF DueAt, Owners
  <2>. QED
    BY <2>1, FS_Subset, FS_CardinalityType, MetricsAssumption DEF TypeOK
<1> SUFFICES ASSUME NEW k \in Keys
             PROVE  Counter(gauge'[k][TradesGauge]) + Cardinality(DueAt(k)') = counted'[k]
  BY DEF CounterAt
<1>1. \A d : d \in DueAt(k)' <=> d \in Clients /\ key[d] = k /\ Due(d, "inc")' # {}
  BY <1>k DEF DueAt, Owners
<1>2. \A d : d \in DueAt(k) <=> d \in Clients /\ key[d] = k /\ Due(d, "inc") # {}
  BY DEF DueAt, Owners
<1>3. ASSUME UNCHANGED <<counted>>, gauge'[k][TradesGauge] = gauge[k][TradesGauge],
             \A d \in Clients : Due(d, "inc")' # {} <=> Due(d, "inc") # {}
      PROVE  Counter(gauge'[k][TradesGauge]) + Cardinality(DueAt(k)') = counted'[k]
  <2>1. DueAt(k)' = DueAt(k)
    BY <1>1, <1>2, <1>3
  <2>. QED
    BY <1>0, <1>3, <2>1
<1>4. CASE UNCHANGED <<todo, gauge, counted>>
  BY <1>3, <1>4 DEF Due
<1>5. ASSUME NEW c \in Clients, NEW bk \in Books, Publish(c, bk)
      PROVE  Counter(gauge'[k][TradesGauge]) + Cardinality(DueAt(k)') = counted'[k]
  <2>1. UNCHANGED <<gauge, counted>>
    BY <1>5 DEF Publish, Receive
  <2>2. \A d \in Clients : Due(d, "inc")' # {} <=> Due(d, "inc") # {}
    BY <1>5, PublishDue
  <2>. QED
    BY <1>3, <2>1, <2>2
<1>6. ASSUME NEW c \in Clients, NEW read \in BOOLEAN, NEW px \in Options,
             NEW stored \in BOOLEAN, Trade(c, read, px, stored)
      PROVE  Counter(gauge'[k][TradesGauge]) + Cardinality(DueAt(k)') = counted'[k]
  <2>1. /\ UNCHANGED gauge /\ key[c] \in Keys /\ counted \in [Keys -> Nat]
        /\ counted' = [counted EXCEPT ![key[c]] =
                         IF Counts(key[c], read) THEN @ + 1 ELSE @]
    <3>1. Exchange[key[c]] \in {"okx", "kraken", "bitstamp"}
      BY MetricsAssumption DEF TypeOK
    <3>. QED
      BY <1>6, <3>1, KeyType DEF Trade, Receive, TypeOK, Counts
  <2>2. /\ Due(c, "inc") = {} /\ (Due(c, "inc")' # {} <=> Counts(key[c], read))
        /\ \A d \in Clients \ {c} : Due(d, "inc")' = Due(d, "inc")
    BY <1>6, TradeDue
  <2>3. CASE key[c] = k /\ Counts(key[c], read)
    <3>1. DueAt(k)' = DueAt(k) \cup {c} /\ c \notin DueAt(k)
      BY <1>1, <1>2, <2>2, <2>3
    <3>2. Cardinality(DueAt(k)') = Cardinality(DueAt(k)) + 1
      BY <1>f, <3>1, FS_AddElement
    <3>3. Counter(gauge[k][TradesGauge]) \in Int
      <4>1. /\ gauge[k][TradesGauge] \in SUBSET Int
            /\ \A m, n \in gauge[k][TradesGauge] : m = n
        BY TradesApart DEF TypeOK, IsRegistry
      <4>. QED
        BY <4>1, CounterUp
    <3>4. counted'[k] = counted[k] + 1
      BY <2>1, <2>3
    <3>. QED
      BY <1>0, <1>f, <2>1, <3>2, <3>3, <3>4
  <2>4. CASE ~(key[c] = k /\ Counts(key[c], read))
    <3>1. DueAt(k)' = DueAt(k)
      BY <1>1, <1>2, <2>2, <2>4
    <3>2. counted'[k] = counted[k]
      BY <2>1, <2>4
    <3>. QED
      BY <1>0, <2>1, <3>1, <3>2
  <2>. QED
    BY <2>3, <2>4
<1>7. ASSUME NEW c \in Clients, SetGauge(c) \/ SetSizes(c) \/ SetPrice(c)
      PROVE  Counter(gauge'[k][TradesGauge]) + Cardinality(DueAt(k)') = counted'[k]
  <2>1. PICK op \in {"set", "sizes", "price"} : NextWrite(c, op)
    BY <1>7 DEF SetGauge, SetSizes, SetPrice
  <2>2. Due(c, "inc") = {} /\ Due(c, "inc")' = {}
    BY <2>1, IncFirst
  <2>3. \A d \in Clients : Due(d, "inc")' # {} <=> Due(d, "inc") # {}
    BY <2>1, <2>2, WriteDue
  <2>4. UNCHANGED counted
    BY <2>1 DEF NextWrite
  <2>5. gauge'[k][TradesGauge] = gauge[k][TradesGauge]
    <3>1. CASE SetGauge(c)
      <4>1. NextWrite(c, "set") /\ Head(todo[c]).at \in BookGauges
        <5>1. NextWrite(c, "set")
          BY <3>1 DEF SetGauge
        <5>2. Head(todo[c]) \in Writes /\ Head(todo[c]).op = "set"
          BY <5>1, WriteMoves
        <5>. QED
          BY <5>1, <5>2 DEF Writes
      <4>2. Head(todo[c]).at # TradesGauge
        BY <4>1, TradesApart
      <4>. QED
        BY <3>1, <4>2, KeyType DEF SetGauge, TypeOK, IsRegistry
    <3>2. CASE SetSizes(c) \/ SetPrice(c)
      BY <3>2 DEF SetSizes, SetPrice
    <3>. QED
      BY <1>7, <3>1, <3>2
  <2>. QED
    BY <1>3, <2>3, <2>4, <2>5
<1>8. ASSUME NEW c \in Clients, CountTrade(c)
      PROVE  Counter(gauge'[k][TradesGauge]) + Cardinality(DueAt(k)') = counted'[k]
  <2>1. /\ NextWrite(c, "inc") /\ UNCHANGED counted /\ key[c] \in Keys
    BY <1>8, KeyType DEF CountTrade, NextWrite
  <2>2. /\ Due(c, "inc") # {} /\ Due(c, "inc")' = {}
        /\ \A d \in Clients \ {c} : Due(d, "inc")' = Due(d, "inc")
    BY <2>1, IncFirst, WriteDue
  <2>3. CASE key[c] = k
    <3>1. DueAt(k)' = DueAt(k) \ {c} /\ c \in DueAt(k)
      BY <1>1, <1>2, <2>2, <2>3
    <3>2. Cardinality(DueAt(k)') = Cardinality(DueAt(k)) - 1
      BY <1>f, <3>1, FS_RemoveElement
    <3> DEFINE S == gauge[k][TradesGauge]
    <3>3. S \in SUBSET Int /\ \A m, n \in S : m = n
      BY TradesApart DEF TypeOK, IsRegistry
    <3>4. gauge'[k][TradesGauge] = IF S = {} THEN {1} ELSE {n + 1 : n \in S}
      BY <1>8, <2>1, <2>3, TradesApart DEF CountTrade, TypeOK, IsRegistry
    <3>5. /\ Counter(S) \in Int /\ Counter(gauge'[k][TradesGauge]) = Counter(S) + 1
      <4> HIDE DEF S
      <4>. QED
        BY <3>3, <3>4, CounterUp
    <3>. QED
      BY <1>0, <1>f, <2>1, <3>2, <3>5
  <2>4. CASE key[c] # k
    <3>1. DueAt(k)' = DueAt(k)
      BY <1>1, <1>2, <2>2, <2>4
    <3>2. gauge'[k] = gauge[k]
      BY <1>8, <2>4 DEF CountTrade, TypeOK
    <3>. QED
      BY <1>0, <2>1, <3>1, <3>2
  <2>. QED
    BY <2>3, <2>4
<1>9. ASSUME NEW c \in Clients, Connect(c) \/ ConnectFailed(c) \/ Disconnect(c)
      PROVE  UNCHANGED <<todo, gauge, counted>>
  BY <1>9, ReportFacts DEF Report
<1>10. ASSUME NEW j \in Keys, NEW order \in GatherOrders, Begin(j, order)
       PROVE  UNCHANGED <<todo, gauge, counted>>
  BY <1>10 DEF Begin
<1>11. Gather \/ UNCHANGED vars => UNCHANGED <<todo, gauge, counted>>
  BY DEF Gather, vars
<1>. QED
  BY <1>4, <1>5, <1>6, <1>7, <1>8, <1>9, <1>10, <1>11 DEF Next

\* Once there is a counter there is one.
LEMMA CounterStays ==
  ASSUME TypeOK, [Next]_vars, NEW k \in Keys, gauge[k][TradesGauge] # {}
  PROVE  gauge'[k][TradesGauge] # {}
<1>1. /\ DOMAIN gauge = Keys /\ DOMAIN gauge[k] = Gauges /\ TradesGauge \in Gauges
      /\ gauge[k][TradesGauge] \in SUBSET Int
  BY TradesApart DEF TypeOK, IsRegistry
<1>2. ASSUME NEW c \in Clients, SetGauge(c) PROVE gauge'[k][TradesGauge] # {}
  BY <1>1, <1>2 DEF SetGauge
<1>3. ASSUME NEW c \in Clients, CountTrade(c) PROVE gauge'[k][TradesGauge] # {}
  <2>1. CASE key[c] = k
    <3>1. gauge'[k][TradesGauge] = {n + 1 : n \in gauge[k][TradesGauge]}
      BY <1>1, <1>3, <2>1 DEF CountTrade
    <3>. QED
      BY <3>1
  <2>2. CASE key[c] # k
    BY <1>1, <1>3, <2>2 DEF CountTrade
  <2>. QED
    BY <2>1, <2>2
<1>4. (\A c \in Clients : ~SetGauge(c) /\ ~CountTrade(c)) => gauge' = gauge
  BY DEF Next, vars, Connect, ConnectFailed, Disconnect, Report, Publish, Trade, Receive,
         SetSizes, SetPrice, NextWrite, Begin, Gather
<1>. QED
  BY <1>2, <1>3, <1>4

\* What sets a price was counted: the next write is the increment, or the counter
\* is there.
LEMMA CountedFirstStep ==
  ASSUME TypeOK, TodoShape, CountedFirst, [Next]_vars
  PROVE  CountedFirst'
<1>k. key' = key
  BY KeyStays
<1> SUFFICES ASSUME NEW d \in Clients, Due(d, "price")' # {}
             PROVE  Due(d, "inc")' # {} \/ gauge'[key[d]][TradesGauge] # {}
  BY <1>k DEF CountedFirst
<1>0. key[d] \in Keys
  BY KeyType
<1>1. ASSUME todo'[d] = todo[d] PROVE Due(d, "inc")' # {} \/ gauge'[key[d]][TradesGauge] # {}
  BY <1>0, <1>1, CounterStays DEF CountedFirst, Due
<1>2. ASSUME NEW c \in Clients, NEW bk \in Books, Publish(c, bk)
      PROVE  todo'[d] = todo[d]
  BY <1>2, PublishDue
<1>3. ASSUME NEW c \in Clients, NEW read \in BOOLEAN, NEW px \in Options,
             NEW stored \in BOOLEAN, Trade(c, read, px, stored)
      PROVE  todo'[d] = todo[d] \/ Due(d, "inc")' # {}
  <2>1. CASE d = c
    <3>1. Counts(key[c], read)
      BY <1>3, <2>1, TradeDue
    <3>2. Due(c, "inc")' = {1}
      BY <1>3, <3>1, TradeDue
    <3>. QED
      BY <2>1, <3>2
  <2>2. CASE d # c
    BY <1>3, <2>2, TradeDue
  <2>. QED
    BY <2>1, <2>2
<1>4. ASSUME NEW c \in Clients, NEW op, NextWrite(c, op), todo'[d] # todo[d], op # "inc"
      PROVE  gauge'[key[d]][TradesGauge] # {}
  <2>1. c = d
    BY <1>4, WriteMoves
  <2>2. Due(d, "inc") = {} /\ Due(d, "price") # {}
    BY <1>4, <2>1, IncFirst, WriteDue
  <2>. QED
    BY <1>0, <2>2, CounterStays DEF CountedFirst
<1>5. ASSUME NEW c \in Clients, CountTrade(c), todo'[d] # todo[d]
      PROVE  gauge'[key[d]][TradesGauge] # {}
  <2>1. c = d
    BY <1>5, WriteMoves DEF CountTrade
  <2> DEFINE S == gauge[key[d]][TradesGauge]
  <2>2. gauge'[key[d]][TradesGauge] = IF S = {} THEN {1} ELSE {n + 1 : n \in S}
    BY <1>0, <1>5, <2>1, TradesApart DEF CountTrade, TypeOK, IsRegistry
  <2>. QED
    BY <2>2
<1>6. ASSUME NEW c \in Clients, SetGauge(c) \/ SetSizes(c) \/ SetPrice(c), todo'[d] # todo[d]
      PROVE  gauge'[key[d]][TradesGauge] # {}
  BY <1>4, <1>6 DEF SetGauge, SetSizes, SetPrice
<1>7. ASSUME NEW c \in Clients, Connect(c) \/ ConnectFailed(c) \/ Disconnect(c)
      PROVE  todo'[d] = todo[d]
  BY <1>7, ReportFacts DEF Report
<1>8. ASSUME NEW j \in Keys, NEW order \in GatherOrders, Begin(j, order)
      PROVE  todo'[d] = todo[d]
  BY <1>8 DEF Begin
<1>9. Gather \/ UNCHANGED vars => todo'[d] = todo[d]
  BY DEF Gather, vars
<1>. QED
  BY <1>1, <1>2, <1>3, <1>5, <1>6, <1>7, <1>8, <1>9 DEF Next

\* A price that can be read in /status is of a trade that was counted.
LEMMA PricedStep ==
  ASSUME TypeOK, TodoShape, TradesCounted, CountedFirst, [Next]_vars,
         NEW k \in Keys, status'[k].last # {}
  PROVE  gauge'[k][TradesGauge] # {}
<1>1. ASSUME status[k].last # {} PROVE gauge'[k][TradesGauge] # {}
  BY <1>1, CounterStays DEF TradesCounted
<1>t. /\ DOMAIN status = Keys
      /\ \A j \in Keys : status[j] \in [last : Options \cup {{0}}, size : [Sides -> Nat]]
  BY DEF TypeOK
<1>2. ASSUME NEW c \in Clients, SetPrice(c), status'[k] # status[k]
      PROVE  gauge'[k][TradesGauge] # {}
  <2>1. NextWrite(c, "price") /\ key[c] = k
    BY <1>2, <1>t DEF SetPrice
  <2>2. 1 \in Due(c, "price") /\ Due(c, "inc") = {}
    BY <2>1, IncFirst, WriteDue
  <2>. QED
    BY <2>1, <2>2, CounterStays DEF CountedFirst
<1>3. ASSUME NEW c \in Clients, SetSizes(c) PROVE status'[k].last = status[k].last
  BY <1>3, <1>t DEF SetSizes
<1>4. ASSUME NEW c \in Clients, Report(c)
      PROVE  status'[k].last = status[k].last \/ status'[k].last = {}
  BY <1>4, <1>t DEF Report, FreshEntry
<1>5. (\A c \in Clients : ~SetPrice(c) /\ ~SetSizes(c) /\ ~Report(c)) => status' = status
  BY DEF Next, vars, Connect, ConnectFailed, Disconnect, Publish, Trade, Receive,
         SetGauge, CountTrade, NextWrite, Begin, Gather
<1>. QED
  BY <1>1, <1>2, <1>3, <1>4, <1>5

\* The counter follows the messages, and comes before the price.
LEMMA TradesCountedStep ==
  ASSUME TypeOK, TodoShape, TradesCounted, CountedFirst, [Next]_vars
  PROVE  TradesCounted'
<1>1. \A k \in Keys : CounterAt(k)'
  BY CounterStep
<1>2. \A k \in Keys : status'[k].last # {} => gauge'[k][TradesGauge] # {}
  BY PricedStep
<1>. QED
  BY <1>1, <1>2 DEF TradesCounted, CounterAt, Counter, DueAt, Due, Keys

-----------------------------------------------------------------------------
(***************************************************************************)
(* The status map.                                                         *)
(***************************************************************************)
SizesOfOneBook(k) ==
  \/ status[k].size = FreshEntry.size
  \/ \E c \in Owners(k) : \E i \in DOMAIN log[c] : status[k].size = Totals(log[c][i])

\* What is there to be read, between messages, of a client alone under its key.
SizesLead(c) ==
  Due(c, "sizes") = {} =>
    status[key[c]].size = IF Len(log[c]) > opened[c]
                            THEN Totals(log[c][Len(log[c])]) ELSE FreshEntry.size
PriceLeads(c) ==
  /\ Due(c, "price") = {} =>
       \/ status[key[c]].last = traded[c]
       \/ Exchange[key[c]] = "okx" /\ status[key[c]].last = {0}
  /\ \A i \in Due(c, "price") :
       \/ {todo[c][i].value} = traded[c]
       \/ Exchange[key[c]] = "okx" /\ todo[c][i].value = 0

\* A write takes none but its own kind from what is due.
LEMMA DueStays ==
  ASSUME TypeOK, NEW c \in Clients, NEW op, NextWrite(c, op), NEW o, o # op
  PROVE  /\ Due(c, o)' = {} => Due(c, o) = {}
         /\ \A i \in Due(c, o)' : i + 1 \in Due(c, o) /\ todo'[c][i] = todo[c][i + 1]
<1>1. 1 \notin Due(c, o)
  BY WriteDue
<1>2. \A i \in Due(c, o) : i - 1 \in Due(c, o)'
  BY <1>1, WriteDue
<1>. QED
  BY <1>2, WriteDue

\* The sizes under a key are those of one book, whoever writes them.
LEMMA OneBookStep ==
  ASSUME TypeOK, TodoShape, \A k \in Keys : SizesOfOneBook(k), [Next]_vars,
         NEW k \in Keys
  PROVE  SizesOfOneBook(k)'
<1>k. \A j : Owners(j)' = Owners(j)
  BY KeyStays
<1>1. ASSUME status'[k].size = status[k].size,
             \A c \in Clients : \A i \in DOMAIN log[c] :
               i \in DOMAIN log'[c] /\ log'[c][i] = log[c][i]
      PROVE  SizesOfOneBook(k)'
  <2>1. CASE status[k].size = FreshEntry.size
    BY <1>1, <2>1 DEF SizesOfOneBook
  <2>2. CASE status[k].size # FreshEntry.size
    <3>1. PICK c \in Owners(k) : \E i \in DOMAIN log[c] : status[k].size = Totals(log[c][i])
      BY <2>2 DEF SizesOfOneBook
    <3>2. PICK i \in DOMAIN log[c] : status[k].size = Totals(log[c][i])
      BY <3>1
    <3>3. i \in DOMAIN log'[c] /\ status'[k].size = Totals(log'[c][i]) /\ c \in Owners(k)'
      BY <1>1, <1>k, <3>1, <3>2 DEF Owners
    <3>. QED
      BY <3>3 DEF SizesOfOneBook
  <2>. QED
    BY <2>1, <2>2
<1>2. CASE UNCHANGED <<status, log>>
  BY <1>1, <1>2
<1>3. ASSUME NEW c \in Clients, Connect(c) \/ ConnectFailed(c) \/ Disconnect(c)
      PROVE  SizesOfOneBook(k)'
  <2>1. status' = [status EXCEPT ![key[c]] = FreshEntry] /\ UNCHANGED log
    BY <1>3, ReportFacts DEF Report
  <2>2. CASE key[c] = k
    BY <2>1, <2>2 DEF SizesOfOneBook, TypeOK
  <2>3. CASE key[c] # k
    BY <1>1, <2>1, <2>3 DEF TypeOK
  <2>. QED
    BY <2>2, <2>3
<1>4. ASSUME NEW c \in Clients, NEW bk \in Books, Publish(c, bk) PROVE SizesOfOneBook(k)'
  BY <1>1, <1>4, PublishDue DEF Publish, Receive
<1>5. ASSUME NEW c \in Clients, SetSizes(c) PROVE SizesOfOneBook(k)'
  <2>1. /\ NextWrite(c, "sizes") /\ UNCHANGED log
        /\ status' = [status EXCEPT ![key[c]].size = Totals(log[c][Len(log[c])])]
    BY <1>5 DEF SetSizes, NextWrite
  <2>2. Due(c, "sizes") # {}
    BY <2>1, WriteDue
  <2>3. CASE key[c] = k
    <3>1. Len(log[c]) \in DOMAIN log[c]
      BY <2>2, LastBook
    <3>2. status'[k].size = Totals(log[c][Len(log[c])])
      BY <2>1, <2>3 DEF TypeOK
    <3>3. c \in Owners(k)'
      BY <1>k, <2>3 DEF Owners
    <3>. QED
      BY <2>1, <3>1, <3>2, <3>3 DEF SizesOfOneBook
  <2>4. CASE key[c] # k
    BY <1>1, <2>1, <2>4 DEF TypeOK
  <2>. QED
    BY <2>3, <2>4
<1>6. ASSUME NEW c \in Clients, SetPrice(c) PROVE SizesOfOneBook(k)'
  <2>1. status'[k].size = status[k].size
    <3>1. key[c] \in Keys /\ status \in [Keys -> [last : Options \cup {{0}}, size : [Sides -> Nat]]]
      BY KeyType DEF TypeOK
    <3>. QED
      BY <1>6, <3>1 DEF SetPrice
  <2>2. UNCHANGED log
    BY <1>6 DEF SetPrice, NextWrite
  <2>. QED
    BY <1>1, <2>1, <2>2
<1>7. ASSUME NEW c \in Clients, NEW read \in BOOLEAN, NEW px \in Options,
             NEW stored \in BOOLEAN, Trade(c, read, px, stored)
      PROVE  UNCHANGED <<status, log>>
  BY <1>7 DEF Trade, Receive
<1>8. ASSUME NEW c \in Clients, SetGauge(c) \/ CountTrade(c) PROVE UNCHANGED <<status, log>>
  BY <1>8 DEF SetGauge, CountTrade, NextWrite
<1>9. ASSUME NEW j \in Keys, NEW order \in GatherOrders, Begin(j, order)
      PROVE  UNCHANGED <<status, log>>
  BY <1>9 DEF Begin
<1>10. Gather \/ UNCHANGED vars => UNCHANGED <<status, log>>
  BY DEF Gather, vars
<1>. QED
  BY <1>2, <1>3, <1>4, <1>5, <1>6, <1>7, <1>8, <1>9, <1>10 DEF Next

\* What the writes of a message lead /status to.
LEMMA StatusLeadsStep ==
  ASSUME TypeOK, TodoShape, StatusLeads, [Next]_vars
  PROVE  StatusLeads'
<1>k. key' = key /\ \A c : Alone(c)' = Alone(c)
  BY KeyStays
<1>0. \A c \in Clients : Alone(c) => SizesLead(c) /\ PriceLeads(c)
  BY DEF StatusLeads, SizesLead, PriceLeads
<1> SUFFICES ASSUME NEW d \in Clients, Alone(d)
             PROVE  SizesLead(d)' /\ PriceLeads(d)'
  BY <1>k DEF StatusLeads, SizesLead, PriceLeads
<1>l. SizesLead(d) /\ PriceLeads(d) /\ \A c \in Clients \ {d} : key[c] # key[d]
  BY <1>0, KeyType
<1>1. ASSUME todo'[d] = todo[d], log'[d] = log[d], opened'[d] = opened[d],
             traded'[d] = traded[d], status'[key[d]] = status[key[d]]
      PROVE  SizesLead(d)' /\ PriceLeads(d)'
  BY <1>k, <1>l, <1>1 DEF SizesLead, PriceLeads, Due
<1>2. CASE UNCHANGED <<todo, log, opened, traded, status>>
  BY <1>1, <1>2
<1>3. ASSUME NEW c \in Clients, Connect(c) \/ ConnectFailed(c) \/ Disconnect(c)
      PROVE  SizesLead(d)' /\ PriceLeads(d)'
  <2>1. /\ todo[c] = <<>> /\ UNCHANGED <<todo, log>>
        /\ status' = [status EXCEPT ![key[c]] = FreshEntry]
        /\ opened' = [opened EXCEPT ![c] = Len(log[c])]
        /\ traded' = [traded EXCEPT ![c] = {}]
    BY <1>3, ReportFacts DEF Report
  <2>2. CASE c = d
    <3>1. /\ status'[key[d]] = FreshEntry /\ opened'[d] = Len(log[d]) /\ traded'[d] = {}
          /\ Len(log[d]) \in Nat
      BY <2>1, <2>2, KeyType, SettledFacts DEF TypeOK
    <3>2. \A o : Due(d, o)' = {}
      BY <2>1, <2>2 DEF Due
    <3>3. ~(Len(log'[d]) > opened'[d])
      BY <2>1, <3>1
    <3>4. FreshEntry.last = {}
      BY DEF FreshEntry
    <3>. QED
      BY <1>k, <3>1, <3>2, <3>3, <3>4 DEF SizesLead, PriceLeads
  <2>3. CASE c # d
    BY <1>1, <1>l, <2>1, <2>3 DEF TypeOK
  <2>. QED
    BY <2>2, <2>3
<1>4. ASSUME NEW c \in Clients, NEW bk \in Books, Publish(c, bk)
      PROVE  SizesLead(d)' /\ PriceLeads(d)'
  <2>1. UNCHANGED <<opened, traded, status>>
    BY <1>4 DEF Publish, Receive
  <2>2. CASE c = d
    <3>1. Due(d, "sizes")' # {} /\ Due(d, "price") = {} /\ Due(d, "price")' = {}
      BY <1>4, <2>2, PublishDue
    <3>. QED
      BY <1>k, <1>l, <2>1, <3>1 DEF SizesLead, PriceLeads
  <2>3. CASE c # d
    BY <1>1, <1>4, <2>1, <2>3, PublishDue
  <2>. QED
    BY <2>2, <2>3
<1>5. ASSUME NEW c \in Clients, NEW read \in BOOLEAN, NEW px \in Options,
             NEW stored \in BOOLEAN, Trade(c, read, px, stored)
      PROVE  SizesLead(d)' /\ PriceLeads(d)'
  <2>1. /\ UNCHANGED <<opened, status, log>>
        /\ traded' = [traded EXCEPT ![c] = IF px = {} THEN @ ELSE px]
    BY <1>5 DEF Trade, Receive
  <2>2. CASE c = d
    <3>1. /\ Due(d, "sizes") = {} /\ Due(d, "price") = {}
          /\ px # {} => Due(d, "price")' # {}
          /\ \A i \in Due(d, "price")' :
               \/ {todo'[d][i].value} = px
               \/ px = {} /\ todo'[d][i].value = 0 /\ Exchange[key[d]] = "okx"
      BY <1>5, <2>2, TradeDue
    <3>2. traded'[d] = IF px = {} THEN traded[d] ELSE px
      BY <2>1, <2>2 DEF TypeOK
    <3>3. SizesLead(d)'
      BY <1>k, <1>l, <2>1, <3>1 DEF SizesLead
    <3>4. Due(d, "price")' = {} =>
            \/ status'[key'[d]].last = traded'[d]
            \/ Exchange[key'[d]] = "okx" /\ status'[key'[d]].last = {0}
      BY <1>k, <1>l, <2>1, <3>1, <3>2 DEF PriceLeads
    <3>5. \A i \in Due(d, "price")' :
            \/ {todo'[d][i].value} = traded'[d]
            \/ Exchange[key'[d]] = "okx" /\ todo'[d][i].value = 0
      BY <1>k, <3>1, <3>2
    <3>. QED
      BY <3>3, <3>4, <3>5 DEF PriceLeads
  <2>3. CASE c # d
    <3>1. todo'[d] = todo[d]
      BY <1>5, <2>3, TradeDue
    <3>. QED
      BY <1>1, <2>1, <2>3, <3>1 DEF TypeOK
  <2>. QED
    BY <2>2, <2>3
<1>6. ASSUME NEW c \in Clients, NEW op, NextWrite(c, op), c # d,
             status'[key[d]] = status[key[d]]
      PROVE  SizesLead(d)' /\ PriceLeads(d)'
  <2>1. todo'[d] = todo[d]
    BY <1>6, WriteMoves
  <2>. QED
    BY <1>1, <1>6, <2>1 DEF NextWrite
<1>7. ASSUME NEW op, NextWrite(d, op), op # "sizes",
             status'[key[d]].size = status[key[d]].size
      PROVE  SizesLead(d)'
  <2>1. Due(d, "sizes")' = {} => Due(d, "sizes") = {}
    BY <1>7, DueStays
  <2>. QED
    BY <1>k, <1>l, <1>7, <2>1 DEF SizesLead, NextWrite
<1>8. ASSUME NEW op, NextWrite(d, op), op # "price",
             status'[key[d]].last = status[key[d]].last
      PROVE  PriceLeads(d)'
  <2>1. /\ Due(d, "price")' = {} => Due(d, "price") = {}
        /\ \A i \in Due(d, "price")' : i + 1 \in Due(d, "price") /\ todo'[d][i] = todo[d][i + 1]
    BY <1>8, DueStays
  <2>2. UNCHANGED traded
    BY <1>8 DEF NextWrite
  <2>. QED
    BY <1>k, <1>l, <1>8, <2>1, <2>2 DEF PriceLeads
<1>9. ASSUME NEW c \in Clients, SetGauge(c) \/ CountTrade(c)
      PROVE  SizesLead(d)' /\ PriceLeads(d)'
  <2>1. PICK op \in {"set", "inc"} : NextWrite(c, op)
    BY <1>9 DEF SetGauge, CountTrade
  <2>2. UNCHANGED status
    BY <1>9 DEF SetGauge, CountTrade
  <2>3. CASE c = d
    BY <1>7, <1>8, <2>1, <2>2, <2>3
  <2>. QED
    BY <1>6, <2>1, <2>2, <2>3
<1>10. ASSUME NEW c \in Clients, SetSizes(c)
       PROVE  SizesLead(d)' /\ PriceLeads(d)'
  <2>1. /\ NextWrite(c, "sizes") /\ UNCHANGED <<log, opened>>
        /\ status' = [status EXCEPT ![key[c]].size = Totals(log[c][Len(log[c])])]
    BY <1>10 DEF SetSizes, NextWrite
  <2>2. CASE c = d
    <3>1. /\ status'[key[d]].size = Totals(log[d][Len(log[d])])
          /\ status'[key[d]].last = status[key[d]].last
      BY <2>1, <2>2, KeyType DEF TypeOK
    <3>2. Due(d, "sizes") # {}
      BY <2>1, <2>2, WriteDue
    <3>3. Len(log[d]) > opened[d]
      BY <3>2 DEF TodoShape
    <3>4. SizesLead(d)'
      BY <1>k, <2>1, <3>1, <3>3 DEF SizesLead
    <3>5. PriceLeads(d)'
      BY <1>8, <2>1, <2>2, <3>1
    <3>. QED
      BY <3>4, <3>5
  <2>3. CASE c # d
    BY <1>6, <1>l, <2>1, <2>3 DEF TypeOK
  <2>. QED
    BY <2>2, <2>3
<1>11. ASSUME NEW c \in Clients, SetPrice(c)
       PROVE  SizesLead(d)' /\ PriceLeads(d)'
  <2>1. /\ NextWrite(c, "price") /\ UNCHANGED traded
        /\ status' = [status EXCEPT ![key[c]].last = {Head(todo[c]).value}]
    BY <1>11 DEF SetPrice, NextWrite
  <2>2. CASE c = d
    <3>1. /\ status'[key[d]].last = {todo[d][1].value}
          /\ status'[key[d]].size = status[key[d]].size
      <4>1. Head(todo[c]) = todo[c][1]
        BY <2>1, WriteMoves
      <4>. QED
        BY <2>1, <2>2, <4>1, KeyType DEF TypeOK
    <3>2. 1 \in Due(d, "price")
      BY <2>1, <2>2, WriteDue
    <3>3. \/ {todo[d][1].value} = traded[d]
          \/ Exchange[key[d]] = "okx" /\ todo[d][1].value = 0
      BY <1>l, <3>2 DEF PriceLeads
    <3>4. \A i \in Due(d, "price")' : i + 1 \in Due(d, "price") /\ todo'[d][i] = todo[d][i + 1]
      BY <2>1, <2>2, WriteDue
    <3>5. \A i \in Due(d, "price")' :
            \/ {todo'[d][i].value} = traded[d]
            \/ Exchange[key[d]] = "okx" /\ todo'[d][i].value = 0
      BY <1>l, <3>4 DEF PriceLeads
    <3>6. PriceLeads(d)'
      BY <1>k, <2>1, <3>1, <3>3, <3>5 DEF PriceLeads
    <3>7. SizesLead(d)'
      BY <1>7, <2>1, <2>2, <3>1
    <3>. QED
      BY <3>6, <3>7
  <2>3. CASE c # d
    BY <1>6, <1>l, <2>1, <2>3 DEF TypeOK
  <2>. QED
    BY <2>2, <2>3
<1>12. ASSUME NEW j \in Keys, NEW order \in GatherOrders, Begin(j, order)
       PROVE  UNCHANGED <<todo, log, opened, traded, status>>
  BY <1>12 DEF Begin
<1>13. Gather \/ UNCHANGED vars => UNCHANGED <<todo, log, opened, traded, status>>
  BY DEF Gather, vars
<1>. QED
  BY <1>2, <1>3, <1>4, <1>5, <1>9, <1>10, <1>11, <1>12, <1>13 DEF Next

\* Between messages, what is led to is there.
LEMMA StatusFromLeads ==
  ASSUME TypeOK, StatusLeads, \A k \in Keys : SizesOfOneBook(k)
  PROVE  StatusTruth
<1>1. ASSUME NEW c \in Clients, Alone(c), todo[c] = <<>>
      PROVE  Due(c, "sizes") = {} /\ Due(c, "price") = {}
  BY <1>1 DEF Due
<1>. QED
  BY <1>1 DEF StatusTruth, StatusLeads, SizesOfOneBook

-----------------------------------------------------------------------------
(***************************************************************************)
(* The gauges of a book.                                                   *)
(***************************************************************************)
\* What the gauge g of a client alone under its key says, and what is to come.
GaugeLeads(c, g) ==
  /\ Pending(c, g) = {} => gauge[key[c]][g] = Shown(log[c], Len(log[c]), g)
  /\ \A i \in Pending(c, g) :
       /\ {todo[c][i].value} \in ShownSince(log[c], Len(log[c]) - 1, g)
       /\ (\A j \in Pending(c, g) : j <= i) =>
            {todo[c][i].value} = Shown(log[c], Len(log[c]), g)
GaugeFollows(c, g) == gauge[key[c]][g] \in ShownSince(log[c], Settled(c), g)

\* A step publishes at most one book of a client, and settles no fewer than before.
LEMMA SettledStep ==
  ASSUME TypeOK, TodoShape, [Next]_vars, NEW c \in Clients
  PROVE  /\ Len(log'[c]) \in Nat /\ Settled(c)' \in Nat
         /\ Settled(c) <= Settled(c)' /\ Settled(c)' <= Len(log'[c])
         /\ Settled(c)' = IF Due(c, "set")' \cup Due(c, "sizes")' # {} THEN Len(log'[c]) - 1
                          ELSE Len(log'[c])
         /\ \/ log'[c] = log[c]
            \/ /\ Settled(c) = Len(log[c])
               /\ \E bk \in Books : log'[c] = Append(log[c], bk)
<1>0. TypeOK' /\ TodoShape'
  BY TypeStep, TodoShapeStep
<1>1. Len(log'[c]) \in Nat
  BY <1>0, LenProperties DEF TypeOK
<1>2. Settled(c)' = IF Due(c, "set")' \cup Due(c, "sizes")' # {} THEN Len(log'[c]) - 1
                    ELSE Len(log'[c])
  BY DEF Settled, Due
<1>3. Due(c, "set")' \cup Due(c, "sizes")' # {} => Len(log'[c]) > 0
  BY <1>0, <1>1 DEF TodoShape, TypeOK
<1> DEFINE Same  == /\ log'[c] = log[c]
                    /\ Due(c, "set")' \cup Due(c, "sizes")' # {} =>
                         Due(c, "set") \cup Due(c, "sizes") # {}
           Grown == /\ Settled(c) = Len(log[c])
                    /\ \E bk \in Books : log'[c] = Append(log[c], bk)
                    /\ Len(log'[c]) = Len(log[c]) + 1
<1>4. Same \/ Grown
  <2>1. CASE UNCHANGED <<todo, log>>
    BY <2>1 DEF Due
  <2>2. ASSUME NEW d \in Clients, NEW bk \in Books, Publish(d, bk)
        PROVE  Grown \/ (log'[c] = log[c] /\ UNCHANGED todo[c])
    <3>1. CASE d = c
      <4>1. Settled(c) = Len(log[c])
        BY <2>2, <3>1, PublishDue DEF Settled
      <4>. QED
        BY <2>2, <3>1, <4>1, PublishDue
    <3>2. CASE d # c
      BY <2>2, <3>2, PublishDue
    <3>. QED
      BY <3>1, <3>2
  <2>3. ASSUME NEW d \in Clients, NEW read \in BOOLEAN, NEW px \in Options,
               NEW stored \in BOOLEAN, Trade(d, read, px, stored)
        PROVE  Same
    <3>1. UNCHANGED log
      BY <2>3 DEF Trade
    <3>2. CASE d = c
      BY <2>3, <3>1, <3>2, TradeDue
    <3>3. CASE d # c
      <4>1. Due(c, "set")' = Due(c, "set") /\ Due(c, "sizes")' = Due(c, "sizes")
        BY <2>3, <3>3, TradeDue
      <4>. QED
        BY <3>1, <4>1
    <3>. QED
      BY <3>2, <3>3
  <2>4. ASSUME NEW d \in Clients, NEW op, NextWrite(d, op) PROVE Same
    <3>1. UNCHANGED log
      BY <2>4 DEF NextWrite
    <3>2. CASE d = c
      BY <2>4, <3>1, <3>2, WriteDue
    <3>3. CASE d # c
      <4>1. Due(c, "set")' = Due(c, "set") /\ Due(c, "sizes")' = Due(c, "sizes")
        BY <2>4, <3>3, WriteDue
      <4>. QED
        BY <3>1, <4>1
    <3>. QED
      BY <3>2, <3>3
  <2>5. ASSUME NEW d \in Clients, SetGauge(d) \/ CountTrade(d) \/ SetSizes(d) \/ SetPrice(d)
        PROVE  Same
    BY <2>4, <2>5 DEF SetGauge, CountTrade, SetSizes, SetPrice
  <2>6. ASSUME NEW d \in Clients, Connect(d) \/ ConnectFailed(d) \/ Disconnect(d)
        PROVE  UNCHANGED <<todo, log>>
    BY <2>6, ReportFacts DEF Report
  <2>7. ASSUME NEW k \in Keys, NEW order \in GatherOrders, Begin(k, order)
        PROVE  UNCHANGED <<todo, log>>
    BY <2>7 DEF Begin
  <2>8. Gather \/ UNCHANGED vars => UNCHANGED <<todo, log>>
    BY DEF Gather, vars
  <2>9. (log'[c] = log[c] /\ UNCHANGED todo[c]) => Same
    BY DEF Due
  <2>. QED
    BY <2>1, <2>2, <2>3, <2>5, <2>6, <2>7, <2>8, <2>9 DEF Next
<1>. QED
  BY <1>1, <1>2, <1>3, <1>4, SettledFacts

\* A request began in the past.
LEMMA BegunBeforeStep ==
  ASSUME TypeOK, TodoShape, BegunBefore, [Next]_vars
  PROVE  BegunBefore'
<1> SUFFICES ASSUME NEW c \in Clients PROVE request'.since[c] <= Settled(c)'
  BY DEF BegunBefore
<1>1. Settled(c) <= Settled(c)' /\ Settled(c) \in Nat /\ Settled(c)' \in Nat
  BY SettledStep, SettledFacts
<1>2. CASE request'.since = request.since
  BY <1>1, <1>2 DEF BegunBefore, TypeOK
<1>3. ASSUME NEW k \in Keys, NEW order \in GatherOrders, Begin(k, order)
      PROVE  request'.since[c] <= Settled(c)'
  <2>1. request'.since[c] = Settled(c)
    BY <1>3 DEF Begin
  <2>. QED
    BY <1>1, <2>1
<1>4. (\A k \in Keys, order \in GatherOrders : ~Begin(k, order)) => request'.since = request.since
  BY DEF Next, vars, Connect, ConnectFailed, Disconnect, Report, Publish, Trade, Receive,
         SetGauge, CountTrade, SetSizes, SetPrice, NextWrite, Gather, TypeOK
<1>. QED
  BY <1>2, <1>3, <1>4

\* What is pending after a write.
LEMMA WritePending ==
  ASSUME TypeOK, NEW c \in Clients, NEW op, NextWrite(c, op), NEW g
  PROVE  /\ \A i \in Pending(c, g)' : /\ i \in Nat /\ i + 1 \in Pending(c, g)
                                      /\ todo'[c][i].value = todo[c][i + 1].value
         /\ \A i \in Pending(c, g) : i \in Nat /\ (i # 1 => i - 1 \in Pending(c, g)')
         /\ 1 \in Pending(c, g) <=> op = "set" /\ Head(todo[c]).at = g
<1>1. ASSUME NEW i \in Pending(c, g)'
      PROVE  i \in Nat /\ i + 1 \in Pending(c, g) /\ todo'[c][i].value = todo[c][i + 1].value
  <2>1. i \in Due(c, "set")' /\ todo'[c][i].at = g
    BY DEF Pending
  <2>2. i + 1 \in Due(c, "set") /\ i \in Nat /\ todo'[c][i] = todo[c][i + 1]
    BY <2>1, WriteDue
  <2>. QED
    BY <2>1, <2>2 DEF Pending
<1>2. ASSUME NEW i \in Pending(c, g)
      PROVE  i \in Nat /\ (i # 1 => i - 1 \in Pending(c, g)')
  <2>1. i \in Due(c, "set") /\ todo[c][i].at = g /\ i \in DOMAIN todo[c]
    BY DEF Pending, Due
  <2>2. i \in Nat /\ (i # 1 => todo'[c][i - 1] = todo[c][i])
    BY <2>1, WriteMoves
  <2>3. i # 1 => i - 1 \in Due(c, "set")'
    BY <2>1, WriteDue
  <2>. QED
    BY <2>1, <2>2, <2>3 DEF Pending
<1>3. 1 \in Pending(c, g) <=> op = "set" /\ Head(todo[c]).at = g
  BY WriteDue, WriteMoves DEF Pending
<1>. QED
  BY <1>1, <1>2, <1>3

\* The write of g itself, and any other.
LEMMA GaugeLeadsWrite ==
  ASSUME TypeOK, TodoShape, NEW c \in Clients, NEW op, NextWrite(c, op), NEW g \in BookGauges,
         GaugeLeads(c, g),
         IF op = "set" /\ Head(todo[c]).at = g
         THEN gauge'[key[c]][g] = {Head(todo[c]).value}
         ELSE gauge'[key[c]][g] = gauge[key[c]][g]
  PROVE  GaugeLeads(c, g)'
<1>1. UNCHANGED <<key, log>>
  BY DEF NextWrite
<1>2. /\ \A i \in Pending(c, g)' : /\ i \in Nat /\ i + 1 \in Pending(c, g)
                                   /\ todo'[c][i].value = todo[c][i + 1].value
      /\ \A i \in Pending(c, g) : i \in Nat /\ (i # 1 => i - 1 \in Pending(c, g)')
      /\ 1 \in Pending(c, g) <=> op = "set" /\ Head(todo[c]).at = g
      /\ Head(todo[c]) = todo[c][1]
  BY WritePending, WriteMoves
<1>3. ASSUME Pending(c, g)' = {}
      PROVE  gauge'[key[c]][g] = Shown(log[c], Len(log[c]), g)
  <2>1. \A i \in Pending(c, g) : i = 1
    BY <1>2, <1>3
  <2>2. CASE 1 \in Pending(c, g)
    <3>1. \A j \in Pending(c, g) : j <= 1
      BY <2>1
    <3>2. {todo[c][1].value} = Shown(log[c], Len(log[c]), g)
      BY <2>2, <3>1 DEF GaugeLeads
    <3>. QED
      BY <1>2, <2>2, <3>2
  <2>3. CASE 1 \notin Pending(c, g)
    BY <1>2, <2>1, <2>3 DEF GaugeLeads
  <2>. QED
    BY <2>2, <2>3
<1>4. ASSUME NEW i \in Pending(c, g)'
      PROVE  /\ {todo'[c][i].value} \in ShownSince(log[c], Len(log[c]) - 1, g)
             /\ (\A j \in Pending(c, g)' : j <= i) =>
                  {todo'[c][i].value} = Shown(log[c], Len(log[c]), g)
  <2>1. i \in Nat /\ i + 1 \in Pending(c, g) /\ todo'[c][i].value = todo[c][i + 1].value
    BY <1>2
  <2>2. (\A j \in Pending(c, g)' : j <= i) => \A j \in Pending(c, g) : j <= i + 1
    BY <1>2, <2>1
  <2>. QED
    BY <2>1, <2>2 DEF GaugeLeads
<1>. QED
  BY <1>1, <1>3, <1>4 DEF GaugeLeads

\* What a book message still has to write leads from the last book to it.
LEMMA GaugeLeadsPublish ==
  ASSUME TypeOK, NEW c \in Clients, NEW bk \in Books, Publish(c, bk), NEW g \in BookGauges,
         GaugeLeads(c, g)
  PROVE  GaugeLeads(c, g)'
<1> DEFINE W == BookWrites(bk)
           l == log[c]
           m == Append(l, bk)
<1>1. /\ todo'[c] = W /\ todo[c] = <<>> /\ log'[c] = m /\ l \in Seq(Books)
      /\ Len(l) \in Nat /\ Len(m) = Len(l) + 1 /\ m[Len(m)] = bk /\ m \in Seq(Books)
      /\ key' = key /\ gauge' = gauge
  <2>1. l \in Seq(Books) /\ m \in Seq(Books)
    BY AppendProperties DEF TypeOK
  <2>2. todo'[c] = W /\ todo[c] = <<>> /\ log'[c] = m
    BY PublishDue
  <2>3. Len(l) \in Nat /\ Len(log'[c]) = Len(l) + 1 /\ log'[c][Len(log'[c])] = bk
    BY PublishDue
  <2>4. key' = key /\ gauge' = gauge
    BY DEF Publish, Receive
  <2> HIDE DEF m, l, W
  <2>. QED
    BY <2>1, <2>2, <2>3, <2>4
<1>2. Shown(m, Len(m), g) = IF InBook(bk, g) # {} THEN InBook(bk, g) ELSE Shown(l, Len(l), g)
  BY <1>1, ShownAppend
<1>3. gauge[key[c]][g] = Shown(l, Len(l), g)
  <2>1. Pending(c, g) = {}
    BY <1>1 DEF Pending, Due
  <2>. QED
    BY <2>1 DEF GaugeLeads
<1>4. Brings(W, g, InBook(bk, g), {bk[g.side][p] : p \in Alike(bk, g)})
  BY BookWritesBring
<1>5. Pending(c, g)' = SetsOf(W, g)
  <2> HIDE DEF W
  <2>. QED
    BY <1>1 DEF Pending, Due, SetsOf
<1> HIDE DEF W, m
<1>6. ASSUME SetsOf(W, g) = {} PROVE gauge[key[c]][g] = Shown(m, Len(m), g)
  BY <1>2, <1>3, <1>4, <1>6 DEF Brings
<1>7. ASSUME NEW i \in SetsOf(W, g)
      PROVE  /\ {W[i].value} \in ShownSince(m, Len(m) - 1, g)
             /\ (\A j \in SetsOf(W, g) : j <= i) => {W[i].value} = Shown(m, Len(m), g)
  <2>1. {W[i].value} = InBook(bk, g) => {W[i].value} = Shown(m, Len(m), g)
    BY <1>2
  <2>2. Len(m) - 1 \in Nat /\ Len(m) - 1 <= Len(m) /\ Len(m) \in (Len(m) - 1 + 1)..Len(m)
    BY <1>1
  <2>3. CASE {W[i].value} = InBook(bk, g)
    <3>1. Shown(m, Len(m), g) \in ShownSince(m, Len(m) - 1, g)
      BY <1>1, <2>2, SinceGrows
    <3>. QED
      BY <2>1, <2>3, <3>1
  <2>4. CASE W[i].value \in {bk[g.side][p] : p \in Alike(bk, g)}
    <3>1. PICK p \in Alike(bk, g) : W[i].value = bk[g.side][p]
      BY <2>4
    <3>2. p \in Alike(m[Len(m)], g) /\ {W[i].value} = {m[Len(m)][g.side][p]}
      BY <1>1, <3>1
    <3>3. {W[i].value} \in ShownSince(m, Len(m) - 1, g)
      BY <2>2, <3>2, SinceMember
    <3>4. (\A j \in SetsOf(W, g) : j <= i) => {W[i].value} = InBook(bk, g)
      BY <1>4, <1>7 DEF Brings
    <3>. QED
      BY <2>1, <3>3, <3>4
  <2>5. {W[i].value} = InBook(bk, g) \/ W[i].value \in {bk[g.side][p] : p \in Alike(bk, g)}
    BY <1>4, <1>7 DEF Brings
  <2>. QED
    BY <2>3, <2>4, <2>5
<1>. QED
  BY <1>1, <1>5, <1>6, <1>7 DEF GaugeLeads

\* What is led to by the writes of a client alone under its key.
LEMMA GaugesLeadStep ==
  ASSUME TypeOK, TodoShape, GaugesLead, [Next]_vars
  PROVE  GaugesLead'
<1>k. key' = key /\ \A c : Alone(c)' = Alone(c)
  BY KeyStays
<1> SUFFICES ASSUME NEW d \in Clients, Alone(d), NEW g \in BookGauges
             PROVE  GaugeLeads(d, g)'
  BY <1>k DEF GaugesLead, GaugeLeads
<1>l. GaugeLeads(d, g) /\ \A c \in Clients \ {d} : key[c] # key[d]
  BY KeyType DEF GaugesLead, GaugeLeads
<1>1. ASSUME todo'[d] = todo[d], log'[d] = log[d], gauge'[key[d]][g] = gauge[key[d]][g]
      PROVE  GaugeLeads(d, g)'
  BY <1>k, <1>l, <1>1 DEF GaugeLeads, Pending, Due
<1>2. CASE UNCHANGED <<todo, log, gauge>>
  BY <1>1, <1>2
<1>3. ASSUME NEW c \in Clients, NEW bk \in Books, Publish(c, bk) PROVE GaugeLeads(d, g)'
  <2>1. CASE c = d
    BY <1>l, <1>3, <2>1, GaugeLeadsPublish
  <2>2. CASE c # d
    <3>1. todo'[d] = todo[d] /\ log'[d] = log[d]
      BY <1>3, <2>2, PublishDue
    <3>2. UNCHANGED gauge
      BY <1>3 DEF Publish, Receive
    <3>. QED
      BY <1>1, <3>1, <3>2
  <2>. QED
    BY <2>1, <2>2
<1>4. ASSUME NEW c \in Clients, NEW read \in BOOLEAN, NEW px \in Options,
             NEW stored \in BOOLEAN, Trade(c, read, px, stored)
      PROVE  GaugeLeads(d, g)'
  <2>1. UNCHANGED <<log, gauge>>
    BY <1>4 DEF Trade, Receive
  <2>2. CASE c = d
    <3>1. Due(d, "set") = {} /\ Due(d, "set")' = {}
      BY <1>4, <2>2, TradeDue
    <3>2. Pending(d, g) = {} /\ Pending(d, g)' = {}
      BY <3>1 DEF Pending
    <3>. QED
      BY <1>k, <1>l, <2>1, <3>2 DEF GaugeLeads
  <2>3. CASE c # d
    <3>1. todo'[d] = todo[d]
      BY <1>4, <2>3, TradeDue
    <3>. QED
      BY <1>1, <2>1, <3>1
  <2>. QED
    BY <2>2, <2>3
<1>5. ASSUME NEW c \in Clients, NEW op, NextWrite(c, op),
             c # d => gauge'[key[d]][g] = gauge[key[d]][g],
             c = d => IF op = "set" /\ Head(todo[d]).at = g
                      THEN gauge'[key[d]][g] = {Head(todo[d]).value}
                      ELSE gauge'[key[d]][g] = gauge[key[d]][g]
      PROVE  GaugeLeads(d, g)'
  <2>1. CASE c = d
    BY <1>l, <1>5, <2>1, GaugeLeadsWrite
  <2>2. CASE c # d
    <3>1. todo'[d] = todo[d]
      BY <1>5, <2>2, WriteMoves
    <3>. QED
      BY <1>1, <1>5, <2>2, <3>1 DEF NextWrite
  <2>. QED
    BY <2>1, <2>2
<1>6. ASSUME NEW c \in Clients, SetGauge(c) PROVE GaugeLeads(d, g)'
  <2>1. /\ NextWrite(c, "set")
        /\ gauge' = [gauge EXCEPT ![key[c]][Head(todo[c]).at] = {Head(todo[c]).value}]
    BY <1>6 DEF SetGauge
  <2>2. /\ DOMAIN gauge = Keys /\ DOMAIN gauge[key[c]] = Gauges /\ DOMAIN gauge[key[d]] = Gauges
        /\ key[c] \in Keys /\ key[d] \in Keys /\ g \in Gauges
    BY KeyType DEF TypeOK, IsRegistry, Gauges
  <2>3. c # d => gauge'[key[d]][g] = gauge[key[d]][g]
    BY <1>l, <2>1, <2>2
  <2>4. c = d => IF Head(todo[d]).at = g
                 THEN gauge'[key[d]][g] = {Head(todo[d]).value}
                 ELSE gauge'[key[d]][g] = gauge[key[d]][g]
    BY <2>1, <2>2
  <2>. QED
    BY <1>5, <2>1, <2>3, <2>4
<1>7. ASSUME NEW c \in Clients, CountTrade(c) PROVE GaugeLeads(d, g)'
  <2>1. /\ DOMAIN gauge = Keys /\ DOMAIN gauge[key[c]] = Gauges
        /\ key[c] \in Keys /\ key[d] \in Keys /\ g # TradesGauge
    BY KeyType, TradesApart DEF TypeOK, IsRegistry
  <2>2. gauge'[key[d]][g] = gauge[key[d]][g]
    BY <1>7, <2>1 DEF CountTrade
  <2>3. NextWrite(c, "inc")
    BY <1>7 DEF CountTrade
  <2>. QED
    BY <1>5, <2>2, <2>3
<1>8. ASSUME NEW c \in Clients, SetSizes(c) \/ SetPrice(c) PROVE GaugeLeads(d, g)'
  <2>1. PICK op \in {"sizes", "price"} : NextWrite(c, op)
    BY <1>8 DEF SetSizes, SetPrice
  <2>2. UNCHANGED gauge
    BY <1>8 DEF SetSizes, SetPrice
  <2>. QED
    BY <1>5, <2>1, <2>2
<1>9. ASSUME NEW c \in Clients, Connect(c) \/ ConnectFailed(c) \/ Disconnect(c)
      PROVE  UNCHANGED <<todo, log, gauge>>
  BY <1>9, ReportFacts DEF Report
<1>10. ASSUME NEW k \in Keys, NEW order \in GatherOrders, Begin(k, order)
       PROVE  UNCHANGED <<todo, log, gauge>>
  BY <1>10 DEF Begin
<1>11. Gather \/ UNCHANGED vars => UNCHANGED <<todo, log, gauge>>
  BY DEF Gather, vars
<1>. QED
  BY <1>2, <1>3, <1>4, <1>6, <1>7, <1>8, <1>9, <1>10, <1>11 DEF Next

\* A step that leaves a gauge as it is does so before the book it came from is old.
LEMMA FollowsUnset ==
  ASSUME TypeOK, TodoShape, GaugesLead, [Next]_vars, NEW c \in Clients, Alone(c),
         NEW g \in BookGauges, GaugeFollows(c, g), gauge'[key[c]][g] = gauge[key[c]][g]
  PROVE  GaugeFollows(c, g)'
<1> DEFINE l == log[c]
           m == log'[c]
           x == gauge[key[c]][g]
<1>1. /\ l \in Seq(Books) /\ m \in Seq(Books) /\ key' = key /\ Alone(c)'
      /\ GaugesLead'
  BY TypeStep, GaugesLeadStep, KeyStays DEF TypeOK
<1>2. /\ Settled(c) \in Nat /\ Settled(c)' \in Nat /\ Len(l) \in Nat /\ Len(m) \in Nat
      /\ Settled(c) <= Settled(c)' /\ Settled(c)' <= Len(m) /\ Settled(c) <= Len(l)
      /\ Len(l) - 1 <= Settled(c)
      /\ Settled(c)' = IF Due(c, "set")' \cup Due(c, "sizes")' # {} THEN Len(m) - 1 ELSE Len(m)
      /\ m = l \/ (Settled(c) = Len(l) /\ \E bk \in Books : m = Append(l, bk))
  BY SettledStep, SettledFacts
<1>3. x \in ShownSince(l, Settled(c), g)
  BY DEF GaugeFollows
<1>4. CASE Settled(c)' = Settled(c)
  <2>1. x \in ShownSince(m, Settled(c), g)
    BY <1>1, <1>2, <1>3, SinceGrows
  <2>. QED
    BY <1>1, <1>4, <2>1 DEF GaugeFollows
<1>5. CASE Settled(c)' # Settled(c) /\ Due(c, "set")' \cup Due(c, "sizes")' = {}
  <2>1. Pending(c, g)' = {}
    BY <1>5 DEF Pending
  <2>2. x = Shown(m, Len(m), g)
    BY <1>1, <2>1 DEF GaugesLead
  <2>3. Settled(c)' = Len(m)
    BY <1>2, <1>5
  <2>4. x \in ShownSince(m, Len(m), g)
    BY <1>1, <1>2, <2>2, SinceGrows
  <2>. QED
    BY <1>1, <2>3, <2>4 DEF GaugeFollows
<1>6. CASE Settled(c)' # Settled(c) /\ Due(c, "set")' \cup Due(c, "sizes")' # {}
  <2>1. Settled(c)' = Len(m) - 1
    BY <1>2, <1>6
  <2>2. m # l
    BY <1>2, <1>6, <2>1
  <2>3. Settled(c) = Len(l) /\ Len(m) = Len(l) + 1
    <3>1. \A bk \in Books : Len(Append(l, bk)) = Len(l) + 1
      BY <1>1, AppendProperties
    <3>. QED
      BY <1>2, <2>2, <3>1
  <2>. QED
    BY <1>2, <1>6, <2>1, <2>3
<1>. QED
  BY <1>4, <1>5, <1>6

\* What a gauge says is what the books say, step by step.
LEMMA FollowsStep ==
  ASSUME TypeOK, TodoShape, GaugesLead, GaugesFollow, [Next]_vars
  PROVE  GaugesFollow'
<1>k. key' = key /\ \A c : Alone(c)' = Alone(c)
  BY KeyStays
<1> SUFFICES ASSUME NEW d \in Clients, Alone(d), NEW g \in BookGauges
             PROVE  GaugeFollows(d, g)'
  BY <1>k DEF GaugesFollow, GaugeFollows
<1>l. GaugeFollows(d, g) /\ \A c \in Clients \ {d} : key[c] # key[d]
  BY KeyType DEF GaugesFollow, GaugeFollows
<1>1. ASSUME gauge'[key[d]][g] = gauge[key[d]][g] PROVE GaugeFollows(d, g)'
  BY <1>l, <1>1, FollowsUnset
<1>t. /\ DOMAIN gauge = Keys /\ key[d] \in Keys /\ g \in Gauges /\ g # TradesGauge
      /\ \A c \in Clients : key[c] \in Keys /\ DOMAIN gauge[key[c]] = Gauges
  BY KeyType, TradesApart DEF TypeOK, IsRegistry, Gauges
<1>2. ASSUME NEW c \in Clients, SetGauge(c), gauge'[key[d]][g] # gauge[key[d]][g]
      PROVE  GaugeFollows(d, g)'
  <2>1. /\ NextWrite(c, "set") /\ UNCHANGED log
        /\ gauge' = [gauge EXCEPT ![key[c]][Head(todo[c]).at] = {Head(todo[c]).value}]
    BY <1>2 DEF SetGauge, NextWrite
  <2>2. c = d
    BY <1>2, <1>l, <1>t, <2>1
  <2>3. Head(todo[d]).at = g
    BY <1>2, <1>t, <2>1, <2>2
  <2>4. gauge'[key[d]][g] = {Head(todo[d]).value}
    BY <1>t, <2>1, <2>2, <2>3
  <2>5. 1 \in Pending(d, g) /\ Head(todo[d]) = todo[d][1]
    BY <2>1, <2>2, <2>3, WritePending, WriteMoves
  <2>6. {todo[d][1].value} \in ShownSince(log[d], Len(log[d]) - 1, g)
    BY <2>5 DEF GaugesLead
  <2>7. /\ Settled(d)' = IF Due(d, "set")' \cup Due(d, "sizes")' # {} THEN Len(log[d]) - 1
                         ELSE Len(log[d])
        /\ Len(log[d]) \in Nat /\ log[d] \in Seq(Books)
    BY <2>1, SettledStep, SettledFacts DEF TypeOK
  <2>8. CASE Due(d, "set")' \cup Due(d, "sizes")' # {}
    BY <1>k, <2>1, <2>4, <2>5, <2>6, <2>7, <2>8 DEF GaugeFollows
  <2>9. CASE Due(d, "set")' \cup Due(d, "sizes")' = {}
    <3>1. Pending(d, g)' = {}
      BY <2>9 DEF Pending
    <3>2. \A i \in Pending(d, g) : i = 1
      BY <2>1, <2>2, <3>1, WritePending
    <3>3. {todo[d][1].value} = Shown(log[d], Len(log[d]), g)
      <4>1. \A j \in Pending(d, g) : j <= 1
        BY <3>2
      <4>. QED
        BY <2>5, <4>1 DEF GaugesLead
    <3>4. Shown(log[d], Len(log[d]), g) \in ShownSince(log[d], Len(log[d]), g)
      BY <2>7, SinceGrows
    <3>. QED
      BY <1>k, <2>1, <2>4, <2>5, <2>7, <2>9, <3>3, <3>4 DEF GaugeFollows
  <2>. QED
    BY <2>8, <2>9
<1>3. ASSUME NEW c \in Clients, CountTrade(c) PROVE gauge'[key[d]][g] = gauge[key[d]][g]
  BY <1>3, <1>t DEF CountTrade
<1>4. (\A c \in Clients : ~SetGauge(c) /\ ~CountTrade(c)) => gauge' = gauge
  BY DEF Next, vars, Connect, ConnectFailed, Disconnect, Report, Publish, Trade, Receive,
         SetSizes, SetPrice, NextWrite, Begin, Gather
<1>. QED
  BY <1>1, <1>2, <1>3, <1>4

\* No value in an answer is older than the request.
LEMMA AnswerStep ==
  ASSUME TypeOK, TodoShape, GaugesFollow, BegunBefore, AnswerRecent, [Next]_vars
  PROVE  AnswerRecent'
<1>k. key' = key /\ \A c : Alone(c)' = Alone(c)
  BY KeyStays
<1> SUFFICES ASSUME NEW c \in Clients, Alone(c), request'.of = key[c], request'.begun > 0,
                    NEW g \in BookGauges \ Range(request'.left)
             PROVE  request'.seen[g] \in ShownSince(log'[c], request'.since[c], g)
  BY <1>k DEF AnswerRecent
<1>t. /\ log[c] \in Seq(Books) /\ Len(log[c]) \in Nat /\ request.since[c] \in Nat
      /\ Settled(c) \in Nat /\ request.since[c] <= Settled(c) /\ Settled(c) <= Len(log[c])
  BY SettledFacts DEF TypeOK, BegunBefore
<1>1. CASE request' = request
  <2>1. request.seen[g] \in ShownSince(log[c], request.since[c], g)
    BY <1>1 DEF AnswerRecent
  <2>2. log'[c] = log[c] \/ \E bk \in Books : log'[c] = Append(log[c], bk)
    BY SettledStep
  <2>3. request.since[c] <= Len(log[c])
    BY <1>t
  <2>. QED
    BY <1>1, <1>t, <2>1, <2>2, <2>3, SinceGrows
<1>2. ASSUME NEW k \in Keys, NEW order \in GatherOrders, Begin(k, order) PROVE FALSE
  <2>1. Range(request'.left) = Gauges
    BY <1>2, GatherAssumption DEF Begin
  <2>. QED
    BY <2>1 DEF Gauges
<1>3. CASE Gather
  <2>1. /\ request.left # <<>> /\ request.left \in Seq(Gauges) /\ UNCHANGED log
        /\ request' = [request EXCEPT !.left = Tail(@),
                         !.seen[Head(request.left)] = gauge[request.of][Head(request.left)]]
        /\ DOMAIN request = {"of", "left", "seen", "since", "begun"}
        /\ DOMAIN request.seen = Gauges
    BY <1>3 DEF Gather, TypeOK, IsRegistry
  <2>2. /\ request'.left = Tail(request.left) /\ request'.since = request.since
        /\ request'.of = request.of /\ request'.begun = request.begun
        /\ request'.seen = [request.seen EXCEPT ![Head(request.left)] =
                              gauge[request.of][Head(request.left)]]
    BY <2>1
  <2>3. g \in Gauges
    BY DEF Gauges
  <2>4. CASE g = Head(request.left)
    <3>1. request'.seen[g] = gauge[key[c]][g]
      BY <2>1, <2>2, <2>3, <2>4
    <3>2. gauge[key[c]][g] \in ShownSince(log[c], Settled(c), g)
      BY DEF GaugesFollow
    <3>3. ShownSince(log[c], Settled(c), g) \subseteq ShownSince(log[c], request.since[c], g)
      BY <1>t, SinceGrows
    <3>. QED
      BY <2>1, <2>2, <3>1, <3>2, <3>3
  <2>5. CASE g # Head(request.left)
    <3>1. g \notin Range(request.left)
      <4>1. ASSUME NEW i \in DOMAIN request.left, request.left[i] = g PROVE FALSE
        <5>1. /\ i # 1 /\ Len(request.left) \in Nat /\ DOMAIN request.left = 1..Len(request.left)
              /\ DOMAIN Tail(request.left) = 1..(Len(request.left) - 1)
              /\ \A j \in DOMAIN Tail(request.left) : Tail(request.left)[j] = request.left[j + 1]
          BY <2>1, <2>5, <4>1, ReadOne
        <5>2. i - 1 \in DOMAIN Tail(request.left) /\ (i - 1) + 1 = i
          BY <4>1, <5>1
        <5>3. Tail(request.left)[i - 1] = g
          BY <4>1, <5>1, <5>2
        <5>4. g \in Range(Tail(request.left))
          BY <5>2, <5>3 DEF Range
        <5>. QED
          BY <2>2, <5>4
      <4>. QED
        BY <4>1 DEF Range
    <3>2. request.seen[g] \in ShownSince(log[c], request.since[c], g)
      BY <2>2, <3>1 DEF AnswerRecent
    <3>3. request'.seen[g] = request.seen[g]
      BY <2>1, <2>2, <2>3, <2>5
    <3>. QED
      BY <2>1, <2>2, <3>2, <3>3
  <2>. QED
    BY <2>4, <2>5
<1>4. (~Gather /\ \A k \in Keys, order \in GatherOrders : ~Begin(k, order)) => request' = request
  BY DEF Next, vars, Connect, ConnectFailed, Disconnect, Report, Publish, Trade, Receive,
         SetGauge, CountTrade, SetSizes, SetPrice, NextWrite
<1>. QED
  BY <1>1, <1>2, <1>3, <1>4

-----------------------------------------------------------------------------
(***************************************************************************)
(* The theorems.                                                           *)
(***************************************************************************)
\* At the start nothing is published, and nothing said.
LEMMA InitGInv == Init => GInv
<1> SUFFICES ASSUME Init PROVE GInv
  OBVIOUS
<1>1. /\ \A c \in Clients : \A o : Due(c, o) = {}
      /\ \A c \in Clients : log[c] = <<>> /\ Len(log[c]) = 0 /\ opened[c] = 0 /\ traded[c] = {}
      /\ \A c \in Clients : key[c] \in Keys
      /\ key \in Keyings
  BY DEF Init, Due, Keys
<1>2. /\ FreshEntry \in [last : Options \cup {{0}}, size : [Sides -> Nat]]
      /\ FreshEntry.last = {} /\ {} \in Options
  BY DEF FreshEntry, Options
<1>3. IsRegistry(NoGauges)
  BY DEF IsRegistry, NoGauges
<1>4. TypeOK
  <2>1. /\ DOMAIN request = {"of", "left", "seen", "since", "begun"}
        /\ request.left = <<>> /\ request.seen = NoGauges /\ request.begun = 0
        /\ request.since = [c \in Clients |-> 0]
    BY DEF Init, NoRequest
  <2>2. /\ todo \in [Clients -> Seq(Writes)] /\ log \in [Clients -> Seq(Books)]
        /\ request.left \in Seq(Gauges)
    <3>1. \A S : <<>> \in Seq(S)
      OBVIOUS
    <3>. QED
      BY <2>1, <3>1 DEF Init
  <2>3. /\ DOMAIN gauge = Keys /\ \A k \in Keys : IsRegistry(gauge[k])
        /\ status \in [Keys -> [last : Options \cup {{0}}, size : [Sides -> Nat]]]
    BY <1>2, <1>3 DEF Init
  <2>4. /\ up \in [Clients -> BOOLEAN] /\ opened \in [Clients -> Nat]
        /\ traded \in [Clients -> Options] /\ counted \in [Keys -> Nat]
        /\ handled \in 0..MaxMessages
    BY <1>2, MetricsAssumption DEF Init
  <2>5. /\ request.begun \in 0..MaxRequests /\ ~(request.begun > 0)
        /\ request.since \in [Clients -> Nat]
    BY <2>1, MetricsAssumption
  <2>. QED
    BY <1>1, <1>3, <2>1, <2>2, <2>3, <2>4, <2>5 DEF TypeOK
<1>5. TodoShape
  BY <1>1 DEF TodoShape, Init
<1>6. TradesCounted /\ CountedFirst
  <2>1. \A k \in Keys : gauge[k][TradesGauge] = {} /\ counted[k] = 0
    BY TradesApart DEF Init, NoGauges
  <2>2. \A k \in Keys : {c \in Owners(k) : \E i \in DOMAIN todo[c] : todo[c][i].op = "inc"} = {}
    BY DEF Init, Owners
  <2>3. Cardinality({}) = 0
    BY FS_EmptySet
  <2>4. CountedFirst /\ \A k \in Keys : status[k].last = {}
    BY <1>1, <1>2 DEF CountedFirst, Init
  <2>. QED
    BY <2>1, <2>2, <2>3, <2>4 DEF TradesCounted
<1>7. StatusLeads /\ StatusTruth
  <2>1. \A k \in Keys : status[k] = FreshEntry
    BY DEF Init
  <2>2. StatusLeads
    <3> SUFFICES ASSUME NEW c \in Clients PROVE SizesLead(c) /\ PriceLeads(c)
      BY DEF StatusLeads, SizesLead, PriceLeads
    <3>1. status[key[c]] = FreshEntry /\ ~(Len(log[c]) > opened[c])
      BY <1>1, <2>1
    <3>. QED
      BY <1>1, <1>2, <3>1 DEF SizesLead, PriceLeads
  <2>3. \A k \in Keys : SizesOfOneBook(k)
    BY <2>1 DEF SizesOfOneBook
  <2>. QED
    BY <1>4, <2>2, <2>3, StatusFromLeads
<1>8. ASSUME NEW c \in Clients, NEW g \in BookGauges
      PROVE  /\ gauge[key[c]][g] = {} /\ Shown(log[c], 0, g) = {}
             /\ {} \in ShownSince(log[c], 0, g)
  <2>1. g \in Gauges /\ gauge[key[c]][g] = {}
    BY <1>1 DEF Init, NoGauges, Gauges
  <2>2. Shown(log[c], 0, g) = {}
    BY DEF Shown
  <2>3. 0 \in 0..Len(log[c])
    BY <1>1
  <2>4. {} \in ShownSince(log[c], 0, g)
    BY <2>2, <2>3, SinceMember
  <2>. QED
    BY <2>1, <2>2, <2>4
<1>9. \A c \in Clients : Settled(c) = 0
  BY <1>1, <1>4, <1>5, SettledFacts
<1>10. GaugesFollow /\ GaugesLead
  <2>1. \A c \in Clients : \A g : Pending(c, g) = {}
    BY <1>1 DEF Pending
  <2>. QED
    BY <1>1, <1>8, <1>9, <2>1 DEF GaugesFollow, GaugesLead
<1>11. BegunBefore /\ AnswerRecent
  BY <1>9 DEF BegunBefore, AnswerRecent, Init, NoRequest
<1>. QED
  BY <1>4, <1>5, <1>6, <1>7, <1>10, <1>11 DEF GInv

\* Every step keeps every part.
LEMMA NextGInv == GInv /\ [Next]_vars => GInv'
<1> SUFFICES ASSUME GInv, [Next]_vars PROVE GInv'
  OBVIOUS
<1>1. TypeOK' /\ TodoShape' /\ TradesCounted' /\ CountedFirst' /\ StatusLeads'
  BY TypeStep, TodoShapeStep, TradesCountedStep, CountedFirstStep, StatusLeadsStep DEF GInv
<1>2. GaugesLead' /\ GaugesFollow' /\ BegunBefore' /\ AnswerRecent'
  BY GaugesLeadStep, FollowsStep, BegunBeforeStep, AnswerStep DEF GInv
<1>3. StatusTruth'
  <2>1. \A k \in Keys : SizesOfOneBook(k)
    BY DEF GInv, StatusTruth, SizesOfOneBook
  <2>2. \A k \in Keys' : SizesOfOneBook(k)'
    BY <2>1, OneBookStep, KeyStays DEF GInv
  <2>3. ASSUME NEW c \in Clients, todo'[c] = <<>>
        PROVE  Due(c, "sizes")' = {} /\ Due(c, "price")' = {}
    BY <2>3 DEF Due
  <2>. QED
    BY <1>1, <2>2, <2>3 DEF StatusTruth, StatusLeads, SizesOfOneBook
<1>. QED
  BY <1>1, <1>2, <1>3 DEF GInv

\* The parts of GInv hold at every step.
THEOREM Inductive == Spec => []GInv
<1>. QED
  BY InitGInv, NextGInv, PTL DEF Spec

\* Every variable has its type.
THEOREM TypeCorrect == Spec => []TypeOK
<1>1. GInv => TypeOK
  BY DEF GInv
<1>. QED
  BY Inductive, <1>1, PTL

\* Every trade message at Kraken and Bitstamp, and every message at OKX whose first
\* element reads as a trade, is counted once, however many clients count under one
\* key, and before its price is told.
THEOREM TradesCountedHolds == Spec => []TradesCounted
<1>1. GInv => TradesCounted
  BY DEF GInv
<1>. QED
  BY Inductive, <1>1, PTL

\* /status tells the sizes of one book, and of a client alone under its key the
\* sizes and the last price of its connection.
THEOREM StatusTruthHolds == Spec => []StatusTruth
<1>1. GInv => StatusTruth
  BY DEF GInv
<1>. QED
  BY Inductive, <1>1, PTL

\* The gauges of a client alone under its key follow its books.
THEOREM GaugesFollowHolds == Spec => []GaugesFollow
<1>1. GInv => GaugesFollow
  BY DEF GInv
<1>. QED
  BY Inductive, <1>1, PTL

\* No value in an answer of /metrics is older than the last book published to the
\* end when the request began.
THEOREM AnswerRecentHolds == Spec => []AnswerRecent
<1>1. GInv => AnswerRecent
  BY DEF GInv
<1>. QED
  BY Inductive, <1>1, PTL
=============================================================================
