------------------------- MODULE PersistenceProofs -------------------------
(***************************************************************************)
(* Proofs about LobReader and Persistence, for any exchange, any prices,   *)
(* sizes, changes and rounding, and any number of versions, connections    *)
(* and faults.                                                             *)
(***************************************************************************)
EXTENDS Persistence, SequenceTheorems, FiniteSetTheorems, WellFoundedInduction, TLAPS

\* The least-number principle, from the well-foundedness of < on Nat.
LEMMA LeastNatural ==
  ASSUME NEW T, T \subseteq Nat, T # {}
  PROVE  \E m \in T : \A k \in T : ~(k < m)
<1>1. PICK m \in T : \A k \in T : <<k, m>> \notin OpToRel(<, Nat)
  BY NatLessThanWellFounded, WFMin
<1>. QED
  BY <1>1 DEF OpToRel

\* The largest of some numbers up to n.
LEMMA LargestIs ==
  ASSUME NEW T, T \subseteq Nat, T # {}, NEW n \in Nat, \A k \in T : k <= n
  PROVE  Largest(T) \in T /\ \A k \in T : k <= Largest(T)
<1> DEFINE Slack == {n - k : k \in T}
<1>1. Slack \subseteq Nat /\ Slack # {}
  <2>1. \A k \in T : n - k \in Nat
    OBVIOUS
  <2>. QED
    BY <2>1
<1>2. PICK x \in Slack : \A y \in Slack : ~(y < x)
  <2> HIDE DEF Slack
  <2>. QED
    BY <1>1, LeastNatural
<1>3. PICK m \in T : x = n - m
  OBVIOUS
<1>4. \A k \in T : k <= m
  <2>1. \A k \in T : ~(n - k < n - m) /\ k \in Nat
    BY <1>2, <1>3
  <2>. QED
    BY <2>1
<1>. QED
  BY <1>4 DEF Largest

-----------------------------------------------------------------------------
(***************************************************************************)
(* FlattenSeq.  It is a function that recurs over the positions; that      *)
(* there is such a function is shown for one length after the other.       *)
(***************************************************************************)
Piece(s, f, i) == IF i = 1 THEN s[i] ELSE f[i - 1] \o s[i]

Flat(s) == CHOOSE f : f = [i \in 1..Len(s) |-> IF i = 1 THEN s[i] ELSE f[i - 1] \o s[i]]

LEMMA FlattenIsFlat ==
  ASSUME NEW s
  PROVE  FlattenSeq(s) = IF Len(s) = 0 THEN s ELSE Flat(s)[Len(s)]
  BY DEF FlattenSeq, Flat

\* There is such a function for any length.
LEMMA FlatExists ==
  ASSUME NEW s, NEW n \in Nat
  PROVE  \E f : f = [i \in 1..n |-> Piece(s, f, i)]
<1> DEFINE T == {k \in Nat : ~ \E f : f = [i \in 1..k |-> Piece(s, f, i)]}
<1>1. SUFFICES ASSUME T # {} PROVE FALSE
  OBVIOUS
<1>2. PICK m \in T : \A k \in T : ~(k < m)
  <2>1. T \subseteq Nat
    OBVIOUS
  <2> HIDE DEF T
  <2>. QED
    BY <1>1, <2>1, LeastNatural
<1>3. CASE m = 0
  <2> DEFINE f == [i \in 1..0 |-> s]
  <2>1. f = [i \in 1..0 |-> Piece(s, f, i)]
    OBVIOUS
  <2>. QED
    BY <1>3, <2>1
<1>4. CASE m # 0
  <2>1. m - 1 \in Nat /\ m - 1 < m
    BY <1>4
  <2>2. PICK f : f = [i \in 1..(m - 1) |-> Piece(s, f, i)]
    BY <1>2, <2>1
  <2> DEFINE g == [i \in 1..m |-> IF i = m THEN Piece(s, f, m) ELSE f[i]]
  <2>3. ASSUME NEW i \in 1..m PROVE g[i] = Piece(s, g, i)
    <3>1. i # 1 => i - 1 \in 1..(m - 1) /\ i - 1 \in 1..m /\ i - 1 # m
      BY <1>4
    <3>2. i # 1 => g[i - 1] = f[i - 1]
      BY <3>1
    <3>3. Piece(s, g, i) = Piece(s, f, i)
      BY <3>2 DEF Piece
    <3>4. i # m => i \in 1..(m - 1)
      BY <1>4
    <3>5. i # m => f[i] = Piece(s, f, i)
      BY <2>2, <3>4
    <3>. QED
      BY <3>3, <3>5
  <2>4. g = [i \in 1..m |-> Piece(s, g, i)]
    BY <2>3
  <2>. QED
    BY <2>4
<1>. QED
  BY <1>3, <1>4

LEMMA FlatPiece ==
  ASSUME NEW s, Len(s) \in Nat, NEW i \in 1..Len(s)
  PROVE  Flat(s)[i] = Piece(s, Flat(s), i)
<1> DEFINE f == Flat(s)
<1>1. \E h : h = [k \in 1..Len(s) |-> IF k = 1 THEN s[k] ELSE h[k - 1] \o s[k]]
  <2>1. PICK h : h = [k \in 1..Len(s) |-> Piece(s, h, k)]
    BY FlatExists
  <2>2. h = [k \in 1..Len(s) |-> IF k = 1 THEN s[k] ELSE h[k - 1] \o s[k]]
    BY <2>1 DEF Piece
  <2>. QED
    BY <2>2
<1>2. f = [k \in 1..Len(s) |-> IF k = 1 THEN s[k] ELSE f[k - 1] \o s[k]]
  BY <1>1 DEF Flat
<1>. QED
  BY <1>2 DEF Piece

\* What is appended comes last; nothing before it changes.
LEMMA FlattenAppend ==
  ASSUME NEW S, NEW s \in Seq(Seq(S)), NEW x \in Seq(S)
  PROVE  FlattenSeq(Append(s, x)) = FlattenSeq(s) \o x
<1> DEFINE u == Append(s, x)
           N == Len(s)
           T == {k \in Nat : k \in 1..N /\ Flat(u)[k] # Flat(s)[k]}
<1>1. /\ u \in Seq(Seq(S)) /\ N \in Nat /\ Len(u) = N + 1
      /\ \A i \in 1..N : u[i] = s[i]
      /\ u[N + 1] = x
  BY AppendProperties, LenProperties
<1>2. T = {}
  <2>1. SUFFICES ASSUME T # {} PROVE FALSE
    OBVIOUS
  <2>2. PICK m \in T : \A k \in T : ~(k < m)
    <3>1. T \subseteq Nat
      OBVIOUS
    <3> HIDE DEF T
    <3>. QED
      BY <2>1, <3>1, LeastNatural
  <2>3. m \in 1..N /\ m \in 1..Len(u) /\ Len(u) \in Nat /\ u[m] = s[m]
    BY <1>1
  <2>4. m # 1 => m - 1 \in 1..N /\ m - 1 \in Nat /\ m - 1 < m
    BY <1>1
  <2>5. m # 1 => Flat(u)[m - 1] = Flat(s)[m - 1]
    BY <2>2, <2>4
  <2>6. Piece(u, Flat(u), m) = Piece(s, Flat(s), m)
    BY <2>3, <2>5 DEF Piece
  <2> HIDE DEF u
  <2>7. Flat(u)[m] = Flat(s)[m]
    BY <1>1, <2>3, <2>6, FlatPiece
  <2>. QED
    BY <2>7
<1>3. N + 1 \in 1..Len(u) /\ Len(u) \in Nat /\ Len(u) # 0
  BY <1>1
<1> HIDE DEF u
<1>4. FlattenSeq(u) = Piece(u, Flat(u), N + 1)
  BY <1>1, <1>3, FlatPiece, FlattenIsFlat
<1>5. CASE N = 0
  <2>1. s = <<>>
    BY <1>5, EmptySeq
  <2>2. FlattenSeq(s) = <<>>
    BY <1>5, <2>1, FlattenIsFlat
  <2>3. FlattenSeq(u) = x
    BY <1>1, <1>4, <1>5 DEF Piece
  <2>. QED
    BY <2>2, <2>3, ConcatEmptySeq DEF u
<1>6. CASE N # 0
  <2>1. N \in 1..N /\ N + 1 # 1 /\ N + 1 - 1 = N
    BY <1>1, <1>6
  <2>2. Flat(u)[N] = Flat(s)[N]
    BY <1>1, <1>2, <2>1
  <2>3. FlattenSeq(u) = Flat(u)[N] \o x
    BY <1>1, <1>4, <2>1 DEF Piece
  <2>4. FlattenSeq(s) = Flat(s)[N]
    BY <1>6, FlattenIsFlat
  <2>. QED
    BY <2>2, <2>3, <2>4 DEF u
<1>. QED
  BY <1>5, <1>6

-----------------------------------------------------------------------------
(***************************************************************************)
(* Rows.                                                                   *)
(***************************************************************************)
KeySpace == Sides \X Nat
Entries  == [key : KeySpace, size : Nat]
Versions == [book : Book, at : Nat]
Messages == [type : {"snapshot", "update"}, ver : Nat, levels : SUBSET Level, ts : Nat]
Batches  == [ts : Nat, action : {"snapshot", "update"}, rows : Seq(Entries),
             ver : Nat, prior : Nat, gap : SUBSET KeySpace]
FileRows == [ts : Nat, action : {"snapshot", "update"}, key : KeySpace, size : Nat,
             batch : Nat]

\* The levels are finitely many.
LEMMA LevelFinite == IsFiniteSet(Level) /\ Level \subseteq KeySpace
<1>1. IsFiniteSet(Sides)
  <2>1. Sides = {"bid"} \cup {"ask"}
    BY DEF Sides
  <2>2. IsFiniteSet({"bid"} \cup {"ask"})
    BY FS_Singleton, FS_AddElement
  <2>. QED
    BY <2>1, <2>2
<1>2. IsFiniteSet(Level)
  BY <1>1, FS_Product, PersistenceAssumption DEF Level
<1>. QED
  BY <1>2, PersistenceAssumption DEF Level, KeySpace

\* A number that is printed is a number, and 0 stays 0.
LEMMA PrintedType ==
  /\ \A n \in Nat : Printed(n) \in Nat
  /\ Printed(0) = 0
<1>1. Unit \in Nat /\ Unit > 0
  BY PersistenceAssumption
<1>2. ASSUME NEW n \in Nat PROVE (2 * n + Unit) \div (2 * Unit) \in Nat
  <2> DEFINE a == 2 * n + Unit
             b == 2 * Unit
  <2>1. a \in Nat /\ b \in Nat /\ b > 0
    BY <1>1
  <2> HIDE DEF a, b
  <2>2. a \div b \in Nat
    BY <2>1
  <2>. QED
    BY <2>2 DEF a, b
<1>3. (2 * 0 + Unit) \div (2 * Unit) = 0
  <2> DEFINE b == 2 * Unit
  <2>1. b \in Nat /\ Unit < b
    BY <1>1
  <2> HIDE DEF b
  <2>2. Unit \div b = 0
    BY <1>1, <2>1
  <2>3. 2 * 0 + Unit = Unit
    BY <1>1
  <2>. QED
    BY <2>2, <2>3 DEF b
<1>4. \A k \in Nat : Unit * k \in Nat
  BY <1>1
<1>5. Unit * 0 = 0
  BY <1>1
<1>. QED
  BY <1>2, <1>3, <1>4, <1>5 DEF Printed

LEMMA KeyType ==
  /\ \A l \in Level : KeyOf(l) \in KeySpace
  /\ AllKeys \subseteq KeySpace
  /\ EmptyEntry.key \in KeySpace /\ EmptyEntry \in Entries
<1>1. ASSUME NEW l \in Level PROVE KeyOf(l) \in KeySpace
  <2>1. l[1] \in Sides /\ l[2] \in Nat
    BY PersistenceAssumption DEF Level
  <2>. QED
    BY <2>1, PrintedType DEF KeyOf, KeySpace
<1>. QED
  BY <1>1 DEF AllKeys, EmptyEntry, KeySpace, Entries, Sides

\* Of two levels one comes before the other, and never after itself.
LEMMA BeforeOrder ==
  ASSUME NEW l \in Level, NEW m \in Level
  PROVE  /\ ~Before(l, l)
         /\ l # m => Before(l, m) \/ Before(m, l)
         /\ \A n \in Level : Before(n, l) /\ Before(l, m) => Before(n, m)
<1>1. ASSUME NEW n \in Level
      PROVE  n[1] \in {"bid", "ask"} /\ n[2] \in Nat /\ n = <<n[1], n[2]>>
  <2>1. PICK s \in Sides, p \in Prices : n = <<s, p>>
    BY DEF Level
  <2>2. s \in {"bid", "ask"} /\ p \in Nat
    BY PersistenceAssumption DEF Sides
  <2>. QED
    BY <2>1, <2>2
<1>. QED
  BY <1>1 DEF Before

\* The levels of a message become rows each once, bids before asks and the best first
\* (lob_levels chains the two sides as the exchange sent them).
THEOREM InOrderLists ==
  ASSUME NEW S \in SUBSET Level
  PROVE  /\ InOrder(S) \in Seq(S)
         /\ \A l \in S : \E i \in DOMAIN InOrder(S) : InOrder(S)[i] = l
         /\ \A i, j \in DOMAIN InOrder(S) : i < j => Before(InOrder(S)[i], InOrder(S)[j])
<1> DEFINE N == Cardinality(S)
           Ahead(l) == {m \in S : Before(m, l)}
           r == [l \in S |-> Cardinality(Ahead(l)) + 1]
<1>1. /\ IsFiniteSet(S) /\ N \in Nat
      /\ IsFiniteSet(1..N) /\ Cardinality(1..N) = N
  <2>1. IsFiniteSet(S) /\ N \in Nat
    BY LevelFinite, FS_Subset, FS_CardinalityType
  <2> HIDE DEF N
  <2>. QED
    BY <2>1, FS_Interval
<1>2. ASSUME NEW l \in S
      PROVE  /\ IsFiniteSet(Ahead(l)) /\ Cardinality(Ahead(l)) \in Nat
             /\ Cardinality(Ahead(l)) \in 0..(N - 1)
  <2>1. Ahead(l) \subseteq S \ {l}
    BY BeforeOrder
  <2>2. IsFiniteSet(S \ {l}) /\ Cardinality(S \ {l}) = N - 1
    BY <1>1, FS_RemoveElement
  <2> HIDE DEF Ahead
  <2>3. IsFiniteSet(Ahead(l)) /\ Cardinality(Ahead(l)) <= N - 1
    BY <2>1, <2>2, FS_Subset
  <2>. QED
    BY <1>1, <2>3, FS_CardinalityType
<1>3. r \in [S -> 1..N]
  <2> HIDE DEF Ahead, N
  <2>. QED
    BY <1>1, <1>2
<1>4. ASSUME NEW l \in S, NEW m \in S, Before(l, m) PROVE Cardinality(Ahead(l)) < Cardinality(Ahead(m))
  <2>1. Ahead(l) \cup {l} \subseteq Ahead(m) /\ l \notin Ahead(l)
    BY <1>4, BeforeOrder
  <2>2. IsFiniteSet(Ahead(l)) /\ IsFiniteSet(Ahead(m))
    BY <1>2
  <2> HIDE DEF Ahead
  <2>3. Cardinality(Ahead(l) \cup {l}) = Cardinality(Ahead(l)) + 1
    BY <2>1, <2>2, FS_AddElement
  <2>4. Cardinality(Ahead(l) \cup {l}) <= Cardinality(Ahead(m))
    BY <2>1, <2>2, FS_Subset
  <2>. QED
    BY <2>2, <2>3, <2>4, FS_CardinalityType
<1>5. ASSUME NEW l \in S, NEW m \in S, l # m PROVE r[l] # r[m]
  <2>1. Before(l, m) \/ Before(m, l)
    BY <1>5, BeforeOrder
  <2>2. Cardinality(Ahead(l)) # Cardinality(Ahead(m))
    <3>1. Cardinality(Ahead(l)) \in Nat /\ Cardinality(Ahead(m)) \in Nat
      BY <1>2
    <3> HIDE DEF Ahead
    <3>. QED
      BY <1>4, <2>1, <3>1
  <2>3. Cardinality(Ahead(l)) \in Nat /\ Cardinality(Ahead(m)) \in Nat
    BY <1>2
  <2> HIDE DEF Ahead
  <2>. QED
    BY <2>2, <2>3
<1>6. \A i \in 1..N : \E l \in S : r[l] = i
  <2> HIDE DEF r, N
  <2>1. r \in Injection(S, 1..N)
    BY <1>3, <1>5 DEF Injection, IsInjective
  <2>2. r \in Surjection(S, 1..N)
    BY <1>1, <2>1, FS_Injection DEF N
  <2>. QED
    BY <2>2 DEF Surjection
<1>7. InOrder(S) = [i \in 1..N |-> CHOOSE l \in S : Cardinality(Ahead(l)) = i - 1]
  BY DEF InOrder
<1>8. ASSUME NEW i \in 1..N
      PROVE  InOrder(S)[i] \in S /\ r[InOrder(S)[i]] = i
  <2>1. PICK l \in S : r[l] = i
    BY <1>6
  <2>2. \A m \in S : Cardinality(Ahead(m)) \in Nat /\ r[m] = Cardinality(Ahead(m)) + 1
    BY <1>2
  <2> DEFINE c == InOrder(S)[i]
  <2>3. c = CHOOSE m \in S : Cardinality(Ahead(m)) = i - 1
    BY <1>7
  <2>4. i \in Nat
    BY <1>1
  <2> HIDE DEF Ahead, r, N, c
  <2>5. Cardinality(Ahead(l)) = i - 1
    BY <2>1, <2>2, <2>4
  <2>6. c \in S /\ Cardinality(Ahead(c)) = i - 1
    BY <2>3, <2>5
  <2>. QED
    BY <2>2, <2>4, <2>6 DEF c
<1>9. ASSUME NEW l \in S PROVE \E i \in 1..N : InOrder(S)[i] = l
  <2>1. r[l] \in 1..N
    BY <1>3
  <2> HIDE DEF r
  <2>. QED
    BY <1>5, <1>8, <2>1
<1>10. InOrder(S) \in [1..N -> S]
  BY <1>7, <1>8
<1>11. InOrder(S) \in Seq(S) /\ DOMAIN InOrder(S) = 1..N
  <2> HIDE DEF N
  <2>. QED
    BY <1>1, <1>10, SeqDef
<1>12. ASSUME NEW i \in 1..N, NEW j \in 1..N, i < j PROVE Before(InOrder(S)[i], InOrder(S)[j])
  <2> DEFINE x == InOrder(S)[i]
             y == InOrder(S)[j]
  <2>1. x \in S /\ y \in S /\ r[x] = i /\ r[y] = j
    BY <1>8
  <2>2. /\ Cardinality(Ahead(x)) \in Nat /\ r[x] = Cardinality(Ahead(x)) + 1
        /\ Cardinality(Ahead(y)) \in Nat /\ r[y] = Cardinality(Ahead(y)) + 1
    BY <1>2, <2>1
  <2> HIDE DEF x, y, r, Ahead
  <2>3. x # y /\ Cardinality(Ahead(x)) < Cardinality(Ahead(y))
    BY <1>12, <2>1, <2>2
  <2>4. ~Before(y, x)
    <3>1. Before(y, x) => Cardinality(Ahead(y)) < Cardinality(Ahead(x))
      BY <1>4, <2>1
    <3>. QED
      BY <2>2, <2>3, <3>1
  <2>. QED
    BY <2>1, <2>3, <2>4, BeforeOrder DEF x, y
<1>. QED
  BY <1>9, <1>11, <1>12

-----------------------------------------------------------------------------
(***************************************************************************)
(* What rows say.                                                          *)
(***************************************************************************)
LEMMA RowType ==
  ASSUME NEW rows \in Seq(FileRows), NEW i \in DOMAIN rows
  PROVE  /\ i \in Nat /\ i \in 1..Len(rows) /\ Len(rows) \in Nat
         /\ rows[i].ts \in Nat /\ rows[i].size \in Nat /\ rows[i].key \in KeySpace
         /\ rows[i].action \in {"snapshot", "update"} /\ rows[i].batch \in Nat
<1>1. i \in 1..Len(rows) /\ Len(rows) \in Nat
  BY LenProperties
<1>2. rows[i] \in FileRows
  BY <1>1, ElementOfSeq
<1>. QED
  BY <1>1, <1>2 DEF FileRows

\* The last row on a key is one of those on it, and none comes after it.
LEMMA LastOnIs ==
  ASSUME NEW rows \in Seq(FileRows), NEW C \in SUBSET DOMAIN rows,
         NEW k \in {rows[i].key : i \in C}
  PROVE  \E i \in C : /\ rows[i].key = k
                      /\ LastOn(rows, C, k) = rows[i]
                      /\ Largest({j \in C : rows[j].key = k}) = i
<1> DEFINE T == {j \in C : rows[j].key = k}
<1>1. T \subseteq Nat /\ T # {} /\ Len(rows) \in Nat /\ \A j \in T : j <= Len(rows)
  BY LenProperties
<1>2. Largest(T) \in T
  <2> HIDE DEF T
  <2>. QED
    BY <1>1, LargestIs
<1>. QED
  BY <1>2 DEF LastOn

\* A level in what rows say is one that a row names, with that row's size; 0 only if
\* the row belongs to a snapshot.
LEMMA WordsTold ==
  ASSUME NEW rows \in Seq(FileRows), NEW C \in SUBSET DOMAIN rows,
         NEW k \in DOMAIN LastWords(rows, C)
  PROVE  \E i \in C : /\ rows[i].key = k /\ rows[i].size = LastWords(rows, C)[k]
                      /\ rows[i].action = "snapshot" \/ rows[i].size # 0
<1>1. /\ k \in {rows[i].key : i \in C}
      /\ LastOn(rows, C, k).action = "snapshot" \/ LastOn(rows, C, k).size # 0
      /\ LastWords(rows, C)[k] = LastOn(rows, C, k).size
  BY DEF LastWords
<1>2. PICK i \in C : rows[i].key = k /\ LastOn(rows, C, k) = rows[i]
  BY <1>1, LastOnIs
<1>. QED
  BY <1>1, <1>2

LEMMA NothingTold ==
  ASSUME NEW rows
  PROVE  LastWords(rows, {}) = NoLevel
<1>1. DOMAIN LastWords(rows, {}) = {}
  BY DEF LastWords
<1>2. LastWords(rows, {}) = [k \in {} |-> LastOn(rows, {}, k).size]
  BY DEF LastWords
<1>3. \A f, g : f = [k \in {} |-> LastOn(rows, {}, k).size] /\ g = [k \in {} |-> 0] => f = g
  OBVIOUS
<1>. QED
  BY <1>2, <1>3 DEF NoLevel

\* One row more is applied to what the rows before it say.
LEMMA WordsNext ==
  ASSUME NEW rows \in Seq(FileRows), NEW n \in DOMAIN rows,
         NEW C \in SUBSET (1..(n - 1))
  PROVE  LastWords(rows, C \cup {n}) = ApplyLevel(LastWords(rows, C), rows[n])
<1> DEFINE D == C \cup {n}
           key == rows[n].key
           old == LastWords(rows, C)
           new == LastWords(rows, D)
<1>1. /\ n \in 1..Len(rows) /\ Len(rows) \in Nat /\ DOMAIN rows = 1..Len(rows)
      /\ C \in SUBSET DOMAIN rows /\ D \in SUBSET DOMAIN rows
      /\ rows[n].action \in {"snapshot", "update"}
  <2>1. /\ n \in 1..Len(rows) /\ Len(rows) \in Nat /\ DOMAIN rows = 1..Len(rows)
        /\ rows[n].action \in {"snapshot", "update"}
    BY RowType, LenProperties
  <2>2. 1..(n - 1) \subseteq 1..Len(rows)
    BY <2>1
  <2>. QED
    BY <2>1, <2>2
<1>2. LastOn(rows, D, key) = rows[n]
  <2>1. PICK i \in D : /\ rows[i].key = key
                       /\ LastOn(rows, D, key) = rows[i]
                       /\ Largest({j \in D : rows[j].key = key}) = i
    <3>1. key \in {rows[i].key : i \in D}
      OBVIOUS
    <3> HIDE DEF D, key
    <3>. QED
      BY <1>1, <3>1, LastOnIs
  <2> DEFINE T == {j \in D : rows[j].key = key}
  <2>2. n \in T /\ T \subseteq Nat /\ \A j \in T : j <= n
    BY <1>1
  <2>3. n <= Largest(T)
    <3> HIDE DEF T
    <3>. QED
      BY <1>1, <2>2, LargestIs
  <2>. QED
    BY <1>1, <2>1, <2>3
<1>3. ASSUME NEW k, k # key PROVE LastOn(rows, D, k) = LastOn(rows, C, k)
  <2>1. {i \in D : rows[i].key = k} = {i \in C : rows[i].key = k}
    BY <1>3
  <2>. QED
    BY <2>1 DEF LastOn
<1> DEFINE present(E) == {k \in {rows[i].key : i \in E} :
                            \/ LastOn(rows, E, k).action = "snapshot"
                            \/ LastOn(rows, E, k).size # 0}
<1>4. /\ old = [k \in present(C) |-> LastOn(rows, C, k).size]
      /\ new = [k \in present(D) |-> LastOn(rows, D, k).size]
  BY DEF LastWords
<1>5. \A k : k # key => (k \in present(D) <=> k \in present(C))
  <2>1. {rows[i].key : i \in D} = {rows[i].key : i \in C} \cup {key}
    OBVIOUS
  <2> HIDE DEF D, key
  <2>. QED
    BY <1>3, <2>1
<1>6. key \in present(D) <=> ~(rows[n].action = "update" /\ rows[n].size = 0)
  <2>1. key \in {rows[i].key : i \in D}
    OBVIOUS
  <2> HIDE DEF D, key
  <2>. QED
    BY <1>1, <1>2, <2>1
<1>7. CASE rows[n].action = "update" /\ rows[n].size = 0
  <2>1. present(D) = present(C) \ {key}
    BY <1>5, <1>6, <1>7
  <2> HIDE DEF D, present, key
  <2>2. new = [k \in present(C) \ {key} |-> LastOn(rows, C, k).size]
    BY <1>3, <1>4, <2>1
  <2>3. Without(old, key) = [k \in present(C) \ {key} |-> LastOn(rows, C, k).size]
    BY <1>4 DEF Without
  <2>. QED
    BY <1>7, <2>2, <2>3 DEF ApplyLevel, key, D
<1>8. CASE ~(rows[n].action = "update" /\ rows[n].size = 0)
  <2>1. present(D) = present(C) \cup {key}
    BY <1>5, <1>6, <1>8
  <2> HIDE DEF D, present, key
  <2> DEFINE f == [k \in present(C) \cup {key} |->
                     IF k = key THEN rows[n].size ELSE LastOn(rows, C, k).size]
  <2>2. new = f
    BY <1>2, <1>3, <1>4, <2>1
  <2>3. With(old, key, rows[n].size) = f
    BY <1>4 DEF With
  <2>. QED
    BY <1>8, <2>2, <2>3 DEF ApplyLevel, key, D
<1>. QED
  BY <1>7, <1>8

\* What counts once a row more is read.
LEMMA CountingNext ==
  ASSUME NEW rows \in Seq(FileRows), NEW n \in DOMAIN rows
  PROVE  /\ Counting(rows, 1..(n - 1)) \subseteq 1..(n - 1)
         /\ Counting(rows, 1..n) = {n} \cup (IF StartsSnapshot(rows, n) THEN {}
                                             ELSE Counting(rows, 1..(n - 1)))
<1> DEFINE S(m) == {0} \cup {j \in 1..m : StartsSnapshot(rows, j)}
<1>1. n \in 1..Len(rows) /\ Len(rows) \in Nat /\ n \in Nat /\ n > 0
  BY RowType
<1>2. ASSUME NEW m \in Nat
      PROVE  Largest(S(m)) \in S(m) /\ Largest(S(m)) \in 0..m /\ \A k \in S(m) : k <= Largest(S(m))
  <2>1. S(m) \subseteq Nat /\ S(m) # {} /\ \A k \in S(m) : k <= m
    BY <1>2
  <2>2. \A k \in S(m) : k \in 0..m
    BY <1>2
  <2> HIDE DEF S
  <2>3. Largest(S(m)) \in S(m) /\ \A k \in S(m) : k <= Largest(S(m))
    BY <1>2, <2>1, LargestIs
  <2>. QED
    BY <2>2, <2>3
<1>3. \A m \in Nat : Counting(rows, 1..m) = {i \in 1..m : i >= Largest(S(m))}
  BY DEF Counting
<1>4. CASE StartsSnapshot(rows, n)
  <2>1. n \in S(n)
    BY <1>1, <1>4
  <2> HIDE DEF S
  <2>2. Largest(S(n)) = n
    BY <1>1, <1>2, <2>1
  <2>. QED
    BY <1>1, <1>3, <1>4, <2>2
<1>5. CASE ~StartsSnapshot(rows, n)
  <2>1. S(n) = S(n - 1)
    BY <1>1, <1>5
  <2>2. n - 1 \in Nat
    BY <1>1
  <2> HIDE DEF S
  <2>3. Largest(S(n)) \in 0..(n - 1)
    BY <1>2, <2>1, <2>2
  <2>. QED
    BY <1>1, <1>3, <1>5, <2>1, <2>2, <2>3
<1>6. Counting(rows, 1..(n - 1)) \subseteq 1..(n - 1)
  BY DEF Counting
<1>. QED
  BY <1>4, <1>5, <1>6

\* The book after a row more.
LEMMA BookNext ==
  ASSUME NEW rows \in Seq(FileRows), NEW n \in DOMAIN rows
  PROVE  LastWords(rows, Counting(rows, 1..n)) =
           ApplyLevel(IF StartsSnapshot(rows, n) THEN NoLevel
                      ELSE LastWords(rows, Counting(rows, 1..(n - 1))), rows[n])
<1> DEFINE C == IF StartsSnapshot(rows, n) THEN {} ELSE Counting(rows, 1..(n - 1))
<1>1. C \in SUBSET (1..(n - 1)) /\ Counting(rows, 1..n) = C \cup {n}
  BY CountingNext
<1>2. LastWords(rows, C) = IF StartsSnapshot(rows, n) THEN NoLevel
                           ELSE LastWords(rows, Counting(rows, 1..(n - 1)))
  BY NothingTold
<1> HIDE DEF C
<1>. QED
  BY <1>1, <1>2, WordsNext
-----------------------------------------------------------------------------
(***************************************************************************)
(* The inductive invariant.                                                *)
(***************************************************************************)
\* The version of the exchange's book that the messages read so far lead to.
ReadUpto == Len(hist) - Len(socket)

Shape ==
  /\ exchange \in Exchanges
  /\ hist \in Seq(Versions) /\ hist # <<>>
  /\ socket \in Seq(Messages) /\ table \in Seq(Batches)
  /\ conn \in {"off", "buffering", "live"}
  /\ snapshots \in 0..MaxSnapshots /\ faults \in 0..MaxFaults
  /\ gap \subseteq AllKeys /\ last \in 0..Len(hist)
  /\ conn = "off" => socket = <<>> /\ gap = AllKeys

\* The exchange's clock does not go back.
ClockForward ==
  \A v, w \in DOMAIN hist : v <= w => hist[v].at <= hist[w].at

\* A message is what its type says: a snapshot lists the book of its version, an
\* update at least what changed with it.
Genuine(m) ==
  /\ m.ver \in DOMAIN hist
  /\ m.ts \in {0, hist[m.ver].at}
  /\ m.type = "snapshot" => /\ exchange # "bitstamp"
                            /\ m.levels = Listed(hist[m.ver].book)
  /\ m.type = "update" =>
       /\ m.ver > 1
       /\ \A l \in Level \ m.levels : hist[m.ver].book[l] = hist[m.ver - 1].book[l]

\* The versions up to the current one wait on the socket, each once and in order,
\* and none is older than what is stored.
SocketFits ==
  /\ Len(socket) <= Len(hist)
  /\ \A i \in DOMAIN socket : /\ socket[i].ver = ReadUpto + i
                              /\ last <= socket[i].ver
                              /\ Genuine(socket[i])

\* What is not in the gap has not changed since the last batch.
GapFits ==
  \A l \in Level : KeyOf(l) \notin gap =>
    last \in 1..ReadUpto /\ hist[last].book[l] = hist[ReadUpto].book[l]

KeysOf(b) == {b.rows[j].key : j \in DOMAIN b.rows}

\* A row has the size its version has of a level; or stands for a diff that lists
\* nothing.
RowFits(b, e) ==
  \/ e = EmptyEntry /\ exchange = "bitstamp" /\ b.action = "update"
  \/ \E l \in Level : e.key = KeyOf(l) /\ e.size = Printed(hist[b.ver].book[l])

\* A batch lists all that its version has, or all that changed since the batch
\* stored before it but for its gap.
BatchFits(b) ==
  /\ b.ver \in 1..last
  /\ b.ts \in {0, hist[b.ver].at}
  /\ b.rows # <<>>
  /\ \A j \in DOMAIN b.rows : RowFits(b, b.rows[j])
  /\ b.action = "snapshot" =>
       \A l \in Level : hist[b.ver].book[l] # 0 => KeyOf(l) \in KeysOf(b)
  /\ b.action = "update" =>
       \A l \in Level : KeyOf(l) \notin b.gap \cup KeysOf(b) =>
         /\ b.prior \in DOMAIN hist
         /\ hist[b.prior].book[l] = hist[b.ver].book[l]

TableFits ==
  /\ \A i \in DOMAIN table : BatchFits(table[i])
  /\ \A i, j \in DOMAIN table : i <= j => table[i].ts <= table[j].ts

\* The reader, whatever the file: the file is sorted, and what the reader carries
\* and has written is what the rows say.
Sorted(rows) == \A i, j \in DOMAIN rows : i <= j => rows[i].ts <= rows[j].ts

Yieldable == {[ts |-> t, book |-> BookAt(file, t)] : t \in Timestamps(file)}

Earlier(rows, t) == {u \in Timestamps(rows) : u < t}

Carries ==
  /\ file \in Seq(FileRows) /\ Sorted(file)
  /\ next \in 1..(Len(file) + 1)
  /\ current = IF next = 1 THEN {} ELSE {file[next - 1].ts}
  /\ cleared \in BOOLEAN
  /\ cleared <=> \E i \in 1..(next - 1) : /\ file[i].ts = file[next - 1].ts
                                          /\ file[i].action = "snapshot"
  /\ book = LastWords(file, Counting(file, 1..(next - 1)))
  /\ reader \in {"idle", "reading", "done", "interrupted"}
  /\ reader = "idle" => file = <<>> /\ buffer = <<>> /\ lob2 = <<>>

Written ==
  /\ buffer \in Seq(Yieldable) /\ lob2 \in Seq(Yieldable)
  /\ Len(buffer) < FlushSize
  /\ \A i \in DOMAIN (lob2 \o buffer) :
       Cardinality(Earlier(file, (lob2 \o buffer)[i].ts)) = i - 1
  /\ reader = "reading" =>
       Len(lob2) + Len(buffer) = IF next = 1 THEN 0
                                 ELSE Cardinality(Earlier(file, file[next - 1].ts))
  /\ reader = "done" => /\ buffer = <<>>
                        /\ Len(lob2) = Cardinality(Timestamps(file))

\* The keys of rows to come in the batch that is being read.
ToCome == {file[i].key : i \in {j \in next..Len(file) : file[j].batch = file[next - 1].batch}}

\* What the rows tell of is right, but for what the rest of the batch will tell.
Told ==
  /\ reader # "idle" => file = FileOf(table)
  /\ known \subseteq AllKeys \cup {EmptyEntry.key}
  /\ next > 1 => \A l \in Level :
       Unambiguous(l) /\ KeyOf(l) \in known \ ToCome =>
         SizeIn(book, KeyOf(l)) = Printed(hist[VersionRead].book[l])

ClientInv == Shape /\ ClockForward /\ SocketFits /\ GapFits /\ TableFits
ReaderInv == Carries /\ Written /\ Told

PInv == ClientInv /\ ReaderInv

-----------------------------------------------------------------------------
(***************************************************************************)
(* The reader, on a sorted file.                                           *)
(***************************************************************************)
\* The next row begins a new timestamp, or begins a snapshot, as seen by the reader
\* and as seen in the file.
LEMMA RowSeen ==
  ASSUME Carries, next <= Len(file)
  PROVE  /\ next \in DOMAIN file /\ next \in Nat /\ next > 0 /\ Len(file) \in Nat
         /\ next # 1 => next - 1 \in DOMAIN file
         /\ Turn(file[next]) <=> next # 1 /\ file[next - 1].ts # file[next].ts
         /\ Clears(file[next]) <=> StartsSnapshot(file, next)
<1>1. /\ file \in Seq(FileRows) /\ Sorted(file) /\ next \in 1..(Len(file) + 1)
      /\ current = IF next = 1 THEN {} ELSE {file[next - 1].ts}
      /\ cleared \in BOOLEAN
      /\ cleared <=> \E i \in 1..(next - 1) : /\ file[i].ts = file[next - 1].ts
                                              /\ file[i].action = "snapshot"
  BY DEF Carries
<1>2. /\ Len(file) \in Nat /\ DOMAIN file = 1..Len(file)
      /\ next \in DOMAIN file /\ next \in Nat /\ next > 0
      /\ next # 1 => next - 1 \in DOMAIN file
      /\ \A i \in 1..(next - 1) : i \in DOMAIN file /\ next - 1 \in DOMAIN file /\ i <= next - 1
  BY <1>1, LenProperties
<1>3. Turn(file[next]) <=> next # 1 /\ file[next - 1].ts # file[next].ts
  BY <1>1 DEF Turn
<1>4. \A i \in DOMAIN file : file[i].ts \in Nat /\ file[i].action \in {"snapshot", "update"}
  BY <1>1, RowType
<1>5. CASE Turn(file[next])
  <2>1. file[next - 1].ts <= file[next].ts /\ file[next - 1].ts # file[next].ts
    BY <1>1, <1>2, <1>3, <1>5 DEF Sorted
  <2>2. ASSUME NEW j \in 1..(next - 1) PROVE file[j].ts # file[next].ts
    <3>1. file[j].ts <= file[next - 1].ts
      BY <1>1, <1>2 DEF Sorted
    <3>. QED
      BY <1>2, <1>4, <2>1, <3>1
  <2>. QED
    BY <1>2, <1>3, <1>5, <2>2 DEF Clears, StartsSnapshot
<1>6. CASE ~Turn(file[next])
  <2>1. ASSUME NEW j \in 1..(next - 1) PROVE file[next - 1].ts = file[next].ts
    BY <1>2, <1>3, <1>6
  <2>2. cleared <=> \E i \in 1..(next - 1) : /\ file[i].ts = file[next].ts
                                             /\ file[i].action = "snapshot"
    BY <1>1, <2>1
  <2>. QED
    BY <1>2, <1>3, <1>6, <2>2 DEF Clears, StartsSnapshot
<1>. QED
  BY <1>2, <1>3, <1>5, <1>6

\* What the reader carries from row to row.
LEMMA CarriesRead ==
  ASSUME Carries, ReadRow
  PROVE  Carries'
<1>1. /\ reader = "reading" /\ reader' = reader /\ file' = file
      /\ next <= Len(file) /\ next' = next + 1
      /\ book' = ApplyLevel(IF Clears(file[next]) THEN NoLevel ELSE book, file[next])
      /\ cleared' = (Clears(file[next]) \/ (cleared /\ ~Turn(file[next])))
      /\ current' = {file[next].ts}
  BY DEF ReadRow
<1>2. /\ next \in DOMAIN file /\ next \in Nat /\ next > 0 /\ Len(file) \in Nat
      /\ Turn(file[next]) <=> next # 1 /\ file[next - 1].ts # file[next].ts
      /\ Clears(file[next]) <=> StartsSnapshot(file, next)
  BY <1>1, RowSeen
<1>3. /\ file \in Seq(FileRows) /\ Sorted(file) /\ cleared \in BOOLEAN
      /\ book = LastWords(file, Counting(file, 1..(next - 1)))
      /\ cleared <=> \E i \in 1..(next - 1) : /\ file[i].ts = file[next - 1].ts
                                              /\ file[i].action = "snapshot"
  BY DEF Carries
<1>4. next' \in 1..(Len(file) + 1) /\ next' # 1 /\ next' - 1 = next
  BY <1>1, <1>2
<1>5. book' = LastWords(file, Counting(file, 1..next))
  BY <1>1, <1>2, <1>3, BookNext
<1>6. cleared' <=> \E i \in 1..next : /\ file[i].ts = file[next].ts
                                      /\ file[i].action = "snapshot"
  <2>1. Clears(file[next]) <=> /\ file[next].action = "snapshot"
                               /\ \A j \in 1..(next - 1) :
                                    file[j].ts = file[next].ts => file[j].action # "snapshot"
    BY <1>2 DEF StartsSnapshot
  <2>2. 1..next = 1..(next - 1) \cup {next}
    BY <1>2
  <2>3. (cleared /\ ~Turn(file[next])) =>
           \E i \in 1..(next - 1) : file[i].ts = file[next].ts /\ file[i].action = "snapshot"
    <3> SUFFICES ASSUME cleared, ~Turn(file[next])
                 PROVE  \E i \in 1..(next - 1) : /\ file[i].ts = file[next].ts
                                                 /\ file[i].action = "snapshot"
      OBVIOUS
    <3>1. PICK i \in 1..(next - 1) : file[i].ts = file[next - 1].ts /\ file[i].action = "snapshot"
      BY <1>3
    <3>2. next # 1
      BY <1>2, <3>1
    <3>. QED
      BY <1>2, <3>1, <3>2
  <2>4. ASSUME NEW i \in 1..(next - 1), file[i].ts = file[next].ts, file[i].action = "snapshot"
        PROVE  cleared /\ ~Turn(file[next])
    <3>1. i \in DOMAIN file /\ next - 1 \in DOMAIN file /\ next \in DOMAIN file
          /\ i <= next - 1 /\ next - 1 <= next
      BY <1>2, <1>3, LenProperties
    <3>2. file[i].ts <= file[next - 1].ts /\ file[next - 1].ts <= file[next].ts
      BY <1>3, <3>1 DEF Sorted
    <3>3. file[next - 1].ts = file[next].ts
      <4>1. file[i].ts \in Nat /\ file[next - 1].ts \in Nat /\ file[next].ts \in Nat
        BY <1>3, <3>1, RowType
      <4>. QED
        BY <2>4, <3>2, <4>1
    <3>. QED
      BY <1>2, <1>3, <2>4, <3>3
  <2>. QED
    BY <1>1, <1>2, <2>1, <2>2, <2>3, <2>4
<1>7. cleared' \in BOOLEAN
  BY <1>1
<1>. QED
  BY <1>1, <1>3, <1>4, <1>5, <1>6, <1>7 DEF Carries

\* Yields reach the chunk or, with it, the file; none is dropped.
LEMMA EmitAppends ==
  ASSUME NEW S, buffer \in Seq(S), lob2 \in Seq(S), NEW y \in S,
         Len(buffer) < FlushSize, Emit(y)
  PROVE  /\ buffer' \in Seq(S) /\ lob2' \in Seq(S)
         /\ Len(buffer') < FlushSize
         /\ lob2' \o buffer' = Append(lob2 \o buffer, y)
         /\ Len(lob2') + Len(buffer') = Len(lob2) + Len(buffer) + 1
<1> DEFINE waiting == Append(buffer, y)
<1>1. /\ waiting \in Seq(S) /\ Len(waiting) = Len(buffer) + 1
      /\ waiting = buffer \o <<y>>
      /\ Len(buffer) \in Nat /\ Len(lob2) \in Nat /\ <<y>> \in Seq(S)
  BY AppendProperties, AppendIsConcat, LenProperties
<1>2. lob2 \o waiting = Append(lob2 \o buffer, y)
  <2>1. lob2 \o waiting = (lob2 \o buffer) \o <<y>>
    BY <1>1, ConcatAssociative
  <2>2. lob2 \o buffer \in Seq(S)
    BY ConcatProperties
  <2>. QED
    BY <2>1, <2>2, AppendIsConcat
<1>3. FlushSize \in Nat /\ FlushSize > 0
  BY ReaderAssumption
<1> HIDE DEF waiting
<1>4. CASE Len(waiting) >= FlushSize
  <2>1. lob2' = lob2 \o waiting /\ buffer' = <<>>
    BY <1>4 DEF Emit, waiting
  <2>2. lob2' \in Seq(S) /\ Len(lob2') = Len(lob2) + Len(waiting)
    BY <1>1, <2>1, ConcatProperties
  <2>3. buffer' \in Seq(S) /\ Len(buffer') = 0
    BY <2>1, EmptySeq
  <2>4. lob2' \o buffer' = lob2'
    BY <2>1, <2>2, ConcatEmptySeq
  <2>. QED
    BY <1>1, <1>2, <1>3, <2>1, <2>2, <2>3, <2>4
<1>5. CASE ~(Len(waiting) >= FlushSize)
  <2>1. buffer' = waiting /\ lob2' = lob2
    BY <1>5 DEF Emit, waiting
  <2>. QED
    BY <1>1, <1>2, <1>3, <1>5, <2>1
<1>. QED
  BY <1>4, <1>5

\* The timestamps of a file are finitely many.
LEMMA TimestampsFinite ==
  ASSUME NEW rows \in Seq(FileRows)
  PROVE  /\ Timestamps(rows) \subseteq Nat /\ IsFiniteSet(Timestamps(rows))
         /\ \A t : IsFiniteSet(Earlier(rows, t)) /\ Cardinality(Earlier(rows, t)) \in Nat
<1> DEFINE f == [i \in 1..Len(rows) |-> rows[i].ts]
<1>1. Len(rows) \in Nat /\ DOMAIN rows = 1..Len(rows)
  BY LenProperties
<1>2. Timestamps(rows) \subseteq Nat
  BY RowType DEF Timestamps
<1>3. f \in Surjection(1..Len(rows), Timestamps(rows))
  BY <1>1 DEF Surjection, Timestamps
<1>4. IsFiniteSet(1..Len(rows))
  BY <1>1, FS_Interval
<1>5. IsFiniteSet(Timestamps(rows))
  <2> HIDE DEF f
  <2>. QED
    BY <1>3, <1>4, FS_Surjection
<1>6. \A t : IsFiniteSet(Earlier(rows, t)) /\ Cardinality(Earlier(rows, t)) \in Nat
  BY <1>5, FS_Subset, FS_CardinalityType DEF Earlier
<1>. QED
  BY <1>2, <1>5, <1>6

\* In a sorted file a timestamp comes after those before it and itself; the first
\* has none before it, the last none after it.
LEMMA EarlierNext ==
  ASSUME NEW rows \in Seq(FileRows), Sorted(rows), NEW n \in DOMAIN rows
  PROVE  /\ n = 1 => Cardinality(Earlier(rows, rows[n].ts)) = 0
         /\ n + 1 \in DOMAIN rows =>
              Cardinality(Earlier(rows, rows[n + 1].ts)) =
                Cardinality(Earlier(rows, rows[n].ts))
                  + (IF rows[n].ts = rows[n + 1].ts THEN 0 ELSE 1)
         /\ n = Len(rows) =>
              Cardinality(Timestamps(rows)) = Cardinality(Earlier(rows, rows[n].ts)) + 1
<1> DEFINE t == rows[n].ts
           E == Earlier(rows, t)
<1>1. /\ Len(rows) \in Nat /\ DOMAIN rows = 1..Len(rows) /\ n \in 1..Len(rows)
      /\ \A i \in DOMAIN rows : rows[i].ts \in Nat
  BY RowType, LenProperties
<1>2. /\ IsFiniteSet(E) /\ Cardinality(E) \in Nat /\ t \notin E
      /\ Cardinality(E \cup {t}) = Cardinality(E) + 1
  <2>1. IsFiniteSet(E) /\ Cardinality(E) \in Nat
    BY TimestampsFinite
  <2>2. t \notin E
    BY <1>1 DEF Earlier
  <2> HIDE DEF E, t
  <2>. QED
    BY <2>1, <2>2, FS_AddElement
<1>3. ASSUME n = 1 PROVE Cardinality(E) = 0
  <2>1. \A i \in DOMAIN rows : t <= rows[i].ts
    BY <1>1, <1>3 DEF Sorted
  <2>2. E = {}
    BY <1>1, <2>1 DEF Earlier, Timestamps
  <2>. QED
    BY <2>2, FS_EmptySet
<1>4. ASSUME n + 1 \in DOMAIN rows
      PROVE  Cardinality(Earlier(rows, rows[n + 1].ts)) =
               Cardinality(E) + (IF t = rows[n + 1].ts THEN 0 ELSE 1)
  <2> DEFINE u == rows[n + 1].ts
  <2>1. t \in Nat /\ u \in Nat /\ t <= u
    BY <1>1, <1>4 DEF Sorted
  <2>2. CASE t = u
    BY <1>2, <2>2
  <2>3. CASE t # u
    <3>1. ASSUME NEW i \in DOMAIN rows, rows[i].ts < u
          PROVE  rows[i].ts < t \/ rows[i].ts = t
      <4>1. ~(n + 1 <= i)
        <5> SUFFICES ASSUME n + 1 <= i PROVE FALSE
          OBVIOUS
        <5>1. u <= rows[i].ts
          BY <1>4 DEF Sorted
        <5>. QED
          BY <1>1, <2>1, <3>1, <5>1
      <4>2. i <= n
        BY <1>1, <4>1
      <4>3. rows[i].ts <= t
        BY <4>2 DEF Sorted
      <4>. QED
        BY <1>1, <4>3
    <3>2. t \in Timestamps(rows) /\ t < u
      BY <2>1, <2>3 DEF Timestamps
    <3>3. Earlier(rows, u) \subseteq E \cup {t}
      BY <3>1 DEF Earlier, Timestamps
    <3>4. E \cup {t} \subseteq Earlier(rows, u)
      <4>1. \A v \in Nat : v < t => v < u
        BY <2>1
      <4>. QED
        BY <1>1, <3>2, <4>1 DEF Earlier, Timestamps
    <3>5. Earlier(rows, u) = E \cup {t}
      BY <3>3, <3>4
    <3> HIDE DEF E, t
    <3>. QED
      BY <1>2, <2>3, <3>5
  <2>. QED
    BY <2>2, <2>3
<1>5. ASSUME n = Len(rows) PROVE Cardinality(Timestamps(rows)) = Cardinality(E) + 1
  <2>1. \A i \in DOMAIN rows : rows[i].ts <= t
    BY <1>1, <1>5 DEF Sorted
  <2>2. \A i \in DOMAIN rows : rows[i].ts < t \/ rows[i].ts = t
    BY <1>1, <2>1
  <2>3. Timestamps(rows) = E \cup {t}
    BY <2>2 DEF Earlier, Timestamps
  <2> HIDE DEF E, t
  <2>. QED
    BY <1>2, <2>3
<1>. QED
  BY <1>3, <1>4, <1>5

\* When the timestamp ends, the book is what the file says at it.
LEMMA BookAtTurn ==
  ASSUME Carries, next # 1, next <= Len(file) => file[next - 1].ts # file[next].ts
  PROVE  /\ file[next - 1].ts \in Timestamps(file)
         /\ book = BookAt(file, file[next - 1].ts)
         /\ [ts |-> file[next - 1].ts, book |-> book] \in Yieldable
<1> DEFINE n == next - 1
           t == file[n].ts
<1>1. /\ file \in Seq(FileRows) /\ Sorted(file) /\ next \in 1..(Len(file) + 1)
      /\ book = LastWords(file, Counting(file, 1..n))
  BY DEF Carries
<1>2. /\ Len(file) \in Nat /\ DOMAIN file = 1..Len(file) /\ n \in DOMAIN file
      /\ \A i \in DOMAIN file : file[i].ts \in Nat
  <2>1. Len(file) \in Nat /\ DOMAIN file = 1..Len(file)
    BY <1>1, LenProperties
  <2>2. n \in DOMAIN file
    BY <1>1, <2>1
  <2>. QED
    BY <1>1, <2>1, <2>2, RowType
<1>3. ASSUME NEW i \in DOMAIN file PROVE i <= n <=> file[i].ts <= t
  <2>1. i <= n => file[i].ts <= t
    BY <1>1, <1>2 DEF Sorted
  <2>2. ASSUME ~(i <= n) PROVE ~(file[i].ts <= t)
    <3>1. next \in DOMAIN file /\ next <= i /\ n <= next /\ next <= Len(file)
      BY <1>1, <1>2, <2>2
    <3>2. t <= file[next].ts /\ file[next].ts <= file[i].ts /\ t # file[next].ts
      BY <1>1, <1>2, <3>1 DEF Sorted
    <3>. QED
      BY <1>2, <3>1, <3>2
  <2>. QED
    BY <2>1, <2>2
<1>4. {i \in DOMAIN file : file[i].ts <= t} = 1..n
  <2>1. 1..n = {i \in DOMAIN file : i <= n}
    BY <1>2
  <2>. QED
    BY <1>3, <2>1
<1>5. book = BookAt(file, t)
  BY <1>1, <1>4 DEF BookAt
<1>6. t \in Timestamps(file)
  BY <1>2 DEF Timestamps
<1>. QED
  BY <1>5, <1>6 DEF Yieldable

\* A yield more in order.
LEMMA InOrderNext ==
  ASSUME NEW S, NEW out \in Seq(S), NEW y \in S,
         \A i \in DOMAIN out : Cardinality(Earlier(file, out[i].ts)) = i - 1,
         Cardinality(Earlier(file, y.ts)) = Len(out)
  PROVE  \A i \in DOMAIN Append(out, y) :
           Cardinality(Earlier(file, Append(out, y)[i].ts)) = i - 1
<1> DEFINE more == Append(out, y)
<1>1. /\ Len(out) \in Nat /\ DOMAIN out = 1..Len(out)
      /\ DOMAIN more = 1..(Len(out) + 1)
      /\ \A i \in 1..Len(out) : more[i] = out[i]
      /\ more[Len(out) + 1] = y
  BY AppendProperties, LenProperties
<1> HIDE DEF more
<1>2. \A i \in DOMAIN more : i \in 1..Len(out) \/ i = Len(out) + 1
  BY <1>1
<1>3. \A i \in DOMAIN more : Cardinality(Earlier(file, more[i].ts)) = i - 1
  BY <1>1, <1>2
<1>. QED
  BY <1>3 DEF more

\* The output after a row.
LEMMA WrittenRead ==
  ASSUME Carries, Written, ReadRow
  PROVE  Written'
<1>1. /\ reader = "reading" /\ reader' = reader /\ file' = file
      /\ next <= Len(file) /\ next' = next + 1
      /\ IF Turn(file[next]) THEN \E t \in current : Emit(Yields(t))
                             ELSE UNCHANGED <<buffer, lob2>>
  BY DEF ReadRow
<1>2. /\ next \in DOMAIN file /\ next \in Nat /\ next > 0 /\ Len(file) \in Nat
      /\ next # 1 => next - 1 \in DOMAIN file
      /\ Turn(file[next]) <=> next # 1 /\ file[next - 1].ts # file[next].ts
  BY <1>1, RowSeen
<1>3. /\ file \in Seq(FileRows) /\ Sorted(file)
      /\ current = IF next = 1 THEN {} ELSE {file[next - 1].ts}
  BY DEF Carries
<1>4. /\ buffer \in Seq(Yieldable) /\ lob2 \in Seq(Yieldable) /\ Len(buffer) < FlushSize
      /\ \A i \in DOMAIN (lob2 \o buffer) :
           Cardinality(Earlier(file, (lob2 \o buffer)[i].ts)) = i - 1
      /\ Len(lob2) + Len(buffer) = IF next = 1 THEN 0
                                   ELSE Cardinality(Earlier(file, file[next - 1].ts))
  BY <1>1 DEF Written
<1>5. Yieldable' = Yieldable /\ next' - 1 = next /\ next' # 1
  BY <1>1, <1>2 DEF Yieldable
<1>6. Cardinality(Earlier(file, file[next].ts)) =
        IF next = 1 THEN 0
        ELSE Cardinality(Earlier(file, file[next - 1].ts)) + (IF Turn(file[next]) THEN 1 ELSE 0)
  <2>1. CASE next = 1
    BY <1>2, <1>3, <2>1, EarlierNext
  <2>2. CASE next # 1
    <3>1. next - 1 \in DOMAIN file /\ (next - 1) + 1 = next
      BY <1>2, <2>2
    <3>2. Cardinality(Earlier(file, file[(next - 1) + 1].ts)) =
            Cardinality(Earlier(file, file[next - 1].ts))
              + (IF file[next - 1].ts = file[(next - 1) + 1].ts THEN 0 ELSE 1)
      BY <1>2, <1>3, <3>1, EarlierNext
    <3>. QED
      BY <1>2, <2>2, <3>1, <3>2
  <2>. QED
    BY <2>1, <2>2
<1>7. CASE Turn(file[next])
  <2> DEFINE y == [ts |-> file[next - 1].ts, book |-> book]
  <2>1. next # 1 /\ file[next - 1].ts # file[next].ts
    BY <1>2, <1>7
  <2>2. y \in Yieldable
    BY <2>1, BookAtTurn
  <2>3. Emit(y)
    BY <1>1, <1>3, <1>7, <2>1 DEF Yields
  <2>4. /\ buffer' \in Seq(Yieldable) /\ lob2' \in Seq(Yieldable) /\ Len(buffer') < FlushSize
        /\ lob2' \o buffer' = Append(lob2 \o buffer, y)
        /\ Len(lob2') + Len(buffer') = Len(lob2) + Len(buffer) + 1
    BY <1>4, <2>2, <2>3, EmitAppends
  <2>5. /\ lob2 \o buffer \in Seq(Yieldable)
        /\ Len(lob2 \o buffer) = Len(lob2) + Len(buffer)
    BY <1>4, ConcatProperties
  <2>6. Cardinality(Earlier(file, y.ts)) = Len(lob2 \o buffer)
    BY <1>4, <2>1, <2>5
  <2> HIDE DEF y
  <2>7. \A i \in DOMAIN (lob2' \o buffer') :
          Cardinality(Earlier(file, (lob2' \o buffer')[i].ts)) = i - 1
    BY <1>4, <2>2, <2>4, <2>5, <2>6, InOrderNext
  <2>8. Len(lob2') + Len(buffer') = Cardinality(Earlier(file, file[next].ts))
    BY <1>4, <1>6, <1>7, <2>1, <2>4
  <2>. QED
    BY <1>1, <1>5, <2>4, <2>7, <2>8 DEF Written
<1>8. CASE ~Turn(file[next])
  <2>1. buffer' = buffer /\ lob2' = lob2
    BY <1>1, <1>8
  <2>2. \A t : Cardinality(Earlier(file, t)) \in Nat
    BY <1>3, TimestampsFinite
  <2>3. Len(lob2) + Len(buffer) = Cardinality(Earlier(file, file[next].ts))
    BY <1>4, <1>6, <1>8, <2>2
  <2>. QED
    BY <1>1, <1>4, <1>5, <2>1, <2>3 DEF Written
<1>. QED
  BY <1>7, <1>8

\* The end of the file: the last yield, and the rest of the chunk.
LEMMA ReaderFinishes ==
  ASSUME Carries, Written, Finish
  PROVE  Carries' /\ Written'
<1>1. /\ reader = "reading" /\ reader' = "done" /\ next > Len(file) /\ buffer' = <<>>
      /\ file' = file /\ next' = next /\ book' = book /\ current' = current
      /\ cleared' = cleared
      /\ lob2' = lob2 \o buffer \o (IF current = {} THEN <<>>
                                    ELSE <<Yields(CHOOSE t \in current : TRUE)>>)
  BY DEF Finish
<1>2. Carries'
  BY <1>1 DEF Carries
<1>3. /\ file \in Seq(FileRows) /\ Sorted(file) /\ next \in 1..(Len(file) + 1)
      /\ current = IF next = 1 THEN {} ELSE {file[next - 1].ts}
  BY DEF Carries
<1>4. /\ Len(file) \in Nat /\ DOMAIN file = 1..Len(file) /\ next = Len(file) + 1
  <2>1. Len(file) \in Nat /\ DOMAIN file = 1..Len(file)
    BY <1>3, LenProperties
  <2>. QED
    BY <1>1, <1>3, <2>1
<1>5. /\ buffer \in Seq(Yieldable) /\ lob2 \in Seq(Yieldable) /\ Len(buffer) < FlushSize
      /\ \A i \in DOMAIN (lob2 \o buffer) :
           Cardinality(Earlier(file, (lob2 \o buffer)[i].ts)) = i - 1
      /\ Len(lob2) + Len(buffer) = IF next = 1 THEN 0
                                   ELSE Cardinality(Earlier(file, file[next - 1].ts))
  BY <1>1 DEF Written
<1>6. /\ lob2 \o buffer \in Seq(Yieldable)
      /\ Len(lob2 \o buffer) = Len(lob2) + Len(buffer)
  BY <1>5, ConcatProperties
<1>7. Yieldable' = Yieldable /\ FlushSize > 0 /\ <<>> \in Seq(Yieldable) /\ Len(<<>>) = 0
  BY <1>1, ReaderAssumption, EmptySeq DEF Yieldable
<1>8. CASE next = 1
  <2>1. lob2' = lob2 \o buffer
    BY <1>1, <1>3, <1>6, <1>8, ConcatEmptySeq
  <2>2. Cardinality(Timestamps(file)) = 0
    <3>1. Timestamps(file) = {}
      BY <1>4, <1>8 DEF Timestamps
    <3>. QED
      BY <3>1, FS_EmptySet
  <2>3. lob2' \o buffer' = lob2 \o buffer
    BY <1>1, <1>6, <2>1, ConcatEmptySeq
  <2>. QED
    BY <1>1, <1>2, <1>5, <1>6, <1>7, <1>8, <2>1, <2>2, <2>3 DEF Written
<1>9. CASE next # 1
  <2> DEFINE y == [ts |-> file[next - 1].ts, book |-> book]
  <2>1. next - 1 \in DOMAIN file /\ next - 1 = Len(file)
    BY <1>3, <1>4, <1>9
  <2>2. y \in Yieldable
    BY <1>1, <1>4, <1>9, BookAtTurn
  <2>3. lob2' = (lob2 \o buffer) \o <<y>>
    <3>1. current = {file[next - 1].ts}
      BY <1>3, <1>9
    <3>2. (CHOOSE t \in current : TRUE) = file[next - 1].ts
      BY <3>1
    <3>3. Yields(CHOOSE t \in current : TRUE) = y
      BY <3>2 DEF Yields
    <3>. QED
      BY <1>1, <3>1, <3>3
  <2>4. Cardinality(Earlier(file, y.ts)) = Len(lob2 \o buffer)
    BY <1>5, <1>6, <1>9
  <2>5. Cardinality(Timestamps(file)) = Cardinality(Earlier(file, file[next - 1].ts)) + 1
    BY <1>3, <2>1, EarlierNext
  <2> HIDE DEF y
  <2>6. lob2' = Append(lob2 \o buffer, y)
    BY <1>6, <2>2, <2>3, AppendIsConcat
  <2>7. /\ lob2' \in Seq(Yieldable) /\ Len(lob2') = Len(lob2 \o buffer) + 1
    BY <1>6, <2>2, <2>6, AppendProperties
  <2>8. lob2' \o buffer' = lob2'
    BY <1>1, <2>7, ConcatEmptySeq
  <2>9. \A i \in DOMAIN lob2' : Cardinality(Earlier(file, lob2'[i].ts)) = i - 1
    BY <1>5, <1>6, <2>2, <2>4, <2>6, InOrderNext
  <2>10. Len(lob2') = Cardinality(Timestamps(file))
    BY <1>5, <1>6, <1>9, <2>5, <2>7
  <2>. QED
    BY <1>1, <1>2, <1>7, <2>7, <2>8, <2>9, <2>10 DEF Written
<1>. QED
  BY <1>8, <1>9

\* An interruption: what is in the file stays, what waits is gone.
LEMMA ReaderInterrupted ==
  ASSUME Carries, Written, Interrupt
  PROVE  Carries' /\ Written'
<1>1. /\ reader = "reading" /\ reader' = "interrupted" /\ buffer' = <<>>
      /\ file' = file /\ next' = next /\ book' = book /\ current' = current
      /\ cleared' = cleared /\ lob2' = lob2
  BY DEF Interrupt
<1>2. Carries'
  BY <1>1 DEF Carries
<1>3. /\ buffer \in Seq(Yieldable) /\ lob2 \in Seq(Yieldable)
      /\ \A i \in DOMAIN (lob2 \o buffer) :
           Cardinality(Earlier(file, (lob2 \o buffer)[i].ts)) = i - 1
  BY DEF Written
<1>4. Yieldable' = Yieldable /\ FlushSize > 0 /\ <<>> \in Seq(Yieldable) /\ Len(<<>>) = 0
  BY <1>1, ReaderAssumption, EmptySeq DEF Yieldable
<1>5. lob2' \o buffer' = lob2
  BY <1>1, <1>3, ConcatEmptySeq
<1>6. ASSUME NEW i \in DOMAIN lob2 PROVE Cardinality(Earlier(file, lob2[i].ts)) = i - 1
  <2>1. /\ Len(lob2) \in Nat /\ DOMAIN lob2 = 1..Len(lob2) /\ Len(buffer) \in Nat
    BY <1>3, LenProperties
  <2>2. /\ lob2 \o buffer \in Seq(Yieldable)
        /\ Len(lob2 \o buffer) = Len(lob2) + Len(buffer)
        /\ \A j \in 1..(Len(lob2) + Len(buffer)) :
             (lob2 \o buffer)[j] = IF j <= Len(lob2) THEN lob2[j] ELSE buffer[j - Len(lob2)]
    BY <1>3, ConcatProperties
  <2>3. DOMAIN (lob2 \o buffer) = 1..(Len(lob2) + Len(buffer))
    BY <2>2, LenProperties
  <2>4. i \in 1..(Len(lob2) + Len(buffer)) /\ i <= Len(lob2)
    BY <2>1
  <2>. QED
    BY <1>3, <2>2, <2>3, <2>4
<1>. QED
  BY <1>1, <1>2, <1>3, <1>4, <1>5, <1>6 DEF Written

\* A reader that starts on a sorted file, or has not started.
LEMMA ReaderStarts ==
  ASSUME NEW rows \in Seq(FileRows), Sorted(rows)
  PROVE  /\ 1 \in 1..(Len(rows) + 1)
         /\ \A i \in 1..(1 - 1) : FALSE
         /\ LastWords(rows, Counting(rows, 1..(1 - 1))) = NoLevel
<1>1. 1..(1 - 1) = {} /\ Len(rows) \in Nat
  BY LenProperties
<1>2. Counting(rows, {}) = {}
  BY DEF Counting
<1>3. LastWords(rows, Counting(rows, 1..(1 - 1))) = NoLevel
  BY <1>1, <1>2, NothingTold
<1>. QED
  BY <1>1, <1>3

\* The files the reader may be given.
LEMMA NoFile == <<>> \in Seq(FileRows) /\ Sorted(<<>>)
  BY EmptySeq DEF Sorted

\* What the reader promises follows from what it carries and has written.
LEMMA OutputFromWritten ==
  ASSUME Carries, Written
  PROVE  OutputIsReading
<1> DEFINE out == lob2 \o buffer
<1>1. /\ buffer \in Seq(Yieldable) /\ lob2 \in Seq(Yieldable)
      /\ \A i \in DOMAIN out : Cardinality(Earlier(file, out[i].ts)) = i - 1
      /\ reader = "done" => Len(lob2) = Cardinality(Timestamps(file))
  BY DEF Written
<1>2. out \in Seq(Yieldable)
  BY <1>1, ConcatProperties
<1>3. ASSUME NEW i \in DOMAIN out
      PROVE  /\ out[i].ts \in Timestamps(file)
             /\ out[i].book = BookAt(file, out[i].ts)
  <2>1. out[i] \in Yieldable
    <3> HIDE DEF out
    <3>. QED
      BY <1>2, ElementOfSeq, LenProperties
  <2>2. PICK t \in Timestamps(file) : out[i] = [ts |-> t, book |-> BookAt(file, t)]
    BY <2>1 DEF Yieldable
  <2> HIDE DEF out
  <2>. QED
    BY <2>2
<1>. QED
  BY <1>1, <1>3 DEF OutputIsReading, Earlier

LEMMA ReaderTyped ==
  ASSUME Carries, Written
  PROVE  ReaderTypeOK
<1>1. /\ file \in Seq(FileRows) /\ next \in 1..(Len(file) + 1)
      /\ current = IF next = 1 THEN {} ELSE {file[next - 1].ts}
      /\ cleared \in BOOLEAN
      /\ book = LastWords(file, Counting(file, 1..(next - 1)))
      /\ reader \in {"idle", "reading", "done", "interrupted"}
  BY DEF Carries
<1>2. /\ Len(file) \in Nat /\ DOMAIN file = 1..Len(file)
      /\ 1..(next - 1) \in SUBSET DOMAIN file
      /\ next # 1 => next - 1 \in 1..(next - 1)
  <2>1. Len(file) \in Nat /\ DOMAIN file = 1..Len(file)
    BY <1>1, LenProperties
  <2>. QED
    BY <1>1, <2>1
<1>3. Counting(file, 1..(next - 1)) \in SUBSET (1..(next - 1))
  BY DEF Counting
<1>4. ASSUME NEW k \in DOMAIN book
      PROVE  book[k] \in Nat /\ \E i \in 1..(next - 1) : file[i].key = k
  <2>1. PICK i \in 1..(next - 1) : file[i].key = k /\ file[i].size = book[k]
    BY <1>1, <1>2, <1>3, WordsTold
  <2>2. i \in DOMAIN file
    BY <1>2
  <2>. QED
    BY <1>1, <2>1, <2>2, RowType
<1>5. \A t \in current : t \in {file[i].ts : i \in 1..(next - 1)}
  BY <1>1, <1>2
<1>6. Cardinality(current) <= 1
  <2>1. CASE next = 1
    <3>1. Cardinality(current) = 0
      BY <1>1, <2>1, FS_EmptySet
    <3>. QED
      BY <3>1
  <2>2. CASE next # 1
    <3>1. Cardinality(current) = 1
      BY <1>1, <2>2, FS_Singleton
    <3>. QED
      BY <3>1
  <2>. QED
    BY <2>1, <2>2
<1>. QED
  BY <1>1, <1>4, <1>5, <1>6 DEF ReaderTypeOK, Written

-----------------------------------------------------------------------------
(***************************************************************************)
(* The rows of a table, as a file.                                         *)
(***************************************************************************)
RowsIn(t, i) ==
  [j \in DOMAIN t[i].rows |->
     [ts |-> t[i].ts, action |-> t[i].action, key |-> t[i].rows[j].key,
      size |-> t[i].rows[j].size, batch |-> i]]

LEMMA BatchType ==
  ASSUME NEW t \in Seq(Batches), NEW i \in DOMAIN t
  PROVE  /\ i \in 1..Len(t) /\ Len(t) \in Nat /\ t[i] \in Batches
         /\ t[i].ts \in Nat /\ t[i].action \in {"snapshot", "update"}
         /\ t[i].rows \in Seq(Entries) /\ t[i].ver \in Nat /\ t[i].prior \in Nat
         /\ t[i].gap \subseteq KeySpace
         /\ \A j \in DOMAIN t[i].rows : /\ t[i].rows[j] \in Entries
                                        /\ t[i].rows[j].key \in KeySpace
                                        /\ t[i].rows[j].size \in Nat
<1>1. i \in 1..Len(t) /\ Len(t) \in Nat
  BY LenProperties
<1>2. t[i] \in Batches
  BY <1>1, ElementOfSeq
<1>3. t[i].rows \in Seq(Entries)
  BY <1>2 DEF Batches
<1>4. \A j \in DOMAIN t[i].rows : t[i].rows[j] \in Entries
  BY <1>3, ElementOfSeq, LenProperties
<1>. QED
  BY <1>1, <1>2, <1>3, <1>4 DEF Batches, Entries

LEMMA RowsInType ==
  ASSUME NEW t \in Seq(Batches), NEW i \in DOMAIN t
  PROVE  /\ RowsIn(t, i) \in Seq(FileRows) /\ Len(RowsIn(t, i)) = Len(t[i].rows)
         /\ DOMAIN RowsIn(t, i) = DOMAIN t[i].rows
<1>1. /\ Len(t[i].rows) \in Nat /\ DOMAIN t[i].rows = 1..Len(t[i].rows)
  BY BatchType, LenProperties
<1>2. ASSUME NEW j \in DOMAIN t[i].rows PROVE RowsIn(t, i)[j] \in FileRows
  BY BatchType DEF RowsIn, FileRows
<1>3. RowsIn(t, i) \in [1..Len(t[i].rows) -> FileRows]
  BY <1>1, <1>2 DEF RowsIn
<1>4. RowsIn(t, i) \in Seq(FileRows)
  BY <1>1, <1>3, SeqDef
<1>. QED
  BY <1>1, <1>3, <1>4, LenProperties

LEMMA FileOfNothing == FileOf(<<>>) = <<>>
<1>1. [i \in DOMAIN <<>> |-> RowsIn(<<>>, i)] = <<>>
  OBVIOUS
<1>2. FileOf(<<>>) = FlattenSeq([i \in DOMAIN <<>> |-> RowsIn(<<>>, i)])
  BY DEF FileOf, RowsIn
<1>. QED
  BY <1>1, <1>2, FlattenIsFlat

\* A batch more adds its rows to the end.
LEMMA FileOfAppend ==
  ASSUME NEW t \in Seq(Batches), NEW b \in Batches
  PROVE  FileOf(Append(t, b)) = FileOf(t) \o RowsIn(Append(t, b), Len(t) + 1)
<1> DEFINE u == Append(t, b)
           pieces(v) == [i \in DOMAIN v |-> RowsIn(v, i)]
<1>1. /\ u \in Seq(Batches) /\ Len(t) \in Nat /\ Len(u) = Len(t) + 1
      /\ DOMAIN t = 1..Len(t) /\ DOMAIN u = 1..(Len(t) + 1)
      /\ \A i \in 1..Len(t) : u[i] = t[i]
  BY AppendProperties, LenProperties
<1>2. pieces(t) \in Seq(Seq(FileRows)) /\ Len(pieces(t)) = Len(t)
  <2>1. \A i \in 1..Len(t) : RowsIn(t, i) \in Seq(FileRows)
    BY <1>1, RowsInType
  <2>2. pieces(t) \in [1..Len(t) -> Seq(FileRows)]
    BY <1>1, <2>1
  <2>. QED
    BY <1>1, <2>2, SeqDef, LenProperties
<1> DEFINE x == RowsIn(u, Len(t) + 1)
<1>3. x \in Seq(FileRows)
  <2>1. Len(t) + 1 \in DOMAIN u
    BY <1>1
  <2> HIDE DEF u
  <2>. QED
    BY <1>1, <2>1, RowsInType
<1>4. \A i \in 1..Len(t) : RowsIn(u, i) = RowsIn(t, i)
  BY <1>1 DEF RowsIn
<1>5. pieces(u) = Append(pieces(t), x)
  <2> DEFINE p == pieces(t)
  <2>1. /\ Append(p, x) \in Seq(Seq(FileRows)) /\ Len(Append(p, x)) = Len(t) + 1
        /\ \A i \in 1..Len(t) : Append(p, x)[i] = p[i]
        /\ Append(p, x)[Len(t) + 1] = x
    <3> HIDE DEF p, x
    <3>. QED
      BY <1>2, <1>3, AppendProperties DEF p
  <2>2. DOMAIN Append(p, x) = 1..(Len(t) + 1)
    <3> HIDE DEF p, x
    <3>. QED
      BY <2>1, LenProperties
  <2>3. \A i \in 1..Len(t) : p[i] = RowsIn(u, i)
    BY <1>1, <1>4
  <2>4. Append(p, x) = [i \in 1..(Len(t) + 1) |-> RowsIn(u, i)]
    <3>1. \A i \in 1..(Len(t) + 1) : i \in 1..Len(t) \/ i = Len(t) + 1
      BY <1>1
    <3>2. \A i \in 1..(Len(t) + 1) : Append(p, x)[i] = RowsIn(u, i)
      <4> HIDE DEF p, u
      <4>. QED
        BY <2>1, <2>3, <3>1
    <3>3. Append(p, x) = [i \in 1..Len(Append(p, x)) |-> Append(p, x)[i]]
      <4> HIDE DEF p, x
      <4>. QED
        BY <2>1, LenProperties
    <3> HIDE DEF p, x, u
    <3>. QED
      BY <2>1, <3>2, <3>3
  <2>. QED
    BY <1>1, <2>4
<1>6. FileOf(u) = FlattenSeq(pieces(u)) /\ FileOf(t) = FlattenSeq(pieces(t))
  BY DEF FileOf, RowsIn
<1> HIDE DEF pieces, x
<1>7. FlattenSeq(pieces(u)) = FlattenSeq(pieces(t)) \o x
  BY <1>2, <1>3, <1>5, FlattenAppend
<1>. QED
  BY <1>6, <1>7 DEF x

\* The rows are those of the batches, all of them, one batch after the other.
Lists(rows, t) ==
  /\ rows \in Seq(FileRows)
  /\ \A n \in DOMAIN rows :
       /\ rows[n].batch \in DOMAIN t
       /\ \E j \in DOMAIN t[rows[n].batch].rows : rows[n] = RowsIn(t, rows[n].batch)[j]
  /\ \A n, m \in DOMAIN rows : n <= m => rows[n].batch <= rows[m].batch
  /\ \A i \in DOMAIN t : \A j \in DOMAIN t[i].rows :
       \E n \in DOMAIN rows : rows[n] = RowsIn(t, i)[j]

LEMMA RowOfBatch ==
  ASSUME NEW t, NEW i, NEW j \in DOMAIN t[i].rows
  PROVE  /\ RowsIn(t, i)[j].ts = t[i].ts /\ RowsIn(t, i)[j].action = t[i].action
         /\ RowsIn(t, i)[j].key = t[i].rows[j].key
         /\ RowsIn(t, i)[j].size = t[i].rows[j].size
         /\ RowsIn(t, i)[j].batch = i
  BY DEF RowsIn

LEMMA ListsAppend ==
  ASSUME NEW t \in Seq(Batches), NEW b \in Batches, Lists(FileOf(t), t)
  PROVE  Lists(FileOf(Append(t, b)), Append(t, b))
<1> DEFINE u == Append(t, b)
           N == Len(t)
           old == FileOf(t)
           x == RowsIn(u, N + 1)
           new == FileOf(u)
           L == Len(old)
           M == Len(x)
<1>1. /\ u \in Seq(Batches) /\ N \in Nat /\ DOMAIN t = 1..N /\ DOMAIN u = 1..(N + 1)
      /\ \A i \in 1..N : u[i] = t[i]
      /\ u[N + 1] = b /\ N + 1 \in DOMAIN u
  <2>1. /\ u \in Seq(Batches) /\ N \in Nat /\ DOMAIN t = 1..N /\ Len(u) = N + 1
        /\ \A i \in 1..N : u[i] = t[i]
        /\ u[N + 1] = b
    BY AppendProperties, LenProperties
  <2>2. DOMAIN u = 1..(N + 1)
    <3> HIDE DEF u
    <3>. QED
      BY <2>1, LenProperties
  <2>. QED
    BY <2>1, <2>2
<1>2. new = old \o x
  BY FileOfAppend
<1>3. old \in Seq(FileRows) /\ L \in Nat /\ DOMAIN old = 1..L
  BY LenProperties DEF Lists
<1>4. x \in Seq(FileRows) /\ DOMAIN x = DOMAIN u[N + 1].rows /\ M \in Nat /\ DOMAIN x = 1..M
  <2> HIDE DEF u
  <2>. QED
    BY <1>1, RowsInType, LenProperties
<1>5. \A j \in DOMAIN x : x[j].batch = N + 1 /\ j \in DOMAIN u[N + 1].rows
  <2> HIDE DEF u
  <2>. QED
    BY <1>4, RowOfBatch
<1>6. \A i \in 1..N : RowsIn(u, i) = RowsIn(t, i) /\ u[i] = t[i]
  BY <1>1 DEF RowsIn
<1> HIDE DEF u, old, x, new
<1>7. /\ new \in Seq(FileRows) /\ DOMAIN new = 1..(L + M)
      /\ \A n \in 1..L : new[n] = old[n]
      /\ \A j \in 1..M : L + j \in DOMAIN new /\ new[L + j] = x[j]
  <2>1. /\ new \in Seq(FileRows) /\ Len(new) = L + M
        /\ \A n \in 1..(L + M) : new[n] = IF n <= L THEN old[n] ELSE x[n - L]
    BY <1>2, <1>3, <1>4, ConcatProperties
  <2>2. DOMAIN new = 1..(L + M)
    BY <2>1, LenProperties
  <2>3. ASSUME NEW j \in 1..M PROVE L + j \in 1..(L + M) /\ ~(L + j <= L) /\ L + j - L = j
    BY <1>3, <1>4
  <2>4. \A n \in 1..L : n \in 1..(L + M) /\ n <= L
    BY <1>3, <1>4
  <2>5. \A n \in 1..L : new[n] = old[n]
    BY <2>1, <2>4
  <2>6. \A j \in 1..M : L + j \in DOMAIN new /\ new[L + j] = x[j]
    BY <2>1, <2>2, <2>3
  <2>. QED
    BY <2>1, <2>2, <2>5, <2>6
<1>8. \A n \in DOMAIN new : n \in 1..L \/ \E j \in 1..M : n = L + j
  <2>1. ASSUME NEW n \in 1..(L + M), n \notin 1..L PROVE n - L \in 1..M /\ n = L + (n - L)
    BY <1>3, <1>4, <2>1
  <2>. QED
    BY <1>7, <2>1
<1>9. /\ \A n \in DOMAIN old :
           /\ old[n].batch \in 1..N
           /\ \E j \in DOMAIN t[old[n].batch].rows : old[n] = RowsIn(t, old[n].batch)[j]
      /\ \A n, m \in DOMAIN old : n <= m => old[n].batch <= old[m].batch
      /\ \A i \in 1..N : \A j \in DOMAIN t[i].rows :
           \E n \in DOMAIN old : old[n] = RowsIn(t, i)[j]
  BY <1>1 DEF Lists, old
<1>10. ASSUME NEW n \in DOMAIN new
       PROVE  /\ new[n].batch \in DOMAIN u
              /\ \E j \in DOMAIN u[new[n].batch].rows : new[n] = RowsIn(u, new[n].batch)[j]
  <2>1. CASE n \in 1..L
    <3>1. new[n].batch \in 1..N /\ new[n].batch \in DOMAIN u
      BY <1>1, <1>3, <1>7, <1>9, <2>1
    <3>2. \E j \in DOMAIN t[new[n].batch].rows : new[n] = RowsIn(t, new[n].batch)[j]
      BY <1>3, <1>7, <1>9, <2>1
    <3>. QED
      BY <1>6, <3>1, <3>2
  <2>2. CASE \E j \in 1..M : n = L + j
    <3>1. PICK j \in 1..M : n = L + j
      BY <2>2
    <3>2. new[n] = x[j] /\ x[j].batch = N + 1 /\ j \in DOMAIN u[N + 1].rows
      BY <1>4, <1>5, <1>7, <3>1
    <3>. QED
      BY <1>1, <3>2 DEF x
  <2>. QED
    BY <1>8, <2>1, <2>2
<1>11. ASSUME NEW n \in DOMAIN new, NEW m \in DOMAIN new, n <= m
       PROVE  new[n].batch <= new[m].batch
  <2>0. \A j \in 1..M : new[L + j].batch = N + 1
    BY <1>4, <1>5, <1>7
  <2>1. CASE n \in 1..L /\ m \in 1..L
    BY <1>3, <1>7, <1>9, <1>11, <2>1
  <2>2. CASE n \in 1..L /\ \E j \in 1..M : m = L + j
    <3>1. new[n].batch \in 1..N
      BY <1>3, <1>7, <1>9, <2>2
    <3>2. new[m].batch = N + 1
      BY <2>2, <2>0
    <3>. QED
      BY <1>1, <3>1, <3>2
  <2>3. CASE (\E j \in 1..M : n = L + j) /\ \E j \in 1..M : m = L + j
    BY <1>1, <2>0, <2>3
  <2>4. ~((\E j \in 1..M : n = L + j) /\ m \in 1..L)
    BY <1>3, <1>4, <1>11
  <2>. QED
    BY <1>8, <2>1, <2>2, <2>3, <2>4
<1>12. ASSUME NEW i \in DOMAIN u, NEW j \in DOMAIN u[i].rows
       PROVE  \E n \in DOMAIN new : new[n] = RowsIn(u, i)[j]
  <2>1. CASE i \in 1..N
    <3>1. PICK n \in DOMAIN old : old[n] = RowsIn(t, i)[j]
      BY <1>6, <1>9, <2>1
    <3>2. n \in DOMAIN new /\ new[n] = old[n]
      BY <1>3, <1>4, <1>7
    <3>. QED
      BY <1>6, <2>1, <3>1, <3>2
  <2>2. CASE i = N + 1
    <3>1. j \in 1..M /\ x[j] = RowsIn(u, i)[j]
      BY <1>4, <2>2 DEF x
    <3>. QED
      BY <1>7, <3>1
  <2>. QED
    BY <1>1, <2>1, <2>2
<1>. QED
  BY <1>7, <1>10, <1>11, <1>12 DEF Lists, new, u

LEMMA FileLists ==
  ASSUME NEW t \in Seq(Batches)
  PROVE  Lists(FileOf(t), t)
<1> DEFINE T == {Len(v) : v \in {w \in Seq(Batches) : ~Lists(FileOf(w), w)}}
<1>1. SUFFICES ASSUME ~Lists(FileOf(t), t) PROVE FALSE
  OBVIOUS
<1>2. T \subseteq Nat /\ T # {}
  BY <1>1, LenProperties
<1>3. PICK m \in T : \A k \in T : ~(k < m)
  <2> HIDE DEF T
  <2>. QED
    BY <1>2, LeastNatural
<1>4. PICK v \in Seq(Batches) : Len(v) = m /\ ~Lists(FileOf(v), v)
  OBVIOUS
<1>5. CASE v = <<>>
  BY <1>4, <1>5, FileOfNothing, EmptySeq DEF Lists
<1>6. CASE v # <<>>
  <2>1. PICK s \in Seq(Batches), b \in Batches : v = Append(s, b)
    BY <1>6, SequenceEmptyOrAppend
  <2>2. Len(s) \in Nat /\ m = Len(s) + 1
    BY <1>4, <2>1, AppendProperties, LenProperties
  <2>3. Len(s) \notin T
    <3>1. Len(s) < m
      BY <2>2
    <3> HIDE DEF T
    <3>. QED
      BY <1>3, <3>1
  <2>4. Lists(FileOf(s), s)
    BY <2>3
  <2>. QED
    BY <1>4, <2>1, <2>4, ListsAppend
<1>. QED
  BY <1>5, <1>6

\* A row's fields are its batch's; the file is sorted if the table is; and after the
\* last row of a batch comes the first of the next.
LEMMA FileFacts ==
  ASSUME NEW t \in Seq(Batches), \A i \in DOMAIN t : t[i].rows # <<>>
  PROVE  /\ FileOf(t) \in Seq(FileRows)
         /\ \A n \in DOMAIN FileOf(t) :
              /\ FileOf(t)[n].batch \in DOMAIN t
              /\ FileOf(t)[n].ts = t[FileOf(t)[n].batch].ts
              /\ FileOf(t)[n].action = t[FileOf(t)[n].batch].action
              /\ \E j \in DOMAIN t[FileOf(t)[n].batch].rows :
                    /\ FileOf(t)[n].key = t[FileOf(t)[n].batch].rows[j].key
                    /\ FileOf(t)[n].size = t[FileOf(t)[n].batch].rows[j].size
         /\ \A i \in DOMAIN t : \A j \in DOMAIN t[i].rows :
              \E n \in DOMAIN FileOf(t) : /\ FileOf(t)[n].batch = i
                                          /\ FileOf(t)[n].key = t[i].rows[j].key
         /\ \A n, m \in DOMAIN FileOf(t) : n <= m => FileOf(t)[n].batch <= FileOf(t)[m].batch
         /\ \A n \in DOMAIN FileOf(t) :
              /\ n = 1 => FileOf(t)[n].batch = 1
              /\ n # 1 => \/ FileOf(t)[n].batch = FileOf(t)[n - 1].batch
                          \/ FileOf(t)[n].batch = FileOf(t)[n - 1].batch + 1
<1> DEFINE rows == FileOf(t)
<1>1. Lists(rows, t)
  BY FileLists
<1> HIDE DEF rows
<1>2. /\ rows \in Seq(FileRows) /\ Len(rows) \in Nat /\ DOMAIN rows = 1..Len(rows)
      /\ Len(t) \in Nat /\ DOMAIN t = 1..Len(t)
  BY <1>1, LenProperties DEF Lists
<1>3. ASSUME NEW n \in DOMAIN rows
      PROVE  /\ rows[n].batch \in DOMAIN t
             /\ rows[n].ts = t[rows[n].batch].ts
             /\ rows[n].action = t[rows[n].batch].action
             /\ \E j \in DOMAIN t[rows[n].batch].rows :
                   /\ rows[n].key = t[rows[n].batch].rows[j].key
                   /\ rows[n].size = t[rows[n].batch].rows[j].size
  <2>1. /\ rows[n].batch \in DOMAIN t
        /\ \E j \in DOMAIN t[rows[n].batch].rows : rows[n] = RowsIn(t, rows[n].batch)[j]
    BY <1>1 DEF Lists
  <2>. QED
    BY <2>1, RowOfBatch
<1>4. ASSUME NEW i \in DOMAIN t, NEW j \in DOMAIN t[i].rows
      PROVE  \E n \in DOMAIN rows : rows[n].batch = i /\ rows[n].key = t[i].rows[j].key
  <2>1. PICK n \in DOMAIN rows : rows[n] = RowsIn(t, i)[j]
    BY <1>1 DEF Lists
  <2>. QED
    BY <2>1, RowOfBatch
<1>5. \A n, m \in DOMAIN rows : n <= m => rows[n].batch <= rows[m].batch
  BY <1>1 DEF Lists
<1>6. ASSUME NEW i \in DOMAIN t PROVE \E n \in DOMAIN rows : rows[n].batch = i
  <2>1. t[i].rows \in Seq(Entries) /\ t[i].rows # <<>>
    BY BatchType
  <2>2. 1 \in DOMAIN t[i].rows
    BY <2>1, EmptySeq, LenProperties
  <2>. QED
    BY <1>4, <2>2
<1>7. ASSUME NEW n \in DOMAIN rows, n = 1 PROVE rows[n].batch = 1
  <2>1. rows[n].batch \in 1..Len(t) /\ 1 \in DOMAIN t
    BY <1>2, <1>3
  <2>2. PICK m \in DOMAIN rows : rows[m].batch = 1
    BY <1>6, <2>1
  <2>3. n <= m
    BY <1>2, <1>7
  <2>4. rows[n].batch <= 1
    BY <1>5, <2>2, <2>3
  <2>. QED
    BY <1>2, <2>1, <2>4
<1>8. ASSUME NEW n \in DOMAIN rows, n # 1
      PROVE  rows[n].batch = rows[n - 1].batch \/ rows[n].batch = rows[n - 1].batch + 1
  <2> DEFINE a == rows[n - 1].batch
             c == rows[n].batch
  <2>1. n - 1 \in DOMAIN rows /\ n - 1 <= n
    BY <1>2, <1>8
  <2>2. a \in 1..Len(t) /\ c \in 1..Len(t) /\ a <= c
    BY <1>2, <1>3, <1>5, <2>1
  <2>3. SUFFICES ASSUME a + 1 < c PROVE FALSE
    BY <1>2, <2>2
  <2>4. a + 1 \in DOMAIN t
    BY <1>2, <2>2, <2>3
  <2>5. PICK m \in DOMAIN rows : rows[m].batch = a + 1
    BY <1>6, <2>4
  <2>6. m <= n - 1 \/ n <= m
    BY <1>2
  <2>7. a + 1 <= a \/ c <= a + 1
    <3>1. m <= n - 1 => rows[m].batch <= rows[n - 1].batch
      BY <1>5, <2>1
    <3>2. n <= m => rows[n].batch <= rows[m].batch
      BY <1>5
    <3>. QED
      BY <2>5, <2>6, <3>1, <3>2
  <2> HIDE DEF a, c
  <2>. QED
    BY <1>2, <2>2, <2>3, <2>7
<1>. QED
  BY <1>2, <1>3, <1>4, <1>5, <1>7, <1>8 DEF rows

LEMMA FileSorted ==
  ASSUME NEW t \in Seq(Batches), \A i \in DOMAIN t : t[i].rows # <<>>,
         \A i, j \in DOMAIN t : i <= j => t[i].ts <= t[j].ts
  PROVE  FileOf(t) \in Seq(FileRows) /\ Sorted(FileOf(t))
<1>1. ASSUME NEW n \in DOMAIN FileOf(t), NEW m \in DOMAIN FileOf(t), n <= m
      PROVE  FileOf(t)[n].ts <= FileOf(t)[m].ts
  <2>1. /\ FileOf(t)[n].batch \in DOMAIN t /\ FileOf(t)[m].batch \in DOMAIN t
        /\ FileOf(t)[n].ts = t[FileOf(t)[n].batch].ts
        /\ FileOf(t)[m].ts = t[FileOf(t)[m].batch].ts
        /\ FileOf(t)[n].batch <= FileOf(t)[m].batch
    BY <1>1, FileFacts
  <2>. QED
    BY <2>1
<1>2. FileOf(t) \in Seq(FileRows)
  BY FileFacts
<1>. QED
  BY <1>1, <1>2 DEF Sorted

-----------------------------------------------------------------------------
(***************************************************************************)
(* What is stored for a message.                                           *)
(***************************************************************************)
LEMMA VersionType ==
  ASSUME NEW v \in DOMAIN hist, hist \in Seq(Versions)
  PROVE  /\ v \in 1..Len(hist) /\ Len(hist) \in Nat
         /\ hist[v].book \in Book /\ hist[v].at \in Nat
         /\ \A l \in Level : hist[v].book[l] \in Nat
<1>1. v \in 1..Len(hist) /\ Len(hist) \in Nat
  BY LenProperties
<1>2. hist[v] \in Versions
  BY <1>1, ElementOfSeq
<1>. QED
  BY <1>1, <1>2, PersistenceAssumption DEF Versions, Book

\* The rows of a message are its levels, all of them, with the sizes they have; or
\* the one of a diff of Bitstamp that lists nothing.
LEMMA RowsAre ==
  ASSUME NEW m \in Messages, m.ver \in DOMAIN hist, hist \in Seq(Versions)
  PROVE  /\ RowsOf(m) \in Seq(Entries)
         /\ \A j \in DOMAIN RowsOf(m) :
              \/ RowsOf(m)[j] = EmptyEntry /\ exchange = "bitstamp"
              \/ \E l \in m.levels : /\ RowsOf(m)[j].key = KeyOf(l)
                                     /\ RowsOf(m)[j].size = Printed(hist[m.ver].book[l])
         /\ \A l \in m.levels : \E j \in DOMAIN RowsOf(m) : RowsOf(m)[j].key = KeyOf(l)
<1> DEFINE listing == InOrder(m.levels)
           rows == [i \in DOMAIN listing |->
                      [key |-> KeyOf(listing[i]), size |-> Printed(hist[m.ver].book[listing[i]])]]
<1>1. m.levels \in SUBSET Level
  BY DEF Messages
<1>2. /\ listing \in Seq(m.levels) /\ Len(listing) \in Nat /\ DOMAIN listing = 1..Len(listing)
      /\ \A i \in DOMAIN listing : listing[i] \in m.levels
      /\ \A l \in m.levels : \E i \in DOMAIN listing : listing[i] = l
  <2>1. /\ listing \in Seq(m.levels)
        /\ \A l \in m.levels : \E i \in DOMAIN listing : listing[i] = l
    BY <1>1, InOrderLists
  <2> HIDE DEF listing
  <2>. QED
    BY <2>1, LenProperties, ElementOfSeq
<1>3. RowsOf(m) = IF listing = <<>> /\ exchange = "bitstamp" THEN <<EmptyEntry>> ELSE rows
  BY DEF RowsOf
<1> HIDE DEF listing
<1>4. CASE listing = <<>> /\ exchange = "bitstamp"
  <2>1. RowsOf(m) = <<EmptyEntry>> /\ m.levels = {}
    BY <1>2, <1>3, <1>4
  <2>2. EmptyEntry \in Entries
    BY KeyType
  <2>3. DOMAIN <<EmptyEntry>> = {1} /\ <<EmptyEntry>>[1] = EmptyEntry
    OBVIOUS
  <2>4. <<EmptyEntry>> \in Seq(Entries)
    BY <2>2
  <2>. QED
    BY <1>4, <2>1, <2>3, <2>4
<1>5. CASE ~(listing = <<>> /\ exchange = "bitstamp")
  <2>1. RowsOf(m) = rows
    BY <1>3, <1>5
  <2>2. \A i \in DOMAIN listing : rows[i] \in Entries
    <3>1. ASSUME NEW i \in DOMAIN listing PROVE rows[i] \in Entries
      <4>1. listing[i] \in Level
        BY <1>1, <1>2
      <4>2. KeyOf(listing[i]) \in KeySpace /\ Printed(hist[m.ver].book[listing[i]]) \in Nat
        BY <4>1, KeyType, VersionType, PrintedType
      <4>. QED
        BY <4>2 DEF Entries
    <3>. QED
      BY <3>1
  <2>3. rows \in [1..Len(listing) -> Entries]
    BY <1>2, <2>2
  <2>4. rows \in Seq(Entries)
    BY <1>2, <2>3, SeqDef
  <2>5. \A l \in m.levels : \E j \in DOMAIN rows : rows[j].key = KeyOf(l)
    BY <1>2
  <2>. QED
    BY <1>2, <2>1, <2>4, <2>5
<1>. QED
  BY <1>4, <1>5

-----------------------------------------------------------------------------
(***************************************************************************)
(* The client's steps.                                                     *)
(***************************************************************************)
\* What a batch is inserted into stays sorted; a batch that is the newest comes last.
LEMMA InsertFacts ==
  ASSUME NEW t \in Seq(Batches), NEW b \in Batches,
         \A i, j \in DOMAIN t : i <= j => t[i].ts <= t[j].ts
  PROVE  /\ Insert(t, b) \in Seq(Batches)
         /\ \A i \in DOMAIN Insert(t, b) :
              Insert(t, b)[i] = b \/ \E j \in DOMAIN t : Insert(t, b)[i] = t[j]
         /\ \E i \in DOMAIN Insert(t, b) : Insert(t, b)[i] = b
         /\ \A i, j \in DOMAIN Insert(t, b) : i <= j => Insert(t, b)[i].ts <= Insert(t, b)[j].ts
         /\ (\A i \in DOMAIN t : t[i].ts <= b.ts) => Insert(t, b) = Append(t, b)
<1> DEFINE T == {0} \cup {i \in DOMAIN t : t[i].ts <= b.ts}
           p == Largest(T)
           front == SubSeq(t, 1, p)
           back == SubSeq(t, p + 1, Len(t))
           u == Insert(t, b)
<1>1. /\ Len(t) \in Nat /\ DOMAIN t = 1..Len(t) /\ b.ts \in Nat
      /\ \A i \in DOMAIN t : t[i] \in Batches /\ t[i].ts \in Nat
  BY BatchType, LenProperties DEF Batches
<1>2. p \in T /\ \A k \in T : k <= p
  <2>1. T \subseteq Nat /\ T # {} /\ \A k \in T : k <= Len(t)
    BY <1>1
  <2> HIDE DEF T
  <2>. QED
    BY <1>1, <2>1, LargestIs
<1>3. p \in 0..Len(t) /\ p \in Nat /\ p <= Len(t)
  BY <1>1, <1>2
<1>4. \A i \in DOMAIN t : i <= p <=> t[i].ts <= b.ts
  <2>1. ASSUME NEW i \in DOMAIN t, i <= p PROVE t[i].ts <= b.ts
    <3>1. p \in DOMAIN t /\ t[p].ts <= b.ts
      BY <1>1, <1>2, <2>1
    <3>2. t[i].ts <= t[p].ts
      BY <2>1, <3>1
    <3> HIDE DEF p
    <3>. QED
      BY <1>1, <3>1, <3>2
  <2>2. ASSUME NEW i \in DOMAIN t, t[i].ts <= b.ts PROVE i <= p
    <3>1. i \in T
      BY <2>2
    <3> HIDE DEF T
    <3>. QED
      BY <1>2, <3>1
  <2> HIDE DEF p
  <2>. QED
    BY <2>1, <2>2
<1>5. u = front \o <<b>> \o back
  <2>1. u = SubSeq(t, 1, (1 + p) - 1) \o <<b>> \o SubSeq(t, 1 + p, Len(t))
    BY DEF Insert, InsertAt
  <2>2. (1 + p) - 1 = p /\ 1 + p = p + 1
    BY <1>3
  <2> HIDE DEF p, u
  <2>. QED
    BY <2>1, <2>2
<1> HIDE DEF p, u, T
<1>6. /\ front \in Seq(Batches) /\ Len(front) = p
      /\ \A i \in 1..p : front[i] = t[i]
  <2>1. \A i \in 1..p : t[i] \in Batches
    BY <1>1, <1>3
  <2>2. /\ front \in Seq(Batches) /\ Len(front) = IF 1 <= p THEN p - 1 + 1 ELSE 0
        /\ \A i \in 1..(p - 1 + 1) : front[i] = t[1 + i - 1]
    BY <1>3, <2>1, SubSeqProperties
  <2> HIDE DEF front
  <2>. QED
    BY <1>3, <2>2
<1>7. /\ back \in Seq(Batches) /\ Len(back) = Len(t) - p
      /\ \A i \in 1..(Len(t) - p) : back[i] = t[p + i]
  <2>1. \A i \in (p + 1)..Len(t) : t[i] \in Batches
    BY <1>1, <1>3
  <2>2. /\ back \in Seq(Batches)
        /\ Len(back) = IF p + 1 <= Len(t) THEN Len(t) - (p + 1) + 1 ELSE 0
        /\ \A i \in 1..(Len(t) - (p + 1) + 1) : back[i] = t[(p + 1) + i - 1]
    BY <1>1, <1>3, <2>1, SubSeqProperties
  <2> HIDE DEF back
  <2>3. \A i \in 1..(Len(t) - p) : i \in 1..(Len(t) - (p + 1) + 1) /\ (p + 1) + i - 1 = p + i
    BY <1>1, <1>3
  <2>4. \A i \in 1..(Len(t) - p) : back[i] = t[p + i]
    BY <2>2, <2>3
  <2>5. Len(back) = Len(t) - p
    <3>1. \A n, q \in Nat : q <= n =>
            n - q = IF q + 1 <= n THEN n - (q + 1) + 1 ELSE 0
      OBVIOUS
    <3>2. Len(t) - p = IF p + 1 <= Len(t) THEN Len(t) - (p + 1) + 1 ELSE 0
      BY <1>1, <1>3, <3>1
    <3>. QED
      BY <2>2, <3>2
  <2>. QED
    BY <2>2, <2>4, <2>5
<1> HIDE DEF front, back
<1>8. /\ Append(front, b) \in Seq(Batches) /\ Len(Append(front, b)) = p + 1
      /\ \A i \in 1..p : Append(front, b)[i] = t[i]
      /\ Append(front, b)[p + 1] = b
      /\ u = Append(front, b) \o back
  BY <1>5, <1>6, AppendProperties, AppendIsConcat
<1>9. /\ u \in Seq(Batches) /\ Len(u) = Len(t) + 1 /\ DOMAIN u = 1..(Len(t) + 1)
      /\ \A i \in 1..(Len(t) + 1) :
           u[i] = IF i <= p + 1 THEN Append(front, b)[i] ELSE back[i - (p + 1)]
  <2>1. /\ u \in Seq(Batches) /\ Len(u) = (p + 1) + (Len(t) - p)
        /\ \A i \in 1..((p + 1) + (Len(t) - p)) :
             u[i] = IF i <= p + 1 THEN Append(front, b)[i] ELSE back[i - (p + 1)]
    <3> DEFINE a == Append(front, b)
    <3>1. a \in Seq(Batches) /\ Len(a) = p + 1 /\ u = a \o back
      BY <1>8
    <3> HIDE DEF a
    <3>2. /\ u \in Seq(Batches) /\ Len(u) = Len(a) + Len(back)
          /\ \A i \in 1..(Len(a) + Len(back)) :
               u[i] = IF i <= Len(a) THEN a[i] ELSE back[i - Len(a)]
      BY <1>7, <3>1, ConcatProperties
    <3>3. Len(back) = Len(t) - p
      BY <1>7
    <3>4. \A i : i - Len(a) = i - (p + 1)
      BY <3>1
    <3>. QED
      BY <3>1, <3>2, <3>3, <3>4 DEF a
  <2>2. (p + 1) + (Len(t) - p) = Len(t) + 1
    BY <1>1, <1>3
  <2>. QED
    BY <2>1, <2>2, LenProperties
<1>10. \A i \in DOMAIN u : /\ i <= p => i \in DOMAIN t /\ u[i] = t[i]
                           /\ i = p + 1 => u[i] = b
                           /\ i > p + 1 => i - 1 \in DOMAIN t /\ u[i] = t[i - 1]
  <2>1. ASSUME NEW i \in DOMAIN u, i <= p PROVE i \in DOMAIN t /\ u[i] = t[i]
    BY <1>1, <1>3, <1>8, <1>9, <2>1
  <2>2. ASSUME NEW i \in DOMAIN u, i = p + 1 PROVE u[i] = b
    BY <1>3, <1>8, <1>9, <2>2
  <2>3. ASSUME NEW i \in DOMAIN u, i > p + 1 PROVE i - 1 \in DOMAIN t /\ u[i] = t[i - 1]
    <3>1. i - (p + 1) \in 1..(Len(t) - p) /\ p + (i - (p + 1)) = i - 1 /\ ~(i <= p + 1)
          /\ i \in 1..(Len(t) + 1) /\ i - 1 \in DOMAIN t
      BY <1>1, <1>3, <1>9, <2>3
    <3>. QED
      BY <1>7, <1>9, <3>1
  <2>. QED
    BY <2>1, <2>2, <2>3
<1>11. \A i \in DOMAIN u : i <= p \/ i = p + 1 \/ i > p + 1
  BY <1>3, <1>9
<1>12. \A i \in DOMAIN u : u[i] = b \/ \E j \in DOMAIN t : u[i] = t[j]
  BY <1>10, <1>11
<1>13. ASSUME NEW i \in DOMAIN u, NEW j \in DOMAIN u, i <= j PROVE u[i].ts <= u[j].ts
  <2>1. i \in Nat /\ j \in Nat
    BY <1>9
  <2>2. CASE j <= p
    <3>1. i <= p
      BY <1>3, <1>13, <2>1, <2>2
    <3>. QED
      BY <1>10, <1>13, <2>2, <3>1
  <2>3. CASE j = p + 1
    <3>1. i <= p \/ i = p + 1
      BY <1>3, <1>13, <2>1, <2>3
    <3>2. i <= p => u[i].ts <= b.ts
      BY <1>4, <1>10
    <3>. QED
      BY <1>1, <1>10, <2>3, <3>1, <3>2
  <2>4. CASE j > p + 1
    <3>1. /\ j - 1 \in DOMAIN t /\ u[j] = t[j - 1] /\ ~(j - 1 <= p)
          /\ t[j - 1].ts \in Nat
      BY <1>1, <1>3, <1>10, <2>1, <2>4
    <3>2. CASE i <= p
      <4>1. i \in DOMAIN t /\ u[i] = t[i] /\ i <= j - 1
        BY <1>3, <1>10, <2>1, <2>4, <3>2
      <4>. QED
        BY <3>1, <4>1
    <3>3. CASE i = p + 1
      <4>1. b.ts < t[j - 1].ts
        BY <1>1, <1>4, <3>1
      <4>. QED
        BY <1>1, <1>10, <3>1, <3>3, <4>1
    <3>4. CASE i > p + 1
      <4>1. i - 1 \in DOMAIN t /\ u[i] = t[i - 1] /\ i - 1 <= j - 1
        BY <1>10, <1>13, <2>1, <3>4
      <4>. QED
        BY <3>1, <4>1
    <3>. QED
      BY <1>11, <3>2, <3>3, <3>4
  <2>. QED
    BY <1>11, <2>2, <2>3, <2>4
<1>14. ASSUME \A i \in DOMAIN t : t[i].ts <= b.ts PROVE u = Append(t, b)
  <2>1. p = Len(t)
    <3>1. CASE Len(t) = 0
      BY <1>3, <3>1
    <3>2. CASE Len(t) # 0
      <4>1. Len(t) \in DOMAIN t
        BY <1>1, <3>2
      <4>2. Len(t) <= p
        BY <1>4, <1>14, <4>1
      <4>3. \A n, q \in Nat : q <= n /\ n <= q => q = n
        OBVIOUS
      <4>. QED
        BY <1>1, <1>3, <4>2, <4>3
    <3>. QED
      BY <3>1, <3>2
  <2>2. /\ Append(t, b) \in Seq(Batches) /\ Len(Append(t, b)) = Len(t) + 1
        /\ \A i \in 1..Len(t) : Append(t, b)[i] = t[i]
        /\ Append(t, b)[Len(t) + 1] = b
    BY AppendProperties
  <2>3. \A i \in 1..Len(u) : u[i] = Append(t, b)[i]
    <3>1. \A i \in 1..(Len(t) + 1) : i \in 1..Len(t) \/ i = Len(t) + 1
      BY <1>1
    <3>. QED
      BY <1>1, <1>9, <1>10, <2>1, <2>2, <3>1
  <2>. QED
    BY <1>9, <2>2, <2>3, SeqEqual
<1>15. \E i \in DOMAIN u : u[i] = b
  <2>1. p + 1 \in DOMAIN u
    BY <1>1, <1>3, <1>9
  <2>. QED
    BY <1>10, <2>1
<1>. QED
  BY <1>9, <1>12, <1>13, <1>14, <1>15 DEF u

\* Keys and printed numbers depend on the exchange alone.
LEMMA SameKeys ==
  ASSUME exchange' = exchange
  PROVE  /\ \A n : Printed(n)' = Printed(n)
         /\ \A l : KeyOf(l)' = KeyOf(l)
         /\ AllKeys' = AllKeys
<1>1. \A n : Printed(n)' = Printed(n)
  BY DEF Printed
<1>2. \A l : KeyOf(l)' = KeyOf(l)
  BY <1>1 DEF KeyOf
<1>. QED
  BY <1>1, <1>2 DEF AllKeys

\* Batches stay what they are while the exchange goes on.
LEMMA BatchStays ==
  ASSUME exchange' = exchange, last' \in Nat, last \in 0..Len(hist), last <= last',
         hist \in Seq(Versions), \A v \in DOMAIN hist : v \in DOMAIN hist' /\ hist'[v] = hist[v]
  PROVE  \A b : BatchFits(b) => BatchFits(b)'
<1>1. /\ Len(hist) \in Nat /\ DOMAIN hist = 1..Len(hist)
      /\ \A v \in 1..last : v \in DOMAIN hist /\ v \in 1..last'
  BY LenProperties
<1>2. ASSUME NEW b, NEW e, b.ver \in DOMAIN hist, RowFits(b, e) PROVE RowFits(b, e)'
  BY <1>2, SameKeys DEF RowFits, EmptyEntry
<1>. QED
  BY <1>1, <1>2, SameKeys DEF BatchFits, KeysOf

\* The message at the head of the socket leads from the version read so far to the
\* next one.
LEMMA HeadOfSocket ==
  ASSUME Shape, SocketFits, socket # <<>>
  PROVE  /\ Head(socket) \in Messages /\ Genuine(Head(socket))
         /\ Head(socket).ver = ReadUpto + 1 /\ last <= Head(socket).ver
         /\ ReadUpto \in Nat /\ Head(socket).ver \in 1..Len(hist) /\ Head(socket).ver \in DOMAIN hist
         /\ Head(socket).type = "update" => ReadUpto \in DOMAIN hist
         /\ Tail(socket) \in Seq(Messages) /\ Len(Tail(socket)) = Len(socket) - 1
         /\ \A i \in DOMAIN Tail(socket) : /\ i + 1 \in DOMAIN socket
                                           /\ Tail(socket)[i] = socket[i + 1]
         /\ Len(hist) - Len(Tail(socket)) = Head(socket).ver
<1>1. /\ hist \in Seq(Versions) /\ socket \in Seq(Messages)
      /\ Len(hist) \in Nat /\ DOMAIN hist = 1..Len(hist)
      /\ Len(socket) \in Nat /\ DOMAIN socket = 1..Len(socket) /\ Len(socket) > 0
      /\ last \in Nat
  BY LenProperties, EmptySeq DEF Shape
<1>2. /\ Head(socket) \in Messages /\ Tail(socket) \in Seq(Messages)
      /\ Len(Tail(socket)) = Len(socket) - 1
      /\ \A i \in 1..Len(Tail(socket)) : Tail(socket)[i] = socket[i + 1]
      /\ DOMAIN Tail(socket) = 1..Len(Tail(socket))
  BY <1>1, HeadTailProperties, LenProperties
<1>3. 1 \in DOMAIN socket /\ Head(socket) = socket[1]
  BY <1>1
<1>4. /\ Head(socket).ver = ReadUpto + 1 /\ last <= Head(socket).ver /\ Genuine(Head(socket))
      /\ Len(socket) <= Len(hist)
  BY <1>3 DEF SocketFits
<1>5. Head(socket).ver \in 1..Len(hist)
  BY <1>1, <1>4 DEF Genuine
<1>6. /\ ReadUpto = Len(hist) - Len(socket) /\ ReadUpto \in Nat
      /\ Len(hist) - Len(Tail(socket)) = Head(socket).ver
  BY <1>1, <1>2, <1>4 DEF ReadUpto
<1>7. \A i \in DOMAIN Tail(socket) : i + 1 \in DOMAIN socket /\ Tail(socket)[i] = socket[i + 1]
  BY <1>1, <1>2
<1>8. Head(socket).type = "update" => ReadUpto \in DOMAIN hist
  <2>1. Head(socket).type = "update" => Head(socket).ver > 1
    BY <1>4 DEF Genuine
  <2>. QED
    BY <1>1, <1>4, <1>5, <1>6, <2>1
<1>. QED
  BY <1>1, <1>2, <1>4, <1>5, <1>6, <1>7, <1>8

\* A message is read; those behind it wait.
LEMMA SocketRead ==
  ASSUME Shape, SocketFits, socket # <<>>, socket' = Tail(socket),
         UNCHANGED <<exchange, hist>>, last' = last \/ last' = Head(socket).ver
  PROVE  /\ SocketFits' /\ socket' \in Seq(Messages)
         /\ ReadUpto' = Head(socket).ver
<1>1. /\ Head(socket).ver = ReadUpto + 1 /\ last <= Head(socket).ver
      /\ ReadUpto \in Nat /\ Head(socket).ver \in 1..Len(hist)
      /\ Tail(socket) \in Seq(Messages) /\ Len(Tail(socket)) = Len(socket) - 1
      /\ \A i \in DOMAIN Tail(socket) : /\ i + 1 \in DOMAIN socket
                                        /\ Tail(socket)[i] = socket[i + 1]
      /\ Len(hist) - Len(Tail(socket)) = Head(socket).ver
  BY HeadOfSocket
<1>2. ReadUpto' = Head(socket).ver
  BY <1>1 DEF ReadUpto
<1>3. \A m : Genuine(m) => Genuine(m)'
  BY SameKeys DEF Genuine
<1>4. /\ Len(socket) \in Nat /\ Len(hist) \in Nat /\ last \in Nat
      /\ Len(Tail(socket)) \in Nat /\ DOMAIN Tail(socket) = 1..Len(Tail(socket))
  BY <1>1, LenProperties DEF Shape
<1>5. ASSUME NEW i \in DOMAIN Tail(socket)
      PROVE  /\ socket'[i].ver = ReadUpto' + i /\ last' <= socket'[i].ver
             /\ Genuine(socket[i])'
  <2>1. /\ socket'[i] = socket[i + 1] /\ i + 1 \in DOMAIN socket /\ i \in Nat
    BY <1>1, <1>4
  <2>2. /\ socket[i + 1].ver = ReadUpto + (i + 1) /\ last <= socket[i + 1].ver
        /\ Genuine(socket[i + 1])
    BY <2>1 DEF SocketFits
  <2>3. Genuine(socket[i])'
    BY <1>3, <2>1, <2>2
  <2>4. ReadUpto + (i + 1) = ReadUpto' + i /\ Head(socket).ver <= ReadUpto + (i + 1)
    BY <1>1, <1>2, <2>1
  <2>. QED
    BY <2>1, <2>2, <2>3, <2>4
<1>6. Len(socket') <= Len(hist')
  BY <1>1, <1>4 DEF SocketFits
<1>. QED
  BY <1>1, <1>2, <1>5, <1>6 DEF SocketFits

\* A message that is not stored leaves what it would have told in the gap.
LEMMA Unstored ==
  ASSUME Shape, ClockForward, SocketFits, GapFits, TableFits,
         conn # "off", socket # <<>>, socket' = Tail(socket),
         gap' = gap \cup Carried(Head(socket)),
         UNCHANGED <<exchange, hist, snapshots, conn, table, last>>,
         faults' \in 0..MaxFaults
  PROVE  Shape' /\ ClockForward' /\ SocketFits' /\ GapFits' /\ TableFits'
<1> DEFINE m == Head(socket)
<1>1. /\ m \in Messages /\ Genuine(m) /\ m.ver = ReadUpto + 1 /\ ReadUpto \in Nat
      /\ m.ver \in 1..Len(hist)
  BY HeadOfSocket
<1>2. SocketFits' /\ socket' \in Seq(Messages) /\ ReadUpto' = m.ver
  BY SocketRead
<1>3. m.type \in {"snapshot", "update"} /\ m.levels \subseteq Level
  BY <1>1 DEF Messages
<1>4. gap' \subseteq AllKeys
  BY <1>3 DEF Shape, Carried, AllKeys
<1>5. Shape'
  BY <1>2, <1>4, SameKeys DEF Shape
<1>6. ASSUME NEW l \in Level, KeyOf(l) \notin gap'
      PROVE  last \in 1..m.ver /\ hist[last].book[l] = hist[m.ver].book[l]
  <2>1. KeyOf(l) \notin gap /\ KeyOf(l) \notin Carried(m) /\ KeyOf(l) \in AllKeys
    BY <1>6 DEF AllKeys
  <2>2. m.type = "update" /\ l \notin m.levels
    BY <1>3, <2>1 DEF Carried
  <2>3. hist[m.ver].book[l] = hist[m.ver - 1].book[l] /\ m.ver - 1 = ReadUpto
    BY <1>1, <2>2 DEF Genuine
  <2>4. last \in 1..ReadUpto /\ hist[last].book[l] = hist[ReadUpto].book[l]
    BY <2>1 DEF GapFits
  <2>. QED
    BY <1>1, <2>3, <2>4
<1>7. GapFits'
  BY <1>2, <1>6, SameKeys DEF GapFits
<1>8. ClockForward'
  BY DEF ClockForward
<1>9. TableFits'
  <2>1. last \in 0..Len(hist) /\ last' \in Nat /\ hist \in Seq(Versions) /\ last <= last'
    BY DEF Shape
  <2>2. \A b : BatchFits(b) => BatchFits(b)'
    BY <2>1, BatchStays
  <2>. QED
    BY <2>2 DEF TableFits
<1>. QED
  BY <1>2, <1>5, <1>7, <1>8, <1>9

\* What is stored for a message fits.
LEMMA BatchOfFits ==
  ASSUME Shape, SocketFits, GapFits, socket # <<>>, RowsOf(Head(socket)) # <<>>,
         UNCHANGED <<exchange, hist>>, last' = Head(socket).ver,
         NEW b, b = BatchOf(Head(socket))
  PROVE  b \in Batches /\ BatchFits(b)'
<1> DEFINE m == Head(socket)
<1>1. /\ m \in Messages /\ Genuine(m) /\ m.ver = ReadUpto + 1 /\ ReadUpto \in Nat
      /\ m.ver \in 1..Len(hist) /\ m.ver \in DOMAIN hist
      /\ hist \in Seq(Versions) /\ last \in Nat /\ gap \subseteq KeySpace
  BY HeadOfSocket, KeyType DEF Shape
<1>2. /\ RowsOf(m) \in Seq(Entries)
      /\ \A j \in DOMAIN RowsOf(m) :
           \/ RowsOf(m)[j] = EmptyEntry /\ exchange = "bitstamp"
           \/ \E l \in m.levels : /\ RowsOf(m)[j].key = KeyOf(l)
                                  /\ RowsOf(m)[j].size = Printed(hist[m.ver].book[l])
      /\ \A l \in m.levels : \E j \in DOMAIN RowsOf(m) : RowsOf(m)[j].key = KeyOf(l)
  BY <1>1, RowsAre
<1> HIDE DEF m
<1>3. /\ b.ts = m.ts /\ b.action = ActionOf(m) /\ b.rows = RowsOf(m) /\ b.ver = m.ver
      /\ b.prior = last /\ b.gap = gap
      /\ b = [ts |-> b.ts, action |-> b.action, rows |-> b.rows, ver |-> b.ver,
              prior |-> b.prior, gap |-> b.gap]
  BY DEF BatchOf, StampOf, m
<1>4. /\ m.type \in {"snapshot", "update"} /\ m.levels \subseteq Level /\ m.ts \in Nat
      /\ m.ver \in Nat
  BY <1>1 DEF Messages
<1>5. ActionOf(m) = m.type
  BY <1>1, <1>4 DEF ActionOf, Genuine
<1>6. b \in Batches
  BY <1>1, <1>2, <1>3, <1>4, <1>5 DEF Batches
<1>7. ASSUME NEW j \in DOMAIN b.rows PROVE RowFits(b, b.rows[j])
  BY <1>1, <1>2, <1>3, <1>4, <1>5 DEF RowFits, Genuine
<1>8. \A l \in m.levels : KeyOf(l) \in KeysOf(b)
  <2>1. ASSUME NEW l \in m.levels PROVE KeyOf(l) \in KeysOf(b)
    <3>1. PICK j \in DOMAIN RowsOf(m) : RowsOf(m)[j].key = KeyOf(l)
      BY <1>2
    <3>. QED
      BY <1>3, <3>1 DEF KeysOf
  <2>. QED
    BY <2>1
<1>9. ASSUME b.action = "snapshot", NEW l \in Level, hist[b.ver].book[l] # 0
      PROVE  KeyOf(l) \in KeysOf(b)
  <2>1. l \in m.levels
    BY <1>1, <1>3, <1>5, <1>9 DEF Genuine, Listed
  <2>. QED
    BY <1>8, <2>1
<1>10. ASSUME b.action = "update", NEW l \in Level, KeyOf(l) \notin b.gap \cup KeysOf(b)
       PROVE  b.prior \in DOMAIN hist /\ hist[b.prior].book[l] = hist[b.ver].book[l]
  <2>1. l \notin m.levels /\ KeyOf(l) \notin gap
    BY <1>3, <1>8, <1>10
  <2>2. hist[m.ver].book[l] = hist[m.ver - 1].book[l] /\ m.ver - 1 = ReadUpto
    BY <1>1, <1>3, <1>5, <1>10, <2>1 DEF Genuine
  <2>3. last \in 1..ReadUpto /\ hist[last].book[l] = hist[ReadUpto].book[l]
    BY <2>1 DEF GapFits
  <2>4. last \in DOMAIN hist
    <3>1. DOMAIN hist = 1..Len(hist) /\ Len(hist) \in Nat
      BY <1>1, LenProperties
    <3>. QED
      BY <1>1, <2>3, <3>1
  <2>. QED
    BY <1>3, <2>2, <2>3, <2>4
<1>11. \A e : RowFits(b, e) => RowFits(b, e)'
  BY SameKeys DEF RowFits, EmptyEntry
<1>12. /\ b.ver \in 1..last' /\ b.ts \in {0, hist[b.ver].at} /\ b.rows # <<>>
  <2>1. b.ver \in 1..last'
    BY <1>1, <1>3, <1>4 DEF m
  <2>2. b.ts \in {0, hist[b.ver].at}
    BY <1>1, <1>3 DEF Genuine
  <2>3. b.rows # <<>>
    BY <1>3 DEF m
  <2>. QED
    BY <2>1, <2>2, <2>3
<1>13. BatchFits(b)'
  BY <1>7, <1>9, <1>10, <1>11, <1>12, SameKeys DEF BatchFits, KeysOf
<1>. QED
  BY <1>6, <1>13

\* A message is stored, once or twice.
LEMMA Stored ==
  ASSUME Shape, ClockForward, SocketFits, GapFits, TableFits,
         conn # "off", socket # <<>>, RowsOf(Head(socket)) # <<>>,
         socket' = Tail(socket), gap' = {}, last' = Head(socket).ver,
         UNCHANGED <<exchange, hist, snapshots, conn>>, faults' \in 0..MaxFaults,
         \/ table' = Insert(table, BatchOf(Head(socket)))
         \/ table' = Insert(Insert(table, BatchOf(Head(socket))), BatchOf(Head(socket)))
  PROVE  Shape' /\ ClockForward' /\ SocketFits' /\ GapFits' /\ TableFits'
<1>1. PICK b : b = BatchOf(Head(socket))
  OBVIOUS
<1>2. b \in Batches /\ BatchFits(b)'
  BY <1>1, BatchOfFits
<1>3. table \in Seq(Batches) /\ \A i, j \in DOMAIN table : i <= j => table[i].ts <= table[j].ts
  BY DEF Shape, TableFits
<1> DEFINE one == Insert(table, b)
           two == Insert(one, b)
<1>4. /\ one \in Seq(Batches)
      /\ \A i \in DOMAIN one : one[i] = b \/ \E j \in DOMAIN table : one[i] = table[j]
      /\ \A i, j \in DOMAIN one : i <= j => one[i].ts <= one[j].ts
  BY <1>2, <1>3, InsertFacts
<1> HIDE DEF one
<1>5. /\ two \in Seq(Batches)
      /\ \A i \in DOMAIN two : two[i] = b \/ \E j \in DOMAIN one : two[i] = one[j]
      /\ \A i, j \in DOMAIN two : i <= j => two[i].ts <= two[j].ts
  BY <1>2, <1>4, InsertFacts
<1>6. table' = one \/ table' = two
  BY <1>1 DEF one
<1> HIDE DEF two
<1>7. /\ table' \in Seq(Batches)
      /\ \A i \in DOMAIN table' : table'[i] = b \/ \E j \in DOMAIN table : table'[i] = table[j]
      /\ \A i, j \in DOMAIN table' : i <= j => table'[i].ts <= table'[j].ts
  <2>1. CASE table' = one
    BY <1>4, <2>1
  <2>2. CASE table' = two
    <3>1. ASSUME NEW i \in DOMAIN two
          PROVE  two[i] = b \/ \E j \in DOMAIN table : two[i] = table[j]
      BY <1>4, <1>5
    <3>. QED
      BY <1>5, <2>2, <3>1
  <2>. QED
    BY <1>6, <2>1, <2>2
<1>8. /\ SocketFits' /\ socket' \in Seq(Messages) /\ ReadUpto' = Head(socket).ver
      /\ Head(socket).ver \in 1..Len(hist) /\ last <= Head(socket).ver
  BY HeadOfSocket, SocketRead
<1>9. Shape'
  <2>1. last' \in 0..Len(hist') /\ gap' \subseteq AllKeys'
    BY <1>8
  <2>. QED
    BY <1>7, <1>8, <2>1 DEF Shape
<1>10. GapFits'
  <2>1. last' \in 1..ReadUpto' /\ last' = ReadUpto'
    BY <1>8
  <2>. QED
    BY <2>1 DEF GapFits
<1>11. TableFits'
  <2>1. last \in 0..Len(hist) /\ last' \in Nat /\ hist \in Seq(Versions) /\ last <= last'
    BY <1>8 DEF Shape
  <2>2. \A c : BatchFits(c) => BatchFits(c)'
    BY <2>1, BatchStays
  <2>3. ASSUME NEW i \in DOMAIN table' PROVE BatchFits(table[i])'
    BY <1>2, <1>7, <2>2 DEF TableFits
  <2>. QED
    BY <1>7, <2>3 DEF TableFits
<1>12. ClockForward'
  BY DEF ClockForward
<1>. QED
  BY <1>8, <1>9, <1>10, <1>11, <1>12

\* The exchange's book changes.
LEMMA Grown ==
  ASSUME Shape, ClockForward, TableFits, NEW c \in Changes, NEW later \in {0, 1},
         hist' = Changed(c, later), UNCHANGED <<exchange, last, table>>
  PROVE  /\ hist' \in Seq(Versions) /\ hist' # <<>>
         /\ Len(hist') = Len(hist) + 1 /\ Len(hist) \in Nat /\ Len(hist) > 0
         /\ DOMAIN hist = 1..Len(hist) /\ DOMAIN hist' = 1..(Len(hist) + 1)
         /\ \A v \in DOMAIN hist : v \in DOMAIN hist' /\ hist'[v] = hist[v]
         /\ hist'[Len(hist) + 1].book = Merge(hist[Len(hist)].book, c)
         /\ hist'[Len(hist) + 1].at = hist[Len(hist)].at + later
         /\ hist[Len(hist)].at + later \in Nat
         /\ DOMAIN c \subseteq Level
         /\ ClockForward' /\ TableFits'
         /\ \A m : Genuine(m) => Genuine(m)'
<1> DEFINE N == Len(hist)
           v == [book |-> Merge(hist[N].book, c), at |-> hist[N].at + later]
<1>1. hist \in Seq(Versions) /\ N \in Nat /\ N > 0 /\ DOMAIN hist = 1..N /\ N \in DOMAIN hist
  BY EmptySeq, LenProperties DEF Shape
<1>2. /\ hist[N].book \in Book /\ hist[N].at \in Nat
      /\ \A w \in DOMAIN hist : hist[w].at \in Nat
  BY <1>1, VersionType
<1>3. DOMAIN c \subseteq Level /\ \A l \in DOMAIN c : c[l] \in Sizes
  BY PersistenceAssumption
<1>4. v.book \in Book /\ v.at \in Nat /\ v \in Versions
  <2>1. v.book \in Book
    BY <1>2, <1>3 DEF Merge, Book
  <2>. QED
    BY <1>2, <2>1 DEF Versions
<1>5. hist' = Append(hist, v)
  BY DEF Changed, Current
<1>6. v.book = Merge(hist[N].book, c) /\ v.at = hist[N].at + later
  OBVIOUS
<1> HIDE DEF v
<1>7. /\ hist' \in Seq(Versions) /\ hist' # <<>> /\ Len(hist') = N + 1
      /\ \A w \in 1..N : hist'[w] = hist[w]
      /\ hist'[N + 1] = v
  BY <1>1, <1>4, <1>5, AppendProperties
<1>8. DOMAIN hist' = 1..(N + 1)
  BY <1>7, LenProperties
<1>9. \A w \in DOMAIN hist : w \in DOMAIN hist' /\ hist'[w] = hist[w]
  BY <1>1, <1>7, <1>8
<1>10. ASSUME NEW w \in DOMAIN hist', NEW x \in DOMAIN hist', w <= x
       PROVE  hist'[w].at <= hist'[x].at
  <2>1. CASE x \in 1..N
    <3>1. w \in DOMAIN hist /\ x \in DOMAIN hist
      BY <1>1, <1>8, <1>10, <2>1
    <3>2. hist[w].at <= hist[x].at
      BY <1>10, <3>1 DEF ClockForward
    <3>. QED
      BY <1>9, <3>1, <3>2
  <2>2. CASE x = N + 1
    <3>1. hist[N].at <= v.at /\ v.at \in Nat
      BY <1>2, <1>4, <1>6
    <3>2. CASE w \in 1..N
      <4>1. w \in DOMAIN hist /\ w <= N
        BY <1>1, <3>2
      <4>2. hist[w].at <= hist[N].at
        BY <1>1, <4>1 DEF ClockForward
      <4>3. hist'[w].at = hist[w].at /\ hist[w].at \in Nat /\ hist[N].at \in Nat
        BY <1>1, <1>2, <1>9, <4>1
      <4>. QED
        BY <1>7, <2>2, <3>1, <4>2, <4>3
    <3>3. CASE w = N + 1
      BY <1>7, <2>2, <3>1, <3>3
    <3>. QED
      BY <1>1, <1>8, <3>2, <3>3
  <2>. QED
    BY <1>1, <1>8, <2>1, <2>2
<1>11. ClockForward'
  BY <1>10 DEF ClockForward
<1>12. TableFits'
  <2>1. last \in 0..Len(hist) /\ last' \in Nat /\ last <= last'
    BY <1>1 DEF Shape
  <2>2. \A b : BatchFits(b) => BatchFits(b)'
    BY <1>1, <1>9, <2>1, BatchStays
  <2>. QED
    BY <2>2 DEF TableFits
<1>13. ASSUME NEW m, Genuine(m) PROVE Genuine(m)'
  <2>1. m.ver \in DOMAIN hist /\ (m.type = "update" => m.ver - 1 \in DOMAIN hist)
    BY <1>1, <1>13 DEF Genuine
  <2>2. /\ m.ver \in DOMAIN hist' /\ hist'[m.ver] = hist[m.ver]
        /\ m.type = "update" => hist'[m.ver - 1] = hist[m.ver - 1]
    BY <1>9, <2>1
  <2>. QED
    BY <1>13, <2>2 DEF Genuine
<1>. QED
  BY <1>1, <1>2, <1>3, <1>4, <1>6, <1>7, <1>8, <1>9, <1>11, <1>12, <1>13

\* A connection is sent the message of the new version.
LEMMA Sent ==
  ASSUME Shape, SocketFits, GapFits, conn # "off", NEW m \in Messages,
         socket' = Append(socket, m), m.ver = Len(hist) + 1, Genuine(m)',
         \A n : Genuine(n) => Genuine(n)',
         hist' \in Seq(Versions), hist' # <<>>, Len(hist') = Len(hist) + 1,
         \A v \in DOMAIN hist : hist'[v] = hist[v],
         UNCHANGED <<exchange, conn, table, faults, gap, last>>,
         snapshots' \in 0..MaxSnapshots
  PROVE  Shape' /\ SocketFits' /\ GapFits'
<1>1. /\ socket \in Seq(Messages) /\ Len(hist) \in Nat /\ DOMAIN hist = 1..Len(hist)
      /\ last \in 0..Len(hist)
  BY LenProperties DEF Shape
<1>2. /\ socket' \in Seq(Messages) /\ Len(socket') = Len(socket) + 1 /\ Len(socket) \in Nat
      /\ DOMAIN socket = 1..Len(socket) /\ DOMAIN socket' = 1..(Len(socket) + 1)
      /\ \A i \in 1..Len(socket) : socket'[i] = socket[i]
      /\ socket'[Len(socket) + 1] = m
  <2>1. /\ socket' \in Seq(Messages) /\ Len(socket') = Len(socket) + 1
        /\ \A i \in 1..Len(socket) : socket'[i] = socket[i]
        /\ socket'[Len(socket) + 1] = m
    BY <1>1, AppendProperties
  <2>2. Len(socket) \in Nat /\ DOMAIN socket = 1..Len(socket) /\ DOMAIN socket' = 1..Len(socket')
    BY <1>1, <2>1, LenProperties
  <2>. QED
    BY <2>1, <2>2
<1>3. ReadUpto' = ReadUpto /\ ReadUpto + (Len(socket) + 1) = Len(hist) + 1 /\ ReadUpto \in Nat
      /\ ReadUpto <= Len(hist)
  BY <1>1, <1>2 DEF ReadUpto, SocketFits
<1>4. ASSUME NEW i \in DOMAIN socket'
      PROVE  /\ socket'[i].ver = ReadUpto' + i /\ last' <= socket'[i].ver
             /\ Genuine(socket[i])'
  <2>1. CASE i \in 1..Len(socket)
    BY <1>2, <1>3, <2>1 DEF SocketFits
  <2>2. CASE i = Len(socket) + 1
    BY <1>1, <1>2, <1>3, <2>2
  <2>. QED
    BY <1>2, <2>1, <2>2
<1>5. SocketFits'
  <2>1. Len(socket') <= Len(hist')
    BY <1>1, <1>2 DEF SocketFits
  <2>. QED
    BY <1>4, <2>1 DEF SocketFits
<1>6. Shape'
  <2>1. last' \in 0..Len(hist')
    BY <1>1
  <2>. QED
    BY <1>2, <2>1, SameKeys DEF Shape
<1>7. GapFits'
  <2>1. ASSUME NEW l \in Level, KeyOf(l) \notin gap
        PROVE  last \in 1..ReadUpto /\ hist'[last].book[l] = hist'[ReadUpto].book[l]
    <3>1. last \in 1..ReadUpto /\ hist[last].book[l] = hist[ReadUpto].book[l]
      BY <2>1 DEF GapFits
    <3>2. last \in DOMAIN hist /\ ReadUpto \in DOMAIN hist
      BY <1>1, <1>3, <3>1
    <3>. QED
      BY <3>1, <3>2
  <2>. QED
    BY <1>3, <2>1, SameKeys DEF GapFits
<1>. QED
  BY <1>5, <1>6, <1>7

\* Without a connection nobody is told, and all is in the gap.
LEMMA NobodyTold ==
  ASSUME Shape, conn = "off", socket' = socket, UNCHANGED <<exchange, last, gap>>,
         hist' \in Seq(Versions)
  PROVE  SocketFits' /\ GapFits'
<1>1. socket' = <<>> /\ gap' = AllKeys' /\ Len(hist') \in Nat
  BY SameKeys, LenProperties DEF Shape
<1>2. SocketFits'
  BY <1>1 DEF SocketFits
<1>3. GapFits'
  BY <1>1, SameKeys DEF GapFits, AllKeys
<1>. QED
  BY <1>2, <1>3

LEMMA StampsType ==
  ASSUME NEW type \in {"snapshot", "update"}, NEW at \in Nat, NEW ts \in Stamps(type, at)
  PROVE  ts \in Nat /\ ts \in {0, at}
  BY DEF Stamps

LEMMA ChangeStep ==
  ASSUME ClientInv, NEW c \in Changes, NEW later \in {0, 1}, Change(c, later)
  PROVE  ClientInv'
<1> USE DEF ClientInv
<1>1. /\ hist' = Changed(c, later)
      /\ UNCHANGED <<exchange, snapshots, conn, table, faults, gap, last>>
  BY DEF Change
<1>2. /\ hist' \in Seq(Versions) /\ hist' # <<>>
      /\ Len(hist') = Len(hist) + 1 /\ Len(hist) \in Nat /\ Len(hist) > 0
      /\ DOMAIN hist = 1..Len(hist) /\ DOMAIN hist' = 1..(Len(hist) + 1)
      /\ \A v \in DOMAIN hist : v \in DOMAIN hist' /\ hist'[v] = hist[v]
      /\ hist'[Len(hist) + 1].book = Merge(hist[Len(hist)].book, c)
      /\ hist'[Len(hist) + 1].at = hist[Len(hist)].at + later
      /\ hist[Len(hist)].at + later \in Nat
      /\ DOMAIN c \subseteq Level
      /\ ClockForward' /\ TableFits'
      /\ \A m : Genuine(m) => Genuine(m)'
  BY <1>1, Grown
<1>3. PICK ts \in Stamps("update", hist[Len(hist)].at + later) :
        socket' = IF conn = "off" THEN socket
                  ELSE Append(socket, Message("update", Len(hist) + 1, DOMAIN c, ts))
  BY DEF Change, Current
<1>4. CASE conn = "off"
  <2>1. SocketFits' /\ GapFits'
    BY <1>1, <1>2, <1>3, <1>4, NobodyTold
  <2>2. Shape'
    <3>1. last' \in 0..Len(hist') /\ socket' = socket
      BY <1>1, <1>2, <1>3, <1>4 DEF Shape
    <3>. QED
      BY <1>1, <1>2, <3>1, SameKeys DEF Shape
  <2>. QED
    BY <1>2, <2>1, <2>2
<1>5. CASE conn # "off"
  <2>1. PICK m : m = Message("update", Len(hist) + 1, DOMAIN c, ts)
    OBVIOUS
  <2>2. /\ m.type = "update" /\ m.ver = Len(hist) + 1 /\ m.levels = DOMAIN c /\ m.ts = ts
        /\ m \in Messages
    BY <1>2, <2>1, StampsType DEF Message, Messages
  <2>3. Genuine(m)'
    <3>1. m.ver \in DOMAIN hist' /\ m.ver > 1 /\ m.ver - 1 = Len(hist) /\ Len(hist) \in DOMAIN hist
      BY <1>2, <2>2
    <3>2. m.ts \in {0, hist'[m.ver].at}
      BY <1>2, <2>2, StampsType
    <3>3. \A l \in Level \ m.levels : hist'[m.ver].book[l] = hist'[m.ver - 1].book[l]
      BY <1>2, <2>2, <3>1 DEF Merge
    <3>. QED
      BY <2>2, <3>1, <3>2, <3>3 DEF Genuine
  <2>4. snapshots' \in 0..MaxSnapshots
    BY <1>1 DEF Shape
  <2>5. socket' = Append(socket, m)
    BY <1>3, <1>5, <2>1
  <2>6. Shape' /\ SocketFits' /\ GapFits'
    BY <1>1, <1>2, <1>5, <2>2, <2>3, <2>4, <2>5, Sent
  <2>. QED
    BY <1>2, <2>6
<1>. QED
  BY <1>4, <1>5

LEMMA ResetStep ==
  ASSUME ClientInv, NEW c \in Changes, NEW later \in {0, 1}, Reset(c, later)
  PROVE  ClientInv'
<1> USE DEF ClientInv
<1>1. /\ hist' = Changed(c, later) /\ exchange # "bitstamp" /\ conn = "live"
      /\ snapshots < MaxSnapshots /\ snapshots' = snapshots + 1
      /\ UNCHANGED <<exchange, conn, table, faults, gap, last>>
  BY DEF Reset
<1>2. /\ hist' \in Seq(Versions) /\ hist' # <<>>
      /\ Len(hist') = Len(hist) + 1 /\ Len(hist) \in Nat /\ Len(hist) > 0
      /\ DOMAIN hist = 1..Len(hist) /\ DOMAIN hist' = 1..(Len(hist) + 1)
      /\ \A v \in DOMAIN hist : v \in DOMAIN hist' /\ hist'[v] = hist[v]
      /\ hist'[Len(hist) + 1].at = hist[Len(hist)].at + later
      /\ hist[Len(hist)].at + later \in Nat
      /\ ClockForward' /\ TableFits'
      /\ \A m : Genuine(m) => Genuine(m)'
  BY <1>1, Grown
<1>3. PICK ts \in Stamps("snapshot", hist[Len(hist)].at + later) :
        socket' = Append(socket, Message("snapshot", Len(hist) + 1,
                                         Listed(hist'[Len(hist) + 1].book), ts))
  BY DEF Reset, Current
<1>4. PICK m : m = Message("snapshot", Len(hist) + 1, Listed(hist'[Len(hist) + 1].book), ts)
  OBVIOUS
<1>5. /\ m.type = "snapshot" /\ m.ver = Len(hist) + 1 /\ m.ts = ts
      /\ m.levels = Listed(hist'[Len(hist) + 1].book)
      /\ m \in Messages
  BY <1>2, <1>4, StampsType DEF Message, Messages, Listed
<1>6. Genuine(m)'
  <2>1. m.ver \in DOMAIN hist' /\ m.ts \in {0, hist'[m.ver].at}
    BY <1>2, <1>5, StampsType
  <2>. QED
    BY <1>1, <1>5, <2>1 DEF Genuine
<1>7. snapshots' \in 0..MaxSnapshots
  BY <1>1, PersistenceAssumption DEF Shape
<1>8. Shape' /\ SocketFits' /\ GapFits'
  BY <1>1, <1>2, <1>3, <1>4, <1>5, <1>6, <1>7, Sent
<1>. QED
  BY <1>2, <1>8

LEMMA ConnectStep ==
  ASSUME ClientInv, Connect
  PROVE  ClientInv'
<1> USE DEF ClientInv
<1>1. /\ conn = "off" /\ snapshots < MaxSnapshots /\ snapshots' = snapshots + 1
      /\ UNCHANGED <<exchange, hist, table, faults, gap, last>>
  BY DEF Connect
<1>2. /\ hist \in Seq(Versions) /\ Len(hist) \in Nat /\ Len(hist) > 0
      /\ DOMAIN hist = 1..Len(hist) /\ Len(hist) \in DOMAIN hist /\ hist[Len(hist)].at \in Nat
      /\ gap = AllKeys /\ socket = <<>> /\ last \in 0..Len(hist)
  <2>1. /\ hist \in Seq(Versions) /\ Len(hist) \in Nat /\ Len(hist) > 0
        /\ DOMAIN hist = 1..Len(hist) /\ Len(hist) \in DOMAIN hist
    BY EmptySeq, LenProperties DEF Shape
  <2>. QED
    BY <1>1, <2>1, VersionType DEF Shape
<1>3. snapshots' \in 0..MaxSnapshots
  BY <1>1, PersistenceAssumption DEF Shape
<1>4. GapFits'
  BY <1>1, <1>2, SameKeys DEF GapFits, AllKeys
<1>5. ClockForward' /\ TableFits'
  <2>1. \A b : BatchFits(b) => BatchFits(b)'
    BY <1>1, <1>2, BatchStays
  <2>. QED
    BY <1>1, <2>1 DEF ClockForward, TableFits
<1>6. CASE exchange = "bitstamp"
  <2>1. conn' = "buffering" /\ socket' = socket
    BY <1>6 DEF Connect
  <2>2. SocketFits'
    BY <1>1, <1>2, <2>1 DEF SocketFits
  <2>3. Shape'
    BY <1>1, <1>2, <1>3, <2>1, SameKeys DEF Shape
  <2>. QED
    BY <1>4, <1>5, <2>2, <2>3
<1>7. CASE exchange # "bitstamp"
  <2>1. conn' = "live"
    BY <1>7 DEF Connect
  <2>2. PICK ts \in Stamps("snapshot", hist[Len(hist)].at) :
          socket' = <<Message("snapshot", Len(hist), Listed(hist[Len(hist)].book), ts)>>
    BY <1>7 DEF Connect, Current
  <2>3. PICK m : m = Message("snapshot", Len(hist), Listed(hist[Len(hist)].book), ts)
    OBVIOUS
  <2>4. /\ m.type = "snapshot" /\ m.ver = Len(hist) /\ m.ts = ts
        /\ m.levels = Listed(hist[Len(hist)].book)
        /\ m \in Messages
    BY <1>2, <2>3, StampsType DEF Message, Messages, Listed
  <2>5. Genuine(m)'
    <3>1. m.ver \in DOMAIN hist /\ m.ts \in {0, hist[m.ver].at}
      BY <1>2, <2>4, StampsType
    <3>. QED
      BY <1>1, <1>7, <2>4, <3>1 DEF Genuine
  <2>6. /\ socket' = <<m>> /\ Len(socket') = 1 /\ DOMAIN socket' = {1} /\ socket'[1] = m
        /\ socket' \in Seq(Messages)
    <3>1. socket' = <<m>>
      BY <2>2, <2>3
    <3>2. Len(<<m>>) = 1 /\ DOMAIN <<m>> = {1} /\ <<m>>[1] = m /\ <<m>> \in Seq(Messages)
      BY <2>4
    <3>. QED
      BY <3>1, <3>2
  <2>7. ReadUpto' + 1 = Len(hist)
    BY <1>1, <1>2, <2>6 DEF ReadUpto
  <2>8. SocketFits'
    BY <1>1, <1>2, <2>4, <2>5, <2>6, <2>7 DEF SocketFits
  <2>9. Shape'
    BY <1>1, <1>2, <1>3, <2>1, <2>6, SameKeys DEF Shape
  <2>. QED
    BY <1>4, <1>5, <2>8, <2>9
<1>. QED
  BY <1>6, <1>7

LEMMA DisconnectStep ==
  ASSUME ClientInv, Disconnect
  PROVE  ClientInv'
<1> USE DEF ClientInv
<1>1. /\ conn' = "off" /\ socket' = <<>> /\ gap' = AllKeys
      /\ UNCHANGED <<exchange, hist, snapshots, table, faults, last>>
  BY DEF Disconnect
<1>2. hist \in Seq(Versions) /\ Len(hist) \in Nat /\ last \in 0..Len(hist)
  BY LenProperties DEF Shape
<1>3. SocketFits'
  BY <1>1, <1>2 DEF SocketFits
<1>4. GapFits'
  BY <1>1, SameKeys DEF GapFits, AllKeys
<1>5. ClockForward' /\ TableFits'
  <2>1. \A b : BatchFits(b) => BatchFits(b)'
    BY <1>1, <1>2, BatchStays
  <2>. QED
    BY <1>1, <2>1 DEF ClockForward, TableFits
<1>6. Shape'
  BY <1>1, <1>2, SameKeys, EmptySeq DEF Shape
<1>. QED
  BY <1>3, <1>4, <1>5, <1>6

\* The steps that leave the client, and those that only make it live.
LEMMA ClientRests ==
  ASSUME ClientInv, UNCHANGED <<exchange, hist, snapshots, socket, table, faults, gap, last>>,
         conn' = conn \/ conn' = "live"
  PROVE  ClientInv'
<1> USE DEF ClientInv
<1>1. Shape'
  BY SameKeys DEF Shape
<1>2. ClockForward'
  BY DEF ClockForward
<1>3. SocketFits'
  <2>1. \A m : Genuine(m) => Genuine(m)'
    BY DEF Genuine
  <2>. QED
    BY <2>1 DEF SocketFits, ReadUpto
<1>4. GapFits'
  BY SameKeys DEF GapFits, ReadUpto
<1>5. TableFits'
  <2>1. last \in 0..Len(hist) /\ hist \in Seq(Versions) /\ last' \in Nat /\ last <= last'
    BY DEF Shape
  <2>2. \A b : BatchFits(b) => BatchFits(b)'
    BY <2>1, BatchStays
  <2>. QED
    BY <2>2 DEF TableFits
<1>. QED
  BY <1>1, <1>2, <1>3, <1>4, <1>5

\* Old partitions are dropped.
LEMMA ExpireStep ==
  ASSUME ClientInv, Expire
  PROVE  ClientInv'
<1> USE DEF ClientInv
<1>1. /\ UNCHANGED <<exchange, hist, snapshots, socket, conn, gap, last>>
      /\ faults < MaxFaults /\ faults' = faults + 1
  BY DEF Expire, Fault
<1>2. PICK n \in 1..(Len(table) - 1) : table' = SubSeq(table, n + 1, Len(table))
  BY DEF Expire
<1>3. /\ table \in Seq(Batches) /\ Len(table) \in Nat /\ DOMAIN table = 1..Len(table)
      /\ n \in Nat /\ n < Len(table)
      /\ \A i \in DOMAIN table : table[i] \in Batches
  <2>1. table \in Seq(Batches) /\ Len(table) \in Nat /\ DOMAIN table = 1..Len(table)
    BY LenProperties DEF Shape
  <2>. QED
    BY <2>1, BatchType
<1>4. /\ table' \in Seq(Batches)
      /\ \A i \in DOMAIN table' : n + i \in DOMAIN table /\ table'[i] = table[n + i] /\ i \in Nat
  <2>1. \A i \in (n + 1)..Len(table) : table[i] \in Batches
    BY <1>3
  <2>2. /\ table' \in Seq(Batches)
        /\ Len(table') = IF n + 1 <= Len(table) THEN Len(table) - (n + 1) + 1 ELSE 0
        /\ \A i \in 1..(Len(table) - (n + 1) + 1) : table'[i] = table[(n + 1) + i - 1]
    BY <1>2, <1>3, <2>1, SubSeqProperties
  <2>3. Len(table) - (n + 1) + 1 = Len(table) - n /\ n + 1 <= Len(table)
    BY <1>3
  <2>4. DOMAIN table' = 1..(Len(table) - n)
    BY <2>2, <2>3, LenProperties
  <2>5. ASSUME NEW i \in DOMAIN table'
        PROVE  n + i \in DOMAIN table /\ (n + 1) + i - 1 = n + i /\ i \in Nat
    BY <1>3, <2>4
  <2>. QED
    BY <2>2, <2>3, <2>4, <2>5
<1>5. Shape'
  BY <1>1, <1>4, SameKeys, PersistenceAssumption DEF Shape
<1>6. ClockForward'
  BY <1>1 DEF ClockForward
<1>7. SocketFits'
  <2>1. \A m : Genuine(m) => Genuine(m)'
    BY <1>1 DEF Genuine
  <2>. QED
    BY <1>1, <2>1 DEF SocketFits, ReadUpto
<1>8. GapFits'
  BY <1>1, SameKeys DEF GapFits, ReadUpto
<1>9. TableFits'
  <2>1. last \in 0..Len(hist) /\ hist \in Seq(Versions) /\ last' \in Nat /\ last <= last'
    BY <1>1 DEF Shape
  <2>2. \A b : BatchFits(b) => BatchFits(b)'
    BY <1>1, <2>1, BatchStays
  <2>3. ASSUME NEW i \in DOMAIN table' PROVE BatchFits(table[i])'
    BY <1>4, <2>2 DEF TableFits
  <2>4. ASSUME NEW i \in DOMAIN table', NEW j \in DOMAIN table', i <= j
        PROVE  table'[i].ts <= table'[j].ts
    <3>1. /\ n + i \in DOMAIN table /\ n + j \in DOMAIN table
          /\ table'[i] = table[n + i] /\ table'[j] = table[n + j]
          /\ i \in Nat /\ j \in Nat
      BY <1>4
    <3>2. n + i <= n + j
      BY <1>3, <2>4, <3>1
    <3>. QED
      BY <3>1, <3>2 DEF TableFits
  <2>. QED
    BY <2>3, <2>4 DEF TableFits
<1>. QED
  BY <1>5, <1>6, <1>7, <1>8, <1>9

\* What the client does with a message.
LEMMA MessageStep ==
  ASSUME ClientInv, Buffer \/ PersistNothing \/ PersistStored \/ PersistLost \/ PersistRepeated
  PROVE  ClientInv'
<1> USE DEF ClientInv
<1>1. faults \in 0..MaxFaults /\ (Fault => faults' \in 0..MaxFaults)
  BY PersistenceAssumption DEF Shape, Fault
<1>2. CASE Buffer
  BY <1>1, <1>2, Unstored DEF Buffer
<1>3. CASE PersistNothing
  BY <1>1, <1>3, Unstored DEF PersistNothing, Receive
<1>4. CASE PersistStored
  BY <1>1, <1>4, Stored DEF PersistStored, Receive
<1>5. CASE PersistLost
  BY <1>1, <1>5, Unstored DEF PersistLost, Receive
<1>6. CASE PersistRepeated
  BY <1>1, <1>6, Stored DEF PersistRepeated, Receive
<1>. QED
  BY <1>2, <1>3, <1>4, <1>5, <1>6

LEMMA ClientInit ==
  ASSUME Init
  PROVE  ClientInv
<1>1. PICK c \in Changes : hist = <<[book |-> Merge(EmptyBook, c), at |-> 1]>>
  BY DEF Init
<1>2. PICK v : v = [book |-> Merge(EmptyBook, c), at |-> 1]
  OBVIOUS
<1>3. v \in Versions
  <2>1. /\ DOMAIN c \subseteq Level /\ \A l \in DOMAIN c : c[l] \in Sizes
        /\ 0 \in Sizes
    BY PersistenceAssumption
  <2>2. Merge(EmptyBook, c) \in Book
    BY <2>1 DEF Merge, EmptyBook, Book
  <2>. QED
    BY <1>2, <2>2 DEF Versions
<1>4. hist = <<v>> /\ Len(hist) = 1 /\ DOMAIN hist = {1} /\ hist \in Seq(Versions) /\ hist # <<>>
  <2>1. hist = <<v>>
    BY <1>1, <1>2
  <2>2. Len(<<v>>) = 1 /\ DOMAIN <<v>> = {1} /\ <<v>> \in Seq(Versions) /\ <<v>> # <<>>
    BY <1>3
  <2>. QED
    BY <2>1, <2>2
<1>5. /\ exchange \in Exchanges /\ snapshots = 0 /\ socket = <<>> /\ conn = "off"
      /\ table = <<>> /\ faults = 0 /\ gap = AllKeys /\ last = 0
  BY DEF Init
<1>6. Shape
  BY <1>4, <1>5, EmptySeq, PersistenceAssumption DEF Shape
<1>7. ClockForward
  <2>1. hist[1].at \in Nat
    BY <1>4, VersionType
  <2>. QED
    BY <1>4, <2>1 DEF ClockForward
<1>8. SocketFits
  BY <1>4, <1>5 DEF SocketFits
<1>9. GapFits
  BY <1>5 DEF GapFits, AllKeys
<1>10. TableFits
  BY <1>5 DEF TableFits
<1>. QED
  BY <1>6, <1>7, <1>8, <1>9, <1>10 DEF ClientInv

-----------------------------------------------------------------------------
(***************************************************************************)
(* The reader's steps.                                                     *)
(***************************************************************************)
\* Before the export the reader has nothing.
LEMMA ReaderIdle ==
  ASSUME ReaderInv, reader = "idle", UNCHANGED <<readerVars, known, exchange>>
  PROVE  ReaderInv'
<1> USE DEF ReaderInv, readerVars
<1>1. Carries'
  BY DEF Carries
<1>2. Written'
  BY DEF Written, Yieldable
<1>3. next = 1
  BY DEF Carries
<1>4. Told'
  BY <1>3, SameKeys DEF Told, EmptyEntry
<1>. QED
  BY <1>1, <1>2, <1>4

LEMMA TableRead ==
  ASSUME ClientInv
  PROVE  FileOf(table) \in Seq(FileRows) /\ Sorted(FileOf(table))
<1>1. table \in Seq(Batches)
  BY DEF ClientInv, Shape
<1>2. \A i \in DOMAIN table : table[i].rows # <<>>
  BY DEF ClientInv, TableFits, BatchFits
<1>3. \A i, j \in DOMAIN table : i <= j => table[i].ts <= table[j].ts
  BY DEF ClientInv, TableFits
<1>. QED
  BY <1>1, <1>2, <1>3, FileSorted

LEMMA ReaderInitial ==
  ASSUME Init
  PROVE  ReaderInv
<1>1. /\ file = <<>> /\ next = 1 /\ book = NoLevel /\ current = {} /\ cleared = FALSE
      /\ buffer = <<>> /\ lob2 = <<>> /\ reader = "idle" /\ known = {}
  BY DEF Init, ReaderInit
<1>2. Carries
  BY <1>1, NoFile, ReaderStarts DEF Carries
<1>3. Written
  <2>1. <<>> \in Seq(Yieldable) /\ Len(<<>>) = 0
    BY EmptySeq
  <2>2. <<>> \o <<>> = <<>>
    BY <2>1, ConcatEmptySeq
  <2>3. FlushSize > 0
    BY ReaderAssumption
  <2>. QED
    BY <1>1, <2>1, <2>2, <2>3 DEF Written
<1>4. Told
  BY <1>1 DEF Told
<1>. QED
  BY <1>2, <1>3, <1>4 DEF ReaderInv

LEMMA ExportStep ==
  ASSUME ClientInv, ReaderInv, Export
  PROVE  ReaderInv'
<1>1. /\ reader = "idle" /\ reader' = "reading" /\ file' = FileOf(table)
      /\ UNCHANGED <<exchange, table, next, book, current, cleared, buffer, lob2, known>>
  BY DEF Export, Collecting, clientVars
<1>2. FileOf(table) \in Seq(FileRows) /\ Sorted(FileOf(table))
  BY TableRead
<1>3. /\ file = <<>> /\ buffer = <<>> /\ lob2 = <<>> /\ next = 1 /\ current = {} /\ cleared = FALSE
      /\ book = NoLevel
  <2>1. file = <<>> /\ buffer = <<>> /\ lob2 = <<>> /\ next \in 1..(Len(file) + 1)
    BY <1>1 DEF ReaderInv, Carries
  <2>2. next = 1
    BY <2>1
  <2>. QED
    BY <2>1, <2>2, NoFile, ReaderStarts DEF ReaderInv, Carries
<1>4. Carries'
  BY <1>1, <1>2, <1>3, ReaderStarts DEF Carries
<1>5. Written'
  <2>1. <<>> \in Seq(Yieldable') /\ Len(<<>>) = 0
    BY EmptySeq
  <2>2. <<>> \o <<>> = <<>>
    BY <2>1, ConcatEmptySeq
  <2>3. FlushSize > 0
    BY ReaderAssumption
  <2>4. buffer' = <<>> /\ lob2' = <<>> /\ next' = 1
    BY <1>1, <1>3
  <2>. QED
    BY <1>1, <2>1, <2>2, <2>3, <2>4 DEF Written
<1>6. Told'
  <2>1. FileOf(table)' = FileOf(table)
    BY <1>1 DEF FileOf
  <2>. QED
    BY <1>1, <1>3, <2>1, SameKeys DEF ReaderInv, Told, EmptyEntry
<1>. QED
  BY <1>4, <1>5, <1>6 DEF ReaderInv

LEMMA ReaderEndsStep ==
  ASSUME ReaderInv, ReaderEnds
  PROVE  ReaderInv'
<1>1. Carries' /\ Written'
  BY ReaderFinishes, ReaderInterrupted DEF ReaderEnds, ReaderInv
<1>2. UNCHANGED <<exchange, hist, table, file, next, book, known>> /\ reader = "reading"
  BY DEF ReaderEnds, Finish, Interrupt, clientVars
<1>3. FileOf(table)' = FileOf(table)
  BY <1>2 DEF FileOf
<1>4. Told'
  <2>1. ToCome' = ToCome /\ VersionRead' = VersionRead
    BY <1>2 DEF ToCome, VersionRead
  <2>2. \A l : Unambiguous(l)' = Unambiguous(l)
    BY <1>2, SameKeys DEF Unambiguous
  <2>. QED
    BY <1>2, <1>3, <2>1, <2>2, SameKeys DEF ReaderInv, Told, EmptyEntry
<1>. QED
  BY <1>1, <1>4 DEF ReaderInv

\* A row tells the size of its own key and of no other.
LEMMA SizeApplied ==
  ASSUME NEW bk, NEW row, NEW k
  PROVE  SizeIn(ApplyLevel(bk, row), k) = IF k = row.key THEN row.size ELSE SizeIn(bk, k)
<1>1. CASE row.action = "update" /\ row.size = 0
  BY <1>1 DEF ApplyLevel, Without, SizeIn
<1>2. CASE ~(row.action = "update" /\ row.size = 0)
  BY <1>2 DEF ApplyLevel, With, SizeIn
<1>. QED
  BY <1>1, <1>2

\* A row's size is that of its level, if its key is that of one level only.
LEMMA RowRight ==
  ASSUME NEW b, NEW e, RowFits(b, e), NEW l \in Level, Unambiguous(l), e.key = KeyOf(l)
  PROVE  e.size = Printed(hist[b.ver].book[l])
<1>1. ~(e = EmptyEntry /\ exchange = "bitstamp")
  <2> SUFFICES ASSUME e = EmptyEntry, exchange = "bitstamp" PROVE FALSE
    OBVIOUS
  <2>1. KeyOf(l) = <<l[1], l[2]>>
    BY DEF KeyOf, Printed
  <2>2. KeyOf(l) = <<"bid", 0>>
    BY DEF EmptyEntry
  <2>3. l[2] \in Prices
    BY DEF Level
  <2>. QED
    BY <2>1, <2>2, <2>3, PersistenceAssumption
<1>2. PICK m \in Level : e.key = KeyOf(m) /\ e.size = Printed(hist[b.ver].book[m])
  BY <1>1 DEF RowFits
<1>3. m = l
  BY <1>2 DEF Unambiguous
<1>. QED
  BY <1>2, <1>3

\* The file as the reader finds it, at its next row.
LEMMA TableAtNext ==
  ASSUME ClientInv, ReaderInv, ReadRow
  PROVE  /\ file = FileOf(table) /\ next \in DOMAIN file /\ next \in Nat /\ next > 0
         /\ DOMAIN file = 1..Len(file) /\ Len(file) \in Nat
         /\ next # 1 => next - 1 \in DOMAIN file
         /\ \A n \in DOMAIN file :
              /\ file[n].batch \in DOMAIN table
              /\ file[n].batch \in Nat /\ file[n].batch > 0
              /\ file[n].ts = table[file[n].batch].ts
              /\ file[n].action = table[file[n].batch].action
              /\ \E j \in DOMAIN table[file[n].batch].rows :
                    /\ file[n].key = table[file[n].batch].rows[j].key
                    /\ file[n].size = table[file[n].batch].rows[j].size
         /\ \A i \in DOMAIN table : \A j \in DOMAIN table[i].rows :
              \E n \in DOMAIN file : /\ file[n].batch = i
                                     /\ file[n].key = table[i].rows[j].key
         /\ \A n, m \in DOMAIN file : n <= m => file[n].batch <= file[m].batch
         /\ next = 1 => file[next].batch = 1
         /\ next # 1 => \/ file[next].batch = file[next - 1].batch
                        \/ file[next].batch = file[next - 1].batch + 1
<1>1. file = FileOf(table) /\ next <= Len(file)
  BY DEF ReadRow, ReaderInv, Told
<1>2. /\ next \in DOMAIN file /\ next \in Nat /\ next > 0 /\ Len(file) \in Nat
      /\ next # 1 => next - 1 \in DOMAIN file
  BY <1>1, RowSeen DEF ReaderInv
<1>3. table \in Seq(Batches) /\ \A i \in DOMAIN table : table[i].rows # <<>>
  BY DEF ClientInv, Shape, TableFits, BatchFits
<1>4. /\ \A n \in DOMAIN file :
           /\ file[n].batch \in DOMAIN table
           /\ file[n].ts = table[file[n].batch].ts
           /\ file[n].action = table[file[n].batch].action
           /\ \E j \in DOMAIN table[file[n].batch].rows :
                 /\ file[n].key = table[file[n].batch].rows[j].key
                 /\ file[n].size = table[file[n].batch].rows[j].size
      /\ \A i \in DOMAIN table : \A j \in DOMAIN table[i].rows :
           \E n \in DOMAIN file : /\ file[n].batch = i
                                  /\ file[n].key = table[i].rows[j].key
      /\ \A n, m \in DOMAIN file : n <= m => file[n].batch <= file[m].batch
      /\ \A n \in DOMAIN file :
           /\ n = 1 => file[n].batch = 1
           /\ n # 1 => \/ file[n].batch = file[n - 1].batch
                       \/ file[n].batch = file[n - 1].batch + 1
  BY <1>1, <1>3, FileFacts
<1>5. DOMAIN file = 1..Len(file)
  BY LenProperties DEF ReaderInv, Carries
<1>6. \A n \in DOMAIN file : file[n].batch \in Nat /\ file[n].batch > 0
  <2>1. DOMAIN table = 1..Len(table) /\ Len(table) \in Nat
    BY <1>3, LenProperties
  <2>. QED
    BY <1>4, <2>1
<1>. QED
  BY <1>1, <1>2, <1>4, <1>5, <1>6

\* What the rows tell of stays right, row by row.
LEMMA TellStep ==
  ASSUME ClientInv, ReaderInv, Read
  PROVE  Told'
<1> DEFINE row == file[next]
           i == row.batch
           b == table[i]
           start == IF Clears(row) THEN NoLevel ELSE book
<1>1. /\ ReadRow
      /\ known' = IF FirstOfBatch(next) THEN KnownAfter(i, Clears(row)) ELSE known
      /\ UNCHANGED <<exchange, hist, table>>
  BY DEF Read, clientVars
<1>2. /\ reader' = reader /\ file' = file /\ next' = next + 1
      /\ book' = ApplyLevel(start, row) /\ reader # "idle"
  BY <1>1 DEF ReadRow
<1>3. /\ file = FileOf(table) /\ next \in DOMAIN file /\ next \in Nat /\ next > 0
      /\ DOMAIN file = 1..Len(file) /\ Len(file) \in Nat
      /\ next # 1 => next - 1 \in DOMAIN file
      /\ \A n \in DOMAIN file :
           /\ file[n].batch \in DOMAIN table
           /\ file[n].batch \in Nat /\ file[n].batch > 0
           /\ file[n].ts = table[file[n].batch].ts
           /\ file[n].action = table[file[n].batch].action
           /\ \E j \in DOMAIN table[file[n].batch].rows :
                 /\ file[n].key = table[file[n].batch].rows[j].key
                 /\ file[n].size = table[file[n].batch].rows[j].size
      /\ \A k \in DOMAIN table : \A j \in DOMAIN table[k].rows :
           \E n \in DOMAIN file : /\ file[n].batch = k
                                  /\ file[n].key = table[k].rows[j].key
      /\ \A n, m \in DOMAIN file : n <= m => file[n].batch <= file[m].batch
      /\ next = 1 => file[next].batch = 1
      /\ next # 1 => \/ file[next].batch = file[next - 1].batch
                     \/ file[next].batch = file[next - 1].batch + 1
  BY <1>1, TableAtNext
<1>4. Clears(row) <=> StartsSnapshot(file, next)
  BY <1>1, RowSeen DEF ReadRow, ReaderInv
<1>5. BatchFits(b) /\ i \in DOMAIN table
  BY <1>3 DEF ClientInv, TableFits
<1>6. PICK j \in DOMAIN b.rows : row.key = b.rows[j].key /\ row.size = b.rows[j].size
  BY <1>3
<1>7. RowFits(b, b.rows[j])
  BY <1>5 DEF BatchFits
<1>8. /\ known \subseteq AllKeys \cup {EmptyEntry.key}
      /\ next > 1 => \A l \in Level :
           Unambiguous(l) /\ KeyOf(l) \in known \ ToCome =>
             SizeIn(book, KeyOf(l)) = Printed(hist[VersionRead].book[l])
  BY DEF ReaderInv, Told
<1>9. known' \subseteq AllKeys \cup {EmptyEntry.key}
  <2>1. ASSUME NEW q \in DOMAIN b.rows
        PROVE  b.rows[q].key \in AllKeys \cup {EmptyEntry.key}
    <3>1. RowFits(b, b.rows[q])
      BY <1>5 DEF BatchFits
    <3>. QED
      BY <3>1 DEF RowFits, AllKeys
  <2>. QED
    BY <1>1, <1>8, <2>1 DEF KnownAfter
<1> DEFINE Rest == {file[m].key : m \in {q \in (next + 1)..Len(file) : file[q].batch = i}}
<1>10. ToCome' = Rest /\ VersionRead' = b.ver /\ next' - 1 = next /\ next' > 1
  <2>1. next' - 1 = next /\ next' > 1 /\ next' = next + 1
    BY <1>2, <1>3
  <2>2. ToCome' = Rest
    BY <1>2, <2>1 DEF ToCome
  <2>3. VersionRead' = b.ver
    BY <1>1, <1>2, <2>1 DEF VersionRead
  <2>. QED
    BY <2>1, <2>2, <2>3
<1> HIDE DEF Rest
<1>11. ASSUME NEW l \in Level, Unambiguous(l), KeyOf(l) \in known' \ Rest
       PROVE  SizeIn(book', KeyOf(l)) = Printed(hist[b.ver].book[l])
  <2> DEFINE k == KeyOf(l)
  <2>1. SizeIn(book', k) = IF k = row.key THEN row.size ELSE SizeIn(start, k)
    BY <1>2, SizeApplied
  <2>2. CASE k = row.key
    <3>1. b.rows[j].size = Printed(hist[b.ver].book[l])
      BY <1>6, <1>7, <1>11, <2>2, RowRight
    <3>. QED
      BY <1>6, <2>1, <2>2, <3>1
  <2>3. CASE k # row.key /\ ~FirstOfBatch(next)
    <3>1. next > 1 /\ next - 1 \in DOMAIN file /\ file[next - 1].batch = i
      BY <1>3, <2>3 DEF FirstOfBatch
    <3>2. ~Clears(row)
      <4>1. file[next - 1].ts = row.ts /\ file[next - 1].action = row.action
        BY <1>3, <3>1
      <4>2. next - 1 \in 1..(next - 1)
        BY <1>3, <3>1
      <4>. QED
        BY <1>4, <4>1, <4>2 DEF StartsSnapshot
    <3>3. known' = known
      BY <1>1, <2>3
    <3>4. k \notin ToCome
      <4>1. ASSUME NEW q \in next..Len(file), file[q].batch = i, file[q].key = k PROVE FALSE
        <5>1. q # next
          BY <2>3, <4>1
        <5>2. q \in (next + 1)..Len(file)
          BY <1>3, <5>1
        <5>. QED
          BY <1>11, <4>1, <5>2 DEF Rest
      <4>. QED
        BY <3>1, <4>1 DEF ToCome
    <3>5. SizeIn(book, k) = Printed(hist[VersionRead].book[l])
      BY <1>8, <1>11, <3>1, <3>3, <3>4
    <3>6. VersionRead = b.ver
      BY <3>1 DEF VersionRead
    <3>. QED
      BY <2>1, <2>3, <3>2, <3>5, <3>6
  <2>4. CASE k # row.key /\ FirstOfBatch(next)
    <3>1. k \in KnownAfter(i, Clears(row))
      BY <1>1, <1>11, <2>4
    <3>2. \A q \in DOMAIN file : q < next => file[q].batch < i
      <4>1. ASSUME NEW q \in DOMAIN file, q < next PROVE file[q].batch < i
        <5>1. next # 1 /\ next - 1 \in DOMAIN file /\ q <= next - 1 /\ next - 1 <= next
          BY <1>3, <4>1
        <5>2. /\ file[q].batch <= file[next - 1].batch /\ file[next - 1].batch <= i
              /\ file[next - 1].batch # i
          BY <1>3, <2>4, <5>1 DEF FirstOfBatch
        <5>. QED
          BY <1>3, <5>1, <5>2
      <4>. QED
        BY <4>1
    <3>3. k \notin KeysOf(b)
      <4>1. ASSUME NEW q \in DOMAIN b.rows, b.rows[q].key = k PROVE FALSE
        <5>1. PICK m \in DOMAIN file : file[m].batch = i /\ file[m].key = k
          BY <1>3, <1>5, <4>1
        <5>2. ~(m < next) /\ m # next
          BY <1>3, <2>4, <3>2, <5>1
        <5>3. m \in (next + 1)..Len(file)
          BY <1>3, <5>2
        <5>. QED
          BY <1>11, <5>1, <5>3 DEF Rest
      <4>. QED
        BY <4>1 DEF KeysOf
    <3>4. k \in (IF Clears(row) THEN AllKeys
                 ELSE IF Continues(i) THEN known \ b.gap ELSE {})
      BY <3>1, <3>3 DEF KnownAfter, KeysOf
    <3>5. CASE Clears(row)
      <4>1. b.action = "snapshot"
        BY <1>3, <1>4, <3>5 DEF StartsSnapshot
      <4>2. hist[b.ver].book[l] = 0
        BY <1>5, <3>3, <4>1 DEF BatchFits
      <4>3. SizeIn(start, k) = 0
        BY <3>5 DEF SizeIn, NoLevel
      <4>. QED
        BY <2>1, <2>4, <4>2, <4>3, PrintedType
    <3>6. CASE ~Clears(row)
      <4>1. Continues(i) /\ k \in known /\ k \notin b.gap
        BY <3>4, <3>6
      <4>2. i > 1
        BY <4>1 DEF Continues
      <4>3. next # 1 /\ next > 1 /\ next - 1 \in DOMAIN file /\ i = file[next - 1].batch + 1
        BY <1>3, <2>4, <4>2 DEF FirstOfBatch
      <4>4. file[next - 1].batch = i - 1
        BY <1>3, <4>3
      <4>5. k \notin ToCome
        <5>1. ASSUME NEW q \in next..Len(file), file[q].batch = i - 1 PROVE FALSE
          <6>1. q \in DOMAIN file /\ next <= q
            BY <1>3
          <6>2. i <= i - 1
            BY <1>3, <5>1, <6>1
          <6>. QED
            BY <1>3, <6>2
        <5>. QED
          BY <4>4, <5>1 DEF ToCome
      <4>6. SizeIn(book, k) = Printed(hist[table[i - 1].ver].book[l])
        <5>1. VersionRead = table[i - 1].ver
          BY <4>4 DEF VersionRead
        <5>. QED
          BY <1>8, <1>11, <4>1, <4>3, <4>5, <5>1
      <4>7. hist[table[i - 1].ver].book[l] = hist[b.ver].book[l]
        <5>1. CASE b.action = "update" /\ b.prior = table[i - 1].ver
          BY <1>5, <3>3, <4>1, <5>1 DEF BatchFits
        <5>2. CASE table[i] = table[i - 1]
          BY <5>2
        <5>. QED
          BY <4>1, <5>1, <5>2 DEF Continues
      <4>. QED
        BY <2>1, <2>4, <3>6, <4>6, <4>7
    <3>. QED
      BY <3>5, <3>6
  <2>. QED
    BY <2>2, <2>3, <2>4
<1>12. /\ FileOf(table)' = FileOf(table)
       /\ \A l : Unambiguous(l)' = Unambiguous(l)
  BY <1>1, SameKeys DEF FileOf, Unambiguous
<1> HIDE DEF row, i, b, start
<1>. QED
  BY <1>1, <1>2, <1>3, <1>9, <1>10, <1>11, <1>12, SameKeys DEF Told, EmptyEntry

LEMMA ReadStep ==
  ASSUME ClientInv, ReaderInv, Read
  PROVE  ReaderInv'
<1>1. Carries' /\ Written'
  BY CarriesRead, WrittenRead DEF Read, ReaderInv
<1>. QED
  BY <1>1, TellStep DEF ReaderInv

-----------------------------------------------------------------------------
(***************************************************************************)
(* The invariant is inductive.                                             *)
(***************************************************************************)
LEMMA InitPInv == Init => PInv
  BY ClientInit, ReaderInitial DEF PInv

LEMMA NextPInv == PInv /\ [Next]_vars => PInv'
<1> SUFFICES ASSUME ClientInv, ReaderInv, [Next]_vars PROVE ClientInv' /\ ReaderInv'
  BY DEF PInv
<1>1. ASSUME NEW c \in Changes, NEW later \in {0, 1}, Change(c, later) \/ Reset(c, later)
      PROVE  ClientInv' /\ ReaderInv'
  <2>1. ClientInv'
    BY <1>1, ChangeStep, ResetStep
  <2>2. reader = "idle" /\ UNCHANGED <<readerVars, known, exchange>>
    BY <1>1 DEF Change, Reset, Collecting
  <2>. QED
    BY <2>1, <2>2, ReaderIdle
<1>2. CASE Client \/ Expire
  <2>1. ClientInv'
    <3>1. CASE GoLive
      BY <3>1, ClientRests DEF GoLive
    <3>. QED
      BY <1>2, <3>1, ConnectStep, DisconnectStep, MessageStep, ExpireStep DEF Client
  <2>2. reader = "idle" /\ UNCHANGED <<readerVars, known, exchange>>
    BY <1>2 DEF Client, Expire, Connect, Disconnect, Buffer, GoLive, PersistNothing,
       PersistStored, PersistLost, PersistRepeated, Receive, Collecting
  <2>. QED
    BY <2>1, <2>2, ReaderIdle
<1>3. CASE Export \/ Read \/ ReaderEnds
  <2>1. ReaderInv'
    BY <1>3, ExportStep, ReadStep, ReaderEndsStep
  <2>2. UNCHANGED clientVars
    BY <1>3 DEF Export, Read, ReaderEnds
  <2>3. ClientInv'
    BY <2>2, ClientRests DEF clientVars
  <2>. QED
    BY <2>1, <2>3
<1>4. CASE UNCHANGED vars
  <2>1. ClientInv'
    BY <1>4, ClientRests DEF vars, clientVars
  <2>2. Carries' /\ Written'
    BY <1>4 DEF ReaderInv, Carries, Written, Yieldable, vars, readerVars
  <2>3. UNCHANGED <<exchange, hist, table, file, next, book, known, reader>>
    BY <1>4 DEF vars, clientVars, readerVars
  <2>4. /\ FileOf(table)' = FileOf(table) /\ ToCome' = ToCome /\ VersionRead' = VersionRead
        /\ \A l : Unambiguous(l)' = Unambiguous(l)
    BY <2>3, SameKeys DEF FileOf, ToCome, VersionRead, Unambiguous
  <2>5. Told'
    BY <2>3, <2>4, SameKeys DEF ReaderInv, Told, EmptyEntry
  <2>. QED
    BY <2>1, <2>2, <2>5 DEF ReaderInv
<1>. QED
  BY <1>1, <1>2, <1>3, <1>4 DEF Next

\* What is stored fits the exchange's history, and what the reader carries fits the rows
\* it has read, in every state of every behaviour.
THEOREM Inductive == Spec => []PInv
  BY InitPInv, NextPInv, PTL DEF Spec

-----------------------------------------------------------------------------
(***************************************************************************)
(* What follows from it.                                                   *)
(***************************************************************************)
LEMMA TypeFromInv == PInv => TypeOK
<1> SUFFICES ASSUME PInv PROVE TypeOK
  OBVIOUS
<1> USE DEF PInv, ClientInv, ReaderInv
<1>1. ReaderTypeOK
  BY ReaderTyped
<1>2. \A v \in DOMAIN hist : hist[v].book \in Book /\ hist[v].at \in Nat
  BY VersionType DEF Shape
<1>3. \A i \in DOMAIN socket : socket[i].ver \in DOMAIN hist
  BY DEF SocketFits, Genuine
<1>4. ASSUME NEW i \in DOMAIN table
      PROVE  /\ table[i].rows # <<>> /\ table[i].ver \in DOMAIN hist
             /\ i > 1 => table[i - 1].ts <= table[i].ts
  <2>1. /\ DOMAIN hist = 1..Len(hist) /\ Len(hist) \in Nat /\ last \in 0..Len(hist)
        /\ DOMAIN table = 1..Len(table) /\ Len(table) \in Nat
    BY LenProperties DEF Shape
  <2>2. table[i].rows # <<>> /\ table[i].ver \in 1..last
    BY DEF TableFits, BatchFits
  <2>3. i > 1 => i - 1 \in DOMAIN table /\ i - 1 <= i
    BY <2>1
  <2>4. i > 1 => table[i - 1].ts <= table[i].ts
    BY <2>3 DEF TableFits
  <2>. QED
    BY <2>1, <2>2, <2>4
<1>. QED
  BY <1>1, <1>2, <1>3, <1>4 DEF TypeOK, Shape, Told

\* Every variable of the client, of the table and of the reader has its type: the table
\* is sorted by timestamp and has no empty batch, and the book read back has no key that
\* no row had.
THEOREM TypeCorrect == Spec => []TypeOK
  BY Inductive, TypeFromInv, PTL

\* Whatever table the reader is given, each book it writes is what the rows say at its
\* timestamp, one per timestamp, in order; all of them when it is done, and a beginning
\* of them when it is interrupted.
THEOREM OutputCorrect == Spec => []OutputIsReading
<1>1. PInv => OutputIsReading
  BY OutputFromWritten DEF PInv, ReaderInv
<1>. QED
  BY <1>1, Inductive, PTL

\* A message with a timestamp is not older than any batch.
LEMMA NewestStored ==
  ASSUME PInv, socket # <<>>, RowsOf(Head(socket)) # <<>>, Head(socket).ts # 0,
         UNCHANGED <<exchange, hist>>, last' = Head(socket).ver,
         NEW b, b = BatchOf(Head(socket))
  PROVE  b \in Batches /\ \A i \in DOMAIN table : table[i].ts <= b.ts
<1> USE DEF PInv, ClientInv
<1>1. b \in Batches
  BY BatchOfFits
<1>2. /\ Genuine(Head(socket)) /\ last <= Head(socket).ver /\ Head(socket).ver \in 1..Len(hist)
      /\ Head(socket).ver \in DOMAIN hist /\ DOMAIN hist = 1..Len(hist) /\ Len(hist) \in Nat
      /\ last \in 0..Len(hist) /\ hist \in Seq(Versions) /\ table \in Seq(Batches)
  BY HeadOfSocket, LenProperties DEF Shape
<1>3. b.ts = hist[Head(socket).ver].at /\ b.ts \in Nat
  <2>1. b.ts = Head(socket).ts
    BY DEF BatchOf, StampOf
  <2>. QED
    BY <1>2, <2>1, VersionType DEF Genuine
<1>4. ASSUME NEW i \in DOMAIN table PROVE table[i].ts <= b.ts
  <2>1. table[i].ver \in 1..last /\ table[i].ts \in {0, hist[table[i].ver].at}
    BY DEF TableFits, BatchFits
  <2>2. table[i].ver \in DOMAIN hist /\ table[i].ver <= Head(socket).ver
    BY <1>2, <2>1
  <2>3. hist[table[i].ver].at <= hist[Head(socket).ver].at
    BY <1>2, <2>2 DEF ClockForward
  <2>. QED
    BY <1>3, <2>1, <2>3
<1>. QED
  BY <1>1, <1>4

-----------------------------------------------------------------------------
(***************************************************************************)
(* What the rows tell when nothing went wrong.                             *)
(***************************************************************************)
\* As long as no flush fails, is repeated or expires, and messages have their time,
\* the table is a chain: each batch was stored next after the one before it, and the
\* first tells what it misses.
Timely(t) == \A i \in DOMAIN t : t[i].ts # 0

Chain(t) ==
  /\ t # <<>> => t[1].gap = AllKeys
  /\ \A i \in DOMAIN t : i > 1 => t[i].prior = t[i - 1].ver

Chained ==
  faults = 0 /\ Timely(table) =>
    /\ Chain(table)
    /\ IF table = <<>> THEN gap = AllKeys ELSE last = table[Len(table)].ver

\* The reader then knows every key from its first row on.
KnowsAll == Unbroken /\ next > 1 => AllKeys \subseteq known

LEMMA ChainRests ==
  ASSUME Chained, UNCHANGED <<exchange, table, faults, last>>,
         gap \subseteq gap', gap' \subseteq AllKeys
  PROVE  Chained'
<1>1. AllKeys' = AllKeys /\ Timely(table)' = Timely(table) /\ Chain(table)' = Chain(table)
  BY SameKeys DEF Chain, Timely
<1>2. gap = AllKeys => gap' = AllKeys
  OBVIOUS
<1>3. ASSUME faults = 0, Timely(table)
      PROVE  Chain(table) /\ IF table = <<>> THEN gap' = AllKeys ELSE last = table[Len(table)].ver
  BY <1>2, <1>3 DEF Chained
<1>4. ASSUME faults' = 0, Timely(table)'
      PROVE  Chain(table)' /\ IF table' = <<>> THEN gap' = AllKeys' ELSE last' = table'[Len(table')].ver
  BY <1>1, <1>3, <1>4
<1>. QED
  BY <1>4 DEF Chained

\* A batch with a timestamp comes last, and continues the chain.
LEMMA ChainGrows ==
  ASSUME PInv, Chained, PersistStored
  PROVE  Chained'
<1> USE DEF PInv, ClientInv
<1>1. PICK b : b = BatchOf(Head(socket))
  OBVIOUS
<1>2. /\ socket # <<>> /\ RowsOf(Head(socket)) # <<>> /\ table' = Insert(table, b)
      /\ last' = Head(socket).ver /\ UNCHANGED <<exchange, hist, faults>>
  BY <1>1 DEF PersistStored, Receive
<1>3. /\ b \in Batches /\ b.ts = Head(socket).ts /\ b.ver = Head(socket).ver
      /\ b.prior = last /\ b.gap = gap
  BY <1>1, <1>2, BatchOfFits DEF BatchOf, StampOf
<1>4. /\ table \in Seq(Batches) /\ Len(table) \in Nat /\ DOMAIN table = 1..Len(table)
      /\ \A i, j \in DOMAIN table : i <= j => table[i].ts <= table[j].ts
  BY LenProperties DEF Shape, TableFits
<1> SUFFICES ASSUME faults = 0, Timely(table)'
             PROVE  Chain(table)' /\ table' # <<>> /\ last' = table'[Len(table')].ver
  BY <1>2 DEF Chained
<1>5. b.ts # 0
  <2>1. \E i \in DOMAIN table' : table'[i] = b
    BY <1>2, <1>3, <1>4, InsertFacts
  <2>. QED
    BY <2>1 DEF Timely
<1>6. table' = Append(table, b)
  <2>1. \A i \in DOMAIN table : table[i].ts <= b.ts
    BY <1>1, <1>2, <1>3, <1>5, NewestStored
  <2>. QED
    BY <1>2, <1>3, <1>4, <2>1, InsertFacts
<1>7. /\ Len(table') = Len(table) + 1 /\ DOMAIN table' = 1..(Len(table) + 1)
      /\ \A i \in 1..Len(table) : table'[i] = table[i]
      /\ table'[Len(table) + 1] = b /\ table' # <<>>
  <2>1. /\ Append(table, b) \in Seq(Batches) /\ Len(Append(table, b)) = Len(table) + 1
        /\ \A i \in 1..Len(table) : Append(table, b)[i] = table[i]
        /\ Append(table, b)[Len(table) + 1] = b
    BY <1>3, <1>4, AppendProperties
  <2>2. table' \in Seq(Batches) /\ Len(table') # 0
    BY <1>4, <1>6, <2>1
  <2>3. DOMAIN table' = 1..Len(table') /\ table' # <<>>
    BY <2>2, LenProperties
  <2>. QED
    BY <1>6, <2>1, <2>3
<1>8. /\ Chain(table)
      /\ IF table = <<>> THEN gap = AllKeys ELSE last = table[Len(table)].ver
  <2>1. Timely(table)
    BY <1>4, <1>7 DEF Timely
  <2>. QED
    BY <2>1 DEF Chained
<1>9. table'[1].gap = AllKeys'
  <2>1. AllKeys' = AllKeys
    BY <1>2, SameKeys
  <2>2. CASE table = <<>>
    <3>1. Len(table) = 0
      BY <2>2, EmptySeq
    <3>2. table'[1] = b
      BY <1>7, <3>1
    <3>. QED
      BY <1>3, <1>8, <2>1, <2>2, <3>2
  <2>3. CASE table # <<>>
    <3>1. 1 \in 1..Len(table)
      BY <1>4, <2>3, EmptySeq
    <3>. QED
      BY <1>7, <1>8, <2>1, <2>3, <3>1 DEF Chain
  <2>. QED
    BY <2>2, <2>3
<1>10. ASSUME NEW i \in DOMAIN table', i > 1 PROVE table'[i].prior = table'[i - 1].ver
  <2>1. i - 1 \in 1..Len(table) /\ table # <<>> /\ table'[i - 1] = table[i - 1]
    <3>1. i - 1 \in 1..Len(table)
      BY <1>4, <1>7, <1>10
    <3>. QED
      BY <1>7, <3>1, EmptySeq
  <2>2. CASE i = Len(table) + 1
    <3>1. i - 1 = Len(table) /\ table'[i] = b
      BY <1>4, <1>7, <2>2
    <3>. QED
      BY <1>3, <1>8, <2>1, <3>1
  <2>3. CASE i # Len(table) + 1
    <3>1. i \in 1..Len(table) /\ i \in DOMAIN table
      BY <1>4, <1>7, <2>3
    <3>. QED
      BY <1>7, <1>8, <1>10, <2>1, <3>1 DEF Chain
  <2>. QED
    BY <2>2, <2>3
<1>. QED
  BY <1>3, <1>2, <1>7, <1>9, <1>10 DEF Chain

LEMMA ChainedNext ==
  ASSUME PInv, Chained, [Next]_vars
  PROVE  Chained'
<1>1. /\ gap \subseteq AllKeys /\ (gap \subseteq AllKeys)'
      /\ faults \in Nat
  BY NextPInv DEF PInv, ClientInv, Shape
<1>2. CASE UNCHANGED <<exchange, table, faults, last>> /\ (gap' = gap \/ gap' = AllKeys)
  <2>1. gap \subseteq AllKeys /\ AllKeys' = AllKeys
    BY <1>1, <1>2, SameKeys
  <2>. QED
    BY <1>2, <2>1, ChainRests
<1>3. CASE Buffer \/ PersistNothing
  <2>1. UNCHANGED <<exchange, table, faults, last>> /\ gap \subseteq gap'
    BY <1>3 DEF Buffer, PersistNothing
  <2>2. gap' \subseteq AllKeys
    BY <1>1, <2>1, SameKeys
  <2>. QED
    BY <2>1, <2>2, ChainRests
<1>4. CASE PersistLost \/ PersistRepeated \/ Expire
  <2>1. faults' # 0
    BY <1>1, <1>4 DEF PersistLost, PersistRepeated, Expire, Fault
  <2>. QED
    BY <2>1 DEF Chained
<1>5. CASE \E c \in Changes : \E later \in {0, 1} : Change(c, later) \/ Reset(c, later)
  BY <1>2, <1>5 DEF Change, Reset
<1>6. CASE Connect \/ Disconnect \/ GoLive \/ Export \/ Read \/ ReaderEnds \/ UNCHANGED vars
  BY <1>2, <1>6 DEF Connect, Disconnect, GoLive, Export, Read, ReaderEnds, vars, clientVars
<1>. QED
  BY <1>3, <1>4, <1>5, <1>6, ChainGrows DEF Next, Client

\* The row that begins a batch: it clears the book, or continues the one before it.
LEMMA KnowsAllRead ==
  ASSUME PInv, Chained, KnowsAll, Read
  PROVE  KnowsAll'
<1> USE DEF PInv, ClientInv, ReaderInv
<1> DEFINE row == file[next]
           i == row.batch
<1>1. /\ ReadRow
      /\ known' = IF FirstOfBatch(next) THEN KnownAfter(i, Clears(row)) ELSE known
      /\ UNCHANGED <<exchange, table, faults, gap, last>>
      /\ reader # "idle" /\ next <= Len(file)
  BY DEF Read, ReadRow, clientVars
<1>2. AllKeys' = AllKeys /\ Unbroken' = Unbroken
  BY <1>1, SameKeys DEF Unbroken
<1> SUFFICES ASSUME Unbroken PROVE AllKeys \subseteq known'
  BY <1>2 DEF KnowsAll
<1>3. /\ next \in DOMAIN file /\ next \in Nat /\ next > 0
      /\ next # 1 => next - 1 \in DOMAIN file
      /\ Clears(row) <=> StartsSnapshot(file, next)
  BY <1>1, RowSeen
<1>4. /\ table \in Seq(Batches) /\ \A n \in DOMAIN table : table[n].rows # <<>>
      /\ Len(table) \in Nat /\ DOMAIN table = 1..Len(table) /\ file = FileOf(table)
      /\ file \in Seq(FileRows) /\ Len(file) \in Nat /\ DOMAIN file = 1..Len(file)
      /\ \A n \in DOMAIN file : file[n].batch \in Nat
  <2>1. file \in Seq(FileRows) /\ table \in Seq(Batches)
    BY DEF Carries, Shape
  <2>. QED
    BY <1>1, <2>1, RowType, LenProperties DEF Told, TableFits, BatchFits
<1>5. /\ \A n \in DOMAIN file : /\ file[n].batch \in DOMAIN table
                                /\ file[n].ts = table[file[n].batch].ts
                                /\ file[n].action = table[file[n].batch].action
      /\ \A n, m \in DOMAIN file : n <= m => file[n].batch <= file[m].batch
      /\ \A n \in DOMAIN file : n = 1 => file[n].batch = 1
  BY <1>4, FileFacts
<1>6. CASE ~FirstOfBatch(next)
  <2>1. next > 1
    BY <1>3, <1>6 DEF FirstOfBatch
  <2>. QED
    BY <1>1, <1>6, <2>1 DEF KnowsAll
<1>7. CASE FirstOfBatch(next) /\ Clears(row)
  BY <1>1, <1>7 DEF KnownAfter
<1>8. CASE FirstOfBatch(next) /\ ~Clears(row)
  <2>1. known' = {table[i].rows[j].key : j \in DOMAIN table[i].rows}
                   \cup (IF Continues(i) THEN known \ table[i].gap ELSE {})
    BY <1>1, <1>8 DEF KnownAfter
  <2>2. i \in DOMAIN table /\ i \in Nat
    BY <1>3, <1>4, <1>5
  <2>3. row.action # "snapshot"
    <3>1. SUFFICES ASSUME row.action = "snapshot" PROVE FALSE
      OBVIOUS
    <3>2. PICK j \in 1..(next - 1) : file[j].ts = row.ts /\ file[j].action = "snapshot"
      BY <1>3, <1>8, <3>1 DEF StartsSnapshot
    <3>3. j \in DOMAIN file /\ next # 1 /\ next - 1 \in DOMAIN file
          /\ j <= next - 1 /\ next - 1 <= next
      BY <1>3, <1>4, <3>2
    <3>4. file[j].batch = i
      BY <1>3, <1>5, <3>1, <3>2, <3>3 DEF Unbroken
    <3>5. file[next - 1].batch # i
      BY <1>8, <3>3 DEF FirstOfBatch
    <3>6. file[j].batch <= file[next - 1].batch /\ file[next - 1].batch <= i
      BY <1>3, <1>5, <3>3
    <3>. QED
      BY <1>4, <2>2, <3>3, <3>4, <3>5, <3>6
  <2>4. table[i].action = "update" /\ table[i].gap = {}
    <3>1. table[i].action # "snapshot"
      BY <1>3, <1>5, <2>3
    <3>2. table[i].action \in {"snapshot", "update"}
      BY <1>4, <2>2, BatchType
    <3>. QED
      BY <2>2, <3>1, <3>2 DEF Unbroken
  <2>5. Chain(table) /\ table # <<>>
    <3>1. faults = 0 /\ Timely(table)
      BY DEF Unbroken, Timely
    <3>2. table # <<>>
      BY <1>4, <2>2, EmptySeq
    <3>. QED
      BY <3>1, <3>2 DEF Chained
  <2>6. CASE i = 1
    BY <2>4, <2>5, <2>6 DEF Chain
  <2>7. CASE i # 1
    <3>1. i > 1
      BY <1>4, <2>2, <2>7
    <3>2. Continues(i)
      BY <2>2, <2>4, <2>5, <3>1 DEF Continues, Chain
    <3>3. next > 1
      BY <1>3, <1>5, <2>7
    <3>4. known \subseteq known'
      BY <2>1, <2>4, <3>2
    <3>. QED
      BY <3>3, <3>4 DEF KnowsAll
  <2>. QED
    BY <2>6, <2>7
<1>. QED
  BY <1>6, <1>7, <1>8

LEMMA KnowsAllNext ==
  ASSUME PInv, Chained, KnowsAll, [Next]_vars
  PROVE  KnowsAll'
<1>1. CASE reader = "idle" /\ UNCHANGED next
  <2>1. next = 1
    BY <1>1 DEF PInv, ReaderInv, Carries
  <2>. QED
    BY <1>1, <2>1 DEF KnowsAll
<1>2. CASE ReaderEnds \/ UNCHANGED vars
  <2>1. UNCHANGED <<exchange, table, faults, next, known>>
    BY <1>2 DEF ReaderEnds, Finish, Interrupt, vars, clientVars, readerVars
  <2>2. AllKeys' = AllKeys /\ Unbroken' = Unbroken
    BY <2>1, SameKeys DEF Unbroken
  <2>. QED
    BY <2>1, <2>2 DEF KnowsAll
<1>3. CASE \E c \in Changes : \E later \in {0, 1} : Change(c, later) \/ Reset(c, later)
  BY <1>1, <1>3 DEF Change, Reset, Collecting, readerVars
<1>4. CASE Client \/ Expire \/ Export
  BY <1>1, <1>4 DEF Client, Expire, Export, Connect, Disconnect, Buffer, GoLive, PersistNothing,
     PersistStored, PersistLost, PersistRepeated, Receive, Collecting, readerVars
<1>. QED
  BY <1>2, <1>3, <1>4, KnowsAllRead DEF Next

\* The rows chain, and the reader knows every key, in every state of a behaviour.
THEOREM ChainInductive == Spec => [](PInv /\ Chained /\ KnowsAll)
<1>1. Init => Chained /\ KnowsAll
  BY EmptySeq DEF Init, ReaderInit, Chained, Chain, KnowsAll
<1>2. PInv /\ Chained /\ KnowsAll /\ [Next]_vars => Chained' /\ KnowsAll'
  BY ChainedNext, KnowsAllNext
<1>. QED
  BY <1>1, <1>2, Inductive, PTL DEF Spec

LEMMA ReadBackFromInv == PInv /\ KnowsAll => ReadBack
<1> SUFFICES ASSUME PInv, KnowsAll, AtBoundary PROVE ReadBack
  BY DEF ReadBack
<1> USE DEF PInv, ClientInv, ReaderInv
<1>1. /\ file \in Seq(FileRows) /\ next \in 1..(Len(file) + 1)
      /\ book = LastWords(file, Counting(file, 1..(next - 1)))
      /\ next > 1 /\ (next <= Len(file) => FirstOfBatch(next))
  BY DEF Carries, AtBoundary
<1>2. /\ Len(file) \in Nat /\ DOMAIN file = 1..Len(file) /\ next \in Nat
      /\ next - 1 \in DOMAIN file
      /\ 1..(next - 1) \in SUBSET DOMAIN file
  <2>1. Len(file) \in Nat /\ DOMAIN file = 1..Len(file)
    BY <1>1, LenProperties
  <2>. QED
    BY <1>1, <2>1
<1>3. file = FileOf(table)
  <2>1. file # <<>>
    BY <1>2
  <2>. QED
    BY <2>1 DEF Carries, Told
<1>4. /\ \A n \in DOMAIN file :
           /\ file[n].batch \in DOMAIN table
           /\ file[n].action = table[file[n].batch].action
           /\ \E j \in DOMAIN table[file[n].batch].rows :
                 /\ file[n].key = table[file[n].batch].rows[j].key
                 /\ file[n].size = table[file[n].batch].rows[j].size
      /\ \A n, m \in DOMAIN file : n <= m => file[n].batch <= file[m].batch
      /\ \A n \in DOMAIN file : file[n].batch \in Nat
  <2>1. table \in Seq(Batches) /\ \A i \in DOMAIN table : table[i].rows # <<>>
    BY DEF Shape, TableFits, BatchFits
  <2>2. \A n \in DOMAIN file : file[n].batch \in Nat
    BY <1>1, RowType
  <2>. QED
    BY <1>3, <2>1, <2>2, FileFacts
<1>5. ToCome = {}
  <2>1. ASSUME NEW j \in next..Len(file), file[j].batch = file[next - 1].batch PROVE FALSE
    <3>1. next <= Len(file) /\ next \in DOMAIN file /\ j \in DOMAIN file /\ next <= j
          /\ next - 1 <= next
      BY <1>1, <1>2
    <3>2. file[next].batch # file[next - 1].batch
      BY <1>1, <3>1 DEF FirstOfBatch
    <3>3. file[next - 1].batch <= file[next].batch /\ file[next].batch <= file[j].batch
      BY <1>2, <1>4, <3>1
    <3>. QED
      BY <1>2, <1>4, <2>1, <3>1, <3>2, <3>3
  <2>. QED
    BY <2>1 DEF ToCome
<1>6. \A l \in Level : Unambiguous(l) /\ (KeyOf(l) \in known \/ Unbroken) =>
        SizeIn(book, KeyOf(l)) = Printed(hist[VersionRead].book[l])
  <2>1. Unbroken => \A l \in Level : KeyOf(l) \in known
    BY <1>1 DEF KnowsAll, AllKeys
  <2>. QED
    BY <1>1, <1>5, <2>1 DEF Told
<1>7. ASSUME NEW k \in DOMAIN book
      PROVE  /\ k \in AllKeys
             /\ book[k] = 0 => \E i \in 1..(next - 1) : /\ file[i].action = "snapshot"
                                                        /\ file[i].key = k /\ file[i].size = 0
  <2>1. Counting(file, 1..(next - 1)) \in SUBSET DOMAIN file
    BY <1>2 DEF Counting
  <2>2. PICK i \in Counting(file, 1..(next - 1)) :
          /\ file[i].key = k /\ file[i].size = book[k]
          /\ file[i].action = "snapshot" \/ file[i].size # 0
    BY <1>1, <2>1, WordsTold
  <2>3. i \in 1..(next - 1) /\ i \in DOMAIN file
    BY <1>2, <2>2 DEF Counting
  <2>4. PICK j \in DOMAIN table[file[i].batch].rows :
          /\ file[i].key = table[file[i].batch].rows[j].key
          /\ file[i].size = table[file[i].batch].rows[j].size
    BY <1>4, <2>3
  <2> DEFINE b == table[file[i].batch]
  <2>5. RowFits(b, b.rows[j]) /\ file[i].action = b.action
    BY <1>4, <2>3 DEF TableFits, BatchFits
  <2>6. ~(b.rows[j] = EmptyEntry /\ b.action = "update")
    BY <2>2, <2>4, <2>5 DEF EmptyEntry
  <2>7. \E l \in Level : b.rows[j].key = KeyOf(l)
    BY <2>5, <2>6 DEF RowFits
  <2>. QED
    BY <2>2, <2>3, <2>4, <2>7 DEF AllKeys
<1>. QED
  BY <1>6, <1>7 DEF ReadBack

\* Between two batches the book read back is the exchange's of that time on every level
\* the rows tell of, over any lost, repeated, expired and unstamped batches,
\* reconnects, snapshots of one timestamp and rounding of the numbers; and on every
\* level when nothing went wrong.
THEOREM ReadBackHolds == Spec => []ReadBack
  BY ChainInductive, ReadBackFromInv, PTL

\* Rows of a later time do not change what the rows before them say.
LEMMA BookStays ==
  ASSUME NEW rows \in Seq(FileRows), NEW more \in Seq(FileRows), NEW t \in Nat,
         \A j \in DOMAIN more : t < more[j].ts
  PROVE  BookAt(rows \o more, t) = BookAt(rows, t)
<1> DEFINE long == rows \o more
           R == {i \in DOMAIN rows : rows[i].ts <= t}
           C == Counting(rows, R)
<1>1. /\ long \in Seq(FileRows) /\ Len(rows) \in Nat /\ Len(more) \in Nat
      /\ DOMAIN rows = 1..Len(rows) /\ DOMAIN more = 1..Len(more)
      /\ DOMAIN long = 1..(Len(rows) + Len(more))
      /\ \A i \in DOMAIN rows : i \in DOMAIN long /\ long[i] = rows[i]
      /\ \A i \in DOMAIN long \ DOMAIN rows : \E j \in DOMAIN more : long[i] = more[j]
  <2>1. /\ long \in Seq(FileRows) /\ Len(long) = Len(rows) + Len(more)
        /\ \A i \in 1..(Len(rows) + Len(more)) :
             long[i] = IF i <= Len(rows) THEN rows[i] ELSE more[i - Len(rows)]
    BY ConcatProperties
  <2>2. /\ Len(rows) \in Nat /\ Len(more) \in Nat
        /\ DOMAIN rows = 1..Len(rows) /\ DOMAIN more = 1..Len(more)
    BY LenProperties
  <2> HIDE DEF long
  <2>3. DOMAIN long = 1..(Len(rows) + Len(more))
    BY <2>1, LenProperties
  <2>4. ASSUME NEW i \in DOMAIN rows PROVE i \in DOMAIN long /\ i <= Len(rows)
    BY <2>2, <2>3
  <2>5. \A i \in DOMAIN rows : i \in DOMAIN long /\ long[i] = rows[i]
    BY <2>1, <2>3, <2>4
  <2>6. ASSUME NEW i \in DOMAIN long \ DOMAIN rows
        PROVE  i - Len(rows) \in DOMAIN more /\ ~(i <= Len(rows))
    BY <2>2, <2>3
  <2>7. \A i \in DOMAIN long \ DOMAIN rows : \E j \in DOMAIN more : long[i] = more[j]
    BY <2>1, <2>3, <2>6
  <2>. QED
    BY <2>1, <2>2, <2>3, <2>5, <2>7
<1> HIDE DEF long
<1>2. {i \in DOMAIN long : long[i].ts <= t} = R
  <2>1. ASSUME NEW i \in DOMAIN long, long[i].ts <= t PROVE i \in DOMAIN rows
    <3> SUFFICES ASSUME i \notin DOMAIN rows PROVE FALSE
      OBVIOUS
    <3>1. PICK j \in DOMAIN more : long[i] = more[j]
      BY <1>1
    <3>2. more[j].ts \in Nat /\ t < more[j].ts
      BY RowType
    <3>. QED
      BY <2>1, <3>1, <3>2
  <2>. QED
    BY <1>1, <2>1
<1>3. \A i \in R : StartsSnapshot(long, i) <=> StartsSnapshot(rows, i)
  <2>1. ASSUME NEW i \in R PROVE StartsSnapshot(long, i) <=> StartsSnapshot(rows, i)
    <3>1. i \in DOMAIN rows /\ \A j \in 1..(i - 1) : j \in DOMAIN rows
      BY <1>1
    <3>2. long[i] = rows[i] /\ \A j \in 1..(i - 1) : long[j] = rows[j]
      BY <1>1, <3>1
    <3>. QED
      BY <3>2 DEF StartsSnapshot
  <2>. QED
    BY <2>1
<1>4. Counting(long, R) = C
  <2>1. {j \in R : StartsSnapshot(long, j)} = {j \in R : StartsSnapshot(rows, j)}
    BY <1>3
  <2> HIDE DEF R
  <2>. QED
    BY <2>1 DEF Counting
<1>5. C \in SUBSET DOMAIN rows
  BY DEF Counting
<1> HIDE DEF C, R
<1>6. \A i \in C : long[i] = rows[i]
  BY <1>1, <1>5
<1>7. ASSUME NEW k \in {rows[i].key : i \in C} PROVE LastOn(long, C, k) = LastOn(rows, C, k)
  <2>1. PICK i \in C : /\ rows[i].key = k
                       /\ LastOn(rows, C, k) = rows[i]
                       /\ Largest({j \in C : rows[j].key = k}) = i
    <3>1. k \in {rows[i].key : i \in C}
      BY <1>7
    <3>. QED
      BY <1>5, <3>1, LastOnIs, Zenon
  <2>2. {j \in C : long[j].key = k} = {j \in C : rows[j].key = k}
    BY <1>6
  <2>. QED
    BY <1>6, <2>1, <2>2 DEF LastOn
<1>8. {long[i].key : i \in C} = {rows[i].key : i \in C}
  BY <1>6
<1>9. LastWords(long, C) = LastWords(rows, C)
  <2> DEFINE K == {rows[i].key : i \in C}
             there(r) == {k \in K : \/ LastOn(r, C, k).action = "snapshot"
                                    \/ LastOn(r, C, k).size # 0}
  <2>1. /\ LastWords(long, C) = [k \in there(long) |-> LastOn(long, C, k).size]
        /\ LastWords(rows, C) = [k \in there(rows) |-> LastOn(rows, C, k).size]
    BY <1>8 DEF LastWords
  <2>2. \A k \in K : LastOn(long, C, k) = LastOn(rows, C, k)
    BY <1>7
  <2> HIDE DEF K
  <2>3. there(long) = there(rows) /\ there(rows) \subseteq K
    BY <2>2
  <2> HIDE DEF there
  <2>. QED
    BY <2>1, <2>2, <2>3
<1>. QED
  BY <1>2, <1>4, <1>9 DEF BookAt, R, C, long

\* A batch that comes last settles nothing before its time anew.
LEMMA AppendSettles ==
  ASSUME NEW tab \in Seq(Batches), NEW b \in Batches, NEW t \in Nat, t < b.ts
  PROVE  BookAt(FileOf(Append(tab, b)), t) = BookAt(FileOf(tab), t)
<1> DEFINE u == Append(tab, b)
           more == RowsIn(u, Len(tab) + 1)
<1>1. u \in Seq(Batches) /\ Len(tab) + 1 \in DOMAIN u /\ u[Len(tab) + 1] = b
  <2>1. /\ u \in Seq(Batches) /\ Len(u) = Len(tab) + 1 /\ u[Len(tab) + 1] = b
        /\ Len(tab) \in Nat
    BY AppendProperties, LenProperties
  <2> HIDE DEF u
  <2>2. DOMAIN u = 1..Len(u)
    BY <2>1, LenProperties
  <2>. QED
    BY <2>1, <2>2
<1>2. FileOf(u) = FileOf(tab) \o more
  BY FileOfAppend
<1>3. FileOf(tab) \in Seq(FileRows)
  BY FileLists DEF Lists
<1> HIDE DEF u
<1>4. more \in Seq(FileRows) /\ DOMAIN more = DOMAIN b.rows
  BY <1>1, RowsInType
<1>5. \A j \in DOMAIN more : more[j].ts = b.ts
  BY <1>1, <1>4, RowOfBatch
<1> HIDE DEF more
<1>6. BookAt(FileOf(tab) \o more, t) = BookAt(FileOf(tab), t)
  BY <1>3, <1>4, <1>5, BookStays
<1>. QED
  BY <1>2, <1>6 DEF u

\* Only a message that is stored changes the table while one is read; with a
\* timestamp it is not older than any batch.
LEMMA StoredIsNewest ==
  ASSUME PInv, [Next]_vars, Receive, Head(socket).ts # 0, table' # table,
         NEW b, b = BatchOf(Head(socket))
  PROVE  /\ b \in Batches /\ \A i \in DOMAIN table : table[i].ts <= b.ts
         /\ \/ table' = Insert(table, b)
            \/ table' = Insert(Insert(table, b), b)
<1> USE DEF PInv, ClientInv
<1>1. PersistStored \/ PersistRepeated
  <2>1. Len(socket') # Len(socket)
    <3>1. socket \in Seq(Messages) /\ socket # <<>> /\ socket' = Tail(socket)
      BY DEF Shape, Receive
    <3>2. Len(socket') = Len(socket) - 1 /\ Len(socket) \in Nat
      BY <3>1, HeadTailProperties, LenProperties
    <3>. QED
      BY <3>2
  <2>2. ~Expire /\ ~UNCHANGED vars
    BY <2>1 DEF Expire, vars, clientVars
  <2>3. \A c \in Changes : \A later \in {0, 1} : ~Change(c, later) /\ ~Reset(c, later)
    BY DEF Change, Reset
  <2>. QED
    BY <2>2, <2>3 DEF Next, Client, Connect, Disconnect, Buffer, GoLive, PersistNothing,
       PersistLost, Export, Read, ReaderEnds, clientVars
<1>2. /\ RowsOf(Head(socket)) # <<>> /\ socket # <<>> /\ last' = Head(socket).ver
      /\ UNCHANGED <<exchange, hist>>
      /\ \/ table' = Insert(table, b)
         \/ table' = Insert(Insert(table, b), b)
  BY <1>1 DEF PersistStored, PersistRepeated, Receive
<1>3. b \in Batches /\ \A i \in DOMAIN table : table[i].ts <= b.ts
  BY <1>2, NewestStored
<1>. QED
  BY <1>2, <1>3

LEMMA SettledStep ==
  ASSUME PInv, [Next]_vars, Receive, Head(socket).ts # 0, table' # table,
         NEW t \in {table[i].ts : i \in DOMAIN table}, t < table[Len(table)].ts
  PROVE  BookAt(FileOf(table'), t) = BookAt(FileOf(table), t)
<1>1. PICK b : b = BatchOf(Head(socket))
  OBVIOUS
<1>2. /\ b \in Batches /\ \A i \in DOMAIN table : table[i].ts <= b.ts
      /\ \/ table' = Insert(table, b)
         \/ table' = Insert(Insert(table, b), b)
  BY <1>1, StoredIsNewest
<1>3. /\ table \in Seq(Batches) /\ Len(table) \in Nat /\ DOMAIN table = 1..Len(table)
      /\ \A i, j \in DOMAIN table : i <= j => table[i].ts <= table[j].ts
      /\ \A i \in DOMAIN table : table[i].ts \in Nat
      /\ b.ts \in Nat
  BY <1>2, BatchType, LenProperties DEF PInv, ClientInv, Shape, TableFits, Batches
<1>4. t \in Nat /\ t < b.ts
  <2>1. PICK i \in DOMAIN table : t = table[i].ts
    OBVIOUS
  <2>2. Len(table) \in DOMAIN table
    BY <1>3, <2>1
  <2>. QED
    BY <1>2, <1>3, <2>1, <2>2
<1>5. Insert(table, b) = Append(table, b)
  BY <1>2, <1>3, InsertFacts
<1> DEFINE one == Append(table, b)
<1>6. /\ one \in Seq(Batches)
      /\ \A i, j \in DOMAIN one : i <= j => one[i].ts <= one[j].ts
      /\ \A i \in DOMAIN one : one[i].ts <= b.ts
  <2>1. /\ one \in Seq(Batches)
        /\ \A i \in DOMAIN one : one[i] = b \/ \E j \in DOMAIN table : one[i] = table[j]
        /\ \A i, j \in DOMAIN one : i <= j => one[i].ts <= one[j].ts
    BY <1>2, <1>3, <1>5, InsertFacts
  <2> HIDE DEF one
  <2>. QED
    BY <1>2, <1>3, <2>1
<1>7. BookAt(FileOf(one), t) = BookAt(FileOf(table), t)
  BY <1>2, <1>3, <1>4, AppendSettles
<1> HIDE DEF one
<1>8. Insert(one, b) = Append(one, b)
  BY <1>2, <1>6, InsertFacts
<1>9. BookAt(FileOf(Append(one, b)), t) = BookAt(FileOf(one), t)
  BY <1>2, <1>4, <1>6, AppendSettles
<1>. QED
  BY <1>2, <1>5, <1>7, <1>8, <1>9 DEF one

\* What the table says of a time before its newest stays as it is, however many
\* messages with a timestamp are stored, once or twice, on this connection or the next.
THEOREM PastSettledHolds == Spec => PastIsSettled
<1>1. PInv /\ [Next]_vars =>
        [(Receive /\ Head(socket).ts # 0 /\ table' # table) =>
           \A t \in {table[i].ts : i \in DOMAIN table} :
             t < table[Len(table)].ts => BookAt(FileOf(table'), t) = BookAt(FileOf(table), t)]_vars
  BY SettledStep
<1>. QED
  BY <1>1, Inductive, PTL DEF Spec, PastIsSettled
=============================================================================
