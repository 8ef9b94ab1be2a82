------------------------- MODULE BitstampFeedProofs -------------------------
(***************************************************************************)
(* Proofs about BitstampFeed, for every set of prices, every filter and    *)
(* depth, every set of diffs and every bound.                              *)
(***************************************************************************)
EXTENDS BitstampFeed, LobFilterProofs

-----------------------------------------------------------------------------
(***************************************************************************)
(* The operators of BitstampBook, for every filter and every depth.        *)
(***************************************************************************)
\* What the filter keeps of a batch is some of its positions.
LEMMA FilterDiffType ==
  ASSUME NEW s, NEW lv, NEW l
  PROVE  FilterDiff(s, lv, l) \in SUBSET DOMAIN l
  BY DEF FilterDiff

-----------------------------------------------------------------------------
\* A wide window keeps every entry of a diff.
LEMMA WideKeepsDiff ==
  ASSUME AdmitsAll, NEW s \in Sides, NEW lv \in Levels, NEW l \in Seq(Entry)
  PROVE  FilterDiff(s, lv, l) = DOMAIN l
<1>1. Best(s, lv) \subseteq Prices
  BY DEF Best, Listed
<1>2. ASSUME NEW i \in DOMAIN l
      PROVE  i \in FilterDiff(s, lv, l)
  <2>1. \A b \in Best(s, lv) : WithinPct(s, LevelFilter.n, b, l[i].price)
    BY <1>1, EntryType DEF AdmitsAll
  <2>. QED
    BY <2>1 DEF FilterDiff, ShouldInclude, AdmitsAll
<1>. QED
  BY <1>2 DEF FilterDiff

\* Every filter but a narrow window keeps the entries of levels in the book.
LEMMA UpdatesPass ==
  ASSUME KeepsUpdates,
         NEW s \in Sides, NEW lv \in Levels, NEW l \in Seq(Entry),
         NEW i \in DOMAIN l, l[i].price \in Listed(lv)
  PROVE  i \in FilterDiff(s, lv, l)
<1>1. CASE LevelFilter.kind = "MaxLevel"
  BY <1>1 DEF FilterDiff, ShouldInclude
<1>2. CASE AdmitsAll
  BY <1>2, WideKeepsDiff
<1>. QED
  BY <1>1, <1>2 DEF KeepsUpdates

\* One diff, applied to a level of the exchange's book (hv) and of the
\* client's (lv).  A level it does not touch stays in both.  A level it touches
\* gets the same size in both: always if nothing is filtered, and if it is in
\* the client's book afterwards when every update passes the filter.  Whatever
\* the filter, a level it removes is gone from both.
LEMMA DiffStep ==
  ASSUME NEW s \in Sides, NEW lv \in Levels, NEW hv \in Levels,
         NEW l \in Seq(Entry), DistinctPrices(l), NEW p \in Prices
  PROVE  /\ ~Touches(l, DOMAIN l, p) =>
              /\ Upsert(hv, l, DOMAIN l)[p] = hv[p]
              /\ Upsert(lv, l, FilterDiff(s, lv, l))[p] = lv[p]
         /\ (AdmitsAll /\ Touches(l, DOMAIN l, p)) =>
              Upsert(lv, l, FilterDiff(s, lv, l))[p] = Upsert(hv, l, DOMAIN l)[p]
         /\ (/\ KeepsUpdates /\ Touches(l, DOMAIN l, p)
             /\ Upsert(lv, l, FilterDiff(s, lv, l))[p] # 0) =>
              Upsert(lv, l, FilterDiff(s, lv, l))[p] = Upsert(hv, l, DOMAIN l)[p]
         /\ (/\ Touches(l, DOMAIN l, p)
             /\ Upsert(lv, l, FilterDiff(s, lv, l))[p] # 0) =>
              Upsert(hv, l, DOMAIN l)[p] # 0
<1> DEFINE K == FilterDiff(s, lv, l)
<1>1. K \in SUBSET DOMAIN l /\ DOMAIN l \in SUBSET DOMAIN l
  BY FilterDiffType
<1>2. ~Touches(l, DOMAIN l, p) => ~Touches(l, K, p)
  BY <1>1 DEF Touches
<1>3. /\ \A i \in DOMAIN l : l[i].price = p =>
            Upsert(hv, l, DOMAIN l)[p] = l[i].amount
      /\ ~Touches(l, DOMAIN l, p) => Upsert(hv, l, DOMAIN l)[p] = hv[p]
  BY <1>1, UpsertAt
<1>4. /\ \A i \in K : l[i].price = p => Upsert(lv, l, K)[p] = l[i].amount
      /\ ~Touches(l, K, p) => Upsert(lv, l, K)[p] = lv[p]
  BY <1>1, UpsertAt
<1>5. ASSUME Touches(l, DOMAIN l, p), AdmitsAll
      PROVE  Upsert(lv, l, K)[p] = Upsert(hv, l, DOMAIN l)[p]
  <2>1. PICK i \in DOMAIN l : l[i].price = p
    BY <1>5 DEF Touches
  <2>2. i \in K
    BY <1>5, WideKeepsDiff
  <2>. QED
    BY <2>1, <2>2, <1>3, <1>4
<1>6. ASSUME Touches(l, DOMAIN l, p), KeepsUpdates, Upsert(lv, l, K)[p] # 0
      PROVE  Upsert(lv, l, K)[p] = Upsert(hv, l, DOMAIN l)[p]
  <2>1. PICK i \in DOMAIN l : l[i].price = p
    BY <1>6 DEF Touches
  <2>2. CASE i \in K
    BY <2>1, <2>2, <1>3, <1>4
  <2>3. CASE i \notin K
    <3>1. ~Touches(l, K, p)
      BY <1>1, <2>1, <2>3 DEF Touches, DistinctPrices
    <3>2. p \in Listed(lv)
      BY <3>1, <1>4, <1>6 DEF Listed
    <3>. QED
      BY <1>6, <2>1, <2>3, <3>2, UpdatesPass
  <2>. QED
    BY <2>2, <2>3
<1>7. ASSUME Touches(l, DOMAIN l, p), Upsert(hv, l, DOMAIN l)[p] = 0
      PROVE  Upsert(lv, l, K)[p] = 0
  <2>1. PICK i \in DOMAIN l : l[i].price = p
    BY <1>7 DEF Touches
  <2>2. l[i].amount = 0
    BY <1>3, <1>7, <2>1
  <2>3. i \in K
    BY <2>2 DEF FilterDiff, ShouldInclude
  <2>. QED
    BY <1>4, <2>1, <2>2, <2>3
<1>. QED
  BY <1>2, <1>3, <1>4, <1>5, <1>6, <1>7

\* With a wide window and enough depth the snapshot becomes the book as it is.
LEMMA WideKeepsSnapshot ==
  ASSUME KeepsAll,
         NEW bk \in Book
  PROVE  ProcessSnapshot(bk) = bk
<1> USE DEF KeepsAll
<1>1. ASSUME NEW s \in Sides
      PROVE  ApplySnapshot(s, FilterSnapshot(s, bk[s])) = bk[s]
  <2>1. bk[s] \in Levels
    BY DEF Book
  <2>2. FilterSnapshot(s, bk[s]) = bk[s]
    <3>1. Best(s, bk[s]) \subseteq Prices
      BY DEF Best, Listed
    <3>2. ASSUME NEW p \in Prices
          PROVE  ShouldInclude(LevelFilter, s, Best(s, bk[s]), p, bk[s][p],
                               Rank(s, bk[s], p), FALSE)
      BY <3>1 DEF ShouldInclude, AdmitsAll
    <3>3. \A p \in Prices : FilterSnapshot(s, bk[s])[p] = bk[s][p]
      BY <2>1, <3>2 DEF FilterSnapshot, Levels
    <3>. QED
      BY <2>1, <3>3 DEF FilterSnapshot, Levels
  <2>3. ASSUME NEW p \in Prices
        PROVE  Rank(s, bk[s], p) < SnapshotDepth
    <3> DEFINE R == {q \in Listed(bk[s]) : Better(s, q, p)}
    <3>1. R \in SUBSET (Prices \ {p})
      BY PricesAssumption DEF Listed, Better
    <3>2. /\ IsFiniteSet(Prices \ {p})
          /\ Cardinality(Prices \ {p}) = Cardinality(Prices) - 1
      BY PricesAssumption, FS_RemoveElement
    <3>3. Cardinality(R) <= Cardinality(Prices \ {p}) /\ IsFiniteSet(R)
      BY <3>1, <3>2, FS_Subset
    <3>4. Cardinality(R) \in Nat /\ Cardinality(Prices) \in Nat
      BY <3>3, FS_CardinalityType, PricesAssumption
    <3>5. Rank(s, bk[s], p) = Cardinality(R)
      BY DEF Rank
    <3>. QED
      BY <3>2, <3>3, <3>4, <3>5, FilterAssumption
  <2>. QED
    BY <2>1, <2>2, <2>3 DEF ApplySnapshot, Levels
<1>. QED
  BY <1>1 DEF ProcessSnapshot, Book

\* Whatever is filtered, a level taken from a snapshot has the snapshot's size.
LEMMA SnapshotAt ==
  ASSUME NEW bk \in Book
  PROVE  /\ ProcessSnapshot(bk) \in Book
         /\ \A s \in Sides : \A p \in Listed(ProcessSnapshot(bk)[s]) :
               ProcessSnapshot(bk)[s][p] = bk[s][p]
<1>1. ASSUME NEW s \in Sides
      PROVE  /\ ApplySnapshot(s, FilterSnapshot(s, bk[s])) \in Levels
             /\ \A p \in Prices :
                  ApplySnapshot(s, FilterSnapshot(s, bk[s]))[p] \in {0, bk[s][p]}
  <2>1. bk[s] \in Levels
    BY DEF Book
  <2>2. /\ FilterSnapshot(s, bk[s]) \in Levels
        /\ \A p \in Prices : FilterSnapshot(s, bk[s])[p] \in {0, bk[s][p]}
    BY <2>1 DEF FilterSnapshot, Levels
  <2>. QED
    BY <2>2 DEF ApplySnapshot, Levels
<1>2. ProcessSnapshot(bk) \in Book
  BY <1>1 DEF ProcessSnapshot, Book
<1>. QED
  BY <1>1, <1>2 DEF ProcessSnapshot, Listed

-----------------------------------------------------------------------------
\* MaxLevel keeps at most n levels of a side of a snapshot.
LEMMA SnapshotWithin ==
  ASSUME LevelFilter.kind = "MaxLevel", NEW bk \in Book, NEW s \in Sides
  PROVE  Cardinality(Listed(ProcessSnapshot(bk)[s])) <= LevelFilter.n
<1> DEFINE T == Listed(ProcessSnapshot(bk)[s])
<1>1. ASSUME NEW p \in T
      PROVE  p \in Listed(bk[s]) /\ Rank(s, bk[s], p) < LevelFilter.n
  <2>1. p \in Prices /\ FilterSnapshot(s, bk[s])[p] # 0
    BY DEF Listed, ProcessSnapshot, ApplySnapshot
  <2>2. /\ bk[s][p] # 0
        /\ ShouldInclude(LevelFilter, s, Best(s, bk[s]), p, bk[s][p],
                         Rank(s, bk[s], p), FALSE)
    BY <2>1 DEF FilterSnapshot
  <2>. QED
    BY <2>1, <2>2 DEF ShouldInclude, Listed
<1>2. T \in SUBSET Listed(bk[s]) /\ LevelFilter.n \in Nat
  BY <1>1, FilterAssumption DEF Filter
<1> HIDE DEF T
<1>. QED
  BY <1>1, <1>2, RankBound DEF T

\* The entries of a diff that bring a level the side did not have: filter_diff
\* counts them, so that the side ends with at most n levels.
LEMMA DiffWithin ==
  ASSUME LevelFilter.kind = "MaxLevel", NEW s \in Sides, NEW lv \in Levels,
         NEW l \in Seq(Entry), DistinctPrices(l),
         Cardinality(Listed(lv)) <= LevelFilter.n
  PROVE  Cardinality(Listed(Upsert(lv, l, FilterDiff(s, lv, l)))) <= LevelFilter.n
<1> DEFINE K == FilterDiff(s, lv, l)
           L == Listed(lv)
           new == Upsert(lv, l, K)
           A == {i \in K : l[i].amount # 0 /\ l[i].price \notin L}
           f == [i \in A |-> l[i].price]
           P == {l[i].price : i \in A}
<1>1. K \in SUBSET DOMAIN l /\ DOMAIN l = 1..Len(l) /\ Len(l) \in Nat
  BY FilterDiffType, LenProperties
<1>2. IsFiniteSet(L) /\ Cardinality(L) \in Nat /\ LevelFilter.n \in Nat
  <2>1. IsFiniteSet(L)
    BY PricesAssumption, FS_Subset DEF Listed
  <2>. QED
    BY <2>1, FS_CardinalityType, FilterAssumption DEF Filter
<1>3. IsFiniteSet(A) /\ Cardinality(A) \in Nat /\ A \in SUBSET (1..Len(l))
  <2>1. A \in SUBSET (1..Len(l)) /\ IsFiniteSet(1..Len(l))
    BY <1>1, FS_Interval
  <2>. QED
    BY <2>1, FS_Subset, FS_CardinalityType
<1>4. Cardinality(L) + Cardinality(A) <= LevelFilter.n
  <2>1. CASE A = {}
    <3>1. Cardinality(A) = 0
      BY <2>1, FS_EmptySet
    <3>. QED
      BY <1>2, <3>1
  <2>2. CASE A # {}
    <3>1. PICK i \in A : \A j \in A : j <= i
      <4>1. A \in SUBSET Nat /\ \A j \in A : j <= Len(l)
        BY <1>3
      <4> HIDE DEF A
      <4>. QED
        BY <1>1, <2>2, <4>1, GreatestNatural
    <3>2. Cardinality(L) + Cardinality(NewBefore(lv, l, i)) < LevelFilter.n
      BY DEF FilterDiff, ShouldInclude
    <3>3. A \ {i} \in SUBSET NewBefore(lv, l, i)
      BY <1>1, <1>3, <3>1 DEF NewBefore
    <3>4. NewBefore(lv, l, i) \in SUBSET (1..Len(l)) /\ IsFiniteSet(1..Len(l))
      BY <1>1, FS_Interval DEF NewBefore
    <3>5. IsFiniteSet(NewBefore(lv, l, i)) /\ Cardinality(NewBefore(lv, l, i)) \in Nat
      BY <3>4, FS_Subset, FS_CardinalityType
    <3>6. Cardinality(A \ {i}) <= Cardinality(NewBefore(lv, l, i))
      BY <3>3, <3>5, FS_Subset
    <3>7. Cardinality(A \ {i}) = Cardinality(A) - 1
      <4> HIDE DEF A
      <4>. QED
        BY <1>3, <3>1, FS_RemoveElement
    <3> HIDE DEF A, L
    <3>. QED
      BY <1>2, <1>3, <3>2, <3>5, <3>6, <3>7
  <2>. QED
    BY <2>1, <2>2
<1>5. IsFiniteSet(P) /\ Cardinality(P) <= Cardinality(A)
  <2>1. f \in Surjection(A, P)
    BY Fun_IsSurj
  <2> HIDE DEF A, P, f
  <2>. QED
    BY <1>3, <2>1, FS_Surjection
<1>6. Listed(new) \in SUBSET (L \cup P)
  <2>1. ASSUME NEW p \in Prices, new[p] # 0, p \notin L
        PROVE  p \in P
    <3>1. lv[p] = 0
      BY <2>1 DEF Listed
    <3>2. /\ \A i \in K : l[i].price = p => new[p] = l[i].amount
          /\ ~Touches(l, K, p) => new[p] = lv[p]
      BY <1>1, UpsertAt
    <3>3. PICK i \in K : l[i].price = p
      BY <2>1, <3>1, <3>2 DEF Touches
    <3>4. i \in A
      BY <2>1, <3>2, <3>3
    <3>. QED
      BY <3>3, <3>4
  <2>. QED
    BY <2>1 DEF Listed
<1>7. Cardinality(Listed(new)) <= Cardinality(L \cup P)
  BY <1>2, <1>5, <1>6, FS_Union, FS_Subset
<1>8. /\ Cardinality(L \cup P) = Cardinality(L) + Cardinality(P) - Cardinality(L \cap P)
      /\ Cardinality(P) \in Nat /\ Cardinality(L \cap P) \in Nat
      /\ IsFiniteSet(Listed(new)) /\ Cardinality(Listed(new)) \in Nat
  BY <1>2, <1>5, <1>6, FS_Union, FS_Subset, FS_Intersection, FS_CardinalityType
<1> HIDE DEF L, P, A, new
<1>. QED
  BY <1>2, <1>3, <1>4, <1>5, <1>7, <1>8 DEF new


-----------------------------------------------------------------------------
(***************************************************************************)
(* Lemmas about the operators.                                             *)
(***************************************************************************)

\* The entries of a diff are well typed.
LEMMA DiffEntries ==
  ASSUME NEW d \in Diffs \cup {NoDiff}, NEW s \in Sides
  PROVE  d[s] \in Seq(Entry) /\ DistinctPrices(d[s])
<1>1. CASE d \in Diffs
  BY <1>1, FeedAssumption
<1>2. CASE d = NoDiff
  BY <1>2 DEF NoDiff, DistinctPrices
<1>. QED
  BY <1>1, <1>2

\* Both ways of applying a diff yield a book.
LEMMA ApplyType ==
  ASSUME NEW bk \in Book, NEW d \in Diffs \cup {NoDiff}
  PROVE  ApplyFully(bk, d) \in Book /\ ProcessDiff(bk, d) \in Book
<1>1. ASSUME NEW s \in Sides
      PROVE  /\ Upsert(bk[s], d[s], DOMAIN d[s]) \in Levels
             /\ Upsert(bk[s], d[s], FilterDiff(s, bk[s], d[s])) \in Levels
  <2>1. bk[s] \in Levels
    BY DEF Book
  <2>2. d[s] \in Seq(Entry) /\ DistinctPrices(d[s])
    BY DiffEntries
  <2>3. FilterDiff(s, bk[s], d[s]) \in SUBSET DOMAIN d[s]
    BY DEF FilterDiff
  <2>. QED
    BY <2>1, <2>2, <2>3, UpsertType
<1>. QED
  BY <1>1 DEF ApplyFully, ProcessDiff, Book

-----------------------------------------------------------------------------
(***************************************************************************)
(* Type correctness.                                                       *)
(***************************************************************************)
LEMMA EmptyBookType == EmptyBook \in Book
  BY DEF EmptyBook, EmptyLevels, Book, Levels

\* A buffer or a socket may be empty.
LEMMA EmptySeqMessage == <<>> \in Seq(Message)
  OBVIOUS

\* The variables have their types at the start.
LEMMA InitTypeOK == Init => TypeOK
<1> SUFFICES ASSUME Init PROVE TypeOK
  OBVIOUS
<1>1. PICK b \in {EmptyBook} \cup {ApplyFully(EmptyBook, d) : d \in Diffs} : hist = <<b>>
  BY DEF Init
<1>2. b \in Book
  BY EmptyBookType, ApplyType
<1>3. hist \in Seq(Book) /\ Len(hist) = 1
  BY <1>1, <1>2
<1>4. socket \in Seq(Message) /\ buffer \in Seq(Message)
  BY EmptySeqMessage DEF Init
<1>5. reply \in Reply /\ reply.ver <= Len(hist) /\ (reply.ver = 0 => reply = NoReply)
  BY <1>3 DEF Init, NoReply, Reply
<1>6. fresh \subseteq Sides \X Prices
  BY DEF Init
<1>7. book \in Book
  BY EmptyBookType DEF Init
<1>8. from \in Nat /\ pos \in Nat /\ acks \in 0..2 /\ pc = "down"
  BY DEF Init
<1>9. joined \in BOOLEAN
  BY Zenon DEF Init
<1>. QED
  BY <1>3, <1>4, <1>5, <1>6, <1>7, <1>8, <1>9 DEF TypeOK

\* The head of the socket or of the buffer is a message, the tail a sequence.
LEMMA HeadTailType ==
  ASSUME NEW q \in Seq(Message), q # <<>>
  PROVE  Head(q) \in Message /\ Tail(q) \in Seq(Message)
  BY HeadTailProperties

\* Every step keeps the types.
LEMMA NextTypeOK == TypeOK /\ [Next]_vars => TypeOK'
<1> SUFFICES ASSUME TypeOK, [Next]_vars
             PROVE  TypeOK'
  OBVIOUS
<1> USE DEF TypeOK
<1>1. ASSUME NEW d \in Diffs, Change(d)
      PROVE  TypeOK'
  <2>1. Current \in Nat /\ Current \in DOMAIN hist
    BY DEF Current
  <2>2. ApplyFully(hist[Current], d) \in Book
    BY <2>1, ApplyType, ElementOfSeq DEF Current
  <2>3. hist' \in Seq(Book) /\ Len(hist') = Len(hist) + 1
    BY <1>1, <2>2, AppendProperties DEF Change
  <2>4. socket' \in Seq(Message)
    <3>1. PICK stamped \in Stamps :
            socket' = IF joined
                      THEN Append(socket,
                                  DiffMsg(Current + 1, Stamp(stamped, Current + 1), d))
                      ELSE socket
      BY <1>1 DEF Change
    <3>2. DiffMsg(Current + 1, Stamp(stamped, Current + 1), d) \in Message
      BY <2>1 DEF DiffMsg, Message, Stamp, NoStamp
    <3>. QED
      BY <3>1, <3>2, AppendProperties
  <2>. QED
    BY <1>1, <2>3, <2>4 DEF Change, clientVars, historyVars, Reply
<1>2. CASE Join
  BY <1>2 DEF Join, clientVars, Current
<1>3. CASE SendAck
  <2>1. Ack(Current) \in Message
    BY DEF Ack, Message, Current, NoStamp
  <2>. QED
    BY <1>3, <2>1, AppendProperties DEF SendAck, clientVars, historyVars
<1>4. CASE AnswerRest
  <2>1. PICK v \in {w \in 1..Current : w + RestLag >= Current} :
          \E us \in {v, 0} : reply' = [ver |-> v, us |-> us]
    BY <1>4 DEF AnswerRest
  <2>2. reply' \in Reply /\ reply'.ver <= Len(hist)
    BY <2>1 DEF Reply, Current
  <2>. QED
    BY <1>4, <2>2 DEF AnswerRest, exchangeVars, historyVars
<1>5. CASE Connect
  BY <1>5 DEF Connect, exchangeVars, historyVars
<1>6. CASE BufferDiff
  BY <1>6, HeadTailType, AppendProperties DEF BufferDiff, exchangeVars, historyVars
<1>7. CASE Confirm
  BY <1>7, HeadTailType DEF Confirm, exchangeVars, historyVars
<1>8. CASE LiveDiff
  <2>1. Head(socket) \in Message /\ Tail(socket) \in Seq(Message)
    BY <1>8, HeadTailType DEF LiveDiff
  <2>2. Head(socket).ver \in Nat /\ Head(socket).levels \in Diffs \cup {NoDiff}
    BY <2>1 DEF Message
  <2>3. book' \in Book
    BY <1>8, <2>2, ApplyType DEF LiveDiff, ApplyDiff
  <2>4. fresh' \subseteq Sides \X Prices
    BY <1>8 DEF LiveDiff, ApplyDiff, Touched
  <2>. QED
    BY <1>8, <2>1, <2>2, <2>3, <2>4 DEF LiveDiff, exchangeVars
<1>9. CASE LiveEvent
  BY <1>9, HeadTailType DEF LiveEvent, exchangeVars, clientVars, historyVars
<1>10. CASE SnapshotOk
  <2>1. reply.ver \in 1..Len(hist)
    BY <1>10 DEF SnapshotOk, Reply
  <2>2. hist[reply.ver] \in Book
    BY <2>1, ElementOfSeq
  <2>. QED
    BY <1>10, <2>2, SnapshotAt DEF SnapshotOk, exchangeVars, historyVars
<1>11. CASE Replay
  <2>1. Head(buffer) \in Message /\ Tail(buffer) \in Seq(Message)
    BY <1>11, HeadTailType DEF Replay
  <2>2. Head(buffer).ver \in Nat /\ Head(buffer).levels \in Diffs \cup {NoDiff}
    BY <2>1 DEF Message
  <2>3. book' \in Book /\ fresh' \subseteq Sides \X Prices
    <3>1. CASE Kept(Head(buffer))
      BY <1>11, <2>2, <3>1, ApplyType DEF Replay, ApplyDiff, Touched
    <3>2. CASE ~Kept(Head(buffer))
      BY <1>11, <3>2 DEF Replay
    <3>. QED
      BY <3>1, <3>2
  <2>. QED
    BY <1>11, <2>1, <2>2, <2>3 DEF Replay, exchangeVars
<1>12. CASE GoLive
  BY <1>12 DEF GoLive, exchangeVars, historyVars
<1>13. CASE SnapshotFailed
  BY <1>13, LenProperties DEF SnapshotFailed, exchangeVars, NoReply, Reply
<1>14. CASE Disconnect
  <2>1. reply' \in Reply /\ reply'.ver <= Len(hist) /\ (reply'.ver = 0 => reply' = NoReply)
    BY <1>14 DEF Disconnect, NoReply, Reply
  <2>2. socket' \in Seq(Message) /\ buffer' \in Seq(Message)
    BY <1>14, EmptySeqMessage DEF Disconnect
  <2>3. book' \in Book
    BY <1>14, EmptyBookType DEF Disconnect
  <2>4. fresh' \subseteq Sides \X Prices
    BY <1>14 DEF Disconnect
  <2>5. from' \in Nat /\ pos' \in Nat /\ acks' \in 0..2
    BY <1>14 DEF Disconnect
  <2>6. joined' \in BOOLEAN
    BY <1>14, Zenon DEF Disconnect
  <2>. QED
    BY <1>14, <2>1, <2>2, <2>3, <2>4, <2>5, <2>6 DEF Disconnect
<1>15. CASE UNCHANGED vars
  BY <1>15 DEF vars, exchangeVars, clientVars, historyVars
<1>16. CASE ConfirmEarly
  BY <1>16 DEF ConfirmEarly, historyVars
<1>. QED
  BY <1>1, <1>2, <1>3, <1>4, <1>5, <1>6, <1>7, <1>8, <1>9, <1>10, <1>11, <1>12,
     <1>13, <1>14, <1>15, <1>16 DEF Next, Exchange, Read, Handle

\* Every state of every behaviour is well typed.
THEOREM TypeCorrect == Spec => []TypeOK
  BY InitTypeOK, NextTypeOK, PTL DEF Spec

-----------------------------------------------------------------------------
(***************************************************************************)
(* IInv is an inductive invariant.  One lemma per conjunct says that a     *)
(* step preserves it, given those conjuncts of the previous state it rests *)
(* on.                                                                     *)
(***************************************************************************)
\* The client never looks back: the exchange's versions only grow.
LEMMA HistoryGrows ==
  ASSUME TypeOK, TypeOK', [Next]_vars
  PROVE  /\ Current \in Nat /\ Current' \in Nat
         /\ 0 < Current /\ Current <= Current'
         /\ \A v \in 1..Current : hist'[v] = hist[v]
<1>1. ASSUME NEW d \in Diffs, Change(d)
      PROVE  /\ Len(hist') = Len(hist) + 1
             /\ \A v \in 1..Len(hist) : hist'[v] = hist[v]
  <2>1. ApplyFully(hist[Current], d) \in Book
    BY ApplyType, ElementOfSeq DEF Current, TypeOK
  <2>. QED
    BY <1>1, <2>1, AppendProperties DEF Change, TypeOK
<1>2. ASSUME ~\E d \in Diffs : Change(d)
      PROVE  hist' = hist
  BY <1>2 DEF Next, Exchange, Read, Handle, Join, SendAck, AnswerRest, Connect,
       BufferDiff, Confirm, SnapshotOk, SnapshotFailed, Replay, GoLive, LiveDiff,
       LiveEvent, ConfirmEarly, Disconnect, vars, exchangeVars
<1>3. Len(hist) \in Nat /\ Len(hist') \in Nat /\ 0 < Len(hist)
  BY LenProperties DEF TypeOK
<1>. QED
  BY <1>1, <1>2, <1>3 DEF Current

-----------------------------------------------------------------------------
\* Before the subscription takes effect no diff is sent, read or buffered.
LEMMA StepNotJoined ==
  ASSUME TypeOK, NotJoined, [Next]_vars
  PROVE  NotJoined'
<1> USE DEF NotJoined
<1>1. ASSUME NEW d \in Diffs, Change(d)
      PROVE  NotJoined'
  BY <1>1 DEF Change, clientVars, historyVars
<1>2. CASE Join
  <2>1. joined'
    BY <1>2, Zenon DEF Join
  <2>. QED
    BY <2>1
<1>9. CASE SendAck
  <2>1. joined /\ joined' = joined
    BY <1>9 DEF SendAck
  <2>. QED
    BY <2>1
<1>3. CASE AnswerRest
  BY <1>3 DEF AnswerRest, exchangeVars, historyVars
<1>4. CASE Connect
  BY <1>4 DEF Connect, exchangeVars, historyVars
<1>5. CASE BufferDiff \/ Confirm \/ LiveDiff \/ LiveEvent
  BY <1>5 DEF BufferDiff, Confirm, LiveDiff, LiveEvent, exchangeVars, historyVars
<1>6. CASE SnapshotOk \/ SnapshotFailed \/ Replay \/ GoLive
  BY <1>6, EmptySeq DEF SnapshotOk, SnapshotFailed, Replay, GoLive, exchangeVars,
     historyVars, TypeOK
<1>7. CASE Disconnect
  BY <1>7 DEF Disconnect
<1>8. CASE UNCHANGED vars
  BY <1>8 DEF vars, exchangeVars, clientVars, historyVars
<1>10. CASE ConfirmEarly
  BY <1>10 DEF ConfirmEarly, historyVars
<1>. QED
  BY <1>1, <1>2, <1>3, <1>4, <1>5, <1>6, <1>7, <1>8, <1>9, <1>10
  DEF Next, Exchange, Read, Handle

\* What is there in each phase of the connection, step by step.
LEMMA StepPhases ==
  ASSUME TypeOK, NotJoined, Phases, [Next]_vars
  PROVE  Phases'
<1> USE DEF Phases, NotJoined
<1>1. ASSUME NEW d \in Diffs, Change(d)
      PROVE  Phases'
  BY <1>1 DEF Change, clientVars, historyVars
<1>2. CASE Join
  BY <1>2 DEF Join, clientVars
<1>3. CASE SendAck
  BY <1>3 DEF SendAck, clientVars, historyVars
<1>4. CASE AnswerRest
  BY <1>4 DEF AnswerRest, exchangeVars, historyVars
<1>5. CASE Connect
  BY <1>5 DEF Connect, exchangeVars, historyVars
<1>6. CASE BufferDiff \/ Confirm \/ LiveEvent
  BY <1>6 DEF BufferDiff, Confirm, LiveEvent, exchangeVars, clientVars, historyVars
<1>7. CASE LiveDiff
  BY <1>7 DEF LiveDiff, exchangeVars
<1>8. CASE SnapshotOk
  BY <1>8 DEF SnapshotOk, exchangeVars, historyVars
<1>9. CASE SnapshotFailed
  BY <1>9 DEF SnapshotFailed, exchangeVars, NoReply
<1>10. CASE Replay
  BY <1>10 DEF Replay, exchangeVars
<1>11. CASE GoLive
  BY <1>11 DEF GoLive, exchangeVars, historyVars
<1>12. CASE Disconnect
  BY <1>12 DEF Disconnect, NoReply
<1>13. CASE UNCHANGED vars
  BY <1>13 DEF vars, exchangeVars, clientVars, historyVars
<1>14. CASE ConfirmEarly
  BY <1>14 DEF ConfirmEarly, historyVars
<1>. QED
  BY <1>1, <1>2, <1>3, <1>4, <1>5, <1>6, <1>7, <1>8, <1>9, <1>10, <1>11, <1>12,
     <1>13, <1>14 DEF Next, Exchange, Read, Handle

\* Buffering, and replaying from the front, leave the buffer in order.
LEMMA StepBufferInOrder ==
  ASSUME TypeOK, NotJoined, Phases, BufferInOrder, SocketInOrder, [Next]_vars
  PROVE  BufferInOrder'
<1> USE DEF BufferInOrder
<1>1. ASSUME NEW d \in Diffs, Change(d)
      PROVE  BufferInOrder'
  BY <1>1 DEF Change, clientVars, historyVars
<1>2. CASE Join
  <2>1. buffer' = <<>>
    BY <1>2 DEF Join, NotJoined, clientVars
  <2>. QED
    BY <2>1
<1>3. CASE \/ SendAck \/ AnswerRest \/ Connect \/ Confirm \/ ConfirmEarly
           \/ SnapshotOk \/ GoLive \/ LiveEvent
  BY <1>3 DEF SendAck, AnswerRest, Connect, Confirm, ConfirmEarly, SnapshotOk, GoLive,
       LiveEvent, exchangeVars, clientVars, historyVars
<1>4. CASE BufferDiff
  <2>1. /\ Head(socket) = socket[1] /\ 1 \in DOMAIN socket
        /\ Head(socket) \in Message
    BY <1>4, ReadOne DEF BufferDiff, TypeOK
  <2>2. Head(socket).type = "diff" /\ Head(socket).ver = pos + Len(buffer) + 1
    BY <1>4, <2>1, LenProperties DEF BufferDiff, SocketInOrder, Step, LastRead, TypeOK
  <2>3. /\ DOMAIN buffer' = 1..(Len(buffer) + 1)
        /\ \A i \in 1..Len(buffer) : buffer'[i] = buffer[i]
        /\ buffer'[Len(buffer) + 1] = Head(socket)
    BY <1>4, <2>1, AppendProperties, LenProperties DEF BufferDiff, TypeOK
  <2>4. DOMAIN buffer = 1..Len(buffer) /\ Len(buffer) \in Nat
    BY LenProperties DEF TypeOK
  <2>5. pos' = pos /\ pos \in Nat
    BY <1>4 DEF BufferDiff, historyVars, TypeOK
  <2>6. \A i \in 1..Len(buffer) : buffer'[i].type = "diff" /\ buffer'[i].ver = pos' + i
    BY <2>3, <2>4, <2>5
  <2>7. /\ buffer'[Len(buffer) + 1].type = "diff"
        /\ buffer'[Len(buffer) + 1].ver = pos' + (Len(buffer) + 1)
    BY <2>2, <2>3, <2>4, <2>5
  <2>8. \A i \in 1..(Len(buffer) + 1) : i \in 1..Len(buffer) \/ i = Len(buffer) + 1
    BY <2>4
  <2>. QED
    BY <2>3, <2>6, <2>7, <2>8
<1>5. CASE Replay
  <2>1. /\ Head(buffer) = buffer[1] /\ 1 \in DOMAIN buffer
        /\ \A i \in DOMAIN Tail(buffer) :
              /\ i \in Nat
              /\ i + 1 \in DOMAIN buffer /\ Tail(buffer)[i] = buffer[i + 1]
    BY <1>5, ReadOne DEF Replay, TypeOK
  <2>2. buffer' = Tail(buffer) /\ pos' = pos + 1
    BY <1>5, <2>1 DEF Replay
  <2>3. pos \in Nat
    BY DEF TypeOK
  <2>. QED
    BY <2>1, <2>2, <2>3
<1>6. CASE LiveDiff
  BY <1>6 DEF LiveDiff, Phases
<1>7. CASE SnapshotFailed \/ Disconnect
  BY <1>7 DEF SnapshotFailed, Disconnect
<1>8. CASE UNCHANGED vars
  BY <1>8 DEF vars, clientVars, historyVars
<1>. QED
  BY <1>1, <1>2, <1>3, <1>4, <1>5, <1>6, <1>7, <1>8 DEF Next, Exchange, Read, Handle

-----------------------------------------------------------------------------
\* What was read last is a point of the history.
LEMMA LastReadType ==
  ASSUME TypeOK
  PROVE  LastRead \in Nat
  BY LenProperties DEF TypeOK, LastRead

\* Reading the first message of the socket leaves the rest in order.
LEMMA SocketRead ==
  ASSUME TypeOK, SocketInOrder, socket # <<>>, socket' = Tail(socket),
         hist' = hist, LastRead' = Head(socket).ver
  PROVE  SocketInOrder'
<1>1. /\ Head(socket) = socket[1] /\ Len(socket) \in Nat
      /\ DOMAIN Tail(socket) = 1..(Len(socket) - 1)
      /\ \A i \in DOMAIN Tail(socket) :
            i + 1 \in DOMAIN socket /\ Tail(socket)[i] = socket[i + 1]
  BY ReadOne DEF TypeOK
<1> SUFFICES ASSUME NEW i \in DOMAIN Tail(socket)
             PROVE  /\ socket'[i].ver <= Len(hist)
                    /\ socket'[i].ver = Step(socket'[i]) +
                         (IF i = 1 THEN LastRead' ELSE socket'[i - 1].ver)
  BY DEF SocketInOrder, Current, Step
<1>2. /\ i \in Nat /\ i >= 1 /\ i + 1 \in DOMAIN socket
      /\ socket'[i] = socket[i + 1]
  BY <1>1
<1>3. /\ socket[i + 1].ver <= Len(hist)
      /\ socket[i + 1].ver = Step(socket[i + 1]) + socket[i].ver
  BY <1>2 DEF SocketInOrder, Current
<1>4. IF i = 1 THEN socket[i].ver = LastRead'
               ELSE socket'[i - 1] = socket[i]
  <2>1. CASE i = 1
    BY <2>1, <1>1
  <2>2. CASE i # 1
    <3>1. i - 1 \in DOMAIN Tail(socket) /\ (i - 1) + 1 = i
      BY <1>1, <1>2, <2>2
    <3>. QED
      BY <3>1, <1>1, <2>2
  <2>. QED
    BY <2>1, <2>2
<1>. QED
  BY <1>2, <1>3, <1>4

\* A message sent carries the exchange's version and continues the order.
LEMMA SocketAppend ==
  ASSUME TypeOK, SocketInOrder, NothingMissing, joined,
         NEW m \in Message, socket' = Append(socket, m),
         Len(hist') = Len(hist) + Step(m), m.ver = Len(hist'),
         LastRead' = LastRead
  PROVE  SocketInOrder'
<1>1. /\ DOMAIN socket = 1..Len(socket) /\ Len(socket) \in Nat
      /\ DOMAIN socket' = 1..(Len(socket) + 1)
      /\ \A i \in 1..Len(socket) : socket'[i] = socket[i]
      /\ socket'[Len(socket) + 1] = m
  BY AppendProperties, LenProperties DEF TypeOK
<1>2. Len(hist) \in Nat /\ Step(m) \in {0, 1}
  BY LenProperties DEF TypeOK, Step
<1> SUFFICES ASSUME NEW i \in 1..(Len(socket) + 1)
             PROVE  /\ socket'[i].ver <= Len(hist')
                    /\ socket'[i].ver = Step(socket'[i]) +
                         (IF i = 1 THEN LastRead' ELSE socket'[i - 1].ver)
  BY <1>1 DEF SocketInOrder, Current, Step
<1>3. CASE i \in 1..Len(socket)
  <2>1. /\ socket[i].ver <= Len(hist)
        /\ socket[i].ver = Step(socket[i]) +
             (IF i = 1 THEN LastRead ELSE socket[i - 1].ver)
    BY <1>1, <1>3 DEF SocketInOrder, Current
  <2>2. i # 1 => i - 1 \in 1..Len(socket)
    BY <1>1, <1>3
  <2>3. socket[i].ver \in Nat
    <3>1. socket[i] \in Message
      BY <1>1, <1>3, ElementOfSeq DEF TypeOK
    <3>. QED
      BY <3>1 DEF Message
  <2>. QED
    BY <1>1, <1>2, <1>3, <2>1, <2>2, <2>3
<1>4. CASE i = Len(socket) + 1
  <2>1. Len(hist) = IF socket = <<>> THEN LastRead ELSE socket[Len(socket)].ver
    BY DEF NothingMissing, Current
  <2>2. socket = <<>> <=> Len(socket) = 0
    BY <1>1, EmptySeq DEF TypeOK
  <2>3. socket # <<>> => Len(socket) \in 1..Len(socket) /\ i # 1 /\ i - 1 = Len(socket)
    BY <1>1, <1>4, <2>2
  <2>4. socket = <<>> => i = 1
    BY <1>4, <2>2
  <2>5. Len(hist) = IF i = 1 THEN LastRead' ELSE socket'[i - 1].ver
    BY <1>1, <2>1, <2>3, <2>4
  <2>6. socket'[i] = m
    BY <1>1, <1>4
  <2>7. Len(hist') <= Len(hist') /\ Len(hist') = Step(m) + Len(hist)
    BY <1>2
  <2>. QED
    BY <2>5, <2>6, <2>7
<1>. QED
  BY <1>1, <1>3, <1>4

\* Reading a message moves LastRead to the version it carries.
LEMMA ReadMoves ==
  ASSUME TypeOK, Phases, SocketInOrder, Read
  PROVE  /\ socket # <<>> /\ socket' = Tail(socket)
         /\ hist' = hist /\ joined' = joined /\ from' = from
         /\ LastRead' = Head(socket).ver
         /\ pos' = pos \/ pos' = LastRead'
<1>1. /\ socket # <<>> /\ socket' = Tail(socket)
      /\ hist' = hist /\ joined' = joined /\ from' = from
  BY DEF Read, BufferDiff, Confirm, LiveDiff, LiveEvent, exchangeVars, historyVars
<1>2. /\ Head(socket) = socket[1] /\ 1 \in DOMAIN socket /\ Head(socket) \in Message
  BY <1>1, ReadOne DEF TypeOK
<1>3. Head(socket).ver = Step(Head(socket)) + LastRead /\ LastRead \in Nat
  BY <1>2, LastReadType DEF SocketInOrder
<1>4. CASE BufferDiff
  <2>1. Len(buffer') = Len(buffer) + 1 /\ pos' = pos
    BY <1>4, <1>2, AppendProperties DEF BufferDiff, TypeOK, historyVars
  <2>2. LastRead' = Head(socket).ver
    BY <1>4, <2>1, <1>3, LenProperties DEF BufferDiff, Step, LastRead, TypeOK
  <2>. QED
    BY <1>1, <2>1, <2>2
<1>5. CASE Confirm \/ LiveEvent
  BY <1>5, <1>1, <1>3 DEF Confirm, LiveEvent, Step, LastRead, clientVars, historyVars
<1>6. CASE LiveDiff
  <2>1. buffer = <<>> /\ buffer' = <<>> /\ pos' = Head(socket).ver
    BY <1>6 DEF LiveDiff, Phases
  <2>2. Head(socket).ver \in Nat
    BY <1>2 DEF Message
  <2>3. LastRead' = Head(socket).ver
    BY <2>1, <2>2, EmptySeq DEF LastRead
  <2>. QED
    BY <1>1, <2>1, <2>3
<1>. QED
  BY <1>4, <1>5, <1>6 DEF Read

\* Giving up the buffer or working through it does not move LastRead.
LEMMA HandleMoves ==
  ASSUME TypeOK, BufferInOrder, Replay \/ SnapshotFailed
  PROVE  /\ LastRead' = LastRead /\ LastRead \in Nat
         /\ pos' \in pos..LastRead
<1>1. Len(buffer) \in Nat /\ pos \in Nat
  BY LenProperties DEF TypeOK
<1>2. CASE SnapshotFailed
  BY <1>1, <1>2, EmptySeq DEF SnapshotFailed, LastRead
<1>3. CASE Replay
  <2>1. /\ Head(buffer) = buffer[1] /\ 1 \in DOMAIN buffer
        /\ Len(Tail(buffer)) = Len(buffer) - 1 /\ Len(buffer) > 0
    BY <1>3, ReadOne DEF Replay, TypeOK
  <2>2. buffer[1].ver = pos + 1
    BY <2>1 DEF BufferInOrder
  <2>. QED
    BY <1>1, <1>3, <2>1, <2>2 DEF Replay, LastRead
<1>. QED
  BY <1>2, <1>3

\* The exchange sends, and the client reads, in order.
LEMMA StepSocketInOrder ==
  ASSUME TypeOK, TypeOK', NotJoined, Phases, BufferInOrder, SocketInOrder,
         NothingMissing, [Next]_vars
  PROVE  SocketInOrder'
<1>1. ASSUME NEW d \in Diffs, Change(d)
      PROVE  SocketInOrder'
  <2>1. /\ Len(hist') = Len(hist) + 1 /\ Len(hist) \in Nat
        /\ LastRead' = LastRead
    <3>1. ApplyFully(hist[Current], d) \in Book
      BY ApplyType, ElementOfSeq DEF Current, TypeOK
    <3>. QED
      BY <1>1, <3>1, AppendProperties, LenProperties
      DEF Change, TypeOK, LastRead, clientVars, historyVars
  <2>2. CASE joined
    <3>1. PICK stamped \in Stamps :
            socket' = Append(socket,
                             DiffMsg(Current + 1, Stamp(stamped, Current + 1), d))
      BY <1>1, <2>2 DEF Change
    <3> DEFINE m == DiffMsg(Current + 1, Stamp(stamped, Current + 1), d)
    <3>2. m \in Message /\ m.ver = Len(hist) + 1 /\ m.type = "diff"
      BY <2>1 DEF DiffMsg, Message, Stamp, NoStamp, Current
    <3>. QED
      BY <2>1, <2>2, <3>1, <3>2, SocketAppend DEF Step
  <2>3. CASE ~joined
    <3>1. socket' = <<>>
      BY <1>1, <2>3 DEF Change, NotJoined
    <3>. QED
      BY <3>1 DEF SocketInOrder
  <2>. QED
    BY <2>2, <2>3
<1>2. CASE Join
  <2>1. socket' = <<>>
    BY <1>2 DEF Join, NotJoined
  <2>. QED
    BY <2>1 DEF SocketInOrder
<1>3. CASE SendAck
  <2>1. /\ Ack(Current) \in Message /\ Ack(Current).type = "ack"
        /\ Ack(Current).ver = Len(hist) /\ Len(hist) \in Nat
    BY LenProperties DEF Ack, Message, Current, NoStamp, TypeOK
  <2>2. /\ socket' = Append(socket, Ack(Current)) /\ hist' = hist /\ joined
        /\ LastRead' = LastRead
    BY <1>3 DEF SendAck, LastRead, clientVars, historyVars
  <2>. QED
    BY <2>1, <2>2, SocketAppend DEF Step
<1>4. CASE \/ AnswerRest \/ Connect \/ ConfirmEarly \/ SnapshotOk \/ GoLive
           \/ UNCHANGED vars
  BY <1>4 DEF AnswerRest, Connect, ConfirmEarly, SnapshotOk, GoLive, SocketInOrder,
       Current, Step,
       LastRead, vars, exchangeVars, clientVars, historyVars
<1>5. CASE SnapshotFailed
  BY <1>5, HandleMoves DEF SnapshotFailed, SocketInOrder, Current, Step, exchangeVars
<1>6. CASE Replay
  BY <1>6, HandleMoves DEF Replay, SocketInOrder, Current, Step, exchangeVars
<1>7. CASE Read
  BY <1>7, ReadMoves, SocketRead
<1>8. CASE Disconnect
  BY <1>8 DEF Disconnect, SocketInOrder
<1>. QED
  BY <1>1, <1>2, <1>3, <1>4, <1>5, <1>6, <1>7, <1>8 DEF Next, Exchange, Handle

\* Between what was read and what is to be read no change is missing.
LEMMA StepNothingMissing ==
  ASSUME TypeOK, TypeOK', NotJoined, Phases, BufferInOrder, SocketInOrder,
         NothingMissing, [Next]_vars
  PROVE  NothingMissing'
<1>1. ASSUME NEW d \in Diffs, Change(d)
      PROVE  NothingMissing'
  <2>1. /\ Len(hist') = Len(hist) + 1 /\ Len(hist) \in Nat
        /\ LastRead' = LastRead /\ from' = from /\ pos' = pos /\ joined' = joined
    <3>1. ApplyFully(hist[Current], d) \in Book
      BY ApplyType, ElementOfSeq DEF Current, TypeOK
    <3>. QED
      BY <1>1, <3>1, AppendProperties, LenProperties
      DEF Change, TypeOK, LastRead, clientVars, historyVars
  <2>2. CASE joined
    <3>1. PICK stamped \in Stamps :
            socket' = Append(socket,
                             DiffMsg(Current + 1, Stamp(stamped, Current + 1), d))
      BY <1>1, <2>2 DEF Change
    <3> DEFINE m == DiffMsg(Current + 1, Stamp(stamped, Current + 1), d)
    <3>2. m \in Message /\ m.ver = Len(hist) + 1
      BY <2>1 DEF DiffMsg, Message, Stamp, NoStamp, Current
    <3>3. /\ Len(socket') = Len(socket) + 1 /\ Len(socket) \in Nat
          /\ socket'[Len(socket) + 1] = m
      BY <3>1, <3>2, AppendProperties, LenProperties DEF TypeOK
    <3>4. socket' # <<>>
      BY <3>3, EmptySeq
    <3>5. LastRead \in Nat
      BY LastReadType
    <3>. QED
      BY <2>1, <2>2, <3>2, <3>3, <3>4, <3>5 DEF NothingMissing, Current
  <2>3. CASE ~joined
    BY <2>1, <2>3 DEF NothingMissing
  <2>. QED
    BY <2>2, <2>3
<1>2. CASE Join
  <2>1. /\ socket' = <<>> /\ buffer' = <<>> /\ from' = Current /\ pos' = Current
        /\ hist' = hist
    BY <1>2 DEF Join, NotJoined, clientVars
  <2>2. Current \in Nat /\ Current > 0 /\ Current' = Current
    BY <2>1, LenProperties DEF Current, TypeOK
  <2>. QED
    BY <2>1, <2>2, EmptySeq DEF NothingMissing, LastRead
<1>3. CASE SendAck
  <2>1. /\ Ack(Current) \in Message /\ Ack(Current).ver = Len(hist) /\ Len(hist) \in Nat
    BY LenProperties DEF Ack, Message, Current, NoStamp, TypeOK
  <2>2. /\ socket' = Append(socket, Ack(Current)) /\ hist' = hist /\ joined
        /\ LastRead' = LastRead /\ from' = from /\ pos' = pos
    BY <1>3 DEF SendAck, LastRead, clientVars, historyVars
  <2>3. /\ Len(socket') = Len(socket) + 1 /\ Len(socket) \in Nat
        /\ socket'[Len(socket) + 1] = Ack(Current)
    BY <2>1, <2>2, AppendProperties, LenProperties DEF TypeOK
  <2>4. socket' # <<>>
    BY <2>3, EmptySeq
  <2>. QED
    BY <2>1, <2>2, <2>3, <2>4 DEF NothingMissing, Current
<1>4. CASE \/ AnswerRest \/ Connect \/ ConfirmEarly \/ SnapshotOk \/ GoLive
           \/ UNCHANGED vars
  BY <1>4 DEF AnswerRest, Connect, ConfirmEarly, SnapshotOk, GoLive, NothingMissing,
       Current,
       LastRead, vars, exchangeVars, clientVars, historyVars
<1>5. CASE Replay \/ SnapshotFailed
  <2>1. /\ joined' = joined /\ hist' = hist /\ socket' = socket /\ from' = from
    BY <1>5 DEF Replay, SnapshotFailed, exchangeVars
  <2>2. /\ LastRead' = LastRead /\ LastRead \in Nat /\ pos' \in pos..LastRead
    BY <1>5, HandleMoves
  <2>. QED
    BY <2>1, <2>2 DEF NothingMissing, Current, TypeOK
<1>6. CASE Read
  <2>1. /\ socket # <<>> /\ socket' = Tail(socket)
        /\ hist' = hist /\ joined' = joined /\ from' = from
        /\ LastRead' = Head(socket).ver
        /\ pos' = pos \/ pos' = LastRead'
    BY <1>6, ReadMoves
  <2>2. /\ Head(socket) = socket[1] /\ 1 \in DOMAIN socket /\ Head(socket) \in Message
        /\ Len(socket) \in Nat /\ Len(socket) > 0 /\ DOMAIN socket = 1..Len(socket)
        /\ Len(Tail(socket)) = Len(socket) - 1
        /\ DOMAIN Tail(socket) = 1..(Len(socket) - 1)
        /\ \A i \in DOMAIN Tail(socket) : Tail(socket)[i] = socket[i + 1]
        /\ Tail(socket) = <<>> <=> Len(socket) = 1
    BY <2>1, ReadOne DEF TypeOK
  <2>3. /\ socket[1].ver <= Current
        /\ socket[1].ver = Step(socket[1]) + LastRead
        /\ LastRead \in Nat /\ Step(socket[1]) \in {0, 1}
    BY <2>2, LastReadType DEF SocketInOrder, Step
  <2>4. LastRead' <= Current' /\ Current' = Current /\ LastRead <= LastRead'
    BY <2>1, <2>2, <2>3 DEF Current
  <2>5. joined => Current = socket[Len(socket)].ver
    BY <2>1 DEF NothingMissing
  <2>6. joined => Current' = IF socket' = <<>> THEN LastRead'
                                               ELSE socket'[Len(socket')].ver
    <3>1. CASE Len(socket) = 1
      BY <3>1, <2>1, <2>2, <2>4, <2>5
    <3>2. CASE Len(socket) # 1
      <4>1. /\ socket' # <<>> /\ Len(socket') = Len(socket) - 1
            /\ Len(socket) - 1 \in DOMAIN Tail(socket)
            /\ (Len(socket) - 1) + 1 = Len(socket)
        BY <3>2, <2>1, <2>2
      <4>2. socket'[Len(socket')] = socket[Len(socket)]
        BY <4>1, <2>1, <2>2
      <4>. QED
        BY <4>1, <4>2, <2>4, <2>5
    <3>. QED
      BY <3>1, <3>2
  <2>7. joined => from' <= pos'
    <3>1. joined => from <= pos /\ pos <= LastRead /\ pos \in Nat /\ from \in Nat
      BY LenProperties DEF NothingMissing, LastRead, TypeOK
    <3>2. LastRead' \in Nat
      BY LenProperties DEF LastRead, TypeOK
    <3>. QED
      BY <3>1, <3>2, <2>1, <2>3, <2>4
  <2>. QED
    BY <2>1, <2>4, <2>6, <2>7 DEF NothingMissing
<1>7. CASE Disconnect
  BY <1>7, Zenon DEF Disconnect, NothingMissing
<1>. QED
  BY <1>1, <1>2, <1>3, <1>4, <1>5, <1>6, <1>7 DEF Next, Exchange, Handle

-----------------------------------------------------------------------------
\* A message stays genuine as the exchange goes on.
LEMMA StaysGenuine ==
  ASSUME TypeOK, TypeOK', [Next]_vars, NEW m, Genuine(hist, m)
  PROVE  Genuine(hist', m)
<1>1. /\ Current \in Nat /\ Current' \in Nat /\ Current <= Current'
      /\ \A v \in 1..Current : hist'[v] = hist[v]
  BY HistoryGrows
<1>2. ASSUME m.type = "diff"
      PROVE  /\ m.ver \in 2..Len(hist')
             /\ hist'[m.ver] = ApplyFully(hist'[m.ver - 1], m.levels)
             /\ \E stamped \in Stamps : m.us = Stamp(stamped, m.ver)
  <2>1. /\ m.ver \in 2..Len(hist)
        /\ hist[m.ver] = ApplyFully(hist[m.ver - 1], m.levels)
        /\ \E stamped \in Stamps : m.us = Stamp(stamped, m.ver)
    BY <1>2 DEF Genuine
  <2>2. m.ver \in 1..Current /\ m.ver - 1 \in 1..Current
    BY <1>1, <2>1 DEF Current
  <2>. QED
    BY <1>1, <2>1, <2>2 DEF Current
<1>. QED
  BY <1>2 DEF Genuine

\* The message sent about a change is genuine.
LEMMA SendsGenuine ==
  ASSUME TypeOK, NEW d \in Diffs, Change(d), joined
  PROVE  \E m \in Message : socket' = Append(socket, m) /\ Genuine(hist', m)
<1>1. PICK stamped \in Stamps :
        socket' = Append(socket, DiffMsg(Current + 1, Stamp(stamped, Current + 1), d))
  BY DEF Change
<1>2. Current \in Nat /\ Current > 0 /\ Current \in 1..Len(hist)
  BY LenProperties DEF Current, TypeOK
<1>3. ApplyFully(hist[Current], d) \in Book
  BY <1>2, ApplyType, ElementOfSeq DEF TypeOK
<1>4. /\ Len(hist') = Current + 1
      /\ hist'[Current] = hist[Current]
      /\ hist'[Current + 1] = ApplyFully(hist[Current], d)
  BY <1>2, <1>3, AppendProperties DEF Change, Current, TypeOK
<1> DEFINE m == DiffMsg(Current + 1, Stamp(stamped, Current + 1), d)
<1>5. m \in Message
  BY <1>2 DEF DiffMsg, Message, Stamp, NoStamp
<1>6. m.ver = Current + 1 /\ m.levels = d /\ m.us = Stamp(stamped, m.ver)
  BY DEF DiffMsg
<1>7. m.ver \in 2..Len(hist') /\ m.ver - 1 = Current
  BY <1>2, <1>4, <1>6
<1>8. Genuine(hist', m)
  BY <1>4, <1>6, <1>7 DEF Genuine
<1>. QED
  BY <1>1, <1>5, <1>8

\* A sequence that ends in a genuine message after genuine ones.
LEMMA AppendGenuine ==
  ASSUME NEW h, NEW q \in Seq(Message), NEW m \in Message, Genuine(h, m),
         \A i \in DOMAIN q : Genuine(h, q[i])
  PROVE  \A i \in DOMAIN Append(q, m) : Genuine(h, Append(q, m)[i])
<1>1. /\ DOMAIN q = 1..Len(q) /\ Len(q) \in Nat
      /\ DOMAIN Append(q, m) = 1..(Len(q) + 1)
      /\ \A i \in 1..Len(q) : Append(q, m)[i] = q[i]
      /\ Append(q, m)[Len(q) + 1] = m
  BY AppendProperties, LenProperties
<1>2. \A i \in 1..(Len(q) + 1) : i \in 1..Len(q) \/ i = Len(q) + 1
  BY <1>1
<1>. QED
  BY <1>1, <1>2

\* Of messages the exchange sent, the first and the rest are such.
LEMMA TailGenuine ==
  ASSUME NEW h, NEW q \in Seq(Message), q # <<>>,
         \A i \in DOMAIN q : Genuine(h, q[i])
  PROVE  /\ Genuine(h, Head(q))
         /\ \A i \in DOMAIN Tail(q) : Genuine(h, Tail(q)[i])
  BY ReadOne

\* A message is sent from the history, and the history only grows.
LEMMA StepGenuineMessages ==
  ASSUME TypeOK, TypeOK', NotJoined, GenuineMessages, [Next]_vars
  PROVE  GenuineMessages'
<1>1. /\ \A i \in DOMAIN buffer : Genuine(hist', buffer[i])
      /\ \A i \in DOMAIN socket : Genuine(hist', socket[i])
  BY StaysGenuine DEF GenuineMessages
<1> SUFFICES /\ \A i \in DOMAIN buffer' : Genuine(hist', buffer'[i])
             /\ \A i \in DOMAIN socket' : Genuine(hist', socket'[i])
  BY DEF GenuineMessages
<1>2. ASSUME NEW d \in Diffs, Change(d), joined
      PROVE  /\ \A i \in DOMAIN buffer' : Genuine(hist', buffer'[i])
             /\ \A i \in DOMAIN socket' : Genuine(hist', socket'[i])
  <2>1. PICK m \in Message : socket' = Append(socket, m) /\ Genuine(hist', m)
    BY <1>2, SendsGenuine
  <2>2. socket \in Seq(Message) /\ buffer' = buffer
    BY <1>2 DEF Change, clientVars, TypeOK
  <2>. QED
    BY <1>1, <2>1, <2>2, AppendGenuine
<1>3. ASSUME NEW d \in Diffs, Change(d), ~joined
      PROVE  socket' = socket /\ buffer' = buffer
  BY <1>3 DEF Change, clientVars
<1>4. CASE SendAck
  <2>1. /\ Ack(Current) \in Message /\ Genuine(hist', Ack(Current))
        /\ socket \in Seq(Message)
    BY LenProperties DEF Ack, Message, Current, NoStamp, TypeOK, Genuine
  <2>2. socket' = Append(socket, Ack(Current)) /\ buffer' = buffer
    BY <1>4 DEF SendAck, clientVars
  <2>. QED
    BY <1>1, <2>1, <2>2, AppendGenuine
<1>5. CASE BufferDiff
  <2>1. /\ socket # <<>> /\ socket \in Seq(Message) /\ buffer \in Seq(Message)
        /\ Head(socket) \in Message
        /\ socket' = Tail(socket) /\ buffer' = Append(buffer, Head(socket))
    BY <1>5, ReadOne DEF BufferDiff, TypeOK
  <2>2. /\ Genuine(hist', Head(socket))
        /\ \A i \in DOMAIN Tail(socket) : Genuine(hist', Tail(socket)[i])
    BY <1>1, <2>1, TailGenuine
  <2>. QED
    BY <1>1, <2>1, <2>2, AppendGenuine
<1>6. CASE Confirm \/ LiveDiff \/ LiveEvent
  <2>1. socket # <<>> /\ socket \in Seq(Message) /\ socket' = Tail(socket)
    BY <1>6 DEF Confirm, LiveDiff, LiveEvent, TypeOK
  <2>2. buffer' = buffer
    BY <1>6 DEF Confirm, LiveDiff, LiveEvent, clientVars
  <2>. QED
    BY <1>1, <2>1, <2>2, TailGenuine
<1>7. CASE Replay
  <2>1. /\ buffer # <<>> /\ buffer \in Seq(Message) /\ buffer' = Tail(buffer)
        /\ socket' = socket
    BY <1>7 DEF Replay, TypeOK
  <2>. QED
    BY <1>1, <2>1, TailGenuine
<1>8. CASE SnapshotFailed \/ Disconnect
  BY <1>1, <1>8 DEF SnapshotFailed, Disconnect
<1>9. CASE \/ Join \/ AnswerRest \/ Connect \/ ConfirmEarly \/ SnapshotOk \/ GoLive
           \/ UNCHANGED vars
  BY <1>1, <1>9 DEF Join, AnswerRest, Connect, ConfirmEarly, SnapshotOk, GoLive, vars,
     clientVars
<1>. QED
  BY <1>1, <1>2, <1>3, <1>4, <1>5, <1>6, <1>7, <1>8, <1>9
  DEF Next, Exchange, Read, Handle

-----------------------------------------------------------------------------
\* m is the diff that leads from the last version processed to the next.
NextDiff(m) ==
  /\ m \in Message
  /\ pos \in 1..Current /\ pos + 1 \in 1..Current
  /\ m.ver = pos + 1
  /\ hist[pos + 1] = ApplyFully(hist[pos], m.levels)
  /\ \E stamped \in Stamps : m.us = Stamp(stamped, m.ver)

\* What Replay and LiveDiff process is the next diff.
LEMMA ProcessesNext ==
  ASSUME TypeOK, NotJoined, Phases, BufferInOrder, SocketInOrder, NothingMissing,
         GenuineMessages
  PROVE  /\ Replay => NextDiff(Head(buffer))
         /\ LiveDiff => NextDiff(Head(socket))
<1>1. ASSUME NEW m \in Message, m.type = "diff", m.ver = pos + 1, Genuine(hist, m),
             joined
      PROVE  NextDiff(m)
  <2>1. pos \in Nat /\ pos > 0
    BY <1>1 DEF NothingMissing, TypeOK
  <2>2. m.ver \in 2..Current /\ Current \in Nat
    BY <1>1, LenProperties DEF Genuine, Current, TypeOK
  <2>. QED
    BY <1>1, <2>1, <2>2 DEF NextDiff, Genuine
<1>2. ASSUME Replay
      PROVE  NextDiff(Head(buffer))
  <2>1. /\ Head(buffer) = buffer[1] /\ 1 \in DOMAIN buffer /\ Head(buffer) \in Message
    BY <1>2, ReadOne DEF Replay, TypeOK
  <2>2. joined
    BY <1>2 DEF Replay, NotJoined
  <2>. QED
    BY <1>1, <2>1, <2>2 DEF BufferInOrder, GenuineMessages
<1>3. ASSUME LiveDiff
      PROVE  NextDiff(Head(socket))
  <2>1. /\ Head(socket) = socket[1] /\ 1 \in DOMAIN socket /\ Head(socket) \in Message
        /\ Head(socket).type = "diff"
    BY <1>3, ReadOne DEF LiveDiff, TypeOK
  <2>2. joined
    BY <1>3 DEF LiveDiff, NotJoined
  <2>3. LastRead = pos /\ pos \in Nat
    BY <1>3, EmptySeq DEF LiveDiff, Phases, LastRead, TypeOK
  <2>4. socket[1].ver = pos + 1
    BY <2>1, <2>3 DEF SocketInOrder, Step
  <2>. QED
    BY <1>1, <2>1, <2>2, <2>4 DEF GenuineMessages
<1>. QED
  BY <1>2, <1>3

\* What one diff does to one level, in the book and in what was reported.
LEMMA AppliesLevel ==
  ASSUME TypeOK, NEW m, NextDiff(m), ApplyDiff(m),
         hist' = hist, pos' = m.ver, reply' = reply,
         NEW s \in Sides, NEW p \in Prices
  PROVE  /\ <<s, p>> \notin fresh' =>
              <<s, p>> \notin fresh /\ hist[pos + 1][s][p] = hist[pos][s][p]
         /\ (AdmitsAll /\ book[s][p] = Reported(s, p)) =>
              book'[s][p] = Reported(s, p)'
         /\ (KeepsUpdates /\ (book[s][p] # 0 => book[s][p] = Reported(s, p))) =>
              (book'[s][p] # 0 => book'[s][p] = Reported(s, p)')
         /\ (book[s][p] # 0 => Reported(s, p) # 0) =>
              (book'[s][p] # 0 => Reported(s, p)' # 0)
<1> DEFINE l == m.levels[s]
           lv == book[s]
           hv == hist[pos][s]
           touched == Touches(l, DOMAIN l, p)
<1>1. l \in Seq(Entry) /\ DistinctPrices(l)
  BY DiffEntries DEF NextDiff, Message
<1>2. lv \in Levels /\ hv \in Levels
  <2>1. hist[pos] \in Book
    BY ElementOfSeq DEF NextDiff, TypeOK, Current
  <2>. QED
    BY <2>1 DEF Book, TypeOK
<1>3. /\ book'[s] = Upsert(lv, l, FilterDiff(s, lv, l))
      /\ hist[pos + 1][s] = Upsert(hv, l, DOMAIN l)
  BY DEF ApplyDiff, ProcessDiff, NextDiff, ApplyFully
<1>4. /\ ~touched => /\ hist[pos + 1][s][p] = hist[pos][s][p]
                     /\ book'[s][p] = book[s][p]
      /\ (AdmitsAll /\ touched) => book'[s][p] = hist[pos + 1][s][p]
      /\ (KeepsUpdates /\ touched /\ book'[s][p] # 0) =>
            book'[s][p] = hist[pos + 1][s][p]
      /\ (touched /\ book'[s][p] # 0) => hist[pos + 1][s][p] # 0
  BY <1>1, <1>2, <1>3, DiffStep
<1>5. <<s, p>> \in fresh' <=> <<s, p>> \in fresh \/ touched
  BY DEF ApplyDiff, Touched
<1>6. Reported(s, p) = IF <<s, p>> \in fresh THEN hist[pos][s][p]
                       ELSE IF reply = NoReply THEN 0 ELSE hist[reply.ver][s][p]
  BY DEF Reported
<1>7. Reported(s, p)' = IF <<s, p>> \in fresh' THEN hist[pos + 1][s][p]
                        ELSE IF reply = NoReply THEN 0 ELSE hist[reply.ver][s][p]
  BY DEF Reported, NextDiff
<1>8. touched => Reported(s, p)' = hist[pos + 1][s][p]
  BY <1>5, <1>7
<1>9. ~touched => Reported(s, p)' = Reported(s, p)
  BY <1>4, <1>5, <1>6, <1>7
<1>. HIDE DEF touched
<1>. QED
  BY <1>4, <1>5, <1>8, <1>9

\* Every other step of a connection with a book leaves the book, and what it
\* is judged by, alone.
LEMMA OtherSteps ==
  ASSUME NotJoined, [Next]_vars, Serving',
         ~Replay, ~LiveDiff, ~SnapshotOk, ~SnapshotFailed, ~Join
  PROVE  /\ Serving /\ (pc' = "replaying" => pc = "replaying")
         /\ reply' = reply /\ book' = book /\ from' = from /\ pos' = pos
         /\ fresh' = fresh
<1> USE DEF Serving
<1>1. ASSUME NEW d \in Diffs, Change(d)
      PROVE  /\ pc' = pc /\ reply' = reply /\ book' = book /\ from' = from
             /\ pos' = pos /\ fresh' = fresh
  BY <1>1 DEF Change, clientVars, historyVars
<1>2. CASE \/ AnswerRest \/ Connect \/ BufferDiff \/ Confirm \/ ConfirmEarly
           \/ Disconnect
  BY <1>2 DEF AnswerRest, Connect, BufferDiff, Confirm, ConfirmEarly, Disconnect
<1>3. CASE SendAck \/ LiveEvent \/ UNCHANGED vars
  BY <1>3 DEF SendAck, LiveEvent, vars, clientVars, historyVars
<1>4. CASE GoLive
  BY <1>4 DEF GoLive, historyVars
<1>. QED
  BY <1>1, <1>2, <1>3, <1>4 DEF Next, Exchange, Read, Handle

\* The order book subscription takes effect before any diff is applied.
LEMMA JoinFirst ==
  ASSUME NotJoined, Join
  PROVE  /\ pc' = pc /\ hist' = hist /\ reply' = reply /\ book' = book
         /\ fresh = {} /\ fresh' = {}
         /\ from' = Current /\ pos' = Current
  BY DEF NotJoined, Join, clientVars

\* A client that has caught up receives diffs.
LEMMA CaughtUpJoined ==
  ASSUME TypeOK, NotJoined, NothingMissing, CaughtUp
  PROVE  /\ joined /\ pos \in 1..Current
         /\ reply.ver \in 1..Current /\ reply.ver \in from..pos
<1>1. reply.ver \in Nat /\ reply.ver # 0 /\ reply.ver <= pos /\ from <= reply.ver
  BY DEF TypeOK, CaughtUp, Reply
<1>2. joined
  BY <1>1 DEF NotJoined
<1>3. pos \in 1..Current
  BY <1>2, LenProperties DEF NothingMissing, LastRead, TypeOK, Current
<1>. QED
  BY <1>1, <1>2, <1>3, LenProperties DEF TypeOK, Current

\* What is reported of a level changes only with what is processed.
LEMMA ReportedStays ==
  ASSUME TypeOK, TypeOK', [Next]_vars, NotJoined, NothingMissing,
         reply' = reply, pos' = pos, fresh' = fresh,
         NEW s \in Sides, NEW p \in Prices
  PROVE  Reported(s, p)' = Reported(s, p)
<1>1. <<s, p>> \in fresh => pos \in 1..Current
  BY LenProperties DEF NotJoined, NothingMissing, LastRead, TypeOK, Current
<1>2. reply # NoReply => reply.ver \in 1..Current
  BY LenProperties DEF TypeOK, Reply, Current
<1>3. \A v \in 1..Current : hist'[v] = hist[v]
  BY HistoryGrows
<1>. QED
  BY <1>1, <1>2, <1>3 DEF Reported

\* Diffs carry stamps, or they do not.
LEMMA OneStamping == Uniform => Stamps = {TRUE} \/ Stamps = {FALSE}
  BY FeedAssumption, Zenon DEF Uniform

\* A diff is discarded only before any is applied, only up to the version of
\* the snapshot, and only where diffs carry stamps.
LEMMA Discards ==
  ASSUME TypeOK, Phases, DiscardedFirst, Uniform, Replay,
         NextDiff(Head(buffer)), ~Kept(Head(buffer))
  PROVE  /\ Stamps = {TRUE} /\ pos + 1 <= reply.ver /\ reply.ver = reply.us /\ fresh = {}
         /\ book' = book /\ fresh' = {} /\ pos' = pos + 1
<1>0. Head(buffer).us # NoStamp /\ Stamps = {TRUE}
  <2>1. Head(buffer).us # NoStamp
    BY DEF Kept
  <2>2. \E stamped \in Stamps : stamped = TRUE
    BY <2>1 DEF NextDiff, Stamp
  <2>3. Stamps = {TRUE}
    BY <2>2, OneStamping DEF Uniform
  <2>. QED
    BY <2>1, <2>3
<1>1. /\ Head(buffer).us = pos + 1 /\ pos \in Nat /\ pos > 0
      /\ pos' = pos + 1 /\ book' = book /\ fresh' = fresh
      /\ pc = "replaying"
  BY <1>0 DEF NextDiff, Replay, TypeOK, Stamp
<1>2. pos + 1 <= reply.us /\ reply.us \in Nat
  BY <1>1 DEF Kept, TypeOK, Reply
<1>3. reply.us = reply.ver
  BY <1>1, <1>2 DEF Phases
<1>4. fresh = {}
  BY <1>0, <1>1, <1>2 DEF DiscardedFirst
<1>. QED
  BY <1>0, <1>1, <1>2, <1>3, <1>4

-----------------------------------------------------------------------------
\* While stamped diffs are discarded none is applied.
LEMMA StepDiscardedFirst ==
  ASSUME TypeOK, TypeOK', NotJoined, Phases, BufferInOrder, SocketInOrder,
         NothingMissing, GenuineMessages, DiscardedFirst, [Next]_vars
  PROVE  DiscardedFirst'
<1> SUFFICES ASSUME Stamps = {TRUE}, pc' = "replaying", pos' < reply'.us
             PROVE  fresh' = {}
  BY DEF DiscardedFirst
<1>0. Uniform
  BY DEF Uniform
<1>1. CASE Replay
  <2>1. NextDiff(Head(buffer)) /\ reply' = reply /\ pos' = pos + 1
    BY <1>1, ProcessesNext DEF Replay, NextDiff
  <2>2. ~Kept(Head(buffer))
    BY <1>1, <2>1 DEF Kept, NextDiff, Stamp, NoStamp, TypeOK, Reply
  <2>. QED
    BY <1>0, <1>1, <2>1, <2>2, Discards
<1>2. CASE SnapshotOk
  BY <1>2 DEF SnapshotOk, Phases, historyVars
<1>3. CASE LiveDiff \/ SnapshotFailed
  BY <1>3 DEF LiveDiff, SnapshotFailed
<1>5. CASE Join
  BY <1>5, JoinFirst
<1>4. CASE ~(Replay \/ SnapshotOk \/ LiveDiff \/ SnapshotFailed \/ Join)
  <2>1. pc = "replaying" /\ reply' = reply /\ pos' = pos /\ fresh' = fresh
    BY <1>4, OtherSteps DEF Serving
  <2>. QED
    BY <2>1 DEF DiscardedFirst
<1>. QED
  BY <1>1, <1>2, <1>3, <1>4, <1>5

\* A level no applied diff touched is still as the snapshot has it.
LEMMA StepUntouched ==
  ASSUME TypeOK, TypeOK', NotJoined, Phases, BufferInOrder, SocketInOrder,
         NothingMissing, GenuineMessages, DiscardedFirst, Untouched, [Next]_vars
  PROVE  Untouched'
<1> SUFFICES ASSUME Stamps = {TRUE}, CaughtUp', NEW s \in Sides, NEW p \in Prices,
                    <<s, p>> \notin fresh'
             PROVE  hist'[pos'][s][p] = hist'[reply'.ver][s][p]
  BY DEF Untouched
<1> USE DEF CaughtUp
<1>1. ASSUME NEW m, NextDiff(m), ApplyDiff(m), hist' = hist, pos' = m.ver,
             reply' = reply, from' = from, Serving
      PROVE  hist'[pos'][s][p] = hist'[reply'.ver][s][p]
  <2>1. <<s, p>> \notin fresh /\ hist[pos + 1][s][p] = hist[pos][s][p]
    BY <1>1, AppliesLevel
  <2>2. pos' = pos + 1 /\ pos \in Nat /\ reply.ver \in Nat
    BY <1>1 DEF NextDiff, TypeOK, Reply
  <2>3. CASE reply.ver = pos + 1
    BY <1>1, <2>2, <2>3
  <2>4. CASE reply.ver # pos + 1
    <3>1. CaughtUp
      BY <1>1, <2>2, <2>4
    <3>. QED
      BY <1>1, <2>1, <2>2, <3>1 DEF Untouched
  <2>. QED
    BY <2>3, <2>4
<1>2. CASE Replay
  <2>1. /\ NextDiff(Head(buffer)) /\ reply' = reply /\ pos' = Head(buffer).ver
        /\ hist' = hist /\ from' = from /\ Serving
    BY <1>2, ProcessesNext DEF Replay, Serving, exchangeVars
  <2>2. CASE Kept(Head(buffer))
    BY <1>1, <1>2, <2>1, <2>2 DEF Replay
  <2>3. CASE ~Kept(Head(buffer))
    <3>1. pos + 1 <= reply.ver /\ pos' = pos + 1
      BY <1>2, <2>1, <2>3, Discards DEF Uniform
    <3>2. pos' = reply.ver
      BY <2>1, <3>1 DEF TypeOK, Reply
    <3>. QED
      BY <2>1, <3>2
  <2>. QED
    BY <2>2, <2>3
<1>3. CASE LiveDiff
  <2>1. /\ NextDiff(Head(socket)) /\ reply' = reply /\ pos' = Head(socket).ver
        /\ hist' = hist /\ from' = from /\ Serving /\ ApplyDiff(Head(socket))
    BY <1>3, ProcessesNext DEF LiveDiff, Serving, exchangeVars
  <2>. QED
    BY <1>1, <2>1
<1>4. CASE SnapshotOk
  <2>1. pos = from /\ pos' = pos /\ from' = from /\ reply' = reply
    BY <1>4 DEF SnapshotOk, Phases, historyVars
  <2>2. pos' = reply'.ver
    BY <2>1 DEF TypeOK, Reply
  <2>. QED
    BY <2>2
<1>5. CASE SnapshotFailed
  BY <1>5 DEF SnapshotFailed
<1>7. CASE Join
  <2>1. from' = pos'
    BY <1>7, JoinFirst
  <2>2. pos' = reply'.ver
    BY <2>1 DEF TypeOK, Reply
  <2>. QED
    BY <2>2
<1>6. CASE ~(Replay \/ SnapshotOk \/ LiveDiff \/ SnapshotFailed \/ Join)
  <2>1. /\ Serving /\ reply' = reply /\ pos' = pos /\ fresh' = fresh /\ from' = from
    BY <1>6, OtherSteps
  <2>2. hist[pos][s][p] = hist[reply.ver][s][p]
    BY <2>1 DEF Untouched
  <2>3. pos \in 1..Current /\ reply.ver \in 1..Current
    BY <2>1, CaughtUpJoined
  <2>4. hist'[pos] = hist[pos] /\ hist'[reply.ver] = hist[reply.ver]
    BY <2>3, HistoryGrows
  <2>. QED
    BY <2>1, <2>2, <2>4
<1>. QED
  BY <1>2, <1>3, <1>4, <1>5, <1>6, <1>7

\* Without stamps: a level no applied diff touched is as it was when the
\* subscription took effect.
LEMMA StepUnchanged ==
  ASSUME TypeOK, TypeOK', NotJoined, Phases, BufferInOrder, SocketInOrder,
         NothingMissing, NothingMissing', GenuineMessages, DiscardedFirst, Unchanged,
         [Next]_vars
  PROVE  Unchanged'
<1> SUFFICES ASSUME Stamps = {FALSE}, joined', pc' = "live" => reply' # NoReply,
                    NEW s \in Sides, NEW p \in Prices, <<s, p>> \notin fresh',
                    NEW v \in from'..pos'
             PROVE  hist'[v][s][p] = hist'[from'][s][p]
  BY DEF Unchanged
<1>1. ASSUME NEW m, NextDiff(m), ApplyDiff(m), hist' = hist, pos' = m.ver,
             reply' = reply, from' = from, joined, pc = "live" => reply # NoReply
      PROVE  hist'[v][s][p] = hist'[from'][s][p]
  <2>1. <<s, p>> \notin fresh /\ hist[pos + 1][s][p] = hist[pos][s][p]
    BY <1>1, AppliesLevel
  <2>2. pos' = pos + 1 /\ pos \in Nat /\ from \in Nat /\ from <= pos
    BY <1>1 DEF NextDiff, TypeOK, NothingMissing
  <2>3. \A w \in from..pos : hist[w][s][p] = hist[from][s][p]
    BY <1>1, <2>1 DEF Unchanged
  <2>4. v \in from..pos \/ v = pos + 1
    BY <1>1, <2>2
  <2>5. pos \in from..pos
    BY <2>2
  <2>. QED
    BY <1>1, <2>1, <2>3, <2>4, <2>5
<1>2. CASE Replay
  <2>1. /\ NextDiff(Head(buffer)) /\ reply' = reply /\ pos' = Head(buffer).ver
        /\ hist' = hist /\ from' = from /\ joined' = joined /\ pc = "replaying"
    BY <1>2, ProcessesNext DEF Replay, exchangeVars
  <2>2. Kept(Head(buffer))
    <3>1. Uniform /\ Stamps # {TRUE}
      BY Zenon DEF Uniform
    <3>. QED
      BY <1>2, <2>1, <3>1, Discards
  <2>. QED
    BY <1>1, <1>2, <2>1, <2>2 DEF Replay
<1>3. CASE LiveDiff
  <2>1. /\ NextDiff(Head(socket)) /\ reply' = reply /\ pos' = Head(socket).ver
        /\ hist' = hist /\ from' = from /\ joined' = joined
        /\ pc' = pc /\ ApplyDiff(Head(socket))
    BY <1>3, ProcessesNext DEF LiveDiff, exchangeVars
  <2>. QED
    BY <1>1, <2>1
<1>4. CASE Join
  <2>1. from' = pos'
    BY <1>4, JoinFirst
  <2>2. v = from'
    BY <2>1 DEF TypeOK
  <2>. QED
    BY <2>2
<1>5. CASE SnapshotFailed
  BY <1>5 DEF SnapshotFailed
<1>6. CASE Disconnect
  BY <1>6, Zenon DEF Disconnect
<1>7. ASSUME joined, fresh' = fresh, from' = from, pos' = pos,
             pc = "live" => reply # NoReply
      PROVE  hist'[v][s][p] = hist'[from'][s][p]
  <2>1. hist[v][s][p] = hist[from][s][p]
    BY <1>7 DEF Unchanged
  <2>2. v \in 1..Current /\ from \in 1..Current
    BY <1>7, LenProperties DEF NothingMissing, LastRead, TypeOK, Current
  <2>3. hist'[v] = hist[v] /\ hist'[from] = hist[from]
    BY <2>2, HistoryGrows
  <2>. QED
    BY <1>7, <2>1, <2>3
<1>8. CASE ~(Replay \/ LiveDiff \/ Join \/ SnapshotFailed \/ Disconnect)
  <2>1. /\ joined' = joined /\ fresh' = fresh /\ from' = from /\ pos' = pos
    BY <1>8 DEF Next, Exchange, Read, Handle, Change, SendAck, AnswerRest, Connect,
       BufferDiff, Confirm, ConfirmEarly, LiveEvent, SnapshotOk, GoLive, vars,
       exchangeVars, historyVars
  <2>2. pc = "live" => reply # NoReply
    BY <1>8 DEF Next, Exchange, Read, Handle, Change, SendAck, AnswerRest, Connect,
       BufferDiff, Confirm, ConfirmEarly, LiveEvent, SnapshotOk, GoLive, vars,
       clientVars
  <2>. QED
    BY <1>7, <2>1, <2>2
<1>. QED
  BY <1>2, <1>3, <1>4, <1>5, <1>6, <1>8

\* BookIsReported, NoStaleLevel and NoGhostReported at one level, for one lemma
\* about the three.
Faithful(s, p) ==
  /\ KeepsAll => book[s][p] = Reported(s, p)
  /\ KeepsUpdates => (book[s][p] # 0 => book[s][p] = Reported(s, p))
  /\ book[s][p] # 0 => Reported(s, p) # 0

\* What the invariants say of one level.
LEMMA FaithfulLevels ==
  ASSUME TypeOK, BookIsReported, NoStaleLevel, NoGhostReported, Uniform, Serving,
         NEW s \in Sides, NEW p \in Prices
  PROVE  Faithful(s, p)
  BY DEF Faithful, BookIsReported, NoStaleLevel, NoGhostReported, Listed

\* A level that is served stays faithful.
LEMMA StepFaithful ==
  ASSUME TypeOK, TypeOK', NotJoined, Phases, BufferInOrder, SocketInOrder,
         NothingMissing, GenuineMessages, DiscardedFirst, BookIsReported,
         NoStaleLevel, NoGhostReported, [Next]_vars,
         Uniform, Serving', NEW s \in Sides, NEW p \in Prices
  PROVE  Faithful(s, p)'
<1>1. ASSUME NEW m, NextDiff(m), ApplyDiff(m), hist' = hist, pos' = m.ver,
             reply' = reply, Serving
      PROVE  Faithful(s, p)'
  BY <1>1, AppliesLevel, FaithfulLevels DEF Faithful, KeepsAll
<1>2. CASE Replay
  <2>1. /\ NextDiff(Head(buffer)) /\ reply' = reply /\ pos' = Head(buffer).ver
        /\ hist' = hist /\ Serving
    BY <1>2, ProcessesNext DEF Replay, Serving, exchangeVars
  <2>2. CASE Kept(Head(buffer))
    BY <1>1, <1>2, <2>1, <2>2 DEF Replay
  <2>3. CASE ~Kept(Head(buffer))
    <3>1. fresh = {} /\ fresh' = {} /\ book' = book
      BY <1>2, <2>1, <2>3, Discards
    <3>2. Reported(s, p)' = Reported(s, p)
      BY <2>1, <3>1 DEF Reported
    <3>. QED
      BY <2>1, <3>1, <3>2, FaithfulLevels DEF Faithful
  <2>. QED
    BY <2>2, <2>3
<1>3. CASE LiveDiff
  <2>1. /\ NextDiff(Head(socket)) /\ reply' = reply /\ pos' = Head(socket).ver
        /\ hist' = hist /\ Serving /\ ApplyDiff(Head(socket))
    BY <1>3, ProcessesNext DEF LiveDiff, Serving, exchangeVars
  <2>. QED
    BY <1>1, <2>1
<1>4. CASE SnapshotOk
  <2>1. /\ reply # NoReply /\ reply' = reply /\ hist' = hist /\ fresh' = {}
        /\ book' = ProcessSnapshot(hist[reply.ver])
    BY <1>4 DEF SnapshotOk, Phases, exchangeVars, historyVars
  <2>2. hist[reply.ver] \in Book
    <3>1. reply.ver \in 1..Len(hist)
      BY <2>1, LenProperties DEF TypeOK, Reply
    <3>. QED
      BY <3>1, ElementOfSeq DEF TypeOK
  <2>3. Reported(s, p)' = hist[reply.ver][s][p]
    BY <2>1 DEF Reported
  <2>4. KeepsAll => book' = hist[reply.ver]
    BY <2>1, <2>2, WideKeepsSnapshot
  <2>5. book'[s][p] # 0 => book'[s][p] = hist[reply.ver][s][p]
    BY <2>1, <2>2, SnapshotAt DEF Listed
  <2>. QED
    BY <2>3, <2>4, <2>5 DEF Faithful
<1>5. CASE SnapshotFailed
  BY <1>5 DEF SnapshotFailed, Phases, Reported, Faithful, EmptyBook, EmptyLevels
<1>7. CASE Join
  <2>1. /\ Serving /\ reply' = reply /\ hist' = hist /\ book' = book
        /\ fresh = {} /\ fresh' = {}
    BY <1>7, JoinFirst DEF Serving
  <2>2. Reported(s, p)' = Reported(s, p)
    BY <2>1 DEF Reported
  <2>. QED
    BY <2>1, <2>2, FaithfulLevels DEF Faithful
<1>6. CASE ~(Replay \/ SnapshotOk \/ LiveDiff \/ SnapshotFailed \/ Join)
  <2>1. /\ Serving /\ reply' = reply /\ pos' = pos /\ fresh' = fresh /\ book' = book
    BY <1>6, OtherSteps
  <2>2. Reported(s, p)' = Reported(s, p)
    BY <2>1, ReportedStays
  <2>. QED
    BY <2>1, <2>2, FaithfulLevels DEF Faithful
<1>. QED
  BY <1>2, <1>3, <1>4, <1>5, <1>6, <1>7

\* The book stays faithful.
LEMMA StepBook ==
  ASSUME TypeOK, TypeOK', NotJoined, Phases, BufferInOrder, SocketInOrder,
         NothingMissing, GenuineMessages, DiscardedFirst, BookIsReported,
         NoStaleLevel, NoGhostReported, [Next]_vars
  PROVE  BookIsReported' /\ NoStaleLevel' /\ NoGhostReported'
<1>1. (Uniform /\ Serving') =>
         \A s \in Sides : \A p \in Prices : Faithful(s, p)'
  BY StepFaithful
<1>. QED
  BY <1>1 DEF Faithful, BookIsReported, NoStaleLevel, NoGhostReported, Listed

-----------------------------------------------------------------------------
\* At the start nothing is sent and nothing served.
LEMMA InitIInv == Init => IInv
<1> SUFFICES ASSUME Init PROVE IInv
  OBVIOUS
<1>1. TypeOK
  BY InitTypeOK
<1>2. NotJoined /\ BufferInOrder /\ SocketInOrder /\ GenuineMessages /\ NothingMissing
  <2>1. ~joined
    BY Zenon DEF Init
  <2>. QED
    BY <2>1 DEF Init, NotJoined, BufferInOrder, SocketInOrder, GenuineMessages,
       NothingMissing
<1>3. /\ Phases /\ DiscardedFirst /\ Untouched
      /\ BookIsReported /\ NoStaleLevel /\ NoGhostReported
  BY DEF Init, Phases, DiscardedFirst, Untouched, BookIsReported, NoStaleLevel,
     NoGhostReported, Serving, CaughtUp, NoReply
<1>4. Unchanged
  BY Zenon DEF Init, Unchanged
<1>. QED
  BY <1>1, <1>2, <1>3, <1>4 DEF IInv

\* Every step keeps every part.
LEMMA NextIInv == IInv /\ [Next]_vars => IInv'
<1> SUFFICES ASSUME IInv, [Next]_vars PROVE IInv'
  OBVIOUS
<1> USE DEF IInv
<1>1. TypeOK'
  BY NextTypeOK
<1>2. NotJoined' /\ Phases'
  BY StepNotJoined, StepPhases
<1>3. BufferInOrder' /\ SocketInOrder' /\ NothingMissing'
  BY <1>1, StepBufferInOrder, StepSocketInOrder, StepNothingMissing
<1>4. GenuineMessages'
  BY <1>1, StepGenuineMessages
<1>5. DiscardedFirst' /\ Untouched' /\ Unchanged'
  BY <1>1, <1>3, StepDiscardedFirst, StepUntouched, StepUnchanged
<1>6. BookIsReported' /\ NoStaleLevel' /\ NoGhostReported'
  BY <1>1, StepBook
<1>. QED
  BY <1>1, <1>2, <1>3, <1>4, <1>5, <1>6

\* The inductive invariant holds in every reachable state.
THEOREM InvariantHolds == Spec => []IInv
  BY InitIInv, NextIInv, PTL DEF Spec

\* The book is what the messages processed report, level by level, through the
\* discard, the replay and the diffs left in the socket (ws.rs 391-468).
THEOREM BookReportedHolds == Spec => []BookIsReported
<1>1. IInv => BookIsReported
  BY DEF IInv
<1>. QED
  BY <1>1, InvariantHolds, PTL

\* A level in the book of a client that passes every update on has the size
\* the processed messages report for it.
THEOREM NoStaleLevelHolds == Spec => []NoStaleLevel
<1>1. IInv => NoStaleLevel
  BY DEF IInv
<1>. QED
  BY <1>1, InvariantHolds, PTL

\* Caught up, a level no applied diff touched is as the snapshot has it.
LEMMA UntouchedLevel ==
  ASSUME IInv, Uniform, CaughtUp,
         NEW s \in Sides, NEW p \in Prices, <<s, p>> \notin fresh
  PROVE  hist[pos][s][p] = hist[reply.ver][s][p]
<1>1. CASE Stamps = {TRUE}
  BY <1>1 DEF IInv, Untouched
<1>2. CASE Stamps = {FALSE}
  <2>1. joined /\ reply.ver \in from..pos /\ reply # NoReply
    BY CaughtUpJoined DEF IInv, CaughtUp
  <2>2. pos \in from..pos
    BY <2>1 DEF IInv, TypeOK
  <2>. QED
    BY <1>2, <2>1, <2>2 DEF IInv, Unchanged
<1>. QED
  BY <1>1, <1>2, OneStamping

\* Caught up, an unfiltered book is a version of the exchange's.
LEMMA CaughtUpBook ==
  ASSUME IInv, KeepsAll, Uniform, CaughtUp
  PROVE  pos \in 1..Len(hist) /\ book = hist[pos]
<1>1. Serving /\ reply # NoReply /\ TypeOK /\ BookIsReported
  BY DEF CaughtUp, IInv
<1>2. pos \in 1..Len(hist) /\ hist[pos] \in Book /\ book \in Book
  <2>1. pos \in 1..Len(hist)
    BY CaughtUpJoined DEF IInv, Current
  <2>. QED
    BY <1>1, <2>1, ElementOfSeq DEF TypeOK
<1>3. ASSUME NEW s \in Sides, NEW p \in Prices
      PROVE  book[s][p] = hist[pos][s][p]
  BY <1>1, UntouchedLevel DEF BookIsReported, Reported
<1>4. \A s \in Sides : book[s] = hist[pos][s]
  BY <1>2, <1>3 DEF Book, Levels
<1>. QED
  BY <1>2, <1>4 DEF Book

\* Once the diffs read reach the snapshot's version, the book of a client with
\* any filter lists no level the exchange has removed.
THEOREM NoGhostLevelHolds == Spec => []NoGhostLevel
<1>1. IInv => NoGhostLevel
  <2> SUFFICES ASSUME IInv, Uniform, CaughtUp,
                      NEW s \in Sides, NEW p \in Listed(book[s])
               PROVE  p \in Listed(hist[pos][s])
    BY DEF NoGhostLevel
  <2>1. p \in Prices /\ reply # NoReply /\ Reported(s, p) # 0
    BY DEF IInv, NoGhostReported, CaughtUp, Listed
  <2>2. Reported(s, p) = hist[pos][s][p]
    BY <2>1, UntouchedLevel DEF Reported
  <2>. QED
    BY <2>1, <2>2 DEF Listed
<1>. QED
  BY <1>1, InvariantHolds, PTL

\* Reconciliation is exact: once the diffs read reach the snapshot's version,
\* an unfiltered book is the exchange's book at the last diff read.
THEOREM ReconciledBookHolds == Spec => []ReconciledBook
<1>1. IInv => ReconciledBook
  BY CaughtUpBook DEF ReconciledBook
<1>. QED
  BY <1>1, InvariantHolds, PTL

-----------------------------------------------------------------------------
(***************************************************************************)
(* MaxLevel is never exceeded, and no size is invented.  Both are          *)
(* inductive beside IInv.                                                  *)
(***************************************************************************)

\* The book changes in four ways: emptied, replaced by a snapshot, brought one
\* diff further, or not at all; then no diff processed before is forgotten.
LEMMA BookMoves ==
  ASSUME IInv, [Next]_vars
  PROVE  \/ book' = EmptyBook
         \/ /\ reply # NoReply /\ reply.ver \in 1..Current /\ reply' = reply
            /\ hist[reply.ver] \in Book /\ book' = ProcessSnapshot(hist[reply.ver])
         \/ \E m : /\ NextDiff(m) /\ book' = ProcessDiff(book, m.levels)
                   /\ from' = from /\ pos' = m.ver /\ reply' = reply
         \/ /\ book' = book /\ reply' = reply
            /\ from = pos \/ (from' = from /\ pos' >= pos)
<1> USE DEF IInv
<1>1. CASE Replay
  <2>1. /\ NextDiff(Head(buffer)) /\ from' = from /\ reply' = reply
        /\ pos' = Head(buffer).ver /\ pos' = pos + 1 /\ pos \in Nat
    BY <1>1, ProcessesNext DEF Replay, NextDiff
  <2>. QED
    BY <1>1, <2>1 DEF Replay, ApplyDiff
<1>2. CASE LiveDiff
  BY <1>2, ProcessesNext DEF LiveDiff, ApplyDiff
<1>3. CASE SnapshotOk
  <2>1. reply # NoReply /\ reply' = reply /\ book' = ProcessSnapshot(hist[reply.ver])
    BY <1>3 DEF SnapshotOk
  <2>2. reply.ver \in 1..Len(hist)
    BY <2>1, LenProperties DEF TypeOK, Reply
  <2>. QED
    BY <2>1, <2>2, ElementOfSeq DEF TypeOK, Current
<1>4. CASE Join
  <2>1. book' = book /\ reply' = reply /\ from = pos
    BY <1>4 DEF Join, NotJoined, clientVars
  <2>. QED
    BY <2>1
<1>5. CASE AnswerRest \/ SnapshotFailed \/ Disconnect
  BY <1>5 DEF AnswerRest, SnapshotFailed, Disconnect, Phases
<1>6. CASE UNCHANGED <<book, from, pos, reply>>
  BY <1>6 DEF TypeOK
<1>. QED
  BY <1>1, <1>2, <1>3, <1>4, <1>5, <1>6 DEF Next, Exchange, Read, Handle, Change,
     SendAck, Connect, BufferDiff, Confirm, ConfirmEarly, GoLive, LiveEvent, vars,
     exchangeVars, clientVars, historyVars

\* The empty book is within every limit.
LEMMA EmptyWithin ==
  ASSUME NEW s \in Sides, LevelFilter.kind = "MaxLevel"
  PROVE  Cardinality(Listed(EmptyBook[s])) <= LevelFilter.n
<1>1. Listed(EmptyBook[s]) = {}
  BY DEF Listed, EmptyBook, EmptyLevels
<1>. QED
  BY <1>1, FS_EmptySet, FilterAssumption DEF Filter

\* Every step keeps the book within MaxLevel.
LEMMA StepWithinMaxLevel ==
  ASSUME IInv, WithinMaxLevel, [Next]_vars
  PROVE  WithinMaxLevel'
<1> SUFFICES ASSUME LevelFilter.kind = "MaxLevel", NEW s \in Sides
             PROVE  Cardinality(Listed(book'[s])) <= LevelFilter.n
  BY DEF WithinMaxLevel
<1>1. Cardinality(Listed(book[s])) <= LevelFilter.n
  BY DEF WithinMaxLevel
<1>2. ASSUME NEW m, NextDiff(m), book' = ProcessDiff(book, m.levels)
      PROVE  Cardinality(Listed(book'[s])) <= LevelFilter.n
  <2>1. m.levels[s] \in Seq(Entry) /\ DistinctPrices(m.levels[s])
    BY <1>2, DiffEntries DEF NextDiff, Message
  <2>2. book[s] \in Levels
    BY DEF IInv, TypeOK, Book
  <2>3. book'[s] = Upsert(book[s], m.levels[s], FilterDiff(s, book[s], m.levels[s]))
    BY <1>2 DEF ProcessDiff
  <2>. QED
    BY <1>1, <2>1, <2>2, <2>3, DiffWithin
<1>3. ASSUME book' = ProcessSnapshot(hist[reply.ver]), hist[reply.ver] \in Book
      PROVE  Cardinality(Listed(book'[s])) <= LevelFilter.n
  BY <1>3, SnapshotWithin
<1>. QED
  BY <1>1, <1>2, <1>3, EmptyWithin, BookMoves

\* filter_diff counts the levels it adds to a side and filter_snapshot those it
\* keeps: with MaxLevel no side ever has more than n levels.
THEOREM WithinMaxLevelHolds == Spec => []WithinMaxLevel
<1>1. Init => WithinMaxLevel
  BY EmptyWithin DEF Init, WithinMaxLevel
<1>2. IInv /\ WithinMaxLevel /\ [Next]_vars => WithinMaxLevel'
  BY StepWithinMaxLevel
<1>. QED
  BY <1>1, <1>2, InvariantHolds, PTL DEF Spec

\* What a diff does to a level it leaves in the book: the level was there with
\* that size, or the diff gave it the size it has at the exchange.
LEMMA DiffOrigin ==
  ASSUME TypeOK, NEW m, NextDiff(m), NEW s \in Sides,
         NEW p \in Listed(ProcessDiff(book, m.levels)[s])
  PROVE  \/ /\ p \in Listed(book[s])
            /\ ProcessDiff(book, m.levels)[s][p] = book[s][p]
         \/ ProcessDiff(book, m.levels)[s][p] = hist[m.ver][s][p]
<1> DEFINE l == m.levels[s]
           lv == book[s]
           hv == hist[pos][s]
           K == FilterDiff(s, lv, l)
<1>1. l \in Seq(Entry) /\ DistinctPrices(l)
  BY DiffEntries DEF NextDiff, Message
<1>2. lv \in Levels /\ hv \in Levels /\ p \in Prices
  <2>1. hist[pos] \in Book
    BY ElementOfSeq DEF NextDiff, TypeOK, Current
  <2>. QED
    BY <2>1 DEF Book, TypeOK, Listed
<1>3. /\ ProcessDiff(book, m.levels)[s] = Upsert(lv, l, K)
      /\ hist[m.ver][s] = Upsert(hv, l, DOMAIN l)
  BY DEF ProcessDiff, NextDiff, ApplyFully
<1>4. K \in SUBSET DOMAIN l /\ DOMAIN l \in SUBSET DOMAIN l
  BY FilterDiffType
<1>5. /\ \A i \in K : l[i].price = p => Upsert(lv, l, K)[p] = l[i].amount
      /\ ~Touches(l, K, p) => Upsert(lv, l, K)[p] = lv[p]
  BY <1>1, <1>2, <1>4, UpsertAt
<1>6. \A i \in DOMAIN l : l[i].price = p => Upsert(hv, l, DOMAIN l)[p] = l[i].amount
  BY <1>1, <1>2, <1>4, UpsertAt
<1>7. CASE Touches(l, K, p)
  <2>1. PICK i \in K : l[i].price = p
    BY <1>7 DEF Touches
  <2>. QED
    BY <1>3, <1>4, <1>5, <1>6, <2>1
<1>8. CASE ~Touches(l, K, p)
  <2>1. ProcessDiff(book, m.levels)[s][p] = book[s][p]
    BY <1>3, <1>5, <1>8
  <2>2. p \in Listed(book[s])
    BY <2>1 DEF Listed
  <2>. QED
    BY <2>1, <2>2
<1>. QED
  BY <1>7, <1>8

\* The diffs processed are those of this connection.
LEMMA FromBelowPos ==
  ASSUME IInv
  PROVE  from <= pos
<1>1. CASE joined
  BY <1>1 DEF IInv, NothingMissing
<1>2. CASE ~joined
  BY <1>2 DEF IInv, NotJoined
<1>. QED
  BY <1>1, <1>2

\* Every step leaves in the book only sizes of the snapshot or of a diff of this
\* connection.
LEMMA StepNoInventedSize ==
  ASSUME IInv, IInv', NoInventedSize, [Next]_vars
  PROVE  NoInventedSize'
<1> DEFINE Source(v, s, p) ==
             /\ hist[v][s][p] = book[s][p]
             /\ (from < v /\ v <= pos) \/ (reply # NoReply /\ v = reply.ver)
<1> SUFFICES ASSUME NEW s \in Sides, NEW p \in Listed(book'[s])
             PROVE  \E v \in 1..Current' : Source(v, s, p)'
  BY DEF NoInventedSize
<1>1. /\ Current \in Nat /\ Current' \in Nat /\ Current <= Current'
      /\ \A v \in 1..Current : hist'[v] = hist[v]
  BY HistoryGrows DEF IInv
<1>2. \A v \in 1..Current : v \in 1..Current'
  BY <1>1
<1>3. from \in Nat /\ pos \in Nat /\ pos' \in Nat /\ from <= pos
  BY FromBelowPos DEF IInv, TypeOK
<1>4. ASSUME p \in Listed(book[s]), book'[s][p] = book[s][p], reply' = reply,
             from = pos \/ (from' = from /\ pos' >= pos)
      PROVE  \E v \in 1..Current' : Source(v, s, p)'
  <2>1. PICK v \in 1..Current : Source(v, s, p)
    BY <1>4 DEF NoInventedSize
  <2>2. hist'[v][s][p] = book'[s][p] /\ v \in 1..Current'
    BY <1>1, <1>2, <1>4, <2>1
  <2>3. \/ from' < v /\ v <= pos'
        \/ reply' # NoReply /\ v = reply'.ver
    BY <1>3, <1>4, <2>1
  <2>. QED
    BY <2>2, <2>3
<1>5. CASE book' = EmptyBook
  BY <1>5 DEF Listed, EmptyBook, EmptyLevels
<1>6. CASE /\ reply # NoReply /\ reply.ver \in 1..Current /\ reply' = reply
           /\ hist[reply.ver] \in Book /\ book' = ProcessSnapshot(hist[reply.ver])
  <2>1. book'[s][p] = hist[reply.ver][s][p]
    BY <1>6, SnapshotAt
  <2>. QED
    BY <1>1, <1>2, <1>6, <2>1
<1>7. ASSUME NEW m, NextDiff(m), book' = ProcessDiff(book, m.levels),
             from' = from, pos' = m.ver, reply' = reply
      PROVE  \E v \in 1..Current' : Source(v, s, p)'
  <2>1. /\ m.ver \in 1..Current /\ m.ver = pos + 1
        /\ from' < m.ver /\ m.ver <= pos' /\ pos' >= pos
    BY <1>3, <1>7 DEF NextDiff
  <2>2. CASE p \in Listed(book[s]) /\ book'[s][p] = book[s][p]
    BY <1>4, <1>7, <2>1, <2>2
  <2>3. CASE book'[s][p] = hist[m.ver][s][p]
    <3>1. m.ver \in 1..Current' /\ hist'[m.ver][s][p] = book'[s][p]
      BY <1>1, <1>2, <2>1, <2>3
    <3>. QED
      BY <2>1, <3>1
  <2>4. \/ p \in Listed(book[s]) /\ book'[s][p] = book[s][p]
        \/ book'[s][p] = hist[m.ver][s][p]
    BY <1>7, DiffOrigin DEF IInv
  <2>. QED
    BY <2>2, <2>3, <2>4
<1>8. CASE /\ book' = book /\ reply' = reply
           /\ from = pos \/ (from' = from /\ pos' >= pos)
  BY <1>4, <1>8
<1>. QED
  BY <1>5, <1>6, <1>7, <1>8, BookMoves

\* Whatever the filter and the stamps, each size in the book is the one of this
\* connection's snapshot or of a diff processed on this connection; after a
\* failed snapshot it is of such a diff.
THEOREM NoInventedSizeHolds == Spec => []NoInventedSize
<1>1. Init => NoInventedSize
  BY DEF Init, NoInventedSize, Listed, EmptyBook, EmptyLevels
<1>2. IInv /\ IInv' /\ NoInventedSize /\ [Next]_vars => NoInventedSize'
  BY StepNoInventedSize
<1>. QED
  BY <1>1, <1>2, InvariantHolds, PTL DEF Spec

-----------------------------------------------------------------------------
(***************************************************************************)
(* The refinement of Replica, step by step.                                *)
(***************************************************************************)
LEMMA InitMirror == Init => Mirror!Init
<1> SUFFICES ASSUME Init PROVE Mirror!Init
  OBVIOUS
<1>1. ~CaughtUp
  BY DEF Init, CaughtUp
<1>2. PICK b \in {EmptyBook} \cup {ApplyFully(EmptyBook, d) : d \in Diffs} : hist = <<b>>
  BY DEF Init
<1>3. b \in Book
  BY EmptyBookType, ApplyType
<1>4. Len(hist) = 1 /\ hist[1] \in Book
  BY <1>2, <1>3
<1>. QED
  BY <1>1, <1>4 DEF Mirror!Init

\* A change of the exchange's book publishes it; nothing else touches the
\* history, and while the client stays caught up it only moves forward.
LEMMA MirrorMoves ==
  ASSUME IInv, [Next]_vars
  PROVE  \/ /\ \E d \in Diffs : Change(d)
            /\ UNCHANGED <<pc, reply, book, from, pos>>
         \/ hist' = hist /\ ((CaughtUp /\ CaughtUp') => pos <= pos')
<1>1. CASE \E d \in Diffs : Change(d)
  BY <1>1 DEF Change, clientVars, historyVars
<1>2. CASE Replay \/ LiveDiff
  <2>1. pos' = pos + 1 /\ pos \in Nat /\ hist' = hist
    BY <1>2, ProcessesNext DEF IInv, Replay, LiveDiff, NextDiff, exchangeVars
  <2>. QED
    BY <2>1
<1>3. CASE SnapshotFailed \/ Disconnect
  BY <1>3 DEF SnapshotFailed, Disconnect, CaughtUp, Serving, exchangeVars
<1>5. CASE Join
  <2>1. ~CaughtUp /\ hist' = hist
    BY <1>5, CaughtUpJoined, Zenon DEF Join, IInv
  <2>. QED
    BY <2>1
<1>4. CASE UNCHANGED <<hist, pos>>
  BY <1>4 DEF IInv, TypeOK
<1>. QED
  BY <1>1, <1>2, <1>3, <1>4, <1>5 DEF Next, Exchange, Read, Handle, SendAck,
     AnswerRest, Connect, BufferDiff, Confirm, ConfirmEarly, SnapshotOk, GoLive,
     LiveEvent, vars, exchangeVars, historyVars

\* A step of the feed is a step of the replica, or none.
LEMMA NextMirror ==
  ASSUME KeepsAll, Uniform, IInv, IInv', [Next]_vars
  PROVE  [Mirror!Next]_(Mirror!vars)
<1>1. ASSUME NEW d \in Diffs, Change(d), UNCHANGED <<pc, reply, book, from, pos>>
      PROVE  Mirror!Publish
  <2>1. CaughtUp' <=> CaughtUp
    BY <1>1 DEF CaughtUp, Serving
  <2>2. ApplyFully(hist[Current], d) \in Book
    BY ApplyType, ElementOfSeq, LenProperties DEF Current, IInv, TypeOK
  <2>3. /\ Len(hist') = Len(hist) + 1 /\ hist' \in Seq(Book)
        /\ \A v \in 1..Len(hist) : hist'[v] = hist[v]
    BY <1>1, <2>2, AppendProperties DEF Change, IInv, TypeOK
  <2>4. hist'[Len(hist')] \in Book
    BY <2>3, ElementOfSeq, LenProperties DEF IInv, TypeOK
  <2>. QED
    BY <1>1, <2>1, <2>3, <2>4 DEF Mirror!Publish
<1>2. ASSUME hist' = hist, (CaughtUp /\ CaughtUp') => pos <= pos'
      PROVE  Mirror!Next
  <2>1. CASE ~CaughtUp'
    BY <1>2, <2>1 DEF Mirror!Next, Mirror!Lose
  <2>2. CASE CaughtUp'
    <3>1. pos' \in 1..Len(hist) /\ book' = hist[pos']
      <4>1. (IInv /\ CaughtUp => pos \in 1..Len(hist) /\ book = hist[pos])'
        BY CaughtUpBook, PTL
      <4>. QED
        BY <1>2, <2>2, <4>1
    <3>2. CASE CaughtUp
      <4>1. pos \in 1..Len(hist)
        BY <3>2, CaughtUpBook
      <4>2. pos' \in pos..Len(hist) /\ pos # 0
        BY <1>2, <2>2, <3>1, <3>2, <4>1
      <4>. QED
        BY <1>2, <2>2, <3>1, <3>2, <4>2 DEF Mirror!Next, Mirror!Advance
    <3>3. CASE ~CaughtUp
      BY <1>2, <2>2, <3>1, <3>3 DEF Mirror!Next, Mirror!Acquire
    <3>. QED
      BY <3>2, <3>3
  <2>. QED
    BY <2>1, <2>2
<1>. QED
  BY <1>1, <1>2, MirrorMoves DEF Mirror!Next

\* When nothing is filtered and diffs carry stamps, or none does, the client is
\* a replica: once caught up it shows a version of the exchange's book as a whole,
\* and neither the discard nor the replay takes it back to an older one.
THEOREM Refinement ==
  ASSUME KeepsAll, Uniform
  PROVE  Spec => ImplementsReplica
<1>1. Init => Mirror!Init
  BY InitMirror
<1>2. IInv /\ IInv' /\ [Next]_vars => [Mirror!Next]_(Mirror!vars)
  BY NextMirror
<1>. QED
  BY <1>1, <1>2, InvariantHolds, PTL DEF Spec, ImplementsReplica, Mirror!Spec
=============================================================================
