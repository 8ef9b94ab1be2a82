-------------------------- MODULE StreamFeedProofs --------------------------
(***************************************************************************)
(* Proofs about StreamFeed, for every set of prices, every set of filters, *)
(* every set of diffs and every bound.                                     *)
(***************************************************************************)
EXTENDS StreamFeed, LobFilterProofs

-----------------------------------------------------------------------------
(***************************************************************************)
(* Lemmas about the operators of StreamBook.                               *)
(***************************************************************************)

\* What the filter keeps of a batch is some of its positions.
LEMMA FilterUpdateType ==
  ASSUME NEW f, NEW s, NEW lv, NEW l
  PROVE  FilterUpdate(f, s, lv, l) \in SUBSET DOMAIN l
  BY DEF FilterUpdate

\* A wide window keeps every entry of an update.
LEMMA WideKeepsUpdate ==
  ASSUME NEW f, AdmitsAll(f), NEW s \in Sides, NEW lv \in Levels, NEW l \in Seq(Entry)
  PROVE  FilterUpdate(f, s, lv, l) = DOMAIN l
<1>1. Best(s, lv) \subseteq Prices
  BY DEF Best, Listed
<1>2. ASSUME NEW i \in DOMAIN l
      PROVE  i \in FilterUpdate(f, s, lv, l)
  <2>1. \A b \in Best(s, lv) : WithinPct(s, f.n, b, l[i].price)
    BY <1>1, EntryType DEF AdmitsAll
  <2>. QED
    BY <2>1 DEF FilterUpdate, ShouldInclude, AdmitsAll
<1>. QED
  BY <1>2 DEF FilterUpdate

\* Every filter but a narrow window keeps the entries of levels in the book.
LEMMA UpdatesPass ==
  ASSUME NEW f, KeepsUpdates(f),
         NEW s \in Sides, NEW lv \in Levels, NEW l \in Seq(Entry),
         NEW i \in DOMAIN l, l[i].price \in Listed(lv)
  PROVE  i \in FilterUpdate(f, s, lv, l)
<1>1. CASE f.kind = "MaxLevel"
  BY <1>1 DEF FilterUpdate, ShouldInclude
<1>2. CASE AdmitsAll(f)
  BY <1>2, WideKeepsUpdate
<1>. QED
  BY <1>1, <1>2 DEF KeepsUpdates

\* One update, applied to the exchange's side hv and to the client's side lv, by a
\* filter that lets every change of a kept level through: if the levels the
\* client had were the exchange's, those it then has are too.
LEMMA UpdateStep ==
  ASSUME NEW f, KeepsUpdates(f),
         NEW s \in Sides, NEW lv \in Levels, NEW hv \in Levels,
         \A p \in Listed(lv) : lv[p] = hv[p],
         NEW l \in Seq(Entry), DistinctPrices(l),
         NEW q \in Listed(Upsert(lv, l, FilterUpdate(f, s, lv, l)))
  PROVE  Upsert(lv, l, FilterUpdate(f, s, lv, l))[q] = Upsert(hv, l, DOMAIN l)[q]
<1> DEFINE K == FilterUpdate(f, s, lv, l)
           new == Upsert(lv, l, K)
           full == Upsert(hv, l, DOMAIN l)
<1>1. K \in SUBSET DOMAIN l /\ DOMAIN l \in SUBSET DOMAIN l
  BY FilterUpdateType
<1>2. q \in Prices /\ new[q] # 0
  BY DEF Listed
<1>3. /\ \A i \in DOMAIN l : l[i].price = q => full[q] = l[i].amount
      /\ ~Touches(l, DOMAIN l, q) => full[q] = hv[q]
  BY <1>1, <1>2, UpsertAt
<1>4. /\ \A i \in K : l[i].price = q => new[q] = l[i].amount
      /\ ~Touches(l, K, q) => new[q] = lv[q]
  BY <1>1, <1>2, UpsertAt
<1> SUFFICES new[q] = full[q]
  OBVIOUS
<1> HIDE DEF new, full, K
<1>5. CASE Touches(l, K, q)
  BY <1>1, <1>3, <1>4, <1>5 DEF Touches
<1>6. CASE ~Touches(l, K, q)
  <2>1. q \in Listed(lv) /\ new[q] = lv[q]
    BY <1>2, <1>4, <1>6 DEF Listed
  <2>2. ASSUME NEW i \in DOMAIN l, l[i].price = q
        PROVE  FALSE
    <3>1. i \in FilterUpdate(f, s, lv, l)
      BY <2>1, <2>2, UpdatesPass
    <3>. QED
      BY <3>1, <2>2, <1>6 DEF Touches, K
  <2>3. ~Touches(l, DOMAIN l, q)
    BY <2>2 DEF Touches
  <2>. QED
    BY <1>3, <2>1, <2>3
<1>. QED
  BY <1>5, <1>6

\* What is kept of a side of a snapshot: all of it if the window is wide, and
\* in any case levels of the size they were listed with.
LEMMA SnapshotSide ==
  ASSUME NEW f, NEW s \in Sides, NEW lv \in Levels
  PROVE  /\ FilterSnapshot(f, s, lv) \in Levels
         /\ \A p \in Prices : FilterSnapshot(f, s, lv)[p] \in {0, lv[p]}
         /\ AdmitsAll(f) => FilterSnapshot(f, s, lv) = lv
<1>1. /\ FilterSnapshot(f, s, lv) \in Levels
      /\ \A p \in Prices : FilterSnapshot(f, s, lv)[p] \in {0, lv[p]}
  BY DEF FilterSnapshot, Levels
<1>2. ASSUME AdmitsAll(f)
      PROVE  FilterSnapshot(f, s, lv) = lv
  <2>1. Best(s, lv) \subseteq Prices
    BY DEF Best, Listed
  <2>2. \A p \in Prices : Kept(f, s, lv, p)
    BY <1>2, <2>1 DEF Kept, ShouldInclude, AdmitsAll
  <2>3. \A p \in Prices : FilterSnapshot(f, s, lv)[p] = lv[p]
    BY <2>2 DEF FilterSnapshot, Levels
  <2>. QED
    BY <1>1, <2>3 DEF Levels
<1>. QED
  BY <1>1, <1>2

\* MaxLevel keeps at most n levels of a side of a snapshot.
LEMMA SnapshotLimit ==
  ASSUME NEW f \in Filter, f.kind = "MaxLevel", NEW s \in Sides, NEW lv \in Levels
  PROVE  Cardinality(Listed(FilterSnapshot(f, s, lv))) <= f.n
<1>1. Listed(FilterSnapshot(f, s, lv)) \in SUBSET Listed(lv)
  BY SnapshotSide DEF Listed, FilterSnapshot
<1>2. \A p \in Listed(FilterSnapshot(f, s, lv)) : Rank(s, lv, p) < f.n
  BY DEF Listed, FilterSnapshot, Kept
<1>3. f.n \in Nat
  BY DEF Filter
<1>. QED
  BY <1>1, <1>2, <1>3, RankBound

\* Unless its limit is 0, MaxLevel keeps something of a side that lists something.
LEMMA SnapshotNotEmpty ==
  ASSUME NEW f \in Filter, f.kind = "MaxLevel", f.n # 0,
         NEW s \in Sides, NEW lv \in Levels, Listed(lv) # {}
  PROVE  Listed(FilterSnapshot(f, s, lv)) # {}
<1>1. PICK p \in Listed(lv) : Rank(s, lv, p) = 0
  BY BestExists
<1>2. Kept(f, s, lv, p) /\ p \in Prices /\ lv[p] # 0
  BY <1>1 DEF Kept, Filter, Listed
<1>. QED
  BY <1>2 DEF Listed, FilterSnapshot

\* A side at MaxLevel's limit gains no level from an update.
LEMMA UpdateAtLimit ==
  ASSUME NEW f, f.kind = "MaxLevel", NEW s \in Sides, NEW lv \in Levels,
         NEW l \in Seq(Entry), DistinctPrices(l),
         ~(Cardinality(Listed(lv)) < f.n)
  PROVE  Listed(Upsert(lv, l, FilterUpdate(f, s, lv, l))) \subseteq Listed(lv)
<1> DEFINE K == FilterUpdate(f, s, lv, l)
<1>1. K \in SUBSET DOMAIN l
  BY FilterUpdateType
<1>2. ASSUME NEW p \in Prices, p \notin Listed(lv)
      PROVE  Upsert(lv, l, K)[p] = 0
  <2>1. /\ \A i \in K : l[i].price = p => Upsert(lv, l, K)[p] = l[i].amount
        /\ ~Touches(l, K, p) => Upsert(lv, l, K)[p] = lv[p]
    BY <1>1, UpsertAt
  <2>2. \A i \in K : l[i].price = p => l[i].amount = 0
    BY <1>2 DEF FilterUpdate, ShouldInclude
  <2>3. lv[p] = 0
    BY <1>2 DEF Listed
  <2>. QED
    BY <2>1, <2>2, <2>3 DEF Touches
<1>. QED
  BY <1>2 DEF Listed

-----------------------------------------------------------------------------
(***************************************************************************)
(* Type correctness.                                                       *)
(***************************************************************************)

\* The entries of a diff are well typed and list a price once.
LEMMA DiffEntries ==
  ASSUME NEW d \in Diffs \cup {NoDiff}, NEW s \in Sides
  PROVE  d[s] \in Seq(Entry) /\ DistinctPrices(d[s])
<1>1. CASE d \in Diffs
  BY <1>1, FeedAssumption
<1>2. CASE d = NoDiff
  BY <1>2 DEF NoDiff, DistinctPrices
<1>. QED
  BY <1>1, <1>2

\* Whatever a message does to a book leaves a book.
LEMMA BookType ==
  ASSUME NEW bk \in Book, NEW f
  PROVE  /\ \A d \in Diffs \cup {NoDiff} :
              ApplyFully(bk, d) \in Book /\ ProcessUpdate(f, bk, d) \in Book
         /\ \A listing \in Book : ProcessSnapshot(f, bk, listing) \in Book
<1>1. \A s \in Sides : bk[s] \in Levels
  BY DEF Book
<1>2. ASSUME NEW d \in Diffs \cup {NoDiff}, NEW s \in Sides
      PROVE  /\ Upsert(bk[s], d[s], DOMAIN d[s]) \in Levels
             /\ Upsert(bk[s], d[s], FilterUpdate(f, s, bk[s], d[s])) \in Levels
  BY <1>1, DiffEntries, FilterUpdateType, UpsertType
<1>3. ASSUME NEW listing \in Book, NEW s \in Sides
      PROVE  FilterSnapshot(f, s, listing[s]) \in Levels
  BY <1>3, SnapshotSide DEF Book
<1>. QED
  BY <1>1, <1>2, <1>3 DEF ApplyFully, ProcessUpdate, ProcessSnapshot, Book

\* The empty book is a book.
LEMMA EmptyBookType == EmptyBook \in Book
  BY DEF EmptyBook, EmptyLevels, Book, Levels

\* The initial state is well typed.
LEMMA InitTypeOK == Init => TypeOK
<1> SUFFICES ASSUME Init PROVE TypeOK
  OBVIOUS
<1>1. PICK b \in {EmptyBook} \cup {ApplyFully(EmptyBook, d) : d \in Diffs} : hist = <<b>>
  BY DEF Init
<1>2. b \in Book
  BY EmptyBookType, BookType
<1>3. hist \in Seq(Book) /\ Len(hist) = 1
  BY <1>1, <1>2
<1>4. joined \in BOOLEAN /\ again \in BOOLEAN
  BY Zenon DEF Init
<1>5. socket \in Seq(Message)
  BY EmptySeq DEF Init
<1>. QED
  BY <1>3, <1>4, <1>5, EmptyBookType, FeedAssumption DEF Init, TypeOK

\* A version the exchange adds: the history grows by one book.
LEMMA NewVersion ==
  ASSUME TypeOK, NEW d \in Diffs, hist' = Append(hist, ApplyFully(hist[Current], d))
  PROVE  /\ hist' \in Seq(Book) /\ Len(hist') = Len(hist) + 1
         /\ \A v \in 1..Len(hist) : hist'[v] = hist[v]
         /\ hist'[Len(hist) + 1] = ApplyFully(hist[Current], d)
<1>1. hist[Current] \in Book
  BY ElementOfSeq, LenProperties DEF TypeOK, Current
<1>2. ApplyFully(hist[Current], d) \in Book
  BY <1>1, BookType
<1>. QED
  BY <1>2, AppendProperties DEF TypeOK

\* The messages of the exchange are messages.
LEMMA MessageType ==
  ASSUME NEW v \in Nat
  PROVE  /\ SnapshotMsg(v) \in Message
         /\ \A d \in Diffs : UpdateMsg(v, d) \in Message
  BY DEF SnapshotMsg, UpdateMsg, Message

\* A step leaves a well-typed state well typed, because a message carries a
\* version of the history.
LEMMA StepTypeOK ==
  ASSUME TypeOK, SocketInOrder, [Next]_vars
  PROVE  TypeOK'
<1> USE DEF TypeOK
<1>0. Len(hist) \in Nat
  BY LenProperties
<1>1. ASSUME NEW d \in Diffs, Change(d)
      PROVE  TypeOK'
  <2>1. hist' \in Seq(Book) /\ Len(hist') = Len(hist) + 1
    BY <1>1, NewVersion DEF Change
  <2>2. socket' \in Seq(Message)
    BY <1>0, <1>1, MessageType, AppendProperties DEF Change, Send, Current
  <2>. QED
    BY <1>0, <1>1, <2>1, <2>2 DEF Change, historyVars
<1>2. ASSUME NEW d \in Diffs, Reset(d)
      PROVE  TypeOK'
  <2>1. hist' \in Seq(Book) /\ Len(hist') = Len(hist) + 1
    BY <1>2, NewVersion DEF Reset
  <2>2. socket' \in Seq(Message)
    BY <1>0, <1>2, MessageType, AppendProperties DEF Reset, Send, Current
  <2>3. resets' \in 0..MaxResets
    BY <1>2, FeedAssumption DEF Reset
  <2>. QED
    BY <1>0, <1>2, <2>1, <2>2, <2>3 DEF Reset, historyVars
<1>3. CASE Join
  <2>1. socket' \in Seq(Message)
    BY <1>0, <1>3, MessageType, AppendProperties DEF Join, Current
  <2>2. joined' \in BOOLEAN
    BY <1>3, Zenon DEF Join
  <2>. QED
    BY <1>3, <2>1, <2>2 DEF Join, historyVars
<1>4. CASE Connect
  BY <1>4 DEF Connect, exchangeVars, historyVars
<1>5. CASE Snapshot
  <2>1. /\ Tail(socket) \in Seq(Message)
        /\ Head(socket).ver \in 1..Len(hist)
    BY <1>5, ReadOne DEF Snapshot, SocketInOrder, Current
  <2>2. book' \in Book
    BY <1>5, <2>1, BookType, ElementOfSeq DEF Snapshot
  <2>3. again' \in BOOLEAN
    BY <1>5, Zenon DEF Snapshot
  <2>. QED
    BY <1>0, <1>5, <2>1, <2>2, <2>3 DEF Snapshot, exchangeVars
<1>6. CASE Update
  <2>1. /\ Tail(socket) \in Seq(Message) /\ Head(socket) \in Message
        /\ Head(socket).ver \in 1..Len(hist)
    BY <1>6, ReadOne DEF Update, SocketInOrder, Current
  <2>2. book' \in Book
    BY <1>6, <2>1, BookType DEF Update, Message
  <2>. QED
    BY <1>0, <1>6, <2>1, <2>2 DEF Update, exchangeVars
<1>7. CASE Disconnect
  <2>1. joined' \in BOOLEAN /\ again' \in BOOLEAN
    BY <1>7, Zenon DEF Disconnect
  <2>. QED
    BY <1>0, <1>7, <2>1, EmptySeq, EmptyBookType DEF Disconnect
<1>8. CASE UNCHANGED vars
  BY <1>8 DEF vars, exchangeVars, historyVars
<1>. QED
  BY <1>1, <1>2, <1>3, <1>4, <1>5, <1>6, <1>7, <1>8 DEF Next, Exchange

-----------------------------------------------------------------------------
(***************************************************************************)
(* The inductive invariant, one lemma per conjunct.                        *)
(***************************************************************************)

\* The exchange's versions only grow.
LEMMA HistoryGrows ==
  ASSUME TypeOK, [Next]_vars
  PROVE  /\ Current \in Nat /\ Current' \in Nat
         /\ 0 < Current /\ Current <= Current'
         /\ \A v \in 1..Current : hist'[v] = hist[v]
<1>1. CASE \E d \in Diffs : Change(d) \/ Reset(d)
  BY <1>1, NewVersion, LenProperties DEF Change, Reset, Current, TypeOK
<1>2. CASE hist' = hist
  BY <1>2, LenProperties DEF Current, TypeOK
<1>. QED
  BY <1>1, <1>2 DEF Next, Exchange, Join, Connect, Snapshot, Update, Disconnect,
     vars, exchangeVars

\* What Snapshot and Update have in common.
LEMMA ReadMoves ==
  ASSUME TypeOK, NotJoined, Unserved, SocketInOrder, Snapshot \/ Update
  PROVE  /\ socket # <<>> /\ socket' = Tail(socket)
         /\ Head(socket) = socket[1] /\ 1 \in DOMAIN socket
         /\ joined /\ joined' = joined
         /\ hist' = hist /\ filter' = filter /\ pc' = pc
         /\ pos' = Head(socket).ver /\ pos' \in 1..Current /\ pos <= pos'
         /\ base' # 0 /\ base' <= pos' /\ base' \in 1..Current
         /\ Update => base # 0 /\ pos \in 1..Current /\ pos' = pos + 1
<1>1. /\ socket # <<>> /\ socket' = Tail(socket)
      /\ hist' = hist /\ filter' = filter /\ pc' = pc
      /\ pos' = Head(socket).ver
  BY DEF Snapshot, Update, exchangeVars
<1>2. joined /\ joined' = joined
  BY <1>1, Zenon DEF NotJoined, Snapshot, Update, exchangeVars
<1>3. Head(socket) = socket[1] /\ 1 \in DOMAIN socket
  BY <1>1, ReadOne DEF TypeOK
<1>4. /\ socket[1].ver \in 1..Current
      /\ IF base = 0 THEN socket[1].type = "snapshot" ELSE socket[1].ver = 1 + pos
  BY <1>3 DEF SocketInOrder
<1>5. Current \in Nat /\ base \in 0..Current /\ pos \in 0..Current
  BY LenProperties DEF TypeOK, Current
<1>6. base = 0 => pos = 0
  BY DEF Unserved
<1>7. CASE Snapshot
  BY <1>1, <1>2, <1>3, <1>4, <1>5, <1>6, <1>7 DEF Snapshot, Update
<1>8. CASE Update
  <2>1. base # 0 /\ base <= pos
    BY <1>3, <1>4, <1>8 DEF Update, Unserved
  <2>. QED
    BY <1>1, <1>2, <1>3, <1>4, <1>5, <1>8, <2>1 DEF Snapshot, Update
<1>. QED
  BY <1>7, <1>8

\* Without a subscription nothing is on its way and nothing was processed.
LEMMA StepNotJoined ==
  ASSUME TypeOK, NotJoined, Unserved, SocketInOrder, [Next]_vars
  PROVE  NotJoined'
<1> USE DEF NotJoined
<1>1. ASSUME NEW d \in Diffs, Change(d)
      PROVE  NotJoined'
  BY <1>1 DEF Change, Send, historyVars
<1>2. ASSUME NEW d \in Diffs, Reset(d)
      PROVE  NotJoined'
  BY <1>2, Zenon DEF Reset, historyVars
<1>3. CASE Join
  BY <1>3, Zenon DEF Join
<1>4. CASE Connect
  BY <1>4 DEF Connect, exchangeVars, historyVars
<1>5. CASE Snapshot \/ Update
  <2>1. joined' /\ pc' # "down"
    BY <1>5, ReadMoves, Zenon DEF Snapshot, Update
  <2>. QED
    BY <2>1
<1>6. CASE Disconnect
  BY <1>6, Zenon DEF Disconnect
<1>7. CASE UNCHANGED vars
  BY <1>7 DEF vars, exchangeVars, historyVars
<1>. QED
  BY <1>1, <1>2, <1>3, <1>4, <1>5, <1>6, <1>7 DEF Next, Exchange

\* Nothing is processed on a connection before its first snapshot.
LEMMA StepUnserved ==
  ASSUME TypeOK, NotJoined, Unserved, SocketInOrder, [Next]_vars
  PROVE  Unserved'
<1>1. CASE UNCHANGED <<book, base, again, pos>>
  BY <1>1 DEF Unserved
<1>2. CASE Snapshot \/ Update
  BY <1>2, ReadMoves DEF Unserved
<1>3. CASE Disconnect
  BY <1>3, Zenon DEF Disconnect, Unserved
<1>. QED
  BY <1>1, <1>2, <1>3 DEF Next, Exchange, Change, Reset, Join, Connect, vars,
     exchangeVars, historyVars

-----------------------------------------------------------------------------
\* Reading the first message of the socket leaves the rest in order.
LEMMA SocketRead ==
  ASSUME TypeOK, NotJoined, Unserved, SocketInOrder, NothingMissing, Genuine,
         Snapshot \/ Update
  PROVE  SocketInOrder' /\ NothingMissing' /\ Genuine'
<1>1. /\ Head(socket) = socket[1] /\ Len(socket) \in Nat /\ Len(socket) > 0
      /\ Len(Tail(socket)) = Len(socket) - 1
      /\ DOMAIN socket = 1..Len(socket)
      /\ DOMAIN Tail(socket) = 1..(Len(socket) - 1)
      /\ \A i \in DOMAIN Tail(socket) : Tail(socket)[i] = socket[i + 1]
      /\ Tail(socket) = <<>> <=> Len(socket) = 1
      /\ socket' = Tail(socket) /\ hist' = hist /\ Current' = Current
      /\ base' # 0 /\ pos' = socket[1].ver /\ joined /\ socket # <<>>
  BY ReadMoves, ReadOne DEF TypeOK, Current
<1>2. ASSUME NEW i \in DOMAIN Tail(socket)
      PROVE  /\ socket'[i] = socket[i + 1] /\ i + 1 \in DOMAIN socket /\ i + 1 # 1
             /\ socket'[i].ver \in 1..Current
             /\ socket'[i].ver = 1 + (IF i = 1 THEN pos' ELSE socket'[i - 1].ver)
  <2>1. /\ i \in Nat /\ i >= 1 /\ i + 1 \in DOMAIN socket /\ i + 1 # 1
        /\ (i + 1) - 1 = i /\ socket'[i] = socket[i + 1]
    BY <1>1, <1>2
  <2>2. /\ socket[i + 1].ver \in 1..Current
        /\ socket[i + 1].ver = 1 + socket[i].ver
    BY <2>1 DEF SocketInOrder
  <2>3. i # 1 => i - 1 \in DOMAIN Tail(socket) /\ (i - 1) + 1 = i
    BY <1>1, <2>1
  <2>4. socket[i].ver = IF i = 1 THEN pos' ELSE socket'[i - 1].ver
    BY <1>1, <2>3
  <2>. QED
    BY <2>1, <2>2, <2>4
<1>3. SocketInOrder'
  BY <1>1, <1>2 DEF SocketInOrder
<1>4. NothingMissing'
  <2>1. Current = socket[Len(socket)].ver
    BY <1>1 DEF NothingMissing
  <2>2. Len(socket) # 1 => socket'[Len(socket')] = socket[Len(socket)]
    BY <1>1
  <2>. QED
    BY <1>1, <2>1, <2>2 DEF NothingMissing
<1>5. Genuine'
  BY <1>1, <1>2 DEF Genuine
<1>. QED
  BY <1>3, <1>4, <1>5

\* Sending the version the exchange just made keeps the order.
LEMMA SocketSend ==
  ASSUME TypeOK, Unserved, SocketInOrder, NothingMissing, Genuine, joined,
         NEW d \in Diffs, hist' = Append(hist, ApplyFully(hist[Current], d)),
         NEW m \in {SnapshotMsg(Current + 1), UpdateMsg(Current + 1, d)},
         socket' = Append(socket, m), base' = base, pos' = pos
  PROVE  SocketInOrder' /\ NothingMissing' /\ Genuine'
<1>1. /\ Current \in Nat /\ Current > 0 /\ Current' = Current + 1
      /\ \A v \in 1..Current : hist'[v] = hist[v]
      /\ hist'[Current + 1] = ApplyFully(hist[Current], d)
  BY NewVersion, LenProperties DEF Current, TypeOK
<1>2. m \in Message /\ m.ver = Current + 1
  <2>1. Current + 1 \in Nat
    BY <1>1
  <2>2. SnapshotMsg(Current + 1) \in Message /\ UpdateMsg(Current + 1, d) \in Message
    BY <2>1, MessageType
  <2>3. SnapshotMsg(Current + 1).ver = Current + 1 /\ UpdateMsg(Current + 1, d).ver = Current + 1
    BY DEF SnapshotMsg, UpdateMsg
  <2>. QED
    BY <2>2, <2>3
<1>3. /\ DOMAIN socket = 1..Len(socket) /\ Len(socket) \in Nat
      /\ DOMAIN socket' = 1..(Len(socket) + 1) /\ Len(socket') = Len(socket) + 1
      /\ \A i \in 1..Len(socket) : socket'[i] = socket[i]
      /\ socket'[Len(socket) + 1] = m
      /\ socket' # <<>> /\ (socket = <<>> <=> Len(socket) = 0)
  BY <1>2, AppendProperties, LenProperties, EmptySeq DEF TypeOK
<1>4. Current = IF socket = <<>> THEN pos ELSE socket[Len(socket)].ver
  BY DEF NothingMissing
<1>5. SocketInOrder'
  <2> SUFFICES ASSUME NEW i \in 1..(Len(socket) + 1)
               PROVE  /\ socket'[i].ver \in 1..(Current + 1)
                      /\ IF i = 1 /\ base = 0
                         THEN socket'[i].type = "snapshot"
                         ELSE socket'[i].ver =
                                1 + (IF i = 1 THEN pos ELSE socket'[i - 1].ver)
    BY <1>1, <1>3 DEF SocketInOrder
  <2>1. CASE i \in 1..Len(socket)
    <3>1. i # 1 => i - 1 \in 1..Len(socket)
      BY <1>3, <2>1
    <3>2. socket'[i] = socket[i] /\ (i # 1 => socket'[i - 1] = socket[i - 1])
      BY <1>3, <2>1, <3>1
    <3>3. /\ socket[i].ver \in 1..Current
          /\ IF i = 1 /\ base = 0
             THEN socket[i].type = "snapshot"
             ELSE socket[i].ver = 1 + (IF i = 1 THEN pos ELSE socket[i - 1].ver)
      BY <1>3, <2>1 DEF SocketInOrder
    <3>. QED
      BY <1>1, <3>2, <3>3
  <2>2. CASE i = Len(socket) + 1
    <3>1. i = 1 => socket = <<>> /\ base # 0
      BY <1>1, <1>3, <1>4, <2>2 DEF Unserved
    <3>2. i # 1 => i - 1 = Len(socket) /\ socket # <<>> /\ Len(socket) \in 1..Len(socket)
      BY <1>3, <2>2
    <3>3. Current = IF i = 1 THEN pos ELSE socket'[i - 1].ver
      BY <1>3, <1>4, <3>1, <3>2
    <3>4. socket'[i] = m /\ m.ver = 1 + Current /\ m.ver \in 1..(Current + 1)
      BY <1>1, <1>2, <1>3, <2>2
    <3>. QED
      BY <3>1, <3>3, <3>4
  <2>. QED
    BY <1>3, <2>1, <2>2
<1>6. NothingMissing'
  BY <1>1, <1>2, <1>3 DEF NothingMissing
<1>7. Genuine'
  <2> SUFFICES ASSUME NEW i \in 1..(Len(socket) + 1), socket'[i].type = "update"
               PROVE  /\ socket'[i].levels \in Diffs
                      /\ \A v \in 1..(Current + 1) : v + 1 = socket'[i].ver =>
                           hist'[v + 1] = ApplyFully(hist'[v], socket'[i].levels)
    BY <1>1, <1>3 DEF Genuine
  <2>1. CASE i \in 1..Len(socket)
    <3>1. socket'[i] = socket[i] /\ socket[i].ver \in 1..Current
      BY <1>3, <2>1 DEF SocketInOrder
    <3>2. /\ socket[i].levels \in Diffs
          /\ \A v \in 1..Current : v + 1 = socket[i].ver =>
               hist[v + 1] = ApplyFully(hist[v], socket[i].levels)
      BY <1>3, <2>1, <3>1 DEF Genuine
    <3>3. ASSUME NEW v \in 1..(Current + 1), v + 1 = socket[i].ver
          PROVE  v \in 1..Current /\ v + 1 \in 1..Current
      BY <1>1, <3>1, <3>3
    <3>. QED
      BY <1>1, <3>1, <3>2, <3>3
  <2>2. CASE i = Len(socket) + 1
    <3>1. m = UpdateMsg(Current + 1, d)
      BY <1>3, <2>2 DEF SnapshotMsg
    <3>2. m.levels = d
      BY <3>1 DEF UpdateMsg
    <3>3. ASSUME NEW v \in 1..(Current + 1), v + 1 = m.ver
          PROVE  v = Current /\ v \in 1..Current
      BY <1>1, <1>2, <3>3
    <3>. QED
      BY <1>1, <1>3, <2>2, <3>2, <3>3
  <2>3. i \in 1..Len(socket) \/ i = Len(socket) + 1
    BY <1>3
  <2>. QED
    BY <2>1, <2>2, <2>3
<1>. QED
  BY <1>5, <1>6, <1>7

\* The history grows and nothing is sent.
LEMMA SocketQuiet ==
  ASSUME TypeOK, ~joined, ~joined', NotJoined, socket' = socket
  PROVE  SocketInOrder' /\ NothingMissing' /\ Genuine'
  BY DEF NotJoined, SocketInOrder, NothingMissing, Genuine

\* Every step keeps the messages on their way in order, complete and genuine.
LEMMA StepSocket ==
  ASSUME TypeOK, NotJoined, Unserved, SocketInOrder, NothingMissing, Genuine,
         [Next]_vars
  PROVE  SocketInOrder' /\ NothingMissing' /\ Genuine'
<1>1. ASSUME NEW d \in Diffs, Change(d)
      PROVE  SocketInOrder' /\ NothingMissing' /\ Genuine'
  <2>1. CASE joined
    <3>1. UpdateMsg(Current + 1, d) \in {SnapshotMsg(Current + 1), UpdateMsg(Current + 1, d)}
      OBVIOUS
    <3>. QED
      BY <1>1, <2>1, <3>1, SocketSend DEF Change, Send, historyVars
  <2>2. CASE ~joined
    <3>1. ~joined' /\ socket' = socket
      BY <1>1, <2>2, Zenon DEF Change, Send
    <3>. QED
      BY <2>2, <3>1, SocketQuiet
  <2>. QED
    BY <2>1, <2>2
<1>2. ASSUME NEW d \in Diffs, Reset(d)
      PROVE  SocketInOrder' /\ NothingMissing' /\ Genuine'
  <2>1. SnapshotMsg(Current + 1) \in {SnapshotMsg(Current + 1), UpdateMsg(Current + 1, d)}
    OBVIOUS
  <2>. QED
    BY <1>2, <2>1, SocketSend DEF Reset, Send, historyVars
<1>3. CASE Join
  <2>1. socket = <<>> /\ base = 0 /\ base' = base /\ hist' = hist /\ Current' = Current
    BY <1>3 DEF Join, NotJoined, historyVars, Current
  <2>2. Current \in Nat /\ Current > 0
    BY LenProperties DEF Current, TypeOK
  <2>3. /\ socket' = <<SnapshotMsg(Current)>>
        /\ DOMAIN socket' = {1} /\ Len(socket') = 1 /\ socket' # <<>>
        /\ socket'[1] = SnapshotMsg(Current)
    BY <1>3, <2>1 DEF Join
  <2>. QED
    BY <2>1, <2>2, <2>3 DEF SocketInOrder, NothingMissing, Genuine, SnapshotMsg
<1>4. CASE Connect \/ UNCHANGED vars
  BY <1>4 DEF Connect, vars, exchangeVars, historyVars, SocketInOrder, NothingMissing,
     Genuine, Current
<1>5. CASE Snapshot \/ Update
  BY <1>5, SocketRead
<1>6. CASE Disconnect
  <2>1. ~joined' /\ socket' = <<>>
    BY <1>6, Zenon DEF Disconnect
  <2>. QED
    BY <2>1 DEF SocketInOrder, NothingMissing, Genuine
<1>. QED
  BY <1>1, <1>2, <1>3, <1>4, <1>5, <1>6 DEF Next, Exchange

-----------------------------------------------------------------------------
\* The filter selected is a filter.
LEMMA FilterType ==
  ASSUME TypeOK
  PROVE  filter \in Filter
  BY FeedAssumption DEF TypeOK

\* A snapshot makes the book right, one side at a time.
LEMMA SnapshotCorrect ==
  ASSUME TypeOK, NotJoined, Unserved, SocketInOrder, NothingAtZero, Snapshot
  PROVE  SideIsVersion' /\ NoStaleLevel' /\ NothingAtZero'
<1>1. /\ hist' = hist /\ filter' = filter /\ pos' = Head(socket).ver /\ base' = pos'
      /\ pos' \in 1..Current /\ base' # 0 /\ again' = (base # 0)
      /\ book' = ProcessSnapshot(filter, book, hist[pos'])
  BY ReadMoves DEF Snapshot
<1>2. hist[pos'] \in Book
  BY <1>1, ElementOfSeq DEF TypeOK, Current
<1> DEFINE listing == hist[pos']
           kept(s) == FilterSnapshot(filter, s, listing[s])
<1>3. ASSUME NEW s \in Sides
      PROVE  /\ listing[s] \in Levels /\ book[s] \in Levels
             /\ book'[s] = IF Listed(kept(s)) = {} THEN book[s] ELSE kept(s)
             /\ kept(s) \in Levels
             /\ \A p \in Prices : kept(s)[p] \in {0, listing[s][p]}
             /\ AdmitsAll(filter) => kept(s) = listing[s]
             /\ Replaced(s)' => base = 0 \/ Listed(listing[s]) # {}
             /\ base = 0 => book[s] = EmptyLevels
  <2>1. listing[s] \in Levels /\ book[s] \in Levels
    BY <1>2 DEF Book, TypeOK
  <2>2. book'[s] = IF Listed(kept(s)) = {} THEN book[s] ELSE kept(s)
    BY <1>1 DEF ProcessSnapshot
  <2>3. /\ kept(s) \in Levels
        /\ \A p \in Prices : kept(s)[p] \in {0, listing[s][p]}
        /\ AdmitsAll(filter) => kept(s) = listing[s]
    BY <2>1, SnapshotSide
  <2>4. Replaced(s)' => base = 0 \/ Listed(listing[s]) # {}
    BY <1>1 DEF Replaced
  <2>5. base = 0 => book[s] = EmptyLevels
    BY DEF Unserved, EmptyBook
  <2>. QED
    BY <2>1, <2>2, <2>3, <2>4, <2>5
<1> HIDE DEF kept
<1>4. ASSUME AdmitsAll(filter), NEW s \in Sides, Replaced(s)'
      PROVE  book'[s] = hist'[pos'][s]
  <2>1. CASE Listed(listing[s]) = {}
    <3>1. book'[s] = EmptyLevels
      BY <1>3, <1>4, <2>1
    <3>2. listing[s] = EmptyLevels
      BY <1>3, <2>1 DEF Listed, EmptyLevels, Levels
    <3>. QED
      BY <1>1, <3>1, <3>2
  <2>2. CASE Listed(listing[s]) # {}
    BY <1>1, <1>3, <1>4, <2>2
  <2>. QED
    BY <2>1, <2>2
<1>5. ASSUME KeepsUpdates(filter), NEW s \in Sides, Replaced(s)',
             NEW p \in Listed(book'[s])
      PROVE  book'[s][p] = hist'[pos'][s][p]
  <2>1. CASE AdmitsAll(filter)
    BY <1>4, <1>5, <2>1
  <2>2. CASE Listed(kept(s)) # {}
    BY <1>1, <1>3, <1>5, <2>2 DEF Listed
  <2>3. CASE filter.kind = "MaxLevel" /\ Listed(kept(s)) = {}
    <3>1. base # 0
      BY <1>3, <1>5, <2>3 DEF Listed, EmptyLevels
    <3>2. Listed(listing[s]) # {}
      BY <1>3, <1>5, <3>1
    <3>3. filter.n = 0
      BY <1>3, <2>3, <3>2, SnapshotNotEmpty, FilterType DEF kept
    <3>4. book[s] = EmptyLevels
      BY <2>3, <3>3 DEF NothingAtZero, EmptyBook
    <3>. QED
      BY <1>3, <1>5, <2>3, <3>4 DEF Listed, EmptyLevels
  <2>. QED
    BY <1>5, <2>1, <2>2, <2>3 DEF KeepsUpdates
<1>6. ASSUME filter.kind = "MaxLevel", filter.n = 0
      PROVE  book' = EmptyBook
  <2>1. ASSUME NEW s \in Sides
        PROVE  book'[s] = EmptyLevels
    <3>1. book[s] = EmptyLevels
      BY <1>6 DEF NothingAtZero, EmptyBook
    <3>2. Listed(kept(s)) = {}
      <4>1. ASSUME NEW p \in Prices
            PROVE  kept(s)[p] = 0
        <5>1. CASE listing[s][p] = 0
          BY <1>3, <5>1
        <5>2. CASE listing[s][p] # 0
          <6>1. Rank(s, listing[s], p) \in Nat
            BY <5>2, RankOrder DEF Listed
          <6>. QED
            BY <1>6, <6>1 DEF kept, FilterSnapshot, Kept
        <5>. QED
          BY <5>1, <5>2
      <4>. QED
        BY <4>1 DEF Listed
    <3>. QED
      BY <1>3, <3>1, <3>2
  <2>. QED
    BY <1>1, <2>1 DEF ProcessSnapshot, EmptyBook
<1>. QED
  BY <1>1, <1>4, <1>5, <1>6 DEF SideIsVersion, NoStaleLevel, NothingAtZero, Serving

\* An update leaves the book as right as it was.
LEMMA UpdateCorrect ==
  ASSUME TypeOK, NotJoined, Unserved, SocketInOrder, Genuine,
         SideIsVersion, NoStaleLevel, NothingAtZero, Update
  PROVE  SideIsVersion' /\ NoStaleLevel' /\ NothingAtZero'
<1>1. /\ hist' = hist /\ filter' = filter /\ base' = base /\ again' = again
      /\ base # 0 /\ pos \in 1..Current /\ pos' = pos + 1 /\ pos' \in 1..Current
      /\ 1 \in DOMAIN socket /\ socket[1].ver = pos'
      /\ socket[1].type = "update"
      /\ book' = ProcessUpdate(filter, book, socket[1].levels)
  BY ReadMoves DEF Update
<1> DEFINE d == socket[1].levels
<1>2. d \in Diffs /\ hist[pos'] = ApplyFully(hist[pos], d)
  BY <1>1 DEF Genuine
<1>3. hist[pos] \in Book /\ book \in Book
  BY <1>1, ElementOfSeq DEF TypeOK, Current
<1>4. ASSUME NEW s \in Sides
      PROVE  /\ book[s] \in Levels /\ hist[pos][s] \in Levels
             /\ d[s] \in Seq(Entry) /\ DistinctPrices(d[s])
             /\ book'[s] = Upsert(book[s], d[s], FilterUpdate(filter, s, book[s], d[s]))
             /\ hist[pos'][s] = Upsert(hist[pos][s], d[s], DOMAIN d[s])
             /\ Replaced(s)' <=> Replaced(s)
  BY <1>1, <1>2, <1>3, DiffEntries DEF Book, ProcessUpdate, ApplyFully, Replaced
<1> HIDE DEF d
<1>5. ASSUME AdmitsAll(filter), NEW s \in Sides, Replaced(s)'
      PROVE  book'[s] = hist[pos'][s]
  <2>1. book[s] = hist[pos][s]
    BY <1>1, <1>4, <1>5 DEF SideIsVersion, Serving
  <2>. QED
    BY <1>4, <1>5, <2>1, WideKeepsUpdate
<1>6. ASSUME KeepsUpdates(filter), NEW s \in Sides, Replaced(s)'
      PROVE  \A p \in Listed(book'[s]) : book'[s][p] = hist[pos'][s][p]
  <2>1. \A p \in Listed(book[s]) : book[s][p] = hist[pos][s][p]
    BY <1>1, <1>4, <1>6 DEF NoStaleLevel, Serving
  <2> DEFINE new == Upsert(book[s], d[s], FilterUpdate(filter, s, book[s], d[s]))
             full == Upsert(hist[pos][s], d[s], DOMAIN d[s])
  <2>2. \A p \in Listed(new) : new[p] = full[p]
    <3>1. /\ book[s] \in Levels /\ hist[pos][s] \in Levels
          /\ d[s] \in Seq(Entry) /\ DistinctPrices(d[s])
      BY <1>4
    <3>2. ASSUME NEW p \in Listed(new)
          PROVE  new[p] = full[p]
      BY <1>6, <2>1, <3>1, <3>2, UpdateStep
    <3>. QED
      BY <3>2
  <2>3. book'[s] = new /\ hist[pos'][s] = full
    BY <1>4
  <2> HIDE DEF new, full
  <2>. QED
    BY <2>2, <2>3
<1>7. ASSUME filter.kind = "MaxLevel", filter.n = 0
      PROVE  book' = EmptyBook
  <2>1. ASSUME NEW s \in Sides
        PROVE  book'[s] = EmptyLevels
    <3>1. Listed(book[s]) = {}
      BY <1>7 DEF NothingAtZero, EmptyBook, EmptyLevels, Listed
    <3>2. ~(Cardinality(Listed(book[s])) < filter.n)
      BY <1>7, <3>1, FS_EmptySet
    <3> DEFINE new == Upsert(book[s], d[s], FilterUpdate(filter, s, book[s], d[s]))
    <3>3. Listed(new) = {}
      <4>1. book[s] \in Levels /\ d[s] \in Seq(Entry) /\ DistinctPrices(d[s])
        BY <1>4
      <4>. QED
        BY <1>7, <3>1, <3>2, <4>1, UpdateAtLimit
    <3>4. book'[s] = new
      BY <1>4
    <3>. QED
      BY <3>3, <3>4 DEF Listed, EmptyLevels, Upsert
  <2>. QED
    BY <1>1, <2>1 DEF ProcessUpdate, EmptyBook
<1>. QED
  BY <1>1, <1>5, <1>6, <1>7 DEF SideIsVersion, NoStaleLevel, NothingAtZero, Serving

\* Every step keeps the book right.
LEMMA StepCorrect ==
  ASSUME IInv, [Next]_vars
  PROVE  SideIsVersion' /\ NoStaleLevel' /\ NothingAtZero'
<1> USE DEF IInv
<1>1. CASE Snapshot
  BY <1>1, SnapshotCorrect
<1>2. CASE Update
  BY <1>2, UpdateCorrect
<1>3. CASE UNCHANGED <<filter, book, base, again, pos>>
  <2>1. /\ base # 0 => base \in 1..Current /\ pos \in 1..Current
        /\ \A v \in 1..Current : hist'[v] = hist[v]
    BY HistoryGrows DEF Unserved, TypeOK, Current
  <2>2. base # 0 => hist'[base] = hist[base] /\ hist'[pos] = hist[pos]
    BY <2>1
  <2>. QED
    BY <1>3, <2>2 DEF SideIsVersion, NoStaleLevel, NothingAtZero, Serving, Replaced
<1>4. CASE Disconnect
  <2>1. book' = EmptyBook /\ base' = 0
    BY <1>4 DEF Disconnect
  <2>. QED
    BY <2>1 DEF SideIsVersion, NoStaleLevel, NothingAtZero, Serving, EmptyBook
<1>. QED
  BY <1>1, <1>2, <1>3, <1>4 DEF Next, Exchange, Change, Reset, Join, Connect, vars,
     exchangeVars, historyVars

\* The inductive invariant holds initially and is preserved.
LEMMA InitIInv == Init => IInv
<1> SUFFICES ASSUME Init PROVE IInv
  OBVIOUS
<1>1. TypeOK
  BY InitTypeOK
<1>2. ~joined /\ ~again
  BY Zenon DEF Init
<1>3. NotJoined /\ Unserved /\ SocketInOrder /\ NothingMissing /\ Genuine
  BY <1>2 DEF Init, NotJoined, Unserved, SocketInOrder, NothingMissing, Genuine
<1>4. NothingAtZero /\ SideIsVersion /\ NoStaleLevel
  BY DEF Init, NothingAtZero, SideIsVersion, NoStaleLevel, Serving, EmptyBook
<1>. QED
  BY <1>1, <1>3, <1>4 DEF IInv

\* Every step keeps every part.
LEMMA NextIInv == IInv /\ [Next]_vars => IInv'
  BY StepTypeOK, StepNotJoined, StepUnserved, StepSocket, StepCorrect DEF IInv

-----------------------------------------------------------------------------
(***************************************************************************)
(* The theorems.                                                           *)
(***************************************************************************)

\* The inductive invariant holds in every state of every behaviour.
THEOREM Inductive == Spec => []IInv
  BY InitIInv, NextIInv, PTL DEF Spec

\* Every state of every behaviour is well typed.
THEOREM TypeCorrect == Spec => []TypeOK
<1>1. IInv => TypeOK
  BY DEF IInv
<1>. QED
  BY <1>1, Inductive, PTL

\* With a filter that drops nothing, a side of the book an OKX or Kraken client
\* keeps is the exchange's at the last message read, in every order of updates,
\* new snapshots, disconnections and changes during a subscription.
THEOREM SideCorrect == Spec => []SideIsVersion
<1>1. IInv => SideIsVersion
  BY DEF IInv
<1>. QED
  BY <1>1, Inductive, PTL

\* With MaxLevel, of any limit, no level keeps a size the exchange has changed.
THEOREM LevelsCorrect == Spec => []NoStaleLevel
<1>1. IInv => NoStaleLevel
  BY DEF IInv
<1>. QED
  BY <1>1, Inductive, PTL

\* A side that reached MaxLevel's limit does not grow: what a message adds is
\* counted against the book as it was before that message.
THEOREM LimitHolds == Spec => NoGrowthAtLimit
<1> DEFINE Grows(s) ==
             (/\ filter.kind = "MaxLevel" /\ pc' = "up"
              /\ Cardinality(Listed(book[s])) >= filter.n)
                => Cardinality(Listed(book'[s])) <= Cardinality(Listed(book[s]))
<1>1. ASSUME IInv, [Next]_vars, NEW s \in Sides
      PROVE  Grows(s)
  <2> SUFFICES ASSUME filter.kind = "MaxLevel", pc' = "up",
                      Cardinality(Listed(book[s])) >= filter.n
               PROVE  Cardinality(Listed(book'[s])) <= Cardinality(Listed(book[s]))
    OBVIOUS
  <2>1. /\ IsFiniteSet(Listed(book[s])) /\ Cardinality(Listed(book[s])) \in Nat
        /\ book[s] \in Levels /\ filter.n \in Nat
    <3>1. IsFiniteSet(Listed(book[s]))
      BY PricesAssumption, FS_Subset DEF Listed
    <3>2. book[s] \in Levels /\ filter.n \in Nat
      BY <1>1, FilterType DEF IInv, TypeOK, Book, Filter
    <3>. QED
      BY <3>1, <3>2, FS_CardinalityType
  <2>2. CASE Snapshot
    <3> DEFINE listing == hist[Head(socket).ver]
    <3>1. listing \in Book /\ book' = ProcessSnapshot(filter, book, listing)
      BY <1>1, <2>2, ReadMoves, ElementOfSeq DEF IInv, TypeOK, Snapshot, Current
    <3>2. book'[s] = book[s] \/ book'[s] = FilterSnapshot(filter, s, listing[s])
      BY <3>1 DEF ProcessSnapshot
    <3>3. Cardinality(Listed(FilterSnapshot(filter, s, listing[s]))) <= filter.n
      BY <1>1, <3>1, SnapshotLimit, FilterType DEF IInv, Book
    <3>4. IsFiniteSet(Listed(FilterSnapshot(filter, s, listing[s])))
      BY PricesAssumption, FS_Subset DEF Listed
    <3>5. Cardinality(Listed(FilterSnapshot(filter, s, listing[s]))) \in Nat
      BY <3>4, FS_CardinalityType
    <3>. QED
      BY <2>1, <3>2, <3>3, <3>5
  <2>3. CASE Update
    <3> DEFINE d == Head(socket).levels
    <3>1. Head(socket) \in Message /\ book' = ProcessUpdate(filter, book, d)
      BY <1>1, <2>3, ReadOne DEF IInv, TypeOK, Update
    <3>2. d \in Diffs \cup {NoDiff}
      BY <3>1 DEF Message
    <3>3. /\ book'[s] = Upsert(book[s], d[s], FilterUpdate(filter, s, book[s], d[s]))
          /\ d[s] \in Seq(Entry) /\ DistinctPrices(d[s])
      BY <3>1, <3>2, DiffEntries DEF ProcessUpdate
    <3>4. ~(Cardinality(Listed(book[s])) < filter.n)
      BY <2>1
    <3>5. Listed(book'[s]) \in SUBSET Listed(book[s])
      BY <2>1, <3>3, <3>4, UpdateAtLimit
    <3>. QED
      BY <2>1, <3>5, FS_Subset
  <2>4. CASE book' = book
    BY <2>1, <2>4
  <2>. QED
    BY <1>1, <2>2, <2>3, <2>4 DEF Next, Exchange, Change, Reset, Join, Connect,
       Disconnect, vars
<1>2. IInv /\ [Next]_vars => [\A s \in Sides : Grows(s)]_vars
  BY <1>1
<1>. QED
  BY <1>2, Inductive, PTL DEF Spec, NoGrowthAtLimit

-----------------------------------------------------------------------------
(***************************************************************************)
(* The refinement of Replica, step by step.                                *)
(***************************************************************************)
\* While every side was replaced, the book is a version of the exchange's.
LEMMA WholeIsVersion ==
  ASSUME IInv, Whole
  PROVE  pos \in 1..Current /\ book = hist[pos]
<1>1. pos \in 1..Current
  BY LenProperties DEF IInv, Whole, Serving, Unserved, TypeOK, Current
<1>2. \A s \in Sides : book[s] = hist[pos][s]
  BY DEF IInv, Whole, SideIsVersion, Serving
<1>3. book \in Book /\ hist[pos] \in Book
  BY <1>1, ElementOfSeq DEF IInv, TypeOK, Current
<1>4. book = hist[pos]
  BY <1>2, <1>3 DEF Book
<1>. QED
  BY <1>1, <1>4

\* The initial states of the client are initial states of the replica.
LEMMA InitMirror == Init => Mirror!Init
<1> SUFFICES ASSUME Init PROVE Mirror!Init
  OBVIOUS
<1>1. ~Whole
  BY DEF Init, Whole, Serving
<1>2. PICK b \in {EmptyBook} \cup {ApplyFully(EmptyBook, d) : d \in Diffs} : hist = <<b>>
  BY DEF Init
<1>3. b \in Book
  BY EmptyBookType, BookType
<1>4. Len(hist) = 1 /\ hist[1] \in Book
  BY <1>2, <1>3
<1>. QED
  BY <1>1, <1>4 DEF Mirror!Init

\* Every step of the client and of the exchange is a step of the replica or
\* changes nothing of it: a change of the exchange's book publishes it, reading a
\* message acquires, advances or loses, a disconnection loses.
LEMMA NextMirror ==
  ASSUME IInv, IInv', [Next]_vars
  PROVE  [Mirror!Next]_(Mirror!vars)
<1>1. CASE \E d \in Diffs : Change(d) \/ Reset(d)
  <2>1. /\ UNCHANGED <<filter, book, base, again, pos>>
        /\ Len(hist') = Len(hist) + 1
        /\ hist' \in Seq(Book)
        /\ \A v \in 1..Len(hist) : hist'[v] = hist[v]
    BY <1>1, NewVersion DEF Change, Reset, historyVars, IInv
  <2>2. base # 0 => base \in 1..Len(hist)
    BY LenProperties DEF IInv, TypeOK
  <2>3. Whole' <=> Whole
    BY <2>1, <2>2 DEF Whole, Serving, Replaced
  <2>4. hist'[Len(hist')] \in Book
    BY <2>1, ElementOfSeq, LenProperties DEF IInv, TypeOK
  <2>. QED
    BY <2>1, <2>3, <2>4 DEF Mirror!Next, Mirror!Publish
<1>2. CASE Snapshot \/ Update
  <2>1. hist' = hist /\ pos' \in 1..Len(hist) /\ pos <= pos'
    BY <1>2, ReadMoves DEF IInv, Current
  <2>2. CASE ~Whole'
    BY <2>1, <2>2 DEF Mirror!Next, Mirror!Lose
  <2>3. CASE Whole'
    <3>1. pos' \in 1..Len(hist) /\ book' = hist[pos']
      <4>1. book' = hist'[pos']
        <5>1. (IInv /\ Whole => book = hist[pos])'
          BY WholeIsVersion, PTL
        <5>. QED
          BY <2>3, <5>1
      <4>. QED
        BY <2>1, <4>1
    <3>2. CASE Whole
      <4>1. pos \in 1..Len(hist)
        BY <3>2, WholeIsVersion DEF Current
      <4>2. pos' \in pos..Len(hist) /\ pos # 0
        BY <2>1, <4>1
      <4>. QED
        BY <2>1, <2>3, <3>1, <3>2, <4>2 DEF Mirror!Next, Mirror!Advance
    <3>3. CASE ~Whole
      BY <2>1, <2>3, <3>1, <3>3 DEF Mirror!Next, Mirror!Acquire
    <3>. QED
      BY <3>2, <3>3
  <2>. QED
    BY <2>2, <2>3
<1>3. CASE Disconnect
  <2>1. ~Whole' /\ hist' = hist
    BY <1>3 DEF Disconnect, Whole, Serving
  <2>. QED
    BY <2>1 DEF Mirror!Next, Mirror!Lose
<1>4. CASE UNCHANGED <<filter, hist, book, base, again, pos>>
  <2>1. Whole' <=> Whole
    BY <1>4 DEF Whole, Serving, Replaced
  <2>. QED
    BY <1>4, <2>1 DEF Mirror!vars
<1>. QED
  BY <1>1, <1>2, <1>3, <1>4 DEF Next, Exchange, Join, Connect, vars, exchangeVars,
     historyVars

\* An OKX or Kraken client is a replica: what it shows is a version of the
\* exchange's book as a whole and it never goes back to an older one.
THEOREM Refinement == Spec => ImplementsReplica
<1>1. Init => Mirror!Init
  BY InitMirror
<1>2. IInv /\ IInv' /\ [Next]_vars => [Mirror!Next]_(Mirror!vars)
  BY NextMirror
<1>. QED
  BY <1>1, <1>2, Inductive, PTL DEF Spec, ImplementsReplica, Mirror!Spec
=============================================================================
