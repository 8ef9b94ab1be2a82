---------------------------- MODULE Persistence ----------------------------
(***************************************************************************)
(* The way of a pair's order book into the database and out again: the     *)
(* rows a client writes for the book messages it reads (persist_message of *)
(* the three ws.rs, persist_lob and write_lob_level of db/mod.rs), the     *)
(* table lob_levels, and the reader that rebuilds the book from them       *)
(* (LobReader).                                                            *)
(*                                                                         *)
(* As in the feeds the exchange is its history: hist[v] is its book at     *)
(* version v and the time it got it.  A message carries the version it     *)
(* leads to.  The clients' own book plays no part: what is stored is the   *)
(* message, before any filter.                                             *)
(*                                                                         *)
(* What the table cannot know (because a batch was lost, or was never      *)
(* written) is recorded in "gap" and, batch by batch, in the fields prior  *)
(* and gap of the table; the reader's "known" follows from them.  No code  *)
(* reads these three.                                                      *)
(***************************************************************************)
EXTENDS LobReader, SequencesExt

CONSTANTS Exchanges,    \* of "okx", "kraken", "bitstamp"
          Prices, Sizes,\* of a level; a size of 0 means that there is none
          Unit,         \* what is left of a number printed with "{:.8}"
          Changes,      \* changes of the exchange: the levels with their new sizes
          Unstamped,    \* types of messages that may lack a timestamp
          MaxVersion,   \* bound: versions of the exchange's book
          MaxSnapshots, \* bound: connections and snapshots sent unasked
          MaxFaults     \* bound: flushes that fail or are repeated, expiries

Sides == {"bid", "ask"}
Level == Sides \X Prices
Book  == [Level -> Sizes]

ASSUME PersistenceAssumption ==
  /\ Exchanges \subseteq {"okx", "kraken", "bitstamp"}
  /\ Prices \subseteq Nat \ {0} /\ IsFiniteSet(Prices)
  /\ Sizes \subseteq Nat /\ 0 \in Sizes
  /\ Unit \in Nat \ {0}
  /\ \A c \in Changes : DOMAIN c \subseteq Level /\ \A l \in DOMAIN c : c[l] \in Sizes
  /\ Unstamped \subseteq {"snapshot", "update"}
  /\ MaxVersion \in Nat /\ MaxSnapshots \in Nat /\ MaxFaults \in Nat

VARIABLES
  exchange,  \* which exchange, for the life of the client
  hist,      \* exchange: its book at every version, with its time
  snapshots, \* exchange: snapshots sent
  socket,    \* messages sent on this connection and not yet read
  conn,      \* client: "off", "buffering" (Bitstamp's phase 1) or "live"
  table,     \* lob_levels: the batches stored, by timestamp
  faults,    \* flushes that did not go well, expiries
  gap,       \* history: levels whose change was not stored since the last batch
  last,      \* history: version of the last batch stored, 0 if none
  known      \* history: keys the rows read so far tell the size of

clientVars == <<exchange, hist, snapshots, socket, conn, table, faults, gap, last>>
vars == <<clientVars, readerVars, known>>

-----------------------------------------------------------------------------
(***************************************************************************)
(* Rows.                                                                   *)
(***************************************************************************)
\* Kraken's numbers pass through format!("{:.8}"), the others' stay as they came.
Printed(n) == IF exchange = "kraken" THEN Unit * ((2 * n + Unit) \div (2 * Unit)) ELSE n

KeyOf(l) == <<l[1], Printed(l[2])>>

\* The levels a snapshot lists.
Listed(bk) == {l \in Level : bk[l] # 0}

\* lob_levels lists the bids of a message before its asks, each as the exchange
\* sends them: the best first.
Before(l, m) ==
  \/ l[1] = "bid" /\ m[1] = "ask"
  \/ l[1] = "bid" /\ m[1] = "bid" /\ l[2] > m[2]
  \/ l[1] = "ask" /\ m[1] = "ask" /\ l[2] < m[2]

InOrder(levels) ==
  [i \in 1..Cardinality(levels) |->
     CHOOSE l \in levels : Cardinality({m \in levels : Before(m, l)}) = i - 1]

\* A diff of Bitstamp that lists nothing is taken for an order, whose price does
\* not parse: write_lob_level stores a level 0 of size 0 on the bid side.
EmptyEntry == [key |-> <<"bid", 0>>, size |-> 0]

\* Mutant: only bids become rows when there are any.
RowsOfBids(msg) ==
  LET side == IF \E l \in msg.levels : l[1] = "bid" THEN "bid" ELSE "ask"
      listing == InOrder({l \in msg.levels : l[1] = side})
  IN  [i \in DOMAIN listing |->
         [key |-> KeyOf(listing[i]), size |-> Printed(hist[msg.ver].book[listing[i]])]]

\* lob_levels of the message, as rows.
RowsOf(msg) ==
  LET listing == InOrder(msg.levels)
  IN  IF listing = <<>> /\ exchange = "bitstamp"
      THEN <<EmptyEntry>>
      ELSE [i \in DOMAIN listing |->
              [key |-> KeyOf(listing[i]), size |-> Printed(hist[msg.ver].book[listing[i]])]]

\* The column "action": Bitstamp's rows are updates whatever they come from.
ActionOf(msg) == IF exchange = "bitstamp" THEN "update" ELSE msg.type

\* Mutant: an update's time is looked for in the wrong place.
StampOfSnapshots(msg) == IF msg.type = "snapshot" THEN msg.ts ELSE 0

\* timestamp_ms: a message whose timestamp is missing or does not parse is stored
\* at the beginning of time (unwrap_or(0)).
StampOf(msg) == msg.ts

\* A message as it is stored: one flush of a buffer, all of it or nothing.
BatchOf(msg) ==
  [ts |-> StampOf(msg), action |-> ActionOf(msg), rows |-> RowsOf(msg),
   ver |-> msg.ver, prior |-> last, gap |-> gap]

\* QuestDB keeps a table by its designated timestamp, equal ones as they came.
Insert(t, b) == InsertAt(t, 1 + Largest({0} \cup {i \in DOMAIN t : t[i].ts <= b.ts}), b)

-----------------------------------------------------------------------------
(***************************************************************************)
(* The exchange and the connection.                                        *)
(***************************************************************************)
AllKeys   == {KeyOf(l) : l \in Level}
EmptyBook == [l \in Level |-> 0]
Current   == Len(hist)

Merge(bk, c) == [l \in Level |-> IF l \in DOMAIN c THEN c[l] ELSE bk[l]]

Message(type, v, levels, ts) == [type |-> type, ver |-> v, levels |-> levels, ts |-> ts]

\* A message with its version's time or, where that may happen, without.
Stamps(type, at) == {at} \cup (IF type \in Unstamped THEN {0} ELSE {})

Collecting == reader = "idle"

Init ==
  /\ exchange \in Exchanges
  /\ \E c \in Changes : hist = <<[book |-> Merge(EmptyBook, c), at |-> 1]>>
  /\ snapshots = 0 /\ socket = <<>> /\ conn = "off"
  /\ table = <<>> /\ faults = 0
  /\ gap = AllKeys /\ last = 0
  /\ ReaderInit
  /\ known = {}

\* The exchange's clock may stand still between two changes.
Changed(c, later) ==
  Append(hist, [book |-> Merge(hist[Current].book, c), at |-> hist[Current].at + later])

\* The book changes; a connection is sent the change.
Change(c, later) ==
  /\ Collecting
  /\ Current < MaxVersion
  /\ hist' = Changed(c, later)
  /\ \E ts \in Stamps("update", hist[Current].at + later) :
       socket' = IF conn = "off" THEN socket
                 ELSE Append(socket, Message("update", Current + 1, DOMAIN c, ts))
  /\ UNCHANGED <<exchange, snapshots, conn, table, faults, gap, last, readerVars, known>>

\* The book changes and the exchange sends all of it (OKX and Kraken).
Reset(c, later) ==
  /\ Collecting
  /\ exchange # "bitstamp" /\ conn = "live"
  /\ Current < MaxVersion /\ snapshots < MaxSnapshots
  /\ snapshots' = snapshots + 1
  /\ hist' = Changed(c, later)
  /\ \E ts \in Stamps("snapshot", hist[Current].at + later) :
       socket' = Append(socket, Message("snapshot", Current + 1,
                                        Listed(hist'[Current + 1].book), ts))
  /\ UNCHANGED <<exchange, conn, table, faults, gap, last, readerVars, known>>

\* A connection with its subscriptions.  OKX and Kraken begin with a snapshot;
\* Bitstamp's comes over REST and passes by the database.
Connect ==
  /\ Collecting
  /\ conn = "off" /\ snapshots < MaxSnapshots
  /\ snapshots' = snapshots + 1
  /\ IF exchange = "bitstamp"
     THEN conn' = "buffering" /\ UNCHANGED socket
     ELSE /\ conn' = "live"
          /\ \E ts \in Stamps("snapshot", hist[Current].at) :
               socket' = <<Message("snapshot", Current, Listed(hist[Current].book), ts)>>
  /\ UNCHANGED <<exchange, hist, table, faults, gap, last, readerVars, known>>

\* The connection is lost with what was not read; whatever changes until the next
\* one is not stored.
Disconnect ==
  /\ Collecting
  /\ conn # "off"
  /\ conn' = "off" /\ socket' = <<>>
  /\ gap' = AllKeys
  /\ UNCHANGED <<exchange, hist, snapshots, table, faults, last, readerVars, known>>

-----------------------------------------------------------------------------
(***************************************************************************)
(* The client.                                                             *)
(***************************************************************************)
\* What goes unstored with a message: for a snapshot, anything.
Carried(msg) == IF msg.type = "snapshot" THEN AllKeys ELSE {KeyOf(l) : l \in msg.levels}

\* Bitstamp's phase 1: the diff waits in memory, and is replayed without being
\* persisted.
Buffer ==
  /\ Collecting
  /\ conn = "buffering" /\ socket # <<>>
  /\ gap' = gap \cup Carried(Head(socket))
  /\ socket' = Tail(socket)
  /\ UNCHANGED <<exchange, hist, snapshots, conn, table, faults, last, readerVars, known>>

GoLive ==
  /\ Collecting
  /\ conn = "buffering"
  /\ conn' = "live"
  /\ UNCHANGED <<exchange, hist, snapshots, socket, table, faults, gap, last, readerVars, known>>

Receive == Collecting /\ conn = "live" /\ socket # <<>> /\ socket' = Tail(socket)

\* No levels, no rows: also for a snapshot of an empty book.
PersistNothing ==
  /\ Receive
  /\ RowsOf(Head(socket)) = <<>>
  /\ gap' = gap \cup Carried(Head(socket))
  /\ UNCHANGED <<exchange, hist, snapshots, conn, table, faults, last, readerVars, known>>

PersistStored ==
  /\ Receive
  /\ RowsOf(Head(socket)) # <<>>
  /\ table' = Insert(table, BatchOf(Head(socket)))
  /\ gap' = {} /\ last' = Head(socket).ver
  /\ UNCHANGED <<exchange, hist, snapshots, conn, faults, readerVars, known>>

Fault == faults < MaxFaults /\ faults' = faults + 1

\* The flush fails; the error is logged and the next message is read.
PersistLost ==
  /\ Receive
  /\ RowsOf(Head(socket)) # <<>>
  /\ Fault
  /\ gap' = gap \cup Carried(Head(socket))
  /\ UNCHANGED <<exchange, hist, snapshots, conn, table, last, readerVars, known>>

\* The sender repeats a request that had arrived.
PersistRepeated ==
  /\ Receive
  /\ RowsOf(Head(socket)) # <<>>
  /\ Fault
  /\ table' = Insert(Insert(table, BatchOf(Head(socket))), BatchOf(Head(socket)))
  /\ gap' = {} /\ last' = Head(socket).ver
  /\ UNCHANGED <<exchange, hist, snapshots, conn, readerVars, known>>

\* The TTL of the table: partitions that are old enough are dropped.
Expire ==
  /\ Collecting
  /\ Fault
  /\ \E n \in 1..(Len(table) - 1) :
       /\ table[n].ts < table[n + 1].ts
       /\ table' = SubSeq(table, n + 1, Len(table))
  /\ UNCHANGED <<exchange, hist, snapshots, socket, conn, gap, last, readerVars, known>>

Client == \/ Connect \/ Disconnect \/ Buffer \/ GoLive
          \/ PersistNothing \/ PersistStored \/ PersistLost \/ PersistRepeated

-----------------------------------------------------------------------------
(***************************************************************************)
(* The reader.                                                             *)
(***************************************************************************)
\* The rows of a table, in its order.  No code of the repository makes such a
\* file: whatever does is taken to turn each row of lob_levels into one of the
\* reader's, with the price and the amount of its side, and to leave none out.
FileOf(t) ==
  FlattenSeq([i \in DOMAIN t |->
    [j \in DOMAIN t[i].rows |->
       [ts |-> t[i].ts, action |-> t[i].action, key |-> t[i].rows[j].key,
        size |-> t[i].rows[j].size, batch |-> i]]])

\* The table is exported and the reader started on the copy.  Nothing it does
\* concerns the client, nor the other way round, so the client may rest from here,
\* and be without a connection, which it can be with any table.
Export ==
  /\ Collecting
  /\ conn = "off"
  /\ file' = FileOf(table)
  /\ reader' = "reading"
  /\ UNCHANGED <<clientVars, next, book, current, cleared, buffer, lob2, known>>

FirstOfBatch(i) == i = 1 \/ file[i].batch # file[i - 1].batch

\* Batch i says all that changed since the batch before it, but for its gap: it was
\* stored next after it, or is the same once more.  A snapshot that does not clear
\* (the second one of a timestamp) says nothing of what is gone.
Continues(i) ==
  /\ i > 1
  /\ \/ table[i].action = "update" /\ table[i].prior = table[i - 1].ver
     \/ table[i] = table[i - 1]

\* The keys whose size is told by the rows up to and including batch i.
KnownAfter(i, clears) ==
  {table[i].rows[j].key : j \in DOMAIN table[i].rows}
    \cup (IF clears THEN AllKeys
          ELSE IF Continues(i) THEN known \ table[i].gap ELSE {})

Read ==
  /\ ReadRow
  /\ known' = IF FirstOfBatch(next) THEN KnownAfter(file[next].batch, Clears(file[next]))
                                    ELSE known
  /\ UNCHANGED clientVars

ReaderEnds == (Finish \/ Interrupt) /\ UNCHANGED <<clientVars, known>>

Next ==
  \/ \E c \in Changes : \E later \in {0, 1} :
       Change(c, later) \/ Reset(c, later)
  \/ Client
  \/ Expire
  \/ Export \/ Read \/ ReaderEnds

Spec == Init /\ [][Next]_vars

-----------------------------------------------------------------------------
(***************************************************************************)
(* Properties.                                                             *)
(***************************************************************************)
TypeOK ==
  /\ ReaderTypeOK
  /\ exchange \in Exchanges
  /\ \A v \in DOMAIN hist : hist[v].book \in Book /\ hist[v].at \in Nat
  /\ conn \in {"off", "buffering", "live"}
  /\ snapshots \in 0..MaxSnapshots /\ faults \in 0..MaxFaults
  /\ \A i \in DOMAIN socket : socket[i].ver \in DOMAIN hist
  /\ \A i \in DOMAIN table :
        /\ table[i].rows # <<>>
        /\ table[i].ver \in DOMAIN hist
        /\ i > 1 => table[i - 1].ts <= table[i].ts
  /\ gap \subseteq AllKeys /\ last \in 0..Len(hist)
  /\ known \subseteq AllKeys \cup {EmptyEntry.key}

\* The reader is between two batches.
AtBoundary ==
  /\ next > 1
  /\ next <= Len(file) => FirstOfBatch(next)

VersionRead == table[file[next - 1].batch].ver

SizeIn(bk, k) == IF k \in DOMAIN bk THEN bk[k] ELSE 0

\* Two prices may print alike.
Unambiguous(l) == \A m \in Level : KeyOf(m) = KeyOf(l) => m = l

\* Nothing went wrong: no flush failed or was repeated, nothing expired, every message
\* had a time, no update was stored after a change that was not, and no two
\* snapshots share a time.
Unbroken ==
  /\ faults = 0
  /\ \A i \in DOMAIN table : /\ table[i].ts # 0
                             /\ table[i].gap # {} => table[i].action = "snapshot"
  /\ \A i, j \in DOMAIN table :
       /\ table[i].action = "snapshot" /\ table[j].action = "snapshot"
       /\ table[i].ts = table[j].ts
       => i = j

\* The book read back is the exchange's of that time on every level the rows tell
\* of: those listed since the last snapshot and, after a snapshot, all, but for
\* what batches lost in between, expired or never written would have told.  When
\* nothing of the kind happened it is right on every level.  No
\* level appears that the exchange does not have, and one of size 0 only where a
\* snapshot's row has that size.  Writers and reader were written
\* apart, in two languages: this holds them together over lost, repeated, expired
\* and unstamped batches, reconnects and snapshots of one timestamp.
ReadBack ==
  AtBoundary =>
    /\ \A l \in Level :
         Unambiguous(l) /\ (KeyOf(l) \in known \/ Unbroken) =>
            SizeIn(book, KeyOf(l)) = Printed(hist[VersionRead].book[l])
    /\ DOMAIN book \subseteq AllKeys
    /\ \A k \in DOMAIN book :
         book[k] = 0 => \E i \in 1..(next - 1) : /\ file[i].action = "snapshot"
                                                 /\ file[i].key = k /\ file[i].size = 0

\* What the table says of a time before its newest does not change any more, as
\* long as messages have a timestamp: new rows, also those of new connections and
\* repeated ones, only add to the end.  (persist_lob stores under the exchange's
\* time, not the client's.)
PastIsSettled ==
  [][(Receive /\ Head(socket).ts # 0 /\ table' # table) =>
       \A t \in {table[i].ts : i \in DOMAIN table} :
          t < table[Len(table)].ts => BookAt(FileOf(table'), t) = BookAt(FileOf(table), t)]_vars
=============================================================================
