----------------------------- MODULE StreamFeed -----------------------------
(***************************************************************************)
(* How an OKX or a Kraken client builds its order book on a connection     *)
(* (the book branch of the read loop in okx/ws.rs and kraken/ws.rs): the   *)
(* channel begins with a snapshot, every change follows as an update, and  *)
(* the exchange may start over with a new snapshot.                        *)
(*                                                                         *)
(* As in BitstampFeed the exchange is its history: hist[v] is its full     *)
(* book at version v and every message carries the version it leads to,    *)
(* which the client does not look at.                                      *)
(***************************************************************************)
EXTENDS StreamBook

CONSTANTS Filters,     \* the LobFilters the command line may select
          Diffs,       \* the changes the exchange may make to its book
          MaxVersion,  \* bound: versions of the exchange's book
          MaxResets    \* bound: snapshots the exchange sends unasked

\* A diff lists a price at most once per side.
ASSUME FeedAssumption ==
  /\ Filters \subseteq Filter
  /\ Diffs \subseteq [Sides -> Seq(Entry)]
  /\ \A d \in Diffs : \A s \in Sides : DistinctPrices(d[s])
  /\ MaxVersion \in Nat
  /\ MaxResets \in Nat

VARIABLES
  filter,  \* the LobFilter selected, for the life of the process
  hist,    \* exchange: its book at every version
  joined,  \* exchange: the subscription of this connection is in effect
  resets,  \* exchange: snapshots sent unasked
  socket,  \* messages sent on this connection and not yet read
  pc,      \* client: "down" (connecting, backing off) or "up" (reading)
  book,    \* client: order_book
  base,    \* history: version of the last snapshot processed, 0 if none
  again,   \* history: it was not the first on this connection
  pos      \* history: version of the last message processed

exchangeVars == <<hist, joined, resets>>
historyVars  == <<base, again, pos>>
vars == <<filter, exchangeVars, socket, pc, book, historyVars>>

NoDiff  == [s \in Sides |-> <<>>]
Message == [type : {"snapshot", "update"}, ver : Nat, levels : Diffs \cup {NoDiff}]
SnapshotMsg(v)  == [type |-> "snapshot", ver |-> v, levels |-> NoDiff]
UpdateMsg(v, d) == [type |-> "update", ver |-> v, levels |-> d]

Current == Len(hist)

\* What the exchange does with its own change: no filter.
ApplyFully(bk, d) == [s \in Sides |-> Upsert(bk[s], d[s], DOMAIN d[s])]

TypeOK ==
  /\ filter \in Filters
  /\ hist \in Seq(Book) /\ Len(hist) > 0
  /\ joined \in BOOLEAN
  /\ resets \in 0..MaxResets
  /\ socket \in Seq(Message)
  /\ pc \in {"down", "up"}
  /\ book \in Book
  /\ again \in BOOLEAN
  /\ base \in 0..Len(hist) /\ pos \in 0..Len(hist)

Init ==
  /\ filter \in Filters
  /\ hist \in {<<b>> : b \in {EmptyBook} \cup {ApplyFully(EmptyBook, d) : d \in Diffs}}
  /\ joined = FALSE /\ resets = 0 /\ socket = <<>>
  /\ pc = "down" /\ book = EmptyBook
  /\ base = 0 /\ again = FALSE /\ pos = 0

-----------------------------------------------------------------------------
(***************************************************************************)
(* The exchange.                                                           *)
(***************************************************************************)
Send(m) == socket' = IF joined THEN Append(socket, m) ELSE socket

\* The book changes; a subscribed connection is sent the update.
Change(d) ==
  /\ Current < MaxVersion
  /\ hist' = Append(hist, ApplyFully(hist[Current], d))
  /\ Send(UpdateMsg(Current + 1, d))
  /\ UNCHANGED <<filter, joined, resets, pc, book, historyVars>>

\* The book changes and the exchange sends all of it instead.
Reset(d) ==
  /\ joined
  /\ resets < MaxResets
  /\ Current < MaxVersion
  /\ resets' = resets + 1
  /\ hist' = Append(hist, ApplyFully(hist[Current], d))
  /\ Send(SnapshotMsg(Current + 1))
  /\ UNCHANGED <<filter, joined, pc, book, historyVars>>

\* The book subscription takes effect.
Join ==
  /\ pc = "up"
  /\ ~joined
  /\ joined' = TRUE
  /\ socket' = Append(socket, SnapshotMsg(Current))
  /\ UNCHANGED <<filter, hist, resets, pc, book, historyVars>>

(***************************************************************************)
(* The client.                                                             *)
(***************************************************************************)
\* connect_async succeeded and both subscribe requests were sent.
Connect ==
  /\ pc = "down"
  /\ pc' = "up"
  /\ UNCHANGED <<filter, exchangeVars, socket, book, historyVars>>

\* A book message is read: order_book.process_msg.  (Trades, events and frames
\* leave all of this alone.)
Snapshot ==
  /\ pc = "up"
  /\ socket # <<>> /\ Head(socket).type = "snapshot"
  /\ socket' = Tail(socket)
  /\ book' = ProcessSnapshot(filter, book, hist[Head(socket).ver])
  /\ base' = Head(socket).ver
  /\ again' = (base # 0)
  /\ pos' = Head(socket).ver
  /\ UNCHANGED <<filter, exchangeVars, pc>>

Update ==
  /\ pc = "up"
  /\ socket # <<>> /\ Head(socket).type = "update"
  /\ socket' = Tail(socket)
  /\ book' = ProcessUpdate(filter, book, Head(socket).levels)
  /\ pos' = Head(socket).ver
  /\ UNCHANGED <<filter, exchangeVars, pc, base, again>>

\* Mutant: the order book outlives the connection.
DisconnectKeepingBook ==
  /\ pc = "up"
  /\ joined' = FALSE /\ socket' = <<>>
  /\ pc' = "down"
  /\ base' = 0 /\ again' = FALSE /\ pos' = 0
  /\ UNCHANGED <<filter, hist, resets, book>>

\* The end of the stream, an error or a close frame; the next iteration of the
\* connection loop makes a new order book.
Disconnect ==
  /\ pc = "up"
  /\ joined' = FALSE /\ socket' = <<>>
  /\ pc' = "down" /\ book' = EmptyBook
  /\ base' = 0 /\ again' = FALSE /\ pos' = 0
  /\ UNCHANGED <<filter, hist, resets>>

-----------------------------------------------------------------------------
Exchange == (\E d \in Diffs : Change(d) \/ Reset(d)) \/ Join
Next     == Exchange \/ Connect \/ Snapshot \/ Update \/ Disconnect

\* The client task runs whenever it can and the exchange completes the
\* subscriptions it accepted.  Nothing makes it change its book, start over or
\* drop a connection.
Fairness == WF_vars(Connect \/ Snapshot \/ Update) /\ WF_vars(Join)

Spec == Init /\ [][Next]_vars /\ Fairness

-----------------------------------------------------------------------------
(***************************************************************************)
(* Properties.                                                             *)
(***************************************************************************)
\* A snapshot has been processed on this connection.
Serving == base # 0

\* The last snapshot replaced the side: it listed something there, or there was
\* nothing to replace on this connection.
Replaced(s) == ~again \/ Listed(hist[base][s]) # {}

\* Without a filter that drops something, a side of the book is the exchange's
\* at the last message read, whatever sequence of updates and new snapshots led
\* there, and nothing of an earlier connection is left.
SideIsVersion ==
  AdmitsAll(filter) =>
     \A s \in Sides : IF Serving THEN Replaced(s) => book[s] = hist[pos][s]
                                 ELSE book[s] = EmptyLevels

\* With a filter that lets every change of a kept level through (MaxLevel), a
\* level in the book has the size it has at the exchange.
NoStaleLevel ==
  (KeepsUpdates(filter) /\ Serving) =>
     \A s \in Sides : Replaced(s) =>
        \A p \in Listed(book[s]) : book[s][p] = hist[pos][s][p]

\* MaxLevel is passed by one update at most: a message whose side had reached
\* the limit does not make that side larger.
NoGrowthAtLimit ==
  [][\A s \in Sides :
       (/\ filter.kind = "MaxLevel" /\ pc' = "up"
        /\ Cardinality(Listed(book[s])) >= filter.n)
          => Cardinality(Listed(book'[s])) <= Cardinality(Listed(book[s]))]_vars

\* While a connection lasts the book becomes and stays the exchange's current
\* book (which changes finitely often).
Mirrors ==
  (AdmitsAll(filter) /\ <>[](pc = "up")) =>
     <>[](Serving /\ \A s \in Sides : Replaced(s) => book[s] = hist[Current][s])

-----------------------------------------------------------------------------
(***************************************************************************)
(* Why SideIsVersion and NoStaleLevel hold: the inductive invariant.       *)
(***************************************************************************)
\* Without a subscription nothing is sent and nothing was processed.
NotJoined ==
  /\ pc = "down" => ~joined
  /\ ~joined => socket = <<>> /\ base = 0

\* Before its first snapshot a connection has processed nothing.
Unserved ==
  IF base = 0 THEN pos = 0 /\ ~again /\ book = EmptyBook ELSE base <= pos

\* What a subscribed connection is sent begins with a snapshot, and no version
\* is skipped or sent twice after it.
SocketInOrder ==
  \A i \in DOMAIN socket :
    /\ socket[i].ver \in 1..Current
    /\ IF i = 1 /\ base = 0
       THEN socket[i].type = "snapshot"
       ELSE socket[i].ver = 1 + (IF i = 1 THEN pos ELSE socket[i - 1].ver)

\* The last message sent, or read, is the exchange's current version.
NothingMissing ==
  joined => Current = IF socket = <<>> THEN pos ELSE socket[Len(socket)].ver

\* An update is what made its version from the one before.
Genuine ==
  \A i \in DOMAIN socket : socket[i].type = "update" =>
    /\ socket[i].levels \in Diffs
    /\ \A v \in 1..Current : v + 1 = socket[i].ver =>
         hist[v + 1] = ApplyFully(hist[v], socket[i].levels)

\* MaxLevel of 0 lets no level in: no side of a snapshot replaces anything, but
\* there is nothing to replace.
NothingAtZero ==
  (filter.kind = "MaxLevel" /\ filter.n = 0) => book = EmptyBook

IInv ==
  /\ TypeOK
  /\ NotJoined /\ Unserved
  /\ SocketInOrder /\ NothingMissing /\ Genuine
  /\ NothingAtZero
  /\ SideIsVersion /\ NoStaleLevel

-----------------------------------------------------------------------------
\* The client as a replica of the exchange: with a filter that drops nothing, it
\* shows its book once a snapshot came and as long as every side was replaced by
\* the last one.
Whole == AdmitsAll(filter) /\ Serving /\ \A s \in Sides : Replaced(s)

Mirror == INSTANCE Replica WITH
            Data <- Book, None <- EmptyBook,
            log <- hist, view <- IF Whole THEN pos ELSE 0,
            shown <- IF Whole THEN book ELSE EmptyBook

\* What it shows is a version of the exchange's book as a whole, and no message or
\* new snapshot takes it back to an older one.
ImplementsReplica == Mirror!Spec
=============================================================================
