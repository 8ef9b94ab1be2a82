---------------------------- MODULE BitstampFeed ----------------------------
(***************************************************************************)
(* How one Bitstamp client builds its order book on a connection           *)
(* (bitstamp/ws.rs, run): subscribe to diff_order_book, buffer diffs until *)
(* a subscription is acknowledged, fetch the REST snapshot while the       *)
(* socket fills up unread, drop what the snapshot covers, replay the rest, *)
(* then apply every further diff as it is read.                            *)
(*                                                                         *)
(* The exchange is modelled by its history: hist[v] is its full book at    *)
(* version v, and the diff that led there carries v as its microtimestamp. *)
(* The client never sees hist; the properties judge its book against it.   *)
(*                                                                         *)
(* The three phase flags of the code are one program counter:              *)
(*   "down"       no connection (connecting, backing off)                  *)
(*   "buffering"  snapshot_applied = snapshot_attempted = FALSE            *)
(*   "fetching"   snapshot_attempted, awaiting reqwest::get                *)
(*   "replaying"  the loop over the kept diffs (one step per diff)         *)
(*   "live"       snapshot_applied = TRUE                                  *)
(* Trades, other events and frames leave all of this state alone.          *)
(***************************************************************************)
EXTENDS BitstampBook

CONSTANTS Diffs,          \* the changes the exchange may make to its book
          MaxVersion,     \* bound: versions of the exchange's book
          RestLag,        \* how many versions old a REST answer may be
          Stamps          \* whether diffs carry a microtimestamp: {TRUE} all
                          \* of them, {FALSE} none, BOOLEAN some

\* A diff lists a price at most once per side.
ASSUME FeedAssumption ==
  /\ Diffs \subseteq [Sides -> Seq(Entry)]
  /\ \A d \in Diffs : \A s \in Sides : DistinctPrices(d[s])
  /\ MaxVersion \in Nat
  /\ RestLag \in Nat
  /\ Stamps \subseteq BOOLEAN /\ Stamps # {}

VARIABLES
  hist,     \* exchange: its book at every version
  joined,   \* exchange: this connection receives diff_order_book
  acks,     \* exchange: bts:subscription_succeeded messages sent (of two)
  socket,   \* messages sent on this connection and not yet read
  pc,       \* client: phase, see above
  buffer,   \* client: diffs kept for the replay
  reply,    \* the REST answer of this connection
  book,     \* client: order_book
  from,     \* history: version at which the diffs of this connection begin
  pos,      \* history: version of the last diff discarded or applied
  fresh     \* history: the levels some applied diff has touched

exchangeVars == <<hist, joined, acks>>
clientVars   == <<pc, buffer, reply, book>>
historyVars  == <<from, pos, fresh>>
vars == <<exchangeVars, socket, clientVars, historyVars>>

-----------------------------------------------------------------------------
NoStamp == 0    \* microtimestamp_us() = None; versions start at 1
NoDiff  == [s \in Sides |-> <<>>]

Stamp(stamped, v) == IF stamped THEN v ELSE NoStamp

Message == [type : {"diff", "ack"}, ver : Nat, us : Nat,
            levels : Diffs \cup {NoDiff}]
Ack(v)          == [type |-> "ack", ver |-> v, us |-> NoStamp, levels |-> NoDiff]
DiffMsg(v, us, d) == [type |-> "diff", ver |-> v, us |-> us, levels |-> d]

NoReply == [ver |-> 0, us |-> 0]
Reply   == [ver : Nat, us : Nat]

Current == Len(hist)

\* What the exchange does with its own change: no filter.
ApplyFully(bk, d) == [s \in Sides |-> Upsert(bk[s], d[s], DOMAIN d[s])]

Touched(d) == {x \in Sides \X Prices : Touches(d[x[1]], DOMAIN d[x[1]], x[2])}

TypeOK ==
  /\ hist \in Seq(Book) /\ Len(hist) > 0
  /\ joined \in BOOLEAN
  /\ acks \in 0..2
  /\ socket \in Seq(Message)
  /\ pc \in {"down", "buffering", "fetching", "replaying", "live"}
  /\ buffer \in Seq(Message)
  /\ reply \in Reply /\ reply.ver <= Len(hist) /\ (reply.ver = 0 => reply = NoReply)
  /\ book \in Book
  /\ from \in Nat /\ pos \in Nat
  /\ fresh \subseteq Sides \X Prices

-----------------------------------------------------------------------------
Init ==
  /\ hist \in {<<b>> : b \in {EmptyBook} \cup {ApplyFully(EmptyBook, d) : d \in Diffs}}
  /\ joined = FALSE /\ acks = 0 /\ socket = <<>>
  /\ pc = "down" /\ buffer = <<>> /\ reply = NoReply /\ book = EmptyBook
  /\ from = 0 /\ pos = 0 /\ fresh = {}

(***************************************************************************)
(* The exchange.                                                           *)
(***************************************************************************)
\* The book changes; a subscribed connection is sent the diff.
Change(d) ==
  /\ Current < MaxVersion
  /\ hist' = Append(hist, ApplyFully(hist[Current], d))
  /\ \E stamped \in Stamps :
       LET us == Stamp(stamped, Current + 1)
       IN  socket' = IF joined THEN Append(socket, DiffMsg(Current + 1, us, d))
                               ELSE socket
  /\ UNCHANGED <<joined, acks, clientVars, historyVars>>

\* The order book subscription takes effect: diffs flow from here on.  The
\* client may have its snapshot by then, see ConfirmEarly.
Join ==
  /\ pc # "down"
  /\ ~joined
  /\ joined' = TRUE
  /\ from' = Current
  /\ pos' = Current
  /\ UNCHANGED <<hist, acks, socket, clientVars, fresh>>

\* One acknowledgement per subscription, in the same stream as the diffs.
SendAck ==
  /\ joined
  /\ acks < 2
  /\ acks' = acks + 1
  /\ socket' = Append(socket, Ack(Current))
  /\ UNCHANGED <<hist, joined, clientVars, historyVars>>

\* The REST endpoint answers the pending request with a recent book.  Its
\* microtimestamp counts as 0 when it does not parse.
AnswerRest ==
  /\ pc = "fetching"
  /\ reply = NoReply
  /\ \E v \in {w \in 1..Current : w + RestLag >= Current} :
       \E us \in {v, 0} : reply' = [ver |-> v, us |-> us]
  /\ UNCHANGED <<exchangeVars, socket, pc, buffer, book, historyVars>>

(***************************************************************************)
(* The client.                                                             *)
(***************************************************************************)
\* connect_async succeeded and both subscribe requests were sent.
Connect ==
  /\ pc = "down"
  /\ pc' = "buffering"
  /\ UNCHANGED <<exchangeVars, socket, buffer, reply, book, historyVars>>

\* Phase 1, a diff: buffer.push(parsed).
BufferDiff ==
  /\ pc = "buffering"
  /\ socket # <<>> /\ Head(socket).type = "diff"
  /\ buffer' = Append(buffer, Head(socket))
  /\ socket' = Tail(socket)
  /\ UNCHANGED <<exchangeVars, pc, reply, book, historyVars>>

\* Phase 1, bts:subscription_succeeded of either channel: the same handler
\* goes on to request the snapshot, and reads nothing until it is answered.
Confirm ==
  /\ pc = "buffering"
  /\ socket # <<>> /\ Head(socket).type = "ack"
  /\ socket' = Tail(socket)
  /\ pc' = "fetching"
  /\ UNCHANGED <<exchangeVars, buffer, reply, book, historyVars>>

\* The same for an acknowledgement of the trades channel that is read before
\* the order book subscription takes effect.  (Sent before but read after that
\* it is an acknowledgement in front of every diff, as SendAck makes one.)
ConfirmEarly ==
  /\ pc = "buffering"
  /\ ~joined /\ acks = 0
  /\ acks' = 1
  /\ pc' = "fetching"
  /\ UNCHANGED <<hist, joined, socket, buffer, reply, book, historyVars>>

\* The snapshot has arrived and parsed: process_msg(&snapshot_msg).
SnapshotOk ==
  /\ pc = "fetching"
  /\ reply # NoReply
  /\ book' = ProcessSnapshot(hist[reply.ver])
  /\ pc' = "replaying"
  /\ UNCHANGED <<exchangeVars, socket, buffer, reply, historyVars>>

\* The request or the parsing of its answer failed: go live with the empty
\* book.  The buffer is never looked at again on this connection.
SnapshotFailed ==
  /\ pc = "fetching"
  /\ pc' = "live"
  /\ pos' = pos + Len(buffer)
  /\ buffer' = <<>>
  /\ reply' = NoReply
  /\ UNCHANGED <<exchangeVars, socket, book, from, fresh>>

\* Mutant: off by one, the first diff after the snapshot is discarded too.
KeptLater(m) == m.us = NoStamp \/ m.us > reply.us + 1

\* Mutant: a diff without a microtimestamp is discarded.
KeptStamped(m) == m.us > reply.us

\* microtimestamp_us() > snapshot_microtimestamp, or None.
Kept(m) == m.us = NoStamp \/ m.us > reply.us

ApplyDiff(m) ==
  /\ book' = ProcessDiff(book, m.levels)
  /\ fresh' = fresh \cup Touched(m.levels)

\* Mutant: the buffer is emptied from its end.
ReplayFromEnd ==
  /\ pc = "replaying"
  /\ buffer # <<>>
  /\ buffer' = SubSeq(buffer, 1, Len(buffer) - 1)
  /\ IF Kept(buffer[Len(buffer)]) THEN ApplyDiff(buffer[Len(buffer)])
                                  ELSE UNCHANGED <<book, fresh>>
  /\ pos' = buffer[Len(buffer)].ver
  /\ UNCHANGED <<exchangeVars, socket, pc, reply, from>>

\* One buffered diff: discarded, or processed like a live one.
Replay ==
  /\ pc = "replaying"
  /\ buffer # <<>>
  /\ buffer' = Tail(buffer)
  /\ IF Kept(Head(buffer)) THEN ApplyDiff(Head(buffer))
                           ELSE UNCHANGED <<book, fresh>>
  /\ pos' = Head(buffer).ver
  /\ UNCHANGED <<exchangeVars, socket, pc, reply, from>>

\* Mutant: what is waiting in the socket by then is thrown away.
GoLiveDraining ==
  /\ pc = "replaying"
  /\ buffer = <<>>
  /\ pc' = "live"
  /\ socket' = <<>>
  /\ UNCHANGED <<exchangeVars, buffer, reply, book, historyVars>>

\* The replay is over: snapshot_applied = true.
GoLive ==
  /\ pc = "replaying"
  /\ buffer = <<>>
  /\ pc' = "live"
  /\ UNCHANGED <<exchangeVars, socket, buffer, reply, book, historyVars>>

\* Phase 2, a diff: processed whatever its microtimestamp.
LiveDiff ==
  /\ pc = "live"
  /\ socket # <<>> /\ Head(socket).type = "diff"
  /\ socket' = Tail(socket)
  /\ ApplyDiff(Head(socket))
  /\ pos' = Head(socket).ver
  /\ UNCHANGED <<exchangeVars, pc, buffer, reply, from>>

\* Phase 2, the acknowledgement of the other subscription: only logged.
LiveEvent ==
  /\ pc = "live"
  /\ socket # <<>> /\ Head(socket).type = "ack"
  /\ socket' = Tail(socket)
  /\ UNCHANGED <<exchangeVars, clientVars, historyVars>>

\* Mutant: the order book outlives the connection.
DisconnectKeepingBook ==
  /\ pc \in {"buffering", "live"}
  /\ joined' = FALSE /\ acks' = 0 /\ socket' = <<>>
  /\ pc' = "down" /\ buffer' = <<>> /\ reply' = NoReply
  /\ from' = 0 /\ pos' = 0 /\ fresh' = {}
  /\ UNCHANGED <<hist, book>>

\* The read loop sees the end of the stream, an error or a close frame; it
\* does not while a handler runs.  The next iteration of the connection loop
\* starts with new locals.
Disconnect ==
  /\ pc \in {"buffering", "live"}
  /\ joined' = FALSE /\ acks' = 0 /\ socket' = <<>>
  /\ pc' = "down" /\ buffer' = <<>> /\ reply' = NoReply /\ book' = EmptyBook
  /\ from' = 0 /\ pos' = 0 /\ fresh' = {}
  /\ UNCHANGED hist

-----------------------------------------------------------------------------
Exchange == (\E d \in Diffs : Change(d)) \/ Join \/ SendAck \/ AnswerRest
Read     == BufferDiff \/ Confirm \/ LiveDiff \/ LiveEvent
Handle   == SnapshotOk \/ Replay \/ GoLive
Next     == \/ Exchange \/ Connect \/ Read \/ ConfirmEarly
            \/ Handle \/ SnapshotFailed \/ Disconnect

\* The client task runs whenever it can (the executor polls ready tasks), the
\* exchange completes the subscriptions it accepted and answers or fails each
\* request.  Nothing makes the exchange change its book or drop a connection.
Fairness ==
  /\ WF_vars(Connect \/ Read \/ Handle)
  /\ WF_vars(Join)
  /\ WF_vars(SendAck)
  /\ WF_vars(AnswerRest \/ SnapshotFailed)

Spec == Init /\ [][Next]_vars /\ Fairness

-----------------------------------------------------------------------------
(***************************************************************************)
(* Properties.                                                             *)
(***************************************************************************)
\* The client has a book it works on.
Serving == pc \in {"replaying", "live"}

\* Either every diff carries a microtimestamp or none does.  When only some do,
\* the replay may apply an old diff and discard the newer one that took it back.
Uniform == Stamps # BOOLEAN

\* What the messages processed so far say of a level: diffs processed on this
\* connection speak for the levels they touched, the snapshot (nothing, after
\* a failed fetch) for the others.
Reported(s, p) ==
  IF <<s, p>> \in fresh THEN hist[pos][s][p]
  ELSE IF reply = NoReply THEN 0 ELSE hist[reply.ver][s][p]

\* Every diff up to the snapshot's version has been read, and none is missing.
CaughtUp == Serving /\ reply # NoReply /\ from <= reply.ver /\ reply.ver <= pos

\* When nothing is filtered the book is what the messages processed report,
\* level by level: neither the discard of buffered diffs, nor their replay, nor
\* the diffs left in the socket during the fetch lose a change or apply one
\* twice with an effect (ws.rs 391-468).
BookIsReported ==
  (KeepsAll /\ Uniform /\ Serving) =>
     \A s \in Sides : \A p \in Prices : book[s][p] = Reported(s, p)

\* Hence reconciliation works: once the diffs read reach the version of the
\* snapshot, the book is exactly the exchange's book at the last diff read.
ReconciledBook == (KeepsAll /\ Uniform /\ CaughtUp) => book = hist[pos]

\* With a filter that drops levels but lets every change of a kept level
\* through (MaxLevel), a level in the book still has the exchange's size; also
\* after a failed snapshot, where the book holds only what diffs brought.
NoStaleLevel ==
  (KeepsUpdates /\ Uniform /\ Serving) =>
     \A s \in Sides : \A p \in Listed(book[s]) : book[s][p] = Reported(s, p)

\* Whatever the filter: once the diffs read reach the version of the snapshot,
\* the book lists no level the exchange has removed.  A narrow window keeps an
\* old size of a level that has left it (should_include refuses the update),
\* but never the level itself beyond its removal; and diffs without a
\* microtimestamp, kept although the snapshot covers them (ws.rs 418), do not
\* bring a removed level back.
NoGhostLevel ==
  (Uniform /\ CaughtUp) =>
     \A s \in Sides : Listed(book[s]) \subseteq Listed(hist[pos][s])

\* filter_diff counts the levels it adds, so MaxLevel is never exceeded.
WithinMaxLevel ==
  LevelFilter.kind = "MaxLevel" =>
     \A s \in Sides : Cardinality(Listed(book[s])) <= LevelFilter.n

\* Whatever the filter and the stamps: a size in the book is the one of this
\* connection's snapshot, or one a diff processed on this connection left
\* behind; after a failed snapshot, and before any, only the latter.
NoInventedSize ==
  \A s \in Sides : \A p \in Listed(book[s]) :
     \E v \in 1..Current : /\ hist[v][s][p] = book[s][p]
                           /\ \/ from < v /\ v <= pos
                              \/ reply # NoReply /\ v = reply.ver

\* While a connection lasts and its snapshot succeeded, the book becomes and
\* stays the exchange's current book (the exchange makes finitely many changes).
Mirrors ==
  (KeepsAll /\ Uniform /\ <>[](pc # "down")) =>
     <>[](pc = "live" /\ (reply = NoReply \/ reply.ver < from \/ book = hist[Current]))

\* The client as a replica of the exchange: it shows its book once the diffs
\* read have reached its snapshot.
Mirror == INSTANCE Replica WITH
            Data <- Book, None <- EmptyBook,
            log <- hist, view <- IF CaughtUp THEN pos ELSE 0,
            shown <- IF CaughtUp THEN book ELSE EmptyBook

\* With KeepsAll and Uniform what it shows is a version of the exchange's
\* book as a whole, and neither the discard nor the replay takes it back.
ImplementsReplica == Mirror!Spec

\* What the documents say of step 5: when the process is over the book is a
\* state the exchange was in (exchange-comparison.md, "to guarantee state
\* consistency").
ConsistentWhenLive ==
  (pc = "live" /\ reply # NoReply) => \E v \in 1..Current : book = hist[v]

-----------------------------------------------------------------------------
(***************************************************************************)
(* The inductive invariant behind ReconciledBook, NoStaleLevel and          *)
(* NoGhostLevel.                                                           *)
(***************************************************************************)
\* Version up to which the messages of this connection have been read.
LastRead == pos + Len(buffer)

Step(m) == IF m.type = "diff" THEN 1 ELSE 0

\* Before the subscription takes effect no diff has been sent.
NotJoined ==
  ~joined => /\ socket = <<>> /\ buffer = <<>> /\ fresh = {}
             /\ from = 0 /\ pos = 0

\* Buffer and socket hold the versions after pos, in order and without a gap,
\* up to the exchange's current one.
BufferInOrder ==
  \A i \in DOMAIN buffer : buffer[i].type = "diff" /\ buffer[i].ver = pos + i

SocketInOrder ==
  \A i \in DOMAIN socket :
     /\ socket[i].ver <= Current
     /\ socket[i].ver =
          Step(socket[i]) + (IF i = 1 THEN LastRead ELSE socket[i - 1].ver)

NothingMissing ==
  joined => /\ 0 < from /\ from <= pos /\ LastRead <= Current
            /\ Current = IF socket = <<>> THEN LastRead
                                          ELSE socket[Len(socket)].ver

\* A diff on its way is the change that made the version of h it carries.
Genuine(h, m) ==
  m.type = "diff" =>
    /\ m.ver \in 2..Len(h)
    /\ h[m.ver] = ApplyFully(h[m.ver - 1], m.levels)
    /\ \E stamped \in Stamps : m.us = Stamp(stamped, m.ver)

GenuineMessages ==
  /\ \A i \in DOMAIN buffer : Genuine(hist, buffer[i])
  /\ \A i \in DOMAIN socket : Genuine(hist, socket[i])

\* What each phase has and has not done yet.
Phases ==
  /\ pc \in {"down", "buffering", "fetching"} =>
       fresh = {} /\ pos = from /\ book = EmptyBook
  /\ pc \in {"down", "buffering"} => reply = NoReply
  /\ pc = "replaying" => reply # NoReply
  /\ pc = "live" => buffer = <<>>
  /\ reply.us \in {reply.ver, 0}

\* While stamped diffs are being discarded none has been applied.
DiscardedFirst ==
  (Stamps = {TRUE} /\ pc = "replaying" /\ pos < reply.us) => fresh = {}

\* Levels no applied diff touched have not changed since the snapshot.
Untouched ==
  (Stamps = {TRUE} /\ CaughtUp) =>
     \A s \in Sides : \A p \in Prices :
        <<s, p>> \notin fresh => hist[pos][s][p] = hist[reply.ver][s][p]

\* Without stamps every buffered diff is applied, so that they have not changed
\* since the subscription.
Unchanged ==
  (Stamps = {FALSE} /\ joined /\ (pc = "live" => reply # NoReply)) =>
     \A s \in Sides : \A p \in Prices :
        <<s, p>> \notin fresh =>
           \A v \in from..pos : hist[v][s][p] = hist[from][s][p]

\* What the processed messages report as removed is not in the book.
NoGhostReported ==
  (Uniform /\ Serving) =>
     \A s \in Sides : \A p \in Listed(book[s]) : Reported(s, p) # 0

IInv ==
  /\ TypeOK
  /\ NotJoined
  /\ BufferInOrder /\ SocketInOrder /\ NothingMissing
  /\ GenuineMessages
  /\ Phases
  /\ DiscardedFirst
  /\ Untouched /\ Unchanged
  /\ BookIsReported
  /\ NoStaleLevel
  /\ NoGhostReported
=============================================================================
