------------------------------ MODULE Startup ------------------------------
(***************************************************************************)
(* main: migrations, the connection to QuestDB, one task per instrument,   *)
(* the HTTP server, and the wait for the tasks (main.rs, urls.rs).         *)
(*                                                                         *)
(* main goes from step to step while the tasks it has spawned run in other *)
(* threads and QuestDB comes and goes.  What a migration does is in        *)
(* Migrator, what a client does until it ends in ClientLoop, what it       *)
(* stores in Persistence: here a migration is one step, and a client       *)
(* writes its entry of /status and ends.                                   *)
(***************************************************************************)
EXTENDS Instruments

CONSTANTS CommandLines,  \* the flags main may be started with
          MaxChanges     \* bound: times QuestDB goes or comes back

ASSUME StartupAssumption ==
  /\ \A c \in CommandLines :
       /\ DOMAIN c = {"list", "instrument", "instruments", "exchange", "region", "port"}
       /\ c.list \in BOOLEAN /\ c.port \in BOOLEAN
       /\ c.exchange \in STRING \ {NoExchange}
       /\ c.instrument \in InstrumentParts /\ c.instrument.symbol # NoSymbol
       /\ c.instruments \subseteq Seq(InstrumentParts)
  /\ MaxChanges \in Nat

VARIABLES
  cli,        \* the flags; instruments is the set of the one list, if given
  main,       \* where main is
  database,   \* QuestDB answers
  changes,    \* times that has changed, for MaxChanges
  connected,  \* sender.is_some()
  announced,  \* the table that was printed
  resolved,   \* the instruments to run
  started,    \* how many of them have a task
  task,       \* how far each task is
  senders,    \* the tasks that were given a sender of their own
  status,     \* status_handle: the state in the entry of each key
  server,     \* the HTTP thread
  awaited     \* how many tasks main has seen the end of

vars == <<cli, main, database, changes, connected, announced, resolved, started, task,
          senders, status, server, awaited>>

Done == {"ended", "panicked"}

\* The key of a task in /status, in the gauges and in the stored rows.
KeyOf(r) == <<r.id, r.exchange>>

Init ==
  /\ cli \in CommandLines
  /\ main = "begin"
  /\ database \in BOOLEAN /\ changes = 0 /\ connected = FALSE
  /\ announced = {} /\ resolved = <<>> /\ started = 0 /\ task = <<>>
  /\ senders = {} /\ status = <<>> /\ server = "off" /\ awaited = 0

-----------------------------------------------------------------------------
\* --list-instruments.
List ==
  /\ main = "begin" /\ cli.list
  /\ announced' = InstrumentTable
  /\ main' = "exited"
  /\ UNCHANGED <<cli, database, changes, connected, resolved, started, task, senders, status,
                 server, awaited>>

\* run_migrations: an error is logged, and main goes on as if there were none.
Migrate ==
  /\ main = "begin" /\ ~ cli.list
  /\ main' = "connect"
  /\ UNCHANGED <<cli, database, changes, connected, announced, resolved, started, task, senders,
                 status, server, awaited>>

\* connect_sender, once for main: it decides whether the tasks try.
Connect ==
  /\ main = "connect"
  /\ connected' = database
  /\ main' = "resolve"
  /\ UNCHANGED <<cli, database, changes, announced, resolved, started, task, senders, status,
                 server, awaited>>

\* The instruments of --instruments, else the one of --instrument.
ToRun ==
  IF cli.instruments = {} THEN <<ResolveOneInstrument(cli.instrument, cli.exchange)>>
  ELSE LET pairs == ParseInstrumentsList(CHOOSE l \in cli.instruments : TRUE, cli.exchange)
       IN  [i \in DOMAIN pairs |-> ResolveOneInstrument(Part(pairs[i].symbol, NoExchange),
                                                        pairs[i].at)]

Resolve ==
  /\ main = "resolve"
  /\ resolved' = ToRun
  /\ task' = [i \in DOMAIN ToRun |-> "new"]
  /\ main' = IF ToRun = <<>> THEN "exited" ELSE "status"
  /\ UNCHANGED <<cli, database, changes, connected, announced, started, senders, status,
                 server, awaited>>

-----------------------------------------------------------------------------
(***************************************************************************)
(* One round of the loop over the instruments is three steps: the entry in *)
(* /status, the task's sender, the task.                                   *)
(***************************************************************************)
At(k, state) == [j \in DOMAIN status \cup {k} |-> IF j = k THEN state ELSE status[j]]

\* Mutant: the entries of all instruments are put in place each time.
InsertStatusAll ==
  /\ main = "status" /\ started < Len(resolved)
  /\ status' = [k \in {KeyOf(resolved[i]) : i \in DOMAIN resolved} |-> "starting"]
  /\ main' = "sender"
  /\ UNCHANGED <<cli, database, changes, connected, announced, resolved, started, task, senders,
                 server, awaited>>

\* The entry of an instrument replaces that of a twin that runs already.
InsertStatus ==
  /\ main = "status" /\ started < Len(resolved)
  /\ status' = At(KeyOf(resolved[started + 1]), "starting")
  /\ main' = "sender"
  /\ UNCHANGED <<cli, database, changes, connected, announced, resolved, started, task, senders,
                 server, awaited>>

\* Mutant: main gives up when a task's connection fails.
ConnectSenderOrExit ==
  /\ main = "sender"
  /\ senders' = senders \cup (IF connected /\ database THEN {started + 1} ELSE {})
  /\ main' = IF connected /\ ~ database THEN "exited" ELSE "spawn"
  /\ UNCHANGED <<cli, database, changes, connected, announced, resolved, started, task, status,
                 server, awaited>>

\* connect_sender for one task, which runs without a sender if that fails.
ConnectSender ==
  /\ main = "sender"
  /\ senders' = senders \cup (IF connected /\ database THEN {started + 1} ELSE {})
  /\ main' = "spawn"
  /\ UNCHANGED <<cli, database, changes, connected, announced, resolved, started, task, status,
                 server, awaited>>

\* Mutant: the loop steps on before and after.
SpawnTwice ==
  /\ main = "spawn"
  /\ task' = [task EXCEPT ![started + 1] = "spawned"]
  /\ started' = started + 2
  /\ main' = "status"
  /\ UNCHANGED <<cli, database, changes, connected, announced, resolved, senders, status,
                 server, awaited>>

Spawn ==
  /\ main = "spawn"
  /\ task' = [task EXCEPT ![started + 1] = "spawned"]
  /\ started' = started + 1
  /\ main' = "status"
  /\ UNCHANGED <<cli, database, changes, connected, announced, resolved, senders, status,
                 server, awaited>>

\* The server's thread starts last; that it cannot bind is logged, no more.
Serve ==
  /\ main = "status" /\ started = Len(resolved)
  /\ server' \in IF cli.port THEN {"serving", "failed"} ELSE {"off"}
  /\ main' = "wait"
  /\ UNCHANGED <<cli, database, changes, connected, announced, resolved, started, task, senders,
                 status, awaited>>

\* let _ = handle.await: a task that panicked is awaited like one that ended.
Await ==
  /\ main = "wait" /\ awaited < Len(resolved)
  /\ task[awaited + 1] \in Done
  /\ awaited' = awaited + 1
  /\ main' = IF awaited' = Len(resolved) THEN "exited" ELSE "wait"
  /\ UNCHANGED <<cli, database, changes, connected, announced, resolved, started, task, senders,
                 status, server>>

Main == \/ List \/ Migrate \/ Connect \/ Resolve
        \/ InsertStatus \/ ConnectSender \/ Spawn \/ Serve \/ Await

-----------------------------------------------------------------------------
Running(i) == main # "exited" /\ i \in DOMAIN task /\ task[i] = "running"

\* websocket_url indexes EXCHANGE_URL: an unknown region or exchange is a panic,
\* which ends the task and leaves its entry as it is.
LookUp(i) ==
  /\ main # "exited" /\ i \in DOMAIN task /\ task[i] = "spawned"
  /\ task' = [task EXCEPT ![i] =
       IF cli.region \in KnownRegions /\ resolved[i].exchange \in KnownExchanges
       THEN "running" ELSE "panicked"]
  /\ UNCHANGED <<cli, main, database, changes, connected, announced, resolved, started, senders,
                 status, server, awaited>>

\* update_status_active, on a connect or a disconnect.
UpdateStatusActive(i) ==
  /\ Running(i)
  /\ \E state \in {"active", "inactive"} : status' = At(KeyOf(resolved[i]), state)
  /\ UNCHANGED <<cli, main, database, changes, connected, announced, resolved, started, task,
                 senders, server, awaited>>

\* run() returns, after a signal.
End(i) ==
  /\ Running(i)
  /\ task' = [task EXCEPT ![i] = "ended"]
  /\ UNCHANGED <<cli, main, database, changes, connected, announced, resolved, started, senders,
                 status, server, awaited>>

\* A panic in a client: the text of a message that does not parse is cut at byte
\* 200 for the log, which must not be inside a character.
Crash(i) ==
  /\ Running(i)
  /\ task' = [task EXCEPT ![i] = "panicked"]
  /\ UNCHANGED <<cli, main, database, changes, connected, announced, resolved, started, senders,
                 status, server, awaited>>

\* QuestDB goes or comes back.
Database ==
  /\ changes < MaxChanges
  /\ changes' = changes + 1
  /\ database' = ~ database
  /\ UNCHANGED <<cli, main, connected, announced, resolved, started, task, senders, status,
                 server, awaited>>

Task(i) == LookUp(i) \/ UpdateStatusActive(i) \/ End(i) \/ Crash(i)

Next == Main \/ Database \/ \E i \in DOMAIN task : Task(i)

Spec == Init /\ [][Next]_vars

\* main does not wait for anything but answers and the end of its tasks, and a
\* spawned task gets a thread.  Whether and when a client ends is left open.
FairSpec == Spec /\ WF_vars(Main) /\ WF_vars(\E i \in DOMAIN task : LookUp(i))

-----------------------------------------------------------------------------
\* Types, how far the steps can be from each other, and who is in /status.
TypeOK ==
  /\ main \in {"begin", "connect", "resolve", "status", "sender", "spawn", "wait", "exited"}
  /\ database \in BOOLEAN /\ connected \in BOOLEAN
  /\ changes \in 0..MaxChanges
  /\ announced # {} => cli.list
  /\ resolved # <<>> => ~ cli.list
  /\ DOMAIN task = DOMAIN resolved
  /\ started \in 0..Len(resolved) /\ awaited \in 0..started
  /\ \A i \in DOMAIN task : task[i] \in {"new", "spawned", "running"} \cup Done
  /\ \A i \in DOMAIN task : task[i] = "new" <=> i > started
  /\ senders \subseteq {i \in DOMAIN resolved :
                          i <= started \/ (i = started + 1 /\ main = "spawn")}
  /\ DOMAIN status =
       {KeyOf(resolved[i]) : i \in {j \in DOMAIN resolved :
          j <= started \/ (j = started + 1 /\ main \in {"sender", "spawn"})}}
  /\ \A k \in DOMAIN status : status[k] \in {"starting", "active", "inactive"}
  /\ server \in {"off", "serving", "failed"}

\* A list in the formats of ADR-024 runs one client per part, in order, each for the
\* symbol and the exchange the format gives it; of any other list nothing is left
\* out but @exchange, and nothing runs that no part asks for.  The market is the
\* first currency of ADR-021's chain that the exchange lists for the base, and
\* --list-instruments announces the same, by the same name unless the base has
\* another name at that exchange.
FollowsChain ==
  LET list == CHOOSE l \in cli.instruments : TRUE
      Asks(i) == Wanted(list, cli.exchange, i)
      Single  == Part(cli.instrument.symbol, IF cli.instrument.at = NoExchange
                                             THEN cli.exchange ELSE cli.instrument.at)
      Entries(c) == {m \in COIN_ALIASES : NormalizeBase(m[1]) = c.base /\ m[3] = c.exchange}
      Typed(c)   == ResolveOneInstrument(Part(Symbol(c.base, c.target, "-"), NoExchange),
                                         c.exchange)
  IN  /\ main \notin {"begin", "connect", "resolve"} /\ ~ cli.list =>
           IF cli.instruments = {} THEN Len(resolved) = 1 /\ Runs(resolved[1], Single)
           ELSE /\ Documented(list) =>
                     /\ Len(resolved) = Len(list)
                     /\ \A i \in DOMAIN list : Runs(resolved[i], Asks(i))
                /\ \A i \in DOMAIN list : list[i].symbol # NoSymbol =>
                     \E k \in DOMAIN resolved : Runs(resolved[k], Asks(i))
                /\ \A k \in DOMAIN resolved : \E i \in Named(list) : Runs(resolved[k], Asks(i))
      /\ \A c \in announced :
           /\ c.shown.target = Quote(c.target, {m[2] : m \in Entries(c)})
           /\ (\A m \in Entries(c) : m[1] = c.base) => c.shown = Typed(c).symbol

\* What a client says of itself is not overwritten by main, unless the same key
\* is listed again: the entry goes back to "starting" only while main starts a
\* second task under the key, which the first one shares.
ResetByTwinOnly ==
  [][\A k \in DOMAIN status :
       (status[k] # "starting" /\ status'[k] = "starting") =>
         \E i \in 1..started :
           /\ KeyOf(resolved[i]) = k
           /\ KeyOf(resolved[started + 1]) = k]_vars

\* Every instrument that was asked for gets its client, whatever happens to
\* QuestDB and to the other tasks (ADR-024: "a failure on one does not affect
\* others"); only an unknown region or exchange keeps one from running.
AllStarted ==
  (resolved # <<>>) ~> (\A i \in DOMAIN task : task[i] \notin {"new", "spawned"})
=============================================================================
