----------------------------- MODULE ClientLoop -----------------------------
(***************************************************************************)
(* The life of the client tasks of one process: connect, subscribe, read,  *)
(* back off, reconnect, and stop on a signal (run of okx/ws.rs, kraken/    *)
(* ws.rs and bitstamp/ws.rs; signal_sleep and wait_for_shutdown_signal of  *)
(* traits/mod.rs; main joins the tasks).                                   *)
(*                                                                         *)
(* A tokio::select! lasts from its first poll to the poll that finds one   *)
(* branch ready; several ready branches are taken in any order.  A ctrl_c  *)
(* future, and the SIGTERM listener made inside wait_for_shutdown_signal,  *)
(* exist only that long: what is delivered at another time is not seen by  *)
(* them.  The SIGTERM listener of run is made once and remembers one       *)
(* delivery until signal_sleep asks it.                                    *)
(*                                                                         *)
(*   "new"         the task is not polled yet                              *)
(*   "connecting"  in connect_async                                        *)
(*   "sub_books", "sub_trades"   sending the two subscribe requests        *)
(*   "selecting"   before the first poll of the read loop's select         *)
(*   "waiting"     suspended in that select                                *)
(*   "handling"    processing a message: apply, persist, fetch a snapshot  *)
(*   "sleep_connect", "sleep_subscribe", "sleep_read"   in signal_sleep    *)
(*   "exited"      run has returned                                        *)
(***************************************************************************)
EXTENDS Naturals, FiniteSets

CONSTANTS Clients,      \* the tasks main has spawned
          Exchange,     \* Exchange[c]: which client code c runs
          AttemptCap,   \* bound: attempt is counted up to here
          MaxSignals    \* bound: signals sent to the process

ASSUME LoopAssumption ==
  /\ IsFiniteSet(Clients)
  /\ Exchange \in [Clients -> {"okx", "kraken", "bitstamp"}]
  /\ AttemptCap \in Nat \ {0}
  /\ MaxSignals \in Nat

VARIABLES
  pc,        \* where each client is, see above
  shutdown,  \* its local flag
  attempt,   \* its count of failures since the last connection
  active,    \* status_handle: ClientStatus.active
  heard,     \* signals delivered during the current select of the client
  term,      \* SIGTERM its own listener has not reported yet
  handlers,  \* signals the process has installed a handler for
  signals,   \* signals sent so far
  killed     \* a signal met the default disposition

clientVars == <<pc, shutdown, attempt, active, heard, term>>
vars == <<clientVars, handlers, signals, killed>>

Signals == {"INT", "TERM"}
Sleeps  == {"sleep_connect", "sleep_subscribe", "sleep_read"}

TypeOK ==
  /\ pc \in [Clients -> Sleeps \cup {"new", "connecting", "sub_books", "sub_trades",
                                     "selecting", "waiting", "handling", "exited"}]
  /\ shutdown \in [Clients -> BOOLEAN]
  /\ attempt \in [Clients -> 0..AttemptCap]
  /\ active \in [Clients -> BOOLEAN]
  /\ heard \in [Clients -> SUBSET Signals]
  /\ term \in [Clients -> BOOLEAN]
  /\ handlers \subseteq Signals
  /\ signals \in 0..MaxSignals
  /\ killed \in BOOLEAN

Init ==
  /\ pc = [c \in Clients |-> "new"]
  /\ shutdown = [c \in Clients |-> FALSE]
  /\ attempt = [c \in Clients |-> 0]
  /\ active = [c \in Clients |-> FALSE]
  /\ heard = [c \in Clients |-> {}]
  /\ term = [c \in Clients |-> FALSE]
  /\ handlers = {} /\ signals = 0 /\ killed = FALSE

-----------------------------------------------------------------------------
Goto(c, where) == pc' = [pc EXCEPT ![c] = where]
SetActive(c, on) == active' = [active EXCEPT ![c] = on]

\* Up to AttemptCap; backoff_delay stops growing at its seventh step anyway.
CountUp(n) == IF n < AttemptCap THEN n + 1 ELSE n

\* attempt += 1 and into signal_sleep, whose first poll makes the ctrl_c
\* listener (and the process's handler for SIGINT, if there is none), unless it
\* asks the other branch first and finds a SIGTERM there.
BackOff(c, sleep) ==
  /\ Goto(c, sleep)
  /\ attempt' = [attempt EXCEPT ![c] = CountUp(@)]
  /\ heard' = [heard EXCEPT ![c] = {}]
  /\ \/ handlers' = handlers \cup {"INT"}
     \/ term[c] /\ UNCHANGED handlers

\* run begins: the SIGTERM listener that lives as long as the client.
Start(c) ==
  /\ pc[c] = "new"
  /\ Goto(c, "connecting")
  /\ handlers' = handlers \cup {"TERM"}
  /\ UNCHANGED <<shutdown, attempt, active, heard, term>>

\* Mutant: attempt is not reset.
ConnectOkKeepingCount(c) ==
  /\ pc[c] = "connecting"
  /\ Goto(c, "sub_books")
  /\ SetActive(c, TRUE)
  /\ UNCHANGED <<shutdown, attempt, heard, term, handlers>>

ConnectOk(c) ==
  /\ pc[c] = "connecting"
  /\ Goto(c, "sub_books")
  /\ attempt' = [attempt EXCEPT ![c] = 0]
  /\ SetActive(c, TRUE)
  /\ UNCHANGED <<shutdown, heard, term, handlers>>

\* Mutant: no client reports it.
ConnectErrorSilent(c) ==
  /\ pc[c] = "connecting"
  /\ BackOff(c, "sleep_connect")
  /\ UNCHANGED <<shutdown, active, term>>

\* Only the Kraken and the Bitstamp client report it in their status.
ConnectError(c) ==
  /\ pc[c] = "connecting"
  /\ BackOff(c, "sleep_connect")
  /\ IF Exchange[c] = "okx" THEN UNCHANGED active ELSE SetActive(c, FALSE)
  /\ UNCHANGED <<shutdown, term>>

SubscribeOk(c) ==
  /\ \/ /\ pc[c] = "sub_books"
        /\ Goto(c, "sub_trades")
        /\ SetActive(c, TRUE)
     \/ /\ pc[c] = "sub_trades"
        /\ Goto(c, "selecting")
        /\ UNCHANGED active
  /\ UNCHANGED <<shutdown, attempt, heard, term, handlers>>

SubscribeError(c) ==
  /\ pc[c] \in {"sub_books", "sub_trades"}
  /\ BackOff(c, "sleep_subscribe")
  /\ UNCHANGED <<shutdown, active, term>>

\* The select is polled and nothing is ready: both signals are listened to.
Suspend(c) ==
  /\ pc[c] = "selecting"
  /\ Goto(c, "waiting")
  /\ handlers' = Signals
  /\ UNCHANGED <<shutdown, attempt, active, heard, term>>

\* A select whose read branch is ready at the first poll may or may not have
\* asked for signals before.
Polled == \E asked \in {{}, Signals} : handlers' = handlers \cup asked

\* A text, ping, pong or binary message; with both branches ready the signal is
\* dropped with its listeners.
ReadMessage(c) ==
  /\ pc[c] \in {"selecting", "waiting"}
  /\ Goto(c, "handling")
  /\ heard' = [heard EXCEPT ![c] = {}]
  /\ Polled
  /\ UNCHANGED <<shutdown, attempt, active, term>>

\* Mutant: without that check.
HandledIgnoringFlag(c) ==
  /\ pc[c] = "handling"
  /\ Goto(c, "selecting")
  /\ UNCHANGED <<shutdown, attempt, active, heard, term, handlers>>

\* The message is dealt with; then the check of shutdown after the select.
Handled(c) ==
  /\ pc[c] = "handling"
  /\ Goto(c, IF shutdown[c] THEN "exited" ELSE "selecting")
  /\ UNCHANGED <<shutdown, attempt, active, heard, term, handlers>>

\* End of the stream, an error or a close frame.
ReadEnd(c) ==
  /\ pc[c] \in {"selecting", "waiting"}
  /\ IF shutdown[c]
     THEN /\ Goto(c, "exited")
          /\ heard' = [heard EXCEPT ![c] = {}]
          /\ Polled
          /\ UNCHANGED <<attempt, active>>
     ELSE /\ BackOff(c, "sleep_read")
          /\ SetActive(c, FALSE)
  /\ UNCHANGED <<shutdown, term>>

\* wait_for_shutdown_signal returns first.
ReadSignal(c) ==
  /\ pc[c] = "waiting"
  /\ heard[c] # {}
  /\ shutdown' = [shutdown EXCEPT ![c] = TRUE]
  /\ Goto(c, "exited")
  /\ heard' = [heard EXCEPT ![c] = {}]
  /\ UNCHANGED <<attempt, active, term, handlers>>

\* Mutants: the result of signal_sleep is taken the wrong way round; a failed
\* subscription ends the client.
AfterSleepInverted(c, flag) ==
  IF pc[c] = "sleep_read" /\ ~flag THEN "exited" ELSE "connecting"

AfterSleepGivingUp(c, flag) ==
  IF pc[c] = "sleep_subscribe" \/ (pc[c] = "sleep_read" /\ flag)
  THEN "exited" ELSE "connecting"

\* What follows a backoff: the one after a lost connection checks shutdown,
\* the other two go on with the loop.
AfterSleep(c, flag) == IF pc[c] = "sleep_read" /\ flag THEN "exited" ELSE "connecting"

\* Mutant: a SIGTERM listener that is made again for every sleep.
SleepOverForgetting(c) ==
  /\ pc[c] \in Sleeps
  /\ shutdown' = [shutdown EXCEPT ![c] = FALSE]
  /\ Goto(c, AfterSleep(c, FALSE))
  /\ heard' = [heard EXCEPT ![c] = {}]
  /\ term' = [term EXCEPT ![c] = FALSE]
  /\ UNCHANGED <<attempt, active, handlers>>

\* shutdown = signal_sleep(..): the delay is over.  A SIGTERM that was there
\* when the sleep began is reported at once, before any delay can be over.
SleepOver(c) ==
  /\ pc[c] \in Sleeps
  /\ term[c] => "TERM" \in heard[c]
  /\ shutdown' = [shutdown EXCEPT ![c] = FALSE]
  /\ Goto(c, AfterSleep(c, FALSE))
  /\ heard' = [heard EXCEPT ![c] = {}]
  /\ UNCHANGED <<attempt, active, term, handlers>>

\* shutdown = signal_sleep(..): a signal, which is taken from its listener.
SleepSignal(c) ==
  /\ pc[c] \in Sleeps
  /\ \/ /\ "INT" \in heard[c]
        /\ UNCHANGED term
     \/ /\ term[c]
        /\ term' = [term EXCEPT ![c] = FALSE]
  /\ shutdown' = [shutdown EXCEPT ![c] = TRUE]
  /\ Goto(c, AfterSleep(c, TRUE))
  /\ heard' = [heard EXCEPT ![c] = {}]
  /\ UNCHANGED <<attempt, active, handlers>>

\* The process gets a signal: every client in a select hears it, every client
\* that has begun and not ended remembers a SIGTERM.
Deliver(sig) ==
  /\ signals < MaxSignals
  /\ signals' = signals + 1
  /\ IF sig \in handlers
     THEN /\ heard' = [c \in Clients |->
                         IF \/ pc[c] = "waiting"
                            \/ pc[c] \in Sleeps /\ ~(sig = "TERM" /\ term[c])
                         THEN heard[c] \cup {sig} ELSE heard[c]]
          /\ term' = [c \in Clients |->
                        term[c] \/ (sig = "TERM" /\ pc[c] \notin {"new", "exited"})]
          /\ UNCHANGED killed
     ELSE /\ killed' = TRUE
          /\ UNCHANGED <<heard, term>>
  /\ UNCHANGED <<pc, shutdown, attempt, active, handlers>>

-----------------------------------------------------------------------------
Task(c) ==
  \/ Start(c) \/ ConnectOk(c) \/ ConnectError(c) \/ SubscribeOk(c)
  \/ SubscribeError(c) \/ Suspend(c) \/ ReadMessage(c) \/ Handled(c)
  \/ ReadEnd(c) \/ ReadSignal(c) \/ SleepOver(c) \/ SleepSignal(c)

\* main ends when every task has; then nothing is left to do.
Running == ~killed /\ \E c \in Clients : pc[c] # "exited"

Next ==
  /\ Running
  /\ \/ \E c \in Clients : Task(c) /\ UNCHANGED <<signals, killed>>
     \/ \E sig \in Signals : Deliver(sig)

Step(A) == Running /\ A /\ UNCHANGED <<signals, killed>>

\* The executor polls woken tasks and timers go off.  Of the network: a
\* connection attempt ends, one that is repeated for ever succeeds at last and
\* so does a subscription, a connection brings messages or ends.  Handling a
\* message ends, except that the Bitstamp client waits for REST without limit.
Fairness ==
  \A c \in Clients :
    /\ WF_vars(Step(Start(c)))
    /\ WF_vars(Step(ConnectOk(c) \/ ConnectError(c)))
    /\ SF_vars(Step(ConnectOk(c)))
    /\ SF_vars(Step(pc[c] = "sub_books" /\ SubscribeOk(c)))
    /\ SF_vars(Step(pc[c] = "sub_trades" /\ SubscribeOk(c)))
    /\ WF_vars(Step(Suspend(c) \/ ReadSignal(c)))
    /\ WF_vars(Step(ReadMessage(c) \/ ReadEnd(c)))
    /\ (Exchange[c] # "bitstamp") => WF_vars(Step(Handled(c)))
    /\ WF_vars(Step(SleepOver(c) \/ SleepSignal(c)))

Spec == Init /\ [][Next]_vars /\ Fairness

-----------------------------------------------------------------------------
(***************************************************************************)
(* Properties.                                                             *)
(***************************************************************************)
\* Retrying is unlimited: a client ends, or is about to, only because a signal
\* was sent to the process.
EndsOnSignalOnly ==
  \A c \in Clients : (pc[c] = "exited" \/ shutdown[c]) => signals > 0

\* The status says active as long as the client reads, and not after it lost a
\* connection; Kraken and Bitstamp also not while they cannot connect.
StatusOfReaders ==
  \A c \in Clients :
    /\ pc[c] \in {"sub_trades", "selecting", "waiting", "handling"} => active[c]
    /\ pc[c] = "sleep_read" => ~active[c]
    /\ (pc[c] = "sleep_connect" /\ Exchange[c] # "okx") => ~active[c]

\* A SIGTERM a client has been told of is forgotten in one way only: the flag
\* it set after a failed connect or subscribe is overwritten by the next one.
SigtermKept ==
  [][\A c \in Clients :
       ((term[c] \/ shutdown[c]) /\ ~(term'[c] \/ shutdown'[c])) =>
          /\ shutdown[c]
          /\ pc[c] \in {"sleep_connect", "sleep_subscribe"}]_vars

\* Only connect errors make the backoff longer: whatever a connection that was
\* accepted ends with, the next attempt follows after the shortest delay.
FirstDelayOnceConnected ==
  \A c \in Clients :
    pc[c] \in {"sleep_read", "sleep_subscribe"} => attempt[c] = 1

\* Without a signal every client comes back to reading, however often
\* connecting, subscribing and reading fail.
Recovers ==
  \A c \in Clients :
    []<>(signals > 0 \/ pc[c] \in {"selecting", "waiting", "handling"})

\* A client that reads with the flag set stops, at its next message at the
\* latest (of Bitstamp's, unless it waits for REST).
FlagEndsReading ==
  \A c \in Clients :
    (Exchange[c] # "bitstamp" /\ shutdown[c] /\ pc[c] = "selecting")
      ~> (killed \/ pc[c] = "exited")

\* ADR-014: "SIGINT detected immediately during active connections - process
\* shuts down on first Ctrl+C press".  A SIGINT while all clients read:
Reading(c) == pc[c] \in {"selecting", "waiting", "handling", "exited"}
FirstCtrlC ==
  (signals = 1 /\ "INT" \in UNION {heard[c] : c \in Clients}
    /\ \A c \in Clients : Reading(c)) ~> ~Running

-----------------------------------------------------------------------------
(***************************************************************************)
(* The inductive invariant behind the first three properties.              *)
(***************************************************************************)
\* A connection counts no failure until it ends.
CountedFromConnection ==
  \A c \in Clients :
    pc[c] \in {"sub_books", "sub_trades", "selecting", "waiting", "handling"} =>
       attempt[c] = 0

\* What a client has heard or remembers was sent.
HeardWasSent ==
  \A c \in Clients : (heard[c] # {} \/ term[c]) => signals > 0

\* A client that lost its connection with the flag set does not back off.
NoFlagInReadBackoff ==
  \A c \in Clients : pc[c] = "sleep_read" => ~shutdown[c]

LoopInv ==
  /\ TypeOK /\ NoFlagInReadBackoff
  /\ EndsOnSignalOnly /\ HeardWasSent
  /\ StatusOfReaders
  /\ FirstDelayOnceConnected /\ CountedFromConnection
=============================================================================
