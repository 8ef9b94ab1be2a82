-------------------------- MODULE ClientLoopProofs --------------------------
(***************************************************************************)
(* Proofs about ClientLoop, for any clients, any exchanges and any number  *)
(* of signals.                                                             *)
(***************************************************************************)
EXTENDS ClientLoop, TLAPS

\* At the start no signal is sent and no client has connected.
LEMMA InitLoopInv == Init => LoopInv
<1> SUFFICES ASSUME Init PROVE LoopInv
  OBVIOUS
<1>1. TypeOK
  <2>1. pc \in [Clients -> Sleeps \cup {"new", "connecting", "sub_books", "sub_trades",
                                     "selecting", "waiting", "handling", "exited"}]
    BY DEF Init
  <2>2. /\ attempt \in [Clients -> 0..AttemptCap] /\ signals \in 0..MaxSignals
        /\ heard \in [Clients -> SUBSET Signals] /\ handlers \subseteq Signals
    BY LoopAssumption DEF Init
  <2>3. /\ shutdown \in [Clients -> BOOLEAN] /\ active \in [Clients -> BOOLEAN]
        /\ term \in [Clients -> BOOLEAN]
    BY DEF Init
  <2>4. killed \in BOOLEAN
    BY Zenon DEF Init
  <2>. QED
    BY <2>1, <2>2, <2>3, <2>4 DEF TypeOK
<1>2. /\ EndsOnSignalOnly /\ HeardWasSent /\ StatusOfReaders
      /\ FirstDelayOnceConnected /\ CountedFromConnection /\ NoFlagInReadBackoff
  BY DEF Init, EndsOnSignalOnly, HeardWasSent, StatusOfReaders,
     NoFlagInReadBackoff, FirstDelayOnceConnected, CountedFromConnection
<1>. QED
  BY <1>1, <1>2 DEF LoopInv

\* The count of attempts stays within its cap.
LEMMA CountUpType ==
  ASSUME NEW n \in 0..AttemptCap
  PROVE  CountUp(n) \in 0..AttemptCap /\ CountUp(0) = 1
  BY LoopAssumption DEF CountUp

\* A step of a client, for any client.
LEMMA TaskTypeOK ==
  ASSUME TypeOK, NEW c \in Clients, Task(c), UNCHANGED <<signals, killed>>
  PROVE  TypeOK'
<1> USE DEF TypeOK, Goto, SetActive, Sleeps
<1>1. CASE Start(c)
  BY <1>1 DEF Start, Signals
<1>2. CASE ConnectOk(c)
  BY <1>2, LoopAssumption DEF ConnectOk
<1>3. CASE ConnectError(c)
  BY <1>3, CountUpType DEF ConnectError, BackOff, Signals
<1>4. CASE SubscribeOk(c)
  BY <1>4 DEF SubscribeOk
<1>5. CASE SubscribeError(c)
  BY <1>5, CountUpType DEF SubscribeError, BackOff, Signals
<1>6. CASE Suspend(c)
  BY <1>6 DEF Suspend
<1>7. CASE ReadMessage(c)
  BY <1>7 DEF ReadMessage, Polled
<1>8. CASE Handled(c)
  BY <1>8 DEF Handled
<1>9. CASE ReadEnd(c)
  <2>1. CASE shutdown[c]
    BY <1>9, <2>1 DEF ReadEnd, Polled
  <2>2. CASE ~shutdown[c]
    <3>1. attempt' \in [Clients -> 0..AttemptCap]
      <4>1. attempt' = [attempt EXCEPT ![c] = CountUp(attempt[c])]
        BY <1>9, <2>2 DEF ReadEnd, BackOff
      <4>2. CountUp(attempt[c]) \in 0..AttemptCap
        BY CountUpType
      <4>. QED
        BY <4>1, <4>2
    <3>5. active' \in [Clients -> BOOLEAN]
      BY <1>9, <2>2 DEF ReadEnd
    <3>2. heard' \in [Clients -> SUBSET Signals] /\ handlers' \subseteq Signals
      BY <1>9, <2>2 DEF ReadEnd, BackOff, Signals
    <3>3. pc' \in [Clients -> Sleeps \cup {"new", "connecting", "sub_books",
                      "sub_trades", "selecting", "waiting", "handling", "exited"}]
      BY <1>9, <2>2 DEF ReadEnd, BackOff
    <3>4. shutdown' = shutdown /\ term' = term
      BY <1>9 DEF ReadEnd
    <3>. QED
      BY <3>1, <3>2, <3>3, <3>4, <3>5
  <2>. QED
    BY <2>1, <2>2
<1>10. CASE ReadSignal(c)
  BY <1>10 DEF ReadSignal
<1>11. CASE SleepOver(c)
  BY <1>11 DEF SleepOver, AfterSleep
<1>12. CASE SleepSignal(c)
  BY <1>12 DEF SleepSignal, AfterSleep
<1>. QED
  BY <1>1, <1>2, <1>3, <1>4, <1>5, <1>6, <1>7, <1>8, <1>9, <1>10, <1>11, <1>12
  DEF Task

\* What a client does does not concern the others.
LEMMA OwnStep ==
  ASSUME TypeOK, NEW c \in Clients, Task(c), NEW d \in Clients, d # c
  PROVE  /\ pc'[d] = pc[d] /\ shutdown'[d] = shutdown[d] /\ attempt'[d] = attempt[d]
         /\ active'[d] = active[d] /\ heard'[d] = heard[d] /\ term'[d] = term[d]
  BY DEF Task, Start, ConnectOk, ConnectError, SubscribeOk, SubscribeError, Suspend,
     ReadMessage, Handled, ReadEnd, ReadSignal, SleepOver, SleepSignal, Goto,
     SetActive, BackOff, TypeOK

\* The parts of LoopInv that concern one client.
InvOf(c) ==
  /\ (pc[c] = "exited" \/ shutdown[c]) => signals > 0
  /\ (heard[c] # {} \/ term[c]) => signals > 0
  /\ pc[c] = "sleep_read" => ~shutdown[c]
  /\ pc[c] \in {"sub_trades", "selecting", "waiting", "handling"} => active[c]
  /\ pc[c] = "sleep_read" => ~active[c]
  /\ (pc[c] = "sleep_connect" /\ Exchange[c] # "okx") => ~active[c]
  /\ pc[c] \in {"sleep_read", "sleep_subscribe"} => attempt[c] = 1
  /\ pc[c] \in {"sub_books", "sub_trades", "selecting", "waiting", "handling"} =>
       attempt[c] = 0

\* LoopInv says the same of every client, on its own.
LEMMA InvByClient == LoopInv <=> (TypeOK /\ \A c \in Clients : InvOf(c))
  BY DEF LoopInv, InvOf, EndsOnSignalOnly, HeardWasSent, StatusOfReaders,
     NoFlagInReadBackoff, FirstDelayOnceConnected, CountedFromConnection

\* A step of a task keeps what holds of its client.
LEMMA TaskInv ==
  ASSUME TypeOK, NEW c \in Clients, InvOf(c), Task(c), UNCHANGED <<signals, killed>>
  PROVE  InvOf(c)'
<1> USE DEF TypeOK, Goto, SetActive, InvOf
<1>1. CASE Start(c)
  BY <1>1 DEF Start
<1>2. CASE ConnectOk(c)
  BY <1>2 DEF ConnectOk
<1>3. CASE ConnectError(c)
  BY <1>3 DEF ConnectError, BackOff
<1>4. CASE SubscribeOk(c)
  BY <1>4 DEF SubscribeOk
<1>5. CASE SubscribeError(c)
  BY <1>5, CountUpType DEF SubscribeError, BackOff
<1>6. CASE Suspend(c)
  BY <1>6 DEF Suspend
<1>7. CASE ReadMessage(c)
  BY <1>7 DEF ReadMessage, Polled
<1>8. CASE Handled(c)
  BY <1>8 DEF Handled
<1>9. CASE ReadEnd(c)
  <2>1. CASE shutdown[c]
    BY <1>9, <2>1 DEF ReadEnd, Polled
  <2>2. CASE ~shutdown[c]
    BY <1>9, <2>2, CountUpType DEF ReadEnd, BackOff
  <2>. QED
    BY <2>1, <2>2
<1>10. CASE ReadSignal(c)
  BY <1>10 DEF ReadSignal
<1>11. CASE SleepOver(c)
  BY <1>11 DEF SleepOver, AfterSleep, Sleeps
<1>12. CASE SleepSignal(c)
  BY <1>12 DEF SleepSignal, AfterSleep, Sleeps
<1>. QED
  BY <1>1, <1>2, <1>3, <1>4, <1>5, <1>6, <1>7, <1>8, <1>9, <1>10, <1>11, <1>12
  DEF Task

\* A signal delivered keeps what holds of every client.
LEMMA DeliverInv ==
  ASSUME LoopInv, NEW sig \in Signals, Deliver(sig)
  PROVE  TypeOK' /\ \A c \in Clients : InvOf(c)'
<1>0. TypeOK /\ \A c \in Clients : InvOf(c)
  BY InvByClient
<1>1. signals' = signals + 1 /\ signals' > 0 /\ signals' \in 0..MaxSignals
  BY <1>0, LoopAssumption DEF Deliver, TypeOK
<1>2. UNCHANGED <<pc, shutdown, attempt, active, handlers>>
  BY DEF Deliver
<1>3. heard' \in [Clients -> SUBSET Signals]
  BY <1>0 DEF Deliver, TypeOK
<1>4. term' \in [Clients -> BOOLEAN] /\ killed' \in BOOLEAN
  <2>1. CASE sig \in handlers
    BY <1>0, <2>1 DEF Deliver, TypeOK
  <2>2. CASE sig \notin handlers
    <3>1. killed' = TRUE
      BY <2>2, Zenon DEF Deliver
    <3>2. killed' \in BOOLEAN
      BY <3>1, Zenon
    <3>. QED
      BY <1>0, <2>2, <3>2 DEF Deliver, TypeOK
  <2>. QED
    BY <2>1, <2>2
<1>5. TypeOK'
  BY <1>0, <1>1, <1>2, <1>3, <1>4 DEF TypeOK
<1>6. \A c \in Clients : InvOf(c)'
  BY <1>0, <1>1, <1>2 DEF InvOf
<1>. QED
  BY <1>5, <1>6

\* Every step keeps LoopInv.
LEMMA NextLoopInv == LoopInv /\ [Next]_vars => LoopInv'
<1> SUFFICES ASSUME LoopInv, [Next]_vars
             PROVE  TypeOK' /\ \A c \in Clients : InvOf(c)'
  BY InvByClient DEF InvOf, LoopInv, EndsOnSignalOnly, HeardWasSent,
     StatusOfReaders, NoFlagInReadBackoff, FirstDelayOnceConnected, CountedFromConnection
<1>0. TypeOK /\ \A c \in Clients : InvOf(c)
  BY InvByClient
<1>1. ASSUME NEW c \in Clients, Task(c), UNCHANGED <<signals, killed>>
      PROVE  TypeOK' /\ \A d \in Clients : InvOf(d)'
  <2>1. TypeOK'
    BY <1>0, <1>1, TaskTypeOK
  <2>2. InvOf(c)'
    BY <1>0, <1>1, TaskInv
  <2>3. ASSUME NEW d \in Clients, d # c PROVE InvOf(d)'
    <3>1. /\ pc'[d] = pc[d] /\ shutdown'[d] = shutdown[d] /\ attempt'[d] = attempt[d]
          /\ active'[d] = active[d] /\ heard'[d] = heard[d] /\ term'[d] = term[d]
      BY <1>0, <1>1, <2>3, OwnStep
    <3>. QED
      BY <1>0, <1>1, <3>1 DEF InvOf
  <2>. QED
    BY <2>1, <2>2, <2>3
<1>2. ASSUME NEW sig \in Signals, Deliver(sig)
      PROVE  TypeOK' /\ \A d \in Clients : InvOf(d)'
  BY <1>2, DeliverInv
<1>3. CASE UNCHANGED vars
  BY <1>0, <1>3 DEF vars, clientVars, TypeOK, InvOf
<1>. QED
  BY <1>1, <1>2, <1>3 DEF Next

-----------------------------------------------------------------------------
\* What a client knows of signals, its flag and its delays, at every step.
THEOREM LoopInvHolds == Spec => []LoopInv
  BY InitLoopInv, NextLoopInv, PTL DEF Spec

\* However often connecting, subscribing and reading fail, only a signal ends
\* a client.
THEOREM EndsOnSignalOnlyHolds == Spec => []EndsOnSignalOnly
<1>1. LoopInv => EndsOnSignalOnly
  BY DEF LoopInv
<1>. QED
  BY <1>1, LoopInvHolds, PTL

\* The status entry says active while a client reads and not after a loss.
THEOREM StatusOfReadersHolds == Spec => []StatusOfReaders
<1>1. LoopInv => StatusOfReaders
  BY DEF LoopInv
<1>. QED
  BY <1>1, LoopInvHolds, PTL

\* The backoff grows with connect errors only.
THEOREM FirstDelayHolds == Spec => []FirstDelayOnceConnected
<1>1. LoopInv => FirstDelayOnceConnected
  BY DEF LoopInv
<1>. QED
  BY <1>1, LoopInvHolds, PTL

\* A SIGTERM is forgotten only where a backoff after a failed connect or
\* subscribe overwrites the flag it had set.
THEOREM SigtermKeptHolds == Spec => SigtermKept
<1> DEFINE Kept(c) == ((term[c] \/ shutdown[c]) /\ ~(term'[c] \/ shutdown'[c])) =>
                         /\ shutdown[c]
                         /\ pc[c] \in {"sleep_connect", "sleep_subscribe"}
<1>1. LoopInv /\ [Next]_vars => [\A c \in Clients : Kept(c)]_vars
  <2> SUFFICES ASSUME LoopInv, Next, NEW d \in Clients PROVE Kept(d)
    OBVIOUS
  <2>0. TypeOK /\ InvOf(d)
    BY InvByClient
  <2>1. ASSUME NEW sig \in Signals, Deliver(sig)
        PROVE  shutdown' = shutdown /\ (term[d] => term'[d])
    BY <2>0, <2>1 DEF Deliver, TypeOK
  <2>2. ASSUME NEW c \in Clients, Task(c), c # d
        PROVE  shutdown'[d] = shutdown[d] /\ term'[d] = term[d]
    BY <2>0, <2>2, OwnStep
  <2>3. ASSUME Task(d)
        PROVE  Kept(d)
    <3>1. CASE SleepOver(d)
      BY <2>0, <3>1 DEF SleepOver, InvOf, Sleeps
    <3>2. CASE SleepSignal(d) \/ ReadSignal(d)
      <4>1. shutdown'[d]
        BY <2>0, <3>2 DEF SleepSignal, ReadSignal, TypeOK
      <4>. QED
        BY <4>1
    <3>3. CASE ~(SleepOver(d) \/ SleepSignal(d) \/ ReadSignal(d))
      <4>1. shutdown' = shutdown /\ term' = term
        BY <2>3, <3>3 DEF Task, Start, ConnectOk, ConnectError, SubscribeOk,
           SubscribeError, Suspend, ReadMessage, Handled, ReadEnd
      <4>. QED
        BY <4>1
    <3>. QED
      BY <3>1, <3>2, <3>3
  <2>. QED
    BY <2>1, <2>2, <2>3 DEF Next
<1>. QED
  BY <1>1, LoopInvHolds, PTL DEF Spec, SigtermKept
=============================================================================
