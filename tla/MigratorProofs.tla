--------------------------- MODULE MigratorProofs ---------------------------
(***************************************************************************)
(* Proofs about Migrator, for any migrations, any number of processes,     *)
(* starts and faults.                                                      *)
(***************************************************************************)
EXTENDS Migrator, TLAPS

\* At the start nothing is recorded and nobody runs.
LEMMA InitMInv == Init => MInv
<1> SUFFICES ASSUME Init PROVE MInv
  OBVIOUS
<1>1. TypeOK
  <2>1. table \in BOOLEAN
    BY Zenon DEF Init
  <2>2. at \in [Processes -> Versions] /\ rows \in [Versions -> Nat]
    BY MigratorAssumption DEF Init, Versions
  <2>3. /\ pc \in [Processes -> Asking \cup {"down", "done", "failed"}]
        /\ applied \in [Processes -> SUBSET Versions]
        /\ clean \in [Processes -> BOOLEAN]
        /\ effects \subseteq Versions /\ late \subseteq Requests
    BY DEF Init, Asking
  <2>4. starts \in 0..MaxStarts /\ faults \in 0..MaxFaults
    BY MigratorAssumption DEF Init
  <2>. QED
    BY <2>1, <2>2, <2>3, <2>4 DEF TypeOK
<1>2. /\ RecordedTookEffect /\ EffectsInOrder /\ DoneMeansMigrated
      /\ RowsFollowEffects /\ AppliedIsRecorded /\ RecordedBehind /\ LateInOrder
  BY DEF Init, RecordedTookEffect, EffectsInOrder, DoneMeansMigrated,
     RowsFollowEffects, AppliedIsRecorded, RecordedBehind, LateInOrder, Recorded
<1>. QED
  BY <1>1, <1>2 DEF MInv

-----------------------------------------------------------------------------
\* What a request is, and what its execution does.
LEMMA SentIsRequest ==
  ASSUME TypeOK, NEW p \in Processes
  PROVE  /\ Sent(p) \in Requests
         /\ Sent(p).op = "sql" => pc[p] = "sql" /\ Sent(p).ver = at[p]
         /\ Sent(p).op = "record" => pc[p] = "record" /\ Sent(p).ver = at[p]
  BY DEF TypeOK, Sent, Requests, Request

\* What a request carried out changes in the database.
LEMMA ExecuteFacts ==
  ASSUME TypeOK, NEW r \in Requests, Execute(r)
  PROVE  /\ table' \in BOOLEAN /\ effects' \subseteq Versions
         /\ rows' \in [Versions -> Nat]
         /\ effects \subseteq effects' /\ Recorded \subseteq Recorded'
         /\ \A v \in effects' \ effects : r.op = "sql" /\ r.ver = v
         /\ \A v \in Recorded' \ Recorded : r.op = "record" /\ r.ver = v
         /\ r.op = "sql" => r.ver \in effects'
         /\ r.op = "record" => r.ver \in Recorded'
<1>1. r.op \in {"sql", "record"} => r.ver \in Versions
  BY DEF Requests, Request
<1>2. table' \in BOOLEAN
  BY Zenon DEF Execute, TypeOK
<1>3. /\ effects' \subseteq Versions /\ effects \subseteq effects'
      /\ \A v \in effects' \ effects : r.op = "sql" /\ r.ver = v
      /\ r.op = "sql" => r.ver \in effects'
  BY <1>1 DEF Execute, TypeOK
<1>4. /\ rows' \in [Versions -> Nat] /\ Recorded \subseteq Recorded'
      /\ \A v \in Recorded' \ Recorded : r.op = "record" /\ r.ver = v
      /\ r.op = "record" => r.ver \in Recorded'
  BY <1>1 DEF Execute, TypeOK, Recorded
<1>. QED
  BY <1>2, <1>3, <1>4

\* Going on from v with known migrations: what is skipped is known.
LEMMA ProceedFacts ==
  ASSUME TypeOK, NEW p \in Processes, NEW known \in SUBSET Versions,
         NEW v \in Nat, Proceed(p, known, v)
  PROVE  /\ pc' \in [Processes -> Asking \cup {"down", "done", "failed"}]
         /\ at' \in [Processes -> Versions]
         /\ \A q \in Processes \ {p} : pc'[q] = pc[q] /\ at'[q] = at[q]
         /\ \/ pc'[p] = "done" /\ \A w \in Versions : w < v \/ w \in known
            \/ /\ pc'[p] = "sql" /\ at'[p] \notin known /\ at'[p] >= v
               /\ \A w \in Versions : w < at'[p] => w < v \/ w \in known
<1> DEFINE left == {w \in Versions : w >= v /\ w \notin known}
<1>1. Versions \subseteq Nat
  BY DEF Versions
<1>2. CASE left = {} /\ pc' = [pc EXCEPT ![p] = "done"] /\ UNCHANGED at
  BY <1>1, <1>2 DEF TypeOK
<1>3. CASE \E w \in left : /\ \A u \in left : w <= u
                           /\ pc' = [pc EXCEPT ![p] = "sql"]
                           /\ at' = [at EXCEPT ![p] = w]
  BY <1>1, <1>3 DEF TypeOK, Asking
<1>. QED
  BY <1>2, <1>3 DEF Proceed

\* What a step of a process p does to where processes are.
Moved(p) ==
  /\ pc' \in [Processes -> Asking \cup {"down", "done", "failed"}]
  /\ at' \in [Processes -> Versions]
  /\ applied' \in [Processes -> SUBSET Versions]
  /\ \A q \in Processes \ {p} :
       pc'[q] = pc[q] /\ at'[q] = at[q] /\ applied'[q] = applied[q]
  /\ applied'[p] \subseteq applied[p] \cup Recorded
  /\ pc'[p] = "record" => pc[p] = "sql" /\ at'[p] = at[p]

\* Where p is afterwards, if what was recorded before the step, or is what p
\* has just recorded, is in rec.
Passed(p, rec) ==
  /\ pc'[p] = "sql" => \A w \in Versions : w < at'[p] => w \in rec
  /\ pc'[p] = "done" => Versions \subseteq rec

\* After an error a run goes on past what is recorded, or ends; it records nothing.
LEMMA OnErrorFacts ==
  ASSUME MInv, NEW p \in Processes, OnError(p)
  PROVE  Moved(p) /\ Passed(p, Recorded) /\ pc'[p] # "record"
<1>. USE DEF MInv
<1>1. CASE pc[p] = "relist" /\ applied' = [applied EXCEPT ![p] = {}] /\ Proceed(p, {}, 1)
  <2>1. Versions \subseteq Nat /\ \A w \in Versions : ~(w < 1)
    BY DEF Versions
  <2>2. /\ pc' \in [Processes -> Asking \cup {"down", "done", "failed"}]
        /\ at' \in [Processes -> Versions]
        /\ \A q \in Processes \ {p} : pc'[q] = pc[q] /\ at'[q] = at[q]
        /\ \/ pc'[p] = "done" /\ \A w \in Versions : w < 1 \/ w \in {}
           \/ /\ pc'[p] = "sql"
              /\ \A w \in Versions : w < at'[p] => w < 1 \/ w \in {}
    BY <1>1, ProceedFacts
  <2>3. /\ applied' \in [Processes -> SUBSET Versions] /\ applied'[p] = {}
        /\ \A q \in Processes \ {p} : applied'[q] = applied[q]
    BY <1>1 DEF TypeOK
  <2>. QED
    BY <2>1, <2>2, <2>3 DEF Moved, Passed
<1>2. CASE pc[p] \in Asking \ {"relist"} /\ GoTo(p, "failed")
  BY <1>2 DEF GoTo, Moved, Passed, TypeOK
<1>. QED
  BY <1>1, <1>2 DEF OnError

\* A request that was answered; what it recorded counts for going on.
LEMMA AnsweredFacts ==
  ASSUME MInv, NEW p \in Processes, Answered(p)
  PROVE  Moved(p) /\ Passed(p, Recorded') /\ (pc'[p] = "record" => at[p] \in effects')
<1>. USE DEF MInv
<1>0. /\ Sent(p) \in Requests /\ Execute(Sent(p))
      /\ Versions \subseteq Nat /\ at[p] \in Versions
  BY SentIsRequest DEF Answered, TypeOK, Versions
<1>e. /\ Recorded \subseteq Recorded'
      /\ pc[p] = "sql" => at[p] \in effects'
      /\ pc[p] = "record" => at[p] \in Recorded'
  <2>1. pc[p] \in {"sql", "record"} => Sent(p) = [op |-> pc[p], ver |-> at[p]]
    BY DEF Sent, Request
  <2>. QED
    BY <1>0, <2>1, ExecuteFacts
<1>1. CASE AfterEnsure(p) \/ AfterRelist(p)
  BY <1>1 DEF AfterEnsure, AfterRelist, GoTo, Moved, Passed, TypeOK, Asking
<1>2. CASE AfterQuery(p)
  <2>1. /\ applied' = [applied EXCEPT ![p] = Recorded] /\ Proceed(p, Recorded, 1)
        /\ pc[p] = "query" /\ Recorded \subseteq Versions
    BY <1>2 DEF AfterQuery, Recorded
  <2>2. /\ pc' \in [Processes -> Asking \cup {"down", "done", "failed"}]
        /\ at' \in [Processes -> Versions]
        /\ \A q \in Processes \ {p} : pc'[q] = pc[q] /\ at'[q] = at[q]
        /\ \/ pc'[p] = "done" /\ \A w \in Versions : w < 1 \/ w \in Recorded
           \/ /\ pc'[p] = "sql"
              /\ \A w \in Versions : w < at'[p] => w < 1 \/ w \in Recorded
    BY <2>1, ProceedFacts
  <2>3. \A w \in Versions : ~(w < 1)
    BY DEF Versions
  <2>4. /\ applied' \in [Processes -> SUBSET Versions] /\ applied'[p] = Recorded
        /\ \A q \in Processes \ {p} : applied'[q] = applied[q]
    BY <2>1 DEF TypeOK
  <2>. QED
    BY <1>e, <2>2, <2>3, <2>4 DEF Moved, Passed
<1>3. CASE AfterSql(p)
  BY <1>3, <1>e DEF AfterSql, GoTo, Moved, Passed, TypeOK, Asking
<1>4. CASE AfterRecord(p)
  <2>1. /\ pc[p] = "record" /\ UNCHANGED applied
        /\ Proceed(p, applied[p], at[p] + 1)
    BY <1>4 DEF AfterRecord
  <2>n. at[p] \in Nat /\ at[p] + 1 \in Nat
    <3>1. at[p] \in Nat
      BY <1>0
    <3>. QED
      BY <3>1
  <2>a. applied[p] \in SUBSET Versions
    BY DEF TypeOK
  <2>v. PICK v \in Nat : v = at[p] + 1
    BY <2>n
  <2>p. Proceed(p, applied[p], v)
    BY <2>1, <2>v
  <2>2. /\ pc' \in [Processes -> Asking \cup {"down", "done", "failed"}]
        /\ at' \in [Processes -> Versions]
        /\ \A q \in Processes \ {p} : pc'[q] = pc[q] /\ at'[q] = at[q]
        /\ \/ pc'[p] = "done" /\ \A w \in Versions : w < v \/ w \in applied[p]
           \/ /\ pc'[p] = "sql"
              /\ \A w \in Versions : w < at'[p] => w < v \/ w \in applied[p]
    BY <2>p, <2>a, ProceedFacts
  <2>3. \A w \in Versions : w < at[p] + 1 \/ w \in applied[p] => w \in Recorded'
    <3>1. \A w \in Versions : w < at[p] => w \in Recorded
      BY <2>1 DEF RecordedBehind
    <3>2. applied[p] \subseteq Recorded
      BY DEF AppliedIsRecorded
    <3>3. \A w \in Versions : w < at[p] + 1 => w < at[p] \/ w = at[p]
      <4> SUFFICES ASSUME NEW w \in Nat, w < at[p] + 1 PROVE w < at[p] \/ w = at[p]
        BY <1>0
      <4>. QED
        BY <2>n
    <3>. QED
      BY <1>e, <2>1, <2>v, <3>1, <3>2, <3>3
  <2>. QED
    BY <2>1, <2>2, <2>3, <2>v DEF Moved, Passed, TypeOK
<1>. QED
  BY <1>1, <1>2, <1>3, <1>4 DEF Answered

-----------------------------------------------------------------------------
\* Types are kept by every step.
LEMMA TypeStep ==
  ASSUME TypeOK, MInv, [Next]_vars
  PROVE  TypeOK'
<1>1. CASE UNCHANGED vars
  BY <1>1 DEF vars, TypeOK
<1>2. ASSUME NEW p \in Processes, Start(p) PROVE TypeOK'
  <2>1. starts' \in 0..MaxStarts
    BY <1>2, MigratorAssumption DEF Start, TypeOK
  <2>2. clean' \in [Processes -> BOOLEAN]
    <3>1. \A q \in Processes :
            (IF q = p THEN late = {} /\ \A o \in Processes : ~Running(o)
             ELSE clean[q] /\ ~Running(q)) \in BOOLEAN
      BY Zenon DEF TypeOK, Running
    <3>. QED
      BY <1>2, <3>1, Zenon DEF Start
  <2>3. /\ pc' \in [Processes -> Asking \cup {"down", "done", "failed"}]
        /\ UNCHANGED <<at, applied, table, effects, rows, late, faults>>
    BY <1>2 DEF Start, GoTo, TypeOK, Asking
  <2>. QED
    BY <2>1, <2>2, <2>3 DEF TypeOK
<1>3. ASSUME NEW p \in Processes, Answered(p) PROVE TypeOK'
  <2>1. Moved(p)
    BY <1>3, AnsweredFacts
  <2>2. Sent(p) \in Requests /\ Execute(Sent(p))
    BY <1>3, SentIsRequest DEF Answered
  <2>3. table' \in BOOLEAN /\ effects' \subseteq Versions /\ rows' \in [Versions -> Nat]
    BY <2>2, ExecuteFacts
  <2>. QED
    BY <1>3, <2>1, <2>3 DEF Answered, Moved, TypeOK
<1>4. ASSUME NEW p \in Processes, Denied(p) PROVE TypeOK'
  BY <1>4, OnErrorFacts DEF Denied, Moved, TypeOK
<1>5. ASSUME NEW p \in Processes, NoAnswer(p) PROVE TypeOK'
  <2>1. Moved(p) /\ Sent(p) \in Requests
    BY <1>5, OnErrorFacts, SentIsRequest DEF NoAnswer
  <2>2. faults' \in 0..MaxFaults
    BY <1>5, MigratorAssumption DEF NoAnswer, Fault, TypeOK
  <2>. QED
    BY <1>5, <2>1, <2>2 DEF NoAnswer, Moved, TypeOK
<1>6. ASSUME NEW p \in Processes, Crash(p) PROVE TypeOK'
  <2>1. Sent(p) \in Requests
    BY SentIsRequest
  <2>2. faults' \in 0..MaxFaults
    BY <1>6, MigratorAssumption DEF Crash, Fault, TypeOK
  <2>. QED
    BY <1>6, <2>1, <2>2 DEF Crash, GoTo, TypeOK
<1>7. ASSUME NEW p \in Processes, Stop(p) PROVE TypeOK'
  BY <1>7 DEF Stop, GoTo, TypeOK
<1>8. ASSUME NEW r \in late, CarryOut(r) PROVE TypeOK'
  <2>1. r \in Requests /\ Execute(r)
    BY <1>8 DEF CarryOut, TypeOK
  <2>2. table' \in BOOLEAN /\ effects' \subseteq Versions /\ rows' \in [Versions -> Nat]
    BY <2>1, ExecuteFacts
  <2>. QED
    BY <1>8, <2>2 DEF CarryOut, TypeOK
<1>9. ASSUME NEW r \in late, Lose(r) PROVE TypeOK'
  BY <1>9 DEF Lose, TypeOK
<1>. QED
  BY <1>1, <1>2, <1>3, <1>4, <1>5, <1>6, <1>7, <1>8, <1>9 DEF Next

\* What a step does to the tables: rows and effects only grow, a statement
\* takes effect after those before it, a row is written for one that did.
LEMMA DataStep ==
  ASSUME MInv, [Next]_vars
  PROVE  /\ effects \subseteq effects' /\ Recorded \subseteq Recorded'
         /\ \A v \in effects' \ effects : \A w \in Versions : w < v => w \in effects
         /\ Recorded' \ Recorded \subseteq effects
<1>. USE DEF MInv
<1>1. ASSUME NEW r \in Requests, Execute(r),
             r.op = "sql" => \A w \in Versions : w < r.ver => w \in effects,
             r.op = "record" => r.ver \in effects
      PROVE  /\ effects \subseteq effects' /\ Recorded \subseteq Recorded'
             /\ \A v \in effects' \ effects : \A w \in Versions : w < v => w \in effects
             /\ Recorded' \ Recorded \subseteq effects
  BY <1>1, ExecuteFacts
<1>2. ASSUME NEW p \in Processes, Answered(p)
      PROVE  /\ effects \subseteq effects' /\ Recorded \subseteq Recorded'
             /\ \A v \in effects' \ effects : \A w \in Versions : w < v => w \in effects
             /\ Recorded' \ Recorded \subseteq effects
  <2>1. Sent(p) \in Requests /\ Execute(Sent(p))
    BY <1>2, SentIsRequest DEF Answered
  <2>2. Sent(p).op = "sql" => \A w \in Versions : w < Sent(p).ver => w \in effects
    BY SentIsRequest DEF RecordedBehind, RecordedTookEffect, Recorded
  <2>3. Sent(p).op = "record" => Sent(p).ver \in effects
    BY SentIsRequest DEF RowsFollowEffects
  <2>. QED
    BY <1>1, <2>1, <2>2, <2>3
<1>3. ASSUME NEW r \in late, CarryOut(r)
      PROVE  /\ effects \subseteq effects' /\ Recorded \subseteq Recorded'
             /\ \A v \in effects' \ effects : \A w \in Versions : w < v => w \in effects
             /\ Recorded' \ Recorded \subseteq effects
  <2>1. r \in Requests /\ Execute(r)
    BY <1>3 DEF CarryOut, TypeOK
  <2>2. /\ r.op = "sql" => \A w \in Versions : w < r.ver => w \in effects
        /\ r.op = "record" => r.ver \in effects
    BY DEF LateInOrder, RowsFollowEffects
  <2>. QED
    BY <1>1, <2>1, <2>2
<1>4. CASE UNCHANGED <<effects, rows>>
  BY <1>4 DEF Recorded
<1>5. CASE UNCHANGED vars
  BY <1>4, <1>5 DEF vars
<1>6. ASSUME NEW p \in Processes,
             Start(p) \/ Denied(p) \/ NoAnswer(p) \/ Crash(p) \/ Stop(p)
      PROVE  UNCHANGED <<effects, rows>>
  BY <1>6 DEF Start, Denied, NoAnswer, Crash, Stop
<1>7. ASSUME NEW r \in late, Lose(r) PROVE UNCHANGED <<effects, rows>>
  BY <1>7 DEF Lose
<1>. QED
  BY <1>2, <1>3, <1>4, <1>5, <1>6, <1>7 DEF Next

\* Where a step leaves a process, against what is recorded and in effect then.
LEMMA ProcessStep ==
  ASSUME MInv, [Next]_vars, NEW q \in Processes
  PROVE  /\ applied'[q] \subseteq applied[q] \cup Recorded
         /\ pc'[q] = "done" => pc[q] = "done" \/ Versions \subseteq Recorded'
         /\ pc'[q] = "sql" => \/ pc[q] = "sql" /\ at'[q] = at[q]
                              \/ \A w \in Versions : w < at'[q] => w \in Recorded'
         /\ pc'[q] = "record" => /\ at'[q] = at[q]
                                 /\ \/ pc[q] = "record"
                                    \/ pc[q] = "sql" /\ at[q] \in effects'
<1> DEFINE Goal ==
      /\ applied'[q] \subseteq applied[q] \cup Recorded
      /\ pc'[q] = "done" => pc[q] = "done" \/ Versions \subseteq Recorded'
      /\ pc'[q] = "sql" => \/ pc[q] = "sql" /\ at'[q] = at[q]
                           \/ \A w \in Versions : w < at'[q] => w \in Recorded'
      /\ pc'[q] = "record" => /\ at'[q] = at[q]
                              /\ \/ pc[q] = "record"
                                 \/ pc[q] = "sql" /\ at[q] \in effects'
<1>1. ASSUME NEW p \in Processes, Moved(p), Passed(p, Recorded'),
             pc'[p] = "record" => at[p] \in effects'
      PROVE  Goal
  BY <1>1 DEF Moved, Passed
<1>2. CASE UNCHANGED <<pc, at, applied>>
  BY <1>2
<1>3. ASSUME NEW p \in Processes, Answered(p) PROVE Goal
  BY <1>1, <1>3, AnsweredFacts
<1>4. ASSUME NEW p \in Processes, Denied(p) \/ NoAnswer(p) PROVE Goal
  <2>1. OnError(p) /\ Recorded' = Recorded
    BY <1>4 DEF Denied, NoAnswer, Recorded
  <2>2. Moved(p) /\ Passed(p, Recorded') /\ pc'[p] # "record"
    BY <2>1, OnErrorFacts
  <2>. QED
    BY <1>1, <2>2
<1>5. ASSUME NEW p \in Processes, Start(p) \/ Crash(p) \/ Stop(p) PROVE Goal
  <2>1. \/ GoTo(p, "ensure") \/ GoTo(p, "down")
    BY <1>5 DEF Start, Crash, Stop
  <2>. QED
    BY <2>1 DEF GoTo, MInv, TypeOK
<1>6. ASSUME NEW r \in late, CarryOut(r) \/ Lose(r) PROVE UNCHANGED <<pc, at, applied>>
  BY <1>6 DEF CarryOut, Lose
<1>7. UNCHANGED vars => UNCHANGED <<pc, at, applied>>
  BY DEF vars
<1>8. Goal
  BY <1>2, <1>3, <1>4, <1>5, <1>6, <1>7 DEF Next
<1>. QED
  BY <1>8

\* A request is only given up by the process that sent it.
LEMMA LateStep ==
  ASSUME [Next]_vars, NEW r \in late' \ late
  PROVE  \E p \in Processes : r = Sent(p)
BY DEF Next, vars, Start, Answered, Denied, NoAnswer, Crash, Stop, CarryOut, Lose

\* Every step preserves the invariant.
LEMMA MInvStep ==
  ASSUME MInv, [Next]_vars
  PROVE  MInv'
<1>. USE DEF MInv
<1>1. TypeOK'
  BY TypeStep
<1>2. /\ effects \subseteq effects' /\ Recorded \subseteq Recorded'
      /\ \A v \in effects' \ effects : \A w \in Versions : w < v => w \in effects
      /\ Recorded' \ Recorded \subseteq effects
  BY DataStep
<1>3. RecordedTookEffect /\ Recorded \subseteq effects /\ Recorded' \subseteq effects'
  BY <1>2 DEF RecordedTookEffect, Recorded
<1>4. RecordedTookEffect'
  BY <1>3 DEF RecordedTookEffect, Recorded
<1>5. EffectsInOrder'
  BY <1>2 DEF EffectsInOrder
<1>6. DoneMeansMigrated'
  <2> SUFFICES ASSUME NEW q \in Processes, pc'[q] = "done"
               PROVE  Versions \subseteq Recorded'
    BY <1>3 DEF DoneMeansMigrated, Recorded
  <2>1. CASE pc[q] = "done"
    BY <1>2, <2>1 DEF DoneMeansMigrated, Recorded
  <2>. QED
    BY <2>1, ProcessStep
<1>7. RowsFollowEffects'
  <2>1. ASSUME NEW q \in Processes, pc'[q] = "record" PROVE at'[q] \in effects'
    <3>1. pc[q] = "record" => at[q] \in effects
      BY DEF RowsFollowEffects
    <3>. QED
      BY <1>2, <2>1, <3>1, ProcessStep
  <2>2. ASSUME NEW r \in late', r.op = "record" PROVE r.ver \in effects'
    <3>1. CASE r \in late
      BY <1>2, <2>2, <3>1 DEF RowsFollowEffects
    <3>2. CASE r \notin late
      <4>1. PICK p \in Processes : r = Sent(p)
        BY <3>2, LateStep
      <4>2. pc[p] = "record" /\ r.ver = at[p]
        BY <2>2, <4>1, SentIsRequest
      <4>. QED
        BY <1>2, <4>2 DEF RowsFollowEffects
    <3>. QED
      BY <3>1, <3>2
  <2>. QED
    BY <2>1, <2>2 DEF RowsFollowEffects
<1>8. AppliedIsRecorded'
  <2> SUFFICES ASSUME NEW q \in Processes PROVE applied'[q] \subseteq Recorded'
    BY DEF AppliedIsRecorded
  <2>1. applied[q] \subseteq Recorded /\ applied'[q] \subseteq applied[q] \cup Recorded
    BY ProcessStep DEF AppliedIsRecorded
  <2>. QED
    BY <1>2, <2>1
<1>9. RecordedBehind'
  <2> SUFFICES ASSUME NEW q \in Processes, pc'[q] \in {"sql", "record"},
                      NEW w \in Versions, w < at'[q]
               PROVE  w \in Recorded'
    BY DEF RecordedBehind
  <2>1. CASE pc[q] \in {"sql", "record"} /\ at'[q] = at[q]
    BY <1>2, <2>1 DEF RecordedBehind
  <2>. QED
    BY <2>1, ProcessStep
<1>10. LateInOrder'
  <2> SUFFICES ASSUME NEW r \in late', r.op = "sql", NEW w \in Versions, w < r.ver
               PROVE  w \in effects'
    BY DEF LateInOrder
  <2>1. CASE r \in late
    BY <1>2, <2>1 DEF LateInOrder
  <2>2. CASE r \notin late
    <3>1. PICK p \in Processes : r = Sent(p)
      BY <2>2, LateStep
    <3>2. pc[p] = "sql" /\ r.ver = at[p]
      BY <3>1, SentIsRequest
    <3>. QED
      BY <1>2, <1>3, <3>2 DEF RecordedBehind
  <2>. QED
    BY <2>1, <2>2
<1>. QED
  BY <1>1, <1>4, <1>5, <1>6, <1>7, <1>8, <1>9, <1>10

-----------------------------------------------------------------------------
\* Whatever the migrations, the processes and the faults: the tables, what
\* processes believe of them and what is still under way fit together.
THEOREM InvariantHolds == Spec => []MInv
<1>1. Init => MInv
  BY InitMInv
<1>2. MInv /\ [Next]_vars => MInv'
  BY MInvStep
<1>. QED
  BY <1>1, <1>2, PTL DEF Spec

\* A migration that schema_version lists took effect.
THEOREM RecordedTookEffectHolds == Spec => []RecordedTookEffect
<1>1. MInv => RecordedTookEffect
  BY DEF MInv
<1>. QED
  BY <1>1, InvariantHolds, PTL

\* Migrations take effect in order.
THEOREM EffectsInOrderHolds == Spec => []EffectsInOrder
<1>1. MInv => EffectsInOrder
  BY DEF MInv
<1>. QED
  BY <1>1, InvariantHolds, PTL

\* A run of run_migrations that reports success left a migrated database.
THEOREM DoneMeansMigratedHolds == Spec => []DoneMeansMigrated
<1>1. MInv => DoneMeansMigrated
  BY DEF MInv
<1>. QED
  BY <1>1, InvariantHolds, PTL
-----------------------------------------------------------------------------
(***************************************************************************)
(* A wedged database, and the run that is alone and undisturbed.           *)
(***************************************************************************)
\* Migration v cannot run again, and nothing on its way will record it.
WedgedAt(v) ==
  /\ v \in effects \ Repeatable /\ rows[v] = 0
  /\ Request("record", v) \notin late
  /\ \A p \in Processes : ~(pc[p] = "record" /\ at[p] = v)

\* A row of v is only written by a request to record v.
LEMMA RowStep ==
  ASSUME MInv, [Next]_vars, NEW v \in Versions, rows'[v] # rows[v]
  PROVE  \/ Request("record", v) \in late
         \/ \E p \in Processes : pc[p] = "record" /\ at[p] = v
<1>. USE DEF MInv
<1>1. ASSUME NEW r \in Requests, Execute(r) PROVE r = Request("record", v)
  BY <1>1 DEF Execute, TypeOK, Requests, Request
<1>2. ASSUME NEW p \in Processes, Answered(p)
      PROVE  \E q \in Processes : pc[q] = "record" /\ at[q] = v
  BY <1>1, <1>2, SentIsRequest DEF Answered, Request
<1>3. ASSUME NEW r \in late, CarryOut(r) PROVE Request("record", v) \in late
  BY <1>1, <1>3 DEF CarryOut, TypeOK
<1>4. ASSUME NEW p \in Processes,
             Start(p) \/ Denied(p) \/ NoAnswer(p) \/ Crash(p) \/ Stop(p)
      PROVE  FALSE
  BY <1>4 DEF Start, Denied, NoAnswer, Crash, Stop
<1>5. ASSUME NEW r \in late, Lose(r) PROVE FALSE
  BY <1>5 DEF Lose
<1>6. ~ UNCHANGED vars
  BY DEF vars
<1>. QED
  BY <1>2, <1>3, <1>4, <1>5, <1>6 DEF Next

\* A migration is up for recording only after its statement was carried out.
LEMMA RecordStep ==
  ASSUME MInv, [Next]_vars, NEW q \in Processes,
         pc'[q] = "record", ~(pc[q] = "record" /\ at[q] = at'[q])
  PROVE  pc[q] = "sql" /\ at'[q] = at[q] /\ ~Refused(Request("sql", at[q]))
<1>. USE DEF MInv
<1>1. pc[q] = "sql" /\ at'[q] = at[q]
  BY ProcessStep
<1>2. Sent(q) = Request("sql", at[q])
  BY <1>1 DEF Sent
<1>3. ASSUME NEW p \in Processes, Answered(p) PROVE p = q
  <2>1. Moved(p)
    BY <1>3, AnsweredFacts
  <2>. QED
    BY <1>1, <2>1 DEF Moved
<1>4. ASSUME NEW p \in Processes, Denied(p) \/ NoAnswer(p) PROVE FALSE
  <2>1. Moved(p) /\ pc'[p] # "record"
    BY <1>4, OnErrorFacts DEF Denied, NoAnswer
  <2>. QED
    BY <1>1, <2>1 DEF Moved
<1>5. ASSUME NEW p \in Processes, Start(p) \/ Crash(p) \/ Stop(p) PROVE FALSE
  <2>1. GoTo(p, "ensure") \/ GoTo(p, "down")
    BY <1>5 DEF Start, Crash, Stop
  <2>. QED
    BY <1>1, <2>1 DEF GoTo, TypeOK
<1>6. ASSUME NEW r \in late, CarryOut(r) \/ Lose(r) PROVE FALSE
  BY <1>1, <1>6 DEF CarryOut, Lose
<1>7. ~ UNCHANGED vars
  BY <1>1 DEF vars
<1>8. Answered(q)
  BY <1>3, <1>4, <1>5, <1>6, <1>7 DEF Next
<1>. QED
  BY <1>1, <1>2, <1>8 DEF Answered, Execute

\* Once wedged at v, wedged at v.
LEMMA WedgedStep ==
  ASSUME MInv, [Next]_vars, NEW v \in Versions, WedgedAt(v)
  PROVE  WedgedAt(v)'
<1>. USE DEF MInv
<1>1. v \in effects' \ Repeatable
  BY DataStep DEF WedgedAt
<1>2. rows'[v] = 0
  BY RowStep DEF WedgedAt
<1>3. ASSUME Request("record", v) \in late' PROVE FALSE
  <2>1. PICK p \in Processes : Request("record", v) = Sent(p)
    BY <1>3, LateStep DEF WedgedAt
  <2>2. pc[p] = "record" /\ at[p] = v
    BY <2>1, SentIsRequest DEF Request
  <2>. QED
    BY <2>2 DEF WedgedAt
<1>4. ASSUME NEW q \in Processes, pc'[q] = "record", at'[q] = v PROVE FALSE
  <2>1. at[q] = v /\ ~Refused(Request("sql", v))
    BY <1>4, RecordStep DEF WedgedAt
  <2>. QED
    BY <2>1 DEF WedgedAt, Refused, Request
<1>. QED
  BY <1>1, <1>2, <1>3, <1>4 DEF WedgedAt

\* A wedged database is wedged at a version.
LEMMA WedgedIsAt == MInv => (Wedged <=> \E v \in Versions : WedgedAt(v))
  BY DEF Wedged, WedgedAt, MInv, TypeOK

\* No step repairs a wedged database.
LEMMA WedgedStays ==
  ASSUME MInv, Wedged, [Next]_vars
  PROVE  Wedged'
<1>1. PICK v \in Versions : WedgedAt(v)
  BY WedgedIsAt
<1>2. WedgedAt(v)'
  BY <1>1, WedgedStep
<1>. QED
  BY <1>2 DEF WedgedAt, Wedged

\* No start, request or fault ever repairs a wedged database.
THEOREM WedgedForEverHolds == Spec => WedgedForEver
<1>1. MInv /\ [Next]_vars => [Wedged => Wedged']_vars
  BY WedgedStays
<1>. QED
  BY <1>1, InvariantHolds, PTL DEF Spec, WedgedForEver
-----------------------------------------------------------------------------
\* Who runs, which of the runs are undisturbed, and what waits.
OwnStep(p) == Answered(p) \/ Denied(p) \/ NoAnswer(p) \/ Crash(p) \/ Stop(p)

\* A step of one run leaves the others as they are.
LEMMA OthersStay ==
  ASSUME MInv, NEW p \in Processes, OwnStep(p)
  PROVE  /\ \A q \in Processes \ {p} :
               /\ pc'[q] = pc[q] /\ at'[q] = at[q] /\ applied'[q] = applied[q]
               /\ clean'[q] = clean[q]
         /\ clean'[p] => clean[p] /\ (Answered(p) \/ Denied(p)) /\ late' = late
         /\ table => table'
<1>. USE DEF MInv
<1>1. CASE Answered(p)
  <2>1. Moved(p)
    BY <1>1, AnsweredFacts
  <2>. QED
    BY <1>1, <2>1 DEF Answered, Moved, Execute
<1>2. CASE Denied(p)
  <2>1. Moved(p)
    BY <1>2, OnErrorFacts DEF Denied
  <2>. QED
    BY <1>2, <2>1 DEF Denied, Moved
<1>3. CASE NoAnswer(p)
  <2>1. Moved(p)
    BY <1>3, OnErrorFacts DEF NoAnswer
  <2>. QED
    BY <1>3, <2>1 DEF NoAnswer, Moved, TypeOK
<1>4. CASE Crash(p) \/ Stop(p)
  BY <1>4 DEF Crash, Stop, GoTo, TypeOK
<1>. QED
  BY <1>1, <1>2, <1>3, <1>4 DEF OwnStep

\* An undisturbed run that is refused is refused at a statement that took effect
\* and was not recorded: the tables it needs are there.
LEMMA DeniedIsWedged ==
  ASSUME UInv, NEW p \in Processes, Denied(p), clean[p]
  PROVE  pc[p] = "sql" /\ pc'[p] = "failed" /\ Wedged'
<1>. USE DEF UInv, MInv
<1>1. Running(p) /\ Refused(Sent(p)) /\ OnError(p)
  BY DEF Denied
<1>2. Sent(p).op # "sql" => Sent(p).op \in {"create", "query", "record"}
  BY DEF Sent, Request
<1>3. Sent(p).op \in {"query", "record"} => table
  BY <1>1 DEF Sent, Request, CleanAlone
<1>4. Sent(p).op = "sql"
  BY <1>1, <1>2, <1>3 DEF Refused
<1>5. pc[p] = "sql" /\ Sent(p).ver = at[p] /\ at[p] \in Versions
  BY <1>4, SentIsRequest DEF TypeOK
<1>6. Needs[at[p]] \subseteq effects
  <2> SUFFICES ASSUME NEW w \in Needs[at[p]] PROVE w \in effects
    OBVIOUS
  <2>1. w \in Versions /\ w < at[p]
    BY <1>5, MigratorAssumption
  <2>. QED
    BY <1>5, <2>1 DEF RecordedBehind, RecordedTookEffect, Recorded
<1>7. at[p] \in effects \ Repeatable
  BY <1>1, <1>4, <1>5, <1>6 DEF Refused
<1>8. rows[at[p]] = 0
  <2>1. at[p] \notin Recorded
    <3>1. ~(at[p] < at[p])
      BY <1>5 DEF Versions
    <3>. QED
      BY <1>5, <3>1 DEF CleanKnows
  <2>2. rows[at[p]] \in Nat
    BY <1>5 DEF TypeOK
  <2>. QED
    BY <1>5, <2>1, <2>2 DEF Recorded
<1>9. late = {} /\ \A q \in Processes \ {p} : ~Running(q)
  BY <1>1 DEF CleanAlone
<1>10. pc' = [pc EXCEPT ![p] = "failed"]
  BY <1>1, <1>5 DEF OnError, GoTo
<1>11. WedgedAt(at[p])'
  <2>1. UNCHANGED <<effects, rows, late, at>>
    BY <1>1, <1>5 DEF Denied, OnError, GoTo
  <2>2. \A q \in Processes : pc'[q] # "record"
    BY <1>5, <1>9, <1>10 DEF Running, Asking, TypeOK
  <2>. QED
    BY <1>5, <1>7, <1>8, <1>9, <2>1, <2>2 DEF WedgedAt
<1>12. Wedged'
  BY <1>5, <1>11 DEF WedgedAt, Wedged
<1>. QED
  BY <1>5, <1>10, <1>12 DEF TypeOK

\* At the start nobody runs.
LEMMA InitUInv == Init => UInv
  BY InitMInv DEF Init, UInv, CleanAlone, CleanKnows, FailsOnlyWedged

\* A failure of an undisturbed run is explained by the database it leaves.
LEMMA FailsOnlyWedgedStep ==
  ASSUME UInv, [Next]_vars
  PROVE  FailsOnlyWedged'
<1>. USE DEF UInv, MInv
<1> SUFFICES ASSUME NEW q \in Processes, pc'[q] = "failed", clean'[q] PROVE Wedged'
  BY DEF FailsOnlyWedged
<1>1. CASE pc[q] = "failed" /\ clean[q]
  BY <1>1, WedgedStays DEF FailsOnlyWedged
<1>2. ASSUME NEW p \in Processes, OwnStep(p), ~(pc[q] = "failed" /\ clean[q])
      PROVE  Wedged'
  <2>1. p = q /\ clean[q] /\ (Answered(q) \/ Denied(q))
    BY <1>2, OthersStay
  <2>2. ASSUME Answered(q) PROVE FALSE
    BY <2>2 DEF Answered, AfterEnsure, AfterRelist, AfterQuery, AfterSql, AfterRecord,
       GoTo, Proceed, TypeOK
  <2>. QED
    BY <2>1, <2>2, DeniedIsWedged
<1>3. ASSUME NEW p \in Processes, Start(p), ~(pc[q] = "failed" /\ clean[q])
      PROVE  FALSE
  BY <1>3 DEF Start, GoTo, TypeOK
<1>4. ASSUME NEW r \in late, CarryOut(r) \/ Lose(r) PROVE pc[q] = "failed" /\ clean[q]
  BY <1>4 DEF CarryOut, Lose
<1>5. UNCHANGED vars => pc[q] = "failed" /\ clean[q]
  BY DEF vars
<1>. QED
  BY <1>1, <1>2, <1>3, <1>4, <1>5 DEF Next, OwnStep

\* A run stays the only one as long as it is undisturbed.
LEMMA CleanAloneStep ==
  ASSUME UInv, [Next]_vars
  PROVE  CleanAlone'
<1>. USE DEF UInv, MInv
<1> SUFFICES ASSUME NEW q \in Processes, clean'[q], Running(q)'
             PROVE  /\ late' = {} /\ \A o \in Processes \ {q} : ~Running(o)'
                    /\ pc'[q] # "ensure" => table'
  BY DEF CleanAlone
<1>1. ASSUME NEW p \in Processes, Start(p)
      PROVE  /\ late' = {} /\ \A o \in Processes \ {q} : ~Running(o)'
             /\ pc'[q] # "ensure" => table'
  <2>1. /\ pc' = [pc EXCEPT ![p] = "ensure"] /\ late' = late
        /\ clean'[q] = IF q = p THEN late = {} /\ \A o \in Processes : ~Running(o)
                       ELSE clean[q] /\ ~Running(q)
    BY <1>1 DEF Start, GoTo
  <2>2. q = p
    BY <2>1 DEF Running, TypeOK
  <2>. QED
    BY <2>1, <2>2 DEF Running, TypeOK
<1>2. ASSUME NEW p \in Processes, OwnStep(p)
      PROVE  /\ late' = {} /\ \A o \in Processes \ {q} : ~Running(o)'
             /\ pc'[q] # "ensure" => table'
  <2>1. CASE p # q
    <3>1. clean[q] /\ Running(q)
      BY <1>2, <2>1, OthersStay DEF Running
    <3>2. Running(p) \/ Stop(p)
      BY <1>2 DEF OwnStep, Answered, Denied, NoAnswer, Crash
    <3>3. Stop(p) /\ late' = late
      BY <2>1, <3>1, <3>2 DEF CleanAlone, Stop
    <3>4. pc'[p] = "down"
      BY <3>3 DEF Stop, GoTo, TypeOK
    <3>5. \A o \in Processes \ {q} : ~Running(o)'
      BY <1>2, <3>1, <3>4, OthersStay DEF CleanAlone, Running, Asking
    <3>. QED
      BY <1>2, <2>1, <3>1, <3>3, <3>5, OthersStay DEF CleanAlone
  <2>2. CASE p = q
    <3>1. clean[q] /\ late' = late /\ Running(q) /\ (Answered(q) \/ Denied(q))
      BY <1>2, <2>2, OthersStay DEF Answered, Denied
    <3>2. \A o \in Processes \ {q} : ~Running(o)'
      BY <1>2, <2>2, <3>1, OthersStay DEF CleanAlone, Running
    <3>3. ASSUME Denied(q) PROVE FALSE
      BY <3>1, <3>3, DeniedIsWedged DEF Running, Asking
    <3>4. pc'[q] # "ensure" => table'
      <4>1. pc[q] = "ensure" => Sent(q) = Request("create", 0)
        BY DEF Sent
      <4>2. pc[q] = "ensure" => table'
        <5>1. Execute(Sent(q))
          BY <3>1, <3>3 DEF Answered
        <5>2. pc[q] = "ensure" => Sent(q).op = "create"
          BY <4>1 DEF Request
        <5>. QED
          BY <5>1, <5>2, Zenon DEF Execute
      <4>3. pc[q] # "ensure" => table
        BY <3>1 DEF CleanAlone
      <4>. QED
        BY <1>2, <2>2, <4>2, <4>3, OthersStay
    <3>. QED
      BY <3>1, <3>2, <3>4 DEF CleanAlone
  <2>. QED
    BY <2>1, <2>2
<1>3. ASSUME NEW r \in late, CarryOut(r) \/ Lose(r) PROVE FALSE
  BY <1>3 DEF CarryOut, Lose, CleanAlone, Running
<1>4. CASE UNCHANGED vars
  BY <1>4 DEF vars, CleanAlone, Running
<1>. QED
  BY <1>1, <1>2, <1>3, <1>4 DEF Next, OwnStep

\* It knows all that is recorded.
LEMMA CleanKnowsStep ==
  ASSUME UInv, [Next]_vars
  PROVE  CleanKnows'
<1>. USE DEF UInv, MInv
<1> SUFFICES ASSUME NEW q \in Processes, clean'[q], pc'[q] \in {"sql", "record"}
             PROVE  /\ at'[q] \notin applied'[q]
                    /\ \A v \in Recorded' : v \in applied'[q] \/ v < at'[q]
  BY DEF CleanKnows
<1>d. DEFINE Goal == /\ at'[q] \notin applied'[q]
                     /\ \A v \in Recorded' : v \in applied'[q] \/ v < at'[q]
<1>1. CASE /\ clean[q] /\ pc[q] \in {"sql", "record"}
           /\ UNCHANGED rows /\ at'[q] = at[q] /\ applied'[q] = applied[q]
  BY <1>1 DEF CleanKnows, Recorded
<1>2. ASSUME NEW p \in Processes, Start(p) PROVE Goal
  <2>1. q # p
    BY <1>2 DEF Start, GoTo, TypeOK
  <2>2. clean[q] /\ ~Running(q) /\ pc'[q] = pc[q]
    BY <1>2, <2>1 DEF Start, GoTo, TypeOK
  <2>. QED
    BY <2>2 DEF Running, Asking
<1>3. ASSUME NEW p \in Processes, OwnStep(p), p # q PROVE Goal
  <2>1. clean[q] /\ Running(q) /\ pc[q] \in {"sql", "record"}
    BY <1>3, OthersStay DEF Running, Asking
  <2>2. Stop(p)
    BY <1>3, <2>1 DEF OwnStep, Answered, Denied, NoAnswer, Crash, CleanAlone
  <2>. QED
    BY <1>1, <1>3, <2>1, <2>2, OthersStay DEF Stop
<1>4. ASSUME OwnStep(q) PROVE Goal
  <2>1. clean[q] /\ (Answered(q) \/ Denied(q))
    BY <1>4, OthersStay
  <2>2. Answered(q)
    BY <2>1, DeniedIsWedged
  <2>3. Execute(Sent(q)) /\ Sent(q) \in Requests
    BY <2>2, SentIsRequest DEF Answered
  <2>4. CASE AfterEnsure(q) \/ AfterRelist(q)
    BY <2>4 DEF AfterEnsure, AfterRelist, GoTo, TypeOK
  <2>5. CASE AfterSql(q)
    <3>1. /\ at'[q] = at[q] /\ applied'[q] = applied[q] /\ pc[q] = "sql"
          /\ Sent(q) = Request("sql", at[q])
      BY <2>5 DEF AfterSql, GoTo, Sent
    <3>2. UNCHANGED rows
      BY <2>3, <3>1 DEF Execute, Request
    <3>. QED
      BY <1>1, <2>1, <3>1, <3>2
  <2>6. CASE AfterQuery(q)
    <3>1. /\ applied' = [applied EXCEPT ![q] = Recorded] /\ Proceed(q, Recorded, 1)
          /\ pc[q] = "query" /\ Recorded \in SUBSET Versions
          /\ Sent(q) = Request("query", 0)
      BY <2>6 DEF AfterQuery, Recorded, Sent
    <3>2. UNCHANGED rows
      BY <2>3, <3>1 DEF Execute, Request
    <3>3. \/ pc'[q] = "done" \/ at'[q] \notin Recorded
      BY <3>1, ProceedFacts
    <3>4. applied'[q] = Recorded /\ Recorded' = Recorded
      BY <3>1, <3>2 DEF TypeOK, Recorded
    <3>. QED
      BY <3>3, <3>4
  <2>7. CASE AfterRecord(q)
    <3>1. /\ pc[q] = "record" /\ UNCHANGED applied /\ at[q] \in Versions
          /\ Proceed(q, applied[q], at[q] + 1) /\ applied[q] \in SUBSET Versions
          /\ Sent(q) = Request("record", at[q])
      BY <2>7 DEF AfterRecord, Sent, TypeOK
    <3>2. Recorded' \subseteq Recorded \cup {at[q]}
      BY <2>3, <3>1 DEF Execute, Request, Recorded, TypeOK
    <3>3. PICK n \in Nat : n = at[q] + 1
      BY <3>1 DEF Versions
    <3>4. Proceed(q, applied[q], n)
      BY <3>1, <3>3
    <3>5. at'[q] \notin applied[q] /\ at'[q] >= n
      BY <3>1, <3>4, ProceedFacts
    <3>6. at'[q] \in Nat /\ at[q] \in Nat
      <4>1. TypeOK'
        BY TypeStep
      <4>2. at'[q] \in Versions
        BY <4>1 DEF TypeOK
      <4>. QED
        BY <3>1, <4>2 DEF Versions
    <3>7. at[q] < at'[q]
      BY <3>3, <3>5, <3>6
    <3>8. ASSUME NEW v \in Recorded' PROVE v \in applied'[q] \/ v < at'[q]
      <4>1. v \in Recorded => v \in applied[q] \/ v < at[q]
        BY <2>1, <3>1 DEF CleanKnows
      <4>2. v \in Nat
        BY DEF Recorded, Versions
      <4>. QED
        BY <3>1, <3>2, <3>6, <3>7, <3>8, <4>1, <4>2
    <3>. QED
      BY <3>1, <3>5, <3>8
  <2>. QED
    BY <2>2, <2>4, <2>5, <2>6, <2>7 DEF Answered
<1>5. ASSUME NEW r \in late, CarryOut(r) \/ Lose(r) PROVE Goal
  <2>1. /\ pc'[q] = pc[q] /\ clean[q]
    BY <1>5 DEF CarryOut, Lose
  <2>2. late = {}
    BY <2>1 DEF CleanAlone, Running, Asking
  <2>. QED
    BY <1>5, <2>2
<1>6. UNCHANGED vars => Goal
  BY <1>1 DEF vars
<1>. QED
  BY <1>2, <1>3, <1>4, <1>5, <1>6 DEF Next, OwnStep

\* The undisturbed run: alone, and aware of all that is recorded.
THEOREM UndisturbedHolds == Spec => []UInv
<1>1. UInv /\ [Next]_vars => UInv'
  BY MInvStep, CleanAloneStep, CleanKnowsStep, FailsOnlyWedgedStep DEF UInv
<1>. QED
  BY <1>1, InitUInv, PTL DEF Spec

\* A run that is alone and undisturbed fails only on a wedged database, whatever
\* happened to earlier ones.
THEOREM FailsOnlyWedgedHolds == Spec => []FailsOnlyWedged
<1>1. UInv => FailsOnlyWedged
  BY DEF UInv
<1>. QED
  BY <1>1, UndisturbedHolds, PTL
=============================================================================
