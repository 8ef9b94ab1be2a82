------------------------------ MODULE Migrator ------------------------------
(***************************************************************************)
(* The schema migrations a process runs when it starts (run_migrations in  *)
(* migrate.rs, called by main), against a QuestDB that other processes     *)
(* migrate too.  Each statement is an HTTP request of its own with a       *)
(* timeout of ten seconds, so a process that gets an error, or crashes,    *)
(* does not know whether its last statement took effect, or still will.    *)
(*                                                                         *)
(* Names of migrations, which are only compared to log a divergence, and   *)
(* the times in schema_version are left out.  That a process writes rows   *)
(* after its migrations, whether they failed or not, does not change the   *)
(* tables as the sources define them.                                      *)
(***************************************************************************)
EXTENDS Naturals, FiniteSets

CONSTANTS Processes,
          Count,       \* MIGRATIONS are the versions 1..Count
          Repeatable,  \* those that may run again (CREATE TABLE IF NOT EXISTS)
          Needs,       \* Needs[v]: migrations whose tables v alters
          MaxStarts,   \* bound: starts of processes
          MaxFaults    \* bound: requests that fail on their way, and crashes

Versions == 1..Count

ASSUME MigratorAssumption ==
  /\ Count \in Nat \ {0} /\ MaxStarts \in Nat /\ MaxFaults \in Nat
  /\ Repeatable \subseteq Versions
  /\ Needs \in [Versions -> SUBSET Versions]
  /\ \A v \in Versions : \A w \in Needs[v] : w < v

VARIABLES
  pc,       \* pc[p]: the request p waits for, or what it is otherwise doing
  at,       \* at[p]: the migration p is at
  applied,  \* applied[p]: applied_map, what p believes is recorded
  table,    \* QuestDB: schema_version exists
  effects,  \* QuestDB: the migrations whose statement took effect
  rows,     \* QuestDB: rows[v], how many rows schema_version has for v
  late,     \* requests given up by their process that may still be carried out
  starts, faults,
  clean     \* history: p runs alone, and nothing went wrong in this run

vars == <<pc, at, applied, table, effects, rows, late, starts, faults, clean>>

\* "failed" is run_migrations returning an error: the process goes on all the same.
Asking == {"ensure", "relist", "query", "sql", "record"}
Running(p) == pc[p] \in Asking

-----------------------------------------------------------------------------
(***************************************************************************)
(* QuestDB.                                                                *)
(***************************************************************************)
Request(op, ver) == [op |-> op, ver |-> ver]

\* The request p is waiting for; ensure and relist send the same statement.
Sent(p) == IF pc[p] \in {"sql", "record"} THEN Request(pc[p], at[p])
           ELSE IF pc[p] = "query" THEN Request("query", 0)
           ELSE Request("create", 0)

\* A column is added once, and to a table that exists.
Refused(r) ==
  \/ r.op = "sql" /\ (r.ver \in effects \ Repeatable \/ ~(Needs[r.ver] \subseteq effects))
  \/ r.op \in {"query", "record"} /\ ~table

Execute(r) ==
  /\ ~Refused(r)
  /\ table' = (table \/ r.op = "create")
  /\ effects' = IF r.op = "sql" THEN effects \cup {r.ver} ELSE effects
  /\ rows' = IF r.op = "record" THEN [rows EXCEPT ![r.ver] = @ + 1] ELSE rows

-----------------------------------------------------------------------------
(***************************************************************************)
(* run_migrations.                                                         *)
(***************************************************************************)
\* The loop goes on at the first migration from v that is not in known.
Proceed(p, known, v) ==
  LET left == {w \in Versions : w >= v /\ w \notin known}
  IN  \/ left = {} /\ pc' = [pc EXCEPT ![p] = "done"] /\ UNCHANGED at
      \/ \E w \in left : /\ \A u \in left : w <= u
                         /\ pc' = [pc EXCEPT ![p] = "sql"]
                         /\ at' = [at EXCEPT ![p] = w]

GoTo(p, where) == pc' = [pc EXCEPT ![p] = where] /\ UNCHANGED <<at, applied>>

\* ensure_schema_version_table, and the same statement again in list_applied.
AfterEnsure(p) == pc[p] = "ensure" /\ GoTo(p, "relist")
AfterRelist(p) == pc[p] = "relist" /\ GoTo(p, "query")

\* Mutants: the list is not looked at; an empty list is an error.
AfterQueryBlind(p) ==
  pc[p] = "query" /\ applied' = [applied EXCEPT ![p] = {}] /\ Proceed(p, {}, 1)

AfterQueryNonEmpty(p) ==
  LET recorded == {v \in Versions : rows[v] > 0}
  IN  /\ pc[p] = "query"
      /\ IF recorded = {} THEN GoTo(p, "failed")
         ELSE /\ applied' = [applied EXCEPT ![p] = recorded]
              /\ Proceed(p, recorded, 1)

\* list_applied, HashMap by version.
AfterQuery(p) ==
  LET recorded == {v \in Versions : rows[v] > 0}
  IN  /\ pc[p] = "query"
      /\ applied' = [applied EXCEPT ![p] = recorded]
      /\ Proceed(p, recorded, 1)

\* Mutant: no row is written.
AfterSqlUnrecorded(p) ==
  pc[p] = "sql" /\ Proceed(p, applied[p], at[p] + 1) /\ UNCHANGED applied

\* The migration ran: it is recorded next.
AfterSql(p) == pc[p] = "sql" /\ GoTo(p, "record")

AfterRecord(p) ==
  pc[p] = "record" /\ Proceed(p, applied[p], at[p] + 1) /\ UNCHANGED applied

\* Mutant: a migration that fails is skipped.
OnErrorSkipping(p) ==
  \/ /\ pc[p] \in {"sql", "record"}
     /\ Proceed(p, applied[p], at[p] + 1) /\ UNCHANGED applied
  \/ pc[p] \in {"ensure", "relist", "query"} /\ GoTo(p, "failed")

\* Mutant: a statement that is refused counts as applied.
OnErrorRecording(p) ==
  \/ pc[p] = "sql" /\ GoTo(p, "record")
  \/ pc[p] \in Asking \ {"sql"} /\ GoTo(p, "failed")

\* An error ends the run, except in list_applied, where an error of the first
\* statement passes for an empty list.
OnError(p) ==
  \/ /\ pc[p] = "relist"
     /\ applied' = [applied EXCEPT ![p] = {}]
     /\ Proceed(p, {}, 1)
  \/ pc[p] \in Asking \ {"relist"} /\ GoTo(p, "failed")

Init ==
  /\ pc = [p \in Processes |-> "down"]
  /\ at = [p \in Processes |-> 1]
  /\ applied = [p \in Processes |-> {}]
  /\ table = FALSE /\ effects = {} /\ rows = [v \in Versions |-> 0]
  /\ late = {} /\ starts = 0 /\ faults = 0
  /\ clean = [p \in Processes |-> FALSE]

\* main calls run_migrations.
Start(p) ==
  /\ pc[p] = "down" /\ starts < MaxStarts
  /\ starts' = starts + 1
  /\ GoTo(p, "ensure")
  /\ clean' = [q \in Processes |->
                 IF q = p THEN late = {} /\ \A o \in Processes : ~Running(o)
                 ELSE clean[q] /\ ~Running(q)]
  /\ UNCHANGED <<table, effects, rows, late, faults>>

\* The request is carried out and answered.
Answered(p) ==
  /\ Running(p)
  /\ AfterEnsure(p) \/ AfterRelist(p) \/ AfterQuery(p) \/ AfterSql(p) \/ AfterRecord(p)
  /\ Execute(Sent(p))
  /\ UNCHANGED <<late, starts, faults, clean>>

\* QuestDB answers with an error.
Denied(p) ==
  /\ Running(p) /\ Refused(Sent(p))
  /\ OnError(p)
  /\ UNCHANGED <<table, effects, rows, late, starts, faults, clean>>

Fault == faults < MaxFaults /\ faults' = faults + 1

\* No connection, or no answer in time.
NoAnswer(p) ==
  /\ Running(p) /\ Fault
  /\ OnError(p)
  /\ late' = late \cup {Sent(p)}
  /\ clean' = [clean EXCEPT ![p] = FALSE]
  /\ UNCHANGED <<table, effects, rows, starts>>

\* The process dies while it waits.
Crash(p) ==
  /\ Running(p) /\ Fault
  /\ GoTo(p, "down")
  /\ late' = late \cup {Sent(p)}
  /\ clean' = [clean EXCEPT ![p] = FALSE]
  /\ UNCHANGED <<table, effects, rows, starts>>

\* The process ends later.
Stop(p) ==
  /\ pc[p] \in {"done", "failed"}
  /\ GoTo(p, "down")
  /\ clean' = [clean EXCEPT ![p] = FALSE]
  /\ UNCHANGED <<table, effects, rows, late, starts, faults>>

\* QuestDB carries out a request nobody waits for, or it is lost.
CarryOut(r) ==
  /\ Execute(r) /\ late' = late \ {r}
  /\ UNCHANGED <<pc, at, applied, starts, faults, clean>>

Lose(r) ==
  /\ late' = late \ {r}
  /\ UNCHANGED <<pc, at, applied, table, effects, rows, starts, faults, clean>>

Next ==
  \/ \E p \in Processes :
       \/ Start(p) \/ Answered(p) \/ Denied(p)
       \/ NoAnswer(p) \/ Crash(p) \/ Stop(p)
  \/ \E r \in late : CarryOut(r) \/ Lose(r)

Spec == Init /\ [][Next]_vars

\* A request is answered, refused or times out.
FairSpec == Spec /\ \A p \in Processes : WF_vars(Answered(p) \/ Denied(p) \/ NoAnswer(p))

-----------------------------------------------------------------------------
Requests == {Request(op, 0) : op \in {"create", "query"}}
              \cup {Request(op, v) : op \in {"sql", "record"}, v \in Versions}

\* Every variable has its type.
TypeOK ==
  /\ pc \in [Processes -> Asking \cup {"down", "done", "failed"}]
  /\ at \in [Processes -> Versions]
  /\ applied \in [Processes -> SUBSET Versions]
  /\ table \in BOOLEAN /\ effects \subseteq Versions /\ rows \in [Versions -> Nat]
  /\ late \subseteq Requests
  /\ starts \in 0..MaxStarts /\ faults \in 0..MaxFaults
  /\ clean \in [Processes -> BOOLEAN]

\* What schema_version lists did take effect, whatever requests were lost, came
\* late or crossed: no start may skip a migration that is not there.
RecordedTookEffect == \A v \in Versions : rows[v] > 0 => v \in effects

\* Migrations take effect in order.
EffectsInOrder ==
  \A v \in effects : \A w \in Versions : w < v => w \in effects

\* A process that reports success leaves every migration in effect and recorded.
DoneMeansMigrated ==
  \A p \in Processes : pc[p] = "done" => \A v \in Versions : v \in effects /\ rows[v] > 0

\* A migration that cannot run again took effect, and nothing on its way will
\* record it.
Wedged ==
  \E v \in effects \ Repeatable :
    /\ rows[v] = 0 /\ Request("record", v) \notin late
    /\ \A p \in Processes : ~(pc[p] = "record" /\ at[p] = v)

\* The only thing that makes a run fail that is alone and undisturbed.
FailsOnlyWedged == \A p \in Processes : (pc[p] = "failed" /\ clean[p]) => Wedged

\* No start ever repairs it.
WedgedForEver == [][Wedged => Wedged']_vars

\* Without lost requests and crashes a process that starts migrates the
\* database, or another one does at the same time.
SomeoneMigrates ==
  ([](faults = 0) /\ <>(starts > 0)) => <>(\E p \in Processes : pc[p] = "done")

\* "idempotent" (ADR-003): a run that is alone and undisturbed succeeds, whatever
\* happened to earlier ones.
UndisturbedSucceeds == \A p \in Processes : clean[p] => pc[p] # "failed"

-----------------------------------------------------------------------------
(***************************************************************************)
(* The inductive invariant behind RecordedTookEffect, EffectsInOrder and   *)
(* DoneMeansMigrated.                                                      *)
(***************************************************************************)
Recorded == {v \in Versions : rows[v] > 0}

\* A row is on its way only for a statement that took effect.
RowsFollowEffects ==
  /\ \A p \in Processes : pc[p] = "record" => at[p] \in effects
  /\ \A r \in late : r.op = "record" => r.ver \in effects

\* What a process believes recorded is; rows are never deleted.
AppliedIsRecorded == \A p \in Processes : applied[p] \subseteq Recorded

\* The loop leaves nothing unrecorded behind.
RecordedBehind ==
  \A p \in Processes : pc[p] \in {"sql", "record"} =>
    \A w \in Versions : w < at[p] => w \in Recorded

\* A statement that still may be carried out comes after those before it.
LateInOrder ==
  \A r \in late : r.op = "sql" => \A w \in Versions : w < r.ver => w \in effects

MInv ==
  /\ TypeOK
  /\ RecordedTookEffect /\ EffectsInOrder /\ DoneMeansMigrated
  /\ RowsFollowEffects /\ AppliedIsRecorded /\ RecordedBehind /\ LateInOrder

(***************************************************************************)
(* What FailsOnlyWedged needs besides.                                     *)
(***************************************************************************)
\* A run that is undisturbed so far is the only one, nothing is still to come
\* from others, and it found or made schema_version.
CleanAlone ==
  \A p \in Processes : (clean[p] /\ Running(p)) =>
    /\ late = {} /\ \A o \in Processes \ {p} : ~Running(o)
    /\ pc[p] # "ensure" => table

\* It is at a migration that is not recorded: all that is recorded it has read,
\* or recorded itself on its way.
CleanKnows ==
  \A p \in Processes : (clean[p] /\ pc[p] \in {"sql", "record"}) =>
    /\ at[p] \notin applied[p]
    /\ \A v \in Recorded : v \in applied[p] \/ v < at[p]

UInv == MInv /\ CleanAlone /\ CleanKnows /\ FailsOnlyWedged
=============================================================================
