-------------------------- MODULE SchemaMigration --------------------------
(***************************************************************************)
(* wirestudio/sqlite_store.py migrate(): every process that opens a SQLite *)
(* store brings it to the schema of its own release, one step per          *)
(* transaction, with the version read inside the write lock.  Replicas and *)
(* releases of different ages may open the same file at the same time, and *)
(* any of them may be killed inside a transaction.                         *)
(***************************************************************************)
EXTENDS Naturals, Sequences

CONSTANTS
    Processes,
    Nobody,
    Latest,         \* len(steps) of each process's release
    Written,        \* the version of the file they find
    MaxKills        \* bound: times a process is killed

ASSUME MigrationAssumption ==
    /\ Nobody \notin Processes
    /\ Latest \in [Processes -> Nat]
    /\ Written \in Nat /\ MaxKills \in Nat

VARIABLES
    version,        \* PRAGMA user_version, committed
    log,            \* history: the steps whose effects are committed
    lock,           \* the process holding the write lock, or Nobody
    draft,          \* the steps its open transaction has run
    stage,             \* where each process is in migrate()
    seen,           \* the version it read in this round
    before,         \* the version it read first: <<v>>, or <<>> for None
    kills

schemaVars == <<version, log, lock, draft, stage, seen, before, kills>>

Upto(n) == [i \in 1..n |-> i]

SchemaTypeOK ==
    /\ version \in Nat
    /\ log \in Seq(Nat)
    /\ lock \in Processes \cup {Nobody}
    /\ draft \in Seq(Nat)
    /\ stage \in [Processes -> {"begin", "read", "apply", "commit", "open",
                             "refused", "failed"}]
    /\ seen \in [Processes -> Nat]
    /\ before \in [Processes -> Seq(Nat)]
    /\ \A p \in Processes : Len(before[p]) <= 1
    /\ kills \in Nat

MigrateInit ==
    /\ version = Written
    /\ log = Upto(Written)
    /\ lock = Nobody
    /\ draft = <<>>
    /\ stage = [p \in Processes |-> "begin"]
    /\ seen = [p \in Processes |-> 0]
    /\ before = [p \in Processes |-> <<>>]
    /\ kills = 0

-----------------------------------------------------------------------------
\* BEGIN IMMEDIATE takes the write lock ...
BeginImmediate(p) ==
    /\ stage[p] = "begin"
    /\ lock = Nobody
    /\ lock' = p
    /\ stage' = [stage EXCEPT ![p] = "read"]
    /\ UNCHANGED <<version, log, draft, seen, before, kills>>

\* ... or gives up after ten seconds of someone else holding it.
Busy(p) ==
    /\ stage[p] = "begin"
    /\ lock # Nobody
    /\ stage' = [stage EXCEPT ![p] = "failed"]
    /\ UNCHANGED <<version, log, lock, draft, seen, before, kills>>

\* The transaction ends, its steps lost.
RollBack == lock' = Nobody /\ draft' = <<>> /\ UNCHANGED <<version, log>>

\* PRAGMA user_version, read again in every round.
CurrentVersion_ReadOnce(p) == IF before[p] = <<>> THEN version ELSE before[p][1]
CurrentVersion(p) == version

\* "before" is set in the first round only.
FirstSeen(p, v) == IF before[p] = <<>> THEN <<v>> ELSE before[p]

\* A newer release's file is refused, one at this release's schema is open,
\* an older one gets its next step.
Outcome_NoCheck(v, p) == IF v >= Latest[p] THEN "open" ELSE "apply"
Outcome_TryAgain(v, p) ==
    IF v > Latest[p] THEN "begin" ELSE IF v = Latest[p] THEN "open" ELSE "apply"
Outcome(v, p) ==
    IF v > Latest[p] THEN "refused" ELSE IF v = Latest[p] THEN "open" ELSE "apply"

ReadVersion(p) ==
    LET v == CurrentVersion(p)
    IN  /\ stage[p] = "read"
        /\ seen' = [seen EXCEPT ![p] = v]
        /\ before' = [before EXCEPT ![p] = FirstSeen(p, v)]
        /\ stage' = [stage EXCEPT ![p] = Outcome(v, p)]
        /\ \/ Outcome(v, p) = "apply" /\ UNCHANGED <<version, log, lock, draft>>
           \/ Outcome(v, p) # "apply" /\ RollBack
        /\ UNCHANGED kills

\* The statements of steps[version], and PRAGMA user_version = version + 1.
Apply(p) ==
    /\ stage[p] = "apply"
    /\ draft' = Append(draft, seen[p] + 1)
    /\ stage' = [stage EXCEPT ![p] = "commit"]
    /\ UNCHANGED <<version, log, lock, seen, before, kills>>

\* A statement fails: ROLLBACK, and the exception ends migrate().
ApplyFails(p) ==
    /\ stage[p] = "apply"
    /\ RollBack
    /\ stage' = [stage EXCEPT ![p] = "failed"]
    /\ UNCHANGED <<seen, before, kills>>

Commit(p) ==
    /\ stage[p] = "commit"
    /\ version' = seen[p] + 1
    /\ log' = log \o draft
    /\ draft' = <<>>
    /\ lock' = Nobody
    /\ stage' = [stage EXCEPT ![p] = "begin"]
    /\ UNCHANGED <<seen, before, kills>>

\* The process is killed and started again; SQLite rolls its transaction back.
Kill(p) ==
    /\ kills < MaxKills
    /\ kills' = kills + 1
    /\ IF lock = p THEN RollBack ELSE UNCHANGED <<version, log, lock, draft>>
    /\ stage' = [stage EXCEPT ![p] = "begin"]
    /\ before' = [before EXCEPT ![p] = <<>>]
    /\ UNCHANGED seen

Work(p) == \/ BeginImmediate(p) \/ Busy(p) \/ ReadVersion(p)
           \/ Apply(p) \/ ApplyFails(p) \/ Commit(p)

MigrateNext == \E p \in Processes : Work(p) \/ Kill(p)

MigrateSpec == MigrateInit /\ [][MigrateNext]_schemaVars

\* migrate() runs on, and SQLite answers.
FairSpec == MigrateSpec /\ \A p \in Processes : WF_schemaVars(Work(p))

-----------------------------------------------------------------------------
(* Properties *)

\* sqlite_store.py:9 "two processes opening the same file migrate it once":
\* the committed schema is that of its version, every step run exactly once
\* and in order, whoever ran it and whoever was killed.
MigratedOnce == log = Upto(version)

\* sqlite_store.py:85 "or raises": migrate() returns only on a store at its
\* own release's schema, and refuses only one that is past it and stays so.
OpensOwnSchema ==
    /\ [][\A p \in Processes : stage[p] # "open" /\ stage'[p] = "open"
                               => version = Latest[p]]_schemaVars
    /\ [](\A p \in Processes : stage[p] = "refused" => version > Latest[p])

\* No release ever takes the file back to an older schema.
NeverBack == [][version' >= version]_schemaVars

\* Every process ends up with the store open, or refused or failed.
MigrateReturns ==
    \A p \in Processes : <>(stage[p] \in {"open", "refused", "failed"})
=============================================================================
