-------------------------- MODULE SchemaMigration ---------------------------
(***************************************************************************)
(* The migration runner of pkg/migrate.  Up marks a version dirty, runs its  *)
(* migration, marks it clean; when a migration fails or the time-out passes  *)
(* it rolls back, latest first, what this call applied.  Down rolls back the *)
(* latest clean versions.  Every statement is a transaction of its own, the  *)
(* process may die between any two, and a statement that reports an error   *)
(* may have taken effect, or take it later.                                 *)
(***************************************************************************)
EXTENDS Naturals, FiniteSets, FiniteSetsExt

CONSTANT Versions       \* the registered migrations

ASSUME MigrationAssumption == Versions \subseteq Nat /\ IsFiniteSet(Versions)

VARIABLES
    schema,     \* versions whose changes, or some of them, are in the database
    records,    \* schema_migrations: version -> none, dirty or clean
    runner,     \* where the runner is
    at,         \* the version in work
    todo,       \* versions still to apply or to roll back
    applied,    \* result.Applied of this call
    before,     \* history: the schema when the call began
    unsure,     \* history: versions whose record was not true of the schema when the call began
    left,       \* history: the version whose migration failed in this call
    slip        \* history: did a bookkeeping statement or a Down fail in this call, or the process die?

migrationVars == <<schema, records, runner, at, todo, applied, before, unsure, left, slip>>

MigrationTypeOK ==
    /\ {schema, todo, applied, before, unsure, left} \subseteq SUBSET Versions
    /\ records \in [Versions -> {"none", "dirty", "clean"}]
    /\ runner \in {"idle", "failed", "next", "apply", "clean", "rollback", "forget", "down", "unrecord"}
    /\ at \in Versions
    /\ slip \in BOOLEAN

MigrationInit ==
    /\ schema = {} /\ todo = {} /\ applied = {} /\ before = {} /\ unsure = {} /\ left = {}
    /\ records = [v \in Versions |-> "none"]
    /\ runner = "idle"
    /\ at = Min(Versions)
    /\ slip = FALSE

Recorded(status) == {v \in Versions : records[v] = status}

\* A crash or a failed statement has left the record behind the schema.
Misrecorded == {v \in Versions : (v \in schema) # (records[v] = "clean")}

RunnerIdle == runner \in {"idle", "failed"}

migrationHistory == <<before, unsure, left>>

-----------------------------------------------------------------------------
\* Up reads the clean versions (getAppliedVersions); a dirty one is applied again.
MigrateUp ==
    /\ RunnerIdle
    /\ runner' = "next"
    /\ todo' = Versions \ Recorded("clean")
    /\ applied' = {}
    /\ before' = schema /\ unsure' = Misrecorded /\ left' = {} /\ slip' = FALSE
    /\ UNCHANGED <<schema, records, at>>

\* markDirty of the lowest version left, or the end of the loop.
MarkDirty ==
    /\ runner = "next"
    /\ IF todo = {}
       THEN runner' = "idle" /\ UNCHANGED <<records, at, todo>>
       ELSE /\ at' = Min(todo)
            /\ todo' = todo \ {Min(todo)}
            /\ records' = [records EXCEPT ![Min(todo)] = "dirty"]
            /\ runner' = "apply"
    /\ UNCHANGED <<schema, applied, migrationHistory, slip>>

\* The time-out is seen between two migrations.
UpTimesOut ==
    /\ runner = "next" /\ todo # {}
    /\ runner' = "rollback"
    /\ UNCHANGED <<schema, records, at, todo, applied, migrationHistory, slip>>

RunUp ==
    /\ runner = "apply"
    /\ schema' = schema \cup {at}
    /\ runner' = "clean"
    /\ UNCHANGED <<records, at, todo, applied, migrationHistory, slip>>

\* The migration fails, before or after its changes or some of them; its record
\* is removed, unless that fails as well (with the context of a call that timed
\* out it does).  Nothing undoes what it changed: it is not in result.Applied.
UpFails ==
    /\ runner = "apply"
    /\ schema' \in {schema, schema \cup {at}}
    /\ left' = {at}
    /\ \/ records' = [records EXCEPT ![at] = "none"] /\ UNCHANGED slip
       \/ records' \in {records, [records EXCEPT ![at] = "none"]} /\ slip' = TRUE
    /\ runner' = "rollback"
    /\ UNCHANGED <<at, todo, applied, before, unsure>>

\* The database finishes the migration after its error was reported (the
\* time-out or the connection ended the wait, not the statement).
FinishLate ==
    /\ runner \in {"rollback", "forget", "failed"}
    /\ schema' = schema \cup left
    /\ UNCHANGED <<records, runner, at, todo, applied, migrationHistory, slip>>

MarkClean ==
    /\ runner = "clean"
    /\ records' = [records EXCEPT ![at] = "clean"]
    /\ applied' = applied \cup {at}
    /\ runner' = "next"
    /\ UNCHANGED <<schema, at, todo, migrationHistory, slip>>

\* markDirty or markClean fails: Up returns at once, without a rollback.
MarkFails ==
    /\ \/ /\ runner = "next" /\ todo # {}
          /\ records' \in {records, [records EXCEPT ![Min(todo)] = "dirty"]}
       \/ /\ runner = "clean"
          /\ records' \in {records, [records EXCEPT ![at] = "clean"]}
    /\ runner' = "failed"
    /\ slip' = TRUE
    /\ UNCHANGED <<schema, at, todo, applied, migrationHistory>>

\* Variant: the rollback leaves the latest version of the call alone.
rollbackAppliedButLast ==
    /\ runner = "rollback"
    /\ IF Cardinality(applied) <= 1
       THEN runner' = "failed" /\ UNCHANGED <<schema, at, applied>>
       ELSE /\ at' = Min(applied)
            /\ applied' = applied \ {Min(applied)}
            /\ runner' = "forget" /\ schema' = schema \ {at'}
    /\ UNCHANGED <<records, todo, migrationHistory, slip>>

\* rollbackApplied, one version: a Down that fails or is missing is passed over.
rollbackApplied ==
    /\ runner = "rollback"
    /\ IF applied = {}
       THEN runner' = "failed" /\ UNCHANGED <<schema, at, applied, slip>>
       ELSE /\ at' = Max(applied)
            /\ applied' = applied \ {Max(applied)}
            /\ \/ runner' = "forget" /\ schema' = schema \ {at'} /\ UNCHANGED slip
               \/ runner' = "rollback" /\ slip' = TRUE /\ schema' \in {schema, schema \ {at'}}
    /\ UNCHANGED <<records, todo, migrationHistory>>

\* removeMigrationRecord after a Down; the rollback ignores its error, Down
\* returns it.
RemoveRecord ==
    /\ runner \in {"forget", "unrecord"}
    /\ \/ /\ records' = [records EXCEPT ![at] = "none"]
          /\ runner' = IF runner = "forget" THEN "rollback" ELSE "down"
          /\ UNCHANGED slip
       \/ /\ runner' = IF runner = "forget" THEN "rollback" ELSE "failed"
          /\ slip' = TRUE
          /\ records' \in {records, [records EXCEPT ![at] = "none"]}
    /\ UNCHANGED <<schema, at, todo, applied, migrationHistory>>

\* Down: the latest clean versions, as many as asked for.
MigrateDown ==
    /\ RunnerIdle
    /\ \E steps \in 1 .. Cardinality(Versions) :
          todo' = {v \in Recorded("clean") :
                      Cardinality({w \in Recorded("clean") : w > v}) < steps}
    /\ runner' = "down"
    /\ applied' = {}
    /\ before' = schema /\ unsure' = Misrecorded /\ left' = {} /\ slip' = FALSE
    /\ UNCHANGED <<schema, records, at>>

RunDown ==
    /\ runner = "down"
    /\ IF todo = {}
       THEN runner' = "idle" /\ UNCHANGED <<schema, at, todo, slip>>
       ELSE /\ at' = Max(todo)
            /\ \/ runner' = "unrecord" /\ schema' = schema \ {at'} /\ todo' = todo \ {at'}
                  /\ UNCHANGED slip
               \/ runner' = "failed" /\ schema' \in {schema, schema \ {at'}} /\ UNCHANGED todo
                  /\ slip' = TRUE
    /\ UNCHANGED <<records, applied, migrationHistory>>

\* The process dies.
MigratorDies ==
    /\ ~RunnerIdle
    /\ runner' = "failed"
    /\ slip' = TRUE
    /\ UNCHANGED <<schema, records, at, todo, applied, migrationHistory>>

MigrationNext ==
    \/ MigrateUp \/ MarkDirty \/ UpTimesOut \/ RunUp \/ UpFails \/ FinishLate \/ MarkClean \/ MarkFails
    \/ rollbackApplied \/ RemoveRecord \/ MigrateDown \/ RunDown \/ MigratorDies

-----------------------------------------------------------------------------
\* A call of Up that failed leaves the schema as it found it, but for the
\* version that failed, and the record of what is applied as it found it,
\* whatever earlier calls and crashes left behind: only a bookkeeping statement
\* or a Down that fails in this very call, or a crash, makes it leave more.  A
\* version whose record was wrong before is applied again, or taken for applied,
\* and may be lost or kept by the rollback.  The comment of Up says that "it
\* rolls back the failed migration"; it does not, so what that one changed stays.
FailedUpUndone ==
    (runner = "failed" /\ ~slip) =>
        /\ schema \ (unsure \cup left) = before \ (unsure \cup left)
        /\ Recorded("clean") \ unsure = before \ unsure
=============================================================================
