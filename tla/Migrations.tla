----------------------------- MODULE Migrations -----------------------------
(***************************************************************************)
(* Release steps that migrate one database (packages/db/src/migrations.ts, *)
(* run by apps/api/src/migrate.ts over the sources of                      *)
(* apps/api/src/migrations.ts).  Several may run at once, from releases    *)
(* whose migration files differ, and any of them may die; a database that  *)
(* loses a session rolls its transaction back and releases its advisory    *)
(* lock.  One action is one statement, or one pure step of the loop.       *)
(***************************************************************************)
EXTENDS Integers, Sequences, SequencesExt, FiniteSetsExt

CONSTANTS
  Migrator,    \* release steps, each runs once
  Sources,     \* the migration boundaries in the order they are applied
  ReleaseOf,   \* the release a migrator runs
  FilesOf,     \* its files by source: records of a version and a content
  MaxFailures, \* bound: statements that fail and migrators that die
  None

Boundary == ToSet(Sources)
Content == {f.content : f \in UNION {FilesOf[r][s] : r \in DOMAIN FilesOf, s \in Boundary}}

\* readMigrationFiles refuses two files of one version.
ASSUME MigrationsAssumption ==
  /\ Sources \in Seq(Boundary)
  /\ \A m \in Migrator : ReleaseOf[m] \in DOMAIN FilesOf
  /\ \A r \in DOMAIN FilesOf : \A s \in Boundary : \A f, g \in FilesOf[r][s] :
       /\ f \in [version : Nat, content : Content]
       /\ f.version = g.version => f = g
  /\ MaxFailures \in Nat
  /\ None \notin Migrator

VARIABLES
  lock,     \* the session that holds the advisory lock
  ledger,   \* schema_migration: records of source, version and checksum
  executed, \* the migrations the database has executed, in order
  pc,
  at,       \* the index of the source being applied
  todo,     \* its files not yet looked at
  recorded, \* the ledger rows of that source as they were read
  open,     \* the file whose transaction is open
  result,   \* how the run ended
  failures

vars == <<lock, ledger, executed, pc, at, todo, recorded, open, result, failures>>
run == <<at, todo, recorded>>

Result == {"none", "applied", "checksum_mismatch", "out_of_order", "failed", "died"}

Init ==
  /\ lock = None
  /\ ledger = {}
  /\ executed = <<>>
  /\ pc = [m \in Migrator |-> "start"]
  /\ at = [m \in Migrator |-> 0]
  /\ todo = [m \in Migrator |-> {}]
  /\ recorded = [m \in Migrator |-> {}]
  /\ open = [m \in Migrator |-> None]
  /\ result = [m \in Migrator |-> "none"]
  /\ failures = 0

SourceOf(m) == Sources[at[m]]

Entry(s, f) == [source |-> s, version |-> f.version, checksum |-> f.content]

Versions(entries) == {e.version : e \in entries}

\* Mutant: the files are sorted the other way round.
NextFile_Descending(m) == CHOOSE f \in todo[m] : \A g \in todo[m] : f.version >= g.version

\* The next file in ascending order of versions.
NextFile(m) == CHOOSE f \in todo[m] : \A g \in todo[m] : f.version <= g.version

GoTo(m, from, to) ==
  /\ pc[m] = from
  /\ pc' = [pc EXCEPT ![m] = to]

\* finally: an unlock that fails says nothing, and the lock stays with the session.
End(m, outcome) ==
  /\ pc' = [pc EXCEPT ![m] = "ended"]
  /\ result' = [result EXCEPT ![m] = outcome]
  /\ lock' \in {lock, None}
  /\ open' = [open EXCEPT ![m] = None]

-----------------------------------------------------------------------------
\* pg_advisory_lock waits its turn; the ledger is created if it is missing.
Lock(m) ==
  /\ GoTo(m, "start", "source")
  /\ lock = None
  /\ lock' = m
  /\ at' = [at EXCEPT ![m] = 1]
  /\ UNCHANGED <<ledger, executed, todo, recorded, open, result, failures>>

\* The files of the next source, and the ledger as it is now.
ReadSource(m) ==
  /\ pc[m] = "source"
  /\ IF at[m] > Len(Sources)
     THEN /\ End(m, "applied")
          /\ UNCHANGED run
     ELSE /\ todo' = [todo EXCEPT ![m] = FilesOf[ReleaseOf[m]][SourceOf(m)]]
          /\ recorded' = [recorded EXCEPT ![m] = {e \in ledger : e.source = SourceOf(m)}]
          /\ GoTo(m, "source", "file")
          /\ UNCHANGED <<lock, at, open, result>>
  /\ UNCHANGED <<ledger, executed, failures>>

NextSource(m) ==
  /\ todo[m] = {}
  /\ GoTo(m, "file", "source")
  /\ at' = [at EXCEPT ![m] = @ + 1]
  /\ UNCHANGED <<lock, ledger, executed, todo, recorded, open, result, failures>>

\* Mutant: a version in the ledger is skipped without comparing its checksum.
SkipRecorded_AnyChecksum(m) ==
  /\ pc[m] = "file" /\ todo[m] # {}
  /\ NextFile(m).version \in Versions(recorded[m])
  /\ todo' = [todo EXCEPT ![m] = @ \ {NextFile(m)}]
  /\ UNCHANGED <<lock, ledger, executed, pc, at, recorded, open, result, failures>>

\* A recorded version is skipped if its file is the one that was applied.
SkipRecorded(m) ==
  /\ pc[m] = "file" /\ todo[m] # {}
  /\ Entry(SourceOf(m), NextFile(m)) \in recorded[m]
  /\ todo' = [todo EXCEPT ![m] = @ \ {NextFile(m)}]
  /\ UNCHANGED <<lock, ledger, executed, pc, at, recorded, open, result, failures>>

RefuseChanged(m) ==
  /\ pc[m] = "file" /\ todo[m] # {}
  /\ NextFile(m).version \in Versions(recorded[m])
  /\ Entry(SourceOf(m), NextFile(m)) \notin recorded[m]
  /\ End(m, "checksum_mismatch")
  /\ UNCHANGED <<ledger, executed, run, failures>>

\* A new file numbered below one that had been applied.
BelowApplied(m) == \E e \in recorded[m] : NextFile(m).version <= e.version

RefuseOutOfOrder(m) ==
  /\ pc[m] = "file" /\ todo[m] # {}
  /\ NextFile(m).version \notin Versions(recorded[m])
  /\ BelowApplied(m)
  /\ End(m, "out_of_order")
  /\ UNCHANGED <<ledger, executed, run, failures>>

\* Mutant: the file's statements are not in the transaction of its ledger row.
Execute_AutoCommit(m) ==
  /\ todo[m] # {}
  /\ NextFile(m).version \notin Versions(recorded[m])
  /\ ~BelowApplied(m)
  /\ GoTo(m, "file", "commit")
  /\ open' = [open EXCEPT ![m] = NextFile(m)]
  /\ executed' = Append(executed, Entry(SourceOf(m), NextFile(m)))
  /\ UNCHANGED <<lock, ledger, run, result, failures>>

\* begin, the file's statements, and its row of the ledger, none visible yet.
Execute(m) ==
  /\ todo[m] # {}
  /\ NextFile(m).version \notin Versions(recorded[m])
  /\ ~BelowApplied(m)
  /\ GoTo(m, "file", "commit")
  /\ open' = [open EXCEPT ![m] = NextFile(m)]
  /\ UNCHANGED <<lock, ledger, executed, run, result, failures>>

Commit(m) ==
  /\ GoTo(m, "commit", "file")
  /\ executed' = Append(executed, Entry(SourceOf(m), open[m]))
  /\ ledger' = ledger \cup {Entry(SourceOf(m), open[m])}
  /\ todo' = [todo EXCEPT ![m] = @ \ {open[m]}]
  /\ open' = [open EXCEPT ![m] = None]
  /\ UNCHANGED <<lock, at, recorded, result, failures>>

\* A file cannot be read or a statement fails: rollback, and the run throws.
Fail(m) ==
  /\ pc[m] \in {"source", "file", "commit"} /\ failures < MaxFailures
  /\ failures' = failures + 1
  /\ End(m, "failed")
  /\ UNCHANGED <<ledger, executed, run>>

\* The migrator dies; the database may be late to end its session.
Die(m) ==
  /\ pc[m] \notin {"start", "ended"} /\ failures < MaxFailures
  /\ failures' = failures + 1
  /\ End(m, "died")
  /\ UNCHANGED <<ledger, executed, run>>

\* Mutant: the pool is closed behind the migrations, and not when they throw.
Disconnect_AfterSuccess(m) ==
  /\ pc[m] = "ended" /\ lock = m
  /\ result[m] \in {"applied", "died"}
  /\ lock' = None
  /\ UNCHANGED <<ledger, executed, pc, at, todo, recorded, open, result, failures>>

\* closeDatabase, however the run ended, or the end of a dead one's session.
Disconnect(m) ==
  /\ pc[m] = "ended" /\ lock = m
  /\ lock' = None
  /\ UNCHANGED <<ledger, executed, pc, at, todo, recorded, open, result, failures>>

Handle(m) ==
  \/ ReadSource(m) \/ NextSource(m) \/ SkipRecorded(m) \/ RefuseChanged(m)
  \/ RefuseOutOfOrder(m) \/ Execute(m) \/ Commit(m)

Next == \E m \in Migrator : Lock(m) \/ Handle(m) \/ Fail(m) \/ Die(m) \/ Disconnect(m)

Spec == Init /\ [][Next]_vars

(***************************************************************************)
(* A migrator that was started runs on and closes its connections, a       *)
(* database ends the sessions of the dead, and waiters of the lock are     *)
(* queued.                                                                 *)
(***************************************************************************)
FairSpec ==
  /\ Spec
  /\ \A m \in Migrator : WF_vars(Handle(m)) /\ WF_vars(Disconnect(m)) /\ SF_vars(Lock(m))

-----------------------------------------------------------------------------
(* Properties.                                                             *)

TypeOK ==
  /\ lock \in Migrator \cup {None}
  /\ ledger \subseteq [source : Boundary, version : Nat, checksum : Content]
  /\ executed \in Seq([source : Boundary, version : Nat, checksum : Content])
  /\ pc \in [Migrator -> {"start", "source", "file", "commit", "ended"}]
  /\ at \in [Migrator -> 0..(Len(Sources) + 1)]
  /\ todo \in [Migrator -> SUBSET [version : Nat, content : Content]]
  /\ recorded \in [Migrator -> SUBSET [source : Boundary, version : Nat, checksum : Content]]
  /\ open \in [Migrator -> [version : Nat, content : Content] \cup {None}]
  /\ result \in [Migrator -> Result]
  /\ failures \in 0..MaxFailures

(***************************************************************************)
(* Whatever runs at once, fails or dies: the ledger records exactly what   *)
(* the database has executed, and nothing was executed twice.              *)
(***************************************************************************)
LedgerIsTheDatabase == ToSet(executed) = ledger /\ IsInjective(executed)

(***************************************************************************)
(* The order of execution.  Every environment has executed the versions of *)
(* a source in ascending order, one content to a version, whichever        *)
(* releases it saw; and no migration is begun while one the same release   *)
(* has of an earlier source, which it may rely on, is missing.             *)
(***************************************************************************)
AppliedInOrder ==
  /\ \A i, j \in DOMAIN executed :
       i < j /\ executed[i].source = executed[j].source =>
         executed[i].version < executed[j].version
  /\ \A m \in Migrator : open[m] # None =>
       \A i \in 1..(at[m] - 1) : \A f \in FilesOf[ReleaseOf[m]][Sources[i]] :
         Entry(Sources[i], f) \in ledger

\* A release that reports success has been executed, every file of it.
SuccessMeansMigrated ==
  \A m \in Migrator : result[m] = "applied" =>
    \A s \in Boundary : \A f \in FilesOf[ReleaseOf[m]][s] : Entry(s, f) \in ledger

\* A refused release disagrees with the database.
RefusalsAreReal ==
  \A m \in Migrator :
    /\ result[m] = "checksum_mismatch" =>
         \E e \in ledger : \E f \in FilesOf[ReleaseOf[m]][e.source] :
           f.version = e.version /\ f.content # e.checksum
    /\ result[m] = "out_of_order" =>
         \E e \in ledger : \E f \in FilesOf[ReleaseOf[m]][e.source] :
           f.version < e.version /\ Entry(e.source, f) \notin ledger

(***************************************************************************)
(* What a release step reports is so, whatever the others did meanwhile.   *)
(* One that reports success leaves a database that has executed every file *)
(* of its release, as that release has it; and one that is refused has a   *)
(* file with other contents than were executed, or one below a version     *)
(* that was executed without it.                                           *)
(***************************************************************************)
ReportsAreTrue == SuccessMeansMigrated /\ RefusalsAreReal

\* A run that has ended is not at work any more, whatever its session still holds.
AtWork == IF lock # None /\ pc[lock] = "ended" THEN None ELSE lock

Abstract == INSTANCE ReleaseTurns WITH turn <- AtWork, outcome <- result

(***************************************************************************)
(* However the statements of release steps, their failures and their       *)
(* deaths interleave, the steps amount to turns taken one after the other, *)
(* each of which did the next of what its release asks for.                *)
(***************************************************************************)
ImplementsReleaseTurns == Abstract!Spec

\* Every release step comes to an end, also those that wait for the lock.
RunsEnd == \A m \in Migrator : <>(pc[m] = "ended")
=============================================================================
