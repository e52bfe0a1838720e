--------------------------- MODULE DeploymentProofs ---------------------------
(* Theorems about what a deployment waits for: release steps that migrate  *)
(* the database, for any number of them, any releases, any migration files *)
(* and any failures; and the readiness reports of the services, for any    *)
(* reports under way at once and any dependencies.                         *)
EXTENDS Migrations, Readiness, WellFoundedInduction, TLAPS

-----------------------------------------------------------------------------
(* Release steps.                                                          *)

File == [version : Nat, content : Content]
Row == [source : Boundary, version : Nat, checksum : Content]

Working == {"source", "file", "commit"}

FilesAt(m, i) == FilesOf[ReleaseOf[m]][Sources[i]]

\* The lock: only its holder is past the wait for it.
LockOK == \A m \in Migrator : pc[m] \in Working => lock = m

\* What the ledger records was executed once and in the order of versions.
DatabaseOK ==
  /\ \A i \in DOMAIN executed : executed[i] \in ledger
  /\ \A e \in ledger : \E i \in DOMAIN executed : executed[i] = e
  /\ \A i, j \in DOMAIN executed :
       i < j /\ executed[i].source = executed[j].source =>
         executed[i].version < executed[j].version

(***************************************************************************)
(* The loop over the files of a source: what was looked at is recorded,    *)
(* and whatever was recorded since the ledger was read is below what is    *)
(* still to be looked at, though `recorded` does not tell.                 *)
(***************************************************************************)
LoopOK(m) ==
  /\ at[m] \in 1..Len(Sources)
  /\ todo[m] \subseteq FilesAt(m, at[m])
  /\ \A f \in FilesAt(m, at[m]) \ todo[m] : Entry(SourceOf(m), f) \in ledger
  /\ recorded[m] \subseteq {e \in ledger : e.source = SourceOf(m)}
  /\ \A e \in ledger : e.source = SourceOf(m) =>
       e \in recorded[m] \/ \A f \in todo[m] : e.version < f.version

OpenOK(m) ==
  /\ open[m] \in todo[m]
  /\ \A f \in todo[m] : open[m].version <= f.version
  /\ \A e \in recorded[m] : e.version < open[m].version

MigratorOK(m) ==
  /\ pc[m] # "commit" => open[m] = None
  /\ pc[m] # "ended" => result[m] = "none"
  /\ pc[m] \in Working => at[m] \in 1..(Len(Sources) + 1)
  /\ pc[m] \in Working =>
       \A i \in 1..(at[m] - 1) : \A f \in FilesAt(m, i) : Entry(Sources[i], f) \in ledger
  /\ pc[m] \in {"file", "commit"} => LoopOK(m)
  /\ pc[m] = "commit" => OpenOK(m)

\* A report names what the database has, and goes on being so.
Migrated(m) == \A s \in Boundary : \A f \in FilesOf[ReleaseOf[m]][s] : Entry(s, f) \in ledger

Changed(m) ==
  \E e \in ledger : \E f \in FilesOf[ReleaseOf[m]][e.source] :
    f.version = e.version /\ f.content # e.checksum

OutOfOrder(m) ==
  \E e \in ledger : \E f \in FilesOf[ReleaseOf[m]][e.source] :
    f.version < e.version /\ Entry(e.source, f) \notin ledger

ReportOK(m, outcome) ==
  /\ outcome = "applied" => Migrated(m)
  /\ outcome = "checksum_mismatch" => Changed(m)
  /\ outcome = "out_of_order" => OutOfOrder(m)

Inv ==
  /\ TypeOK
  /\ LockOK
  /\ DatabaseOK
  /\ \A m \in Migrator : ReportOK(m, result[m])
  /\ \A m \in Migrator : MigratorOK(m)

-----------------------------------------------------------------------------
(* Files and their order.                                                  *)

LEMMA LeastNatural ==
  ASSUME NEW T \in SUBSET Nat, T # {}
  PROVE  \E x \in T : \A y \in T : x <= y
<1>1. OpToRel(<, Nat) = {p \in Nat \X Nat : p[1] < p[2]}
  BY DEF OpToRel
<1>2. PICK x \in T : \A y \in T : ~ (<<y, x>> \in OpToRel(<, Nat))
  BY NatLessThanWellFounded, WFMin
<1>3. ASSUME NEW y \in T
      PROVE  x <= y
  <2>1. ~ (<<y, x>> \in {p \in Nat \X Nat : p[1] < p[2]})
    BY <1>1, <1>2
  <2>2. QED
    BY <2>1
<1>4. QED
  BY <1>3

LEMMA FilesAreFiles ==
  ASSUME NEW m \in Migrator, NEW i \in 1..Len(Sources)
  PROVE  /\ FilesAt(m, i) \subseteq File
         /\ Sources[i] \in Boundary
         /\ \A f, g \in FilesAt(m, i) : f.version = g.version => f = g
<1>1. Sources[i] \in Boundary
  BY DEF Boundary, ToSet
<1>2. QED
  BY <1>1, MigrationsAssumption DEF FilesAt, File

LEMMA EntryIsRow ==
  ASSUME NEW s \in Boundary, NEW f \in File
  PROVE  /\ Entry(s, f) \in Row
         /\ Entry(s, f).source = s
         /\ Entry(s, f).version = f.version
         /\ Entry(s, f).checksum = f.content
BY DEF Entry, Row, File

\* The next file is one of those that are left, and none is below it.
LEMMA NextFileIsLeast ==
  ASSUME NEW m \in Migrator, todo[m] \subseteq File, todo[m] # {}
  PROVE  NextFile(m) \in todo[m] /\ \A f \in todo[m] : NextFile(m).version <= f.version
<1>1. {f.version : f \in todo[m]} \in SUBSET Nat /\ {f.version : f \in todo[m]} # {}
  BY DEF File
<1>2. PICK v \in {f.version : f \in todo[m]} : \A w \in {f.version : f \in todo[m]} : v <= w
  BY <1>1, LeastNatural
<1>3. \E f \in todo[m] : \A g \in todo[m] : f.version <= g.version
  BY <1>2
<1>4. QED
  BY <1>3 DEF NextFile

LEMMA InitInv == Init => Inv
<1> SUFFICES ASSUME Init PROVE Inv
  OBVIOUS
<1>1. TypeOK
  BY MigrationsAssumption DEF Init, TypeOK, Result
<1>2. DatabaseOK
  BY DEF Init, DatabaseOK
<1>3. QED
  BY <1>1, <1>2 DEF Init, Inv, LockOK, ReportOK, MigratorOK, Working

-----------------------------------------------------------------------------
(* What a step of one migrator leaves true of the others.                  *)

SameMigrator(d) ==
  /\ pc'[d] = pc[d] /\ at'[d] = at[d] /\ todo'[d] = todo[d]
  /\ recorded'[d] = recorded[d] /\ open'[d] = open[d] /\ result'[d] = result[d]

OthersStand(m) == \A d \in Migrator \ {m} : SameMigrator(d)

LEMMA MigratorKept ==
  ASSUME Inv, UNCHANGED ledger, NEW d \in Migrator, SameMigrator(d)
  PROVE  MigratorOK(d)'
<1>1. MigratorOK(d)
  BY DEF Inv
<1>2. pc[d] \in {"file", "commit"} => LoopOK(d)'
  BY <1>1 DEF MigratorOK, LoopOK, SameMigrator, SourceOf, FilesAt
<1>3. pc[d] = "commit" => OpenOK(d)'
  BY <1>1 DEF MigratorOK, OpenOK, SameMigrator
<1>4. QED
  BY <1>1, <1>2, <1>3 DEF MigratorOK, SameMigrator, FilesAt

(***************************************************************************)
(* A step of the holder of the lock, or of one that takes it, that commits *)
(* nothing and ends no run: it is enough to look at the types and at it.   *)
(***************************************************************************)
LEMMA QuietStep ==
  ASSUME Inv, NEW m \in Migrator, UNCHANGED <<ledger, executed, result>>, TypeOK',
         OthersStand(m), lock' = m, lock \in {m, None}, MigratorOK(m)'
  PROVE  Inv'
<1>1. TypeOK /\ LockOK /\ DatabaseOK
  BY DEF Inv
<1>2. LockOK'
  BY <1>1, MigrationsAssumption DEF LockOK, OthersStand, SameMigrator
<1>3. DatabaseOK'
  BY <1>1 DEF DatabaseOK
<1>4. \A d \in Migrator : ReportOK(d, result[d])'
  BY DEF Inv, ReportOK, Migrated, Changed, OutOfOrder
<1>5. \A d \in Migrator : MigratorOK(d)'
  BY MigratorKept DEF OthersStand
<1>6. QED
  BY <1>2, <1>3, <1>4, <1>5 DEF Inv

(***************************************************************************)
(* The end of a run that holds the lock, on whatever report is true.       *)
(***************************************************************************)
LEMMA EndInv ==
  ASSUME Inv, NEW m \in Migrator, pc[m] \in Working, NEW outcome \in Result,
         End(m, outcome), ReportOK(m, outcome),
         UNCHANGED <<ledger, executed, run>>, failures' \in 0..MaxFailures
  PROVE  Inv'
<1>1. TypeOK /\ LockOK /\ DatabaseOK
  BY DEF Inv
<1>2. TypeOK'
  BY <1>1 DEF TypeOK, End, run
<1>3. OthersStand(m) /\ pc'[m] = "ended" /\ open'[m] = None /\ result'[m] = outcome
  <2>1. DOMAIN open = Migrator
    BY DEF Inv, TypeOK
  <2>2. QED
    BY <1>1, <2>1 DEF TypeOK, OthersStand, SameMigrator, End, run
<1>4. LockOK'
  BY <1>1, <1>3, MigrationsAssumption DEF LockOK, OthersStand, SameMigrator, Working
<1>5. DatabaseOK'
  BY <1>1 DEF DatabaseOK
<1>6. \A d \in Migrator : ReportOK(d, result[d])'
  BY <1>3 DEF Inv, ReportOK, Migrated, Changed, OutOfOrder, OthersStand, SameMigrator
<1>7. \A d \in Migrator : MigratorOK(d)'
  BY <1>3, MigratorKept DEF OthersStand, MigratorOK, Working
<1>8. QED
  BY <1>2, <1>4, <1>5, <1>6, <1>7 DEF Inv

-----------------------------------------------------------------------------
(* One lemma per action.                                                   *)

LEMMA LockInv ==
  ASSUME Inv, NEW m \in Migrator, Lock(m)
  PROVE  Inv'
<1> USE DEF Lock, GoTo
<1>1. TypeOK /\ MigratorOK(m)
  BY DEF Inv
<1>2. Len(Sources) \in Nat
  BY MigrationsAssumption
<1>3. TypeOK'
  BY <1>1 DEF TypeOK
<1>4. OthersStand(m)
  BY <1>1 DEF TypeOK, OthersStand, SameMigrator
<1>5. MigratorOK(m)'
  BY <1>1 DEF TypeOK, MigratorOK, Working
<1>6. QED
  BY <1>3, <1>4, <1>5, QuietStep

LEMMA HolderHasLock ==
  ASSUME Inv, NEW m \in Migrator, pc[m] \in Working
  PROVE  lock = m
BY DEF Inv, LockOK

LEMMA ReadSourceInv ==
  ASSUME Inv, NEW m \in Migrator, ReadSource(m)
  PROVE  Inv'
<1>1. TypeOK /\ MigratorOK(m) /\ pc[m] = "source" /\ lock = m
  BY HolderHasLock DEF Inv, ReadSource, Working
<1>2. at[m] \in 1..(Len(Sources) + 1) /\ Len(Sources) \in Nat
  BY <1>1, MigrationsAssumption DEF MigratorOK, Working
<1>3. \A i \in 1..(at[m] - 1) : \A f \in FilesAt(m, i) : Entry(Sources[i], f) \in ledger
  BY <1>1 DEF MigratorOK, Working
<1>4. CASE at[m] > Len(Sources)
  <2>1. Migrated(m)
    <3>1. ASSUME NEW s \in Boundary
          PROVE  \E i \in 1..(at[m] - 1) : Sources[i] = s
      <4>1. PICK i \in DOMAIN Sources : Sources[i] = s
        BY DEF Boundary, ToSet
      <4>2. i \in 1..Len(Sources)
        BY MigrationsAssumption
      <4>3. QED
        BY <1>2, <1>4, <4>1, <4>2
    <3>2. QED
      BY <1>3, <3>1 DEF Migrated, FilesAt
  <2>2. ReportOK(m, "applied")
    BY <2>1 DEF ReportOK
  <2>3. End(m, "applied") /\ UNCHANGED <<ledger, executed, run>> /\ failures' \in 0..MaxFailures
    BY <1>1, <1>4 DEF ReadSource, TypeOK
  <2>4. QED
    BY <1>1, <2>2, <2>3, EndInv DEF Working, Result
<1>5. CASE ~(at[m] > Len(Sources))
  <2>1. /\ todo' = [todo EXCEPT ![m] = FilesAt(m, at[m])]
        /\ recorded' = [recorded EXCEPT ![m] = {e \in ledger : e.source = SourceOf(m)}]
        /\ pc' = [pc EXCEPT ![m] = "file"]
        /\ UNCHANGED <<lock, at, open, result, ledger, executed, failures>>
    BY <1>5 DEF ReadSource, GoTo, FilesAt, SourceOf
  <2>2. at[m] \in 1..Len(Sources)
    BY <1>2, <1>5
  <2>3. FilesAt(m, at[m]) \subseteq File
    BY <2>2, FilesAreFiles
  <2>4. TypeOK'
    BY <1>1, <2>1, <2>3 DEF TypeOK, File
  <2>5. OthersStand(m)
    BY <1>1, <2>1 DEF TypeOK, OthersStand, SameMigrator
  <2>6. /\ pc'[m] = "file" /\ todo'[m] = FilesAt(m, at[m])
        /\ recorded'[m] = {e \in ledger : e.source = SourceOf(m)}
    BY <1>1, <2>1 DEF TypeOK
  <2>7. LoopOK(m)'
    BY <2>1, <2>2, <2>6 DEF LoopOK, FilesAt, SourceOf
  <2>8. MigratorOK(m)'
    BY <1>1, <2>1, <2>6, <2>7 DEF MigratorOK, Working, FilesAt
  <2>9. QED
    BY <1>1, <2>1, <2>4, <2>5, <2>8, QuietStep
<1>6. QED
  BY <1>4, <1>5

LEMMA NextSourceInv ==
  ASSUME Inv, NEW m \in Migrator, NextSource(m)
  PROVE  Inv'
<1>1. TypeOK /\ MigratorOK(m) /\ LoopOK(m) /\ pc[m] = "file" /\ lock = m
  BY HolderHasLock DEF Inv, NextSource, GoTo, Working, MigratorOK
<1>2. /\ todo[m] = {}
      /\ pc' = [pc EXCEPT ![m] = "source"]
      /\ at' = [at EXCEPT ![m] = @ + 1]
      /\ UNCHANGED <<lock, ledger, executed, todo, recorded, open, result, failures>>
  BY DEF NextSource, GoTo
<1>3. at[m] \in 1..Len(Sources) /\ Len(Sources) \in Nat
  BY <1>1, MigrationsAssumption DEF LoopOK
<1>4. TypeOK'
  BY <1>1, <1>2, <1>3 DEF TypeOK
<1>5. OthersStand(m)
  BY <1>1, <1>2 DEF TypeOK, OthersStand, SameMigrator
<1>6. pc'[m] = "source" /\ at'[m] = at[m] + 1
  BY <1>1, <1>2 DEF TypeOK
<1>7. ASSUME NEW i \in 1..at[m], NEW f \in FilesAt(m, i)
      PROVE  Entry(Sources[i], f) \in ledger
  <2>1. CASE i = at[m]
    BY <1>1, <1>2, <1>7, <2>1 DEF LoopOK, SourceOf
  <2>2. CASE i \in 1..(at[m] - 1)
    BY <1>1, <1>7, <2>2 DEF MigratorOK, Working
  <2>3. QED
    BY <1>3, <1>7, <2>1, <2>2
<1>8. MigratorOK(m)'
  BY <1>1, <1>2, <1>3, <1>6, <1>7 DEF MigratorOK, Working, FilesAt
<1>9. QED
  BY <1>1, <1>2, <1>4, <1>5, <1>8, QuietStep

\* The file a step of the loop is about.
LEMMA FileInHand ==
  ASSUME Inv, NEW m \in Migrator, pc[m] = "file", todo[m] # {}
  PROVE  /\ TypeOK /\ MigratorOK(m) /\ LoopOK(m) /\ lock = m
         /\ NextFile(m) \in todo[m] /\ NextFile(m) \in File
         /\ \A f \in todo[m] : NextFile(m).version <= f.version
         /\ NextFile(m) \in FilesOf[ReleaseOf[m]][SourceOf(m)]
         /\ SourceOf(m) \in Boundary
<1>1. TypeOK /\ MigratorOK(m) /\ LoopOK(m) /\ lock = m
  BY HolderHasLock DEF Inv, Working, MigratorOK
<1>2. todo[m] \subseteq File
  BY <1>1 DEF TypeOK, File
<1>3. QED
  BY <1>1, <1>2, NextFileIsLeast, FilesAreFiles DEF LoopOK, FilesAt, SourceOf

LEMMA SkipRecordedInv ==
  ASSUME Inv, NEW m \in Migrator, SkipRecorded(m)
  PROVE  Inv'
<1> DEFINE file == NextFile(m)
<1>1. /\ TypeOK /\ MigratorOK(m) /\ LoopOK(m) /\ pc[m] = "file" /\ lock = m
      /\ file \in todo[m]
  BY FileInHand DEF SkipRecorded
<1>2. /\ Entry(SourceOf(m), file) \in recorded[m]
      /\ todo' = [todo EXCEPT ![m] = @ \ {file}]
      /\ UNCHANGED <<lock, ledger, executed, pc, at, recorded, open, result, failures>>
  BY DEF SkipRecorded
<1> HIDE DEF file
<1>3. TypeOK' /\ todo'[m] = todo[m] \ {file}
  BY <1>1, <1>2 DEF TypeOK
<1>4. OthersStand(m)
  BY <1>1, <1>2 DEF TypeOK, OthersStand, SameMigrator
<1>5. LoopOK(m)'
  <2>1. Entry(SourceOf(m), file) \in ledger
    BY <1>1, <1>2 DEF LoopOK
  <2>2. \A f \in FilesAt(m, at[m]) \ (todo[m] \ {file}) : Entry(SourceOf(m), f) \in ledger
    BY <1>1, <2>1 DEF LoopOK
  <2>3. QED
    BY <1>1, <1>2, <1>3, <2>2 DEF LoopOK, FilesAt, SourceOf
<1>6. MigratorOK(m)'
  BY <1>1, <1>2, <1>5 DEF MigratorOK, FilesAt
<1>7. QED
  BY <1>1, <1>2, <1>3, <1>4, <1>6, QuietStep

LEMMA RefuseChangedInv ==
  ASSUME Inv, NEW m \in Migrator, RefuseChanged(m)
  PROVE  Inv'
<1> DEFINE file == NextFile(m)
<1>1. /\ TypeOK /\ LoopOK(m) /\ pc[m] = "file" /\ file \in File
      /\ file \in FilesOf[ReleaseOf[m]][SourceOf(m)]
  BY FileInHand DEF RefuseChanged
<1>2. /\ file.version \in Versions(recorded[m])
      /\ Entry(SourceOf(m), file) \notin recorded[m]
      /\ End(m, "checksum_mismatch")
      /\ UNCHANGED <<ledger, executed, run, failures>>
  BY DEF RefuseChanged
<1> HIDE DEF file
<1>3. PICK e \in recorded[m] : e.version = file.version
  BY <1>2 DEF Versions
<1>4. e \in ledger /\ e.source = SourceOf(m)
  BY <1>1 DEF LoopOK
<1>5. file.content # e.checksum
  <2>1. e \in Row
    BY <1>1, <1>4 DEF TypeOK, Row
  <2>2. e = [source |-> e.source, version |-> e.version, checksum |-> e.checksum]
    BY <2>1 DEF Row
  <2>3. QED
    BY <1>2, <1>3, <1>4, <2>2 DEF Entry
<1>6. ReportOK(m, "checksum_mismatch")
  BY <1>1, <1>3, <1>4, <1>5 DEF ReportOK, Changed
<1>7. QED
  BY <1>1, <1>2, <1>6, EndInv DEF Working, Result, TypeOK

LEMMA RefuseOutOfOrderInv ==
  ASSUME Inv, NEW m \in Migrator, RefuseOutOfOrder(m)
  PROVE  Inv'
<1> DEFINE file == NextFile(m)
<1>1. /\ TypeOK /\ LoopOK(m) /\ pc[m] = "file" /\ file \in File /\ file \in todo[m]
      /\ file \in FilesOf[ReleaseOf[m]][SourceOf(m)]
      /\ SourceOf(m) \in Boundary
  BY FileInHand DEF RefuseOutOfOrder
<1>2. /\ file.version \notin Versions(recorded[m])
      /\ BelowApplied(m)
      /\ End(m, "out_of_order")
      /\ UNCHANGED <<ledger, executed, run, failures>>
  BY DEF RefuseOutOfOrder
<1>3. PICK e \in recorded[m] : file.version <= e.version
  BY <1>2 DEF BelowApplied
<1> HIDE DEF file
<1>4. e \in ledger /\ e.source = SourceOf(m) /\ e.version \in Nat
  BY <1>1 DEF LoopOK, TypeOK
<1>5. file.version < e.version
  BY <1>1, <1>2, <1>3, <1>4 DEF Versions, File
<1>6. Entry(SourceOf(m), file) \notin ledger
  BY <1>1, <1>2, EntryIsRow DEF LoopOK, Versions, File
<1>7. ReportOK(m, "out_of_order")
  BY <1>1, <1>4, <1>5, <1>6 DEF ReportOK, OutOfOrder
<1>8. QED
  BY <1>1, <1>2, <1>7, EndInv DEF Working, Result, TypeOK

LEMMA ExecuteInv ==
  ASSUME Inv, NEW m \in Migrator, Execute(m)
  PROVE  Inv'
<1> DEFINE file == NextFile(m)
<1>1. /\ TypeOK /\ MigratorOK(m) /\ LoopOK(m) /\ pc[m] = "file" /\ lock = m
      /\ file \in File /\ file \in todo[m]
      /\ \A f \in todo[m] : file.version <= f.version
  BY FileInHand DEF Execute, GoTo
<1>2. /\ \A e \in recorded[m] : ~(file.version <= e.version)
      /\ pc' = [pc EXCEPT ![m] = "commit"]
      /\ open' = [open EXCEPT ![m] = file]
      /\ UNCHANGED <<lock, ledger, executed, at, todo, recorded, result, failures>>
  BY DEF Execute, GoTo, BelowApplied, run
<1> HIDE DEF file
<1>3. TypeOK' /\ open'[m] = file /\ pc'[m] = "commit"
  BY <1>1, <1>2 DEF TypeOK, File
<1>4. OthersStand(m)
  BY <1>1, <1>2 DEF TypeOK, OthersStand, SameMigrator
<1>5. OpenOK(m)'
  <2>1. \A e \in recorded[m] : e.version < file.version
    BY <1>1, <1>2 DEF TypeOK, File
  <2>2. QED
    BY <1>1, <1>2, <1>3, <2>1 DEF OpenOK
<1>6. LoopOK(m)'
  BY <1>1, <1>2 DEF LoopOK, FilesAt, SourceOf
<1>7. MigratorOK(m)'
  BY <1>1, <1>2, <1>3, <1>5, <1>6 DEF MigratorOK, FilesAt, Working
<1>8. QED
  BY <1>1, <1>2, <1>3, <1>4, <1>7, QuietStep

(***************************************************************************)
(* The commit: its row is above every row of its source, so it repeats     *)
(* nothing, keeps the order, and leaves every report true.                 *)
(***************************************************************************)
LEMMA CommitInv ==
  ASSUME Inv, NEW m \in Migrator, Commit(m)
  PROVE  Inv'
<1> DEFINE s == SourceOf(m)
           file == open[m]
           row == Entry(s, file)
<1>1. /\ TypeOK /\ LockOK /\ DatabaseOK /\ MigratorOK(m) /\ LoopOK(m) /\ OpenOK(m)
      /\ pc[m] = "commit" /\ lock = m
  BY HolderHasLock DEF Inv, Commit, GoTo, Working, MigratorOK
<1>2. /\ pc' = [pc EXCEPT ![m] = "file"]
      /\ executed' = Append(executed, row)
      /\ ledger' = ledger \cup {row}
      /\ todo' = [todo EXCEPT ![m] = @ \ {file}]
      /\ open' = [open EXCEPT ![m] = None]
      /\ UNCHANGED <<lock, at, recorded, result, failures>>
  BY DEF Commit, GoTo
<1>3. /\ file \in todo[m] /\ todo[m] \subseteq File /\ file \in File /\ s \in Boundary
      /\ \A f, g \in todo[m] : f.version = g.version => f = g
  BY <1>1, FilesAreFiles DEF OpenOK, LoopOK, SourceOf
<1>4. row \in Row /\ row.source = s /\ row.version = file.version /\ row.checksum = file.content
  BY <1>3, EntryIsRow
<1> HIDE DEF s, file, row
<1>5. ASSUME NEW e \in ledger, e.source = s
      PROVE  e.version < row.version
  BY <1>1, <1>3, <1>4, <1>5 DEF LoopOK, OpenOK, s, file
<1>6. row \notin ledger
  BY <1>3, <1>4, <1>5 DEF File
<1>7. TypeOK'
  <2>1. ledger' \subseteq Row /\ executed' \in Seq(Row)
    BY <1>1, <1>2, <1>4 DEF TypeOK, Row
  <2>2. QED
    BY <1>1, <1>2, <2>1 DEF TypeOK, Row
<1>8. /\ pc'[m] = "file" /\ todo'[m] = todo[m] \ {file} /\ open'[m] = None
      /\ OthersStand(m)
  BY <1>1, <1>2 DEF TypeOK, OthersStand, SameMigrator
<1>9. LockOK'
  BY <1>1, <1>2, <1>8 DEF LockOK, OthersStand, SameMigrator
<1>10. DatabaseOK'
  <2>1. /\ executed \in Seq(Row) /\ Len(executed) \in Nat
        /\ DOMAIN executed = 1..Len(executed)
        /\ DOMAIN executed' = 1..(Len(executed) + 1)
        /\ executed'[Len(executed) + 1] = row
        /\ \A i \in 1..Len(executed) : executed'[i] = executed[i]
    BY <1>1, <1>2, <1>4 DEF TypeOK, Row
  <2>2. \A i \in DOMAIN executed' : executed'[i] \in ledger'
    BY <1>1, <1>2, <2>1 DEF DatabaseOK
  <2>3. \A e \in ledger' : \E i \in DOMAIN executed' : executed'[i] = e
    BY <1>1, <1>2, <2>1 DEF DatabaseOK
  <2>4. ASSUME NEW i \in DOMAIN executed', NEW j \in DOMAIN executed',
               i < j, executed'[i].source = executed'[j].source
        PROVE  executed'[i].version < executed'[j].version
    <3>1. i \in 1..Len(executed)
      BY <2>1, <2>4
    <3>2. CASE j = Len(executed) + 1
      BY <1>1, <1>4, <1>5, <2>1, <2>4, <3>1, <3>2 DEF DatabaseOK
    <3>3. CASE j \in 1..Len(executed)
      BY <1>1, <2>1, <2>4, <3>1, <3>3 DEF DatabaseOK
    <3>4. QED
      BY <2>1, <2>4, <3>2, <3>3
  <2>5. QED
    BY <2>2, <2>3, <2>4 DEF DatabaseOK
<1>11. ASSUME NEW d \in Migrator
       PROVE  ReportOK(d, result[d])'
  <2>1. ReportOK(d, result[d]) /\ result'[d] = result[d]
    BY <1>2 DEF Inv
  <2>2. result[d] = "applied" => Migrated(d)'
    BY <1>2, <2>1 DEF ReportOK, Migrated
  <2>3. result[d] = "checksum_mismatch" => Changed(d)'
    BY <1>2, <2>1 DEF ReportOK, Changed
  <2>4. result[d] = "out_of_order" => OutOfOrder(d)'
    <3>1. SUFFICES ASSUME result[d] = "out_of_order" PROVE OutOfOrder(d)'
      OBVIOUS
    <3>2. PICK e \in ledger : \E f \in FilesOf[ReleaseOf[d]][e.source] :
            f.version < e.version /\ Entry(e.source, f) \notin ledger
      BY <2>1, <3>1 DEF ReportOK, OutOfOrder
    <3>3. PICK f \in FilesOf[ReleaseOf[d]][e.source] :
            f.version < e.version /\ Entry(e.source, f) \notin ledger
      BY <3>2
    <3>4. e.source \in Boundary /\ e.version \in Nat /\ f \in File
      BY <1>1, MigrationsAssumption DEF TypeOK, File
    <3>5. Entry(e.source, f) # row
      <4>1. /\ Entry(e.source, f).source = e.source
            /\ Entry(e.source, f).version = f.version
        BY <3>4, EntryIsRow
      <4>2. SUFFICES ASSUME Entry(e.source, f) = row PROVE FALSE
        OBVIOUS
      <4>3. e.version < f.version
        BY <1>4, <1>5, <4>1, <4>2
      <4>4. QED
        BY <3>3, <3>4, <4>3 DEF File
    <3>6. QED
      BY <1>2, <3>3, <3>5 DEF OutOfOrder
  <2>5. QED
    BY <2>1, <2>2, <2>3, <2>4 DEF ReportOK
<1>12. LoopOK(m)'
  <2>1. ASSUME NEW f \in FilesAt(m, at[m]) \ (todo[m] \ {file})
        PROVE  Entry(s, f) \in ledger'
    BY <1>1, <1>2, <2>1 DEF LoopOK, s, row
  <2>2. ASSUME NEW f \in todo[m] \ {file}
        PROVE  row.version < f.version
    BY <1>1, <1>3, <1>4, <2>2 DEF OpenOK, File, file
  <2>3. \A e \in ledger' : e.source = s =>
          e \in recorded[m] \/ \A f \in todo[m] \ {file} : e.version < f.version
    BY <1>1, <1>2, <2>2 DEF LoopOK, s
  <2>4. recorded[m] \subseteq {e \in ledger' : e.source = s}
    BY <1>1, <1>2 DEF LoopOK, s
  <2>5. QED
    BY <1>1, <1>2, <1>8, <2>1, <2>3, <2>4 DEF LoopOK, FilesAt, SourceOf, s
<1>13. MigratorOK(m)'
  BY <1>1, <1>2, <1>8, <1>12 DEF MigratorOK, FilesAt, Working
<1>14. ASSUME NEW d \in Migrator \ {m}
       PROVE  MigratorOK(d)'
  <2>1. MigratorOK(d) /\ SameMigrator(d) /\ pc[d] \notin Working
    BY <1>1, <1>8, MigrationsAssumption DEF Inv, OthersStand, LockOK
  <2>2. QED
    BY <2>1 DEF MigratorOK, SameMigrator, Working
<1>15. QED
  BY <1>7, <1>9, <1>10, <1>11, <1>13, <1>14 DEF Inv

LEMMA FailOrDieInv ==
  ASSUME Inv, NEW m \in Migrator, Fail(m) \/ Die(m)
  PROVE  Inv'
<1>1. PICK outcome \in {"failed", "died"} : End(m, outcome)
  BY DEF Fail, Die
<1>2. /\ failures < MaxFailures /\ failures' = failures + 1
      /\ UNCHANGED <<ledger, executed, run>>
  BY DEF Fail, Die
<1>3. pc[m] \in Working /\ failures' \in 0..MaxFailures
  BY <1>2, MigrationsAssumption DEF Inv, TypeOK, Fail, Die, Working
<1>4. ReportOK(m, outcome) /\ outcome \in Result
  BY DEF ReportOK, Result
<1>5. QED
  BY <1>1, <1>2, <1>3, <1>4, EndInv

\* The holder of the lock has ended, so nobody is past the wait for it.
LEMMA DisconnectInv ==
  ASSUME Inv, NEW m \in Migrator, Disconnect(m)
  PROVE  Inv'
<1>1. /\ pc[m] = "ended" /\ lock = m /\ lock' = None
      /\ UNCHANGED <<ledger, executed, pc, at, todo, recorded, open, result, failures>>
  BY DEF Disconnect
<1>2. \A d \in Migrator : SameMigrator(d)
  BY <1>1 DEF SameMigrator
<1>3. \A d \in Migrator : MigratorOK(d)'
  BY <1>1, <1>2, MigratorKept
<1>4. LockOK'
  <2>1. ASSUME NEW d \in Migrator, pc[d] \in Working
        PROVE  FALSE
    <3>1. lock = d
      BY <2>1 DEF Inv, LockOK
    <3>2. QED
      BY <1>1, <2>1, <3>1 DEF Working
  <2>2. QED
    BY <1>1, <2>1 DEF LockOK
<1>5. TypeOK' /\ DatabaseOK'
  BY <1>1 DEF Inv, TypeOK, DatabaseOK
<1>6. \A d \in Migrator : ReportOK(d, result[d])'
  BY <1>1 DEF Inv, ReportOK, Migrated, Changed, OutOfOrder
<1>7. QED
  BY <1>3, <1>4, <1>5, <1>6 DEF Inv

LEMMA StutterInv ==
  ASSUME Inv, UNCHANGED vars
  PROVE  Inv'
<1>1. UNCHANGED ledger /\ \A d \in Migrator : SameMigrator(d)
  BY DEF vars, SameMigrator
<1>2. \A d \in Migrator : MigratorOK(d)'
  BY <1>1, MigratorKept
<1>3. TypeOK' /\ LockOK' /\ DatabaseOK'
  BY DEF Inv, vars, TypeOK, LockOK, DatabaseOK
<1>4. \A d \in Migrator : ReportOK(d, result[d])'
  BY DEF Inv, vars, ReportOK, Migrated, Changed, OutOfOrder
<1>5. QED
  BY <1>2, <1>3, <1>4 DEF Inv

-----------------------------------------------------------------------------
\* The inductive invariant holds.
THEOREM InvAlways == Spec => []Inv
<1>1. Inv /\ [Next]_vars => Inv'
  BY LockInv, ReadSourceInv, NextSourceInv, SkipRecordedInv, RefuseChangedInv,
     RefuseOutOfOrderInv, ExecuteInv, CommitInv, FailOrDieInv, DisconnectInv,
     StutterInv DEF Next, Handle
<1>2. QED
  BY InitInv, <1>1, PTL DEF Spec

\* Every variable keeps to its type.
THEOREM TypeCorrect == Spec => []TypeOK
<1>1. Inv => TypeOK
  BY DEF Inv
<1>2. QED
  BY InvAlways, <1>1, PTL

(***************************************************************************)
(* Releases that run at once, fail or die: the ledger records what the     *)
(* database has executed, each migration once (migrate of                  *)
(* packages/db/src/migrations.ts).                                         *)
(***************************************************************************)
THEOREM LedgerIsExecuted == Spec => []LedgerIsTheDatabase
<1>1. ASSUME Inv
      PROVE  LedgerIsTheDatabase
  <2>1. DatabaseOK /\ TypeOK
    BY <1>1 DEF Inv
  <2>2. ToSet(executed) = ledger
    BY <2>1 DEF DatabaseOK, ToSet
  <2>3. ASSUME NEW i \in DOMAIN executed, NEW j \in DOMAIN executed, executed[i] = executed[j]
        PROVE  i = j
    <3>1. /\ executed \in Seq(Row) /\ i \in 1..Len(executed) /\ j \in 1..Len(executed)
      BY <2>1, <2>3 DEF TypeOK, Row
    <3>2. executed[i] \in Row /\ Len(executed) \in Nat
      BY <3>1
    <3>3. ~(i < j) /\ ~(j < i)
      BY <2>1, <2>3, <3>2 DEF DatabaseOK, Row
    <3>4. QED
      BY <3>1, <3>2, <3>3
  <2>4. QED
    BY <2>2, <2>3 DEF LedgerIsTheDatabase, IsInjective
<1>2. QED
  BY InvAlways, <1>1, PTL

(***************************************************************************)
(* Every environment executes the versions of a source in ascending order, *)
(* and begins a migration only when its release's earlier sources are      *)
(* complete (the loop of migrate; apps/api/src/migrations.ts).             *)
(***************************************************************************)
THEOREM VersionsAscend == Spec => []AppliedInOrder
<1>1. ASSUME Inv
      PROVE  AppliedInOrder
  <2>1. ASSUME NEW m \in Migrator, open[m] # None
        PROVE  \A i \in 1..(at[m] - 1) : \A f \in FilesOf[ReleaseOf[m]][Sources[i]] :
                 Entry(Sources[i], f) \in ledger
    BY <1>1, <2>1 DEF Inv, MigratorOK, Working, FilesAt
  <2>2. QED
    BY <1>1, <2>1 DEF Inv, DatabaseOK, AppliedInOrder
<1>2. QED
  BY InvAlways, <1>1, PTL

(***************************************************************************)
(* A release step reports what is so: success, a changed file, or one that *)
(* comes out of order (MigrationError of packages/db/src/migrations.ts).   *)
(***************************************************************************)
THEOREM ReleasesReportTruly == Spec => []ReportsAreTrue
<1>1. Inv => ReportsAreTrue
  BY DEF Inv, ReportOK, Migrated, Changed, OutOfOrder, ReportsAreTrue, SuccessMeansMigrated,
     RefusalsAreReal
<1>2. QED
  BY InvAlways, <1>1, PTL

-----------------------------------------------------------------------------
(* Turns.                                                                  *)

\* What the promise calls executed is in the ledger.
LEMMA ExecutedIsRecorded ==
  ASSUME Inv
  PROVE  /\ ToSet(executed) = ledger
         /\ \A i \in DOMAIN Sources : \A f :
              Abstract!Executed(i, f) <=> Entry(Sources[i], f) \in ledger
         /\ \A i \in DOMAIN Sources : Abstract!Of(i) = {e \in ledger : e.source = Sources[i]}
<1>1. ToSet(executed) = ledger
  BY DEF Inv, DatabaseOK, ToSet
<1>2. \A i : \A f : Abstract!Executed(i, f) <=> Entry(Sources[i], f) \in ToSet(executed)
  BY DEF Abstract!Executed, Abstract!ToSet, ToSet, Entry
<1>3. \A i : Abstract!Of(i) = {e \in ToSet(executed) : e.source = Sources[i]}
  BY DEF Abstract!Of, Abstract!ToSet, ToSet
<1>4. QED
  BY <1>1, <1>2, <1>3

\* The sources of a release are those it names by their places.
LEMMA SourcesArePlaced ==
  /\ DOMAIN Sources = 1..Len(Sources) /\ Len(Sources) \in Nat
  /\ \A s \in Boundary : \E i \in DOMAIN Sources : Sources[i] = s
  /\ \A i \in DOMAIN Sources : Sources[i] \in Boundary
<1>1. Sources \in Seq(Boundary)
  BY MigrationsAssumption
<1>2. QED
  BY <1>1 DEF Boundary, ToSet

LEMMA LockEnters ==
  ASSUME Inv, NEW m \in Migrator, Lock(m)
  PROVE  Abstract!Enter(m)
<1>1. result[m] = "none"
  BY DEF Inv, MigratorOK, Lock, GoTo
<1>2. AtWork = None /\ AtWork' = m
  <2>1. lock = None /\ lock' = m /\ pc'[m] = "source"
    BY DEF Inv, TypeOK, Lock, GoTo
  <2>2. QED
    BY <2>1, MigrationsAssumption DEF AtWork
<1>3. QED
  BY <1>1, <1>2 DEF Lock, Abstract!Enter

\* The reason a step reports is one the promise names.
LEMMA ReportIsDeserved ==
  ASSUME Inv, NEW m \in Migrator,
         NEW o \in {"applied", "checksum_mismatch", "out_of_order", "failed", "died"},
         ReportOK(m, o)
  PROVE  Abstract!Deserved(m, o)
<1>1. ledger \subseteq Row
  BY DEF Inv, TypeOK, Row
<1>2. \A e \in ledger : \E i \in DOMAIN Sources : Sources[i] = e.source
  BY <1>1, SourcesArePlaced DEF Row
<1>3. CASE o = "applied"
  <2>1. \A s \in Boundary : \A f \in FilesOf[ReleaseOf[m]][s] : Entry(s, f) \in ledger
    BY <1>3 DEF ReportOK, Migrated
  <2>2. \A i \in DOMAIN Sources : Abstract!Complete(m, i)
    BY <2>1, ExecutedIsRecorded, SourcesArePlaced DEF Abstract!Complete, Abstract!Files
  <2>3. QED
    BY <1>3, <2>2 DEF Abstract!Deserved
<1>4. CASE o = "checksum_mismatch"
  <2>1. PICK e \in ledger : \E f \in FilesOf[ReleaseOf[m]][e.source] :
          f.version = e.version /\ f.content # e.checksum
    BY <1>4 DEF ReportOK, Changed
  <2>2. PICK i \in DOMAIN Sources : Sources[i] = e.source
    BY <1>2
  <2>3. e \in Abstract!Of(i)
    BY <2>2, ExecutedIsRecorded
  <2>4. \E f \in Abstract!Files(m, i) : f.version = e.version /\ f.content # e.checksum
    BY <2>1, <2>2 DEF Abstract!Files
  <2>5. QED
    BY <1>4, <2>3, <2>4 DEF Abstract!Deserved
<1>5. CASE o = "out_of_order"
  <2>1. PICK e \in ledger : \E f \in FilesOf[ReleaseOf[m]][e.source] :
          f.version < e.version /\ Entry(e.source, f) \notin ledger
    BY <1>5 DEF ReportOK, OutOfOrder
  <2>2. PICK i \in DOMAIN Sources : Sources[i] = e.source
    BY <1>2
  <2>3. e \in Abstract!Of(i)
    BY <2>2, ExecutedIsRecorded
  <2>4. \E f \in Abstract!Files(m, i) : f.version < e.version /\ ~Abstract!Executed(i, f)
    BY <2>1, <2>2, ExecutedIsRecorded DEF Abstract!Files
  <2>5. QED
    BY <1>5, <2>3, <2>4 DEF Abstract!Deserved
<1>6. CASE o \in {"failed", "died"}
  BY <1>6 DEF Abstract!Deserved
<1>7. QED
  BY <1>3, <1>4, <1>5, <1>6

\* Whatever ends a run ends a turn, and leaves the database alone.
LEMMA EndLeaves ==
  ASSUME Inv, Inv', NEW m \in Migrator, pc[m] \in Working,
         NEW o \in {"applied", "checksum_mismatch", "out_of_order", "failed", "died"},
         End(m, o), UNCHANGED <<ledger, executed>>
  PROVE  Abstract!Leave(m)
<1>1. AtWork = m /\ AtWork' = None
  <2>1. lock = m /\ lock' \in {m, None}
    BY DEF Inv, LockOK, End
  <2>2. pc[m] # "ended" /\ pc'[m] = "ended"
    BY DEF Inv, TypeOK, End, Working
  <2>3. QED
    BY <2>1, <2>2, MigrationsAssumption DEF AtWork
<1>2. result' = [result EXCEPT ![m] = o] /\ result'[m] = o
  BY DEF Inv, TypeOK, End
<1>3. ReportOK(m, o)
  <2>1. ReportOK(m, result[m])'
    BY DEF Inv
  <2>2. QED
    BY <1>2, <2>1 DEF ReportOK, Migrated, Changed, OutOfOrder
<1>4. Abstract!Deserved(m, o)
  BY <1>3, ReportIsDeserved
<1>5. QED
  BY <1>1, <1>2, <1>4 DEF Abstract!Leave

\* The file a commit makes visible is the next of its release, though the
\* ledger it was compared with was read before the files below it.
LEMMA CommitApplies ==
  ASSUME Inv, NEW m \in Migrator, Commit(m)
  PROVE  Abstract!Apply(m)
<1>1. pc[m] = "commit" /\ lock = m /\ MigratorOK(m)
  BY DEF Inv, LockOK, Working, Commit, GoTo
<1>2. LoopOK(m) /\ OpenOK(m)
  BY <1>1 DEF MigratorOK
<1>3. PICK i \in DOMAIN Sources : i = at[m]
  BY <1>2, SourcesArePlaced DEF LoopOK
<1>4. PICK f \in FilesAt(m, i) : f = open[m] /\ f \in todo[m]
  BY <1>2, <1>3 DEF LoopOK, OpenOK
<1>5. FilesAt(m, i) \subseteq File
  BY FilesAreFiles, SourcesArePlaced
<1>6. ASSUME NEW e \in Abstract!Of(i)
      PROVE  e.version < f.version
  <2>1. e \in ledger /\ e.source = SourceOf(m)
    BY <1>3, <1>6, ExecutedIsRecorded DEF SourceOf
  <2>2. QED
    BY <1>2, <1>4, <2>1 DEF LoopOK, OpenOK
<1>7. ASSUME NEW j \in 1..(i - 1)
      PROVE  Abstract!Complete(m, j)
  <2>1. j \in DOMAIN Sources
    BY SourcesArePlaced
  <2>2. \A g \in FilesAt(m, j) : Entry(Sources[j], g) \in ledger
    BY <1>1, <1>3 DEF MigratorOK, Working
  <2>3. QED
    BY <2>1, <2>2, ExecutedIsRecorded DEF Abstract!Complete, Abstract!Files, FilesAt
<1>8. ASSUME NEW g \in FilesAt(m, i), g.version < f.version
      PROVE  Abstract!Executed(i, g)
  <2>1. g \notin todo[m]
    BY <1>2, <1>4, <1>5, <1>8 DEF OpenOK, File
  <2>2. Entry(Sources[i], g) \in ledger
    BY <1>2, <1>3, <2>1 DEF LoopOK, SourceOf
  <2>3. QED
    BY <2>2, ExecutedIsRecorded
<1>9. executed' = Append(executed,
        [source |-> Sources[i], version |-> f.version, checksum |-> f.content])
  BY <1>3, <1>4 DEF Commit, SourceOf, Entry
<1>10. AtWork = m /\ UNCHANGED <<AtWork, result>>
  <2>1. pc'[m] = "file" /\ UNCHANGED <<lock, result>>
    BY DEF Inv, TypeOK, Commit, GoTo
  <2>2. QED
    BY <1>1, <2>1, MigrationsAssumption DEF AtWork
<1>11. f \in Abstract!Files(m, i) /\ Abstract!Files(m, i) = FilesAt(m, i)
  BY DEF Abstract!Files, FilesAt
<1>12. QED
  BY <1>1, <1>6, <1>7, <1>8, <1>9, <1>10, <1>11 DEF Abstract!Apply

\* A step inside a turn is not the end of it.
LEMMA StillAtWork ==
  ASSUME Inv, NEW m \in Migrator, pc[m] \in Working, UNCHANGED lock,
         pc' = pc \/ \E to \in Working : pc' = [pc EXCEPT ![m] = to]
  PROVE  UNCHANGED AtWork
<1>1. lock = m
  BY DEF Inv, LockOK
<1>2. pc[m] # "ended" /\ pc'[m] # "ended"
  BY DEF Inv, TypeOK, Working
<1>3. QED
  BY <1>1, <1>2 DEF AtWork

(***************************************************************************)
(* The statements of concurrent release steps amount to turns: a step      *)
(* takes the lock and leaves it once, and applies in between nothing but   *)
(* the next file of its release (applyMigrations of                        *)
(* packages/db/src/migrations.ts).                                         *)
(***************************************************************************)
THEOREM ReleasesTakeTurns == Spec => ImplementsReleaseTurns
<1>1. Init => Abstract!Init
  BY DEF Init, Abstract!Init, AtWork
<1>2. ASSUME Inv, Inv', [Next]_vars
      PROVE  [Abstract!Next]_<<executed, AtWork, result>>
  <2>1. ASSUME NEW m \in Migrator, Lock(m)
        PROVE  Abstract!Next
    BY <1>2, <2>1, LockEnters DEF Abstract!Next
  <2>2. ASSUME NEW m \in Migrator, ReadSource(m)
        PROVE  Abstract!Next \/ UNCHANGED <<executed, AtWork, result>>
    <3>1. CASE at[m] > Len(Sources)
      <4>1. pc[m] \in Working /\ End(m, "applied") /\ UNCHANGED <<ledger, executed>>
        BY <2>2, <3>1 DEF ReadSource, Working
      <4>2. QED
        BY <1>2, <4>1, EndLeaves DEF Abstract!Next
    <3>2. CASE ~(at[m] > Len(Sources))
      <4>1. /\ pc[m] = "source" /\ pc' = [pc EXCEPT ![m] = "file"]
            /\ UNCHANGED <<lock, executed, result>>
        BY <2>2, <3>2 DEF ReadSource, GoTo
      <4>2. QED
        BY <1>2, <4>1, StillAtWork DEF Working
    <3>3. QED
      BY <3>1, <3>2
  <2>3. ASSUME NEW m \in Migrator, NextSource(m) \/ SkipRecorded(m) \/ Execute(m)
        PROVE  UNCHANGED <<executed, AtWork, result>>
    <3>1. /\ pc[m] \in Working /\ UNCHANGED <<lock, executed, result>>
          /\ pc' = pc \/ \E to \in Working : pc' = [pc EXCEPT ![m] = to]
      BY <2>3 DEF NextSource, SkipRecorded, Execute, GoTo, Working
    <3>2. QED
      BY <1>2, <3>1, StillAtWork
  <2>4. ASSUME NEW m \in Migrator, RefuseChanged(m) \/ RefuseOutOfOrder(m)
        PROVE  Abstract!Next
    <3>1. /\ pc[m] \in Working /\ UNCHANGED <<ledger, executed>>
          /\ End(m, "checksum_mismatch") \/ End(m, "out_of_order")
      BY <2>4 DEF RefuseChanged, RefuseOutOfOrder, Working
    <3>2. QED
      BY <1>2, <3>1, EndLeaves DEF Abstract!Next
  <2>5. ASSUME NEW m \in Migrator, Commit(m)
        PROVE  Abstract!Next
    BY <1>2, <2>5, CommitApplies DEF Abstract!Next
  <2>6. ASSUME NEW m \in Migrator, Fail(m) \/ Die(m)
        PROVE  Abstract!Next
    <3>1. pc \in [Migrator -> {"start", "source", "file", "commit", "ended"}]
      BY <1>2 DEF Inv, TypeOK
    <3>2. /\ pc[m] \in Working /\ UNCHANGED <<ledger, executed>>
          /\ End(m, "failed") \/ End(m, "died")
      BY <2>6, <3>1 DEF Fail, Die, Working
    <3>3. QED
      BY <1>2, <3>2, EndLeaves DEF Abstract!Next
  <2>7. ASSUME NEW m \in Migrator, Disconnect(m)
        PROVE  UNCHANGED <<executed, AtWork, result>>
    BY <2>7 DEF Disconnect, AtWork
  <2>8. CASE UNCHANGED vars
    BY <2>8 DEF vars, AtWork
  <2>9. QED
    BY <1>2, <2>1, <2>2, <2>3, <2>4, <2>5, <2>6, <2>7, <2>8 DEF Next, Handle
<1>3. QED
  BY InvAlways, <1>1, <1>2, PTL DEF Spec, ImplementsReleaseTurns, Abstract!Spec

-----------------------------------------------------------------------------
(* Readiness reports.                                                      *)

(***************************************************************************)
(* A probe has trouble when it is down and only then.  While it runs, its  *)
(* report is awaited, and it remembers whether its service has ever spoken *)
(* since; so whoever is at the other end of its socket, and speaks, is     *)
(* remembered too.                                                         *)
(***************************************************************************)
ProbeOK(p) ==
  /\ probe[p].trouble <=> probe[p].step = "down"
  /\ probe[p].step = "up" => probe[p].spoken
  /\ Running(p) => Waiting(p[1])
  /\ Running(p) /\ service[p[2]] \in Speaking => probe[p].spoken
  /\ probe[p].step = "asked" /\ probe[p].peer \in Speaking => probe[p].spoken

\* An answer is what its probes came to, and stays so until it is asked again.
AnswerOK(r) ==
  /\ Waiting(r) => \A d \in Dependency : probe[<<r, d>>].step # "idle"
  /\ Answered(r) => \A d \in Dependency :
       /\ answer[r][d] = probe[<<r, d>>].step
       /\ probe[<<r, d>>].step \in {"up", "down"}

ReadyInv ==
  /\ ReadyTypeOK
  /\ \A p \in Probe : ProbeOK(p)
  /\ \A r \in Report : AnswerOK(r)

ProbeRow ==
  [step : {"idle", "connecting", "asked", "up", "down"}, peer : Service \cup {NotYet},
   reply : {"nothing", "part", "other"}, spoken : BOOLEAN, trouble : BOOLEAN]

LEMMA ReadyInitInv == ReadyInit => ReadyInv
<1> SUFFICES ASSUME ReadyInit PROVE ReadyInv
  OBVIOUS
<1>1. Idle \in ProbeRow
  BY DEF Idle, ProbeRow
<1>2. ReadyTypeOK
  BY <1>1 DEF ReadyInit, ReadyTypeOK, ProbeRow
<1>3. \A p \in Probe : ProbeOK(p)
  BY DEF ReadyInit, ProbeOK, Idle, Running
<1>4. \A r \in Report : AnswerOK(r)
  BY ReadinessAssumption DEF ReadyInit, AnswerOK, Waiting, Answered
<1>5. QED
  BY <1>2, <1>3, <1>4 DEF ReadyInv

-----------------------------------------------------------------------------
(***************************************************************************)
(* A step of one running probe: it becomes a probe that is all right, and  *)
(* since its report is awaited, no answer is touched.                      *)
(***************************************************************************)
LEMMA ProbeStep ==
  ASSUME ReadyInv, NEW p \in Probe, Running(p), NEW row \in ProbeRow,
         probe' = [probe EXCEPT ![p] = row], UNCHANGED <<service, answer>>,
         row.step # "idle", ProbeOK(p)'
  PROVE  ReadyInv'
<1>1. ReadyTypeOK /\ ProbeOK(p) /\ Waiting(p[1])
  BY DEF ReadyInv, ProbeOK
<1>2. ReadyTypeOK'
  BY <1>1 DEF ReadyTypeOK, ProbeRow
<1>3. \A q \in Probe \ {p} : probe'[q] = probe[q]
  BY <1>1 DEF ReadyTypeOK
<1>4. ASSUME NEW q \in Probe \ {p}
      PROVE  ProbeOK(q)'
  BY <1>3 DEF ReadyInv, ProbeOK, Running, Waiting
<1>5. ASSUME NEW r \in Report
      PROVE  AnswerOK(r)'
  <2>1. AnswerOK(r) /\ \A d \in Dependency : <<r, d>> \in Probe
    BY DEF ReadyInv, Probe
  <2>2. CASE Waiting(r)
    <3>1. \A d \in Dependency : probe'[<<r, d>>].step # "idle"
      BY <1>1, <1>3, <2>1, <2>2 DEF AnswerOK, ReadyTypeOK
    <3>2. QED
      BY <2>2, <3>1 DEF AnswerOK, Waiting, Answered
  <2>3. CASE ~Waiting(r)
    <3>1. \A d \in Dependency : probe'[<<r, d>>] = probe[<<r, d>>]
      BY <1>1, <1>3, <2>1, <2>3
    <3>2. QED
      BY <2>1, <3>1 DEF AnswerOK, Waiting, Answered
  <2>4. QED
    BY <2>2, <2>3
<1>6. QED
  BY <1>2, <1>4, <1>5 DEF ReadyInv

LEMMA SettledRow ==
  ASSUME ReadyInv, NEW p \in Probe, NEW step \in {"up", "down"}, NEW troubled \in BOOLEAN
  PROVE  /\ Settled(p, step, troubled) \in ProbeRow
         /\ Settled(p, step, troubled).step = step
         /\ Settled(p, step, troubled).trouble = troubled
         /\ Settled(p, step, troubled).spoken = probe[p].spoken
BY DEF ReadyInv, ReadyTypeOK, Settled, Idle, ProbeRow

LEMMA DownInv ==
  ASSUME ReadyInv, NEW p \in Probe, Running(p), Down(p), UNCHANGED <<service, answer>>
  PROVE  ReadyInv'
<1> DEFINE row == Settled(p, "down", TRUE)
<1>1. /\ row \in ProbeRow /\ row.step = "down" /\ row.trouble = TRUE
  BY SettledRow
<1>2. probe' = [probe EXCEPT ![p] = row]
  BY DEF Down
<1> HIDE DEF row
<1>3. probe'[p] = row
  BY <1>2 DEF ReadyInv, ReadyTypeOK
<1>4. ProbeOK(p)'
  BY <1>1, <1>3 DEF ProbeOK, Running
<1>5. QED
  BY <1>1, <1>2, <1>4, ProbeStep

\* Up is said of a service that spoke.
LEMMA UpInv ==
  ASSUME ReadyInv, NEW p \in Probe, Running(p), probe[p].spoken, Up(p), UNCHANGED <<service, answer>>
  PROVE  ReadyInv'
<1> DEFINE row == Settled(p, "up", FALSE)
<1>1. row \in ProbeRow /\ row.step = "up" /\ row.trouble = FALSE /\ row.spoken = probe[p].spoken
  BY SettledRow
<1>2. probe' = [probe EXCEPT ![p] = row]
  BY DEF Up
<1> HIDE DEF row
<1>3. probe'[p] = row
  BY <1>2 DEF ReadyInv, ReadyTypeOK
<1>4. ProbeOK(p)'
  BY <1>1, <1>3 DEF ProbeOK, Running
<1>5. QED
  BY <1>1, <1>2, <1>4, ProbeStep

-----------------------------------------------------------------------------
(* One lemma per action.                                                   *)

LEMMA ConnectInv ==
  ASSUME ReadyInv, NEW p \in Probe, Connect(p)
  PROVE  ReadyInv'
<1>1. ReadyTypeOK /\ ProbeOK(p) /\ probe[p].step = "connecting" /\ Running(p)
  BY DEF ReadyInv, Connect, Running
<1>2. CASE service[p[2]] = "refusing"
  BY <1>1, <1>2, DownInv DEF Connect
<1>3. CASE service[p[2]] # "refusing"
  <2> DEFINE row == [probe[p] EXCEPT !.step = "asked", !.peer = service[p[2]]]
  <2>1. /\ row \in ProbeRow /\ row.step = "asked" /\ row.peer = service[p[2]]
        /\ row.spoken = probe[p].spoken /\ row.trouble = probe[p].trouble
    <3>1. probe[p] \in ProbeRow /\ service[p[2]] \in Service
      BY <1>1 DEF ReadyTypeOK, ProbeRow, Probe
    <3>2. QED
      BY <3>1 DEF ProbeRow
  <2>2. probe' = [probe EXCEPT ![p] = row] /\ UNCHANGED <<service, answer>>
    BY <1>1, <1>3 DEF Connect, ReadyTypeOK
  <2> HIDE DEF row
  <2>3. probe'[p] = row
    BY <1>1, <2>2 DEF ReadyTypeOK
  <2>4. ProbeOK(p)'
    BY <1>1, <2>1, <2>2, <2>3 DEF ProbeOK, Running, Waiting
  <2>5. QED
    BY <1>1, <2>1, <2>2, <2>4, ProbeStep
<1>4. QED
  BY <1>2, <1>3

LEMMA DataInv ==
  ASSUME ReadyInv, NEW p \in Probe, Data(p)
  PROVE  ReadyInv'
<1>1. /\ ReadyTypeOK /\ ProbeOK(p) /\ probe[p].step = "asked" /\ Running(p)
      /\ UNCHANGED <<service, answer>>
  BY DEF ReadyInv, Data, Running
<1>2. PICK reply \in Grows(p) :
        \/ reply = "whole" /\ Up(p)
        \/ reply = "long" /\ Down(p)
        \/ /\ reply \in {"part", "other"}
           /\ probe' = [probe EXCEPT ![p].reply = reply]
  BY DEF Data
<1>3. CASE reply = "whole" /\ Up(p)
  <2>1. probe[p].peer \in Speaking
    BY <1>2, <1>3 DEF Grows, Speaking
  <2>2. QED
    BY <1>1, <1>3, <2>1, UpInv DEF ProbeOK
<1>4. CASE reply = "long" /\ Down(p)
  BY <1>1, <1>4, DownInv
<1>5. CASE reply \in {"part", "other"} /\ probe' = [probe EXCEPT ![p].reply = reply]
  <2> DEFINE row == [probe[p] EXCEPT !.reply = reply]
  <2>1. /\ row \in ProbeRow /\ row.step = "asked" /\ row.peer = probe[p].peer
        /\ row.spoken = probe[p].spoken /\ row.trouble = probe[p].trouble
    <3>1. probe[p] \in ProbeRow
      BY <1>1 DEF ReadyTypeOK, ProbeRow
    <3>2. QED
      BY <1>1, <1>5, <3>1 DEF ProbeRow
  <2>2. probe' = [probe EXCEPT ![p] = row]
    BY <1>1, <1>5 DEF ReadyTypeOK
  <2> HIDE DEF row
  <2>3. probe'[p] = row
    BY <1>1, <2>2 DEF ReadyTypeOK
  <2>4. ProbeOK(p)'
    BY <1>1, <2>1, <2>3 DEF ProbeOK, Running, Waiting
  <2>5. QED
    BY <1>1, <2>1, <2>2, <2>4, ProbeStep
<1>6. QED
  BY <1>2, <1>3, <1>4, <1>5

LEMMA BreakInv ==
  ASSUME ReadyInv, NEW p \in Probe, Break(p) \/ Timeout(p)
  PROVE  ReadyInv'
BY DownInv DEF Break, Timeout, Running

LEMMA RequestInv ==
  ASSUME ReadyInv, NEW r \in Report, Request(r)
  PROVE  ReadyInv'
<1> DEFINE row(d) == [Idle EXCEPT !.step = "connecting", !.spoken = service[d] \in Speaking]
<1>1. ReadyTypeOK /\ ~Waiting(r)
  BY DEF ReadyInv, Request
<1>2. /\ answer' = [answer EXCEPT ![r] = NotYet]
      /\ probe' = [p \in Probe |-> IF p[1] = r THEN row(p[2]) ELSE probe[p]]
      /\ UNCHANGED service
  BY DEF Request
<1>3. \A d \in Dependency :
        /\ row(d) \in ProbeRow /\ row(d).step = "connecting" /\ row(d).trouble = FALSE
        /\ row(d).spoken <=> service[d] \in Speaking
  <2>1. ASSUME NEW b \in BOOLEAN
        PROVE  LET begun == [Idle EXCEPT !.step = "connecting", !.spoken = b] IN
               /\ begun \in ProbeRow /\ begun.step = "connecting" /\ begun.trouble = FALSE
               /\ begun.spoken = b
    BY <2>1 DEF ProbeRow, Idle
  <2>2. \A d \in Dependency : (service[d] \in Speaking) \in BOOLEAN
    OBVIOUS
  <2>3. QED
    BY <2>1, <2>2, Zenon
<1> HIDE DEF row
<1>4. ReadyTypeOK'
  BY <1>1, <1>2, <1>3 DEF ReadyTypeOK, ProbeRow, Probe
<1>5. answer'[r] = NotYet /\ \A s \in Report \ {r} : answer'[s] = answer[s]
  BY <1>1, <1>2 DEF ReadyTypeOK
<1>6. ASSUME NEW p \in Probe
      PROVE  ProbeOK(p)'
  <2>1. p[1] \in Report /\ p[2] \in Dependency /\ ProbeOK(p)
    BY DEF ReadyInv, Probe
  <2>2. CASE p[1] = r
    BY <1>2, <1>3, <1>5, <2>1, <2>2 DEF ProbeOK, Running, Waiting
  <2>3. CASE p[1] # r
    BY <1>2, <1>5, <2>1, <2>3 DEF ProbeOK, Running, Waiting
  <2>4. QED
    BY <2>2, <2>3
<1>7. ASSUME NEW s \in Report
      PROVE  AnswerOK(s)'
  <2>1. AnswerOK(s) /\ \A d \in Dependency : <<s, d>> \in Probe
    BY DEF ReadyInv, Probe
  <2>2. CASE s = r
    BY <1>2, <1>3, <1>5, <2>1, <2>2 DEF AnswerOK, Waiting, Answered
  <2>3. CASE s # r
    BY <1>2, <1>5, <2>1, <2>3 DEF AnswerOK, Waiting, Answered
  <2>4. QED
    BY <2>2, <2>3
<1>8. QED
  BY <1>4, <1>6, <1>7 DEF ReadyInv

LEMMA RespondInv ==
  ASSUME ReadyInv, NEW r \in Report, Respond(r)
  PROVE  ReadyInv'
<1>1. ReadyTypeOK /\ Waiting(r) /\ \A d \in Dependency : <<r, d>> \in Probe
  BY DEF ReadyInv, Respond, Probe
<1>2. /\ \A d \in Dependency : ~Running(<<r, d>>)
      /\ answer' = [answer EXCEPT ![r] = [d \in Dependency |-> probe[<<r, d>>].step]]
      /\ UNCHANGED <<service, probe>>
  BY DEF Respond
<1>3. \A d \in Dependency : probe[<<r, d>>].step \in {"up", "down"}
  BY <1>1, <1>2 DEF ReadyInv, AnswerOK, Running, ReadyTypeOK
<1>4. /\ answer'[r] = [d \in Dependency |-> probe[<<r, d>>].step]
      /\ \A s \in Report \ {r} : answer'[s] = answer[s]
  BY <1>1, <1>2 DEF ReadyTypeOK
<1>5. ReadyTypeOK'
  <2>1. [d \in Dependency |-> probe[<<r, d>>].step] \in [Dependency -> {"up", "down"}]
    BY <1>3
  <2>2. QED
    BY <1>1, <1>2, <2>1 DEF ReadyTypeOK
<1>6. ASSUME NEW p \in Probe
      PROVE  ProbeOK(p)'
  <2>1. p[1] \in Report /\ p[2] \in Dependency /\ p = <<p[1], p[2]>> /\ ProbeOK(p)
    BY DEF ReadyInv, Probe
  <2>2. Running(p) => p[1] # r
    BY <1>2, <2>1
  <2>3. QED
    BY <1>2, <1>4, <2>1, <2>2 DEF ProbeOK, Running, Waiting
<1>7. ASSUME NEW s \in Report
      PROVE  AnswerOK(s)'
  <2>1. AnswerOK(s)
    BY DEF ReadyInv
  <2>2. CASE s = r
    BY <1>2, <1>3, <1>4, <2>2 DEF AnswerOK, Waiting, Answered
  <2>3. CASE s # r
    BY <1>2, <1>4, <2>1, <2>3 DEF AnswerOK, Waiting, Answered
  <2>4. QED
    BY <2>2, <2>3
<1>8. QED
  BY <1>5, <1>6, <1>7 DEF ReadyInv

LEMMA ChangeInv ==
  ASSUME ReadyInv, NEW d \in Dependency, Change(d)
  PROVE  ReadyInv'
<1>1. ReadyTypeOK
  BY DEF ReadyInv
<1>2. PICK s \in Service :
        /\ service' = [service EXCEPT ![d] = s]
        /\ probe' = [p \in Probe |->
             IF p[2] = d /\ Waiting(p[1])
             THEN [probe[p] EXCEPT !.spoken = @ \/ s \in Speaking] ELSE probe[p]]
  BY DEF Change
<1>3. UNCHANGED answer
  BY DEF Change
<1>4. ASSUME NEW p \in Probe
      PROVE  /\ probe'[p] \in ProbeRow
             /\ probe'[p].step = probe[p].step /\ probe'[p].trouble = probe[p].trouble
             /\ probe'[p].peer = probe[p].peer
             /\ probe[p].spoken => probe'[p].spoken
             /\ p[2] = d /\ Waiting(p[1]) /\ s \in Speaking => probe'[p].spoken
  <2>1. probe[p] \in ProbeRow
    BY <1>1 DEF ReadyTypeOK, ProbeRow
  <2>2. CASE p[2] = d /\ Waiting(p[1])
    <3>1. probe'[p] = [probe[p] EXCEPT !.spoken = probe[p].spoken \/ s \in Speaking]
      BY <1>2, <2>2
    <3>2. QED
      BY <2>1, <3>1 DEF ProbeRow
  <2>3. CASE ~(p[2] = d /\ Waiting(p[1]))
    BY <1>2, <2>1, <2>3
  <2>4. QED
    BY <2>2, <2>3
<1>5. ReadyTypeOK'
  <2>1. probe' \in [Probe -> ProbeRow]
    BY <1>2, <1>4
  <2>2. QED
    BY <1>1, <1>2, <1>3, <2>1 DEF ReadyTypeOK, ProbeRow
<1>6. ASSUME NEW p \in Probe
      PROVE  ProbeOK(p)'
  <2>1. ProbeOK(p) /\ p[2] \in Dependency
    BY DEF ReadyInv, Probe
  <2>2. service'[p[2]] = IF p[2] = d THEN s ELSE service[p[2]]
    BY <1>1, <1>2, <2>1 DEF ReadyTypeOK
  <2>3. QED
    BY <1>3, <1>4, <2>1, <2>2 DEF ProbeOK, Running, Waiting
<1>7. ASSUME NEW r \in Report
      PROVE  AnswerOK(r)'
  <2>1. \A e \in Dependency : <<r, e>> \in Probe
    BY DEF Probe
  <2>2. QED
    BY <1>3, <1>4, <2>1 DEF ReadyInv, AnswerOK, Waiting, Answered
<1>8. QED
  BY <1>5, <1>6, <1>7 DEF ReadyInv

LEMMA ReadyStutterInv ==
  ASSUME ReadyInv, UNCHANGED readyVars
  PROVE  ReadyInv'
BY DEF readyVars, ReadyInv, ReadyTypeOK, ProbeOK, AnswerOK, Running, Waiting, Answered

-----------------------------------------------------------------------------
\* The inductive invariant holds.
THEOREM ReadyInvAlways == ReadySpec => []ReadyInv
<1>1. ReadyInv /\ [ReadyNext]_readyVars => ReadyInv'
  BY ConnectInv, DataInv, BreakInv, RequestInv, RespondInv, ChangeInv, ReadyStutterInv DEF ReadyNext
<1>2. QED
  BY ReadyInitInv, <1>1, PTL DEF ReadySpec

\* Every variable keeps to its type.
THEOREM ReadyTypeCorrect == ReadySpec => []ReadyTypeOK
<1>1. ReadyInv => ReadyTypeOK
  BY DEF ReadyInv
<1>2. QED
  BY ReadyInvAlways, <1>1, PTL

(***************************************************************************)
(* "up" needs something that spoke since the report was asked for, however *)
(* services come and go meanwhile (createReadinessReporter and the probes  *)
(* of packages/observability/src).                                         *)
(***************************************************************************)
THEOREM UpWasHeard == ReadySpec => []UpHasSpoken
<1>1. ASSUME ReadyInv
      PROVE  UpHasSpoken
  <2>1. \A r \in Report, d \in Dependency : <<r, d>> \in Probe
    BY DEF Probe
  <2>2. QED
    BY <1>1, <2>1 DEF ReadyInv, ProbeOK, AnswerOK, UpHasSpoken
<1>2. QED
  BY ReadyInvAlways, <1>1, PTL

(***************************************************************************)
(* A dependency is called down only for trouble of its own probe, and none *)
(* is left out (the same code: each probe has its own timer and result).   *)
(***************************************************************************)
THEOREM DownHadTrouble == ReadySpec => []DownIsItsOwn
<1>1. ASSUME ReadyInv
      PROVE  DownIsItsOwn
  <2>1. \A r \in Report, d \in Dependency : <<r, d>> \in Probe
    BY DEF Probe
  <2>2. QED
    BY <1>1, <2>1 DEF ReadyInv, ProbeOK, AnswerOK, DownIsItsOwn
<1>2. QED
  BY ReadyInvAlways, <1>1, PTL

=============================================================================
