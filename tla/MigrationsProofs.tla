-------------------------- MODULE MigrationsProofs --------------------------
(***************************************************************************)
(* Theorems about Migrations, for any migrators, keys and monitors.         *)
(*                                                                          *)
(* The runner's part rests on the advisory lock: only its holder changes    *)
(* the database, so what it read and what it has gone past stay as they     *)
(* were (AppliedIsCurrent, GoneThrough).  The code's part rests on the      *)
(* procedure: nobody is told to pass 003 while the old code runs, in the    *)
(* digits the runner compares rightly (TextsCompare).                       *)
(***************************************************************************)
EXTENDS Migrations, TLAPS

\* The files a migrator has gone past are on record as it has them.
GoneThrough ==
    \A g \in Migrators : pc[g] = "migrating" =>
        \A v \in 1 .. next[g] - 1 : recorded[v] = files[g][v]

\* While the old code runs, whoever migrates has a target no later than 003.
StopsAtExpand ==
    oldCode => \A g \in Migrators : pc[g] # "idle" =>
        upTo[g] \in Targets \intersect {Text(v) : v \in 1 .. 3}

KeysHaveAccounts == HasAccountColumns => \A k \in keys : keyAccount[k] # None

\* Until the expand step a monitor has a key and nothing else.
BeforeExpand == ~HasAccountColumns => \A m \in Monitors : byAccount[m] = None

CreatorsExist ==
    \A m \in Monitors :
        /\ creator[m] # None => creator[m] \in keys
        /\ byKey[m] \in {None, creator[m]}
        /\ creator[m] = None => byKey[m] = None /\ byAccount[m] = None

RunnerInv == AppliedIsCurrent /\ GoneThrough /\ RecordIsTrue /\ StopsAtExpand
OwnerInv == RunningCodeWorks /\ KeysHaveAccounts /\ BeforeExpand /\ CreatorsExist /\ OwnershipSurvives
IInv == TypeOK /\ RunnerInv /\ OwnerInv

\* Written as the files are named, targets are compared as their numbers are.
LEMMA TextsCompare ==
    ASSUME NEW v \in Versions, NEW w \in Versions
    PROVE  Exceeds(Text(v), Text(w)) <=> v > w
<1>1. /\ Len(Text(w)) = 3
      /\ Text(v)[1] = 0 /\ Text(v)[2] = 0 /\ Text(v)[3] = v
      /\ Text(w)[1] = 0 /\ Text(w)[2] = 0 /\ Text(w)[3] = w
  BY DEF Text
<1> QED
  BY <1>1 DEF Exceeds, Versions

\* A fresh database, or one at version 002, with nobody migrating.
LEMMA InitEstablishes == Init => IInv
<1> SUFFICES ASSUME Init PROVE IInv
  OBVIOUS
<1> USE MigrationAssumptions DEF Init, Versions, Checksums
<1>1. TypeOK
  <2>1. schema \subseteq Versions /\ recorded \in [Versions -> Checksums \union {None}]
    OBVIOUS
  <2>2. /\ upTo \in [Migrators -> Targets \union {None}] /\ next \in [Migrators -> 1 .. 5]
        /\ pc \in [Migrators -> {"idle", "waiting", "migrating"}]
    OBVIOUS
  <2>3. /\ files \in [Migrators -> [Versions -> Checksums]]
        /\ applied \in [Migrators -> [Versions -> Checksums \union {None}]]
    OBVIOUS
  <2>4. \A g \in Migrators : pc[g] # "migrating" /\ lock # g
    OBVIOUS
  <2> QED
    BY <2>1, <2>2, <2>3, <2>4 DEF TypeOK
<1>2. RunnerInv
  BY DEF RunnerInv, AppliedIsCurrent, GoneThrough, RecordIsTrue, StopsAtExpand
<1>3. OwnerInv
  BY DEF OwnerInv, RunningCodeWorks, KeysHaveAccounts, BeforeExpand, CreatorsExist, OwnershipSurvives,
     HasKeyColumn, HasAccountColumns
<1> QED
  BY <1>1, <1>2, <1>3 DEF IInv

\* A checkout is a complete set of files.
LEMMA Checkouts == FileSets \subseteq [Versions -> Checksums]
BY DEF FileSets, Checksums

\* Ownership depends on nothing the runner remembers.
LEMMA OwnerKeeps ==
    ASSUME OwnerInv, UNCHANGED <<database, code, ownership>>
    PROVE  OwnerInv'
BY DEF OwnerInv, RunningCodeWorks, KeysHaveAccounts, BeforeExpand, CreatorsExist, OwnershipSurvives,
   HasKeyColumn, HasAccountColumns, database, code, ownership

\* A migrator that is told to start obeys the procedure.
LEMMA StartKeeps == ASSUME IInv, NEW g \in Migrators, Start(g) PROVE IInv'
<1> USE DEF IInv, Start, database, code, ownership
<1>1. OwnerInv'
  BY OwnerKeeps
<1>2. TypeOK'
  BY Checkouts, MigrationAssumptions DEF TypeOK, Versions
<1>3. RunnerInv'
  BY DEF TypeOK, RunnerInv, AppliedIsCurrent, GoneThrough, RecordIsTrue, StopsAtExpand, Versions
<1> QED
  BY <1>1, <1>2, <1>3

\* Whoever takes the lock reads the record after that.
LEMMA TakeLockKeeps == ASSUME IInv, NEW g \in Migrators, TakeLock(g) PROVE IInv'
<1> USE DEF IInv, TakeLock, database, code, ownership
<1>1. OwnerInv'
  BY OwnerKeeps
<1>2. TypeOK'
  BY MigrationAssumptions DEF TypeOK, LockFree
<1>3. RunnerInv'
  BY DEF TypeOK, RunnerInv, AppliedIsCurrent, GoneThrough, RecordIsTrue, StopsAtExpand, Versions
<1> QED
  BY <1>1, <1>2, <1>3

\* However a migrator ends, it leaves the lock and forgets what it knew.
LEMMA EndKeeps ==
    ASSUME IInv, NEW g \in Migrators, End(g), UNCHANGED <<database, code, ownership>>
    PROVE  IInv'
<1> USE DEF IInv, End
<1>1. OwnerInv'
  BY OwnerKeeps
<1>2. TypeOK'
  BY MigrationAssumptions DEF TypeOK, Unlocked, Versions, Checksums, database, code, ownership
<1>3. RunnerInv'
  BY DEF TypeOK, RunnerInv, AppliedIsCurrent, GoneThrough, RecordIsTrue, StopsAtExpand, Versions,
     database, code
<1> QED
  BY <1>1, <1>2, <1>3

\* A version is skipped when the record has it as the file on disk.
LEMMA SkipKeeps == ASSUME IInv, NEW g \in Migrators, SkipApplied(g) PROVE IInv'
<1> USE DEF IInv, SkipApplied, database, code, ownership, Known
<1>1. OwnerInv'
  BY OwnerKeeps
<1>2. TypeOK'
  BY DEF TypeOK, Versions
<1>3. /\ next[g] \in 1 .. 4 /\ next'[g] = next[g] + 1
      /\ \A h \in Migrators \ {g} : next'[h] = next[h]
  BY DEF TypeOK, Versions
<1>4. recorded[next[g]] = files[g][next[g]]
  BY <1>3 DEF Edited, RunnerInv, AppliedIsCurrent
<1>5. GoneThrough'
  BY <1>3, <1>4 DEF RunnerInv, GoneThrough
<1>6. AppliedIsCurrent'
  BY <1>3 DEF RunnerInv, AppliedIsCurrent, TypeOK
<1> QED
  BY <1>1, <1>2, <1>5, <1>6 DEF RunnerInv, RecordIsTrue, StopsAtExpand

\* What a file does to the versions, for the one migrator that may run it.
LEMMA ApplyKeepsRunner ==
    ASSUME IInv, NEW g \in Migrators, ApplyFile(g)
    PROVE  /\ RunnerInv' /\ next[g] \in 1 .. 4 /\ 1 .. next[g] - 1 \subseteq schema
           /\ oldCode => next[g] <= 3
<1> USE DEF IInv, ApplyFile, code
<1>1. next[g] \in 1 .. 4
  BY DEF PastTarget, TypeOK, Versions
<1>10. ASSUME oldCode PROVE next[g] <= 3
  <2>1. PICK v \in 1 .. 3 : upTo[g] = Text(v)
    BY <1>10 DEF RunnerInv, StopsAtExpand
  <2>2. upTo[g] # None
    BY <1>10, MigrationAssumptions DEF RunnerInv, StopsAtExpand
  <2>3. ~Exceeds(Text(next[g]), Text(v))
    BY <2>1, <2>2 DEF PastTarget
  <2> QED
    BY <1>1, <2>3, TextsCompare DEF Versions
<1>2. /\ next'[g] = next[g] + 1
      /\ \A h \in Migrators \ {g} : next'[h] = next[h]
      /\ \A h \in Migrators \ {g} : pc[h] # "migrating"
  BY DEF TypeOK
<1>3. /\ recorded'[next[g]] = files[g][next[g]] /\ files[g][next[g]] # None
      /\ \A v \in Versions \ {next[g]} : recorded'[v] = recorded[v]
  BY <1>1, MigrationAssumptions DEF Record, TypeOK, Versions
<1>4. schema' = schema \union {next[g]}
  BY DEF Run
<1>5. \A v \in 1 .. next[g] - 1 : v \in schema
  BY <1>1, MigrationAssumptions DEF RunnerInv, GoneThrough, RecordIsTrue, TypeOK, Versions
<1>6. GoneThrough'
  BY <1>1, <1>2, <1>3 DEF RunnerInv, GoneThrough, Versions
<1>7. AppliedIsCurrent'
  BY <1>1, <1>2, <1>3 DEF RunnerInv, AppliedIsCurrent, Versions
<1>8. RecordIsTrue'
  BY <1>1, <1>3, <1>4, <1>5 DEF RunnerInv, RecordIsTrue, Versions, TypeOK
<1>9. StopsAtExpand'
  BY DEF RunnerInv, StopsAtExpand
<1> QED
  BY <1>1, <1>5, <1>6, <1>7, <1>8, <1>9, <1>10 DEF RunnerInv

\* What a file does to ownership.
LEMMA ApplyKeepsOwners ==
    ASSUME IInv, NEW g \in Migrators, ApplyFile(g)
    PROVE  OwnerInv'
<1> DEFINE v == next[g]
<1> USE DEF IInv, OwnerInv
<1>1. /\ v \in 1 .. 4 /\ v \notin schema /\ 1 .. v - 1 \subseteq schema
      /\ oldCode => v <= 3
      /\ pc[g] = "migrating"
      /\ schema' = schema \union {v} /\ UNCHANGED <<code, keys, creator>> /\ Run(v)
  BY ApplyKeepsRunner DEF ApplyFile, Run, TypeOK, Versions
<1> HIDE DEF v
<1>2. RunningCodeWorks'
  <2>1. oldCode => v # 4 /\ v # 1
    BY <1>1 DEF RunningCodeWorks, HasKeyColumn
  <2>2. newCode => v # 3
    BY <1>1 DEF RunningCodeWorks, HasAccountColumns
  <2> QED
    BY <1>1, <2>1, <2>2 DEF RunningCodeWorks, HasKeyColumn, HasAccountColumns, Run, Contract, code
<1>3. CASE v \notin {3, 4}
  BY <1>1, <1>2, <1>3 DEF Run, KeysHaveAccounts, BeforeExpand, CreatorsExist, OwnershipSurvives, HasAccountColumns
<1>4. CASE v = 3
  <2>1. Expand /\ ~HasAccountColumns
    BY <1>1, <1>4 DEF Run, HasAccountColumns
  <2>2. \A k \in keys : keyAccount'[k] = k /\ k # None
    BY <2>1, MigrationAssumptions DEF Expand, TypeOK
  <2>3. \A m \in Monitors : byAccount'[m] = byKey[m] /\ byKey'[m] = byKey[m]
    BY <2>1 DEF Expand
  <2>4. KeysHaveAccounts' /\ BeforeExpand'
    BY <1>1, <1>4, <2>2 DEF KeysHaveAccounts, BeforeExpand, HasAccountColumns
  <2>5. CreatorsExist'
    BY <1>1, <2>3 DEF CreatorsExist
  <2>6. OwnershipSurvives'
    BY <1>1, <2>1, <2>2, <2>3 DEF OwnershipSurvives, CreatorsExist, BeforeExpand
  <2> QED
    BY <1>2, <2>4, <2>5, <2>6
<1>5. CASE v = 4
  <2>1. Contract /\ HasAccountColumns
    BY <1>1, <1>5 DEF Run, HasAccountColumns
  <2>2. KeysHaveAccounts' /\ BeforeExpand'
    BY <1>1, <2>1 DEF KeysHaveAccounts, BeforeExpand, Contract, HasAccountColumns
  <2>3. \A m \in Monitors : byAccount'[m] = CaughtUp(m) /\ byKey'[m] = None
    BY <2>1 DEF Contract
  <2>4. CreatorsExist'
    BY <1>1, <2>3 DEF CreatorsExist, CaughtUp
  <2>5. OwnershipSurvives'
    <3> SUFFICES ASSUME NEW m \in Monitors, creator[m] # None
                 PROVE  byAccount'[m] # None /\ byAccount'[m] = keyAccount'[creator[m]]
      BY <1>1 DEF OwnershipSurvives
    <3>1. keyAccount' = keyAccount /\ keyAccount[creator[m]] # None
      BY <2>1 DEF Contract, KeysHaveAccounts, CreatorsExist
    <3>2. CASE byAccount[m] = None
      BY <2>3, <3>1, <3>2 DEF CaughtUp, OwnershipSurvives, CreatorsExist
    <3>3. CASE byAccount[m] # None
      BY <2>3, <3>1, <3>3 DEF CaughtUp, OwnershipSurvives
    <3> QED BY <3>2, <3>3
  <2> QED
    BY <1>2, <2>2, <2>4, <2>5
<1> QED
  BY <1>3, <1>4, <1>5

\* A file and its record are one transaction.
LEMMA ApplyKeeps == ASSUME IInv, NEW g \in Migrators, ApplyFile(g) PROVE IInv'
<1>1. RunnerInv' /\ OwnerInv' /\ next[g] \in 1 .. 4
  BY ApplyKeepsRunner, ApplyKeepsOwners
<1>2. /\ schema' = schema \union {next[g]} /\ recorded' = [recorded EXCEPT ![next[g]] = files[g][next[g]]]
      /\ next' = [next EXCEPT ![g] = next[g] + 1]
      /\ UNCHANGED <<lock, pc, upTo, files, applied, code, keys, creator>>
  BY DEF ApplyFile, Run, Record, IInv, TypeOK
<1>3. schema' \subseteq Versions /\ recorded' \in [Versions -> Checksums \union {None}] /\ next' \in [Migrators -> 1 .. 5]
  <2>1. next[g] \in Versions /\ files[g][next[g]] \in Checksums
    BY <1>1 DEF IInv, TypeOK, Versions
  <2>2. recorded' \in [Versions -> Checksums \union {None}]
    BY <1>2, <2>1 DEF IInv, TypeOK
  <2>3. next' \in [Migrators -> 1 .. 5]
    BY <1>1, <1>2 DEF IInv, TypeOK
  <2> QED
    BY <1>2, <2>1, <2>2, <2>3 DEF IInv, TypeOK
<1>4. /\ keyAccount' \in [Keys -> Keys \union {None}]
      /\ byKey' \in [Monitors -> Keys \union {None}]
      /\ byAccount' \in [Monitors -> Keys \union {None}]
  <2>1. Expand \/ Contract \/ UNCHANGED <<keyAccount, byKey, byAccount>>
    BY DEF ApplyFile, Run
  <2>2. CASE Expand
    BY <2>2 DEF Expand, IInv, TypeOK
  <2>3. CASE Contract
    BY <2>3 DEF Contract, CaughtUp, IInv, TypeOK
  <2> QED
    BY <2>1, <2>2, <2>3 DEF IInv, TypeOK
<1>5. \A h \in Migrators : pc'[h] = "migrating" <=> lock' = h
  BY <1>2 DEF IInv, TypeOK
<1>6. /\ lock' \in Migrators \union {None} /\ pc' \in [Migrators -> {"idle", "waiting", "migrating"}]
      /\ upTo' \in [Migrators -> Targets \union {None}] /\ files' \in [Migrators -> [Versions -> Checksums]]
      /\ applied' \in [Migrators -> [Versions -> Checksums \union {None}]]
      /\ oldCode' \in BOOLEAN /\ newCode' \in BOOLEAN
      /\ failed' \subseteq {"OldCreateApiKey", "OldCreateMonitor"}
      /\ keys' \subseteq Keys /\ creator' \in [Monitors -> Keys \union {None}]
  BY <1>2 DEF IInv, TypeOK, code
<1>7. TypeOK'
  BY <1>3, <1>4, <1>5, <1>6 DEF TypeOK
<1> QED
  BY <1>1, <1>7 DEF IInv

\* The runner does not notice the code that runs.
LEMMA RunnerKeeps ==
    ASSUME RunnerInv, UNCHANGED <<database, runner>>, oldCode' => oldCode
    PROVE  RunnerInv'
BY DEF RunnerInv, AppliedIsCurrent, GoneThrough, RecordIsTrue, StopsAtExpand, database, runner

\* New code is deployed once the columns it needs are there.
LEMMA DeployKeeps == ASSUME IInv, DeployNewCode \/ StopOldCode PROVE IInv'
<1> USE DEF IInv, DeployNewCode, StopOldCode, database, runner, ownership
<1>1. RunnerInv'
  BY RunnerKeeps
<1>2. OwnerInv'
  <2>1. RunningCodeWorks'
    <3>1. failed' = failed /\ (oldCode' => oldCode) /\ (newCode' => HasAccountColumns)
      BY DEF OwnerInv, RunningCodeWorks
    <3>2. HasAccountColumns' = HasAccountColumns /\ HasKeyColumn' = HasKeyColumn
      BY DEF HasAccountColumns, HasKeyColumn
    <3> QED
      BY <3>1, <3>2 DEF OwnerInv, RunningCodeWorks, KeysHaveAccounts
  <2>2. KeysHaveAccounts' /\ BeforeExpand' /\ CreatorsExist' /\ OwnershipSurvives'
    BY DEF OwnerInv, KeysHaveAccounts, BeforeExpand, CreatorsExist, OwnershipSurvives, HasAccountColumns
  <2> QED
    BY <2>1, <2>2 DEF OwnerInv
<1>3. TypeOK'
  BY DEF TypeOK
<1> QED
  BY <1>1, <1>2, <1>3

\* A key is made, by the old code without an account, by the new one with one;
\* once keys need an account, the old code's statement fails and makes none.
LEMMA CreateKeyKeeps ==
    ASSUME IInv, NEW k \in Keys, OldCreateApiKey(k) \/ createApiKey(k)
    PROVE  IInv'
<1> USE DEF IInv, OwnerInv
<1>1. /\ UNCHANGED <<byKey, byAccount, creator, database, runner, oldCode, newCode>>
      /\ keys' = keys \/ keys' = keys \union {k}
  BY DEF OldCreateApiKey, createApiKey, code
<1>2. RunnerInv'
  BY <1>1, RunnerKeeps
<1>3. /\ keyAccount' \in [Keys -> Keys \union {None}]
      /\ \A j \in Keys \ {k} : keyAccount'[j] = keyAccount[j]
  BY DEF OldCreateApiKey, createApiKey, TypeOK
<1>4. /\ k \in keys => keyAccount'[k] = keyAccount[k]
      /\ HasAccountColumns /\ k \in keys' => keyAccount'[k] # None
  BY MigrationAssumptions DEF OldCreateApiKey, createApiKey, TypeOK, RunningCodeWorks, KeysHaveAccounts
<1>5. \/ failed' = failed
      \/ failed' \subseteq {"OldCreateApiKey"} /\ HasAccountColumns
  BY DEF OldCreateApiKey, createApiKey, Tried, code, RunningCodeWorks
<1>6. RunningCodeWorks'
  BY <1>1, <1>3, <1>4, <1>5 DEF RunningCodeWorks, HasKeyColumn, HasAccountColumns, database, TypeOK
<1>7. OwnerInv'
  BY <1>1, <1>3, <1>4, <1>6
     DEF KeysHaveAccounts, BeforeExpand, CreatorsExist, OwnershipSurvives, HasAccountColumns, database, TypeOK
<1>8. TypeOK'
  BY <1>1, <1>3, <1>6 DEF RunningCodeWorks, TypeOK, database, runner
<1> QED
  BY <1>2, <1>7, <1>8

\* A monitor is created, by the old code for a key, by the new one for its account.
LEMMA CreateMonitorKeeps ==
    ASSUME IInv, NEW m \in Monitors, NEW k \in Keys, OldCreateMonitor(m, k) \/ createMonitor(m, k)
    PROVE  IInv'
<1> USE DEF IInv, OwnerInv
<1>1. /\ UNCHANGED <<keys, keyAccount, database, runner, code>>
      /\ k \in keys /\ creator[m] = None
      /\ creator' = [creator EXCEPT ![m] = k]
      /\ \/ byKey' = [byKey EXCEPT ![m] = k] /\ byAccount' = byAccount
         \/ newCode /\ byAccount' = [byAccount EXCEPT ![m] = keyAccount[k]] /\ byKey' = byKey
  BY DEF OldCreateMonitor, createMonitor, Tried, RunningCodeWorks, code
<1>2. RunnerInv'
  BY <1>1, RunnerKeeps DEF code
<1>3. byKey[m] = None /\ byAccount[m] = None /\ k # None
  BY <1>1, MigrationAssumptions DEF CreatorsExist
<1>4. \/ byKey' = [byKey EXCEPT ![m] = k] /\ byAccount' = byAccount
      \/ /\ byAccount' = [byAccount EXCEPT ![m] = keyAccount[k]] /\ byKey' = byKey
         /\ keyAccount[k] # None /\ HasAccountColumns
  BY <1>1 DEF RunningCodeWorks
<1>5. TypeOK'
  BY <1>1, <1>4 DEF TypeOK, database, runner, code
<1>6. RunningCodeWorks' /\ KeysHaveAccounts'
  BY <1>1 DEF RunningCodeWorks, KeysHaveAccounts, HasKeyColumn, HasAccountColumns, database, code
<1>7. BeforeExpand'
  BY <1>1, <1>4 DEF BeforeExpand, HasAccountColumns, database, TypeOK
<1>8. CreatorsExist' /\ OwnershipSurvives'
  BY <1>1, <1>3, <1>4 DEF CreatorsExist, OwnershipSurvives, TypeOK
<1> QED
  BY <1>2, <1>5, <1>6, <1>7, <1>8

\* Every step keeps the invariant.
LEMMA StepKeeps == IInv /\ [Next]_vars => IInv'
<1> SUFFICES ASSUME IInv, [Next]_vars PROVE IInv'
  OBVIOUS
<1>1. ASSUME NEW g \in Migrators, RefuseEdited(g) \/ Finish(g) \/ Abort(g) PROVE IInv'
  BY <1>1, EndKeeps DEF RefuseEdited, Finish, Abort
<1>2. CASE UNCHANGED vars
  BY <1>2, OwnerKeeps, RunnerKeeps DEF vars, database, runner, code, ownership, IInv, TypeOK
<1>3. CASE Next
  BY <1>1, <1>3, StartKeeps, TakeLockKeeps, SkipKeeps, ApplyKeeps, DeployKeeps, CreateKeyKeeps, CreateMonitorKeeps
     DEF Next, MigratorStep
<1> QED
  BY <1>2, <1>3

\* The invariant holds at all times.
LEMMA InvariantHolds == Spec => []IInv
BY InitEstablishes, StepKeeps, PTL DEF Spec

\* Whoever is migrating holds the advisory lock, and nobody else does.
THEOREM TypeCorrect == Spec => []TypeOK
<1>1. IInv => TypeOK
  BY DEF IInv
<1> QED
  BY InvariantHolds, <1>1, PTL

\* However many migrators start, what one read under the lock stays true.
THEOREM MigratorsTakeTurns == Spec => []AppliedIsCurrent
<1>1. IInv => AppliedIsCurrent
  BY DEF IInv, RunnerInv
<1> QED
  BY InvariantHolds, <1>1, PTL

\* Failures and crashes at any point leave a true record without a gap.
THEOREM RecordTrue == Spec => []RecordIsTrue
<1>1. IInv => RecordIsTrue
  BY DEF IInv, RunnerInv
<1> QED
  BY InvariantHolds, <1>1, PTL

\* No migrator ever goes on from a version that it has in another form.
THEOREM EditsAreRefused == Spec => NothingOnTopOfAnEdit
<1>1. IInv /\ [Next]_vars =>
         [\A g \in Migrators : ApplyFile(g) => \A v \in 1 .. next[g] - 1 : recorded[v] = files[g][v]]_vars
  BY DEF IInv, RunnerInv, GoneThrough, ApplyFile
<1> QED
  BY InvariantHolds, <1>1, PTL DEF Spec, NothingOnTopOfAnEdit

\* Along expand, deploy, contract, wherever migrators fail or die, the one thing
\* that stops working is the old code's creation of keys, from 003 on.
THEOREM CodeAlwaysWorks == Spec => []RunningCodeWorks
<1>1. IInv => RunningCodeWorks
  BY DEF IInv, OwnerInv
<1> QED
  BY InvariantHolds, <1>1, PTL

\* No monitor is lost or changes hands on the way from keys to accounts.
THEOREM OwnershipAlwaysSurvives == Spec => []OwnershipSurvives
<1>1. IInv => OwnershipSurvives
  BY DEF IInv, OwnerInv
<1> QED
  BY InvariantHolds, <1>1, PTL
=============================================================================
