---------------------------- MODULE Migrations ------------------------------
(***************************************************************************)
(* The migration runner (db/migrate.ts) and the replacement of ownership by *)
(* key with ownership by account (migrations 001, 003 and 004), while old   *)
(* and new versions of the code create keys and monitors.                   *)
(*                                                                          *)
(* The operator does what the migrations say: expand (--to 003) while the   *)
(* old code runs, deploy the new code, contract (004) once the old code is  *)
(* gone.  Any number of migrators may be started meanwhile; each may be     *)
(* refused, meet a database error or die at any point.                      *)
(***************************************************************************)
EXTENDS Naturals, Sequences

CONSTANTS Migrators,  \* processes that run migrations
          Keys,       \* api_keys ids; the account made for a key has its name
          Monitors,   \* monitor ids
          Targets,    \* what may be written after --to, digit by digit
          None

Versions == 1 .. 4
Checksums == {"original", "edited"}

\* The number a file's name starts with.
Text(version) == <<0, 0, version>>

ASSUME MigrationAssumptions ==
    /\ None \notin Migrators \union Keys \union Checksums
    /\ None \notin Targets /\ Targets \subseteq UNION {[1 .. n -> 0 .. 9] : n \in 1 .. 3}

VARIABLES schema,    \* the versions whose SQL has been committed
          recorded,  \* schema_migrations: version -> checksum, or None
          lock,      \* the migrator that holds the advisory lock, or None
          pc,        \* idle, waiting for the lock, or migrating
          upTo,      \* the target a migrator was given with --to, or None
          files,     \* the checksums of its files
          applied,   \* what it read from schema_migrations
          next,      \* the file it looks at next
          oldCode,   \* code that owns monitors by key is running
          newCode,   \* code that owns monitors by account is running
          failed,    \* history: what the old code tried and the schema did not allow
          keys,      \* api_keys
          keyAccount,  \* api_keys.account_id
          byKey,     \* monitors.api_key_id
          byAccount, \* monitors.account_id
          creator    \* history: the key that created each monitor, or None

database == <<schema, recorded>>
runner == <<lock, pc, upTo, files, applied, next>>
code == <<oldCode, newCode, failed>>
ownership == <<keys, keyAccount, byKey, byAccount, creator>>
vars == <<database, runner, code, ownership>>

\* Of a migrator's files, at most one was edited after its release.
FileSets == {[v \in Versions |-> IF v = e THEN "edited" ELSE "original"] : e \in 0 .. 4}

HasKeyColumn == 1 \in schema /\ 4 \notin schema
HasAccountColumns == 3 \in schema

-----------------------------------------------------------------------------
\* A fresh database, or one the old code uses at version 002.
Init ==
    /\ oldCode \in BOOLEAN
    /\ newCode = FALSE
    /\ failed = {}
    /\ schema = IF oldCode THEN {1, 2} ELSE {}
    /\ recorded = [v \in Versions |-> IF v \in schema THEN "original" ELSE None]
    /\ lock = None
    /\ pc = [g \in Migrators |-> "idle"]
    /\ upTo = [g \in Migrators |-> None]
    /\ files = [g \in Migrators |-> [v \in Versions |-> "original"]]
    /\ applied = [g \in Migrators |-> [v \in Versions |-> None]]
    /\ next = [g \in Migrators |-> 1]
    /\ keys = {}
    /\ keyAccount = [k \in Keys |-> None]
    /\ byKey = [m \in Monitors |-> None]
    /\ byAccount = [m \in Monitors |-> None]
    /\ creator = [m \in Monitors |-> None]

-----------------------------------------------------------------------------
(***************************************************************************)
(* The runner.                                                              *)
(***************************************************************************)

\* npm run db:migrate.  While the old code runs, the operator stops at the expand
\* step and writes the target as the files are named.
Start(g) ==
    /\ pc[g] = "idle"
    /\ pc' = [pc EXCEPT ![g] = "waiting"]
    /\ \E target \in IF oldCode THEN Targets \intersect {Text(v) : v \in 1 .. 3} ELSE Targets \union {None} :
          upTo' = [upTo EXCEPT ![g] = target]
    /\ \E checkout \in FileSets : files' = [files EXCEPT ![g] = checkout]
    /\ UNCHANGED <<lock, applied, next, database, code, ownership>>

LockFree_Unlocked == TRUE
LockFree == lock = None

\* pg_advisory_lock, then the versions on record.
TakeLock(g) ==
    /\ pc[g] = "waiting"
    /\ LockFree
    /\ lock' = g
    /\ applied' = [applied EXCEPT ![g] = recorded]
    /\ next' = [next EXCEPT ![g] = 1]
    /\ pc' = [pc EXCEPT ![g] = "migrating"]
    /\ UNCHANGED <<upTo, files, database, code, ownership>>

Unlocked_Forgotten(g) == lock
Unlocked(g) == IF lock = g THEN None ELSE lock

\* finally: pg_advisory_unlock.  What a migrator knew is forgotten with it.
End(g) ==
    /\ pc' = [pc EXCEPT ![g] = "idle"]
    /\ lock' = Unlocked(g)
    /\ upTo' = [upTo EXCEPT ![g] = None]
    /\ files' = [files EXCEPT ![g] = [v \in Versions |-> "original"]]
    /\ applied' = [applied EXCEPT ![g] = [v \in Versions |-> None]]
    /\ next' = [next EXCEPT ![g] = 1]

Known(g) == next[g] \in Versions /\ applied[g][next[g]] # None

Edited_NotCompared(g) == FALSE
Edited(g) == applied[g][next[g]] # files[g][next[g]]

\* version.slice(0, upTo.length) > upTo compares strings: the first difference
\* decides, so "--to 3" is no target of "004".
Exceeds(version, target) ==
    \E i \in 1 .. Len(target) :
        /\ version[i] > target[i]
        /\ \A j \in 1 .. i - 1 : version[j] = target[j]

PastTarget_Ignored(g) == next[g] \notin Versions
PastTarget(g) == next[g] \notin Versions \/ (upTo[g] # None /\ Exceeds(Text(next[g]), upTo[g]))

SkipApplied(g) ==
    /\ pc[g] = "migrating"
    /\ Known(g) /\ ~Edited(g)
    /\ next' = [next EXCEPT ![g] = @ + 1]
    /\ UNCHANGED <<lock, pc, upTo, files, applied, database, code, ownership>>

RefuseEdited(g) ==
    /\ pc[g] = "migrating"
    /\ Known(g) /\ Edited(g)
    /\ End(g)
    /\ UNCHANGED <<database, code, ownership>>

Finish(g) ==
    /\ pc[g] = "migrating"
    /\ ~Known(g) /\ PastTarget(g)
    /\ End(g)
    /\ UNCHANGED <<database, code, ownership>>

\* 003: every key gets an account of its own, and a monitor its key's account.
Expand ==
    /\ keyAccount' = [k \in Keys |-> IF k \in keys THEN k ELSE None]
    /\ byAccount' = [m \in Monitors |-> byKey[m]]
    /\ UNCHANGED byKey

CaughtUp_Skipped(m) == byAccount[m]
CaughtUp(m) ==
    IF byKey[m] # None /\ byAccount[m] = None THEN keyAccount[byKey[m]] ELSE byAccount[m]

\* 004: the monitors the old code created meanwhile, then the column goes.
Contract ==
    /\ byAccount' = [m \in Monitors |-> CaughtUp(m)]
    /\ byKey' = [m \in Monitors |-> None]
    /\ UNCHANGED keyAccount

Run(version) ==
    /\ schema' = schema \union {version}
    /\ CASE version = 3 -> Expand
         [] version = 4 -> Contract
         [] OTHER -> UNCHANGED <<keyAccount, byKey, byAccount>>

Record_OutsideTransaction(g) ==
    recorded' \in {recorded, [recorded EXCEPT ![next[g]] = files[g][next[g]]]}
Record(g) == recorded' = [recorded EXCEPT ![next[g]] = files[g][next[g]]]

\* One transaction.  The SQL of a version that is there already fails.
ApplyFile(g) ==
    /\ pc[g] = "migrating"
    /\ ~Known(g) /\ ~PastTarget(g)
    /\ next[g] \notin schema
    /\ Run(next[g])
    /\ Record(g)
    /\ next' = [next EXCEPT ![g] = @ + 1]
    /\ UNCHANGED <<lock, pc, upTo, files, applied, code, keys, creator>>

\* A file fails and is rolled back, or the migrator dies; so does its session.
Abort(g) ==
    /\ pc[g] # "idle"
    /\ End(g)
    /\ UNCHANGED <<database, code, ownership>>

-----------------------------------------------------------------------------
(***************************************************************************)
(* The code that runs meanwhile.                                            *)
(***************************************************************************)
DeployNewCode ==
    /\ HasAccountColumns
    /\ newCode' = TRUE
    /\ UNCHANGED <<oldCode, failed, database, runner, ownership>>

StopOldCode ==
    /\ newCode
    /\ oldCode' = FALSE
    /\ UNCHANGED <<newCode, failed, database, runner, ownership>>

\* A statement of the old code takes effect, or fails for the schema's sake.
Tried(operation, allowed) == failed' = failed \union IF allowed THEN {} ELSE {operation}

\* The old code names no account, which 003 makes mandatory for keys: 23502.
OldCreateApiKey(k) ==
    /\ oldCode /\ k \notin keys
    /\ Tried("OldCreateApiKey", ~HasAccountColumns)
    /\ keys' = IF HasAccountColumns THEN keys ELSE keys \union {k}
    /\ UNCHANGED <<keyAccount, byKey, byAccount, creator, database, runner, oldCode, newCode>>

OldCreateMonitor(m, k) ==
    /\ oldCode
    /\ k \in keys /\ creator[m] = None
    /\ Tried("OldCreateMonitor", HasKeyColumn)
    /\ byKey' = [byKey EXCEPT ![m] = IF HasKeyColumn THEN k ELSE @]
    /\ creator' = [creator EXCEPT ![m] = IF HasKeyColumn THEN k ELSE @]
    /\ UNCHANGED <<keys, keyAccount, byAccount, database, runner, oldCode, newCode>>

\* A key of a new account, or one more key of an account that has keys.
createApiKey(k) ==
    /\ newCode /\ k \notin keys
    /\ keys' = keys \union {k}
    /\ \E account \in {k} \union {keyAccount[j] : j \in keys} : keyAccount' = [keyAccount EXCEPT ![k] = account]
    /\ UNCHANGED <<byKey, byAccount, creator, database, runner, code>>

createMonitor(m, k) ==
    /\ newCode
    /\ k \in keys /\ creator[m] = None
    /\ byAccount' = [byAccount EXCEPT ![m] = keyAccount[k]]
    /\ creator' = [creator EXCEPT ![m] = k]
    /\ UNCHANGED <<keys, keyAccount, byKey, database, runner, code>>

-----------------------------------------------------------------------------
MigratorStep(g) ==
    \/ SkipApplied(g)
    \/ RefuseEdited(g)
    \/ Finish(g)
    \/ ApplyFile(g)

Next ==
    \/ DeployNewCode
    \/ StopOldCode
    \/ \E g \in Migrators : Start(g) \/ TakeLock(g) \/ MigratorStep(g) \/ Abort(g)
    \/ \E k \in Keys :
          \/ OldCreateApiKey(k)
          \/ createApiKey(k)
          \/ \E m \in Monitors : OldCreateMonitor(m, k) \/ createMonitor(m, k)

Spec == Init /\ [][Next]_vars

\* Postgres runs statements and grants the advisory lock in the order it was
\* asked for.  No migrator has to fail, or to be started.
Fairness == \A g \in Migrators : WF_vars(MigratorStep(g)) /\ SF_vars(TakeLock(g))
FairSpec == Spec /\ Fairness

-----------------------------------------------------------------------------
(***************************************************************************)
(* Properties                                                               *)
(***************************************************************************)

\* The types, and: the advisory lock is held by whoever is migrating, so nobody
\* keeps it after an end of any kind.
TypeOK ==
    /\ schema \subseteq Versions
    /\ recorded \in [Versions -> Checksums \union {None}]
    /\ lock \in Migrators \union {None}
    /\ pc \in [Migrators -> {"idle", "waiting", "migrating"}]
    /\ upTo \in [Migrators -> Targets \union {None}]
    /\ files \in [Migrators -> [Versions -> Checksums]]
    /\ applied \in [Migrators -> [Versions -> Checksums \union {None}]]
    /\ next \in [Migrators -> 1 .. 5]
    /\ oldCode \in BOOLEAN /\ newCode \in BOOLEAN
    /\ failed \subseteq {"OldCreateApiKey", "OldCreateMonitor"}
    /\ keys \subseteq Keys
    /\ keyAccount \in [Keys -> Keys \union {None}]
    /\ byKey \in [Monitors -> Keys \union {None}]
    /\ byAccount \in [Monitors -> Keys \union {None}]
    /\ creator \in [Monitors -> Keys \union {None}]
    /\ \A g \in Migrators : pc[g] = "migrating" <=> lock = g

\* Migrators take turns instead of racing: what a migrator read is still true
\* of every file it has yet to look at, so it never runs one that another
\* migrator has run meanwhile.
AppliedIsCurrent ==
    \A g \in Migrators : pc[g] = "migrating" =>
        \A v \in next[g] .. 4 : applied[g][v] = recorded[v]

\* Whatever failed or died, the record tells the truth: the versions on record
\* are those whose SQL took effect, and they are the first ones, with no gap.
RecordIsTrue ==
    /\ \A v \in Versions : recorded[v] # None <=> v \in schema
    /\ \A v \in schema : 1 .. v \subseteq schema

\* Editing an applied migration is refused: a file is applied only on top of
\* earlier versions that were all applied from what the migrator has on disk.
NothingOnTopOfAnEdit ==
    [][\A g \in Migrators : ApplyFile(g) => \A v \in 1 .. next[g] - 1 : recorded[v] = files[g][v]]_vars

\* Expand, deploy, contract leaves the running code at work, with one exception.
\* 003:4-5 says that it only adds things, so the code still running keeps
\* working; but its SET NOT NULL makes the old code's createApiKey fail from then
\* on.  Nothing else of the old code ever does: it keeps the column it writes
\* and reads, and the new code has the columns and an account for every key.
RunningCodeWorks ==
    /\ failed \subseteq {"OldCreateApiKey"}
    /\ failed # {} => HasAccountColumns
    /\ oldCode => HasKeyColumn
    /\ newCode => HasAccountColumns /\ \A k \in keys : keyAccount[k] # None

\* Nobody loses a monitor: at every moment it belongs to the key that created
\* it or to an account, and never to another account than that key's.
OwnershipSurvives ==
    \A m \in Monitors : creator[m] # None =>
        /\ byKey[m] = creator[m] \/ byAccount[m] # None
        /\ byAccount[m] \in {None, keyAccount[creator[m]]}

\* A migrator that was started ends, however many others it has to wait for.
MigratorsFinish == \A g \in Migrators : pc[g] # "idle" ~> pc[g] = "idle"
=============================================================================
