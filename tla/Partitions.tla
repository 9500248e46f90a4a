---------------------------- MODULE Partitions -----------------------------
(***************************************************************************)
(* The daily partitions of the checks table (migration 002) and the         *)
(* maintenance that creates them ahead of time and drops them when they     *)
(* age out (maintenance/partitions.ts), run by every worker at its start    *)
(* and once a night (worker.ts, queue/maintenance.ts), while checks are     *)
(* inserted and days go by.                                                 *)
(*                                                                          *)
(* Days are counted from today: 0 is today, 1 tomorrow, and Oldest stands   *)
(* for every day too old to be told apart by retention.                     *)
(***************************************************************************)
EXTENDS Integers

CONSTANTS Workers,  \* maintenance runs that may be under way, over all workers
          Ahead,    \* daysAhead
          Retain,   \* retentionDays
          None,
          MaxDeaths \* bounds the runs a crash cuts short

ASSUME PartitionAssumptions ==
    /\ Ahead \in Nat \ {0}
    /\ Retain \in Nat \ {0}
    /\ None \notin Workers
    /\ MaxDeaths \in Nat

VARIABLES parts,     \* the days that have a partition
          stray,     \* the days that have rows in checks_default
          recorded,  \* history: the days whose partition was given rows
          cronDue,   \* tonight's maintenance job has not been taken yet
          holder,    \* the worker whose session holds the advisory lock, or None
          pc,        \* idle, creating or dropping, for each worker's run
          day,       \* the next day a run creates
          today,     \* the day a run takes for today
          existing,  \* the partitions a run found, less those it dropped
          deaths,
          age        \* history: days since the "today" of the last complete run

runVars == <<holder, pc, day, today, existing>>
vars == <<parts, stray, recorded, cronDue, runVars, deaths, age>>

Oldest == -(Retain + 2)
Days == Oldest .. Ahead
Older(d) == IF d = Oldest THEN Oldest ELSE d - 1
DayLater(days) == {Older(d) : d \in days}

LastCreated_OnePast(w) == today[w] + Ahead + 1
LastCreated_ExcludesLast(w) == today[w] + Ahead - 1
LastCreated(w) == today[w] + Ahead      \* day <= daysAhead

Aged_OffByOne(w) == {d \in existing[w] : d <= today[w] - Retain}
Aged(w) == {d \in existing[w] : d < today[w] - Retain}

LockFree_Ignored(w) == TRUE
LockFree(w) == holder = None            \* pg_try_advisory_lock

-----------------------------------------------------------------------------
\* Migration 002 has just run.
Init ==
    /\ parts = 0 .. Ahead
    /\ stray = {}
    /\ recorded = {}
    /\ cronDue = FALSE
    /\ holder = None
    /\ pc = [w \in Workers |-> "idle"]
    /\ day = [w \in Workers |-> 0]
    /\ today = [w \in Workers |-> 0]
    /\ existing = [w \in Workers |-> {}]
    /\ deaths = 0
    /\ age = 0

\* Midnight.  A run crosses it at most once (a bound: runs are short).
NewDay ==
    /\ \A w \in Workers : pc[w] # "idle" => today[w] = 0
    /\ parts' = DayLater(parts)
    /\ stray' = DayLater(stray)
    /\ recorded' = DayLater(recorded)
    /\ cronDue' = TRUE
    /\ day' = [w \in Workers |-> IF pc[w] = "idle" THEN 0 ELSE day[w] - 1]
    /\ today' = [w \in Workers |-> IF pc[w] = "idle" THEN 0 ELSE -1]
    /\ existing' = [w \in Workers |-> DayLater(existing[w])]
    /\ age' = IF age > Ahead THEN age ELSE age + 1
    /\ UNCHANGED <<holder, pc, deaths>>

\* recordCheck's INSERT: checked_at is when its transaction began, which may
\* be before midnight.  A row with no partition goes to checks_default.
InsertCheck ==
    /\ \E d \in {0, -1} :
          \/ d \in parts /\ recorded' = recorded \union {d} /\ UNCHANGED stray
          \/ d \notin parts /\ stray' = stray \union {d} /\ UNCHANGED recorded
    /\ UNCHANGED <<parts, cronDue, runVars, deaths, age>>

Begin(w) ==
    /\ pc[w] = "idle"
    /\ LockFree(w)
    /\ holder' = w
    /\ pc' = [pc EXCEPT ![w] = "creating"]
    /\ day' = [day EXCEPT ![w] = 0]
    /\ today' = [today EXCEPT ![w] = 0]
    /\ existing' = [existing EXCEPT ![w] = parts]

End(w) ==
    /\ holder' = None
    /\ pc' = [pc EXCEPT ![w] = "idle"]
    /\ day' = [day EXCEPT ![w] = 0]
    /\ today' = [today EXCEPT ![w] = 0]
    /\ existing' = [existing EXCEPT ![w] = {}]

\* A worker starts: deploy, or restart after any downtime.
StartupRun(w) ==
    /\ Begin(w)
    /\ UNCHANGED <<parts, stray, recorded, cronDue, deaths, age>>

NightlyRun(w) ==
    /\ cronDue
    /\ cronDue' = FALSE
    /\ Begin(w)
    /\ UNCHANGED <<parts, stray, recorded, deaths, age>>

\* The lock is taken: { skipped: true }.
NightlySkip(w) ==
    /\ cronDue
    /\ pc[w] = "idle"
    /\ ~LockFree(w)
    /\ cronDue' = FALSE
    /\ UNCHANGED <<parts, stray, recorded, runVars, deaths, age>>

SkipExisting(w) ==
    /\ pc[w] = "creating" /\ day[w] <= LastCreated(w)
    /\ day[w] \in existing[w]
    /\ day' = [day EXCEPT ![w] = @ + 1]
    /\ UNCHANGED <<parts, stray, recorded, cronDue, holder, pc, today, existing, deaths, age>>

CreatePartition(w) ==
    /\ pc[w] = "creating" /\ day[w] <= LastCreated(w)
    /\ day[w] \notin existing[w] \union parts \union stray
    /\ parts' = parts \union {day[w]}
    /\ day' = [day EXCEPT ![w] = @ + 1]
    /\ UNCHANGED <<stray, recorded, cronDue, holder, pc, today, existing, deaths, age>>

\* CREATE TABLE ... PARTITION OF fails if the table exists, or if the default
\* partition holds rows that belong in the new one; the error ends the run.
CreateFails(w) ==
    /\ pc[w] = "creating" /\ day[w] <= LastCreated(w)
    /\ day[w] \notin existing[w]
    /\ day[w] \in parts \union stray
    /\ End(w)
    /\ UNCHANGED <<parts, stray, recorded, cronDue, deaths, age>>

CreatedAll(w) ==
    /\ pc[w] = "creating" /\ day[w] > LastCreated(w)
    /\ pc' = [pc EXCEPT ![w] = "dropping"]
    /\ UNCHANGED <<parts, stray, recorded, cronDue, holder, day, today, existing, deaths, age>>

DropPartition(w) ==
    /\ pc[w] = "dropping"
    /\ \E d \in Aged(w) :
          /\ parts' = parts \ {d}
          /\ existing' = [existing EXCEPT ![w] = @ \ {d}]
    /\ UNCHANGED <<stray, recorded, cronDue, holder, pc, day, today, deaths, age>>

DroppedAll(w) ==
    /\ pc[w] = "dropping"
    /\ Aged(w) = {}
    /\ age' = -today[w]
    /\ End(w)
    /\ UNCHANGED <<parts, stray, recorded, cronDue, deaths>>

\* The worker dies: its session ends and the advisory lock with it.
DieInRun(w) ==
    /\ pc[w] # "idle"
    /\ deaths < MaxDeaths
    /\ deaths' = deaths + 1
    /\ End(w)
    /\ UNCHANGED <<parts, stray, recorded, cronDue, age>>

RunStep(w) ==
    \/ SkipExisting(w)
    \/ CreatePartition(w)
    \/ CreateFails(w)
    \/ CreatedAll(w)
    \/ DropPartition(w)
    \/ DroppedAll(w)

Next ==
    \/ NewDay
    \/ InsertCheck
    \/ \E w \in Workers :
          \/ StartupRun(w)
          \/ NightlyRun(w)
          \/ NightlySkip(w)
          \/ RunStep(w)
          \/ DieInRun(w)

Spec == Init /\ [][Next]_vars

(***************************************************************************)
(* Fairness: days go by, runs go on, and a nightly job, which waits in      *)
(* Redis while no worker is up, is taken in the end.                        *)
(***************************************************************************)
Fairness ==
    /\ WF_vars(NewDay)
    /\ SF_vars(\E w \in Workers : NightlyRun(w))
    /\ \A w \in Workers : WF_vars(RunStep(w))

FairSpec == Spec /\ Fairness

-----------------------------------------------------------------------------
(***************************************************************************)
(* Properties                                                               *)
(***************************************************************************)

\* Every day is within the horizon; a run neither creates nor drops beyond it.
TypeOK ==
    /\ parts \subseteq Days
    /\ stray \subseteq Oldest .. 0
    /\ recorded \subseteq Oldest .. 0
    /\ cronDue \in BOOLEAN
    /\ holder \in Workers \union {None}
    /\ pc \in [Workers -> {"idle", "creating", "dropping"}]
    /\ day \in [Workers -> -1 .. Ahead + 1]
    /\ today \in [Workers -> {0, -1}]
    /\ existing \in [Workers -> SUBSET Days]
    /\ deaths \in 0 .. MaxDeaths
    /\ age \in 0 .. Ahead + 1

\* One maintenance run at a time: what a run saw when it began is still true
\* when it acts on it, so it neither creates a partition that another run
\* created meanwhile nor drops one that is gone.
SnapshotIsCurrent ==
    \A w \in Workers :
        /\ pc[w] = "creating" /\ day[w] <= LastCreated(w) => (day[w] \in existing[w] <=> day[w] \in parts)
        /\ pc[w] = "dropping" => existing[w] \subseteq parts

\* A partition with rows of a day within retention is never dropped, also by a
\* run that began before midnight.
RetainedIsKept == \A d \in recorded : d >= -Retain => d \in parts

\* daysAhead is how many days of failed or missing runs the table survives:
\* within that time of the last complete run, today's checks have a partition.
AheadCoversGaps == age <= Ahead => 0 \in parts

\* "The maintenance job keeps real partitions ahead of now, so this should stay
\* empty" (002_partition_checks.sql:27-28): however long the workers were down,
\* there is again a day that has its partition.
PartitionsComeBack == []<>(0 \in parts)
=============================================================================
