-------------------------- MODULE PartitionsProofs --------------------------
(***************************************************************************)
(* Theorems about Partitions, for any workers, horizon and retention.       *)
(*                                                                          *)
(* One run at a time changes the partitions (RunHoldsLock), so from the day *)
(* it looks at next on, what it found is what there is (FoundIsCurrent),    *)
(* and the days it went past have partitions (BehindIsThere).  A complete   *)
(* run therefore leaves today + daysAhead covered, and a day goes by for    *)
(* each day of age (CoveredAhead).                                          *)
(***************************************************************************)
EXTENDS Partitions, TLAPS

RunHoldsLock == \A w \in Workers : pc[w] # "idle" <=> holder = w

DayInRange ==
    \A w \in Workers :
        /\ pc[w] # "idle" => day[w] \in today[w] .. today[w] + Ahead + 1
        /\ pc[w] = "dropping" => day[w] > today[w] + Ahead

FoundIsCurrent ==
    \A w \in Workers :
        /\ pc[w] = "creating" => \A d \in Days : d >= day[w] => (d \in existing[w] <=> d \in parts)
        /\ pc[w] # "idle" => existing[w] \subseteq parts

BehindIsThere ==
    \A w \in Workers : pc[w] # "idle" => \A d \in today[w] .. day[w] - 1 : d \in parts

CoveredAhead == \A d \in 0 .. Ahead - age : d \in parts

IInv ==
    /\ TypeOK
    /\ RunHoldsLock
    /\ DayInRange
    /\ FoundIsCurrent
    /\ BehindIsThere
    /\ CoveredAhead
    /\ RetainedIsKept

\* The partitions migration 002 makes are what a complete run would leave.
LEMMA InitEstablishes == Init => IInv
<1> SUFFICES ASSUME Init PROVE IInv
  OBVIOUS
<1> USE PartitionAssumptions DEF Init
<1>1. TypeOK
  <2>1. parts \subseteq Days
    BY DEF Days, Oldest
  <2>2. day \in [Workers -> -1 .. Ahead + 1] /\ today \in [Workers -> {0, -1}]
    <3>1. 0 \in -1 .. Ahead + 1
      OBVIOUS
    <3> QED BY <3>1
  <2>3. pc \in [Workers -> {"idle", "creating", "dropping"}] /\ existing \in [Workers -> SUBSET Days]
    OBVIOUS
  <2>4. /\ stray \subseteq Oldest .. 0 /\ recorded \subseteq Oldest .. 0
        /\ deaths \in 0 .. MaxDeaths /\ age \in 0 .. Ahead + 1
    OBVIOUS
  <2>5. cronDue \in BOOLEAN /\ holder \in Workers \union {None}
    OBVIOUS
  <2> HIDE DEF Init
  <2> QED
    BY <2>1, <2>2, <2>3, <2>4, <2>5 DEF TypeOK
<1>2. RunHoldsLock /\ DayInRange /\ FoundIsCurrent /\ BehindIsThere
  BY DEF RunHoldsLock, DayInRange, FoundIsCurrent, BehindIsThere
<1>3. CoveredAhead /\ RetainedIsKept
  BY DEF CoveredAhead, RetainedIsKept
<1> QED
  BY <1>1, <1>2, <1>3 DEF IInv

\* A day later, the partition of a day that can be told apart is the one that
\* was the next day's.
LEMMA NextDay ==
    ASSUME NEW S \in SUBSET Days, NEW d \in Days, d # Oldest
    PROVE  d \in DayLater(S) <=> d + 1 \in S
<1>1. \A e \in S : Older(e) = d <=> e = d + 1
  BY PartitionAssumptions DEF Days, Oldest, Older
<1> QED
  BY <1>1 DEF DayLater

\* Days stay within the horizon as time goes by.
LEMMA DaysGoBy ==
    /\ \A S \in SUBSET Days : DayLater(S) \subseteq Days
    /\ \A S \in SUBSET (Oldest .. 0) : DayLater(S) \subseteq Oldest .. 0
BY PartitionAssumptions DEF Days, Oldest, Older, DayLater

\* Midnight keeps everything, also what a run under way has seen.
LEMMA NewDayKeeps == ASSUME IInv, NewDay PROVE IInv'
<1> USE PartitionAssumptions DEF IInv, NewDay
<1>1. TypeOK'
  <2>1. parts' \subseteq Days /\ stray' \subseteq Oldest .. 0 /\ recorded' \subseteq Oldest .. 0
    BY DaysGoBy DEF TypeOK
  <2>2. existing' \in [Workers -> SUBSET Days]
    BY DaysGoBy DEF TypeOK
  <2>3. day' \in [Workers -> -1 .. Ahead + 1] /\ today' \in [Workers -> {0, -1}]
    <3>1. \A w \in Workers : pc[w] # "idle" => day[w] \in 0 .. Ahead + 1
      BY DEF DayInRange
    <3> QED BY <3>1
  <2>4. age' \in 0 .. Ahead + 1
    BY DEF TypeOK
  <2> QED
    BY <2>1, <2>2, <2>3, <2>4 DEF TypeOK
<1>2. RunHoldsLock'
  BY DEF RunHoldsLock
<1>3. \A w \in Workers : pc[w] # "idle" =>
         today[w] = 0 /\ today'[w] = -1 /\ day'[w] = day[w] - 1 /\ day[w] \in Int
  BY DEF TypeOK
<1>4. DayInRange'
  BY <1>3 DEF DayInRange
<1>5. FoundIsCurrent'
  <2> SUFFICES ASSUME NEW w \in Workers, pc[w] # "idle"
               PROVE  /\ pc[w] = "creating" =>
                            \A d \in Days : d >= day'[w] => (d \in existing'[w] <=> d \in parts')
                      /\ existing'[w] \subseteq parts'
    BY DEF FoundIsCurrent
  <2>1. existing'[w] = DayLater(existing[w]) /\ parts' = DayLater(parts)
    OBVIOUS
  <2>2. ASSUME pc[w] = "creating", NEW d \in Days, d >= day'[w]
        PROVE  d \in existing'[w] <=> d \in parts'
    <3>1. d # Oldest /\ d + 1 >= day[w]
      BY <1>3, <2>2 DEF DayInRange, Oldest, Days
    <3>2. d \in existing'[w] <=> d + 1 \in existing[w]
      BY <2>1, <3>1, NextDay DEF TypeOK
    <3>3. d \in parts' <=> d + 1 \in parts
      BY <2>1, <3>1, NextDay DEF TypeOK
    <3>4. d + 1 \in existing[w] <=> d + 1 \in parts
      BY <2>2, <3>1 DEF FoundIsCurrent, TypeOK
    <3> QED BY <3>2, <3>3, <3>4
  <2>3. existing'[w] \subseteq parts'
    BY <2>1 DEF FoundIsCurrent, DayLater
  <2> QED
    BY <2>2, <2>3
<1>6. BehindIsThere'
  <2> SUFFICES ASSUME NEW w \in Workers, pc[w] # "idle", NEW d \in today'[w] .. day'[w] - 1
               PROVE  d \in parts'
    BY DEF BehindIsThere
  <2>1. d + 1 \in today[w] .. day[w] - 1
    BY <1>3
  <2>2. d \in Days /\ d # Oldest
    BY <1>3, <2>1 DEF DayInRange, Days, Oldest
  <2> QED
    BY <2>1, <2>2, NextDay DEF BehindIsThere, TypeOK
<1>7. CoveredAhead'
  <2> SUFFICES ASSUME NEW d \in 0 .. Ahead - age' PROVE d \in parts'
    BY DEF CoveredAhead
  <2>1. age' = age + 1
    BY DEF TypeOK
  <2>2. d + 1 \in parts
    BY <2>1 DEF CoveredAhead, TypeOK
  <2>3. d \in Days /\ d # Oldest
    BY <2>1 DEF Days, Oldest, TypeOK
  <2> QED
    BY <2>2, <2>3, NextDay DEF TypeOK
<1>8. RetainedIsKept'
  <2> SUFFICES ASSUME NEW d \in recorded', d >= -Retain PROVE d \in parts'
    BY DEF RetainedIsKept
  <2>1. d \in Days /\ d # Oldest /\ recorded \subseteq Days
    BY <1>1 DEF TypeOK, Days, Oldest
  <2>2. d + 1 \in recorded
    BY <2>1, NextDay
  <2>3. d + 1 \in parts
    BY <2>1, <2>2 DEF RetainedIsKept, Days
  <2> QED
    BY <2>1, <2>3, NextDay DEF TypeOK
<1> QED
  BY <1>1, <1>2, <1>4, <1>5, <1>6, <1>7, <1>8

\* A check is inserted: its day has a partition, or it goes to the default one.
LEMMA InsertKeeps == ASSUME IInv, InsertCheck PROVE IInv'
<1> USE PartitionAssumptions DEF IInv, InsertCheck, runVars
<1>1. PICK d \in {0, -1} :
         \/ d \in parts /\ recorded' = recorded \union {d} /\ UNCHANGED stray
         \/ d \notin parts /\ stray' = stray \union {d} /\ UNCHANGED recorded
  OBVIOUS
<1>2. d \in Oldest .. 0
  BY DEF Oldest
<1>3. TypeOK'
  BY <1>1, <1>2 DEF TypeOK
<1>4. RetainedIsKept'
  BY <1>1 DEF RetainedIsKept
<1> QED
  BY <1>3, <1>4 DEF RunHoldsLock, DayInRange, FoundIsCurrent, BehindIsThere, CoveredAhead

\* A run begins with what there is.
LEMMA BeginKeeps ==
    ASSUME IInv, NEW w \in Workers, Begin(w), cronDue' \in BOOLEAN,
           UNCHANGED <<parts, stray, recorded, deaths, age>>
    PROVE  IInv'
<1> USE PartitionAssumptions DEF IInv, Begin
<1>1. TypeOK'
  BY DEF TypeOK
<1>2. /\ pc'[w] = "creating" /\ day'[w] = 0 /\ today'[w] = 0 /\ existing'[w] = parts
      /\ \A v \in Workers \ {w} : pc'[v] = "idle" /\ pc[v] = "idle"
  BY DEF TypeOK, LockFree, RunHoldsLock
<1>3. RunHoldsLock'
  BY <1>2 DEF RunHoldsLock, LockFree
<1>4. DayInRange' /\ FoundIsCurrent' /\ BehindIsThere'
  BY <1>2 DEF DayInRange, FoundIsCurrent, BehindIsThere
<1> QED
  BY <1>1, <1>3, <1>4 DEF CoveredAhead, RetainedIsKept

\* However a run ends, it takes only what it knew with it.
LEMMA EndKeeps ==
    ASSUME IInv, NEW w \in Workers, pc[w] # "idle", End(w), UNCHANGED <<parts, stray, recorded, cronDue>>,
           deaths' \in 0 .. MaxDeaths, age' \in 0 .. Ahead + 1, CoveredAhead'
    PROVE  IInv'
<1> USE PartitionAssumptions DEF IInv, End
<1>1. TypeOK'
  BY DEF TypeOK
<1>2. \A v \in Workers : pc'[v] = "idle"
  BY DEF TypeOK, RunHoldsLock
<1>3. RunHoldsLock' /\ DayInRange' /\ FoundIsCurrent' /\ BehindIsThere'
  BY <1>2 DEF RunHoldsLock, DayInRange, FoundIsCurrent, BehindIsThere
<1> QED
  BY <1>1, <1>3 DEF RetainedIsKept

\* The day a run looks at next has a partition afterwards.
LEMMA CreateKeeps ==
    ASSUME IInv, NEW w \in Workers, SkipExisting(w) \/ CreatePartition(w)
    PROVE  IInv'
<1> USE PartitionAssumptions DEF IInv
<1>1. /\ pc[w] = "creating" /\ day[w] \in today[w] .. today[w] + Ahead /\ today[w] \in {0, -1}
      /\ day' = [day EXCEPT ![w] = day[w] + 1]
      /\ UNCHANGED <<stray, recorded, cronDue, holder, pc, today, existing, deaths, age>>
  BY DEF SkipExisting, CreatePartition, LastCreated, DayInRange, TypeOK
<1>2. parts' = parts \union {day[w]} /\ day[w] \in Days
  <2>1. day[w] \in Days
    BY <1>1 DEF Days, Oldest
  <2>2. CASE SkipExisting(w)
    BY <2>1, <2>2 DEF SkipExisting, FoundIsCurrent
  <2>3. CASE CreatePartition(w)
    BY <2>1, <2>3 DEF CreatePartition
  <2> QED BY <2>1, <2>2, <2>3
<1>3. /\ day'[w] = day[w] + 1
      /\ \A v \in Workers \ {w} : pc[v] = "idle"
  BY <1>1 DEF TypeOK, RunHoldsLock
<1>4. TypeOK'
  <2>1. parts' \subseteq Days
    BY <1>2 DEF TypeOK
  <2>2. day' \in [Workers -> -1 .. Ahead + 1]
    BY <1>1 DEF TypeOK
  <2> QED
    BY <1>1, <2>1, <2>2 DEF TypeOK
<1>5. RunHoldsLock'
  BY <1>1 DEF RunHoldsLock
<1>6. DayInRange'
  BY <1>1, <1>3 DEF DayInRange
<1>7. FoundIsCurrent'
  BY <1>1, <1>2, <1>3 DEF FoundIsCurrent, Days, Oldest
<1>8. BehindIsThere'
  BY <1>1, <1>2, <1>3 DEF BehindIsThere
<1>9. CoveredAhead' /\ RetainedIsKept'
  BY <1>1, <1>2 DEF CoveredAhead, RetainedIsKept
<1> QED
  BY <1>4, <1>5, <1>6, <1>7, <1>8, <1>9

\* A run turns to dropping when no day is left to create.
LEMMA CreatedAllKeeps == ASSUME IInv, NEW w \in Workers, CreatedAll(w) PROVE IInv'
<1> USE PartitionAssumptions DEF IInv, CreatedAll
<1>1. TypeOK'
  BY DEF TypeOK
<1>2. pc'[w] = "dropping" /\ \A v \in Workers \ {w} : pc'[v] = pc[v]
  BY DEF TypeOK
<1>3. DayInRange'
  BY <1>2 DEF DayInRange, LastCreated, TypeOK
<1>4. RunHoldsLock' /\ FoundIsCurrent' /\ BehindIsThere'
  BY <1>2 DEF RunHoldsLock, FoundIsCurrent, BehindIsThere
<1> QED
  BY <1>1, <1>3, <1>4 DEF CoveredAhead, RetainedIsKept

\* Only days that retention has let go are dropped.
LEMMA DropKeeps == ASSUME IInv, NEW w \in Workers, DropPartition(w) PROVE IInv'
<1> USE PartitionAssumptions DEF IInv, DropPartition
<1>1. PICK d \in Aged(w) : parts' = parts \ {d} /\ existing' = [existing EXCEPT ![w] = existing[w] \ {d}]
  OBVIOUS
<1>2. today[w] \in {0, -1} /\ d \in Int /\ d < today[w] - Retain
  BY DEF Aged, TypeOK, Days, Oldest
<1>3. TypeOK'
  BY <1>1 DEF TypeOK
<1>4. /\ existing'[w] = existing[w] \ {d}
      /\ \A v \in Workers \ {w} : pc[v] = "idle"
  BY <1>1 DEF TypeOK, RunHoldsLock
<1>5. FoundIsCurrent'
  BY <1>1, <1>4 DEF FoundIsCurrent
<1>6. BehindIsThere' /\ CoveredAhead'
  BY <1>1, <1>2, <1>4 DEF BehindIsThere, CoveredAhead
<1>7. RetainedIsKept'
  BY <1>1, <1>2 DEF RetainedIsKept
<1> QED
  BY <1>3, <1>5, <1>6, <1>7 DEF RunHoldsLock, DayInRange

\* A complete run leaves daysAhead days from its today, which is not later.
LEMMA DroppedAllKeeps == ASSUME IInv, NEW w \in Workers, DroppedAll(w) PROVE IInv'
<1> USE PartitionAssumptions DEF IInv, DroppedAll
<1>1. today[w] \in {0, -1} /\ age' = -today[w]
  BY DEF TypeOK
<1>2. CoveredAhead'
  <2> SUFFICES ASSUME NEW d \in 0 .. Ahead - age' PROVE d \in parts'
    BY DEF CoveredAhead
  <2>1. d \in today[w] .. day[w] - 1
    BY <1>1 DEF DayInRange, TypeOK
  <2> QED
    BY <2>1 DEF BehindIsThere
<1> QED
  BY <1>1, <1>2, EndKeeps DEF TypeOK

\* Every step keeps the invariant.
LEMMA StepKeeps == IInv /\ [Next]_vars => IInv'
<1> SUFFICES ASSUME IInv, [Next]_vars PROVE IInv'
  OBVIOUS
<1>1. ASSUME NEW w \in Workers, StartupRun(w) \/ NightlyRun(w) PROVE IInv'
  BY <1>1, BeginKeeps DEF StartupRun, NightlyRun, IInv, TypeOK
<1>2. ASSUME NEW w \in Workers, NightlySkip(w) PROVE IInv'
  BY <1>2 DEF NightlySkip, runVars, IInv, TypeOK, RunHoldsLock, DayInRange, FoundIsCurrent, BehindIsThere,
     CoveredAhead, RetainedIsKept
<1>3. ASSUME NEW w \in Workers, CreateFails(w) \/ DieInRun(w) PROVE IInv'
  <2>1. deaths' \in 0 .. MaxDeaths /\ age' \in 0 .. Ahead + 1 /\ CoveredAhead'
    BY <1>3, PartitionAssumptions DEF CreateFails, DieInRun, IInv, TypeOK, CoveredAhead
  <2> QED
    BY <1>3, <2>1, EndKeeps DEF CreateFails, DieInRun
<1>4. ASSUME NEW w \in Workers, RunStep(w) PROVE IInv'
  BY <1>3, <1>4, CreateKeeps, CreatedAllKeeps, DropKeeps, DroppedAllKeeps DEF RunStep
<1>5. CASE UNCHANGED vars
  BY <1>5 DEF vars, runVars, IInv, TypeOK, RunHoldsLock, DayInRange, FoundIsCurrent, BehindIsThere,
     CoveredAhead, RetainedIsKept
<1> QED
  BY <1>1, <1>2, <1>3, <1>4, <1>5, NewDayKeeps, InsertKeeps DEF Next

\* The invariant holds at all times.
LEMMA InvariantHolds == Spec => []IInv
BY InitEstablishes, StepKeeps, PTL DEF Spec

\* No run creates or drops a partition beyond the horizon.
THEOREM TypeCorrect == Spec => []TypeOK
<1>1. IInv => TypeOK
  BY DEF IInv
<1> QED
  BY InvariantHolds, <1>1, PTL

\* Startup runs, nightly runs and crashes of any number of workers never leave
\* a run with an outdated list of partitions.
THEOREM SnapshotsAreCurrent == Spec => []SnapshotIsCurrent
<1>1. IInv => SnapshotIsCurrent
  <2> SUFFICES ASSUME IInv, NEW w \in Workers
               PROVE  /\ pc[w] = "creating" /\ day[w] <= LastCreated(w) =>
                            (day[w] \in existing[w] <=> day[w] \in parts)
                      /\ pc[w] = "dropping" => existing[w] \subseteq parts
    BY DEF SnapshotIsCurrent
  <2>1. ASSUME pc[w] = "creating", day[w] <= LastCreated(w) PROVE day[w] \in Days /\ day[w] >= day[w]
    BY <2>1, PartitionAssumptions DEF IInv, TypeOK, DayInRange, LastCreated, Days, Oldest
  <2> QED
    BY <2>1 DEF IInv, FoundIsCurrent
<1> QED
  BY InvariantHolds, <1>1, PTL

\* Whatever retentionDays is, a day within it keeps its rows, also when a run
\* crosses midnight.
THEOREM RetentionIsKept == Spec => []RetainedIsKept
<1>1. IInv => RetainedIsKept
  BY DEF IInv
<1> QED
  BY InvariantHolds, <1>1, PTL

\* Whatever daysAhead is, today has its partition for that many days after the
\* last complete run.
THEOREM GapsAreCovered == Spec => []AheadCoversGaps
<1>1. IInv => AheadCoversGaps
  BY PartitionAssumptions DEF IInv, AheadCoversGaps, CoveredAhead, TypeOK
<1> QED
  BY InvariantHolds, <1>1, PTL
=============================================================================
