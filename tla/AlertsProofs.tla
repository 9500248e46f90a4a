---------------------------- MODULE AlertsProofs ----------------------------
(***************************************************************************)
(* Theorems about Alerts, for any alerts, workers, attempts and stalls.     *)
(*                                                                          *)
(* A job completes only from the end of the handler, and an execution gets  *)
(* there only with its delivery recorded (FinishedIsDelivered).  For the    *)
(* count of sends, an execution that lost its job is a stray: it may send   *)
(* once more, on the excuse its lost lock gave.  Beyond the strays, at most *)
(* one send is open at any time (MaySend), and SendsAreCovered adds it up.  *)
(* Last, Alerts implements AlertLog: LogInv is JobInv with what a step of   *)
(* the log asks for, a committed alert that was sent before it is recorded. *)
(***************************************************************************)
EXTENDS Alerts, FiniteSetTheorems, TLAPS

WorkIsKnown ==
    /\ \A e \in Executors : at[e] = "idle" <=> work[e] = None
    /\ \A e \in Executors, a \in Alert : owner[a] = e => work[e] = a

TriesAreLeft ==
    \A a \in Alert :
        job[a] \notin {"completed", "failed"} => attempts[a] < MaxAttempts /\ stalls[a] <= MaxStalls

FinishedIsDelivered ==
    ~unhooked => hook = "set" /\ \A e \in Executors : at[e] = "finish" => work[e] \in delivered

JobInv ==
    /\ TypeOK
    /\ WorkIsKnown
    /\ TriesAreLeft
    /\ FinishedIsDelivered
    /\ CompletedMeansDelivered

OwnerAt(a, places) == owner[a] # None /\ at[owner[a]] \in places

Strays(a) == {e \in Executors : work[e] = a /\ owner[a] # e /\ at[e] \in {"load", "check", "send"}}

MaySend(a) ==
    \/ OwnerAt(a, {"send"})
    \/ a \notin delivered /\ OwnerAt(a, {"check"})
    \/ a \notin delivered /\ hook # "deleted" /\ ~OwnerAt(a, {"record"})

Covered(a) == sends[a] + Cardinality(Strays(a)) + (IF MaySend(a) THEN 1 ELSE 0) <= 1 + excuses[a]

SendsAreCovered == \A a \in Alert : Covered(a)

-----------------------------------------------------------------------------
(***************************************************************************)
(* Completed means delivered.                                               *)
(***************************************************************************)
LEMMA JobInvInit == Init => JobInv
<1> SUFFICES ASSUME Init PROVE JobInv
  OBVIOUS
<1>1. TypeOK
  BY AlertAssumptions DEF Init, TypeOK
<1>2. WorkIsKnown /\ TriesAreLeft
  BY AlertAssumptions DEF Init, WorkIsKnown, TriesAreLeft
<1>3. FinishedIsDelivered /\ CompletedMeansDelivered
  BY DEF Init, FinishedIsDelivered, CompletedMeansDelivered
<1> QED
  BY <1>1, <1>2, <1>3 DEF JobInv

\* An execution under way works on an alert.
LEMMA WorkIsAlert ==
    ASSUME JobInv, NEW e \in Executors, at[e] # "idle"
    PROVE  work[e] \in Alert
BY DEF JobInv, TypeOK, WorkIsKnown

\* An execution that goes on within the handler keeps what is known of jobs,
\* if it gets to the end with its delivery recorded.
LEMMA ContinueKeeps ==
    ASSUME JobInv, NEW e \in Executors, at[e] # "idle",
           NEW next \in {"check", "send", "record", "finish"},
           Continue(e, next),
           delivered \subseteq delivered', delivered' \subseteq Alert,
           ~unhooked => (next = "finish" => work[e] \in delivered'),
           UNCHANGED <<hook, age, owed, queue, batch, unhooked>>,
           sends' \in [Alert -> Nat], excuses' \in [Alert -> Nat], faults' \in 0 .. MaxFaults
    PROVE  JobInv'
<1> USE DEF JobInv, Continue, queue
<1>1. TypeOK'
  BY DEF TypeOK
<1>2. WorkIsKnown' /\ TriesAreLeft'
  BY DEF TypeOK, WorkIsKnown, TriesAreLeft
<1>3. FinishedIsDelivered'
  BY DEF TypeOK, FinishedIsDelivered
<1>4. CompletedMeansDelivered'
  BY DEF CompletedMeansDelivered
<1> QED
  BY <1>1, <1>2, <1>3, <1>4

\* So does one that ends: its job is done, failed, or has attempts left.
LEMMA LeaveKeeps ==
    ASSUME JobInv, NEW e \in Executors, at[e] # "idle",
           NEW outcome \in {"delayed", "completed", "failed"},
           Leave(e, outcome, 1),
           outcome = "delayed" => attempts[work[e]] + 1 < MaxAttempts,
           outcome = "completed" => (~unhooked => work[e] \in delivered),
           UNCHANGED <<hook, age, owed, delivered, batch, unhooked>>,
           sends' \in [Alert -> Nat], excuses' \in [Alert -> Nat], faults' \in 0 .. MaxFaults
    PROVE  JobInv'
<1> USE AlertAssumptions DEF JobInv
<1> DEFINE a == work[e]
<1>1. a \in Alert
  BY WorkIsAlert
<1>2. /\ at' = [at EXCEPT ![e] = "idle"] /\ work' = [work EXCEPT ![e] = None]
      /\ stalls' = stalls
  BY DEF Leave
<1>3. CASE owner[a] = e
  <2>1. /\ job' = [job EXCEPT ![a] = outcome] /\ owner' = [owner EXCEPT ![a] = None]
        /\ attempts' = [attempts EXCEPT ![a] = @ + 1]
    BY <1>3 DEF Leave, TypeOK
  <2>2. job[a] = "active" /\ attempts[a] < MaxAttempts
    BY <1>1, <1>3 DEF TypeOK, TriesAreLeft
  <2>3. TypeOK'
    <3>1. attempts' \in [Alert -> 0 .. MaxAttempts]
      BY <1>1, <2>1, <2>2 DEF TypeOK
    <3>2. job' \in [Alert -> {"absent", "waiting", "delayed", "active", "completed", "failed"}]
      BY <2>1 DEF TypeOK
    <3>3. \A b \in Alert : owner'[b] # None => job'[b] = "active"
      BY <1>1, <2>1 DEF TypeOK
    <3> QED
      BY <1>2, <2>1, <3>1, <3>2, <3>3 DEF TypeOK
  <2>4. WorkIsKnown'
    BY <1>1, <1>2, <2>1 DEF TypeOK, WorkIsKnown
  <2>5. TriesAreLeft'
    BY <1>1, <1>2, <2>1, <2>2 DEF TypeOK, TriesAreLeft
  <2>6. FinishedIsDelivered'
    BY <1>2 DEF TypeOK, FinishedIsDelivered
  <2>7. CompletedMeansDelivered'
    BY <1>1, <2>1 DEF TypeOK, CompletedMeansDelivered
  <2> QED
    BY <2>3, <2>4, <2>5, <2>6, <2>7
<1>4. CASE owner[a] # e
  <2>1. UNCHANGED <<job, owner, attempts>>
    BY <1>4 DEF Leave, TypeOK
  <2>2. TypeOK'
    BY <1>2, <2>1 DEF TypeOK
  <2>3. WorkIsKnown' /\ TriesAreLeft'
    BY <1>2, <1>4, <2>1 DEF TypeOK, WorkIsKnown, TriesAreLeft
  <2>4. FinishedIsDelivered' /\ CompletedMeansDelivered'
    BY <1>2, <2>1 DEF TypeOK, FinishedIsDelivered, CompletedMeansDelivered
  <2> QED
    BY <2>2, <2>3, <2>4
<1> QED
  BY <1>3, <1>4

\* A thrown error backs off while attempts are left, and fails the job then.
LEMMA RetryKeeps ==
    ASSUME JobInv, NEW e \in Executors, at[e] # "idle", Retry(e),
           UNCHANGED <<hook, age, owed, delivered, batch, unhooked>>,
           sends' \in [Alert -> Nat], excuses' \in [Alert -> Nat], faults' \in 0 .. MaxFaults
    PROVE  JobInv'
<1> DEFINE outcome == IF attempts[work[e]] + 1 < MaxAttempts THEN "delayed" ELSE "failed"
<1>1. Leave(e, outcome, 1)
  BY DEF Retry
<1>2. /\ outcome \in {"delayed", "completed", "failed"} /\ outcome # "completed"
      /\ outcome = "delayed" => attempts[work[e]] + 1 < MaxAttempts
  OBVIOUS
<1> HIDE DEF outcome
<1> QED
  BY <1>1, <1>2, LeaveKeeps

\* A stall takes the job from its owner, or gives it up.
LEMMA StallKeeps ==
    ASSUME JobInv, NEW a \in Alert, Stalled(a),
           excuses' \in [Alert -> Nat], faults' \in 0 .. MaxFaults
    PROVE  JobInv'
<1> USE AlertAssumptions DEF JobInv, Stalled, execs
<1>1. TypeOK'
  <2>1. stalls[a] <= MaxStalls /\ stalls[a] \in Nat
    BY DEF TypeOK, TriesAreLeft
  <2>2. stalls' \in [Alert -> 0 .. MaxStalls + 1]
    BY <2>1 DEF TypeOK
  <2>3. job' \in [Alert -> {"absent", "waiting", "delayed", "active", "completed", "failed"}]
    BY DEF TypeOK
  <2>4. \A b \in Alert : owner'[b] # None => job'[b] = "active"
    BY DEF TypeOK
  <2> QED
    BY <2>2, <2>3, <2>4 DEF TypeOK
<1>2. WorkIsKnown'
  BY DEF TypeOK, WorkIsKnown
<1>3. TriesAreLeft'
  BY DEF TypeOK, TriesAreLeft
<1>4. FinishedIsDelivered' /\ CompletedMeansDelivered'
  BY DEF TypeOK, FinishedIsDelivered, CompletedMeansDelivered
<1> QED
  BY <1>1, <1>2, <1>3, <1>4

\* The monitor's changes end what the invariant says of deliveries.
LEMMA HookKeeps ==
    ASSUME JobInv, PatchHook \/ DeleteMonitor PROVE JobInv'
<1> USE DEF JobInv, queue, execs
<1>1. TypeOK'
  <2>1. CASE PatchHook
    BY <2>1 DEF PatchHook, TypeOK
  <2>2. CASE DeleteMonitor
    BY <2>2 DEF DeleteMonitor, TypeOK
  <2> QED
    BY <2>1, <2>2
<1>2. unhooked' /\ UNCHANGED <<job, attempts, stalls, owner, at, work>>
  BY DEF PatchHook, DeleteMonitor
<1> QED
  BY <1>1, <1>2 DEF WorkIsKnown, TriesAreLeft, FinishedIsDelivered, CompletedMeansDelivered

\* So do steps elsewhere.
LEMMA QuietKeeps ==
    ASSUME JobInv, UNCHANGED <<hook, delivered, queue, execs, history>>,
           age' \in [Alert -> {"none", "fresh", "due", "old"}], owed' \subseteq Alert,
           batch' \in [Sweepers -> SUBSET Alert], faults' \in 0 .. MaxFaults
    PROVE  JobInv'
<1> USE DEF JobInv, queue, execs, history
<1>1. TypeOK'
  BY DEF TypeOK
<1> QED
  BY <1>1 DEF WorkIsKnown, TriesAreLeft, FinishedIsDelivered, CompletedMeansDelivered

\* A new job has all its attempts.
LEMMA EnqueueKeeps ==
    ASSUME JobInv, NEW b \in Alert, enqueueAlert(b),
           UNCHANGED <<hook, age, delivered, execs, faults, history>>,
           owed' \subseteq Alert, batch' \in [Sweepers -> SUBSET Alert]
    PROVE  JobInv'
<1> USE DEF JobInv, execs, history, enqueueAlert, Kept
<1>1. TypeOK'
  BY DEF TypeOK
<1>2. WorkIsKnown' /\ TriesAreLeft' /\ FinishedIsDelivered' /\ CompletedMeansDelivered'
  BY DEF TypeOK, WorkIsKnown, TriesAreLeft, FinishedIsDelivered, CompletedMeansDelivered
<1> QED
  BY <1>1, <1>2

\* What happens to an alert while no handler works on it.
LEMMA AlertKeeps ==
    ASSUME JobInv, NEW a \in Alert,
           \/ Commit(a) \/ TimePasses(a, "fresh", "due") \/ TimePasses(a, "due", "old")
           \/ CheckEnqueues(a) \/ CheckDies(a)
           \/ OwnerDied(a) \/ LockExpires(a) \/ BackoffOver(a) \/ Evict(a)
    PROVE  JobInv'
<1>1. CASE Commit(a) \/ TimePasses(a, "fresh", "due") \/ TimePasses(a, "due", "old")
  <2>1. /\ age' \in [Alert -> {"none", "fresh", "due", "old"}] /\ owed' \subseteq Alert
        /\ UNCHANGED <<hook, delivered, queue, execs, history, batch, faults>>
    BY <1>1 DEF Commit, TimePasses, JobInv, TypeOK, history
  <2>2. batch' \in [Sweepers -> SUBSET Alert] /\ faults' \in 0 .. MaxFaults
    BY <2>1 DEF JobInv, TypeOK
  <2> QED
    BY <2>1, <2>2, QuietKeeps
<1>2. CASE CheckDies(a)
  <2>1. /\ owed' \subseteq Alert /\ faults' \in 0 .. MaxFaults
        /\ UNCHANGED <<hook, age, delivered, queue, execs, history, batch>>
    BY <1>2, AlertAssumptions DEF CheckDies, Fault, JobInv, TypeOK
  <2> QED
    BY <2>1, QuietKeeps DEF JobInv, TypeOK
<1>3. CASE CheckEnqueues(a)
  BY <1>3, EnqueueKeeps DEF CheckEnqueues, JobInv, TypeOK
<1>4. CASE OwnerDied(a) \/ LockExpires(a)
  <2>1. Stalled(a) /\ excuses' \in [Alert -> Nat] /\ faults' \in 0 .. MaxFaults
    BY <1>4, AlertAssumptions DEF OwnerDied, LockExpires, Fault, Excuse, JobInv, TypeOK
  <2> QED
    BY <2>1, StallKeeps
<1>5. CASE BackoffOver(a)
  <2>1. TypeOK'
    BY <1>5 DEF BackoffOver, JobInv, TypeOK, execs, history
  <2> QED
    BY <1>5, <2>1 DEF BackoffOver, JobInv, TypeOK, WorkIsKnown, TriesAreLeft, FinishedIsDelivered,
                      CompletedMeansDelivered, execs, history
<1>6. CASE Evict(a)
  <2>1. TypeOK'
    BY <1>6, AlertAssumptions DEF Evict, JobInv, TypeOK, execs, history
  <2>2. WorkIsKnown' /\ FinishedIsDelivered' /\ CompletedMeansDelivered'
    BY <1>6 DEF Evict, JobInv, TypeOK, WorkIsKnown, FinishedIsDelivered, CompletedMeansDelivered,
                execs, history
  <2>3. TriesAreLeft'
    BY <1>6, AlertAssumptions DEF Evict, JobInv, TypeOK, TriesAreLeft
  <2> QED
    BY <2>1, <2>2, <2>3 DEF JobInv
<1> QED
  BY <1>1, <1>2, <1>3, <1>4, <1>5, <1>6

LEMMA SweepKeeps ==
    ASSUME JobInv, NEW s \in Sweepers, SweepLists(s) \/ SweepEnqueues(s) \/ SweepFails(s)
    PROVE  JobInv'
<1>1. CASE SweepLists(s) \/ SweepFails(s)
  <2>1. /\ batch' \in [Sweepers -> SUBSET Alert] /\ faults' \in 0 .. MaxFaults
        /\ UNCHANGED <<hook, age, owed, delivered, queue, execs, history>>
    BY <1>1, AlertAssumptions DEF SweepLists, listUndelivered, SweepFails, Fault, JobInv, TypeOK
  <2> QED
    BY <2>1, QuietKeeps DEF JobInv, TypeOK
<1>2. CASE SweepEnqueues(s)
  <2>1. PICK b \in batch[s] : enqueueAlert(b) /\ batch' = [batch EXCEPT ![s] = @ \ {b}]
    BY <1>2 DEF SweepEnqueues
  <2>2. b \in Alert /\ owed' \subseteq Alert /\ batch' \in [Sweepers -> SUBSET Alert]
    BY <1>2, <2>1 DEF SweepEnqueues, JobInv, TypeOK
  <2> QED
    BY <1>2, <2>1, <2>2, EnqueueKeeps DEF SweepEnqueues
<1> QED
  BY <1>1, <1>2

\* A worker takes a job, and dies.
LEMMA TakeKeeps ==
    ASSUME JobInv, NEW e \in Executors, NEW a \in Alert, Take(e, a) PROVE JobInv'
<1> USE AlertAssumptions DEF JobInv, Take, history
<1>1. TypeOK'
  BY DEF TypeOK
<1>2. WorkIsKnown'
  BY DEF TypeOK, WorkIsKnown
<1>3. TriesAreLeft' /\ FinishedIsDelivered' /\ CompletedMeansDelivered'
  BY DEF TypeOK, TriesAreLeft, FinishedIsDelivered, CompletedMeansDelivered
<1> QED
  BY <1>1, <1>2, <1>3

LEMMA DieKeeps ==
    ASSUME JobInv, NEW e \in Executors, Die(e) PROVE JobInv'
<1> USE AlertAssumptions DEF JobInv, Die
<1>1. work[e] \in Alert
  BY WorkIsAlert
<1>2. excuses' \in [Alert -> Nat] /\ faults' \in 0 .. MaxFaults
  BY <1>1 DEF Excuse, Fault, TypeOK
<1>3. TypeOK'
  BY <1>2 DEF TypeOK
<1>4. WorkIsKnown'
  BY DEF TypeOK, WorkIsKnown
<1>5. TriesAreLeft' /\ FinishedIsDelivered' /\ CompletedMeansDelivered'
  BY DEF TypeOK, TriesAreLeft, FinishedIsDelivered, CompletedMeansDelivered
<1> QED
  BY <1>3, <1>4, <1>5

\* Each step of the handler.
LEMMA HandlerKeepsJobs ==
    ASSUME JobInv, NEW e \in Executors, HandlerStep(e) PROVE JobInv'
<1> USE DEF queue, history
<1> DEFINE a == work[e]
<1>1. at[e] # "idle"
  BY DEF HandlerStep, LoadContext, CheckDelivery, SendAccepted, SendUnanswered, SendRefused, ReadFails,
         SendHopeless, RecordDelivery, RecordFails, Finish
<1>2. a \in Alert
  BY <1>1, WorkIsAlert
<1>3. /\ sends \in [Alert -> Nat] /\ excuses \in [Alert -> Nat] /\ faults \in 0 .. MaxFaults
      /\ delivered \subseteq Alert
  BY DEF JobInv, TypeOK
<1>4. Received(a) => sends' \in [Alert -> Nat]
  BY <1>2, <1>3 DEF Received
<1>5. Excuse(a) => excuses' \in [Alert -> Nat]
  BY <1>2, <1>3 DEF Excuse
<1>6. Fault => faults' \in 0 .. MaxFaults
  BY <1>3, AlertAssumptions DEF Fault
<1> HIDE DEF a
<1>7. CASE LoadContext(e)
  <2>1. hook = "set" \/ unhooked
    BY DEF JobInv, FinishedIsDelivered
  <2>2. PICK next \in {"check", "finish"} :
           Continue(e, next) /\ (next = "finish" => hook # "set")
    BY <1>7 DEF LoadContext
  <2> QED
    BY <1>1, <1>3, <1>7, <2>1, <2>2, ContinueKeeps DEF LoadContext, a
<1>8. CASE CheckDelivery(e)
  <2>1. PICK next \in {"send", "finish"} :
           Continue(e, next) /\ (next = "finish" => work[e] \in delivered)
    BY <1>8 DEF CheckDelivery, hasDelivery
  <2> QED
    BY <1>1, <1>3, <1>8, <2>1, ContinueKeeps DEF CheckDelivery
<1>9. CASE SendAccepted(e)
  BY <1>1, <1>3, <1>4, <1>9, ContinueKeeps DEF SendAccepted, a
<1>10. CASE SendUnanswered(e)
  BY <1>1, <1>4, <1>5, <1>6, <1>10, RetryKeeps DEF SendUnanswered, a
<1>11. CASE SendRefused(e) \/ ReadFails(e)
  BY <1>1, <1>3, <1>11, RetryKeeps DEF SendRefused, ReadFails
<1>12. CASE SendHopeless(e)
  BY <1>1, <1>3, <1>12, LeaveKeeps DEF SendHopeless
<1>13. CASE RecordDelivery(e)
  <2>1. CASE Retry(e) /\ UNCHANGED delivered
    BY <1>1, <1>3, <1>13, <2>1, RetryKeeps DEF RecordDelivery
  <2>2. CASE delivered' = delivered \union {work[e]} /\ Continue(e, "finish") /\ UNCHANGED queue
    BY <1>1, <1>2, <1>3, <1>13, <2>2, ContinueKeeps DEF RecordDelivery, a
  <2> QED
    BY <1>13, <2>1, <2>2 DEF RecordDelivery
<1>14. CASE RecordFails(e)
  BY <1>1, <1>3, <1>5, <1>6, <1>14, RetryKeeps DEF RecordFails, a
<1>15. CASE Finish(e)
  <2>1. ~unhooked => work[e] \in delivered
    BY <1>15 DEF Finish, JobInv, FinishedIsDelivered
  <2> QED
    BY <1>1, <1>3, <1>15, <2>1, LeaveKeeps DEF Finish
<1> QED
  BY <1>7, <1>8, <1>9, <1>10, <1>11, <1>12, <1>13, <1>14, <1>15 DEF HandlerStep

LEMMA JobInvStep == JobInv /\ [Next]_vars => JobInv'
<1> SUFFICES ASSUME JobInv, [Next]_vars PROVE JobInv'
  OBVIOUS
<1>1. CASE UNCHANGED vars
  BY <1>1 DEF vars, queue, execs, history, JobInv, TypeOK, WorkIsKnown, TriesAreLeft,
              FinishedIsDelivered, CompletedMeansDelivered
<1>2. CASE Next
  BY <1>2, HookKeeps, AlertKeeps, SweepKeeps, TakeKeeps, HandlerKeepsJobs, DieKeeps DEF Next
<1> QED
  BY <1>1, <1>2

LEMMA JobInvHolds == Spec => []JobInv
BY JobInvInit, JobInvStep, PTL DEF Spec

\* A job with a lock is active and never tried too often, for any number of
\* alerts, workers, stalls and attempts.
THEOREM TypeCorrect == Spec => []TypeOK
<1>1. JobInv => TypeOK
  BY DEF JobInv
<1> QED
  BY JobInvHolds, <1>1, PTL

\* However often a job stalls, is retried or taken twice, it does not complete
\* with its alert undelivered.
THEOREM CompletedIsDelivered == Spec => []CompletedMeansDelivered
<1>1. JobInv => CompletedMeansDelivered
  BY DEF JobInv
<1> QED
  BY JobInvHolds, <1>1, PTL

-----------------------------------------------------------------------------
(***************************************************************************)
(* Repeats are explained.                                                   *)
(***************************************************************************)
LEMMA StraysAreFew ==
    \A S \in SUBSET Executors : IsFiniteSet(S) /\ Cardinality(S) \in Nat
BY AlertAssumptions, FS_Subset, FS_CardinalityType

LEMMA CoveredInit == Init => SendsAreCovered
<1> SUFFICES ASSUME Init, NEW a \in Alert PROVE Covered(a)
  BY DEF SendsAreCovered
<1>1. Strays(a) = {}
  BY DEF Init, Strays
<1>2. Cardinality(Strays(a)) = 0
  BY <1>1, FS_EmptySet
<1>3. sends[a] = 0 /\ excuses[a] = 0
  BY DEF Init
<1> QED
  BY <1>2, <1>3 DEF Covered

\* A step without a send, or with one that comes with its excuse, and that
\* lets nobody send who could not before.
LEMMA SameRoom ==
    ASSUME JobInv, JobInv', NEW a \in Alert, Covered(a),
           \/ sends'[a] = sends[a] /\ excuses'[a] \in {excuses[a], excuses[a] + 1}
           \/ sends'[a] = sends[a] + 1 /\ excuses'[a] = excuses[a] + 1,
           Strays(a)' \subseteq Strays(a),
           MaySend(a)' => MaySend(a)
    PROVE  Covered(a)'
<1> DEFINE S == Strays(a)
           T == Strays(a)'
<1>1. S \in SUBSET Executors /\ T \in SUBSET S
  BY DEF Strays
<1>2. Cardinality(T) <= Cardinality(S) /\ Cardinality(S) \in Nat /\ Cardinality(T) \in Nat
  BY <1>1, StraysAreFew, FS_Subset
<1>3. sends[a] \in Nat /\ excuses[a] \in Nat
  BY DEF JobInv, TypeOK
<1>4. sends[a] + Cardinality(S) + (IF MaySend(a) THEN 1 ELSE 0) <= 1 + excuses[a]
  BY DEF Covered
<1>5. SUFFICES sends'[a] + Cardinality(T) + (IF MaySend(a)' THEN 1 ELSE 0) <= 1 + excuses'[a]
  BY DEF Covered
<1> HIDE DEF S, T
<1> QED
  BY <1>2, <1>3, <1>4

\* An excuse pays for one more who may send.
LEMMA ExcusedRoom ==
    ASSUME JobInv, JobInv', NEW a \in Alert, Covered(a), NEW e,
           sends'[a] = sends[a], excuses'[a] = excuses[a] + 1,
           \/ Strays(a)' \subseteq Strays(a)
           \/ Strays(a)' \subseteq Strays(a) \union {e} /\ (MaySend(a)' => MaySend(a))
    PROVE  Covered(a)'
<1> DEFINE S == Strays(a)
           T == Strays(a)'
<1>1. S \in SUBSET Executors /\ T \in SUBSET Executors
  BY DEF Strays
<1>2. Cardinality(S) \in Nat /\ Cardinality(T) \in Nat /\ IsFiniteSet(S)
  BY <1>1, StraysAreFew
<1>3. T \subseteq S => Cardinality(T) <= Cardinality(S)
  BY <1>2, FS_Subset
<1>4. T \subseteq S \union {e} => Cardinality(T) <= Cardinality(S) + 1
  <2>1. /\ IsFiniteSet(S \union {e}) /\ Cardinality(S \union {e}) \in Nat
        /\ Cardinality(S \union {e}) <= Cardinality(S) + 1
    <3> HIDE DEF S
    <3>1. /\ IsFiniteSet(S \union {e})
          /\ Cardinality(S \union {e}) = IF e \in S THEN Cardinality(S) ELSE Cardinality(S) + 1
      BY <1>2, FS_AddElement
    <3>2. Cardinality(S \union {e}) \in Nat
      BY <3>1, FS_CardinalityType
    <3> QED
      BY <1>2, <3>1, <3>2
  <2>2. T \subseteq S \union {e} => Cardinality(T) <= Cardinality(S \union {e})
    BY <2>1, FS_Subset
  <2> QED
    BY <1>2, <2>1, <2>2
<1>5. sends[a] \in Nat /\ excuses[a] \in Nat
  BY DEF JobInv, TypeOK
<1>6. sends[a] + Cardinality(S) + (IF MaySend(a) THEN 1 ELSE 0) <= 1 + excuses[a]
  BY DEF Covered
<1>7. SUFFICES sends'[a] + Cardinality(T) + (IF MaySend(a)' THEN 1 ELSE 0) <= 1 + excuses'[a]
  BY DEF Covered
<1> HIDE DEF S, T
<1>8. \/ Cardinality(T) <= Cardinality(S)
      \/ Cardinality(T) <= Cardinality(S) + 1 /\ (MaySend(a)' => MaySend(a))
  BY <1>3, <1>4 DEF S, T
<1> QED
  BY <1>2, <1>5, <1>6, <1>8

\* A stray sends and is a stray no more, or the one open send is made.
LEMMA SendUsesRoom ==
    ASSUME JobInv, JobInv', NEW a \in Alert, Covered(a), NEW e,
           sends'[a] = sends[a] + 1, excuses'[a] = excuses[a],
           \/ /\ e \in Strays(a) /\ Strays(a)' \subseteq Strays(a) \ {e}
              /\ MaySend(a)' => MaySend(a)
           \/ Strays(a)' \subseteq Strays(a) /\ MaySend(a) /\ ~MaySend(a)'
    PROVE  Covered(a)'
<1> DEFINE S == Strays(a)
           T == Strays(a)'
<1>1. S \in SUBSET Executors /\ T \in SUBSET Executors
  BY DEF Strays
<1>2. Cardinality(S) \in Nat /\ Cardinality(T) \in Nat /\ IsFiniteSet(S)
  BY <1>1, StraysAreFew
<1>3. T \subseteq S => Cardinality(T) <= Cardinality(S)
  BY <1>2, FS_Subset
<1>4. e \in S /\ T \subseteq S \ {e} => Cardinality(T) <= Cardinality(S) - 1
  <2>1. /\ IsFiniteSet(S \ {e})
        /\ e \in S => Cardinality(S \ {e}) = Cardinality(S) - 1
    BY <1>2, FS_RemoveElement
  <2>2. T \subseteq S \ {e} => Cardinality(T) <= Cardinality(S \ {e})
    BY <2>1, FS_Subset
  <2> QED
    BY <1>2, <2>1, <2>2
<1>5. sends[a] \in Nat /\ excuses[a] \in Nat
  BY DEF JobInv, TypeOK
<1>6. sends[a] + Cardinality(S) + (IF MaySend(a) THEN 1 ELSE 0) <= 1 + excuses[a]
  BY DEF Covered
<1>7. SUFFICES sends'[a] + Cardinality(T) + (IF MaySend(a)' THEN 1 ELSE 0) <= 1 + excuses'[a]
  BY DEF Covered
<1> HIDE DEF S, T
<1>8. \/ Cardinality(T) <= Cardinality(S) - 1 /\ (MaySend(a)' => MaySend(a))
      \/ Cardinality(T) <= Cardinality(S) /\ MaySend(a) /\ ~MaySend(a)'
  BY <1>3, <1>4 DEF S, T
<1> QED
  BY <1>2, <1>5, <1>6, <1>8

\* Steps that touch neither executions nor deliveries change nothing here.
LEMMA QuietCovers ==
    ASSUME SendsAreCovered, UNCHANGED <<hook, delivered, owner, execs, sends, excuses>>
    PROVE  SendsAreCovered'
<1>1. \A a \in Alert : Strays(a)' = Strays(a) /\ (MaySend(a)' <=> MaySend(a))
  BY DEF Strays, MaySend, OwnerAt, execs
<1> QED
  BY <1>1 DEF SendsAreCovered, Covered

\* With the monitor, deliveries go, each with an excuse for its alert.
LEMMA HookCovers ==
    ASSUME JobInv, JobInv', SendsAreCovered, PatchHook \/ DeleteMonitor
    PROVE  SendsAreCovered'
<1> SUFFICES ASSUME NEW a \in Alert PROVE Covered(a)'
  BY DEF SendsAreCovered
<1>1. Covered(a)
  BY DEF SendsAreCovered
<1>2. /\ Strays(a)' = Strays(a) /\ sends' = sends
      /\ UNCHANGED <<owner, at, work>>
  BY DEF PatchHook, DeleteMonitor, queue, execs, Strays
<1>3. CASE PatchHook
  <2>1. MaySend(a)' => MaySend(a)
    BY <1>2, <1>3 DEF PatchHook, MaySend, OwnerAt
  <2> QED
    BY <1>1, <1>2, <1>3, <2>1, SameRoom DEF PatchHook
<1>4. CASE DeleteMonitor /\ a \in delivered
  BY <1>1, <1>2, <1>4, ExcusedRoom DEF DeleteMonitor
<1>5. CASE DeleteMonitor /\ a \notin delivered
  <2>1. MaySend(a)' => MaySend(a)
    BY <1>2, <1>5 DEF DeleteMonitor, MaySend, OwnerAt
  <2> QED
    BY <1>1, <1>2, <1>5, <2>1, SameRoom DEF DeleteMonitor
<1> QED
  BY <1>3, <1>4, <1>5

\* A lost lock makes a stray of the owner, with an excuse; a death lets a
\* stalled job be taken again.
LEMMA StallCovers ==
    ASSUME JobInv, JobInv', SendsAreCovered, NEW a \in Alert, OwnerDied(a) \/ LockExpires(a)
    PROVE  SendsAreCovered'
<1>1. CASE OwnerDied(a)
  <2>1. owner' = owner
    BY <1>1 DEF OwnerDied, Stalled, JobInv, TypeOK
  <2> QED
    BY <1>1, <2>1, QuietCovers DEF OwnerDied, Stalled
<1>2. CASE LockExpires(a)
  <2> SUFFICES ASSUME NEW b \in Alert PROVE Covered(b)'
    BY DEF SendsAreCovered
  <2>1. Covered(b)
    BY DEF SendsAreCovered
  <2>2. /\ UNCHANGED <<at, work, hook, delivered, sends>>
        /\ owner' = [owner EXCEPT ![a] = None] /\ excuses' = [excuses EXCEPT ![a] = @ + 1]
    BY <1>2 DEF LockExpires, Stalled, Excuse, execs
  <2>3. CASE b # a
    <3>1. Strays(b)' = Strays(b) /\ (MaySend(b)' <=> MaySend(b))
      BY <2>2, <2>3 DEF Strays, MaySend, OwnerAt, JobInv, TypeOK
    <3> QED
      BY <2>1, <2>2, <2>3, <3>1, SameRoom DEF JobInv, TypeOK
  <2>4. CASE b = a
    <3>1. sends'[a] = sends[a] /\ excuses'[a] = excuses[a] + 1
      BY <2>2 DEF JobInv, TypeOK
    <3>2. CASE at[owner[a]] = "record"
      <4>1. Strays(a)' \subseteq Strays(a)
        BY <2>2, <3>2 DEF Strays, JobInv, TypeOK
      <4> QED
        BY <2>1, <2>4, <3>1, <4>1, ExcusedRoom
    <3>3. CASE at[owner[a]] # "record"
      <4>1. Strays(a)' \subseteq Strays(a) \union {owner[a]}
        BY <2>2 DEF Strays, JobInv, TypeOK
      <4>2. MaySend(a)' => MaySend(a)
        BY <2>2, <3>3 DEF MaySend, OwnerAt, JobInv, TypeOK
      <4> QED
        BY <2>1, <2>4, <3>1, <4>1, <4>2, ExcusedRoom
    <3> QED
      BY <3>2, <3>3
  <2> QED
    BY <2>3, <2>4
<1> QED
  BY <1>1, <1>2

LEMMA TakeCovers ==
    ASSUME JobInv, JobInv', SendsAreCovered, NEW e \in Executors, NEW a \in Alert, Take(e, a)
    PROVE  SendsAreCovered'
<1> SUFFICES ASSUME NEW b \in Alert PROVE Covered(b)'
  BY DEF SendsAreCovered
<1>1. owner[a] = None /\ owner' = [owner EXCEPT ![a] = e]
  BY DEF Take, JobInv, TypeOK
<1>2. /\ at[e] = "idle" /\ at' = [at EXCEPT ![e] = "load"]
      /\ work[e] = None /\ work' = [work EXCEPT ![e] = a]
      /\ UNCHANGED <<hook, delivered, sends, excuses>>
  BY DEF Take, JobInv, WorkIsKnown, history
<1>3. \A c \in Alert : owner[c] # e
  BY <1>2, AlertAssumptions DEF JobInv, WorkIsKnown
<1>4. Strays(b)' \subseteq Strays(b)
  BY <1>1, <1>2, AlertAssumptions DEF Strays, JobInv, TypeOK
<1>5. MaySend(b)' => MaySend(b)
  BY <1>1, <1>2, <1>3 DEF MaySend, OwnerAt, JobInv, TypeOK
<1> QED
  BY <1>2, <1>4, <1>5, SameRoom DEF SendsAreCovered

LEMMA DieCovers ==
    ASSUME JobInv, JobInv', SendsAreCovered, NEW e \in Executors, Die(e)
    PROVE  SendsAreCovered'
<1> SUFFICES ASSUME NEW b \in Alert PROVE Covered(b)'
  BY DEF SendsAreCovered
<1>1. Covered(b) /\ work[e] \in Alert
  BY WorkIsAlert DEF SendsAreCovered, Die
<1>2. /\ at' = [at EXCEPT ![e] = "idle"] /\ work' = [work EXCEPT ![e] = None]
      /\ owner' = [a \in Alert |-> IF owner[a] = e THEN None ELSE owner[a]]
      /\ UNCHANGED <<hook, delivered, sends>>
  BY DEF Die
<1>3. Strays(b)' \subseteq Strays(b)
  BY <1>2 DEF Strays, JobInv, TypeOK
<1>4. CASE at[e] = "record" /\ b = work[e]
  <2>1. excuses'[b] = excuses[b] + 1
    BY <1>1, <1>4 DEF Die, Excuse, JobInv, TypeOK
  <2> QED
    BY <1>1, <1>2, <1>3, <2>1, ExcusedRoom
<1>5. CASE ~(at[e] = "record" /\ b = work[e])
  <2>1. excuses'[b] = excuses[b]
    BY <1>1, <1>5 DEF Die, Excuse, JobInv, TypeOK
  <2>2. owner[b] = e => b = work[e]
    BY DEF JobInv, WorkIsKnown
  <2>3. MaySend(b)' => MaySend(b)
    <3>1. CASE owner[b] = e
      BY <1>2, <1>5, <2>2, <3>1 DEF MaySend, OwnerAt, JobInv, TypeOK
    <3>2. CASE owner[b] # e
      <4>1. owner'[b] = owner[b] /\ (owner[b] # None => at'[owner[b]] = at[owner[b]])
        BY <1>2, <3>2 DEF JobInv, TypeOK
      <4> QED
        BY <1>2, <4>1 DEF MaySend, OwnerAt
    <3> QED
      BY <3>1, <3>2
  <2> QED
    BY <1>1, <1>2, <1>3, <2>1, <2>3, SameRoom
<1> QED
  BY <1>4, <1>5

\* A step of the handler touches nobody else's alert.
LEMMA OthersAreCovered ==
    ASSUME JobInv, JobInv', SendsAreCovered, NEW e \in Executors, at[e] # "idle",
           NEW b \in Alert, b # work[e],
           \A f \in Executors : f # e => at'[f] = at[f] /\ work'[f] = work[f],
           work'[e] \in {work[e], None},
           owner'[b] = owner[b], hook' = hook, b \in delivered' <=> b \in delivered,
           sends'[b] = sends[b], excuses'[b] = excuses[b]
    PROVE  Covered(b)'
<1>1. Covered(b)
  BY DEF SendsAreCovered
<1>2. owner[b] # e
  BY DEF JobInv, WorkIsKnown
<1>3. Strays(b)' \subseteq Strays(b)
  BY AlertAssumptions DEF Strays
<1>4. owner[b] # None => at'[owner[b]] = at[owner[b]]
  BY <1>2 DEF JobInv, TypeOK
<1>5. MaySend(b)' => MaySend(b)
  BY <1>4 DEF MaySend, OwnerAt
<1> QED
  BY <1>1, <1>3, <1>5, SameRoom

\* An execution that goes on: a stray past its send is one no more.
LEMMA ContinueOwn ==
    ASSUME JobInv, NEW e \in Executors, at[e] # "idle", NEW a \in Alert, a = work[e],
           NEW next \in {"check", "send", "record", "finish"}, Continue(e, next), owner' = owner
    PROVE  /\ at' = [at EXCEPT ![e] = next]
           /\ \A f \in Executors : f # e => at'[f] = at[f] /\ work'[f] = work[f]
           /\ work'[e] = work[e]
           /\ at[e] \in {"load", "check", "send"} => Strays(a)' \subseteq Strays(a)
           /\ next \in {"record", "finish"} => Strays(a)' \subseteq Strays(a) \ {e}
<1>1. /\ at' = [at EXCEPT ![e] = next] /\ work' = work
      /\ \A f \in Executors : f # e => at'[f] = at[f]
      /\ at'[e] = next
  BY DEF Continue, JobInv, TypeOK
<1> QED
  BY <1>1 DEF Strays

\* One that ends is no stray, and has no job.
LEMMA LeaveOwn ==
    ASSUME JobInv, NEW e \in Executors, at[e] # "idle", NEW a \in Alert, a = work[e],
           NEW outcome, NEW tries, Leave(e, outcome, tries)
    PROVE  /\ \A f \in Executors : f # e => at'[f] = at[f] /\ work'[f] = work[f]
           /\ work'[e] = None
           /\ \A b \in Alert : b # a => owner'[b] = owner[b]
           /\ Strays(a)' \subseteq Strays(a) \ {e}
           /\ owner'[a] = IF owner[a] = e THEN None ELSE owner[a]
<1>1. /\ at' = [at EXCEPT ![e] = "idle"] /\ work' = [work EXCEPT ![e] = None]
      /\ owner' = [owner EXCEPT ![a] = IF owner[a] = e THEN None ELSE @]
  BY DEF Leave
<1>2. /\ \A f \in Executors : f # e => at'[f] = at[f] /\ work'[f] = work[f]
      /\ at'[e] = "idle" /\ work'[e] = None
  BY <1>1 DEF JobInv, TypeOK
<1>3. /\ owner'[a] = IF owner[a] = e THEN None ELSE owner[a]
      /\ \A b \in Alert : b # a => owner'[b] = owner[b]
  BY <1>1 DEF JobInv, TypeOK
<1>4. Strays(a)' \subseteq Strays(a) \ {e}
  BY <1>2, <1>3 DEF Strays
<1> QED
  BY <1>2, <1>3, <1>4

\* After it ended, the alert may be sent only if it was not delivered.
LEMMA LeaveClosed ==
    ASSUME JobInv, NEW e \in Executors, at[e] # "idle", NEW a \in Alert, a = work[e],
           NEW outcome, NEW tries, Leave(e, outcome, tries), UNCHANGED <<hook, delivered>>,
           owner[a] = e => at[e] # "record" \/ hook = "deleted"
    PROVE  MaySend(a)' => MaySend(a)
<1>1. /\ \A f \in Executors : f # e => at'[f] = at[f]
      /\ owner'[a] = IF owner[a] = e THEN None ELSE owner[a]
  BY LeaveOwn
<1>2. CASE owner[a] = e
  BY <1>1, <1>2 DEF MaySend, OwnerAt
<1>3. CASE owner[a] # e
  <2>1. owner'[a] = owner[a] /\ (owner[a] # None => at'[owner[a]] = at[owner[a]])
    BY <1>1, <1>3 DEF JobInv, TypeOK
  <2> QED
    BY <2>1 DEF MaySend, OwnerAt
<1> QED
  BY <1>2, <1>3

LEMMA HandlerCovers ==
    ASSUME JobInv, JobInv', SendsAreCovered, NEW e \in Executors, HandlerStep(e)
    PROVE  SendsAreCovered'
<1> USE DEF queue, history
<1>1. at[e] # "idle"
  BY DEF HandlerStep, LoadContext, CheckDelivery, SendAccepted, SendUnanswered, SendRefused, ReadFails,
         SendHopeless, RecordDelivery, RecordFails, Finish
<1>2. PICK a \in Alert : a = work[e]
  BY <1>1, WorkIsAlert
<1>3. /\ hook' = hook
      /\ \A b \in Alert : b # a => /\ b \in delivered' <=> b \in delivered
                                   /\ sends'[b] = sends[b] /\ excuses'[b] = excuses[b]
  BY <1>2 DEF HandlerStep, LoadContext, CheckDelivery, SendAccepted, SendUnanswered, SendRefused, ReadFails,
         SendHopeless, RecordDelivery, RecordFails, Finish, Received, Excuse, JobInv, TypeOK
<1>4. \/ \E next \in {"check", "send", "record", "finish"} : Continue(e, next) /\ owner' = owner
      \/ \E outcome \in {"delayed", "failed", "completed"} : Leave(e, outcome, 1)
  BY DEF HandlerStep, LoadContext, CheckDelivery, SendAccepted, SendUnanswered, SendRefused, ReadFails,
         SendHopeless, RecordDelivery, RecordFails, Finish, Retry
<1>5. /\ \A f \in Executors : f # e => at'[f] = at[f] /\ work'[f] = work[f]
      /\ work'[e] \in {work[e], None}
      /\ \A b \in Alert : b # a => owner'[b] = owner[b]
  BY <1>1, <1>2, <1>4, ContinueOwn, LeaveOwn
<1>6. ASSUME NEW b \in Alert, b # a PROVE Covered(b)'
  BY <1>1, <1>2, <1>3, <1>5, <1>6, OthersAreCovered
<1>7. SUFFICES Covered(a)'
  BY <1>6 DEF SendsAreCovered
<1>8. Covered(a) /\ sends \in [Alert -> Nat] /\ excuses \in [Alert -> Nat]
  BY DEF SendsAreCovered, JobInv, TypeOK
<1>9. CASE LoadContext(e)
  <2>1. PICK next \in {"check", "finish"} : Continue(e, next) /\ (next = "check" => hook = "set")
    BY <1>9 DEF LoadContext
  <2>2. /\ at[e] = "load" /\ UNCHANGED <<delivered, owner, sends, excuses>>
    BY <1>9 DEF LoadContext
  <2>3. Strays(a)' \subseteq Strays(a) /\ at' = [at EXCEPT ![e] = next]
    BY <1>1, <1>2, <2>1, <2>2, ContinueOwn
  <2>4. MaySend(a)' => MaySend(a)
    BY <1>3, <2>1, <2>2, <2>3 DEF MaySend, OwnerAt, JobInv, TypeOK
  <2> QED
    BY <1>8, <2>2, <2>3, <2>4, SameRoom
<1>10. CASE CheckDelivery(e)
  <2>1. PICK next \in {"send", "finish"} : Continue(e, next) /\ (next = "send" => a \notin delivered)
    BY <1>2, <1>10 DEF CheckDelivery, hasDelivery
  <2>2. /\ at[e] = "check" /\ UNCHANGED <<delivered, owner, sends, excuses>>
    BY <1>10 DEF CheckDelivery
  <2>3. Strays(a)' \subseteq Strays(a) /\ at' = [at EXCEPT ![e] = next]
    BY <1>1, <1>2, <2>1, <2>2, ContinueOwn
  <2>4. MaySend(a)' => MaySend(a)
    BY <1>3, <2>1, <2>2, <2>3 DEF MaySend, OwnerAt, JobInv, TypeOK
  <2> QED
    BY <1>8, <2>2, <2>3, <2>4, SameRoom
<1>11. CASE SendAccepted(e)
  <2>1. /\ at[e] = "send" /\ Continue(e, "record") /\ UNCHANGED <<delivered, owner, excuses>>
        /\ sends'[a] = sends[a] + 1
    BY <1>2, <1>8, <1>11 DEF SendAccepted, Received
  <2>2. Strays(a)' \subseteq Strays(a) \ {e} /\ at' = [at EXCEPT ![e] = "record"]
    BY <1>1, <1>2, <2>1, ContinueOwn
  <2>3. CASE owner[a] = e
    <3>1. MaySend(a)
      BY <1>2, <2>1, <2>3, AlertAssumptions DEF MaySend, OwnerAt
    <3>2. ~MaySend(a)'
      BY <2>1, <2>2, <2>3, AlertAssumptions DEF MaySend, OwnerAt, JobInv, TypeOK
    <3> QED
      BY <1>8, <2>1, <2>2, <3>1, <3>2, SendUsesRoom
  <2>4. CASE owner[a] # e
    <3>1. e \in Strays(a)
      BY <1>2, <2>1, <2>4 DEF Strays
    <3>2. MaySend(a)' => MaySend(a)
      BY <1>3, <2>1, <2>2, <2>4 DEF MaySend, OwnerAt, JobInv, TypeOK
    <3> QED
      BY <1>8, <2>1, <2>2, <3>1, <3>2, SendUsesRoom
  <2> QED
    BY <2>3, <2>4
<1>12. CASE SendUnanswered(e) \/ SendRefused(e) \/ ReadFails(e) \/ SendHopeless(e) \/ Finish(e)
  <2>1. PICK outcome \in {"delayed", "failed", "completed"} : Leave(e, outcome, 1)
    BY <1>12 DEF SendUnanswered, SendRefused, ReadFails, SendHopeless, Finish, Retry
  <2>2. UNCHANGED <<hook, delivered>> /\ at[e] # "record"
    BY <1>12 DEF SendUnanswered, SendRefused, ReadFails, SendHopeless, Finish
  <2>3. Strays(a)' \subseteq Strays(a) /\ (MaySend(a)' => MaySend(a))
    BY <1>1, <1>2, <2>1, <2>2, LeaveOwn, LeaveClosed
  <2>4. \/ sends'[a] = sends[a] /\ excuses'[a] = excuses[a]
        \/ sends'[a] = sends[a] + 1 /\ excuses'[a] = excuses[a] + 1
    BY <1>2, <1>8, <1>12 DEF SendUnanswered, SendRefused, ReadFails, SendHopeless, Finish, Received, Excuse
  <2> QED
    BY <1>8, <2>3, <2>4, SameRoom
<1>13. CASE RecordDelivery(e)
  <2>1. at[e] = "record" /\ UNCHANGED <<sends, excuses>>
    BY <1>13 DEF RecordDelivery
  <2>2. CASE delivered' = delivered \union {a} /\ Continue(e, "finish") /\ owner' = owner
    <3>1. Strays(a)' \subseteq Strays(a) /\ at' = [at EXCEPT ![e] = "finish"]
      BY <1>1, <1>2, <2>2, ContinueOwn
    <3>2. MaySend(a)' => MaySend(a)
      BY <2>2, <3>1 DEF MaySend, OwnerAt, JobInv, TypeOK
    <3> QED
      BY <1>8, <2>1, <3>1, <3>2, SameRoom
  <2>3. CASE hook = "deleted" /\ Retry(e) /\ UNCHANGED delivered
    <3>1. PICK outcome \in {"delayed", "failed"} : Leave(e, outcome, 1)
      BY <2>3 DEF Retry
    <3>2. Strays(a)' \subseteq Strays(a) /\ (MaySend(a)' => MaySend(a))
      BY <1>1, <1>2, <1>3, <2>3, <3>1, LeaveOwn, LeaveClosed
    <3> QED
      BY <1>8, <2>1, <3>2, SameRoom
  <2> QED
    BY <1>2, <1>13, <2>2, <2>3 DEF RecordDelivery
<1>14. CASE RecordFails(e)
  <2>1. PICK outcome \in {"delayed", "failed"} : Leave(e, outcome, 1)
    BY <1>14 DEF RecordFails, Retry
  <2>2. sends'[a] = sends[a] /\ excuses'[a] = excuses[a] + 1
    BY <1>2, <1>8, <1>14 DEF RecordFails, Excuse
  <2>3. Strays(a)' \subseteq Strays(a)
    BY <1>1, <1>2, <2>1, LeaveOwn
  <2> QED
    BY <1>8, <2>2, <2>3, ExcusedRoom
<1> QED
  BY <1>9, <1>10, <1>11, <1>12, <1>13, <1>14 DEF HandlerStep

LEMMA CoveredStep == JobInv /\ JobInv' /\ SendsAreCovered /\ [Next]_vars => SendsAreCovered'
<1> SUFFICES ASSUME JobInv, JobInv', SendsAreCovered, [Next]_vars PROVE SendsAreCovered'
  OBVIOUS
<1>1. CASE UNCHANGED vars
  BY <1>1, QuietCovers DEF vars, queue, execs, history
<1>2. ASSUME NEW a \in Alert,
             \/ Commit(a) \/ TimePasses(a, "fresh", "due") \/ TimePasses(a, "due", "old")
             \/ CheckEnqueues(a) \/ CheckDies(a) \/ BackoffOver(a) \/ Evict(a)
      PROVE  SendsAreCovered'
  BY <1>2, QuietCovers DEF Commit, TimePasses, CheckEnqueues, enqueueAlert, CheckDies, BackoffOver,
                           Evict, queue, history
<1>3. ASSUME NEW s \in Sweepers, SweepLists(s) \/ SweepEnqueues(s) \/ SweepFails(s)
      PROVE  SendsAreCovered'
  BY <1>3, QuietCovers DEF SweepLists, SweepEnqueues, enqueueAlert, SweepFails, queue, history
<1>4. CASE Next
  BY <1>2, <1>3, <1>4, HookCovers, StallCovers, TakeCovers, HandlerCovers, DieCovers DEF Next
<1> QED
  BY <1>1, <1>4

\* However stalls, retries, lost locks, sweeps, evictions and the deletion of
\* the monitor meet, each send of an alert after the first has its excuse.
THEOREM RepeatsHaveReasons == Spec => []RepeatsExplained
<1>1. JobInv /\ SendsAreCovered => RepeatsExplained
  <2> SUFFICES ASSUME JobInv, SendsAreCovered, NEW a \in Alert PROVE sends[a] <= 1 + excuses[a]
    BY DEF RepeatsExplained
  <2>1. Cardinality(Strays(a)) \in Nat
    BY StraysAreFew DEF Strays
  <2>2. sends[a] \in Nat /\ excuses[a] \in Nat
    BY DEF JobInv, TypeOK
  <2> QED
    BY <2>1, <2>2 DEF SendsAreCovered, Covered
<1> QED
  BY CoveredInit, CoveredStep, JobInvHolds, <1>1, PTL DEF Spec

-----------------------------------------------------------------------------
(***************************************************************************)
(* Alerts implements AlertLog.  What the handler has loaded and not ended   *)
(* yet is in hand; that it works on a committed alert, and records one the  *)
(* receiver has got, is invariant.                                          *)
(***************************************************************************)
Committed == {a \in Alert : age[a] # "none"}
Delivering == {e \in Executors : at[e] \in {"check", "send", "record"}}
InHand == {work[e] : e \in Delivering}
Got == {a \in Alert : sends[a] > 0}

\* An alert that is owed, queued, listed or worked on has been committed.
NothingUncommitted ==
    /\ owed \subseteq Committed
    /\ \A a \in Alert : job[a] # "absent" => a \in Committed
    /\ \A s \in Sweepers : batch[s] \subseteq Committed
    /\ \A e \in Executors : at[e] # "idle" => work[e] \in Committed

SentBeforeRecord == \A e \in Executors : at[e] = "record" => work[e] \in Got

LogInv == JobInv /\ NothingUncommitted /\ SentBeforeRecord

LEMMA LogInvInit == Init => NothingUncommitted /\ SentBeforeRecord
BY DEF Init, NothingUncommitted, SentBeforeRecord, Committed

\* What was committed or got stays so.
LEMMA AlertHistoryGrows ==
    ASSUME JobInv, NEW a \in Alert,
           \/ Commit(a) \/ TimePasses(a, "fresh", "due") \/ TimePasses(a, "due", "old")
    PROVE  Committed \subseteq Committed'
BY DEF Commit, TimePasses, Committed, JobInv, TypeOK

\* Steps elsewhere: no execution moves, and what is owed, queued or listed
\* afterwards was committed.
LEMMA QuietLogs ==
    ASSUME NothingUncommitted, SentBeforeRecord, UNCHANGED <<execs, sends>>,
           Committed \subseteq Committed', owed' \subseteq Committed',
           \A a \in Alert : job'[a] # "absent" => a \in Committed',
           \A s \in Sweepers : batch'[s] \subseteq Committed'
    PROVE  NothingUncommitted' /\ SentBeforeRecord'
<1>1. NothingUncommitted'
  BY DEF NothingUncommitted, execs
<1>2. SentBeforeRecord'
  BY DEF SentBeforeRecord, Got, execs
<1> QED
  BY <1>1, <1>2

LEMMA AlertLogs ==
    ASSUME LogInv, NEW a \in Alert,
           \/ Commit(a) \/ TimePasses(a, "fresh", "due") \/ TimePasses(a, "due", "old")
           \/ CheckEnqueues(a) \/ CheckDies(a)
           \/ OwnerDied(a) \/ LockExpires(a) \/ BackoffOver(a) \/ Evict(a)
    PROVE  NothingUncommitted' /\ SentBeforeRecord'
<1> USE DEF LogInv
<1>1. CASE \/ Commit(a) \/ TimePasses(a, "fresh", "due") \/ TimePasses(a, "due", "old")
  <2>1. UNCHANGED <<execs, sends, job, batch>> /\ owed' \subseteq owed \union {a}
    BY <1>1 DEF Commit, TimePasses, queue, history
  <2>2. Committed \subseteq Committed' /\ a \in Committed'
    BY <1>1, AlertHistoryGrows DEF Commit, TimePasses, Committed, JobInv, TypeOK
  <2> QED
    BY <2>1, <2>2, QuietLogs DEF NothingUncommitted
<1>2. CASE \/ CheckEnqueues(a) \/ CheckDies(a) \/ OwnerDied(a) \/ LockExpires(a)
           \/ BackoffOver(a) \/ Evict(a)
  <2>1. UNCHANGED <<execs, sends, age, batch>> /\ owed' \subseteq owed
    BY <1>2 DEF CheckEnqueues, CheckDies, OwnerDied, LockExpires, Stalled, BackoffOver, Evict, history
  <2>2. a \in owed \/ job[a] # "absent"
    BY <1>2 DEF CheckEnqueues, CheckDies, OwnerDied, LockExpires, Stalled, BackoffOver, Evict
  <2>3. \A b \in Alert : b # a => job'[b] = job[b]
    BY <1>2 DEF CheckEnqueues, enqueueAlert, CheckDies, OwnerDied, LockExpires, Stalled, BackoffOver,
                Evict, queue, JobInv, TypeOK
  <2>4. Committed' = Committed
    BY <2>1 DEF Committed
  <2> QED
    BY <2>1, <2>2, <2>3, <2>4, QuietLogs DEF NothingUncommitted
<1> QED
  BY <1>1, <1>2

LEMMA SweepLogs ==
    ASSUME LogInv, NEW s \in Sweepers, SweepLists(s) \/ SweepEnqueues(s) \/ SweepFails(s)
    PROVE  NothingUncommitted' /\ SentBeforeRecord'
<1> USE DEF LogInv
<1>1. UNCHANGED <<execs, sends, age, owed>> /\ Committed' = Committed
  BY DEF SweepLists, SweepEnqueues, SweepFails, history, Committed
<1>2. CASE SweepLists(s)
  <2>1. listUndelivered \subseteq Committed
    BY DEF listUndelivered, Committed
  <2>2. \A z \in Sweepers : batch'[z] \subseteq Committed
    BY <1>2, <2>1 DEF SweepLists, NothingUncommitted, JobInv, TypeOK
  <2> QED
    BY <1>1, <1>2, <2>2, QuietLogs DEF SweepLists, queue, NothingUncommitted
<1>3. CASE SweepEnqueues(s)
  <2>1. PICK b \in batch[s] : enqueueAlert(b) /\ batch' = [batch EXCEPT ![s] = @ \ {b}]
    BY <1>3 DEF SweepEnqueues
  <2>2. \A z \in Sweepers : batch'[z] \subseteq Committed
    BY <2>1 DEF NothingUncommitted, JobInv, TypeOK
  <2>3. \A a \in Alert : job'[a] # "absent" => a \in Committed
    BY <2>1 DEF enqueueAlert, NothingUncommitted, JobInv, TypeOK
  <2> QED
    BY <1>1, <2>2, <2>3, QuietLogs DEF NothingUncommitted
<1>4. CASE SweepFails(s)
  <2>1. \A z \in Sweepers : batch'[z] \subseteq Committed
    BY <1>4 DEF SweepFails, NothingUncommitted, JobInv, TypeOK
  <2> QED
    BY <1>1, <1>4, <2>1, QuietLogs DEF SweepFails, queue, NothingUncommitted
<1> QED
  BY <1>2, <1>3, <1>4

\* What one execution's step does to the others and to its own alert.
LEMMA HandlerMoves ==
    ASSUME JobInv, NEW e \in Executors, HandlerStep(e) \/ Die(e)
    PROVE  /\ at[e] # "idle" /\ work[e] \in Alert
           /\ \A f \in Executors : f # e => at'[f] = at[f] /\ work'[f] = work[f]
           /\ at'[e] = "idle" \/ work'[e] = work[e]
           /\ \A a \in Alert : job'[a] # "absent" => job[a] # "absent"
           /\ UNCHANGED <<hook, age, owed, batch>>
<1> USE DEF queue, history
<1>1. at[e] # "idle"
  BY DEF HandlerStep, LoadContext, CheckDelivery, SendAccepted, SendUnanswered, SendRefused, ReadFails,
         SendHopeless, RecordDelivery, RecordFails, Finish, Die
<1>2. work[e] \in Alert
  BY <1>1, WorkIsAlert
<1>3. UNCHANGED <<hook, age, owed, batch>>
  BY DEF HandlerStep, LoadContext, CheckDelivery, SendAccepted, SendUnanswered, SendRefused, ReadFails,
         SendHopeless, RecordDelivery, RecordFails, Finish, Die
<1>4. \/ \E next : Continue(e, next) /\ job' = job
      \/ \E outcome, tries : Leave(e, outcome, tries)
      \/ Die(e)
  BY DEF HandlerStep, LoadContext, CheckDelivery, SendAccepted, SendUnanswered, SendRefused, ReadFails,
         SendHopeless, RecordDelivery, RecordFails, Finish, Retry
<1>5. CASE \E next : Continue(e, next) /\ job' = job
  BY <1>1, <1>2, <1>3, <1>5 DEF Continue, JobInv, TypeOK
<1>6. CASE \E outcome, tries : Leave(e, outcome, tries)
  <2>1. PICK outcome, tries : Leave(e, outcome, tries)
    BY <1>6
  <2>2. /\ at' = [at EXCEPT ![e] = "idle"] /\ work' = [work EXCEPT ![e] = None]
        /\ job' = [job EXCEPT ![work[e]] = IF owner[work[e]] = e THEN outcome ELSE @]
    BY <2>1 DEF Leave
  <2>3. owner[work[e]] = e => job[work[e]] = "active"
    BY <1>2, AlertAssumptions DEF JobInv, TypeOK
  <2> QED
    BY <1>1, <1>2, <1>3, <2>2, <2>3 DEF JobInv, TypeOK
<1>7. CASE Die(e)
  BY <1>1, <1>2, <1>3, <1>7 DEF Die, JobInv, TypeOK
<1> QED
  BY <1>4, <1>5, <1>6, <1>7

\* An execution gets to its record by a send that was accepted.
LEMMA HandlerLogs ==
    ASSUME LogInv, NEW e \in Executors, HandlerStep(e) \/ Die(e)
    PROVE  NothingUncommitted' /\ SentBeforeRecord' /\ Got \subseteq Got'
<1> USE DEF LogInv
<1>1. /\ at[e] # "idle" /\ work[e] \in Alert
      /\ \A f \in Executors : f # e => at'[f] = at[f] /\ work'[f] = work[f]
      /\ at'[e] = "idle" \/ work'[e] = work[e]
      /\ \A a \in Alert : job'[a] # "absent" => job[a] # "absent"
      /\ UNCHANGED <<hook, age, owed, batch>>
  BY HandlerMoves
<1>2. NothingUncommitted'
  BY <1>1 DEF NothingUncommitted, Committed
<1>3. sends \in [Alert -> Nat]
  BY DEF JobInv, TypeOK
<1>4. sends' = sends \/ Received(work[e])
  BY DEF HandlerStep, LoadContext, CheckDelivery, SendAccepted, SendUnanswered, SendRefused, ReadFails,
         SendHopeless, RecordDelivery, RecordFails, Finish, Die, history
<1>5. Got \subseteq Got' /\ (Received(work[e]) => work[e] \in Got')
  BY <1>1, <1>3, <1>4 DEF Got, Received
<1>6. at'[e] = "record" => Received(work[e])
  BY <1>1 DEF HandlerStep, LoadContext, CheckDelivery, SendAccepted, SendUnanswered, SendRefused, ReadFails,
         SendHopeless, RecordDelivery, RecordFails, Finish, Die, Retry, Leave, Continue, JobInv, TypeOK
<1>7. SentBeforeRecord'
  BY <1>1, <1>5, <1>6 DEF SentBeforeRecord
<1> QED
  BY <1>2, <1>5, <1>7

LEMMA TakeLogs ==
    ASSUME LogInv, NEW e \in Executors, NEW a \in Alert, Take(e, a)
    PROVE  NothingUncommitted' /\ SentBeforeRecord'
<1> USE DEF LogInv, Take, history, Committed
<1>1. NothingUncommitted'
  BY DEF NothingUncommitted, JobInv, TypeOK
<1>2. SentBeforeRecord'
  BY DEF SentBeforeRecord, Got, JobInv, TypeOK
<1> QED
  BY <1>1, <1>2

LEMMA HookLogs ==
    ASSUME LogInv, PatchHook \/ DeleteMonitor PROVE NothingUncommitted' /\ SentBeforeRecord'
<1>1. UNCHANGED <<age, owed, job, batch, execs, sends>>
  BY DEF PatchHook, DeleteMonitor, queue
<1> QED
  BY <1>1 DEF LogInv, NothingUncommitted, SentBeforeRecord, Committed, Got, execs

LEMMA LogInvStep == LogInv /\ [Next]_vars => LogInv'
<1> SUFFICES ASSUME LogInv, [Next]_vars PROVE NothingUncommitted' /\ SentBeforeRecord'
  BY JobInvStep DEF LogInv
<1>1. CASE UNCHANGED vars
  BY <1>1 DEF vars, queue, execs, history, LogInv, NothingUncommitted, SentBeforeRecord, Committed, Got
<1>2. CASE Next
  BY <1>2, HookLogs, AlertLogs, SweepLogs, TakeLogs, HandlerLogs DEF Next
<1> QED
  BY <1>1, <1>2

LEMMA LogInvHolds == Spec => []LogInv
<1>1. Init => LogInv
  BY JobInvInit, LogInvInit DEF LogInv
<1> QED
  BY <1>1, LogInvStep, PTL DEF Spec

\* One execution's step takes its alert in hand, keeps it, or puts it down
\* unless another execution has it too.
LEMMA HandsMove ==
    ASSUME NEW e \in Executors, NEW a, a = work[e],
           \A f \in Executors : f # e => at'[f] = at[f] /\ work'[f] = work[f],
           e \in Delivering' => work'[e] = a
    PROVE  /\ e \in Delivering => a \in InHand
           /\ e \in Delivering' => InHand' = InHand \union {a}
           /\ e \notin Delivering' => InHand' \in {InHand, InHand \ {a}}
           /\ e \notin Delivering /\ e \notin Delivering' => InHand' = InHand
<1>1. e \in Delivering => a \in InHand
  BY DEF InHand
<1>2. \A f \in Executors : f # e => (f \in Delivering' <=> f \in Delivering)
  BY DEF Delivering
<1>3. \A x : x \in InHand <=> \E f \in Executors : f \in Delivering /\ x = work[f]
  BY DEF InHand, Delivering
<1>4. \A x : x \in InHand' <=> \E f \in Executors : f \in Delivering' /\ x = work'[f]
  BY DEF InHand, Delivering
<1>5. \A x : x # a => (x \in InHand' <=> x \in InHand)
  BY <1>2, <1>3, <1>4
<1>6. ASSUME e \in Delivering' PROVE InHand' = InHand \union {a}
  <2>1. a \in InHand'
    BY <1>4, <1>6
  <2> QED
    BY <1>5, <2>1
<1>7. ASSUME e \notin Delivering' PROVE InHand' \in {InHand, InHand \ {a}}
  <2>1. a \in InHand' => a \in InHand
    BY <1>2, <1>3, <1>4, <1>7
  <2> QED
    BY <1>5, <2>1
<1>8. ASSUME e \notin Delivering, e \notin Delivering' PROVE InHand' = InHand
  <2>1. a \in InHand' <=> a \in InHand
    BY <1>2, <1>3, <1>4, <1>8
  <2> QED
    BY <1>5, <2>1
<1> QED
  BY <1>1, <1>6, <1>7, <1>8

Unseen == UNCHANGED <<hook, Committed, InHand, Got, delivered>>

\* Putting an alert down is a step of the log, or none.
LEMMA PutDownOrUnseen ==
    ASSUME NEW a \in Alert, InHand' \in {InHand, InHand \ {a}},
           UNCHANGED <<hook, Committed, Got, delivered>>
    PROVE  Log!PutDown(a) \/ Unseen
<1>1. CASE a \in InHand /\ InHand' = InHand \ {a}
  BY <1>1 DEF Log!PutDown, Committed, InHand, Delivering, Got
<1>2. CASE InHand' = InHand
  BY <1>2 DEF Unseen
<1> QED
  BY <1>1, <1>2

LEMMA GotMore ==
    ASSUME JobInv, NEW a \in Alert, Received(a) PROVE Got' = Got \union {a}
<1>1. sends \in [Alert -> Nat] /\ sends' = [sends EXCEPT ![a] = @ + 1]
  BY DEF JobInv, TypeOK, Received
<1> QED
  BY <1>1 DEF Got

\* The handler's steps, and a worker's death.
LEMMA HandlerIsLog ==
    ASSUME LogInv, NEW e \in Executors, HandlerStep(e) \/ Die(e)
    PROVE  (\E a \in Alert : Log!TakeUp(a) \/ Log!Receive(a) \/ Log!Record(a) \/ Log!PutDown(a)) \/ Unseen
<1> USE DEF LogInv, queue, history
<1>1. PICK a \in Alert : a = work[e]
  BY HandlerMoves
<1>2. /\ at[e] # "idle"
      /\ \A f \in Executors : f # e => at'[f] = at[f] /\ work'[f] = work[f]
      /\ at'[e] = "idle" \/ work'[e] = a
      /\ UNCHANGED <<hook, age>>
  BY <1>1, HandlerMoves
<1>3. /\ e \in Delivering => a \in InHand
      /\ e \in Delivering' => InHand' = InHand \union {a}
      /\ e \notin Delivering' => InHand' \in {InHand, InHand \ {a}}
      /\ e \notin Delivering /\ e \notin Delivering' => InHand' = InHand
  <2>1. e \in Delivering' => work'[e] = a
    BY <1>2 DEF Delivering
  <2> QED
    BY <1>1, <1>2, <2>1, HandsMove
<1>4. Committed' = Committed /\ a \in Committed
  BY <1>1, <1>2 DEF Committed, NothingUncommitted
<1>5. at'[e] \in {"check", "send", "record"} <=> e \in Delivering'
  BY DEF Delivering
<1>6. at[e] \in {"check", "send", "record"} <=> e \in Delivering
  BY DEF Delivering
<1>7. CASE LoadContext(e)
  <2>1. /\ at[e] = "load" /\ UNCHANGED <<delivered, sends>>
        /\ at'[e] = IF hook = "set" THEN "check" ELSE "finish"
    BY <1>7 DEF LoadContext, Continue, JobInv, TypeOK
  <2>2. Got' = Got
    BY <2>1 DEF Got
  <2>3. CASE hook = "set"
    <3>1. InHand' = InHand \union {a}
      BY <1>3, <1>5, <2>1, <2>3
    <3> QED
      BY <1>2, <1>4, <2>1, <2>2, <2>3, <3>1 DEF Log!TakeUp, Committed, InHand, Delivering, Got
  <2>4. CASE hook # "set"
    BY <1>2, <1>3, <1>4, <1>5, <1>6, <2>1, <2>2, <2>4 DEF Unseen
  <2> QED
    BY <2>3, <2>4
<1>8. CASE \/ CheckDelivery(e) \/ SendRefused(e) \/ ReadFails(e) \/ SendHopeless(e)
           \/ RecordFails(e) \/ Finish(e) \/ Die(e)
           \/ at[e] = "record" /\ Retry(e) /\ UNCHANGED <<delivered, sends>>
  <2>1. UNCHANGED <<delivered, sends>>
    BY <1>8 DEF CheckDelivery, SendRefused, ReadFails, SendHopeless, RecordFails, Finish, Die
  <2>2. e \in Delivering' => e \in Delivering
    BY <1>5, <1>6, <1>8 DEF CheckDelivery, SendRefused, ReadFails, SendHopeless, RecordFails, Finish, Die, Retry, Leave,
                            Continue, JobInv, TypeOK
  <2>3. InHand' \in {InHand, InHand \ {a}}
    BY <1>3, <2>2
  <2> QED
    BY <1>2, <1>4, <2>1, <2>3, PutDownOrUnseen DEF Got
<1>9. CASE SendAccepted(e) \/ SendUnanswered(e)
  <2>1. at[e] = "send" /\ Received(a) /\ delivered' = delivered
    BY <1>1, <1>9 DEF SendAccepted, SendUnanswered
  <2>2. a \in InHand /\ InHand' \in {InHand, InHand \ {a}}
    BY <1>3, <1>6, <2>1
  <2>3. Got' = Got \union {a}
    BY <2>1, GotMore
  <2>4. Log!Receive(a)
    BY <1>2, <1>4, <2>1, <2>2, <2>3
       DEF Log!Receive, Log!MayPutDown, Committed, InHand, Delivering, Got
  <2> QED
    BY <2>4
<1>10. CASE RecordDelivery(e) /\ delivered' = delivered \union {work[e]} /\ Continue(e, "finish")
            /\ hook # "deleted"
  <2>1. at[e] = "record" /\ UNCHANGED sends
    BY <1>10 DEF RecordDelivery
  <2>2. a \in InHand /\ InHand' \in {InHand, InHand \ {a}}
    BY <1>3, <1>6, <2>1
  <2>3. a \in Got /\ Got' = Got
    BY <1>1, <2>1 DEF SentBeforeRecord, Got
  <2>4. Log!Record(a)
    BY <1>1, <1>2, <1>4, <1>10, <2>2, <2>3
       DEF Log!Record, Log!MayPutDown, Committed, InHand, Delivering, Got
  <2> QED
    BY <2>4
<1>11. RecordDelivery(e) =>
          \/ delivered' = delivered \union {work[e]} /\ Continue(e, "finish") /\ hook # "deleted"
          \/ at[e] = "record" /\ Retry(e) /\ UNCHANGED <<delivered, sends>>
  BY DEF RecordDelivery
<1> QED
  BY <1>7, <1>8, <1>9, <1>10, <1>11 DEF HandlerStep

\* A step under which no execution moves, nothing is sent and no record
\* changes is seen as far as it commits an alert.
LEMMA ElsewhereIsUnseen ==
    ASSUME UNCHANGED <<hook, delivered, sends, at, work>>, Committed' = Committed PROVE Unseen
BY DEF Unseen, InHand, Delivering, Got

LEMMA AlertIsLog ==
    ASSUME LogInv, NEW a \in Alert,
           \/ Commit(a) \/ TimePasses(a, "fresh", "due") \/ TimePasses(a, "due", "old")
           \/ CheckEnqueues(a) \/ CheckDies(a)
           \/ OwnerDied(a) \/ LockExpires(a) \/ BackoffOver(a) \/ Evict(a)
    PROVE  Log!Commit(a) \/ Unseen
<1> USE DEF LogInv
<1>1. UNCHANGED <<hook, delivered, sends, at, work>>
  BY DEF Commit, TimePasses, CheckEnqueues, CheckDies, OwnerDied, LockExpires, Stalled, BackoffOver,
         Evict, history, execs
<1>2. CASE Commit(a)
  <2>1. Committed' = Committed \union {a}
    BY <1>2 DEF Commit, Committed, JobInv, TypeOK
  <2>2. UNCHANGED <<InHand, Got>>
    BY <1>1 DEF InHand, Delivering, Got
  <2> QED
    BY <1>1, <1>2, <2>1, <2>2 DEF Commit, Log!Commit, Committed, InHand, Delivering, Got
<1>3. CASE ~Commit(a)
  <2>1. Committed' = Committed
    BY <1>3 DEF TimePasses, CheckEnqueues, CheckDies, OwnerDied, LockExpires, Stalled, BackoffOver,
                Evict, Committed, JobInv, TypeOK
  <2> QED
    BY <1>1, <2>1, ElsewhereIsUnseen
<1> QED
  BY <1>2, <1>3

LEMMA HookIsLog ==
    ASSUME PatchHook \/ DeleteMonitor PROVE Log!Patch \/ Log!Delete
<1>1. UNCHANGED <<Committed, InHand, Got>>
  BY DEF PatchHook, DeleteMonitor, execs, Committed, InHand, Delivering, Got
<1>2. CASE PatchHook
  BY <1>1, <1>2 DEF PatchHook, Log!Patch, Committed, InHand, Delivering, Got
<1>3. CASE DeleteMonitor
  BY <1>1, <1>3 DEF DeleteMonitor, Log!Delete, Committed, InHand, Delivering, Got
<1> QED
  BY <1>2, <1>3

LEMMA TakeIsUnseen ==
    ASSUME LogInv, NEW e \in Executors, NEW a \in Alert, Take(e, a) PROVE Unseen
<1>1. /\ at' = [at EXCEPT ![e] = "load"] /\ work' = [work EXCEPT ![e] = a] /\ at[e] = "idle"
      /\ UNCHANGED <<hook, delivered, age, sends>>
  BY DEF Take, history
<1>2. /\ \A f \in Executors : f # e => at'[f] = at[f] /\ work'[f] = work[f]
      /\ at'[e] = "load"
  BY <1>1 DEF LogInv, JobInv, TypeOK
<1>3. InHand' = InHand
  BY <1>1, <1>2, HandsMove DEF Delivering
<1> QED
  BY <1>1, <1>3 DEF Unseen, Committed, Got

LEMMA LogStep == LogInv /\ [Next]_vars => [Log!Next]_(Log!vars)
<1> SUFFICES ASSUME LogInv, [Next]_vars PROVE Log!Next \/ Unseen
  BY DEF Log!vars, Unseen, Committed, InHand, Delivering, Got
<1>1. ASSUME NEW s \in Sweepers, SweepLists(s) \/ SweepEnqueues(s) \/ SweepFails(s) PROVE Unseen
  <2>1. UNCHANGED <<hook, delivered, sends, at, work, age>>
    BY <1>1 DEF SweepLists, SweepEnqueues, SweepFails, history, execs
  <2> QED
    BY <2>1, ElsewhereIsUnseen DEF Committed
<1>2. CASE UNCHANGED vars
  BY <1>2, ElsewhereIsUnseen DEF vars, execs, history, Committed
<1>3. CASE PatchHook \/ DeleteMonitor
  BY <1>3, HookIsLog DEF Log!Next
<1>4. ASSUME NEW a \in Alert,
             \/ Commit(a) \/ TimePasses(a, "fresh", "due") \/ TimePasses(a, "due", "old")
             \/ CheckEnqueues(a) \/ CheckDies(a)
             \/ OwnerDied(a) \/ LockExpires(a) \/ BackoffOver(a) \/ Evict(a)
      PROVE  Log!Next \/ Unseen
  BY <1>4, AlertIsLog DEF Log!Next
<1>5. ASSUME NEW e \in Executors, HandlerStep(e) \/ Die(e) PROVE Log!Next \/ Unseen
  BY <1>5, HandlerIsLog DEF Log!Next
<1>6. CASE Next
  BY <1>1, <1>3, <1>4, <1>5, <1>6, TakeIsUnseen DEF Next
<1> QED
  BY <1>2, <1>6

LEMMA LogInit == Init => Log!Init
<1> SUFFICES ASSUME Init PROVE Log!Init
  OBVIOUS
<1>1. Committed = {} /\ InHand = {} /\ Got = {}
  BY DEF Init, Committed, InHand, Delivering, Got
<1> QED
  BY <1>1 DEF Init, Log!Init, Committed, InHand, Delivering, Got

\* Queue, retries, overlapping executions and crashing workers implement the
\* plain log of deliveries: nothing goes out that was not committed or was
\* taken up without a webhook, and nothing is on record that did not arrive.
THEOREM Refinement == Spec => ImplementsAlertLog
BY LogInit, LogStep, LogInvHolds, PTL DEF Spec, ImplementsAlertLog, Log!Spec
=============================================================================
