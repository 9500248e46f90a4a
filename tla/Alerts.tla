------------------------------- MODULE Alerts -------------------------------
(***************************************************************************)
(* Delivering alerts (queue/alertQueue.ts, queue/alertWorker.ts,            *)
(* services/alerts.ts, alerts/deliver.ts, alerts/sweep.ts).                 *)
(*                                                                          *)
(* An alert is one transition (opened or resolved) of one incident of one   *)
(* monitor.  It is committed with the incident, then queued by the check    *)
(* job that made the transition or, if that died, by the periodic sweep;    *)
(* workers deliver it at least once, retry, and record the delivery in      *)
(* Postgres.  The queue is BullMQ: what a job goes through outside the      *)
(* handler (stalls, backoff, eviction) is modelled from the options the     *)
(* code gives it.                                                           *)
(***************************************************************************)
EXTENDS Naturals, FiniteSets

CONSTANTS Alert,        \* (incident, event) pairs, which are also the job ids
          Executors,    \* executions of the alert handler that may overlap
          Sweepers,     \* worker processes, each with one sweep at a time
          None,
          MaxAttempts,  \* attempts: 5
          MaxStalls,    \* BullMQ's maxStalledCount, not set by the code: 1
          MaxFaults     \* bounds crashes, lost locks, lost answers, database errors

ASSUME AlertAssumptions ==
    /\ MaxAttempts \in Nat \ {0}
    /\ MaxStalls \in Nat
    /\ MaxFaults \in Nat
    /\ None \notin Executors /\ None \notin Alert
    /\ IsFiniteSet(Executors)

VARIABLES hook,       \* the monitor: set, unset (no webhook_url) or deleted
          age,        \* of each alert: none, fresh (< 2 minutes), due, old (> 24 h)
          owed,       \* alerts a check job has committed and not queued yet
          delivered,  \* the webhook_deliveries rows
          job,        \* the alert's job: absent, waiting, delayed, active, completed, failed
          attempts,   \* attemptsMade of the job
          stalls,     \* how often it stalled
          owner,      \* the execution that holds the job's lock, or None
          at,         \* where each execution is
          work,       \* the alert it works on
          batch,      \* the alerts a sweep has listed and not queued yet
          faults,
          \* History, read by no action:
          sends,      \* how often the receiver got the alert
          excuses,    \* events that entitle the alert to one more send
          unhooked    \* the monitor was without a webhook at some time

queue == <<job, attempts, stalls, owner>>
execs == <<at, work>>
history == <<sends, excuses, unhooked>>
vars == <<hook, age, owed, delivered, queue, execs, batch, faults, history>>

-----------------------------------------------------------------------------
Init ==
    /\ hook \in {"set", "unset"}
    /\ age = [a \in Alert |-> "none"]
    /\ owed = {}
    /\ delivered = {}
    /\ job = [a \in Alert |-> "absent"]
    /\ attempts = [a \in Alert |-> 0]
    /\ stalls = [a \in Alert |-> 0]
    /\ owner = [a \in Alert |-> None]
    /\ at = [e \in Executors |-> "idle"]
    /\ work = [e \in Executors |-> None]
    /\ batch = [s \in Sweepers |-> {}]
    /\ faults = 0
    /\ sends = [a \in Alert |-> 0]
    /\ excuses = [a \in Alert |-> 0]
    /\ unhooked = (hook = "unset")

Fault == faults < MaxFaults /\ faults' = faults + 1
Excuse(a) == excuses' = [excuses EXCEPT ![a] = @ + 1]

-----------------------------------------------------------------------------
(***************************************************************************)
(* The monitor, the incident and the clock.                                 *)
(***************************************************************************)
PatchHook ==
    /\ hook # "deleted"
    /\ hook' \in {"set", "unset"} \ {hook}
    /\ unhooked' = TRUE
    /\ UNCHANGED <<age, owed, delivered, queue, execs, batch, faults, sends, excuses>>

\* Incidents and deliveries go with the monitor.  An execution that has loaded
\* its context by then no longer finds that the alert was delivered.
DeleteMonitor ==
    /\ hook # "deleted"
    /\ hook' = "deleted"
    /\ delivered' = {}
    /\ unhooked' = TRUE
    /\ excuses' = [a \in Alert |-> IF a \in delivered THEN excuses[a] + 1 ELSE excuses[a]]
    /\ UNCHANGED <<age, owed, queue, execs, batch, faults, sends>>

\* recordCheck commits the transition.
Commit(a) ==
    /\ age[a] = "none"
    /\ hook # "deleted"
    /\ age' = [age EXCEPT ![a] = "fresh"]
    /\ owed' = owed \union {a}
    /\ UNCHANGED <<hook, delivered, queue, execs, batch, faults, history>>

TimePasses(a, from, to) ==
    /\ age[a] = from
    /\ age' = [age EXCEPT ![a] = to]
    /\ UNCHANGED <<hook, owed, delivered, queue, execs, batch, faults, history>>

-----------------------------------------------------------------------------
(***************************************************************************)
(* Queueing.  Adding a job whose id exists, also a finished one that is     *)
(* still kept, changes nothing.                                             *)
(***************************************************************************)
Kept_NoJobId(a) == FALSE
Kept(a) == job[a] # "absent"

enqueueAlert(a) ==
    /\ job' = [job EXCEPT ![a] = IF Kept(a) THEN @ ELSE "waiting"]
    /\ UNCHANGED <<attempts, stalls, owner>>

CheckEnqueues(a) ==
    /\ a \in owed
    /\ owed' = owed \ {a}
    /\ enqueueAlert(a)
    /\ UNCHANGED <<hook, age, delivered, execs, batch, faults, history>>

\* The check job dies between COMMIT and enqueueAlert.
CheckDies(a) ==
    /\ a \in owed
    /\ Fault
    /\ owed' = owed \ {a}
    /\ UNCHANGED <<hook, age, delivered, queue, execs, batch, history>>

listUndelivered_FreshOnly == {a \in Alert : hook = "set" /\ age[a] = "fresh" /\ a \notin delivered}
listUndelivered == {a \in Alert : hook = "set" /\ age[a] = "due" /\ a \notin delivered}

SweepLists(s) ==
    /\ batch[s] = {}
    /\ listUndelivered # {}
    /\ batch' = [batch EXCEPT ![s] = listUndelivered]
    /\ UNCHANGED <<hook, age, owed, delivered, queue, execs, faults, history>>

SweepEnqueues(s) ==
    /\ \E a \in batch[s] :
          /\ enqueueAlert(a)
          /\ batch' = [batch EXCEPT ![s] = @ \ {a}]
    /\ UNCHANGED <<hook, age, owed, delivered, execs, faults, history>>

SweepFails(s) ==
    /\ batch[s] # {}
    /\ Fault
    /\ batch' = [batch EXCEPT ![s] = {}]
    /\ UNCHANGED <<hook, age, owed, delivered, queue, execs, history>>

-----------------------------------------------------------------------------
(***************************************************************************)
(* One execution of the handler.  It may have lost its job's lock: then     *)
(* BullMQ has given the job to another, and ignores how this one ends.      *)
(***************************************************************************)
Take(e, a) ==
    /\ at[e] = "idle"
    /\ job[a] = "waiting"
    /\ job' = [job EXCEPT ![a] = "active"]
    /\ owner' = [owner EXCEPT ![a] = e]
    /\ at' = [at EXCEPT ![e] = "load"]
    /\ work' = [work EXCEPT ![e] = a]
    /\ UNCHANGED <<hook, age, owed, delivered, attempts, stalls, batch, faults, history>>

Continue(e, next) == at' = [at EXCEPT ![e] = next] /\ UNCHANGED work

\* The handler returns or throws; the job ends up as given, if it is still ours.
Leave(e, outcome, tries) ==
    LET a == work[e]
        ours == owner[a] = e
    IN  /\ at' = [at EXCEPT ![e] = "idle"]
        /\ work' = [work EXCEPT ![e] = None]
        /\ job' = [job EXCEPT ![a] = IF ours THEN outcome ELSE @]
        /\ attempts' = [attempts EXCEPT ![a] = IF ours THEN @ + tries ELSE @]
        /\ owner' = [owner EXCEPT ![a] = IF ours THEN None ELSE @]
        /\ UNCHANGED stalls

Retry_NoLimit(e) == Leave(e, "delayed", 1)
Retry_Swallowed(e) == Leave(e, "completed", 0)
\* A thrown error: back off, until the attempts are used up.
Retry(e) == Leave(e, IF attempts[work[e]] + 1 < MaxAttempts THEN "delayed" ELSE "failed", 1)

\* getAlertContext: the incident is gone, or there is no webhook, or go on.
LoadContext(e) ==
    /\ at[e] = "load"
    /\ Continue(e, IF hook = "set" THEN "check" ELSE "finish")
    /\ UNCHANGED <<hook, age, owed, delivered, queue, batch, faults, history>>

hasDelivery_Never(a) == FALSE
hasDelivery(a) == a \in delivered

CheckDelivery(e) ==
    /\ at[e] = "check"
    /\ Continue(e, IF hasDelivery(work[e]) THEN "finish" ELSE "send")
    /\ UNCHANGED <<hook, age, owed, delivered, queue, batch, faults, history>>

\* Either of the two reads throws: the handler does, and BullMQ retries.
ReadFails(e) ==
    /\ at[e] \in {"load", "check"}
    /\ Retry(e)
    /\ UNCHANGED <<hook, age, owed, delivered, batch, faults, history>>

Received(a) == sends' = [sends EXCEPT ![a] = @ + 1]

\* deliverWebhook: any 2xx.
SendAccepted(e) ==
    /\ at[e] = "send"
    /\ Received(work[e])
    /\ Continue(e, "record")
    /\ UNCHANGED <<hook, age, owed, delivered, queue, batch, faults, excuses, unhooked>>

\* The receiver has it, but its answer is late or a retryable error.
SendUnanswered(e) ==
    /\ at[e] = "send"
    /\ Fault
    /\ Received(work[e])
    /\ Excuse(work[e])
    /\ Retry(e)
    /\ UNCHANGED <<hook, age, owed, delivered, batch, unhooked>>

SendRefused_AsAccepted(e) ==
    /\ at[e] = "send"
    /\ Continue(e, "record")
    /\ UNCHANGED <<hook, age, owed, delivered, queue, batch, faults, history>>
\* Not reached, or 5xx, 408, 429.
SendRefused(e) ==
    /\ at[e] = "send"
    /\ Retry(e)
    /\ UNCHANGED <<hook, age, owed, delivered, batch, faults, history>>

\* Any other answer: UnrecoverableError.
SendHopeless(e) ==
    /\ at[e] = "send"
    /\ Leave(e, "failed", 1)
    /\ UNCHANGED <<hook, age, owed, delivered, batch, faults, history>>

\* INSERT ... ON CONFLICT DO NOTHING; without the incident it throws.
RecordDelivery(e) ==
    /\ at[e] = "record"
    /\ \/ /\ hook # "deleted"
          /\ delivered' = delivered \union {work[e]}
          /\ Continue(e, "finish")
          /\ UNCHANGED queue
       \/ hook = "deleted" /\ Retry(e) /\ UNCHANGED delivered
    /\ UNCHANGED <<hook, age, owed, batch, faults, history>>

RecordFails(e) ==
    /\ at[e] = "record"
    /\ Fault
    /\ Excuse(work[e])
    /\ Retry(e)
    /\ UNCHANGED <<hook, age, owed, delivered, batch, sends, unhooked>>

Finish(e) ==
    /\ at[e] = "finish"
    /\ Leave(e, "completed", 1)
    /\ UNCHANGED <<hook, age, owed, delivered, batch, faults, history>>

\* The worker dies; the job stays active, with no one to renew its lock.
Die(e) ==
    /\ at[e] # "idle"
    /\ Fault
    /\ at' = [at EXCEPT ![e] = "idle"]
    /\ work' = [work EXCEPT ![e] = None]
    /\ owner' = [a \in Alert |-> IF owner[a] = e THEN None ELSE owner[a]]
    /\ IF at[e] = "record" THEN Excuse(work[e]) ELSE UNCHANGED excuses
    /\ UNCHANGED <<hook, age, owed, delivered, job, attempts, stalls, batch, sends, unhooked>>

-----------------------------------------------------------------------------
(***************************************************************************)
(* BullMQ.                                                                  *)
(***************************************************************************)
Stalled(a) ==
    /\ job[a] = "active"
    /\ job' = [job EXCEPT ![a] = IF stalls[a] < MaxStalls THEN "waiting" ELSE "failed"]
    /\ stalls' = [stalls EXCEPT ![a] = @ + 1]
    /\ owner' = [owner EXCEPT ![a] = None]
    /\ UNCHANGED <<attempts, execs, hook, age, owed, delivered, batch, sends, unhooked>>

OwnerDied(a) ==
    /\ owner[a] = None
    /\ Stalled(a)
    /\ UNCHANGED <<faults, excuses>>

\* The lock runs out while its owner is still at work.
LockExpires(a) ==
    /\ owner[a] # None
    /\ Fault
    /\ Excuse(a)
    /\ Stalled(a)

BackoffOver(a) ==
    /\ job[a] = "delayed"
    /\ job' = [job EXCEPT ![a] = "waiting"]
    /\ UNCHANGED <<attempts, stalls, owner, hook, age, owed, delivered, execs, batch, faults, history>>

\* removeOnComplete: a day, or 1000 later jobs; removeOnFail: a week.
Evict(a) ==
    /\ job[a] = "completed" \/ (job[a] = "failed" /\ age[a] = "old")
    /\ job' = [job EXCEPT ![a] = "absent"]
    /\ attempts' = [attempts EXCEPT ![a] = 0]
    /\ stalls' = [stalls EXCEPT ![a] = 0]
    /\ UNCHANGED <<owner, hook, age, owed, delivered, execs, batch, faults, history>>

-----------------------------------------------------------------------------
HandlerStep(e) ==
    \/ LoadContext(e)
    \/ CheckDelivery(e)
    \/ ReadFails(e)
    \/ SendAccepted(e)
    \/ SendUnanswered(e)
    \/ SendRefused(e)
    \/ SendHopeless(e)
    \/ RecordDelivery(e)
    \/ RecordFails(e)
    \/ Finish(e)

Next ==
    \/ PatchHook
    \/ DeleteMonitor
    \/ \E a \in Alert :
          \/ Commit(a)
          \/ TimePasses(a, "fresh", "due")
          \/ TimePasses(a, "due", "old")
          \/ CheckEnqueues(a)
          \/ CheckDies(a)
          \/ OwnerDied(a)
          \/ LockExpires(a)
          \/ BackoffOver(a)
          \/ Evict(a)
    \/ \E s \in Sweepers : SweepLists(s) \/ SweepEnqueues(s) \/ SweepFails(s)
    \/ \E e \in Executors :
          \/ \E a \in Alert : Take(e, a)
          \/ HandlerStep(e)
          \/ Die(e)

Spec == Init /\ [][Next]_vars

(***************************************************************************)
(* Fairness: check jobs, handlers (AbortSignal.timeout ends every send),    *)
(* sweeps and BullMQ's own timers go on, and a waiting job gets its turn    *)
(* (the queue is first come, first served).  The receiver owes nothing, and *)
(* no alert has to become old.                                              *)
(***************************************************************************)
Fairness ==
    /\ \A a \in Alert :
          /\ WF_vars(TimePasses(a, "fresh", "due"))
          /\ WF_vars(CheckEnqueues(a))
          /\ WF_vars(OwnerDied(a))
          /\ WF_vars(BackoffOver(a))
          /\ SF_vars(\E e \in Executors : Take(e, a))
    /\ \A e \in Executors : WF_vars(HandlerStep(e))
    /\ \A s \in Sweepers : WF_vars(SweepLists(s)) /\ WF_vars(SweepEnqueues(s))

FairSpec == Spec /\ Fairness

-----------------------------------------------------------------------------
(***************************************************************************)
(* Properties                                                               *)
(***************************************************************************)

\* The control states are those of the code and of BullMQ, attempts never
\* exceed the limit, and a job with a lock is an active one.
TypeOK ==
    /\ hook \in {"set", "unset", "deleted"}
    /\ age \in [Alert -> {"none", "fresh", "due", "old"}]
    /\ owed \subseteq Alert
    /\ delivered \subseteq Alert
    /\ job \in [Alert -> {"absent", "waiting", "delayed", "active", "completed", "failed"}]
    /\ attempts \in [Alert -> 0 .. MaxAttempts]
    /\ stalls \in [Alert -> 0 .. MaxStalls + 1]
    /\ owner \in [Alert -> Executors \union {None}]
    /\ \A a \in Alert : owner[a] # None => job[a] = "active"
    /\ at \in [Executors -> {"idle", "load", "check", "send", "record", "finish"}]
    /\ work \in [Executors -> Alert \union {None}]
    /\ batch \in [Sweepers -> SUBSET Alert]
    /\ faults \in 0 .. MaxFaults
    /\ sends \in [Alert -> Nat]
    /\ excuses \in [Alert -> Nat]
    /\ unhooked \in BOOLEAN

\* A completed job hides its alert from the sweep for as long as it is kept, so
\* it must not complete with nothing done: unless the monitor was without a
\* webhook at some time, a completed job's alert has its delivery recorded.
CompletedMeansDelivered ==
    ~unhooked => \A a \in Alert : job[a] = "completed" => a \in delivered

\* Repeats are rare and accounted for: the receiver gets an alert once, and
\* once more only for a lost answer, a delivery that could not be recorded, a
\* death in between, a lock lost to another execution, or a cascade that erased
\* the record under a job that runs again.  Stalls elsewhere, retries, sweeps,
\* evictions and double enqueues never send it twice.
RepeatsExplained == \A a \in Alert : sends[a] <= 1 + excuses[a]

\* No alert is forgotten, even if the check job died before queueing it or a
\* worker died with it: it is delivered, or its job ends (given up, or there
\* was no webhook to send to), or there is nobody left to tell, or it is too
\* old.
AlertsSettle ==
    \A a \in Alert :
        age[a] # "none" ~>
            a \in delivered \/ job[a] \in {"completed", "failed"} \/ hook # "set" \/ age[a] = "old"

\* An alert reaches the receiver only from an execution that loaded its context
\* while the webhook was set, and only after its transition was committed; what
\* is recorded as delivered was accepted before, however executions overlap,
\* stall or die; and only deleting the monitor erases a record, for good.
Log == INSTANCE AlertLog WITH
    committed <- {a \in Alert : age[a] # "none"},
    inHand <- {work[e] : e \in {x \in Executors : at[x] \in {"check", "send", "record"}}},
    received <- {a \in Alert : sends[a] > 0},
    recorded <- delivered
ImplementsAlertLog == Log!Spec
=============================================================================
