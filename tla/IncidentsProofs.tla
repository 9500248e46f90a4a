-------------------------- MODULE IncidentsProofs --------------------------
(***************************************************************************)
(* Theorems about Incidents for any number of monitors, runs and incidents. *)
(*                                                                          *)
(* DownMeansOpenIncident is not inductive: to commit, a run relies on the   *)
(* status it read when it took the lock.  What makes that sound is that the *)
(* lock and the program counters agree (LocksMatchRuns) and that nothing    *)
(* the run relies on changes while it holds the lock (LockedViewIsCurrent). *)
(***************************************************************************)
EXTENDS Incidents, TLAPS

\* A run works on a monitor, and has an outcome once it has probed.
RunsHaveJobs ==
    \A r \in Runs :
        /\ pc[r] # "idle" => job[r] \in Monitors
        /\ pc[r] \in {"probed", "locked", "committed"} => result[r] \in {"up", "down"}

\* A row lock and the run inside its transaction name each other.
LocksMatchRuns ==
    /\ \A r \in Runs : pc[r] = "locked" => lock[job[r]] = r
    /\ \A m \in Monitors : lock[m] # None => pc[lock[m]] = "locked" /\ job[lock[m]] = m

\* What a run read under the lock is still true.
LockedViewIsCurrent ==
    \A r \in Runs : pc[r] = "locked" =>
        /\ row[job[r]] \in Live
        /\ seen[r] = status[job[r]]

\* A monitor that does not exist yet has no past.
AbsentIsBlank ==
    \A m \in Monitors : row[m] = "absent" => status[m] = "unknown" /\ Open(m) = {}

AtMostOneOpen ==
    \A i, j \in Incident :
        phase[i] = "open" /\ phase[j] = "open" /\ owner[i] = owner[j] => i = j

IInv ==
    /\ TypeOK
    /\ RunsHaveJobs
    /\ LocksMatchRuns
    /\ LockedViewIsCurrent
    /\ AbsentIsBlank
    /\ AtMostOneOpen
    /\ DownMeansOpenIncident

-----------------------------------------------------------------------------
\* Nothing has happened yet.
LEMMA InitEstablishes == Init => IInv
BY NoneAssumption DEF Init, IInv, TypeOK, RunsHaveJobs, LocksMatchRuns, LockedViewIsCurrent,
    AbsentIsBlank, AtMostOneOpen, DownMeansOpenIncident, Open, Live, Alert

\* Probing yields a status the schema knows.
LEMMA OutcomeIsStatus == ASSUME NEW answer PROVE Outcome(answer) \in {"up", "down"}
BY DEF Outcome

\* The API's handlers keep the invariant; they wait for the row lock.
LEMMA CreateKeeps == ASSUME IInv, NEW m \in Monitors, createMonitor(m) PROVE IInv'
<1> USE DEF createMonitor, runVars, alertVars, IInv
<1>1. TypeOK' BY DEF TypeOK
<1>2. RunsHaveJobs' BY DEF RunsHaveJobs
<1>3. LocksMatchRuns' BY DEF LocksMatchRuns
<1>4. LockedViewIsCurrent' BY DEF LockedViewIsCurrent, Live, TypeOK, RunsHaveJobs
<1>5. \A n \in Monitors : Open(n)' = Open(n) BY DEF Open
<1>6. AbsentIsBlank' BY <1>5 DEF AbsentIsBlank, TypeOK
<1>7. AtMostOneOpen' BY DEF AtMostOneOpen
<1>8. DownMeansOpenIncident' BY <1>5 DEF DownMeansOpenIncident, AbsentIsBlank, TypeOK, Live
<1> QED BY <1>1, <1>2, <1>3, <1>4, <1>6, <1>7, <1>8

LEMMA UpdateKeeps == ASSUME IInv, NEW m \in Monitors, updateMonitor(m) PROVE IInv'
<1> USE DEF updateMonitor, runVars, alertVars, IInv
<1>1. TypeOK' BY DEF TypeOK, Live
<1>2. RunsHaveJobs' BY DEF RunsHaveJobs
<1>3. LocksMatchRuns' BY DEF LocksMatchRuns
<1>4. LockedViewIsCurrent' BY DEF LockedViewIsCurrent, Live, TypeOK, RunsHaveJobs
<1>5. \A n \in Monitors : Open(n)' = Open(n) BY DEF Open
<1>6. AbsentIsBlank' BY <1>5 DEF AbsentIsBlank, TypeOK, Live
<1>7. AtMostOneOpen' BY DEF AtMostOneOpen
<1>8. DownMeansOpenIncident' BY <1>5 DEF DownMeansOpenIncident, TypeOK, Live
<1> QED BY <1>1, <1>2, <1>3, <1>4, <1>6, <1>7, <1>8

LEMMA DeleteKeeps == ASSUME IInv, NEW m \in Monitors, deleteMonitor(m) PROVE IInv'
<1> USE DEF deleteMonitor, CascadedPhases, runVars, alertVars, IInv
<1>1. TypeOK' BY DEF TypeOK
<1>2. RunsHaveJobs' BY DEF RunsHaveJobs
<1>3. LocksMatchRuns' BY DEF LocksMatchRuns
<1>4. LockedViewIsCurrent'
  <2>1. \A r \in Runs : pc[r] = "locked" => job[r] # m
    BY NoneAssumption DEF LocksMatchRuns, RowFree
  <2> QED BY <2>1 DEF LockedViewIsCurrent, TypeOK, RunsHaveJobs
<1>5. \A n \in Monitors : Open(n)' = IF n = m THEN {} ELSE Open(n) BY DEF Open, TypeOK
<1>6. AbsentIsBlank' BY <1>5 DEF AbsentIsBlank, TypeOK
<1>7. AtMostOneOpen' BY DEF AtMostOneOpen, TypeOK
<1>8. DownMeansOpenIncident' BY <1>5 DEF DownMeansOpenIncident, TypeOK, Live
<1> QED BY <1>1, <1>2, <1>3, <1>4, <1>6, <1>7, <1>8

-----------------------------------------------------------------------------
\* The steps of a run that leave the database alone.
LEMMA LoadKeeps == ASSUME IInv, NEW r \in Runs, NEW m \in Monitors, LoadMonitor(r, m) PROVE IInv'
<1> USE DEF LoadMonitor, dbVars, alertVars, IInv
<1>1. TypeOK' BY DEF TypeOK
<1>2. RunsHaveJobs' BY DEF RunsHaveJobs, TypeOK
<1>3. LocksMatchRuns' BY NoneAssumption DEF LocksMatchRuns, TypeOK
<1>4. LockedViewIsCurrent' BY DEF LockedViewIsCurrent, TypeOK
<1>5. AbsentIsBlank' /\ AtMostOneOpen' /\ DownMeansOpenIncident'
  BY DEF AbsentIsBlank, AtMostOneOpen, DownMeansOpenIncident, Open
<1> QED BY <1>1, <1>2, <1>3, <1>4, <1>5

LEMMA ProbeKeeps == ASSUME IInv, NEW r \in Runs, probe(r) PROVE IInv'
<1> USE DEF probe, dbVars, alertVars, IInv
<1>1. TypeOK' BY OutcomeIsStatus DEF TypeOK
<1>2. RunsHaveJobs' BY OutcomeIsStatus DEF RunsHaveJobs, TypeOK
<1>3. LocksMatchRuns' BY NoneAssumption DEF LocksMatchRuns, TypeOK
<1>4. LockedViewIsCurrent' BY DEF LockedViewIsCurrent, TypeOK
<1>5. AbsentIsBlank' /\ AtMostOneOpen' /\ DownMeansOpenIncident'
  BY DEF AbsentIsBlank, AtMostOneOpen, DownMeansOpenIncident, Open
<1> QED BY <1>1, <1>2, <1>3, <1>4, <1>5

LEMMA LockKeeps == ASSUME IInv, NEW r \in Runs, LockMonitor(r) PROVE IInv'
<1> USE DEF LockMonitor, alertVars, IInv
<1>0. job[r] \in Monitors BY DEF RunsHaveJobs
<1>1. TypeOK' BY <1>0 DEF TypeOK
<1>2. RunsHaveJobs' BY DEF RunsHaveJobs, TypeOK
<1>3. LocksMatchRuns' BY <1>0, NoneAssumption DEF LocksMatchRuns, TypeOK, RowFree, RunsHaveJobs
<1>4. LockedViewIsCurrent' BY <1>0 DEF LockedViewIsCurrent, TypeOK
<1>5. AbsentIsBlank' /\ AtMostOneOpen' /\ DownMeansOpenIncident'
  BY DEF AbsentIsBlank, AtMostOneOpen, DownMeansOpenIncident, Open
<1> QED BY <1>1, <1>2, <1>3, <1>4, <1>5

\* A run that ends without having touched the tables, its lock released if it had one.
LEMMA EndKeeps ==
    ASSUME IInv, NEW r \in Runs, lock' = Released(r), Finished(r),
           UNCHANGED <<row, status, owner, phase>>, enqueued' \subseteq Alert, lost' \subseteq Alert
    PROVE  IInv'
<1> USE DEF Finished, Released, IInv
<1>1. TypeOK' BY DEF TypeOK
<1>2. RunsHaveJobs' BY DEF RunsHaveJobs, TypeOK
<1>3. LocksMatchRuns' BY NoneAssumption DEF LocksMatchRuns, TypeOK, RunsHaveJobs
<1>4. LockedViewIsCurrent' BY DEF LockedViewIsCurrent, TypeOK
<1>5. AbsentIsBlank' /\ AtMostOneOpen' /\ DownMeansOpenIncident'
  BY DEF AbsentIsBlank, AtMostOneOpen, DownMeansOpenIncident, Open
<1> QED BY <1>1, <1>2, <1>3, <1>4, <1>5

\* A run outside its transaction has no lock to release.
LEMMA NothingToRelease ==
    ASSUME IInv, NEW r \in Runs, pc[r] # "locked" PROVE Released(r) = lock
BY NoneAssumption DEF IInv, Released, LocksMatchRuns, TypeOK

LEMMA SkipKeeps == ASSUME IInv, NEW r \in Runs, SkipDeleted(r) PROVE IInv'
BY NothingToRelease, EndKeeps DEF SkipDeleted, dbVars, alertVars, IInv, TypeOK

LEMMA EnqueueKeeps == ASSUME IInv, NEW r \in Runs, EnqueueAlert(r) PROVE IInv'
<1>1. enqueued' \subseteq Alert BY DEF EnqueueAlert, Handed, IInv, TypeOK
<1>2. lost' \subseteq Alert BY DEF EnqueueAlert, IInv, TypeOK
<1> QED BY <1>1, <1>2, NothingToRelease, EndKeeps DEF EnqueueAlert, dbVars

LEMMA FailKeeps == ASSUME IInv, NEW r \in Runs, FailCheck(r) PROVE IInv'
<1>1. lost' \subseteq Alert BY DEF FailCheck, IInv, TypeOK
<1>2. enqueued' \subseteq Alert BY DEF FailCheck, IInv, TypeOK
<1> QED BY <1>1, <1>2, EndKeeps DEF FailCheck

-----------------------------------------------------------------------------
\* What the three outcomes of recordCheck do to a monitor's open incidents:
\* afterwards it has one exactly if it was found down, and still at most one.
LEMMA TransitionMovesOneIncident ==
    ASSUME IInv, NEW r \in Runs, CommitCheck(r)
    PROVE  /\ \A m \in Monitors \ {job[r]} : Open(m)' = Open(m)
           /\ Open(job[r])' # {} <=> result[r] = "down"
           /\ AtMostOneOpen'
           /\ owner' \in [Incident -> Monitors \union {None}]
           /\ phase' \in [Incident -> {"unused", "open", "resolved", "deleted"}]
           /\ change' \in [Runs -> Alert \union {None}]
<1> USE DEF CommitCheck, IInv
<1>0. /\ job[r] \in Monitors
      /\ result[r] \in {"up", "down"}
      /\ seen[r] = "down" <=> Open(job[r]) # {}
  BY DEF RunsHaveJobs, LockedViewIsCurrent, DownMeansOpenIncident
<1>1. CASE OpenIncident(r)
  <2>1. PICK i \in Incident :
            /\ phase[i] = "unused"
            /\ owner' = [owner EXCEPT ![i] = job[r]]
            /\ phase' = [phase EXCEPT ![i] = "open"]
            /\ change' = [change EXCEPT ![r] = <<i, "opened">>]
    BY <1>1 DEF OpenIncident
  <2>2. \A m \in Monitors \ {job[r]} : Open(m)' = Open(m)
    BY <2>1, <1>0 DEF Open, TypeOK
  <2>3. Open(job[r])' = {i}
    BY <2>1, <1>0, <1>1 DEF Open, TypeOK, OpenIncident
  <2>4. AtMostOneOpen'
    BY <2>1, <1>0, <1>1 DEF Open, TypeOK, OpenIncident, AtMostOneOpen
  <2> QED BY <2>1, <2>2, <2>3, <2>4, <1>0, <1>1 DEF OpenIncident, wentDown, TypeOK, Alert
<1>2. CASE ResolveIncident(r)
  <2>1. \A m \in Monitors \ {job[r]} : Open(m)' = Open(m)
    BY <1>2, <1>0 DEF ResolveIncident, ResolvedPhases, Open, TypeOK
  <2>2. Open(job[r])' = {}
    BY <1>2, <1>0 DEF ResolveIncident, ResolvedPhases, Open, TypeOK
  <2>3. AtMostOneOpen'
    BY <1>2 DEF ResolveIncident, ResolvedPhases, TypeOK, AtMostOneOpen
  <2>4. change' \in [Runs -> Alert \union {None}]
    BY <1>2 DEF ResolveIncident, ReturnedRows, Open, TypeOK, Alert
  <2> QED
    BY <2>1, <2>2, <2>3, <2>4, <1>2 DEF ResolveIncident, ResolvedPhases, recovered, TypeOK
<1>3. CASE NoTransition(r)
  <2>1. \A m \in Monitors : Open(m)' = Open(m) BY <1>3 DEF NoTransition, Open
  <2>2. Open(job[r]) # {} <=> result[r] = "down"
    BY <1>0, <1>3 DEF NoTransition, wentDown, recovered
  <2> QED BY <2>1, <2>2, <1>0, <1>3 DEF NoTransition, AtMostOneOpen, TypeOK
<1> QED BY <1>1, <1>2, <1>3

LEMMA CommitKeeps == ASSUME IInv, NEW r \in Runs, CommitCheck(r) PROVE IInv'
<1> USE DEF CommitCheck, alertVars, IInv
<1>0. /\ job[r] \in Monitors
      /\ result[r] \in {"up", "down"}
      /\ lock[job[r]] = r
      /\ row[job[r]] \in Live
  BY DEF RunsHaveJobs, LocksMatchRuns
<1>1. TypeOK' BY <1>0, TransitionMovesOneIncident DEF TypeOK, Released
<1>2. RunsHaveJobs' BY DEF RunsHaveJobs, TypeOK
<1>3. LocksMatchRuns'
  BY <1>0, NoneAssumption DEF LocksMatchRuns, TypeOK, RunsHaveJobs, Released
<1>4. LockedViewIsCurrent'
  <2>1. \A other \in Runs \ {r} : pc[other] = "locked" => job[other] # job[r]
    BY <1>0 DEF LocksMatchRuns
  <2> QED BY <2>1, <1>0 DEF LockedViewIsCurrent, TypeOK, RunsHaveJobs
<1>5. AbsentIsBlank'
  BY <1>0, TransitionMovesOneIncident DEF AbsentIsBlank, TypeOK, Live
<1>6. AtMostOneOpen' BY TransitionMovesOneIncident
<1>7. DownMeansOpenIncident'
  <2>1. \A m \in Monitors \ {job[r]} : Open(m)' = Open(m) /\ status'[m] = status[m]
    BY TransitionMovesOneIncident DEF TypeOK
  <2>2. status'[job[r]] = "down" <=> Open(job[r])' # {}
    BY <1>0, TransitionMovesOneIncident DEF TypeOK
  <2>3. \A m \in Monitors : row'[m] \in Live => (status'[m] = "down" <=> Open(m)' # {})
    BY <2>1, <2>2 DEF DownMeansOpenIncident
  <2>4. \A m \in Monitors : row'[m] = "deleted" => Open(m)' = {}
    BY <2>1, <1>0 DEF DownMeansOpenIncident, Live
  <2> QED BY <2>3, <2>4 DEF DownMeansOpenIncident
<1> QED BY <1>1, <1>2, <1>3, <1>4, <1>5, <1>6, <1>7

-----------------------------------------------------------------------------
\* The invariant is preserved by every step, stuttering included.
LEMMA NextKeeps == IInv /\ [Next]_vars => IInv'
<1> SUFFICES ASSUME IInv, [Next]_vars PROVE IInv'
  OBVIOUS
<1>1. ASSUME NEW m \in Monitors, createMonitor(m) \/ updateMonitor(m) \/ deleteMonitor(m)
      PROVE  IInv'
  BY <1>1, CreateKeeps, UpdateKeeps, DeleteKeeps
<1>2. ASSUME NEW r \in Runs, NEW m \in Monitors, LoadMonitor(r, m)
      PROVE  IInv'
  BY <1>2, LoadKeeps
<1>3. ASSUME NEW r \in Runs, RunStep(r)
      PROVE  IInv'
  BY <1>3, ProbeKeeps, LockKeeps, SkipKeeps, CommitKeeps, EnqueueKeeps DEF RunStep
<1>4. ASSUME NEW r \in Runs, FailCheck(r)
      PROVE  IInv'
  BY <1>4, FailKeeps
<1>5. CASE UNCHANGED vars
  BY <1>5 DEF vars, dbVars, runVars, alertVars, IInv, TypeOK, RunsHaveJobs, LocksMatchRuns,
     LockedViewIsCurrent, AbsentIsBlank, AtMostOneOpen, DownMeansOpenIncident, Open
<1> QED BY <1>1, <1>2, <1>3, <1>4, <1>5 DEF Next

\* IInv is an inductive invariant of the specification.
THEOREM InductiveInvariant == Spec => []IInv
<1> QED BY InitEstablishes, NextKeeps, PTL DEF Spec

\* The schema's types hold throughout: current_status in particular never
\* leaves unknown, up and down.
THEOREM TypeCorrect == Spec => []TypeOK
<1>1. IInv => TypeOK BY DEF IInv
<1> QED BY <1>1, InductiveInvariant, PTL

\* current_status and the incidents table agree after every commit, whatever
\* the number of workers, and however checks, pauses, deletes and crashes
\* interleave.
THEOREM StatusMatchesIncidents == Spec => []DownMeansOpenIncident
<1>1. IInv => DownMeansOpenIncident BY DEF IInv
<1> QED BY <1>1, InductiveInvariant, PTL

\* recordCheck's decision from the previous status alone is right about the
\* incidents table: the unique index never rejects its insert, and a recovery
\* resolves exactly one incident.
THEOREM TransitionsAreRight == Spec => []TransitionFindsItsIncident
<1>1. IInv => TransitionFindsItsIncident
  <2> SUFFICES ASSUME IInv, NEW r \in Runs, pc[r] = "locked"
               PROVE  /\ wentDown(r) => Open(job[r]) = {}
                      /\ recovered(r) => \E i \in Incident : Open(job[r]) = {i}
    BY DEF TransitionFindsItsIncident
  <2>1. job[r] \in Monitors /\ (seen[r] = "down" <=> Open(job[r]) # {})
    BY DEF IInv, RunsHaveJobs, LockedViewIsCurrent, DownMeansOpenIncident
  <2>2. CASE wentDown(r)
    BY <2>1, <2>2 DEF wentDown, recovered
  <2>3. CASE recovered(r)
    <3>1. PICK i \in Open(job[r]) : TRUE BY <2>1, <2>3 DEF recovered
    <3>2. Open(job[r]) = {i} BY <3>1 DEF Open, IInv, AtMostOneOpen
    <3>3. i \in Incident BY <3>1 DEF Open
    <3> QED BY <3>2, <3>3, <2>3 DEF wentDown, recovered
  <2> QED BY <2>2, <2>3
<1> QED BY <1>1, InductiveInvariant, PTL

-----------------------------------------------------------------------------
(***************************************************************************)
(* Every transition is announced by exactly one run.                        *)
(*                                                                          *)
(* AnnouncedByOneRun relies on alerts being about what has happened         *)
(* (AlertsHaveHappened): the alert of a new transition cannot be around     *)
(* yet.  That one commit makes one transition is shown above                *)
(* (TransitionMovesOneIncident, AtMostOneOpen).                             *)
(***************************************************************************)
\* A run carries an alert between its COMMIT and the alert queue only.
CarriedAfterCommit == \A r \in Runs : change[r] # None => pc[r] = "committed"

Happened(a) ==
    /\ phase[a[1]] # "unused"
    /\ a[2] = "resolved" => phase[a[1]] \in {"resolved", "deleted"}

Around == enqueued \union lost \union {change[r] : r \in Runs}

AlertsHaveHappened == \A a \in Alert : a \in Around => Happened(a)

UnusedIsNobodys == \A i \in Incident : phase[i] = "unused" => owner[i] = None

LogInv == IInv /\ CarriedAfterCommit /\ AlertsHaveHappened /\ UnusedIsNobodys /\ AnnouncedByOneRun

\* Nothing has happened, so there is nothing to announce.
LEMMA LogInit == Init => LogInv
BY InitEstablishes, NoneAssumption
   DEF Init, LogInv, CarriedAfterCommit, AlertsHaveHappened, Around, UnusedIsNobodys, AnnouncedByOneRun,
       Transitions, Alert

\* An incident's alerts are two, and a committed transition is one of them.
LEMMA TransitionsAreAlerts == Transitions \subseteq Alert
BY DEF Transitions, Alert

\* Steps that change no incident and no alert.
LEMMA QuietKeeps ==
    ASSUME LogInv, IInv', UNCHANGED <<owner, phase, change, alertVars>>,
           \A r \in Runs : change[r] # None => pc'[r] = pc[r]
    PROVE  LogInv'
<1> USE DEF LogInv, alertVars
<1>1. CarriedAfterCommit'
  BY DEF CarriedAfterCommit
<1>2. AlertsHaveHappened' /\ UnusedIsNobodys' /\ AnnouncedByOneRun'
  BY DEF AlertsHaveHappened, Around, Happened, UnusedIsNobodys, AnnouncedByOneRun, Transitions
<1> QED
  BY <1>1, <1>2

\* A delete takes transitions back, and makes none.
LEMMA DeleteAnnounces ==
    ASSUME LogInv, IInv', NEW m \in Monitors, deleteMonitor(m) PROVE LogInv'
<1> USE DEF LogInv, deleteMonitor, runVars, alertVars
<1>1. \A i \in Incident : phase'[i] = IF owner[i] = m THEN "deleted" ELSE phase[i]
  BY DEF CascadedPhases
<1>2. CarriedAfterCommit'
  BY DEF CarriedAfterCommit
<1>3. AlertsHaveHappened'
  BY <1>1 DEF AlertsHaveHappened, Around, Happened, Alert
<1>4. UnusedIsNobodys'
  BY <1>1 DEF UnusedIsNobodys
<1>5. Transitions' \subseteq Transitions
  BY <1>1 DEF Transitions
<1>6. AnnouncedByOneRun'
  BY <1>5 DEF AnnouncedByOneRun
<1> QED
  BY <1>2, <1>3, <1>4, <1>6

\* A run that ends passes what it carries to the queue, or loses it.
LEMMA EndAnnounces ==
    ASSUME LogInv, IInv', NEW r \in Runs, Finished(r), UNCHANGED <<owner, phase>>,
           \/ enqueued' = enqueued \union ({change[r]} \ {None}) /\ lost' = lost
           \/ lost' = lost \union ({change[r]} \ {None}) /\ enqueued' = enqueued
    PROVE  LogInv'
<1> USE DEF LogInv
<1>1. /\ change'[r] = None
      /\ \A s \in Runs \ {r} : change'[s] = change[s] /\ pc'[s] = pc[s]
  BY DEF Finished, IInv, TypeOK
<1>2. CarriedAfterCommit'
  BY <1>1 DEF CarriedAfterCommit
<1>3. \A a \in Alert : a \in Around' <=> a \in Around
  BY <1>1, NoneAssumption DEF Around
<1>4. AlertsHaveHappened'
  BY <1>3 DEF AlertsHaveHappened, Happened
<1>5. UnusedIsNobodys'
  BY DEF UnusedIsNobodys
<1>6. Transitions' \subseteq Around'
  BY <1>3, TransitionsAreAlerts DEF AnnouncedByOneRun, Around, Transitions
<1>7. (enqueued \intersect lost)' = {}
  BY DEF AnnouncedByOneRun
<1>8. ASSUME NEW s \in Runs, change'[s] # None
      PROVE  /\ change'[s] \notin enqueued' \union lost'
             /\ \A other \in Runs \ {s} : change'[other] # change'[s]
  BY <1>1, <1>8 DEF AnnouncedByOneRun
<1> QED
  BY <1>2, <1>4, <1>5, <1>6, <1>7, <1>8 DEF AnnouncedByOneRun, Around

\* A commit that makes one transition, of which nobody can have heard.
LEMMA NewTransition ==
    ASSUME LogInv, IInv', NEW r \in Runs, pc[r] = "locked", pc' = [pc EXCEPT ![r] = "committed"],
           NEW a \in Alert, change' = [change EXCEPT ![r] = a], UNCHANGED alertVars,
           Transitions' \subseteq Transitions \union {a}, a \notin Around,
           \A i \in Incident : phase[i] # "unused" => phase'[i] # "unused",
           \A i \in Incident : phase[i] \in {"resolved", "deleted"} => phase'[i] = phase[i],
           Happened(a)', UnusedIsNobodys'
    PROVE  LogInv'
<1> USE DEF LogInv, alertVars
<1>1. change[r] = None
  BY DEF CarriedAfterCommit
<1>2. /\ change'[r] = a
      /\ \A s \in Runs \ {r} : change'[s] = change[s] /\ pc'[s] = pc[s]
      /\ pc'[r] = "committed"
  BY DEF IInv, TypeOK
<1>3. CarriedAfterCommit'
  BY <1>2 DEF CarriedAfterCommit
<1>4. \A b \in Alert : b \in Around' <=> b \in Around \/ b = a
  BY <1>1, <1>2, NoneAssumption DEF Around
<1>5. AlertsHaveHappened'
  BY <1>4 DEF AlertsHaveHappened, Happened, Alert
<1>6. Transitions' \subseteq Around'
  BY <1>4, TransitionsAreAlerts DEF AnnouncedByOneRun, Around
<1>7. ASSUME NEW s \in Runs, change'[s] # None
      PROVE  /\ change'[s] \notin enqueued' \union lost'
             /\ \A other \in Runs \ {s} : change'[other] # change'[s]
  BY <1>2, <1>7 DEF AnnouncedByOneRun, Around
<1> QED
  BY <1>3, <1>5, <1>6, <1>7 DEF AnnouncedByOneRun, Around

\* What a committed check did: it opened an incident with a new id, resolved the
\* one open incident of its monitor, or left the incidents alone.
Opens(r, i) ==
    /\ phase[i] = "unused" /\ Open(job[r]) = {}
    /\ owner' = [owner EXCEPT ![i] = job[r]]
    /\ phase' = [phase EXCEPT ![i] = "open"]
    /\ change' = [change EXCEPT ![r] = <<i, "opened">>]

Resolves(r, i) ==
    /\ Open(job[r]) = {i}
    /\ owner' = owner
    /\ phase' = [phase EXCEPT ![i] = "resolved"]
    /\ change' = [change EXCEPT ![r] = <<i, "resolved">>]

\* There is no fourth case: RETURNING id gives one row exactly.
LEMMA CommitCases ==
    ASSUME LogInv, NEW r \in Runs, CommitCheck(r)
    PROVE  \/ \E i \in Incident : Opens(r, i) \/ Resolves(r, i)
           \/ UNCHANGED <<owner, phase, change>>
<1> USE DEF LogInv
<1>1. job[r] \in Monitors /\ (seen[r] = "down" <=> Open(job[r]) # {})
  BY DEF CommitCheck, IInv, RunsHaveJobs, LockedViewIsCurrent, DownMeansOpenIncident
<1>2. CASE OpenIncident(r)
  BY <1>2 DEF OpenIncident, Opens
<1>3. CASE ResolveIncident(r)
  <2>1. PICK i \in Open(job[r]) : TRUE
    BY <1>1, <1>3 DEF ResolveIncident, recovered
  <2>2. Open(job[r]) = {i} /\ i \in Incident
    BY <2>1 DEF Open, IInv, AtMostOneOpen
  <2>3. change' = [change EXCEPT ![r] = <<i, "resolved">>]
    <3>1. ReturnedRows(job[r]) = {i} \X {"resolved"}
      BY <2>2 DEF ReturnedRows
    <3>2. PICK incident \in ReturnedRows(job[r]) : change' = [change EXCEPT ![r] = incident]
      BY <1>3 DEF ResolveIncident
    <3>3. incident = <<i, "resolved">>
      BY <3>1
    <3> QED BY <3>2, <3>3
  <2>4. phase' = [phase EXCEPT ![i] = "resolved"]
    BY <1>3, <2>2 DEF ResolveIncident, ResolvedPhases, IInv, TypeOK
  <2>5. owner' = owner
    BY <1>3 DEF ResolveIncident
  <2> QED
    BY <2>2, <2>3, <2>4, <2>5 DEF Resolves
<1>4. CASE NoTransition(r)
  BY <1>4 DEF NoTransition
<1> QED
  BY <1>2, <1>3, <1>4 DEF CommitCheck

\* A commit announces what it did, and nothing else.
LEMMA CommitAnnounces == ASSUME LogInv, IInv', NEW r \in Runs, CommitCheck(r) PROVE LogInv'
<1> USE DEF LogInv, CommitCheck, alertVars
<1>1. ASSUME NEW i \in Incident, Opens(r, i) PROVE LogInv'
  <2> DEFINE a == <<i, "opened">>
  <2>1. a \in Alert /\ a[1] = i /\ a[2] = "opened"
    BY DEF Alert
  <2>2. a \notin Around
    BY <1>1, <2>1 DEF Opens, AlertsHaveHappened, Happened
  <2>3. /\ phase'[i] = "open" /\ \A j \in Incident \ {i} : phase'[j] = phase[j]
        /\ owner'[i] = job[r] /\ \A j \in Incident \ {i} : owner'[j] = owner[j]
    BY <1>1 DEF Opens, IInv, TypeOK
  <2>4. Transitions' \subseteq Transitions \union {a}
    BY <2>3 DEF Transitions
  <2>5. UnusedIsNobodys'
    BY <2>3 DEF UnusedIsNobodys
  <2>6. Happened(a)'
    BY <2>1, <2>3 DEF Happened
  <2>7. change' = [change EXCEPT ![r] = a] /\ phase[i] = "unused"
    BY <1>1 DEF Opens
  <2> HIDE DEF a
  <2> QED
    BY <2>1, <2>2, <2>3, <2>4, <2>5, <2>6, <2>7, NewTransition
<1>2. ASSUME NEW i \in Incident, Resolves(r, i) PROVE LogInv'
  <2> DEFINE a == <<i, "resolved">>
  <2>1. a \in Alert /\ a[1] = i /\ a[2] = "resolved"
    BY DEF Alert
  <2>2. phase[i] = "open"
    BY <1>2 DEF Resolves, Open
  <2>3. a \notin Around
    BY <2>1, <2>2 DEF AlertsHaveHappened, Happened
  <2>4. /\ phase'[i] = "resolved" /\ \A j \in Incident \ {i} : phase'[j] = phase[j]
        /\ owner' = owner
    BY <1>2 DEF Resolves, IInv, TypeOK
  <2>5. Transitions' \subseteq Transitions \union {a}
    BY <2>2, <2>4 DEF Transitions
  <2>6. UnusedIsNobodys'
    BY <2>4 DEF UnusedIsNobodys
  <2>7. Happened(a)'
    BY <2>1, <2>4 DEF Happened
  <2>8. change' = [change EXCEPT ![r] = a]
    BY <1>2 DEF Resolves
  <2> HIDE DEF a
  <2> QED
    BY <2>1, <2>2, <2>3, <2>4, <2>5, <2>6, <2>7, <2>8, NewTransition
<1>3. CASE UNCHANGED <<owner, phase, change>>
  <2>1. \A s \in Runs : change[s] # None => pc'[s] = pc[s]
    BY DEF CarriedAfterCommit, IInv, TypeOK
  <2> QED
    BY <1>3, <2>1, QuietKeeps
<1> QED
  BY <1>1, <1>2, <1>3, CommitCases

\* Every step keeps the invariant.
LEMMA LogStep == LogInv /\ [Next]_vars => LogInv'
<1> SUFFICES ASSUME LogInv, [Next]_vars PROVE LogInv'
  OBVIOUS
<1>1. IInv'
  BY NextKeeps DEF LogInv
<1> USE <1>1
<1>2. ASSUME NEW m \in Monitors, createMonitor(m) \/ updateMonitor(m) PROVE LogInv'
  BY <1>2, QuietKeeps DEF createMonitor, updateMonitor, runVars
<1>3. ASSUME NEW m \in Monitors, deleteMonitor(m) PROVE LogInv'
  BY <1>3, DeleteAnnounces
<1>4. ASSUME NEW r \in Runs, NEW m \in Monitors, LoadMonitor(r, m) PROVE LogInv'
  BY <1>4, QuietKeeps DEF LoadMonitor, dbVars, LogInv, CarriedAfterCommit, IInv, TypeOK
<1>5. ASSUME NEW r \in Runs, probe(r) \/ LockMonitor(r) PROVE LogInv'
  BY <1>5, QuietKeeps DEF probe, LockMonitor, dbVars, LogInv, CarriedAfterCommit, IInv, TypeOK
<1>6. ASSUME NEW r \in Runs, SkipDeleted(r) PROVE LogInv'
  <2>1. change[r] = None
    BY <1>6 DEF SkipDeleted, LogInv, CarriedAfterCommit
  <2> QED
    BY <1>6, <2>1, EndAnnounces DEF SkipDeleted, dbVars, alertVars
<1>7. ASSUME NEW r \in Runs, CommitCheck(r) PROVE LogInv'
  BY <1>7, CommitAnnounces
<1>8. ASSUME NEW r \in Runs, EnqueueAlert(r) PROVE LogInv'
  BY <1>8, EndAnnounces DEF EnqueueAlert, Handed, dbVars
<1>9. ASSUME NEW r \in Runs, FailCheck(r) PROVE LogInv'
  BY <1>9, EndAnnounces DEF FailCheck
<1>10. CASE UNCHANGED vars
  BY <1>10, QuietKeeps DEF vars, dbVars, runVars
<1> QED
  BY <1>2, <1>3, <1>4, <1>5, <1>6, <1>7, <1>8, <1>9, <1>10 DEF Next, RunStep

\* The invariant holds at all times.
LEMMA LogInvHolds == Spec => []LogInv
BY LogInit, LogStep, PTL DEF Spec

\* Each transition is told by one run and never twice, for any number of
\* overlapping checks and wherever workers die.
THEOREM AnnouncedOnce == Spec => []AnnouncedByOneRun
<1>1. LogInv => AnnouncedByOneRun
  BY DEF LogInv
<1> QED
  BY LogInvHolds, <1>1, PTL

-----------------------------------------------------------------------------
(***************************************************************************)
(* The refinement of OutageLog.                                             *)
(***************************************************************************)
Known == {m \in Monitors : row[m] \in Live}
Outage == [m \in Monitors |-> AnyOf(Open(m))]
Resolved(m) == {i \in Incident : owner[i] = m /\ phase[i] = "resolved"}
History == [m \in Monitors |-> Resolved(m)]
Used == {i \in Incident : phase[i] # "unused"}

\* The choice among one incident, or none, is that one, or None.
LEMMA AnyOfOne == AnyOf({}) = None /\ \A i : AnyOf({i}) = i
BY DEF AnyOf

\* Steps that leave incidents alone leave the log alone.
LEMMA SameIncidents ==
    ASSUME UNCHANGED <<owner, phase>>
    PROVE  Outage' = Outage /\ History' = History /\ Used' = Used
<1>1. \A m \in Monitors : Open(m)' = Open(m) /\ Resolved(m)' = Resolved(m)
  BY DEF Open, Resolved
<1>2. Outage' = [m \in Monitors |-> AnyOf(Open(m)')]
  BY DEF Outage, AnyOf
<1>3. \A m \in Monitors : AnyOf(Open(m)') = AnyOf(Open(m))
  BY <1>1
<1>4. Outage' = Outage
  BY <1>2, <1>3 DEF Outage
<1>5. History' = History
  BY <1>1 DEF History
<1>6. Used' = Used
  BY DEF Used
<1> QED
  BY <1>4, <1>5, <1>6

\* Steps that change one monitor's incidents change its entries only.
LEMMA OneMonitor ==
    ASSUME NEW m \in Monitors,
           \A n \in Monitors \ {m} : Open(n)' = Open(n) /\ Resolved(n)' = Resolved(n)
    PROVE  /\ Outage' = [Outage EXCEPT ![m] = AnyOf(Open(m)')]
           /\ History' = [History EXCEPT ![m] = Resolved(m)']
<1>1. Outage' = [n \in Monitors |-> AnyOf(Open(n)')]
  BY DEF Outage, AnyOf
<1>2. History' = [n \in Monitors |-> Resolved(n)']
  BY DEF History
<1>3. \A n \in Monitors \ {m} : AnyOf(Open(n)') = AnyOf(Open(n))
  OBVIOUS
<1>4. Outage' = [Outage EXCEPT ![m] = AnyOf(Open(m)')]
  BY <1>1, <1>3 DEF Outage
<1>5. History' = [History EXCEPT ![m] = Resolved(m)']
  BY <1>2 DEF History
<1> QED
  BY <1>4, <1>5

\* The log starts empty.
LEMMA OutageInit == Init => Log!Init
<1> SUFFICES ASSUME Init PROVE Log!Init
  OBVIOUS
<1>1. \A m \in Monitors : Open(m) = {} /\ Resolved(m) = {}
  BY DEF Init, Open, Resolved
<1>2. Known = {} /\ Used = {}
  BY DEF Init, Known, Used, Live
<1>3. Outage = [m \in Monitors |-> None]
  BY <1>1, AnyOfOne DEF Outage
<1>4. History = [m \in Monitors |-> {}]
  BY <1>1 DEF History
<1> QED
  BY <1>2, <1>3, <1>4 DEF Log!Init, Known, Used, Outage, History, Resolved

\* A monitor enters the log when its row is inserted.
LEMMA CreateIsAdd == ASSUME LogInv, NEW m \in Monitors, createMonitor(m) PROVE Log!Add(m)
<1>1. m \notin Known /\ Known' = Known \union {m}
  BY DEF createMonitor, Known, Live, LogInv, IInv, TypeOK
<1>2. Outage' = Outage /\ History' = History /\ Used' = Used
  BY SameIncidents DEF createMonitor
<1> QED
  BY <1>1, <1>2 DEF Log!Add, Known, Used, Outage, History, Resolved

\* The cascade empties the monitor's part of the log in the same step.
LEMMA DeleteIsRemove == ASSUME LogInv, NEW m \in Monitors, deleteMonitor(m) PROVE Log!Remove(m)
<1> USE DEF deleteMonitor
<1>1. \A i \in Incident : phase'[i] = IF owner[i] = m THEN "deleted" ELSE phase[i]
  BY DEF CascadedPhases
<1>2. m \in Known /\ Known' = Known \ {m}
  BY DEF Known, Live, LogInv, IInv, TypeOK
<1>3. Open(m)' = {} /\ Resolved(m)' = {}
  BY <1>1 DEF Open, Resolved
<1>4. \A n \in Monitors \ {m} : Open(n)' = Open(n) /\ Resolved(n)' = Resolved(n)
  BY <1>1 DEF Open, Resolved
<1>5. Outage' = [Outage EXCEPT ![m] = None] /\ History' = [History EXCEPT ![m] = {}]
  BY <1>3, <1>4, OneMonitor, AnyOfOne
<1>6. Used' = Used
  BY <1>1, NoneAssumption DEF Used, LogInv, UnusedIsNobodys
<1> QED
  BY <1>2, <1>5, <1>6 DEF Log!Remove, Known, Used, Outage, History, Resolved

\* A commit is a step of the log, or changes nothing in it.
LEMMA CommitIsLogged ==
    ASSUME LogInv, NEW r \in Runs, CommitCheck(r), NEW m \in Monitors, job[r] = m
    PROVE  \/ \E i \in Incident : Log!Fail(m, i)
           \/ Log!Recover(m)
           \/ UNCHANGED <<Known, Outage, History, Used>>
<1>1. m \in Known /\ Known' = Known
  BY DEF CommitCheck, Known
<1>2. ASSUME NEW i \in Incident, Opens(r, i) PROVE Log!Fail(m, i)
  <2>1. /\ phase'[i] = "open" /\ \A j \in Incident \ {i} : phase'[j] = phase[j]
        /\ owner'[i] = m /\ \A j \in Incident \ {i} : owner'[j] = owner[j]
        /\ phase[i] = "unused" /\ Open(m) = {}
    BY <1>2 DEF Opens, LogInv, IInv, TypeOK
  <2>2. Open(m)' = {i} /\ Resolved(m)' = Resolved(m)
    BY <2>1 DEF Open, Resolved
  <2>3. \A n \in Monitors \ {m} : Open(n)' = Open(n) /\ Resolved(n)' = Resolved(n)
    BY <2>1 DEF Open, Resolved
  <2>4. Outage' = [Outage EXCEPT ![m] = i]
    BY <1>1, <2>2, <2>3, OneMonitor, AnyOfOne
  <2>5. History' = History
    BY <2>2, <2>3 DEF History
  <2>6. Used' = Used \union {i} /\ i \notin Used
    BY <2>1 DEF Used
  <2>7. Outage[m] = None
    BY <1>1, <2>1, AnyOfOne DEF Outage
  <2> QED
    BY <1>1, <2>4, <2>5, <2>6, <2>7 DEF Log!Fail, Known, Used, Outage, History, Resolved
<1>3. ASSUME NEW i \in Incident, Resolves(r, i) PROVE Log!Recover(m)
  <2>1. /\ phase'[i] = "resolved" /\ \A j \in Incident \ {i} : phase'[j] = phase[j]
        /\ owner' = owner /\ Open(m) = {i} /\ owner[i] = m /\ phase[i] = "open"
    BY <1>3 DEF Resolves, LogInv, IInv, TypeOK, Open
  <2>2. Open(m)' = {} /\ Resolved(m)' = Resolved(m) \union {i}
    <3>1. Open(m)' = Open(m) \ {i}
      BY <2>1 DEF Open
    <3> QED BY <2>1, <3>1 DEF Resolved
  <2>3. \A n \in Monitors \ {m} : Open(n)' = Open(n) /\ Resolved(n)' = Resolved(n)
    BY <2>1 DEF Open, Resolved
  <2>4. Outage[m] = i
    BY <1>1, <2>1, AnyOfOne DEF Outage
  <2>5. Outage' = [Outage EXCEPT ![m] = None]
    BY <1>1, <2>2, <2>3, OneMonitor, AnyOfOne
  <2>6. History' = [History EXCEPT ![m] = History[m] \union {Outage[m]}]
    BY <1>1, <2>2, <2>3, <2>4, OneMonitor DEF History
  <2>7. Used' = Used
    BY <2>1 DEF Used
  <2>8. Outage[m] # None
    BY <2>4, NoneAssumption
  <2> QED
    BY <1>1, <2>5, <2>6, <2>7, <2>8 DEF Log!Recover, Known, Used, Outage, History, Resolved
<1>4. CASE UNCHANGED <<owner, phase, change>>
  BY <1>1, <1>4, SameIncidents
<1> QED
  BY <1>2, <1>3, <1>4, CommitCases

\* Every step is a step of the log or a stutter.
LEMMA OutageStep == LogInv /\ [Next]_vars => [Log!Next]_(Log!vars)
<1> SUFFICES ASSUME LogInv, [Next]_vars PROVE Log!Next \/ UNCHANGED <<Known, Outage, History, Used>>
  BY DEF Log!vars, Known, Used, Outage, History, Resolved
<1>1. ASSUME NEW m \in Monitors, createMonitor(m) PROVE Log!Next
  BY <1>1, CreateIsAdd DEF Log!Next
<1>2. ASSUME NEW m \in Monitors, deleteMonitor(m) PROVE Log!Next
  BY <1>2, DeleteIsRemove DEF Log!Next
<1>3. ASSUME NEW r \in Runs, CommitCheck(r) PROVE Log!Next \/ UNCHANGED <<Known, Outage, History, Used>>
  <2>1. job[r] \in Monitors
    BY <1>3 DEF CommitCheck, LogInv, IInv, RunsHaveJobs
  <2> QED
    BY <1>3, <2>1, CommitIsLogged DEF Log!Next
<1>4. ASSUME NEW m \in Monitors, updateMonitor(m) PROVE UNCHANGED <<Known, Outage, History, Used>>
  <2>1. Known' = Known
    BY <1>4 DEF updateMonitor, Known, LogInv, IInv, TypeOK
  <2> QED
    BY <1>4, <2>1, SameIncidents DEF updateMonitor
<1>5. ASSUME UNCHANGED <<row, owner, phase>> PROVE UNCHANGED <<Known, Outage, History, Used>>
  BY <1>5, SameIncidents DEF Known
<1>6. ASSUME NEW r \in Runs, NEW m \in Monitors, LoadMonitor(r, m) PROVE UNCHANGED <<row, owner, phase>>
  BY <1>6 DEF LoadMonitor, dbVars
<1>7. ASSUME NEW r \in Runs, probe(r) \/ LockMonitor(r) \/ SkipDeleted(r) \/ EnqueueAlert(r) \/ FailCheck(r)
      PROVE  UNCHANGED <<row, owner, phase>>
  BY <1>7 DEF probe, LockMonitor, SkipDeleted, EnqueueAlert, FailCheck, dbVars
<1>8. CASE UNCHANGED vars
  BY <1>5, <1>8 DEF vars, dbVars
<1> QED
  BY <1>1, <1>2, <1>3, <1>4, <1>5, <1>6, <1>7, <1>8 DEF Next, RunStep

\* Row locks, two tables, cascades and crashing workers implement the outage log.
THEOREM Refinement == Spec => ImplementsOutageLog
BY OutageInit, OutageStep, LogInvHolds, PTL
   DEF Spec, ImplementsOutageLog, Log!Spec
=============================================================================
