--------------------------- MODULE SchedulesProofs ---------------------------
(***************************************************************************)
(* Theorems about Schedules, for any monitors, requests, passes and jobs.   *)
(*                                                                          *)
(* For a monitor nobody has edited, a pass that found it in Redis read      *)
(* Postgres after that and found it there too (PassesSeePosted), so it has  *)
(* nothing to remove: the order of the two reads is what the proof rests    *)
(* on.  For one that is not raced, every pass under way started after the   *)
(* last write of its row reached Redis (UnracedIsRight, PassesAgree), and   *)
(* what a pass has seen of a monitor nobody wrote under it is what there    *)
(* is (UndisturbedIsSeen).                                                  *)
(***************************************************************************)
EXTENDS Schedules, TLAPS

Targets ==
    /\ \A w \in Handlers \union Slots :
          /\ pc[w] # "idle" => target[w] \in Monitors /\ row[target[w]] # "absent"
          /\ pc[w] = "removing" => row[target[w]] = "deleted"
    /\ \A s \in Slots : pc[s] # "writing"
    /\ \A m \in changed : row[m] # "absent"

UneditedIsPosted ==
    \A m \in Monitors \ changed :
        /\ row[m] \in {"absent", "active"}
        /\ sched[m] # None => row[m] = "active" /\ sched[m] = 1000 * interval[m]
        /\ \A h \in Handlers :
              pc[h] = "writing" /\ target[h] = m => row[m] = "active" /\ write[h] = interval[m]
        /\ row[m] = "active" /\ ~Writing(m) => sched[m] = 1000 * interval[m]

PassesSeePosted ==
    \A m \in Monitors \ changed, c \in Reconcilers :
        /\ existing[c][m] # None => row[m] = "active"
        /\ wanted[c][m] # None => row[m] = "active" /\ wanted[c][m] = interval[m]
        /\ reads[c] = <<>> /\ existing[c][m] # None => wanted[c][m] # None

PostInv == TypeOK /\ Targets /\ UneditedIsPosted /\ PassesSeePosted

UnracedIsRight ==
    \A m \in Monitors \ raced :
        /\ ~Writing(m) => sched[m] = EveryOf(Desired(m))
        /\ \A h \in Handlers : pc[h] = "writing" /\ target[h] = m => write[h] = Desired(m)
        /\ \A c \in Reconcilers : m \notin disturbed[c]

UndisturbedIsSeen ==
    \A c \in Reconcilers, m \in Monitors :
        ~Idle(c) /\ m \notin disturbed[c] =>
            /\ ~Writing(m)
            /\ reads[c] = <<>> => wanted[c][m] = Desired(m)
            /\ reads[c] \in {<<"postgres">>, <<>>} /\ existing[c][m] = EveryOf(Desired(m))
                  => sched[m] = EveryOf(Desired(m))

PassesAgree ==
    \A c, d \in Reconcilers : ~Idle(c) => disturbed[d] \subseteq disturbed[c]

SyncInv == UnracedIsRight /\ UndisturbedIsSeen /\ PassesAgree

-----------------------------------------------------------------------------
(***************************************************************************)
(* Helpers.                                                                 *)
(***************************************************************************)

\* Rows count in seconds and schedulers in milliseconds, and nothing that is
\* scheduled looks like nothing.
LEMMA Units ==
    /\ \A i \in Intervals : EveryOf(i) = 1000 * i /\ 1000 * i \in Millis /\ 1000 * i # None /\ i # None
    /\ EveryOf(None) = None /\ None \in Seconds /\ None \in Millis
    /\ \A s \in Seconds : EveryOf(s) \in Millis /\ (EveryOf(s) = None <=> s = None)
BY ScheduleAssumptions DEF EveryOf, Seconds, Millis

\* The stages of a pass.
LEMMA Stages ==
    /\ ReadOrder = <<"redis", "postgres">>
    /\ Tail(<<"redis", "postgres">>) = <<"postgres">> /\ Head(<<"redis", "postgres">>) = "redis"
    /\ Tail(<<"postgres">>) = <<>> /\ Head(<<"postgres">>) = "postgres"
    /\ NoPass # <<>> /\ NoPass # <<"postgres">> /\ NoPass # <<"redis", "postgres">>
    /\ <<"postgres">> # <<>> /\ <<"redis", "postgres">> # <<>> /\ <<"redis", "postgres">> # <<"postgres">>
    /\ "redis" # "postgres"
<1>1. "start" # "postgres" /\ "redis" # "postgres" /\ "start" # "redis"
  OBVIOUS
<1>2. Tail(<<"redis", "postgres">>) = <<"postgres">> /\ Head(<<"redis", "postgres">>) = "redis"
  OBVIOUS
<1>3. Tail(<<"postgres">>) = <<>> /\ Head(<<"postgres">>) = "postgres"
  OBVIOUS
<1>4. NoPass # <<>> /\ NoPass # <<"postgres">> /\ NoPass # <<"redis", "postgres">>
  BY DEF NoPass
<1>5. <<"postgres">> # <<>> /\ <<"redis", "postgres">> # <<>> /\ <<"redis", "postgres">> # <<"postgres">>
  OBVIOUS
<1> QED
  BY <1>1, <1>2, <1>3, <1>4, <1>5 DEF ReadOrder

LEMMA DesiredSeconds == TypeOK => \A m \in Monitors : Desired(m) \in Seconds
BY DEF TypeOK, Desired, Seconds

LEMMA PostInit == Init => PostInv
<1> SUFFICES ASSUME Init PROVE PostInv
  OBVIOUS
<1>1. TypeOK
  BY Units, ScheduleAssumptions DEF Init, TypeOK, NoPass
<1>2. Targets
  BY DEF Init, Targets
<1>3. UneditedIsPosted /\ PassesSeePosted
  BY DEF Init, UneditedIsPosted, PassesSeePosted
<1> QED
  BY <1>1, <1>2, <1>3 DEF PostInv

-----------------------------------------------------------------------------
(***************************************************************************)
(* A posted monitor stays scheduled.                                        *)
(***************************************************************************)
\* The database half of a POST, PATCH or DELETE.
LEMMA RowWriteKeeps ==
    ASSUME PostInv, NEW h \in Handlers, NEW m \in Monitors, Post(h, m) \/ Patch(h, m) \/ Delete(h, m)
    PROVE  PostInv'
<1> USE DEF PostInv, passes
<1>1. PICK state \in {"active", "paused", "deleted"}, every \in Intervals :
         /\ row[m] # "deleted"
         /\ row' = [row EXCEPT ![m] = state]
         /\ interval' = [interval EXCEPT ![m] = every]
         /\ Begin(h, m, "writing", ScheduleOf(state, every))
         /\ \/ row[m] = "absent" /\ state = "active" /\ every = interval[m] /\ changed' = changed
            \/ changed' = changed \union {m} /\ row[m] \in Live
  <2>1. CASE Post(h, m)
    <3>1. interval[m] \in Intervals /\ interval' = [interval EXCEPT ![m] = interval[m]]
      BY <2>1 DEF Post, TypeOK
    <3> QED
      BY <2>1, <3>1 DEF Post, ScheduleOf
  <2>2. CASE Patch(h, m)
    BY <2>2 DEF Patch, Live
  <2>3. CASE Delete(h, m)
    <3>1. interval[m] \in Intervals /\ interval' = [interval EXCEPT ![m] = interval[m]]
      BY <2>3 DEF Delete, TypeOK
    <3> QED
      BY <2>3, <3>1 DEF Delete, ScheduleOf, Live
  <2> QED
    BY <2>1, <2>2, <2>3
<1>2. /\ UNCHANGED <<sched, passes, failures>> /\ TrackRowWrite(m)
  BY DEF Post, Patch, Delete
<1>3. /\ pc[h] = "idle" /\ pc' = [pc EXCEPT ![h] = "writing"]
      /\ target' = [target EXCEPT ![h] = m]
      /\ write' = [write EXCEPT ![h] = ScheduleOf(state, every)]
      /\ ScheduleOf(state, every) \in Seconds
  BY <1>1, Units DEF Begin, ScheduleOf, Seconds
<1>4. TypeOK'
  <2>1. row' \in [Monitors -> {"absent", "active", "paused", "deleted"}]
        /\ interval' \in [Monitors -> Intervals] /\ changed' \subseteq Monitors
    BY <1>1 DEF TypeOK
  <2>2. raced' \subseteq Monitors /\ disturbed' \in [Reconcilers -> SUBSET Monitors]
    BY <1>2 DEF TypeOK, TrackRowWrite
  <2>3. /\ pc' \in [Handlers \union Slots -> {"idle", "writing", "lookup", "removing", "queued", "probing"}]
        /\ target' \in [Handlers \union Slots -> Monitors \union {None}]
        /\ write' \in [Handlers \union Slots -> Seconds]
        /\ \A w \in Handlers \union Slots : pc'[w] # "writing" => write'[w] = None
    BY <1>3 DEF TypeOK
  <2> QED
    BY <1>2, <2>1, <2>2, <2>3 DEF TypeOK
<1>5. Targets'
  BY <1>1, <1>3, ScheduleAssumptions DEF Targets, TypeOK, Live
<1>6. \A n \in Monitors : n # m => (Writing(n)' <=> Writing(n))
  BY <1>3 DEF Writing, TypeOK
<1>7. Writing(m)'
  BY <1>3 DEF Writing, TypeOK
<1>8. UneditedIsPosted'
  <2> SUFFICES ASSUME NEW n \in Monitors \ changed'
               PROVE  /\ row'[n] \in {"absent", "active"}
                      /\ sched'[n] # None => row'[n] = "active" /\ sched'[n] = 1000 * interval'[n]
                      /\ \A g \in Handlers :
                            pc'[g] = "writing" /\ target'[g] = n => row'[n] = "active" /\ write'[g] = interval'[n]
                      /\ row'[n] = "active" /\ ~Writing(n)' => sched'[n] = 1000 * interval'[n]
    BY DEF UneditedIsPosted
  <2>1. n \in Monitors \ changed
    BY <1>1
  <2>2. CASE n # m
    BY <1>1, <1>2, <1>3, <1>6, <2>1, <2>2 DEF UneditedIsPosted, TypeOK
  <2>3. CASE n = m
    <3>1. row[m] = "absent" /\ state = "active" /\ every = interval[m]
      BY <1>1, <2>3
    <3>2. sched'[m] = None
      BY <1>2, <2>1, <2>3, <3>1 DEF UneditedIsPosted
    <3>3. \A g \in Handlers : g # h /\ pc'[g] # "idle" => target'[g] # m
      BY <1>3, <3>1 DEF Targets, TypeOK
    <3> QED
      BY <1>1, <1>3, <1>7, <2>3, <3>1, <3>2, <3>3 DEF ScheduleOf, TypeOK
  <2> QED
    BY <2>2, <2>3
<1>9. PassesSeePosted'
  BY <1>1, <1>2 DEF PassesSeePosted, TypeOK, Live
<1> QED
  BY <1>4, <1>5, <1>8, <1>9

\* A step that writes neither store.
LEMMA WorkerKeeps ==
    ASSUME PostInv, NEW w \in Handlers \union Slots,
           NEW at \in {"idle", "lookup", "removing", "queued", "probing"}, NEW m \in Monitors \union {None},
           pc' = [pc EXCEPT ![w] = at], target' = [target EXCEPT ![w] = m],
           write' = [write EXCEPT ![w] = None],
           at # "idle" => m \in Monitors /\ row[m] # "absent",
           at = "removing" => row[m] = "deleted",
           \/ pc[w] # "writing" /\ UNCHANGED <<raced, changed>>
           \/ /\ raced' = raced \union {target[w]} /\ changed' = changed \union {target[w]}
              /\ pc[w] = "writing",
           UNCHANGED <<rows, sched, passes, disturbed>>, failures' \in 0 .. MaxFailures
    PROVE  PostInv'
<1> USE DEF PostInv, passes, rows
<1>1. pc[w] = "writing" => target[w] \in Monitors /\ row[target[w]] # "absent"
  BY DEF Targets
<1>2. TypeOK'
  BY <1>1, Units DEF TypeOK
<1>3. Targets'
  BY <1>1 DEF Targets, TypeOK
<1>4. \A n \in Monitors \ changed' : Writing(n) => Writing(n)'
  BY DEF Writing, TypeOK
<1>5. UneditedIsPosted'
  <2> SUFFICES ASSUME NEW n \in Monitors \ changed'
               PROVE  /\ row'[n] \in {"absent", "active"}
                      /\ sched'[n] # None => row'[n] = "active" /\ sched'[n] = 1000 * interval'[n]
                      /\ \A g \in Handlers :
                            pc'[g] = "writing" /\ target'[g] = n => row'[n] = "active" /\ write'[g] = interval'[n]
                      /\ row'[n] = "active" /\ ~Writing(n)' => sched'[n] = 1000 * interval'[n]
    BY DEF UneditedIsPosted
  <2>1. n \in Monitors \ changed
    OBVIOUS
  <2>2. \A g \in Handlers : pc'[g] = "writing" => g # w /\ pc[g] = "writing" /\ target'[g] = target[g]
                                               /\ write'[g] = write[g]
    BY DEF TypeOK
  <2> QED
    BY <1>4, <2>1, <2>2 DEF UneditedIsPosted
<1>6. PassesSeePosted'
  BY DEF PassesSeePosted
<1> QED
  BY <1>2, <1>3, <1>5, <1>6

\* Beginning and ending a request or a job, and a job's own steps.
LEMMA WorkersKeep ==
    ASSUME PostInv, NEW w \in Handlers \union Slots, NEW m \in Monitors,
           \/ w \in Handlers /\ (DeleteNothing(w, m) \/ Lookup(w) \/ CutShort(w))
           \/ w \in Slots /\ (Fire(w, m) \/ LoadMonitor(w) \/ RecordCheck(w) \/ FailJob(w))
    PROVE  PostInv'
<1>1. TypeOK /\ Targets /\ (pc[w] # "idle" => target[w] \in Monitors /\ row[target[w]] # "absent")
      /\ (w \in Slots => pc[w] # "writing")
  BY DEF PostInv, Targets
<1>2. ASSUME pc[w] \notin {"idle", "writing"}, UNCHANGED <<rows, sched, passes, history, target, write>>,
             failures' \in 0 .. MaxFailures, NEW at \in {"removing", "probing"},
             pc' = [pc EXCEPT ![w] = at], at = "removing" => row[target[w]] = "deleted"
      PROVE  PostInv'
  <2>1. target' = [target EXCEPT ![w] = target[w]] /\ write' = [write EXCEPT ![w] = None]
    BY <1>1, <1>2 DEF TypeOK
  <2>2. target[w] \in Monitors \union {None} /\ row[target[w]] # "absent"
    BY <1>1, <1>2
  <2> QED
    BY <1>1, <1>2, <2>1, <2>2, WorkerKeeps DEF history
<1>3. CASE w \in Handlers /\ DeleteNothing(w, m)
  <2>1. row[m] # "absent" /\ failures' \in 0 .. MaxFailures
    BY <1>1, <1>3 DEF DeleteNothing, Live, TypeOK
  <2> QED
    BY <1>1, <1>3, <2>1, WorkerKeeps DEF DeleteNothing, Begin, history
<1>4. CASE w \in Handlers /\ Lookup(w)
  <2>1. UNCHANGED <<rows, sched, passes, history>> /\ failures' \in 0 .. MaxFailures /\ pc[w] = "lookup"
    BY <1>1, <1>4 DEF Lookup, TypeOK
  <2>2. CASE End(w)
    BY <2>1, <2>2, WorkerKeeps DEF End, history
  <2>3. CASE Orphan(target[w]) /\ pc' = [pc EXCEPT ![w] = "removing"] /\ UNCHANGED <<target, write>>
    BY <1>2, <2>1, <2>3 DEF Orphan
  <2> QED
    BY <1>4, <2>2, <2>3 DEF Lookup
<1>5. CASE w \in Handlers /\ CutShort(w)
  <2>1. failures' \in 0 .. MaxFailures
    BY <1>1, <1>5, ScheduleAssumptions DEF CutShort, TypeOK
  <2> QED
    BY <1>5, <2>1, WorkerKeeps DEF CutShort, End
<1>6. CASE w \in Slots /\ Fire(w, m)
  <2>1. row[m] # "absent" /\ failures' \in 0 .. MaxFailures /\ UNCHANGED <<raced, changed, disturbed>>
    BY <1>1, <1>6 DEF Fire, PostInv, UneditedIsPosted, Targets, TypeOK, history
  <2> QED
    BY <1>1, <1>6, <2>1, WorkerKeeps DEF Fire, Begin
<1>7. CASE w \in Slots /\ LoadMonitor(w)
  <2>1. UNCHANGED <<rows, sched, passes, history>> /\ failures' \in 0 .. MaxFailures /\ pc[w] = "queued"
    BY <1>1, <1>7 DEF LoadMonitor, TypeOK
  <2>2. CASE End(w)
    BY <2>1, <2>2, WorkerKeeps DEF End, history
  <2>3. CASE AfterLoad(target[w]) # "idle" /\ pc' = [pc EXCEPT ![w] = AfterLoad(target[w])]
             /\ UNCHANGED <<target, write>>
    <3>1. AfterLoad(target[w]) \in {"removing", "probing"}
          /\ (AfterLoad(target[w]) = "removing" => row[target[w]] = "deleted")
      BY <1>1, <2>1, <2>3 DEF AfterLoad, TypeOK
    <3> QED
      BY <1>2, <2>1, <2>3, <3>1
  <2> QED
    BY <1>7, <2>2, <2>3 DEF LoadMonitor
<1>8. CASE w \in Slots /\ RecordCheck(w)
  <2>1. UNCHANGED <<rows, sched, passes, history>> /\ failures' \in 0 .. MaxFailures /\ pc[w] = "probing"
    BY <1>1, <1>8 DEF RecordCheck, TypeOK
  <2>2. CASE End(w)
    BY <2>1, <2>2, WorkerKeeps DEF End, history
  <2>3. CASE row[target[w]] = "deleted" /\ pc' = [pc EXCEPT ![w] = "removing"] /\ UNCHANGED <<target, write>>
    BY <1>2, <2>1, <2>3
  <2> QED
    BY <1>8, <2>2, <2>3 DEF RecordCheck
<1>9. CASE w \in Slots /\ FailJob(w)
  <2>1. failures' \in 0 .. MaxFailures
    BY <1>1, <1>9, ScheduleAssumptions DEF FailJob, TypeOK
  <2> QED
    BY <1>1, <1>9, <2>1, WorkerKeeps DEF FailJob, End, history
<1> QED
  BY <1>3, <1>4, <1>5, <1>6, <1>7, <1>8, <1>9

\* The Redis half: what a handler writes of an unedited monitor is its interval.
LEMMA ScheduleWriteKeeps ==
    ASSUME PostInv, NEW w \in Handlers \union Slots, WriteSchedule(w) PROVE PostInv'
<1> USE DEF PostInv, WriteSchedule, End, passes, rows, history
<1> DEFINE m == target[w]
<1>1. m \in Monitors /\ (pc[w] = "removing" => row[m] = "deleted") /\ (pc[w] = "writing" => w \in Handlers)
  BY DEF Targets
<1>2. TypeOK'
  BY <1>1, Units DEF TypeOK
<1>3. Targets'
  BY DEF Targets, TypeOK
<1>4. /\ \A n \in Monitors : n # m => (Writing(n)' <=> Writing(n)) /\ sched'[n] = sched[n]
      /\ sched'[m] = EveryOf(write[w])
  BY <1>1 DEF Writing, TypeOK
<1>5. UneditedIsPosted'
  <2> SUFFICES ASSUME NEW n \in Monitors \ changed
               PROVE  /\ row[n] \in {"absent", "active"}
                      /\ sched'[n] # None => row[n] = "active" /\ sched'[n] = 1000 * interval[n]
                      /\ \A g \in Handlers :
                            pc'[g] = "writing" /\ target'[g] = n => row[n] = "active" /\ write'[g] = interval[n]
                      /\ row[n] = "active" /\ ~Writing(n)' => sched'[n] = 1000 * interval[n]
    BY DEF UneditedIsPosted
  <2>1. \A g \in Handlers : pc'[g] = "writing" => g # w /\ pc[g] = "writing" /\ target'[g] = target[g]
                                               /\ write'[g] = write[g]
    BY DEF TypeOK
  <2>2. row[n] \in {"absent", "active"}
    BY DEF UneditedIsPosted
  <2>3. CASE n # m
    BY <1>4, <2>1, <2>3 DEF UneditedIsPosted
  <2>4. CASE n = m
    <3>1. pc[w] = "writing" /\ w \in Handlers
      BY <1>1, <2>2, <2>4
    <3>2. row[n] = "active" /\ write[w] = interval[n]
      BY <2>4, <3>1 DEF UneditedIsPosted
    <3>3. sched'[n] = 1000 * interval[n]
      BY <1>4, <2>4, <3>2, Units DEF TypeOK
    <3> QED
      BY <2>1, <2>2, <3>2, <3>3 DEF UneditedIsPosted
  <2> QED
    BY <2>3, <2>4
<1>6. PassesSeePosted'
  BY DEF PassesSeePosted
<1> QED
  BY <1>2, <1>3, <1>5, <1>6

\* A pass: what it has to remove was edited, because of the order of its reads.
LEMMA PassKeeps ==
    ASSUME PostInv, NEW c \in Reconcilers,
           StartPass(c) \/ ReadStore(c) \/ ApplyFix(c) \/ EndPass(c) \/ AbortPass(c)
    PROVE  PostInv'
<1> USE DEF PostInv, workers, rows, history
<1>1. UNCHANGED <<row, interval, pc, target, write, changed>>
  BY DEF StartPass, ReadStore, ApplyFix, EndPass, AbortPass
<1>2. Targets' /\ \A m \in Monitors : Writing(m)' <=> Writing(m)
  BY <1>1 DEF Targets, Writing
<1>3. CASE StartPass(c) \/ EndPass(c) \/ AbortPass(c)
  <2>1. sched' = sched
    BY <1>3 DEF StartPass, EndPass, AbortPass
  <2>2. /\ raced' \subseteq Monitors /\ disturbed' \in [Reconcilers -> SUBSET Monitors]
        /\ failures' \in 0 .. MaxFailures
    <3>1. CASE StartPass(c)
      BY <3>1 DEF StartPass, TrackPassStart, TypeOK
    <3>2. CASE EndPass(c)
      BY <3>2 DEF EndPass, TrackPassEnd, TypeOK
    <3>3. CASE AbortPass(c)
      BY <3>3, ScheduleAssumptions DEF AbortPass, TypeOK
    <3> QED
      BY <1>3, <3>1, <3>2, <3>3
  <2>3. CASE StartPass(c)
    <3>1. reads' = [reads EXCEPT ![c] = <<"redis", "postgres">>] /\ UNCHANGED <<existing, wanted>>
      BY <2>3, Stages DEF StartPass
    <3>2. TypeOK'
      BY <1>1, <2>1, <2>2, <3>1 DEF TypeOK
    <3>3. UneditedIsPosted'
      BY <1>1, <1>2, <2>1 DEF UneditedIsPosted
    <3>4. \A d \in Reconcilers : reads'[d] = <<>> => reads[d] = <<>>
      BY <3>1, Stages DEF TypeOK
    <3>5. PassesSeePosted'
      BY <1>1, <3>1, <3>4 DEF PassesSeePosted
    <3> QED
      BY <1>2, <3>2, <3>3, <3>5
  <2>4. CASE EndPass(c) \/ AbortPass(c)
    <3>1. /\ reads' = [reads EXCEPT ![c] = NoPass]
          /\ existing' = [existing EXCEPT ![c] = [m \in Monitors |-> None]]
          /\ wanted' = [wanted EXCEPT ![c] = [m \in Monitors |-> None]]
      BY <2>4 DEF EndPass, AbortPass, ForgetPass
    <3>2. TypeOK'
      BY <1>1, <2>1, <2>2, <3>1, Units DEF TypeOK
    <3>3. UneditedIsPosted'
      BY <1>1, <1>2, <2>1 DEF UneditedIsPosted
    <3>4. \A d \in Reconcilers : d # c => /\ reads'[d] = reads[d] /\ existing'[d] = existing[d]
                                          /\ wanted'[d] = wanted[d]
      BY <3>1 DEF TypeOK
    <3>5. \A m \in Monitors : existing'[c][m] = None /\ wanted'[c][m] = None
      BY <3>1 DEF TypeOK
    <3>6. PassesSeePosted'
      BY <1>1, <3>4, <3>5 DEF PassesSeePosted
    <3> QED
      BY <1>2, <3>2, <3>3, <3>6
  <2> QED
    BY <1>3, <2>3, <2>4
<1>4. CASE ReadStore(c)
  <2>1. UNCHANGED <<sched, failures, raced, disturbed>>
    BY <1>4 DEF ReadStore
  <2>2. UneditedIsPosted'
    BY <1>1, <1>2, <2>1 DEF UneditedIsPosted
  <2>3. \/ /\ reads[c] = <<"redis", "postgres">> /\ reads' = [reads EXCEPT ![c] = <<"postgres">>]
           /\ existing' = [existing EXCEPT ![c] = sched] /\ wanted' = wanted
        \/ /\ reads[c] = <<"postgres">> /\ reads' = [reads EXCEPT ![c] = <<>>]
           /\ wanted' = [wanted EXCEPT ![c] = [m \in Monitors |-> Desired(m)]] /\ existing' = existing
    <3>1. reads[c] \in {<<"redis", "postgres">>, <<"postgres">>}
      BY <1>4 DEF ReadStore, Idle, TypeOK
    <3>2. reads' = [reads EXCEPT ![c] = Tail(reads[c])]
      BY <1>4 DEF ReadStore
    <3> QED
      BY <1>4, <3>1, <3>2, Stages DEF ReadStore
  <2>4. TypeOK'
    <3>1. reads' \in [Reconcilers -> {NoPass, <<"redis", "postgres">>, <<"postgres">>, <<>>}]
      BY <2>3 DEF TypeOK
    <3>2. existing' \in [Reconcilers -> [Monitors -> Millis]]
      BY <2>3 DEF TypeOK
    <3>3. [m \in Monitors |-> Desired(m)] \in [Monitors -> Seconds]
      BY DesiredSeconds
    <3>4. wanted' \in [Reconcilers -> [Monitors -> Seconds]]
      BY <2>3, <3>3 DEF TypeOK
    <3> QED
      BY <1>1, <2>1, <3>1, <3>2, <3>4 DEF TypeOK
  <2>5. PassesSeePosted'
    <3> SUFFICES ASSUME NEW m \in Monitors \ changed, NEW d \in Reconcilers
                 PROVE  /\ existing'[d][m] # None => row[m] = "active"
                        /\ wanted'[d][m] # None => row[m] = "active" /\ wanted'[d][m] = interval[m]
                        /\ reads'[d] = <<>> /\ existing'[d][m] # None => wanted'[d][m] # None
      BY <1>1 DEF PassesSeePosted
    <3>1. CASE d # c
      <4>1. reads'[d] = reads[d] /\ existing'[d] = existing[d] /\ wanted'[d] = wanted[d]
        BY <2>3, <3>1 DEF TypeOK
      <4> QED
        BY <4>1 DEF PassesSeePosted
    <3>2. CASE d = c /\ reads[c] = <<"redis", "postgres">>
      <4>1. reads'[c] = <<"postgres">> /\ existing'[c] = sched /\ wanted'[c] = wanted[c]
        BY <2>3, <3>2, Stages DEF TypeOK
      <4> QED
        BY <3>2, <4>1, Stages DEF PassesSeePosted, UneditedIsPosted
    <3>3. CASE d = c /\ reads[c] = <<"postgres">>
      <4>1. existing'[c] = existing[c] /\ wanted'[c][m] = Desired(m)
        BY <2>3, <3>3, Stages DEF TypeOK
      <4>2. existing[c][m] # None => row[m] = "active"
        BY DEF PassesSeePosted
      <4>3. interval[m] # None
        BY Units DEF TypeOK
      <4> QED
        BY <3>3, <4>1, <4>2, <4>3 DEF Desired
    <3> QED
      BY <2>3, <3>1, <3>2, <3>3
  <2> QED
    BY <1>2, <2>2, <2>4, <2>5
<1>5. CASE ApplyFix(c)
  <2>1. UNCHANGED <<reads, wanted, failures, raced, disturbed>> /\ reads[c] = <<>>
    BY <1>5 DEF ApplyFix
  <2>2. PICK m \in Differs(c) : /\ sched' = [sched EXCEPT ![m] = EveryOf(wanted[c][m])]
                                /\ existing' = [existing EXCEPT ![c][m] = EveryOf(wanted[c][m])]
    BY <1>5 DEF ApplyFix
  <2>3. m \in Monitors /\ existing[c][m] # EveryOf(wanted[c][m]) /\ wanted[c][m] \in Seconds
    BY DEF Differs, TypeOK
  <2>4. EveryOf(wanted[c][m]) \in Millis
    BY <2>3, Units
  <2>5. TypeOK'
    BY <1>1, <2>1, <2>2, <2>3, <2>4 DEF TypeOK
  <2>6. m \notin changed => /\ wanted[c][m] = interval[m] /\ row[m] = "active"
                            /\ EveryOf(wanted[c][m]) = 1000 * interval[m]
    <3> SUFFICES ASSUME m \notin changed PROVE wanted[c][m] # None
      BY <2>3, Units DEF PassesSeePosted, TypeOK
    <3> QED
      BY <2>1, <2>3, Units DEF PassesSeePosted
  <2>7. UneditedIsPosted'
    BY <1>1, <1>2, <2>2, <2>3, <2>6 DEF UneditedIsPosted, TypeOK
  <2>8. /\ existing'[c][m] = EveryOf(wanted[c][m])
        /\ \A d \in Reconcilers, n \in Monitors : d # c \/ n # m => existing'[d][n] = existing[d][n]
    BY <2>2, <2>3 DEF TypeOK
  <2>9. PassesSeePosted'
    <3> SUFFICES ASSUME NEW n \in Monitors \ changed, NEW d \in Reconcilers
                 PROVE  /\ existing'[d][n] # None => row[n] = "active"
                        /\ wanted[d][n] # None => row[n] = "active" /\ wanted[d][n] = interval[n]
                        /\ reads[d] = <<>> /\ existing'[d][n] # None => wanted[d][n] # None
      BY <1>1, <2>1 DEF PassesSeePosted
    <3>1. CASE d # c \/ n # m
      BY <2>8, <3>1 DEF PassesSeePosted
    <3>2. CASE d = c /\ n = m
      BY <2>6, <2>8, <3>2, Units DEF PassesSeePosted, TypeOK
    <3> QED
      BY <3>1, <3>2
  <2> QED
    BY <1>2, <2>5, <2>7, <2>9
<1> QED
  BY <1>3, <1>4, <1>5

LEMMA PostStep == PostInv /\ [Next]_vars => PostInv'
<1> SUFFICES ASSUME PostInv, [Next]_vars PROVE PostInv'
  OBVIOUS
<1>1. CASE UNCHANGED vars
  BY <1>1 DEF vars, rows, workers, passes, history, PostInv, TypeOK, Targets, UneditedIsPosted,
              PassesSeePosted, Writing
<1>2. CASE Next
  <2>1. ASSUME NEW h \in Handlers, Lookup(h) \/ CutShort(h) PROVE PostInv'
    <3>1. pc[h] # "idle"
      BY <2>1 DEF Lookup, CutShort
    <3>2. target[h] \in Monitors
      BY <3>1 DEF PostInv, Targets
    <3> QED
      BY <2>1, <3>2, WorkersKeep
  <2>2. ASSUME NEW s \in Slots, LoadMonitor(s) \/ RecordCheck(s) \/ FailJob(s) PROVE PostInv'
    <3>1. pc[s] # "idle"
      BY <2>2 DEF LoadMonitor, RecordCheck, FailJob
    <3>2. target[s] \in Monitors
      BY <3>1 DEF PostInv, Targets
    <3> QED
      BY <2>2, <3>2, WorkersKeep
  <2> QED
    BY <1>2, <2>1, <2>2, RowWriteKeeps, WorkersKeep, ScheduleWriteKeeps, PassKeeps
       DEF Next, HandlerStep, PassStep, JobStep
<1> QED
  BY <1>1, <1>2

LEMMA PostInvHolds == Spec => []PostInv
BY PostInit, PostStep, PTL DEF Spec

\* Requests, passes and jobs stay within their stages, for any number of them.
THEOREM TypeCorrect == Spec => []TypeOK
<1>1. PostInv => TypeOK
  BY DEF PostInv
<1> QED
  BY PostInvHolds, <1>1, PTL

\* However many passes overlap its POST, a monitor nobody edits is scheduled.
THEOREM PostedIsScheduled == Spec => []PostedStaysScheduled
<1>1. PostInv => PostedStaysScheduled
  BY DEF PostInv, UneditedIsPosted, PostedStaysScheduled
<1> QED
  BY PostInvHolds, <1>1, PTL

-----------------------------------------------------------------------------
(***************************************************************************)
(* The stores agree unless raced.                                           *)
(***************************************************************************)
LEMMA SyncInit == Init => SyncInv
<1> SUFFICES ASSUME Init PROVE SyncInv
  OBVIOUS
<1>1. UnracedIsRight
  BY Units DEF Init, UnracedIsRight, Desired
<1>2. UndisturbedIsSeen /\ PassesAgree
  BY DEF Init, UndisturbedIsSeen, PassesAgree, Idle
<1> QED
  BY <1>1, <1>2 DEF SyncInv

\* A row is written: whoever else is at its monitor makes it raced, and every
\* pass under way is disturbed.
LEMMA RowWriteSyncs ==
    ASSUME PostInv, SyncInv, NEW h \in Handlers, NEW m \in Monitors,
           Post(h, m) \/ Patch(h, m) \/ Delete(h, m)
    PROVE  SyncInv'
<1> USE DEF PostInv, SyncInv
<1>1. /\ pc' = [pc EXCEPT ![h] = "writing"] /\ target' = [target EXCEPT ![h] = m]
      /\ pc[h] = "idle" /\ UNCHANGED <<sched, passes>> /\ TrackRowWrite(m)
  BY DEF Post, Patch, Delete, Begin
<1>2. \A n \in Monitors : n # m => row'[n] = row[n] /\ interval'[n] = interval[n]
  BY DEF Post, Patch, Delete, TypeOK
<1>3. write'[h] = Desired(m)' /\ \A g \in Handlers : g # h => write'[g] = write[g]
  <2>1. CASE Post(h, m)
    BY <2>1 DEF Post, Begin, Desired, TypeOK
  <2>2. CASE Patch(h, m)
    BY <2>2 DEF Patch, Begin, Desired, ScheduleOf, TypeOK
  <2>3. CASE Delete(h, m)
    BY <2>3 DEF Delete, Begin, Desired, TypeOK
  <2> QED
    BY <2>1, <2>2, <2>3
<1>4. \A n \in Monitors : n # m => (Writing(n)' <=> Writing(n)) /\ Desired(n)' = Desired(n)
  BY <1>1, <1>2 DEF Writing, Desired, TypeOK
<1>5. Writing(m)'
  BY <1>1 DEF Writing, TypeOK
<1>6. \A c \in Reconcilers : Idle(c)' <=> Idle(c)
  BY <1>1 DEF passes, Idle
<1>7. UnracedIsRight'
  <2> SUFFICES ASSUME NEW n \in Monitors \ raced'
               PROVE  /\ ~Writing(n)' => sched'[n] = EveryOf(Desired(n)')
                      /\ \A g \in Handlers : pc'[g] = "writing" /\ target'[g] = n => write'[g] = Desired(n)'
                      /\ \A c \in Reconcilers : n \notin disturbed'[c]
    BY DEF UnracedIsRight, EveryOf
  <2>1. n \in Monitors \ raced
    BY <1>1 DEF TrackRowWrite
  <2>2. \A c \in Reconcilers : n # m => n \notin disturbed'[c]
    BY <1>1, <2>1 DEF TrackRowWrite, UnracedIsRight
  <2>3. CASE n # m
    <3>1. \A g \in Handlers : pc'[g] = "writing" /\ target'[g] = n =>
             g # h /\ pc[g] = "writing" /\ target[g] = n
      BY <1>1, <2>3 DEF TypeOK
    <3> QED
      BY <1>1, <1>3, <1>4, <2>1, <2>2, <2>3, <3>1 DEF UnracedIsRight
  <2>4. CASE n = m
    <3>1. ~Writing(m) /\ \A c \in Reconcilers : Idle(c)
      BY <1>1, <2>1, <2>4 DEF TrackRowWrite
    <3>2. \A g \in Handlers : pc'[g] = "writing" /\ target'[g] = m => g = h
      BY <1>1, <3>1 DEF Writing, TypeOK
    <3>3. \A c \in Reconcilers : disturbed'[c] = {}
      BY <1>1, <3>1 DEF TrackRowWrite
    <3> QED
      BY <1>3, <1>5, <2>4, <3>2, <3>3
  <2> QED
    BY <2>3, <2>4
<1>8. UndisturbedIsSeen'
  <2> SUFFICES ASSUME NEW c \in Reconcilers, NEW n \in Monitors, ~Idle(c), n \notin disturbed'[c]
               PROVE  /\ ~Writing(n)'
                      /\ reads[c] = <<>> => wanted[c][n] = Desired(n)'
                      /\ reads[c] \in {<<"postgres">>, <<>>} /\ existing[c][n] = EveryOf(Desired(n)')
                            => sched[n] = EveryOf(Desired(n)')
    BY <1>1, <1>6 DEF UndisturbedIsSeen, passes, EveryOf
  <2>1. n # m /\ n \notin disturbed[c]
    BY <1>1 DEF TrackRowWrite
  <2> QED
    BY <1>4, <2>1 DEF UndisturbedIsSeen
<1>9. PassesAgree'
  BY <1>1, <1>6 DEF PassesAgree, TrackRowWrite
<1> QED
  BY <1>7, <1>8, <1>9

\* A request ends before Redis has what it wrote, or nothing was to write.
LEMMA WorkerSyncs ==
    ASSUME PostInv, SyncInv, NEW w \in Handlers \union Slots,
           \/ w \in Handlers /\ (Lookup(w) \/ CutShort(w) \/ \E m \in Monitors : DeleteNothing(w, m))
           \/ w \in Slots /\ (LoadMonitor(w) \/ RecordCheck(w) \/ FailJob(w) \/ \E m \in Monitors : Fire(w, m))
    PROVE  SyncInv'
<1> USE DEF PostInv, SyncInv
<1>1. /\ UNCHANGED <<rows, sched, passes, disturbed>>
      /\ pc'[w] # "writing" /\ write'[w] = None
      /\ \A g \in Handlers : g # w => pc'[g] = pc[g] /\ target'[g] = target[g] /\ write'[g] = write[g]
  <2>1. UNCHANGED <<rows, sched, passes, disturbed>>
    BY DEF Lookup, CutShort, DeleteNothing, LoadMonitor, RecordCheck, FailJob, Fire, history
  <2>2. \/ \E at \in {"lookup", "queued"}, m \in Monitors : Begin(w, m, at, None)
        \/ End(w)
        \/ /\ pc' = [pc EXCEPT ![w] = "removing"] \/ pc' = [pc EXCEPT ![w] = "probing"]
           /\ UNCHANGED <<target, write>> /\ pc[w] # "writing"
    <3>1. \A m \in Monitors : AfterLoad(m) \in {"idle", "removing", "probing"}
      BY DEF AfterLoad
    <3>2. LoadMonitor(w) => pc[w] = "queued" /\ target[w] \in Monitors
      BY DEF LoadMonitor, Targets
    <3> QED
      BY <3>1, <3>2 DEF Lookup, CutShort, DeleteNothing, LoadMonitor, RecordCheck, FailJob, Fire
  <2> QED
    BY <2>1, <2>2 DEF Begin, End, TypeOK
<1>2. raced \subseteq raced' /\ (w \in Handlers /\ pc[w] = "writing" => target[w] \in raced')
  BY DEF Lookup, CutShort, DeleteNothing, LoadMonitor, RecordCheck, FailJob, Fire, history, Targets,
         Begin
<1>3. \A n \in Monitors : /\ Writing(n)' => Writing(n)
                          /\ n \notin raced' => (Writing(n) => Writing(n)')
                          /\ Desired(n)' = Desired(n)
  BY <1>1, <1>2 DEF Writing, Desired, rows
<1>4. UnracedIsRight'
  <2> SUFFICES ASSUME NEW n \in Monitors \ raced'
               PROVE  /\ ~Writing(n)' => sched[n] = EveryOf(Desired(n))
                      /\ \A g \in Handlers : pc'[g] = "writing" /\ target'[g] = n => write'[g] = Desired(n)
                      /\ \A c \in Reconcilers : n \notin disturbed[c]
    BY <1>1, <1>3 DEF UnracedIsRight, EveryOf
  <2> QED
    BY <1>1, <1>2, <1>3 DEF UnracedIsRight
<1>5. UndisturbedIsSeen'
  BY <1>1, <1>3 DEF UndisturbedIsSeen, passes, Idle, EveryOf
<1>6. PassesAgree'
  BY <1>1 DEF PassesAgree, passes, Idle
<1> QED
  BY <1>4, <1>5, <1>6

\* Redis has it: right, unless the monitor is raced.
LEMMA ScheduleWriteSyncs ==
    ASSUME PostInv, SyncInv, NEW w \in Handlers \union Slots, WriteSchedule(w) PROVE SyncInv'
<1> USE DEF PostInv, SyncInv, WriteSchedule, End
<1> DEFINE m == target[w]
<1>1. m \in Monitors /\ (pc[w] = "removing" => row[m] = "deleted" /\ write[w] = None)
      /\ (pc[w] = "writing" => w \in Handlers)
  BY DEF Targets, TypeOK
<1>2. /\ UNCHANGED <<rows, passes, raced, disturbed>>
      /\ \A n \in Monitors : n # m => sched'[n] = sched[n]
      /\ sched'[m] = EveryOf(write[w])
      /\ \A g \in Handlers : /\ g # w => pc'[g] = pc[g] /\ target'[g] = target[g] /\ write'[g] = write[g]
                             /\ pc'[g] = "writing" => g # w
  BY <1>1 DEF history, TypeOK
<1>3. \A n \in Monitors : /\ Writing(n)' => Writing(n)
                          /\ n # m => (Writing(n) => Writing(n)')
                          /\ Desired(n)' = Desired(n)
  BY <1>2 DEF Writing, Desired, rows
<1>4. pc[w] = "removing" \/ m \notin raced => sched'[m] = EveryOf(Desired(m))
  <2>1. CASE pc[w] = "removing"
    BY <1>1, <1>2, <2>1 DEF Desired
  <2>2. CASE pc[w] = "writing" /\ m \notin raced
    BY <1>1, <1>2, <2>2 DEF UnracedIsRight
  <2> QED
    BY <2>1, <2>2
<1>5. pc[w] = "writing" => Writing(m)
  BY <1>1 DEF Writing
<1>6. UnracedIsRight'
  <2> SUFFICES ASSUME NEW n \in Monitors \ raced
               PROVE  /\ ~Writing(n)' => sched'[n] = EveryOf(Desired(n))
                      /\ \A g \in Handlers : pc'[g] = "writing" /\ target'[g] = n => write'[g] = Desired(n)
                      /\ \A c \in Reconcilers : n \notin disturbed[c]
    BY <1>2, <1>3 DEF UnracedIsRight, EveryOf
  <2> QED
    BY <1>2, <1>3, <1>4 DEF UnracedIsRight
<1>7. UndisturbedIsSeen'
  <2> SUFFICES ASSUME NEW c \in Reconcilers, NEW n \in Monitors, ~Idle(c), n \notin disturbed[c]
               PROVE  /\ ~Writing(n)'
                      /\ reads[c] = <<>> => wanted[c][n] = Desired(n)
                      /\ reads[c] \in {<<"postgres">>, <<>>} /\ existing[c][n] = EveryOf(Desired(n))
                            => sched'[n] = EveryOf(Desired(n))
    BY <1>2, <1>3 DEF UndisturbedIsSeen, passes, Idle, EveryOf
  <2> QED
    BY <1>2, <1>3, <1>4, <1>5 DEF UndisturbedIsSeen
<1>8. PassesAgree'
  BY <1>2 DEF PassesAgree, passes, Idle
<1> QED
  BY <1>6, <1>7, <1>8

\* A pass starts disturbed by what is being written, and by what disturbed the
\* passes under way.
LEMMA StartSyncs ==
    ASSUME PostInv, SyncInv, NEW c \in Reconcilers, StartPass(c) PROVE SyncInv'
<1> USE DEF PostInv, SyncInv
<1>1. /\ UNCHANGED <<rows, sched, workers, existing, wanted>> /\ Idle(c) /\ TrackPassStart(c)
      /\ reads'[c] = <<"redis", "postgres">> /\ ~Idle(c)'
      /\ \A d \in Reconcilers : d # c => reads'[d] = reads[d] /\ (Idle(d)' <=> Idle(d))
  BY Stages DEF StartPass, Idle, TypeOK
<1>2. \A n \in Monitors : (Writing(n)' <=> Writing(n)) /\ Desired(n)' = Desired(n)
  BY <1>1 DEF Writing, Desired, rows, workers
<1>3. /\ raced' = raced \union {m \in Monitors : Writing(m)}
      /\ disturbed'[c] = {m \in Monitors : Writing(m)} \union UNION {disturbed[d] : d \in Reconcilers}
      /\ \A d \in Reconcilers : d # c => disturbed'[d] = disturbed[d]
  BY <1>1 DEF TrackPassStart, TypeOK
<1>4. UnracedIsRight'
  <2> SUFFICES ASSUME NEW n \in Monitors \ raced'
               PROVE  /\ ~Writing(n)' => sched[n] = EveryOf(Desired(n))
                      /\ \A g \in Handlers : pc[g] = "writing" /\ target[g] = n => write[g] = Desired(n)
                      /\ \A d \in Reconcilers : n \notin disturbed'[d]
    BY <1>1, <1>2 DEF UnracedIsRight, EveryOf, workers
  <2>1. n \notin raced /\ ~Writing(n) /\ \A d \in Reconcilers : n \notin disturbed[d]
    BY <1>3 DEF UnracedIsRight
  <2>2. \A d \in Reconcilers : n \notin disturbed'[d]
    BY <1>3, <2>1
  <2> QED
    BY <2>1, <2>2 DEF UnracedIsRight
<1>5. UndisturbedIsSeen'
  <2> SUFFICES ASSUME NEW d \in Reconcilers, NEW n \in Monitors, ~Idle(d)', n \notin disturbed'[d]
               PROVE  /\ ~Writing(n)
                      /\ reads'[d] = <<>> => wanted[d][n] = Desired(n)
                      /\ reads'[d] \in {<<"postgres">>, <<>>} /\ existing[d][n] = EveryOf(Desired(n))
                            => sched[n] = EveryOf(Desired(n))
    BY <1>1, <1>2 DEF UndisturbedIsSeen, EveryOf
  <2>1. CASE d = c
    BY <1>1, <1>3, <2>1, Stages
  <2>2. CASE d # c
    BY <1>1, <1>3, <2>2 DEF UndisturbedIsSeen
  <2> QED
    BY <2>1, <2>2
<1>6. PassesAgree'
  <2> SUFFICES ASSUME NEW d \in Reconcilers, NEW e \in Reconcilers, ~Idle(d)',
                      NEW n \in disturbed'[e]
               PROVE  n \in disturbed'[d]
    BY DEF PassesAgree
  <2>1. CASE d = c
    BY <1>3, <2>1
  <2>2. CASE d # c
    <3>1. ~Idle(d) /\ n \in Monitors /\ disturbed'[d] = disturbed[d]
      BY <1>1, <1>3, <2>2 DEF TypeOK
    <3>2. CASE n \in disturbed[e]
      BY <3>1, <3>2 DEF PassesAgree
    <3>3. CASE e = c /\ Writing(n)
      BY <3>1, <3>3 DEF UndisturbedIsSeen
    <3>4. CASE e = c /\ \E f \in Reconcilers : n \in disturbed[f]
      BY <3>1, <3>4 DEF PassesAgree
    <3> QED
      BY <1>3, <3>2, <3>3, <3>4
  <2> QED
    BY <2>1, <2>2
<1> QED
  BY <1>4, <1>5, <1>6

\* A pass reads what is there.
LEMMA ReadSyncs ==
    ASSUME PostInv, SyncInv, NEW c \in Reconcilers, ReadStore(c) PROVE SyncInv'
<1> USE DEF PostInv, SyncInv
<1>1. UNCHANGED <<rows, sched, workers, history>> /\ ~Idle(c)
  BY DEF ReadStore
<1>2. \/ /\ reads[c] = <<"redis", "postgres">> /\ reads'[c] = <<"postgres">>
         /\ existing'[c] = sched /\ wanted'[c] = wanted[c]
      \/ /\ reads[c] = <<"postgres">> /\ reads'[c] = <<>>
         /\ wanted'[c] = [m \in Monitors |-> Desired(m)] /\ existing'[c] = existing[c]
  <2>1. reads[c] \in {<<"redis", "postgres">>, <<"postgres">>}
    BY DEF ReadStore, Idle, TypeOK
  <2>2. reads'[c] = Tail(reads[c])
    BY DEF ReadStore, TypeOK
  <2> QED
    BY <2>1, <2>2, Stages DEF ReadStore, TypeOK
<1>3. \A d \in Reconcilers : d # c => reads'[d] = reads[d] /\ existing'[d] = existing[d] /\ wanted'[d] = wanted[d]
  BY DEF ReadStore, TypeOK
<1>4. \A d \in Reconcilers : Idle(d)' <=> Idle(d)
  BY <1>1, <1>2, <1>3, Stages DEF Idle
<1>5. \A n \in Monitors : (Writing(n)' <=> Writing(n)) /\ Desired(n)' = Desired(n)
  BY <1>1 DEF Writing, Desired, rows, workers
<1>6. UnracedIsRight' /\ PassesAgree'
  BY <1>1, <1>4, <1>5 DEF UnracedIsRight, PassesAgree, EveryOf, workers, history
<1>7. UndisturbedIsSeen'
  <2> SUFFICES ASSUME NEW d \in Reconcilers, NEW n \in Monitors, ~Idle(d), n \notin disturbed[d]
               PROVE  /\ ~Writing(n)
                      /\ reads'[d] = <<>> => wanted'[d][n] = Desired(n)
                      /\ reads'[d] \in {<<"postgres">>, <<>>} /\ existing'[d][n] = EveryOf(Desired(n))
                            => sched[n] = EveryOf(Desired(n))
    BY <1>1, <1>4, <1>5 DEF UndisturbedIsSeen, EveryOf, history
  <2>1. CASE d # c
    BY <1>3, <2>1 DEF UndisturbedIsSeen
  <2>2. CASE d = c
    BY <1>2, <2>2, Stages DEF UndisturbedIsSeen
  <2> QED
    BY <2>1, <2>2
<1> QED
  BY <1>6, <1>7

\* What a pass mends of an undisturbed monitor, it mends rightly.
LEMMA FixSyncs ==
    ASSUME PostInv, SyncInv, NEW c \in Reconcilers, ApplyFix(c) PROVE SyncInv'
<1> USE DEF PostInv, SyncInv
<1>1. UNCHANGED <<rows, workers, reads, wanted, history>> /\ reads[c] = <<>> /\ ~Idle(c)
  BY Stages DEF ApplyFix, Idle
<1>2. PICK m \in Differs(c) : /\ sched' = [sched EXCEPT ![m] = EveryOf(wanted[c][m])]
                              /\ existing' = [existing EXCEPT ![c][m] = EveryOf(wanted[c][m])]
  BY DEF ApplyFix
<1>3. m \in Monitors
  BY DEF Differs
<1>4. /\ sched'[m] = EveryOf(wanted[c][m]) /\ existing'[c][m] = EveryOf(wanted[c][m])
      /\ \A n \in Monitors : n # m => sched'[n] = sched[n]
      /\ \A d \in Reconcilers, n \in Monitors : d # c \/ n # m => existing'[d][n] = existing[d][n]
  BY <1>2, <1>3 DEF TypeOK
<1>5. m \notin disturbed[c] => sched'[m] = EveryOf(Desired(m))
  BY <1>1, <1>3, <1>4 DEF UndisturbedIsSeen
<1>6. \A n \in Monitors : (Writing(n)' <=> Writing(n)) /\ Desired(n)' = Desired(n)
  BY <1>1 DEF Writing, Desired, rows, workers
<1>7. UnracedIsRight'
  <2> SUFFICES ASSUME NEW n \in Monitors \ raced
               PROVE  /\ ~Writing(n) => sched'[n] = EveryOf(Desired(n))
                      /\ \A g \in Handlers : pc[g] = "writing" /\ target[g] = n => write[g] = Desired(n)
                      /\ \A d \in Reconcilers : n \notin disturbed[d]
    BY <1>1, <1>6 DEF UnracedIsRight, EveryOf, workers, history
  <2> QED
    BY <1>4, <1>5 DEF UnracedIsRight
<1>8. UndisturbedIsSeen'
  <2> SUFFICES ASSUME NEW d \in Reconcilers, NEW n \in Monitors, ~Idle(d), n \notin disturbed[d]
               PROVE  /\ ~Writing(n)
                      /\ reads[d] = <<>> => wanted[d][n] = Desired(n)
                      /\ reads[d] \in {<<"postgres">>, <<>>} /\ existing'[d][n] = EveryOf(Desired(n))
                            => sched'[n] = EveryOf(Desired(n))
    BY <1>1, <1>6 DEF UndisturbedIsSeen, EveryOf, history, Idle
  <2>1. CASE n # m
    BY <1>4, <2>1 DEF UndisturbedIsSeen
  <2>2. CASE n = m
    <3>1. m \notin disturbed[c]
      BY <2>2 DEF PassesAgree
    <3> QED
      BY <1>5, <2>2, <3>1 DEF UndisturbedIsSeen
  <2> QED
    BY <2>1, <2>2
<1>9. PassesAgree'
  BY <1>1 DEF PassesAgree, Idle, history
<1> QED
  BY <1>7, <1>8, <1>9

\* A pass that ends has left all right that nobody wrote under it.
LEMMA EndSyncs ==
    ASSUME PostInv, SyncInv, NEW c \in Reconcilers, EndPass(c) \/ AbortPass(c) PROVE SyncInv'
<1> USE DEF PostInv, SyncInv
<1>1. /\ UNCHANGED <<rows, sched, workers>> /\ disturbed' = [disturbed EXCEPT ![c] = {}]
      /\ ForgetPass(c) /\ ~Idle(c)
  BY Stages DEF EndPass, AbortPass, TrackPassEnd, Idle
<1>2. /\ Idle(c)' /\ disturbed'[c] = {}
      /\ \A d \in Reconcilers : d # c => /\ reads'[d] = reads[d] /\ existing'[d] = existing[d]
                                         /\ wanted'[d] = wanted[d] /\ disturbed'[d] = disturbed[d]
                                         /\ (Idle(d)' <=> Idle(d))
  BY <1>1 DEF ForgetPass, Idle, TypeOK
<1>3. \A n \in Monitors : (Writing(n)' <=> Writing(n)) /\ Desired(n)' = Desired(n)
  BY <1>1 DEF Writing, Desired, rows, workers
<1>4. UnracedIsRight'
  <2> SUFFICES ASSUME NEW n \in Monitors \ raced'
               PROVE  /\ ~Writing(n) => sched[n] = EveryOf(Desired(n))
                      /\ \A g \in Handlers : pc[g] = "writing" /\ target[g] = n => write[g] = Desired(n)
                      /\ \A d \in Reconcilers : n \notin disturbed[d]
    BY <1>1, <1>2, <1>3 DEF UnracedIsRight, EveryOf, workers
  <2>1. CASE n \notin raced
    BY <2>1 DEF UnracedIsRight
  <2>2. CASE n \in raced
    <3>1. /\ EndPass(c) /\ n \notin disturbed[c]
      BY <2>2 DEF EndPass, AbortPass, TrackPassEnd
    <3>2. reads[c] = <<>> /\ existing[c][n] = EveryOf(wanted[c][n])
      BY <3>1 DEF EndPass, Differs
    <3>3. ~Writing(n) /\ sched[n] = EveryOf(Desired(n))
      BY <1>1, <3>1, <3>2 DEF UndisturbedIsSeen
    <3>4. \A d \in Reconcilers : n \notin disturbed[d]
      BY <1>1, <3>1 DEF PassesAgree
    <3> QED
      BY <3>3, <3>4 DEF Writing
  <2> QED
    BY <2>1, <2>2
<1>5. UndisturbedIsSeen'
  <2> SUFFICES ASSUME NEW d \in Reconcilers, NEW n \in Monitors, ~Idle(d)', n \notin disturbed'[d]
               PROVE  /\ ~Writing(n)
                      /\ reads'[d] = <<>> => wanted'[d][n] = Desired(n)
                      /\ reads'[d] \in {<<"postgres">>, <<>>} /\ existing'[d][n] = EveryOf(Desired(n))
                            => sched[n] = EveryOf(Desired(n))
    BY <1>1, <1>3 DEF UndisturbedIsSeen, EveryOf
  <2>1. d # c
    BY <1>2
  <2> QED
    BY <1>2, <2>1 DEF UndisturbedIsSeen
<1>6. PassesAgree'
  BY <1>2 DEF PassesAgree
<1> QED
  BY <1>4, <1>5, <1>6

LEMMA SyncStep == PostInv /\ SyncInv /\ [Next]_vars => SyncInv'
<1> SUFFICES ASSUME PostInv, SyncInv, [Next]_vars PROVE SyncInv'
  OBVIOUS
<1>1. CASE UNCHANGED vars
  BY <1>1 DEF vars, rows, workers, passes, history, SyncInv, UnracedIsRight, UndisturbedIsSeen,
              PassesAgree, Writing, Desired, EveryOf, Idle
<1>2. CASE Next
  BY <1>2, RowWriteSyncs, WorkerSyncs, ScheduleWriteSyncs, StartSyncs, ReadSyncs, FixSyncs, EndSyncs
     DEF Next, HandlerStep, PassStep, JobStep
<1> QED
  BY <1>1, <1>2

\* Redis differs from Postgres for raced monitors only, and a pass that nothing
\* overlaps repairs them, for any number of requests, passes and jobs.
THEOREM OnlyRacesDesync == Spec => []InSyncUnlessRaced
<1>1. PostInv /\ SyncInv => InSyncUnlessRaced
  <2> SUFFICES ASSUME PostInv, SyncInv, NEW m \in Monitors \ raced, ~Writing(m) PROVE InSync(m)
    BY DEF InSyncUnlessRaced
  <2>1. sched[m] = EveryOf(Desired(m)) /\ interval[m] \in Intervals
    BY DEF SyncInv, UnracedIsRight, PostInv, TypeOK
  <2> QED
    BY <2>1, Units DEF InSync, Desired
<1> QED
  BY SyncInit, SyncStep, PostInvHolds, <1>1, PTL DEF Spec
=============================================================================
