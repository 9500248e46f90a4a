------------------------ MODULE MonitorConfigProofs -------------------------
(***************************************************************************)
(* Theorems about MonitorConfig, for any monitors, accounts, requests and   *)
(* any values of the two columns.                                           *)
(*                                                                          *)
(* RuleHolds is not inductive: a PATCH judges the row it read when it took  *)
(* the lock and writes later.  What makes that sound is that a PATCH which  *)
(* has read a row holds its lock (ReadersHoldLock) and that nobody else     *)
(* changes a locked row, so the row is still the one it read.               *)
(***************************************************************************)
EXTENDS MonitorConfig, TLAPS

\* A PATCH that has read its row and is not answered yet.
Between(q) == Handling(q, "patch") /\ existing[q] # None

ReadersHoldLock ==
    \A q \in Requests, m \in Monitors : lock[m] = q <=> Between(q) /\ request[q].monitor = m

LockedRowIsCurrent ==
    \A q \in Requests : Between(q) =>
        /\ Owned(q)
        /\ existing[q] = [interval |-> interval[request[q].monitor],
                          timeout |-> timeout[request[q].monitor]]

\* An id that was never generated has no row.
UnusedIsBlank == \A m \in Monitors : m \notin used => owner[m] = None

\* Whoever has not asked has read nothing.
IdleReadsNothing == \A q \in Requests : request[q] = None => existing[q] = None /\ answer[q] = None

IInv == TypeOK /\ IdleReadsNothing /\ ReadersHoldLock /\ LockedRowIsCurrent /\ UnusedIsBlank /\ RuleHolds

\* No rows, no requests.
LEMMA InitEstablishes == Init => IInv
BY ConfigAssumptions
   DEF Init, IInv, TypeOK, IdleReadsNothing, ReadersHoldLock, LockedRowIsCurrent, UnusedIsBlank, RuleHolds, Between, Handling

\* What a request of each kind consists of.
LEMMA RequestParts ==
    ASSUME TypeOK, NEW q \in Requests, request[q] # None
    PROVE  /\ request[q].account \in Accounts
           /\ request[q].kind \in {"get", "patch", "delete"} => request[q].monitor \in Monitors
           /\ request[q].kind \in {"post", "patch"} =>
                 /\ request[q].body.interval \in Intervals \union {None}
                 /\ request[q].body.timeout \in Timeouts \union {None}
<1>1. request[q] \in Request
  BY DEF TypeOK
<1> QED
  BY <1>1 DEF Request, Bodies

\* A field keeps its value when it is not sent.
LEMMA OrTypes ==
    ASSUME NEW S, NEW sent \in S \union {None}, NEW kept \in S
    PROVE  Or(sent, kept) \in S
BY DEF Or

\* A step of request q that touches no row and no lock of another request leaves
\* what the others read current.
LEMMA OthersKeep ==
    ASSUME IInv, NEW q \in Requests,
           \A p \in Requests \ {q} :
              request'[p] = request[p] /\ existing'[p] = existing[p] /\ answer'[p] = answer[p],
           \A m \in Monitors : lock'[m] = lock[m] \/ {lock[m], lock'[m]} \subseteq {None, q},
           \A m \in Monitors : lock[m] \notin {None, q} =>
              owner'[m] = owner[m] /\ interval'[m] = interval[m] /\ timeout'[m] = timeout[m],
           ~Between(q)', \A m \in Monitors : lock'[m] # q
    PROVE  ReadersHoldLock' /\ LockedRowIsCurrent'
<1> USE DEF IInv
<1>1. \A p \in Requests \ {q} : Between(p)' <=> Between(p)
  BY DEF Between, Handling
<1>2. ReadersHoldLock'
  <2> SUFFICES ASSUME NEW p \in Requests, NEW m \in Monitors
               PROVE  lock'[m] = p <=> Between(p)' /\ request'[p].monitor = m
    BY DEF ReadersHoldLock
  <2>1. CASE p = q
    BY <2>1
  <2>2. CASE p # q
    BY <1>1, <2>2, ConfigAssumptions DEF ReadersHoldLock
  <2> QED BY <2>1, <2>2
<1>3. LockedRowIsCurrent'
  <2> SUFFICES ASSUME NEW p \in Requests, Between(p)'
               PROVE  /\ Owned(p)'
                      /\ existing'[p] = [interval |-> interval'[request'[p].monitor],
                                         timeout |-> timeout'[request'[p].monitor]]
    BY DEF LockedRowIsCurrent
  <2>1. p # q /\ Between(p) /\ request'[p] = request[p] /\ existing'[p] = existing[p]
    BY <1>1
  <2>2. request[p].monitor \in Monitors
    BY <2>1, RequestParts DEF Between, Handling
  <2>3. lock[request[p].monitor] = p
    BY <2>1, <2>2 DEF ReadersHoldLock
  <2>4. UNCHANGED <<owner[request[p].monitor], interval[request[p].monitor], timeout[request[p].monitor]>>
    BY <2>1, <2>2, <2>3, ConfigAssumptions
  <2> QED
    BY <2>1, <2>4 DEF LockedRowIsCurrent, Owned
<1> QED
  BY <1>2, <1>3

\* The lock conjunct of TypeOK, in the next state.
LEMMA LocksAreTyped ==
    ASSUME ReadersHoldLock', lock' \in [Monitors -> Requests \union {None}]
    PROVE  \A m \in Monitors : lock'[m] # None =>
              Handling(lock[m], "patch")' /\ request'[lock'[m]].monitor = m
BY DEF ReadersHoldLock, Between

\* A request that is answered, or is no PATCH, holds no lock.
LEMMA NoLock ==
    ASSUME IInv, NEW q \in Requests, ~Between(q)
    PROVE  \A m \in Monitors : lock[m] # q
BY DEF IInv, ReadersHoldLock

\* A request arrives: it has read nothing and holds nothing.
LEMMA ReceiveKeeps == ASSUME IInv, NEW q \in Requests, Receive(q) PROVE IInv'
<1> USE DEF Receive, IInv, columns
<1>1. PICK r \in Request : request' = [request EXCEPT ![q] = r]
  OBVIOUS
<1>2. /\ request' \in [Requests -> Request \union {None}]
      /\ \A p \in Requests \ {q} : request'[p] = request[p]
  BY <1>1 DEF TypeOK
<1>3. existing[q] = None /\ answer[q] = None
  BY DEF IdleReadsNothing
<1>4. ~Between(q) /\ ~Between(q)'
  BY <1>3 DEF Between
<1>5. ReadersHoldLock' /\ LockedRowIsCurrent'
  BY <1>2, <1>4, NoLock, OthersKeep
<1>6. TypeOK'
  BY <1>2, <1>5, LocksAreTyped DEF TypeOK, Handling
<1>7. IdleReadsNothing'
  BY <1>2, <1>3 DEF IdleReadsNothing
<1> QED
  BY <1>5, <1>6, <1>7 DEF UnusedIsBlank, RuleHolds

\* An answer replaces nothing but this request's answer.
LEMMA RespondTypes ==
    ASSUME IInv, NEW q \in Requests, request[q] # None, NEW text \in Answers, Respond(q, text)
    PROVE  /\ answer' \in [Requests -> Answers \union {None}]
           /\ answer'[q] # None
           /\ \A p \in Requests \ {q} : answer'[p] = answer[p]
           /\ UNCHANGED <<request, existing>> => ~Between(q)' /\ IdleReadsNothing'
<1>1. /\ answer' = [answer EXCEPT ![q] = text] /\ answer \in [Requests -> Answers \union {None}]
      /\ text # None
  BY ConfigAssumptions DEF Respond, IInv, TypeOK
<1>2. answer'[q] # None /\ \A p \in Requests \ {q} : answer'[p] = answer[p]
  BY <1>1
<1>3. ASSUME UNCHANGED <<request, existing>> PROVE ~Between(q)' /\ IdleReadsNothing'
  BY <1>2, <1>3 DEF IInv, IdleReadsNothing, Between, Handling
<1> QED
  BY <1>1, <1>2, <1>3

\* A POST takes an unused id, so no PATCH has read the row it fills.
LEMMA CreateKeeps == ASSUME IInv, NEW q \in Requests, createMonitor(q) PROVE IInv'
<1> DEFINE seconds == Or(request[q].body.interval, DefaultInterval)
           millis == Or(request[q].body.timeout, DefaultTimeout)
<1> USE DEF IInv
<1>1. /\ request[q] # None /\ request[q].kind = "post" /\ ~Between(q)
      /\ UNCHANGED <<lock, request, existing>>
  BY DEF createMonitor, Handling, Between
<1>2. /\ request[q].account \in Accounts
      /\ seconds \in Intervals /\ millis \in Timeouts
  BY <1>1, RequestParts, OrTypes, ConfigAssumptions
<1>3. PICK text \in {"created", "invalid"} : Respond(q, text)
  BY DEF createMonitor
<1>4. /\ answer' \in [Requests -> Answers \union {None}]
      /\ \A p \in Requests \ {q} : answer'[p] = answer[p]
      /\ ~Between(q)' /\ IdleReadsNothing'
  BY <1>1, <1>3, RespondTypes DEF Answers
<1>5. CASE UNCHANGED <<columns, used>>
  <2>1. ReadersHoldLock' /\ LockedRowIsCurrent'
    BY <1>1, <1>4, <1>5, NoLock, OthersKeep DEF columns
  <2>2. TypeOK'
    BY <1>1, <1>4, <1>5, <2>1, LocksAreTyped DEF TypeOK, columns
  <2> QED
    BY <1>4, <1>5, <2>1, <2>2 DEF UnusedIsBlank, RuleHolds, columns
<1>6. CASE ~UNCHANGED <<columns, used>>
  <2>1. PICK m \in Monitors \ used :
           /\ ~TooLong(millis, seconds)
           /\ used' = used \union {m}
           /\ owner' = [owner EXCEPT ![m] = request[q].account]
           /\ interval' = [interval EXCEPT ![m] = seconds]
           /\ timeout' = [timeout EXCEPT ![m] = millis]
    BY <1>6 DEF createMonitor
  <2> HIDE DEF seconds, millis
  <2>2. \A n \in Monitors : lock[n] \notin {None, q} => n # m
    <3> SUFFICES ASSUME NEW n \in Monitors, lock[n] \notin {None, q} PROVE owner[n] # None
      BY <2>1 DEF UnusedIsBlank
    <3>1. /\ lock[n] \in Requests /\ Between(lock[n]) /\ request[lock[n]].monitor = n
      BY DEF TypeOK, ReadersHoldLock
    <3>2. request[lock[n]].account \in Accounts
      BY <3>1, RequestParts DEF Between, Handling
    <3> QED
      BY <3>1, <3>2, ConfigAssumptions DEF LockedRowIsCurrent, Owned
  <2>3. ReadersHoldLock' /\ LockedRowIsCurrent'
    <3>1. \A n \in Monitors : lock[n] \notin {None, q} =>
             owner'[n] = owner[n] /\ interval'[n] = interval[n] /\ timeout'[n] = timeout[n]
      BY <2>1, <2>2 DEF TypeOK
    <3> QED
      BY <1>1, <1>4, <3>1, NoLock, OthersKeep
  <2>4. TypeOK'
    BY <1>1, <1>2, <1>4, <2>1, <2>3, LocksAreTyped, ConfigAssumptions DEF TypeOK
  <2>5. RuleHolds'
    BY <1>2, <2>1, ConfigAssumptions DEF RuleHolds, TypeOK, TooLong
  <2>6. UnusedIsBlank'
    BY <2>1 DEF UnusedIsBlank, TypeOK
  <2> QED
    BY <1>4, <2>3, <2>4, <2>5, <2>6
<1> QED
  BY <1>5, <1>6

\* A GET reads.
LEMMA GetKeeps == ASSUME IInv, NEW q \in Requests, getMonitorForOwner(q) PROVE IInv'
<1> USE DEF IInv
<1>1. /\ request[q] # None /\ ~Between(q) /\ UNCHANGED <<columns, used, lock, request, existing>>
  BY DEF getMonitorForOwner, Handling, Between
<1>2. PICK text \in Answers : Respond(q, text)
  BY DEF getMonitorForOwner, Answers
<1>3. /\ answer' \in [Requests -> Answers \union {None}]
      /\ \A p \in Requests \ {q} : answer'[p] = answer[p]
      /\ ~Between(q)' /\ IdleReadsNothing'
  BY <1>1, <1>2, RespondTypes
<1>4. ReadersHoldLock' /\ LockedRowIsCurrent'
  BY <1>1, <1>3, NoLock, OthersKeep DEF columns
<1>5. TypeOK'
  BY <1>1, <1>3, <1>4, LocksAreTyped DEF TypeOK, columns
<1> QED
  BY <1>1, <1>3, <1>4, <1>5 DEF UnusedIsBlank, RuleHolds, columns

\* A DELETE waits for the lock, so no PATCH has read the row it removes.
LEMMA DeleteKeeps == ASSUME IInv, NEW q \in Requests, deleteMonitor(q) PROVE IInv'
<1> DEFINE m == request[q].monitor
<1> USE DEF IInv
<1>1. /\ request[q] # None /\ ~Between(q) /\ UNCHANGED <<used, lock, request, existing>>
      /\ m \in Monitors
  BY RequestParts DEF deleteMonitor, Handling, Between
<1>2. PICK text \in Answers : Respond(q, text)
  BY DEF deleteMonitor, Answers
<1>3. /\ answer' \in [Requests -> Answers \union {None}]
      /\ \A p \in Requests \ {q} : answer'[p] = answer[p]
      /\ ~Between(q)' /\ IdleReadsNothing'
  BY <1>1, <1>2, RespondTypes
<1>4. CASE UNCHANGED columns
  <2>1. ReadersHoldLock' /\ LockedRowIsCurrent'
    BY <1>1, <1>3, <1>4, NoLock, OthersKeep DEF columns
  <2>2. TypeOK'
    BY <1>1, <1>3, <1>4, <2>1, LocksAreTyped DEF TypeOK, columns
  <2> QED
    BY <1>1, <1>3, <1>4, <2>1, <2>2 DEF UnusedIsBlank, RuleHolds, columns
<1>5. CASE /\ lock[m] = None
           /\ owner' = [owner EXCEPT ![m] = None]
           /\ interval' = [interval EXCEPT ![m] = None]
           /\ timeout' = [timeout EXCEPT ![m] = None]
  <2> HIDE DEF m
  <2>1. \A n \in Monitors : lock[n] \notin {None, q} =>
           owner'[n] = owner[n] /\ interval'[n] = interval[n] /\ timeout'[n] = timeout[n]
    BY <1>5 DEF TypeOK
  <2>2. ReadersHoldLock' /\ LockedRowIsCurrent'
    BY <1>1, <1>3, <2>1, NoLock, OthersKeep
  <2>3. TypeOK'
    BY <1>1, <1>3, <1>5, <2>2, LocksAreTyped DEF TypeOK
  <2>4. UnusedIsBlank' /\ RuleHolds'
    BY <1>1, <1>5 DEF UnusedIsBlank, RuleHolds, TypeOK
  <2> QED
    BY <1>3, <2>2, <2>3, <2>4
<1> QED
  BY <1>4, <1>5 DEF deleteMonitor, RowFree

\* A PATCH that takes the lock reads the row as it is.
LEMMA SelectKeeps == ASSUME IInv, NEW q \in Requests, SelectForUpdate(q) PROVE IInv'
<1> DEFINE m == request[q].monitor
<1> USE DEF IInv
<1>1. /\ Handling(q, "patch") /\ request[q] # None /\ ~Between(q) /\ existing[q] = None
      /\ UNCHANGED <<columns, used, request>> /\ m \in Monitors
  BY RequestParts DEF SelectForUpdate, Handling, Between
<1>2. UnusedIsBlank' /\ RuleHolds'
  BY <1>1 DEF UnusedIsBlank, RuleHolds, columns
<1>3. CASE Respond(q, "not found") /\ UNCHANGED <<lock, existing>>
  <2>1. /\ answer' \in [Requests -> Answers \union {None}]
        /\ \A p \in Requests \ {q} : answer'[p] = answer[p]
        /\ ~Between(q)' /\ IdleReadsNothing'
    BY <1>1, <1>3, RespondTypes DEF Answers
  <2>2. ReadersHoldLock' /\ LockedRowIsCurrent'
    BY <1>1, <1>3, <2>1, NoLock, OthersKeep DEF columns
  <2>3. TypeOK'
    BY <1>1, <1>3, <2>1, <2>2, LocksAreTyped DEF TypeOK, columns
  <2> QED
    BY <1>2, <2>1, <2>2, <2>3
<1>4. CASE /\ Owned(q) /\ lock[m] = None
           /\ lock' = [lock EXCEPT ![m] = q]
           /\ existing' = [existing EXCEPT ![q] = [interval |-> interval[m], timeout |-> timeout[m]]]
           /\ UNCHANGED answer
  <2> DEFINE read == [interval |-> interval[m], timeout |-> timeout[m]]
  <2>1. owner[m] # None /\ interval[m] \in Intervals /\ timeout[m] \in Timeouts
    BY <1>1, <1>4, RequestParts, ConfigAssumptions DEF Owned, TypeOK
  <2>2. read \in Columns /\ read # None
    BY <2>1, ConfigAssumptions DEF Columns
  <2>3. existing' = [existing EXCEPT ![q] = read]
    BY <1>4
  <2> HIDE DEF read
  <2>4. /\ existing' \in [Requests -> Columns \union {None}] /\ existing'[q] = read
        /\ \A p \in Requests \ {q} : existing'[p] = existing[p]
    BY <2>2, <2>3 DEF TypeOK
  <2>5. \A p \in Requests : Between(p)' <=> Between(p) \/ p = q
    BY <1>1, <1>4, <2>2, <2>4 DEF Between, Handling
  <2>6. ReadersHoldLock'
    BY <1>1, <1>4, <2>5, ConfigAssumptions DEF ReadersHoldLock, TypeOK
  <2>7. LockedRowIsCurrent'
    <3> SUFFICES ASSUME NEW p \in Requests, Between(p)'
                 PROVE  /\ Owned(p)
                        /\ existing'[p] = [interval |-> interval[request[p].monitor],
                                           timeout |-> timeout[request[p].monitor]]
      BY <1>1 DEF LockedRowIsCurrent, columns, Owned
    <3>1. CASE p = q
      BY <1>4, <2>4, <3>1 DEF read
    <3>2. CASE p # q
      BY <2>4, <2>5, <3>2 DEF LockedRowIsCurrent
    <3> QED BY <3>1, <3>2
  <2>8. IdleReadsNothing'
    BY <1>1, <1>4, <2>4 DEF IdleReadsNothing
  <2>9. TypeOK'
    BY <1>1, <1>4, <2>4, <2>6, LocksAreTyped DEF TypeOK, columns
  <2> QED
    BY <1>2, <2>6, <2>7, <2>8, <2>9
<1> QED
  BY <1>3, <1>4 DEF SelectForUpdate, RowFree

\* Releasing q's locks releases no other.
LEMMA UnlockTypes ==
    ASSUME IInv, NEW q \in Requests, lock' = Unlocked(q)
    PROVE  /\ lock' \in [Monitors -> Requests \union {None}]
           /\ \A m \in Monitors : lock'[m] # q
           /\ \A m \in Monitors : lock'[m] = lock[m] \/ {lock[m], lock'[m]} \subseteq {None, q}
BY ConfigAssumptions DEF IInv, TypeOK, Unlocked

\* The heart of it: the row that is written is the one that was judged.
LEMMA UpdateKeeps == ASSUME IInv, NEW q \in Requests, updateMonitor(q) PROVE IInv'
<1> DEFINE m == request[q].monitor
           seconds == Or(request[q].body.interval, interval[m])
           millis == Or(request[q].body.timeout, timeout[m])
<1> USE DEF IInv
<1>1. /\ request[q] # None /\ Between(q) /\ UNCHANGED <<used, request, existing>>
      /\ m \in Monitors /\ lock' = Unlocked(q)
  BY RequestParts DEF updateMonitor, Handling, Between
<1>2. lock[m] = q
  BY <1>1 DEF ReadersHoldLock
<1>3. /\ existing[q].interval = interval[m] /\ existing[q].timeout = timeout[m]
      /\ owner[m] = request[q].account
  <2>1. Owned(q) /\ existing[q] = [interval |-> interval[m], timeout |-> timeout[m]]
    BY <1>1 DEF LockedRowIsCurrent
  <2>2. existing[q].interval = interval[m] /\ existing[q].timeout = timeout[m]
    BY <2>1
  <2> QED
    BY <2>1, <2>2 DEF Owned
<1>4. owner[m] # None /\ interval[m] \in Intervals /\ timeout[m] \in Timeouts
  BY <1>1, <1>3, RequestParts, ConfigAssumptions DEF TypeOK
<1>5. seconds \in Intervals /\ millis \in Timeouts
  BY <1>1, <1>4, RequestParts, OrTypes DEF Between, Handling
<1>6. PICK text \in Answers : Respond(q, text)
  BY DEF updateMonitor, Answers
<1>7. /\ answer' \in [Requests -> Answers \union {None}]
      /\ \A p \in Requests \ {q} : answer'[p] = answer[p]
      /\ ~Between(q)' /\ IdleReadsNothing'
  BY <1>1, <1>6, RespondTypes
<1>8. \/ UNCHANGED columns
      \/ /\ ~TooLong(millis, seconds)
         /\ interval' = [interval EXCEPT ![m] = seconds]
         /\ timeout' = [timeout EXCEPT ![m] = millis]
         /\ UNCHANGED owner
  BY <1>3 DEF updateMonitor
<1> HIDE DEF seconds, millis, m
<1>9. \A n \in Monitors : lock[n] \notin {None, q} =>
         owner'[n] = owner[n] /\ interval'[n] = interval[n] /\ timeout'[n] = timeout[n]
  BY <1>2, <1>8 DEF TypeOK, columns
<1>10. ReadersHoldLock' /\ LockedRowIsCurrent'
  BY <1>1, <1>7, <1>9, UnlockTypes, OthersKeep
<1>11. TypeOK'
  <2>1. /\ owner' = owner
        /\ interval' \in [Monitors -> Intervals \union {None}]
        /\ timeout' \in [Monitors -> Timeouts \union {None}]
        /\ \A n \in Monitors : owner'[n] # None <=> interval'[n] # None
        /\ \A n \in Monitors : owner'[n] # None <=> timeout'[n] # None
    BY <1>1, <1>4, <1>5, <1>8, ConfigAssumptions DEF TypeOK, columns
  <2> QED
    BY <1>1, <1>7, <1>10, <2>1, UnlockTypes, LocksAreTyped DEF TypeOK
<1>12. RuleHolds'
  BY <1>1, <1>5, <1>8, ConfigAssumptions DEF RuleHolds, TypeOK, TooLong, columns
<1>13. UnusedIsBlank'
  BY <1>1, <1>8 DEF UnusedIsBlank, columns
<1> QED
  BY <1>7, <1>10, <1>11, <1>12, <1>13

\* A failed request rolls back, which releases its lock.
LEMMA FailKeeps == ASSUME IInv, NEW q \in Requests, FailRequest(q) PROVE IInv'
<1> USE DEF IInv
<1>1. /\ request[q] # None /\ UNCHANGED <<columns, used, request, existing>> /\ lock' = Unlocked(q)
      /\ Respond(q, "error")
  BY DEF FailRequest
<1>2. /\ answer' \in [Requests -> Answers \union {None}]
      /\ \A p \in Requests \ {q} : answer'[p] = answer[p]
      /\ ~Between(q)' /\ IdleReadsNothing'
  BY <1>1, RespondTypes DEF Answers
<1>3. ReadersHoldLock' /\ LockedRowIsCurrent'
  BY <1>1, <1>2, UnlockTypes, OthersKeep DEF columns
<1>4. TypeOK'
  BY <1>1, <1>2, <1>3, UnlockTypes, LocksAreTyped DEF TypeOK, columns
<1> QED
  BY <1>1, <1>2, <1>3, <1>4 DEF UnusedIsBlank, RuleHolds, columns

\* An error after the change: the lock is released already, and the row stays.
LEMMA ScheduleFailsKeeps == ASSUME IInv, NEW q \in Requests, ScheduleFails(q) PROVE IInv'
<1> USE DEF IInv
<1>1. /\ answer[q] # None /\ request[q] # None /\ ~Between(q)
      /\ UNCHANGED <<columns, used, lock, request, existing>> /\ Respond(q, "error")
  BY ConfigAssumptions DEF ScheduleFails, Answers, IdleReadsNothing, Between, Handling
<1>2. /\ answer' \in [Requests -> Answers \union {None}]
      /\ \A p \in Requests \ {q} : answer'[p] = answer[p]
      /\ ~Between(q)' /\ IdleReadsNothing'
  BY <1>1, RespondTypes DEF Answers
<1>3. ReadersHoldLock' /\ LockedRowIsCurrent'
  BY <1>1, <1>2, NoLock, OthersKeep DEF columns
<1>4. TypeOK'
  BY <1>1, <1>2, <1>3, LocksAreTyped DEF TypeOK, columns
<1> QED
  BY <1>1, <1>2, <1>3, <1>4 DEF UnusedIsBlank, RuleHolds, columns

\* A request that is answered holds no lock any more.
LEMMA SendKeeps == ASSUME IInv, NEW q \in Requests, SendResponse(q) PROVE IInv'
<1> USE DEF IInv
<1>1. /\ ~Between(q) /\ UNCHANGED <<columns, used, lock>>
      /\ request'[q] = None /\ existing'[q] = None /\ answer'[q] = None
      /\ \A p \in Requests \ {q} :
            request'[p] = request[p] /\ existing'[p] = existing[p] /\ answer'[p] = answer[p]
  BY DEF SendResponse, Between, Handling, TypeOK
<1>2. ~Between(q)' /\ IdleReadsNothing'
  BY <1>1 DEF Between, Handling, IdleReadsNothing
<1>3. ReadersHoldLock' /\ LockedRowIsCurrent'
  BY <1>1, <1>2, NoLock, OthersKeep DEF columns
<1>4. TypeOK'
  BY <1>1, <1>3, LocksAreTyped DEF TypeOK, columns, SendResponse
<1> QED
  BY <1>1, <1>2, <1>3, <1>4 DEF UnusedIsBlank, RuleHolds, columns

\* Every step keeps the invariant.
LEMMA StepKeeps == IInv /\ [Next]_vars => IInv'
<1> SUFFICES ASSUME IInv, [Next]_vars PROVE IInv'
  OBVIOUS
<1>1. CASE UNCHANGED vars
  BY <1>1 DEF vars, columns, IInv, TypeOK, IdleReadsNothing, ReadersHoldLock, LockedRowIsCurrent,
     UnusedIsBlank, RuleHolds, Between, Handling, Owned
<1>2. CASE Next
  BY <1>2, ReceiveKeeps, CreateKeeps, GetKeeps, SelectKeeps, UpdateKeeps, DeleteKeeps, FailKeeps,
     ScheduleFailsKeeps, SendKeeps
     DEF Next
<1> QED
  BY <1>1, <1>2

\* The invariant holds at all times.
LEMMA InvariantHolds == Spec => []IInv
BY InitEstablishes, StepKeeps, PTL DEF Spec

\* A row lock belongs to an unanswered PATCH of that row, and a row has all of
\* its columns or none, in every reachable state.
THEOREM TypeCorrect == Spec => []TypeOK
<1>1. IInv => TypeOK
  BY DEF IInv
<1> QED
  BY InvariantHolds, <1>1, PTL

\* No sequence of concurrent POSTs and PATCHes stores a timeout that is not
\* shorter than the interval, whatever values the schema allows.
THEOREM RuleAlwaysHolds == Spec => []RuleHolds
<1>1. IInv => RuleHolds
  BY DEF IInv
<1> QED
  BY InvariantHolds, <1>1, PTL

-----------------------------------------------------------------------------
(***************************************************************************)
(* The refinement: each step of MonitorConfig is a step of ConfigStore, or  *)
(* the SELECT ... FOR UPDATE of a PATCH, which the store does not see.      *)
(***************************************************************************)

Shown == [m \in Monitors |-> [owner |-> owner[m], interval |-> interval[m], timeout |-> timeout[m]]]

\* A row of the table, seen through the mapping.
LEMMA ShownRow ==
    ASSUME NEW m \in Monitors
    PROVE  /\ Shown[m].owner = owner[m] /\ Shown[m].interval = interval[m]
           /\ Shown[m].timeout = timeout[m]
BY DEF Shown

\* Nothing that the store shows changes.
LEMMA ShownSame == ASSUME UNCHANGED columns PROVE Shown' = Shown
BY DEF Shown, columns

\* One row changes.
LEMMA ShownPut ==
    ASSUME TypeOK, NEW m \in Monitors, NEW o, NEW i, NEW t,
           owner' = [owner EXCEPT ![m] = o], interval' = [interval EXCEPT ![m] = i],
           timeout' = [timeout EXCEPT ![m] = t]
    PROVE  Shown' = [Shown EXCEPT ![m] = [owner |-> o, interval |-> i, timeout |-> t]]
<1> DEFINE new == [owner |-> o, interval |-> i, timeout |-> t]
           put == [Shown EXCEPT ![m] = new]
<1>1. Shown' = [n \in Monitors |-> [owner |-> owner'[n], interval |-> interval'[n], timeout |-> timeout'[n]]]
  BY DEF Shown
<1>2. put = [n \in Monitors |-> IF n = m THEN new ELSE Shown[n]]
  BY DEF Shown
<1>3. ASSUME NEW n \in Monitors
      PROVE  [owner |-> owner'[n], interval |-> interval'[n], timeout |-> timeout'[n]]
                = IF n = m THEN new ELSE Shown[n]
  <2>1. CASE n = m
    BY <2>1 DEF TypeOK
  <2>2. CASE n # m
    BY <2>2 DEF TypeOK, Shown
  <2> QED BY <2>1, <2>2
<1> HIDE DEF new
<1>4. Shown' = put
  BY <1>1, <1>2, <1>3
<1> QED
  BY <1>4 DEF new

\* The store starts empty.
LEMMA StoreInit == Init => Store!Init
<1> SUFFICES ASSUME Init PROVE Store!Init
  OBVIOUS
<1>1. Shown = [m \in Monitors |-> [owner |-> None, interval |-> None, timeout |-> None]]
  BY DEF Init, Shown
<1> QED
  BY <1>1 DEF Init, Store!Init, Store!Blank, Shown

\* A POST inserts a row, or is refused.
LEMMA CreateIsPost == ASSUME IInv, NEW q \in Requests, createMonitor(q) PROVE Store!Post(q)
<1> DEFINE seconds == Or(request[q].body.interval, DefaultInterval)
           millis == Or(request[q].body.timeout, DefaultTimeout)
           new == Store!Merge([interval |-> DefaultInterval, timeout |-> DefaultTimeout], request[q].body)
<1>1. new.interval = seconds /\ new.timeout = millis
  BY DEF Store!Merge, Or
<1>2. Store!Pending(q, "post") /\ UNCHANGED request
  BY DEF createMonitor, Handling, Store!Pending
<1>3. seconds \in Nat /\ millis \in Nat
  <2>1. request[q].body.interval \in Intervals \union {None} /\ request[q].body.timeout \in Timeouts \union {None}
    BY <1>2, RequestParts DEF Store!Pending, IInv
  <2> QED BY <2>1, ConfigAssumptions DEF Or
<1>4. Store!Obeys(new) <=> ~TooLong(millis, seconds)
  BY <1>1, <1>3 DEF Store!Obeys, TooLong
<1> HIDE DEF new
<1>5. CASE TooLong(millis, seconds)
  <2>1. Respond(q, "invalid") /\ UNCHANGED columns
    BY <1>5 DEF createMonitor
  <2>2. Store!Refuse(q, "invalid")
    BY <1>2, <2>1, ShownSame DEF Store!Refuse, Store!Answer, Respond, Shown
  <2> QED
    BY <1>2, <1>4, <1>5, <2>2 DEF Store!Post, new
<1>6. CASE ~TooLong(millis, seconds)
  <2>1. PICK m \in Monitors \ used :
           /\ owner' = [owner EXCEPT ![m] = request[q].account]
           /\ interval' = [interval EXCEPT ![m] = seconds]
           /\ timeout' = [timeout EXCEPT ![m] = millis]
           /\ Respond(q, "created")
    BY <1>6 DEF createMonitor
  <2>2. owner[m] = None /\ interval[m] = None /\ timeout[m] = None
    BY <2>1 DEF IInv, UnusedIsBlank, TypeOK
  <2>3. Shown[m] = Store!Blank
    BY <2>2 DEF Shown, Store!Blank
  <2>4. Shown' = [Shown EXCEPT ![m] = Store!Row(request[q].account, new)]
    <3>1. Store!Row(request[q].account, new) = [owner |-> request[q].account, interval |-> seconds, timeout |-> millis]
      BY <1>1 DEF Store!Row
    <3>2. Shown' = [Shown EXCEPT ![m] = [owner |-> request[q].account, interval |-> seconds, timeout |-> millis]]
      BY <2>1, ShownPut DEF IInv
    <3> QED BY <3>1, <3>2
  <2>5. Store!Answer(q, "created")
    BY <1>2, <2>1 DEF Store!Answer, Respond
  <2> QED
    BY <1>2, <1>4, <1>6, <2>1, <2>3, <2>4, <2>5 DEF Store!Post, Store!Put, Shown, new
<1> QED
  BY <1>5, <1>6

\* A GET is answered by what it sees.
LEMMA GetIsGet == ASSUME IInv, NEW q \in Requests, getMonitorForOwner(q) PROVE Store!Get(q)
<1>1. /\ Store!Pending(q, "get") /\ UNCHANGED <<columns, request>>
      /\ request[q].monitor \in Monitors
  BY RequestParts DEF getMonitorForOwner, Handling, Store!Pending, IInv
<1>2. Store!Mine(q) <=> Owned(q)
  BY <1>1, ShownRow DEF Store!Mine, Owned, Shown
<1>3. Shown' = Shown
  BY <1>1, ShownSame
<1> QED
  BY <1>1, <1>2, <1>3 DEF getMonitorForOwner, Respond, Store!Get, Store!Refuse, Store!Answer, Shown

\* A DELETE removes a row of its account, or finds none.
LEMMA DeleteIsDelete == ASSUME IInv, NEW q \in Requests, deleteMonitor(q) PROVE Store!Delete(q)
<1> DEFINE m == request[q].monitor
<1>1. Store!Pending(q, "delete") /\ UNCHANGED request /\ m \in Monitors
  BY RequestParts DEF deleteMonitor, Handling, Store!Pending, IInv
<1>2. Store!Mine(q) <=> Owned(q)
  BY <1>1, ShownRow DEF Store!Mine, Owned, Shown
<1>3. CASE ~Owned(q)
  <2>1. Respond(q, "not found") /\ Shown' = Shown
    BY <1>3, ShownSame DEF deleteMonitor
  <2> QED
    BY <1>1, <1>2, <1>3, <2>1 DEF Respond, Store!Delete, Store!Refuse, Store!Answer, Shown
<1>4. CASE Owned(q) /\ Respond(q, "deleted")
           /\ owner' = [owner EXCEPT ![m] = None]
           /\ interval' = [interval EXCEPT ![m] = None]
           /\ timeout' = [timeout EXCEPT ![m] = None]
  <2>1. Shown' = [Shown EXCEPT ![m] = Store!Blank]
    BY <1>1, <1>4, ShownPut DEF IInv, Store!Blank
  <2> QED
    BY <1>1, <1>2, <1>4, <2>1 DEF Respond, Store!Delete, Store!Put, Store!Answer, Shown
<1> QED
  BY <1>3, <1>4 DEF deleteMonitor

\* Taking the lock is invisible; finding no row of the account is an answer.
LEMMA SelectIsPatchOrNothing ==
    ASSUME IInv, NEW q \in Requests, SelectForUpdate(q)
    PROVE  Store!Patch(q) \/ UNCHANGED <<Shown, request, answer>>
<1>1. Store!Pending(q, "patch") /\ UNCHANGED <<columns, request>> /\ request[q].monitor \in Monitors
  BY RequestParts DEF SelectForUpdate, Handling, Store!Pending, IInv
<1>2. Store!Mine(q) <=> Owned(q)
  BY <1>1, ShownRow DEF Store!Mine, Owned, Shown
<1>3. Shown' = Shown
  BY <1>1, ShownSame
<1>4. CASE UNCHANGED answer
  BY <1>1, <1>3, <1>4
<1>5. CASE ~Owned(q) /\ Respond(q, "not found")
  BY <1>1, <1>2, <1>3, <1>5 DEF Respond, Store!Patch, Store!Refuse, Store!Answer, Shown
<1> QED
  BY <1>4, <1>5 DEF SelectForUpdate

\* The write of a PATCH is the store's PATCH: the row it read is the row there is.
LEMMA UpdateIsPatch == ASSUME IInv, NEW q \in Requests, updateMonitor(q) PROVE Store!Patch(q)
<1> DEFINE m == request[q].monitor
           body == request[q].body
           seconds == Or(body.interval, interval[m])
           millis == Or(body.timeout, timeout[m])
           new == Store!Merge(Shown[m], body)
<1>1. /\ Store!Pending(q, "patch") /\ Between(q) /\ UNCHANGED request /\ m \in Monitors
      /\ body.interval \in Intervals \union {None} /\ body.timeout \in Timeouts \union {None}
  BY RequestParts DEF updateMonitor, Handling, Between, Store!Pending, IInv
<1>2. /\ existing[q] = [interval |-> interval[m], timeout |-> timeout[m]]
      /\ Owned(q) /\ owner[m] = request[q].account
  BY <1>1 DEF IInv, LockedRowIsCurrent, Owned
<1>3. existing[q].interval = interval[m] /\ existing[q].timeout = timeout[m]
  BY <1>2
<1>4. interval[m] \in Intervals /\ timeout[m] \in Timeouts
  BY <1>1, <1>2, RequestParts, ConfigAssumptions DEF IInv, TypeOK, Between, Handling
<1>5. seconds \in Nat /\ millis \in Nat
  BY <1>1, <1>4, ConfigAssumptions DEF Or
<1>6. new.interval = seconds /\ new.timeout = millis
  BY <1>1, ShownRow DEF Store!Merge, Or
<1>7. Store!Obeys(new) <=> ~TooLong(millis, seconds)
  BY <1>5, <1>6 DEF Store!Obeys, TooLong
<1>8. Store!Mine(q)
  BY <1>1, <1>2, ShownRow DEF Store!Mine, Shown
<1>9. \/ TooLong(millis, seconds) /\ Respond(q, "invalid") /\ UNCHANGED columns
      \/ /\ ~TooLong(millis, seconds) /\ Respond(q, "updated")
         /\ owner' = [owner EXCEPT ![m] = owner[m]]
         /\ interval' = [interval EXCEPT ![m] = seconds]
         /\ timeout' = [timeout EXCEPT ![m] = millis]
  BY <1>1, <1>3 DEF updateMonitor, IInv, TypeOK
<1>10. Store!Row(Shown[m].owner, new) = [owner |-> owner[m], interval |-> seconds, timeout |-> millis]
  BY <1>1, <1>6, ShownRow DEF Store!Row
<1> HIDE DEF new, seconds, millis
<1>11. CASE TooLong(millis, seconds) /\ Respond(q, "invalid") /\ UNCHANGED columns
  <2>1. Store!Refuse(q, "invalid")
    BY <1>1, <1>11, ShownSame DEF Respond, Store!Refuse, Store!Answer, Shown
  <2> QED
    BY <1>1, <1>7, <1>8, <1>11, <2>1 DEF Store!Patch, Shown, new
<1>12. CASE /\ ~TooLong(millis, seconds) /\ Respond(q, "updated")
            /\ owner' = [owner EXCEPT ![m] = owner[m]]
            /\ interval' = [interval EXCEPT ![m] = seconds]
            /\ timeout' = [timeout EXCEPT ![m] = millis]
  <2>1. Shown' = [Shown EXCEPT ![m] = [owner |-> owner[m], interval |-> seconds, timeout |-> millis]]
    BY <1>1, <1>12, ShownPut DEF IInv
  <2>2. Shown' = [Shown EXCEPT ![m] = Store!Row(Shown[m].owner, new)]
    BY <1>10, <2>1
  <2>3. Store!Answer(q, "updated")
    BY <1>1, <1>12 DEF Store!Answer, Respond
  <2> QED
    BY <1>1, <1>7, <1>8, <1>12, <2>2, <2>3 DEF Store!Patch, Store!Put, Shown, new
<1> QED
  BY <1>9, <1>11, <1>12

\* Every step is a step of the store or a stutter.
LEMMA StoreStep == IInv /\ [Next]_vars => [Store!Next]_(Store!vars)
<1> SUFFICES ASSUME IInv, [Next]_vars PROVE Store!Next \/ UNCHANGED <<Shown, request, answer>>
  BY DEF Store!vars, Shown
<1>1. ASSUME NEW q \in Requests, Receive(q) PROVE Store!Next
  <2>1. Shown' = Shown
    BY <1>1, ShownSame DEF Receive
  <2> QED
    BY <1>1, <2>1 DEF Receive, Store!Arrive, Store!Next, Shown
<1>2. ASSUME NEW q \in Requests, createMonitor(q) PROVE Store!Next
  BY <1>2, CreateIsPost DEF Store!Next
<1>3. ASSUME NEW q \in Requests, getMonitorForOwner(q) PROVE Store!Next
  BY <1>3, GetIsGet DEF Store!Next
<1>4. ASSUME NEW q \in Requests, SelectForUpdate(q) PROVE Store!Next \/ UNCHANGED <<Shown, request, answer>>
  BY <1>4, SelectIsPatchOrNothing DEF Store!Next
<1>5. ASSUME NEW q \in Requests, updateMonitor(q) PROVE Store!Next
  BY <1>5, UpdateIsPatch DEF Store!Next
<1>6. ASSUME NEW q \in Requests, deleteMonitor(q) PROVE Store!Next
  BY <1>6, DeleteIsDelete DEF Store!Next
<1>7. ASSUME NEW q \in Requests, FailRequest(q) PROVE Store!Next
  <2>1. Shown' = Shown
    BY <1>7, ShownSame DEF FailRequest
  <2> QED
    BY <1>7, <2>1 DEF FailRequest, Respond, Store!Fail, Store!Refuse, Store!Answer, Store!Next, Shown
<1>8. ASSUME NEW q \in Requests, SendResponse(q) PROVE Store!Next
  <2>1. Shown' = Shown
    BY <1>8, ShownSame DEF SendResponse
  <2> QED
    BY <1>8, <2>1 DEF SendResponse, Store!Reply, Store!Next, Shown
<1>9. ASSUME NEW q \in Requests, ScheduleFails(q) PROVE Store!Next
  <2>1. Shown' = Shown
    BY <1>9, ShownSame DEF ScheduleFails
  <2>2. request[q] # None
    BY <1>9, ConfigAssumptions DEF ScheduleFails, IInv, IdleReadsNothing, Answers
  <2> QED
    BY <1>9, <2>1, <2>2 DEF ScheduleFails, Respond, Store!Fail, Store!Refuse, Store!Answer, Store!Next, Shown
<1>10. CASE UNCHANGED vars
  BY <1>10, ShownSame DEF vars
<1> QED
  BY <1>1, <1>2, <1>3, <1>4, <1>5, <1>6, <1>7, <1>8, <1>9, <1>10 DEF Next

\* PATCHes that read, judge and write in separate steps, and fail before their
\* COMMIT or after it, behave like requests that each take effect at one moment
\* or not at all; a caller that is told 500 cannot know which.
THEOREM Refinement == Spec => ImplementsConfigStore
BY StoreInit, StoreStep, InvariantHolds, PTL DEF Spec, ImplementsConfigStore, Store!Spec
=============================================================================
