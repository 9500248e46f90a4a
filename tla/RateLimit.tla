----------------------------- MODULE RateLimit ------------------------------
(***************************************************************************)
(* The rate limits in front of the API (app.ts, middleware/limits.ts and    *)
(* rateLimit.ts) and their counters in Redis.                               *)
(*                                                                          *)
(* A request passes the limit of its address, authentication, the limit of  *)
(* its account and, for a POST, the limit on creating; each limiter runs    *)
(* one script that counts the hit and keeps the counter expiring.  The      *)
(* script is atomic and its answer is used at once, unless the connection   *)
(* breaks in between.  Time is counted in ticks, several to a second,       *)
(* because the time a refused caller is told is in whole seconds.           *)
(***************************************************************************)
EXTENDS Naturals, FiniteSets, FiniteSetsExt

CONSTANTS Addresses,      \* values of req.ip
          Accounts,
          Requests,       \* requests that may be in flight at once
          IpLimit, KeyLimit, CreateLimit,
          WindowTicks,    \* length of a window
          TicksPerSecond,
          None

ASSUME LimitAssumptions ==
    /\ {IpLimit, KeyLimit, CreateLimit} \subseteq Nat \ {0}
    /\ TicksPerSecond \in Nat \ {0}
    /\ WindowTicks \in Nat \ {0} /\ WindowTicks % TicksPerSecond = 0
    /\ Addresses \intersect Accounts = {} /\ None \notin Addresses \union Accounts

VARIABLES count,    \* value of each counter, 0 when there is none; cut off one above the limit
          ttl,      \* ticks until it expires; 0 without an expiry (PTTL < 0)
          redis,    \* "ready" or "down"
          request,  \* request -> [at, ip, account, method], or None
          watched,  \* the limit and caller whose history is kept, any one of them
          passed,   \* history: hits of the watched let through: age in ticks, and which of its tick
          told,     \* history: ticks until the earliest time a refusal named, or None
          stray     \* history: the watched counter did not come from hits alone

counters == <<count, ttl>>
history == <<watched, passed, told, stray>>
vars == <<counters, redis, request, history>>

Limiters == {"ip", "key", "create"}
\* rl:<name>:<who>
Counters == ({"ip"} \X Addresses) \union ({"key", "create"} \X Accounts)
Limit == [ip |-> IpLimit, key |-> KeyLimit, create |-> CreateLimit]

\* Who is limited: the caller's address before authentication, its account after
\* (None: nobody to limit by).
Who(r) == IF r.at = "ip" THEN r.ip ELSE r.account
Caller(r) == <<r.at, Who(r)>>

CounterOf_Unnamed(r) == IF r.at = "create" THEN <<"key", r.account>> ELSE Caller(r)
CounterOf(r) == Caller(r)

Over_OffByOne(c, n) == n > Limit[c[1]] + 1
Over(c, n) == n > Limit[c[1]]

\* Math.max(1, Math.ceil(ttlMs / 1000))
ResetSeconds_Floor(ticks) == Max({1, ticks \div TicksPerSecond})
ResetSeconds(ticks) == Max({1, (ticks + TicksPerSecond - 1) \div TicksPerSecond})

-----------------------------------------------------------------------------
\* A counter may have been left without an expiry by something else.
Init ==
    /\ count \in [Counters -> {0, 1}] /\ Cardinality({c \in Counters : count[c] = 1}) <= 1
    /\ ttl = [c \in Counters |-> 0]
    /\ redis = "ready"
    /\ request = [q \in Requests |-> None]
    /\ watched \in Counters
    /\ passed = {}
    /\ told = None
    /\ stray = (count[watched] # 0)

\* A request arrives; req.ip is None once its socket is gone.
Receive(q) ==
    /\ request[q] = None
    /\ \E ip \in Addresses \union {None}, method \in {"GET", "POST"} :
          request' = [request EXCEPT ![q] =
              [at |-> "ip", ip |-> ip, account |-> None, method |-> method]]
    /\ UNCHANGED <<counters, redis, history>>

Done(q) == request' = [request EXCEPT ![q] = None]
Goto(q, stage) == request' = [request EXCEPT ![q].at = stage]

\* next(): where the request goes from a limiter.
NextHandler(q) ==
    CASE request[q].at = "ip" -> Goto(q, "auth")
      [] request[q].at = "key" /\ request[q].method = "POST" -> Goto(q, "create")
      [] OTHER -> Done(q)

\* The key is nobody's, or an account's.
requireApiKey(q) ==
    /\ request[q] # None /\ request[q].at = "auth"
    /\ \/ Done(q)
       \/ \E account \in Accounts :
             request' = [request EXCEPT ![q].at = "key", ![q].account = account]
    /\ UNCHANGED <<counters, redis, history>>

AtLimiter(q) == request[q] # None /\ request[q].at \in Limiters
Identified(q) == AtLimiter(q) /\ Who(request[q]) # None

\* identify() names nobody: the request goes on uncounted.
SkipLimit(q) ==
    /\ AtLimiter(q) /\ ~Identified(q)
    /\ NextHandler(q)
    /\ UNCHANGED <<counters, redis, history>>

Counted(c) == Min({count[c] + 1, Limit[c[1]] + 1})

Expiring_Never(c) == ttl[c]
Expiring_FirstHit(c) == IF Counted(c) = 1 THEN WindowTicks ELSE ttl[c]
Expiring(c) == IF ttl[c] = 0 THEN WindowTicks ELSE ttl[c]

Newest == {hit \in passed : hit[1] = 0}
NextHit == <<0, Cardinality(Newest) + 1>>

\* HIT_SCRIPT, and what the history notes of it.
HitScript(q) ==
    LET c == CounterOf(request[q]) IN
    /\ Identified(q)
    /\ redis = "ready"
    /\ count' = [count EXCEPT ![c] = Counted(c)]
    /\ ttl' = [ttl EXCEPT ![c] = Expiring(c)]
    /\ passed' = IF Over(c, Counted(c)) \/ Caller(request[q]) # watched
                    THEN passed ELSE passed \union {NextHit}
    /\ UNCHANGED <<watched, stray>>

Hit(q) ==
    LET c == CounterOf(request[q]) IN
    /\ HitScript(q)
    /\ \/ /\ ~Over(c, Counted(c))
          /\ NextHandler(q)
          /\ UNCHANGED told
       \/ /\ Over(c, Counted(c))      \* 429 with Retry-After
          /\ Done(q)
          /\ LET retry == ResetSeconds(Expiring(c)) * TicksPerSecond
             IN  told' = IF Caller(request[q]) # watched THEN told
                          ELSE IF told = None THEN retry ELSE Min({told, retry})
    /\ UNCHANGED redis

\* The hit is counted but the connection breaks before the answer: ioredis
\* sends the command again once it is back, or fails it after its retries.
HitUnanswered(q) ==
    /\ HitScript(q)
    /\ redis' = "down"
    /\ UNCHANGED <<request, told>>

\* Not ready after 500 ms, or the command failed: the request is let through.
FailOpen(q) ==
    /\ Identified(q)
    /\ redis = "down"
    /\ NextHandler(q)
    /\ UNCHANGED <<counters, redis, history>>

\* The connection is lost and comes back; Redis may have restarted empty.
Disconnect ==
    /\ redis = "ready"
    /\ redis' = "down"
    /\ UNCHANGED <<counters, request, history>>

Reconnect ==
    /\ redis = "down"
    /\ redis' = "ready"
    /\ \/ UNCHANGED <<counters, history>>
       \/ /\ count' = [c \in Counters |-> 0]
          /\ ttl' = [c \in Counters |-> 0]
          /\ passed' = {}
          /\ told' = None
          /\ stray' = FALSE
          /\ UNCHANGED watched
    /\ UNCHANGED request

Expires(c) == ttl[c] = 1

AfterExpiry(c) == IF Expires(c) THEN 0 ELSE count[c]

Older(hit) == <<hit[1] + 1, hit[2]>>

Tick ==
    /\ ttl' = [c \in Counters |-> IF ttl[c] = 0 THEN 0 ELSE ttl[c] - 1]
    /\ count' = [c \in Counters |-> AfterExpiry(c)]
    /\ passed' = {Older(hit) : hit \in {h \in passed : h[1] < WindowTicks - 1}}
    /\ told' = IF told \in {None, 0} \/ Expires(watched) THEN None ELSE told - 1
    /\ stray' = (stray /\ ~Expires(watched))
    /\ UNCHANGED <<redis, request, watched>>

Next ==
    \/ Disconnect
    \/ Reconnect
    \/ Tick
    \/ \E q \in Requests :
          \/ Receive(q)
          \/ requireApiKey(q)
          \/ SkipLimit(q)
          \/ Hit(q)
          \/ HitUnanswered(q)
          \/ FailOpen(q)

Spec == Init /\ [][Next]_vars

\* Time passes, whatever the requests do.
Fairness == WF_vars(Tick)
FairSpec == Spec /\ Fairness

-----------------------------------------------------------------------------
(***************************************************************************)
(* Properties                                                               *)
(***************************************************************************)

\* The types, and: only a counter that is there expires.
TypeOK ==
    /\ count \in [Counters -> Nat] /\ \A c \in Counters : count[c] <= Limit[c[1]] + 1
    /\ ttl \in [Counters -> 0 .. WindowTicks]
    /\ \A c \in Counters : IF count[c] = 0 THEN ttl[c] = 0 ELSE ttl[c] > 0 \/ count[c] = 1
    /\ redis \in {"ready", "down"}
    /\ request \in [Requests ->
           {None} \union [at : Limiters \union {"auth"}, ip : Addresses \union {None},
                         account : Accounts \union {None}, method : {"GET", "POST"}]]
    /\ watched \in Counters
    /\ passed \subseteq (0 .. WindowTicks - 1) \X (Nat \ {0}) /\ IsFiniteSet(passed)
    /\ told \in 0 .. WindowTicks \union {None}
    /\ stray \in BOOLEAN

\* Windows are fixed, so a burst can straddle two of them, and a hit may be
\* counted twice; but in no stretch of time as long as a window does the script
\* let through more than twice the limit, for an address or for an account.
\* Requests let through uncounted (failed open, or without a caller) are not in
\* it, and a restart that empties Redis starts it afresh.
AtMostTwice == Cardinality(passed) <= 2 * Limit[watched[1]]

\* Nobody pays for another caller's hits, or for those another limiter counted:
\* who is over a limit has used it up within the last window.
OverOnlyWhenUsedUp ==
    Over(watched, count[watched]) /\ ~stray => Cardinality(passed) >= Limit[watched[1]]

\* Retry-After is kept: hits of the refused caller and of others in the meantime
\* do not put the reset off past the time any refusal named.
RetryAfterIsTrue == told # None => 0 < ttl[watched] /\ ttl[watched] <= told

\* No caller is blocked forever, not even by a counter that lost its expiry.
BlockedIsTemporary == \A c \in Counters : Over(c, count[c]) ~> ~Over(c, count[c])
=============================================================================
