-------------------------- MODULE RateLimitProofs --------------------------
(***************************************************************************)
(* Theorems about RateLimit for any limits and windows, any number of       *)
(* callers and any number of requests in flight.                            *)
(*                                                                          *)
(* AtMostTwice says nothing of windows, so it is not inductive.  A stretch  *)
(* as long as a window overlaps at most two of them: what is remembered of  *)
(* the hits is split into those since the open window began (InWindow) and  *)
(* those before it (Before), and neither exceeds the limit.                 *)
(***************************************************************************)
EXTENDS RateLimit, FiniteSetTheorems, TLAPS

\* The watched limit, and the ticks since the watched caller's window opened.
WatchedLimit == Limit[watched[1]]
WindowAge == WindowTicks - ttl[watched]

InWindow == {hit \in passed : ttl[watched] # 0 /\ hit[1] <= WindowAge}
Before == passed \ InWindow

\* Past authentication, a request has an account.
Authenticated ==
    \A q \in Requests :
        request[q] # None /\ request[q].at \in {"key", "create"} => request[q].account # None

\* The hits of a tick are told apart: the next one is new.
HitsAreNumbered == \A hit \in Newest : hit[2] <= Cardinality(Newest)

\* The counter counts every hit let through since its window opened, and if it
\* came from hits alone it counts no others until the limit is used up.
WindowIsCounted ==
    /\ Cardinality(InWindow) <= count[watched]
    /\ Cardinality(InWindow) <= WatchedLimit
    /\ ~stray => count[watched] <= Cardinality(InWindow) \/ WatchedLimit <= Cardinality(InWindow)

\* What is left of earlier windows is of a single one, and a window opens later.
BeforeIsOneWindow ==
    /\ Cardinality(Before) <= WatchedLimit
    /\ ttl[watched] = 0 => Newest = {}

IInv ==
    /\ TypeOK
    /\ Authenticated
    /\ HitsAreNumbered
    /\ WindowIsCounted
    /\ BeforeIsOneWindow
    /\ RetryAfterIsTrue

-----------------------------------------------------------------------------
(***************************************************************************)
(* Lemmas about the operators.                                              *)
(***************************************************************************)
LEMMA MaxOfTwo ==
    ASSUME NEW a \in Int, NEW b \in Int
    PROVE  Max({a, b}) = IF a >= b THEN a ELSE b
<1>1. \E x \in {a, b} : \A y \in {a, b} : x >= y
  OBVIOUS
<1>2. Max({a, b}) \in {a, b} /\ \A y \in {a, b} : Max({a, b}) >= y
  BY <1>1 DEF Max
<1> QED
  BY <1>2

LEMMA MinOfTwo ==
    ASSUME NEW a \in Int, NEW b \in Int
    PROVE  Min({a, b}) = IF a <= b THEN a ELSE b
<1>1. \E x \in {a, b} : \A y \in {a, b} : x <= y
  OBVIOUS
<1>2. Min({a, b}) \in {a, b} /\ \A y \in {a, b} : Min({a, b}) <= y
  BY <1>1 DEF Min
<1> QED
  BY <1>2

LEMMA LimitsArePositive == \A c \in Counters : c[1] \in Limiters /\ Limit[c[1]] \in Nat \ {0}
BY LimitAssumptions DEF Counters, Limit, Limiters

LEMMA CountedValue ==
    ASSUME TypeOK, NEW c \in Counters
    PROVE  Counted(c) = IF Over(c, count[c]) THEN count[c] ELSE count[c] + 1
<1>1. count[c] \in Nat /\ Limit[c[1]] \in Nat /\ count[c] <= Limit[c[1]] + 1
  BY LimitsArePositive DEF TypeOK
<1> QED
  BY <1>1, MinOfTwo DEF Counted, Over

\* Dividing rounds down, by less than the divisor.
LEMMA Division ==
    ASSUME NEW n \in Nat, NEW k \in Nat \ {0}
    PROVE  /\ n \div k \in Nat
           /\ k * (n \div k) <= n
           /\ n < k * (n \div k) + k
           /\ n % k = 0 => n = k * (n \div k)
OBVIOUS

\* Whole seconds are rounded up, and a window is a number of whole seconds.
LEMMA RoundedUp ==
    ASSUME NEW ticks \in 1 .. WindowTicks
    PROVE  ResetSeconds(ticks) * TicksPerSecond \in ticks .. WindowTicks
<1> DEFINE k == TicksPerSecond
           s == (ticks + k - 1) \div k
           w == WindowTicks \div k
<1>1. k \in Nat \ {0} /\ WindowTicks \in Nat /\ ticks \in Nat /\ 1 <= ticks /\ ticks <= WindowTicks
  BY LimitAssumptions
<1>2. s \in Nat /\ k * s <= ticks + k - 1 /\ ticks <= k * s
  BY <1>1, Division, ticks + k - 1 \in Nat
<1>3. w \in Nat /\ WindowTicks = k * w
  BY <1>1, Division, LimitAssumptions
<1> HIDE DEF s, w
<1>4. s # 0
  BY <1>1, <1>2
<1>5. s <= w
  <2>1. SUFFICES ASSUME w + 1 <= s PROVE FALSE
    BY <1>2, <1>3
  <2>2. k * (w + 1) <= k * s
    BY <1>1, <1>2, <1>3, <2>1
  <2>3. k * (w + 1) = k * w + k
    BY <1>1, <1>3
  <2> QED
    BY <1>1, <1>2, <1>3, <2>2, <2>3
<1>6. k * s <= k * w
  BY <1>1, <1>2, <1>3, <1>5
<1>7. ResetSeconds(ticks) = s
  BY <1>2, <1>4, MaxOfTwo DEF ResetSeconds, s
<1>8. s * k = k * s
  BY <1>1, <1>2
<1> QED
  BY <1>1, <1>2, <1>3, <1>6, <1>7, <1>8

-----------------------------------------------------------------------------
(***************************************************************************)
(* Lemmas about the history.                                                *)
(***************************************************************************)

\* Every remembered hit falls in the open window or before it.
LEMMA HitsAreSplit ==
    ASSUME TypeOK
    PROVE  /\ IsFiniteSet(InWindow) /\ IsFiniteSet(Before) /\ IsFiniteSet(Newest)
           /\ Cardinality(InWindow) \in Nat /\ Cardinality(Before) \in Nat
           /\ Cardinality(Newest) \in Nat /\ Cardinality(passed) \in Nat
           /\ Cardinality(passed) = Cardinality(InWindow) + Cardinality(Before)
<1>1. IsFiniteSet(passed) /\ InWindow \subseteq passed /\ Newest \subseteq passed
  BY DEF TypeOK, InWindow, Newest
<1>2. IsFiniteSet(InWindow) /\ IsFiniteSet(Newest)
  BY <1>1, FS_Subset
<1>3. IsFiniteSet(Before) /\ Cardinality(Before) = Cardinality(passed) - Cardinality(passed \intersect InWindow)
  BY <1>1, FS_Difference DEF Before
<1>4. passed \intersect InWindow = InWindow
  BY <1>1
<1>5. /\ Cardinality(InWindow) \in Nat /\ Cardinality(Before) \in Nat
      /\ Cardinality(Newest) \in Nat /\ Cardinality(passed) \in Nat
  BY <1>1, <1>2, <1>3, FS_CardinalityType
<1>6. Cardinality(Before) = Cardinality(passed) - Cardinality(InWindow)
  BY <1>3, <1>4
<1> QED
  BY <1>2, <1>3, <1>5, <1>6

\* Growing older, hits stay as many as they are.
LEMMA OlderAreAsMany ==
    ASSUME NEW H, H \subseteq Nat \X Nat, IsFiniteSet(H)
    PROVE  LET aged == {Older(hit) : hit \in H}
           IN  IsFiniteSet(aged) /\ Cardinality(aged) = Cardinality(H)
<1> DEFINE aged == {Older(hit) : hit \in H}
           f == [hit \in H |-> Older(hit)]
<1>1. f \in [H -> aged] /\ \A older \in aged : \E hit \in H : f[hit] = older
  OBVIOUS
<1>2. \A h, g \in H : f[h] = f[g] => h = g
  <2>1. SUFFICES ASSUME NEW h \in H, NEW g \in H, Older(h) = Older(g) PROVE h = g
    OBVIOUS
  <2>2. h[1] + 1 = g[1] + 1 /\ h[2] = g[2]
    BY <2>1 DEF Older
  <2>3. h[1] \in Nat /\ g[1] \in Nat /\ h = <<h[1], h[2]>> /\ g = <<g[1], g[2]>>
    OBVIOUS
  <2> QED
    BY <2>2, <2>3
<1>3. ExistsBijection(H, aged)
  <2>1. f \in Bijection(H, aged)
    BY <1>1, <1>2 DEF Bijection, Injection, Surjection, IsInjective
  <2> QED
    BY <2>1 DEF ExistsBijection
<1> QED
  BY <1>3, FS_Bijection

\* The next hit is a new one, and is of this tick.
LEMMA NextHitIsNew ==
    ASSUME TypeOK, HitsAreNumbered
    PROVE  /\ NextHit \notin passed
           /\ NextHit \in (0 .. WindowTicks - 1) \X (Nat \ {0})
           /\ NextHit[1] = 0 /\ NextHit[2] = Cardinality(Newest) + 1
<1>1. Cardinality(Newest) \in Nat /\ WindowTicks \in Nat \ {0}
  BY HitsAreSplit, LimitAssumptions
<1>2. NextHit[1] = 0 /\ NextHit[2] = Cardinality(Newest) + 1
  BY DEF NextHit
<1>3. NextHit \notin Newest
  BY <1>1, <1>2 DEF HitsAreNumbered
<1> QED
  BY <1>1, <1>2, <1>3 DEF Newest, NextHit

\* What the invariant says of the watched counter depends on nothing else.
LEMMA ElsewhereKeeps ==
    ASSUME IInv, TypeOK', Authenticated', UNCHANGED history, ttl'[watched] = ttl[watched], count'[watched] = count[watched]
    PROVE  IInv'
<1>1. UNCHANGED <<InWindow, Before, Newest, WatchedLimit>>
  BY DEF history, InWindow, Before, Newest, WatchedLimit, WindowAge
<1> QED
  BY <1>1 DEF IInv, history, HitsAreNumbered, WindowIsCounted, BeforeIsOneWindow, RetryAfterIsTrue

-----------------------------------------------------------------------------
(***************************************************************************)
(* One lemma per action.                                                    *)
(***************************************************************************)
RequestType ==
    [at : Limiters \union {"auth"}, ip : Addresses \union {None},
     account : Accounts \union {None}, method : {"GET", "POST"}]

RequestsOK == request \in [Requests -> {None} \union RequestType] /\ Authenticated

\* Wherever a request goes, it stays one.
LEMMA RequestsMove ==
    ASSUME RequestsOK, NEW q \in Requests, request[q] # None,
           NEW stage \in Limiters \union {"auth"},
           stage \in {"key", "create"} => request[q].account # None,
           Done(q) \/ Goto(q, stage)
    PROVE  RequestsOK'
BY DEF RequestsOK, RequestType, Authenticated, Done, Goto

LEMMA NextHandlerMoves ==
    ASSUME RequestsOK, NEW q \in Requests, AtLimiter(q), NextHandler(q)
    PROVE  RequestsOK'
BY RequestsMove DEF AtLimiter, NextHandler, Limiters, RequestsOK, Authenticated

LEMMA InvHasRequests == IInv => RequestsOK
BY DEF IInv, TypeOK, RequestsOK, RequestType

\* Steps that touch requests and the connection only.
LEMMA RequestStepKeeps ==
    ASSUME IInv, RequestsOK', redis' \in {"ready", "down"}, UNCHANGED <<counters, history>>
    PROVE  IInv'
<1>1. TypeOK'
  BY DEF IInv, TypeOK, RequestsOK, RequestType, counters, history
<1> QED
  BY <1>1, ElsewhereKeeps DEF counters, history, RequestsOK

LEMMA ReceiveKeeps ==
    ASSUME IInv, NEW q \in Requests, Receive(q) PROVE IInv'
<1>1. RequestsOK'
  BY InvHasRequests DEF Receive, RequestsOK, RequestType, Authenticated, Limiters
<1> QED
  BY <1>1, RequestStepKeeps DEF IInv, Receive, TypeOK

LEMMA AuthKeeps ==
    ASSUME IInv, NEW q \in Requests, requireApiKey(q) PROVE IInv'
<1>1. RequestsOK'
  <2>1. CASE Done(q)
    <3>1. RequestsOK /\ request[q] # None /\ "auth" \in Limiters \union {"auth"}
      BY InvHasRequests DEF requireApiKey
    <3> QED
      BY <2>1, <3>1, RequestsMove, "auth" \notin {"key", "create"}
  <2>2. ASSUME NEW account \in Accounts,
               request' = [request EXCEPT ![q].at = "key", ![q].account = account]
        PROVE  RequestsOK'
    <3>1. RequestsOK /\ request[q] # None /\ account # None
      BY InvHasRequests, LimitAssumptions DEF requireApiKey
    <3>2. request[q] \in RequestType
      BY <3>1 DEF RequestsOK
    <3> DEFINE moved == [request[q] EXCEPT !.at = "key", !.account = account]
    <3>3. moved \in RequestType /\ moved.account = account
      BY <3>2 DEF RequestType, Limiters
    <3>4. request' = [request EXCEPT ![q] = moved]
      BY <2>2, <3>1, <3>2 DEF RequestsOK, RequestType
    <3> HIDE DEF moved
    <3>5. request' \in [Requests -> {None} \union RequestType]
      BY <3>1, <3>3, <3>4 DEF RequestsOK
    <3>6. Authenticated'
      BY <3>1, <3>3, <3>4 DEF RequestsOK, Authenticated
    <3> QED
      BY <3>5, <3>6 DEF RequestsOK
  <2> QED
    BY <2>1, <2>2 DEF requireApiKey
<1> QED
  BY <1>1, RequestStepKeeps DEF IInv, requireApiKey, TypeOK

LEMMA SkipLimitKeeps ==
    ASSUME IInv, NEW q \in Requests, SkipLimit(q) PROVE IInv'
<1>1. RequestsOK'
  BY InvHasRequests, NextHandlerMoves DEF IInv, SkipLimit
<1> QED
  BY <1>1, RequestStepKeeps DEF IInv, SkipLimit, TypeOK

LEMMA FailOpenKeeps ==
    ASSUME IInv, NEW q \in Requests, FailOpen(q) PROVE IInv'
<1>1. RequestsOK'
  BY InvHasRequests, NextHandlerMoves DEF IInv, FailOpen, Identified
<1> QED
  BY <1>1, RequestStepKeeps DEF IInv, FailOpen, TypeOK

LEMMA DisconnectKeeps == ASSUME IInv, Disconnect PROVE IInv'
<1>1. RequestsOK'
  BY InvHasRequests DEF Disconnect, RequestsOK, Authenticated
<1> QED
  BY <1>1, RequestStepKeeps DEF Disconnect

\* Redis may come back empty, and then nothing is remembered.
LEMMA ReconnectKeeps == ASSUME IInv, Reconnect PROVE IInv'
<1>1. RequestsOK'
  BY InvHasRequests DEF Reconnect, RequestsOK, Authenticated
<1>2. CASE UNCHANGED <<counters, history>>
  BY <1>1, <1>2, RequestStepKeeps DEF Reconnect
<1>3. CASE /\ count' = [c \in Counters |-> 0] /\ ttl' = [c \in Counters |-> 0]
           /\ passed' = {} /\ told' = None /\ stray' = FALSE /\ UNCHANGED watched
  <2>1. watched' \in Counters
    BY <1>3 DEF IInv, TypeOK
  <2>2. TypeOK'
    <3>1. count' \in [Counters -> Nat] /\ \A c \in Counters : count'[c] <= Limit[c[1]] + 1
      BY <1>3, LimitsArePositive
    <3>2. ttl' \in [Counters -> 0 .. WindowTicks]
      BY <1>3, LimitAssumptions
    <3>3. \A c \in Counters : count'[c] = 0 /\ ttl'[c] = 0
      BY <1>3
    <3> QED
      BY <1>1, <1>3, <2>1, <3>1, <3>2, <3>3, FS_EmptySet DEF Reconnect, TypeOK, RequestsOK, RequestType
  <2>3. InWindow' = {} /\ Before' = {} /\ Newest' = {}
    BY <1>3 DEF InWindow, Before, Newest
  <2>4. Cardinality({}) = 0 /\ Limit[watched'[1]] \in Nat
    BY <2>1, FS_EmptySet, LimitsArePositive
  <2> QED
    BY <1>1, <1>3, <2>1, <2>2, <2>3, <2>4
       DEF IInv, RequestsOK, HitsAreNumbered, WindowIsCounted, BeforeIsOneWindow, RetryAfterIsTrue, WatchedLimit
<1> QED
  BY <1>2, <1>3 DEF Reconnect

\* The script counts up to one above the limit, and leaves an expiry.
LEMMA ScriptCounts ==
    ASSUME IInv, NEW q \in Requests, HitScript(q)
    PROVE  LET c == Caller(request[q]) IN
           /\ c \in Counters
           /\ count' = [count EXCEPT ![c] = IF Over(c, @) THEN @ ELSE @ + 1]
           /\ ttl' = [ttl EXCEPT ![c] = IF @ = 0 THEN WindowTicks ELSE @]
           /\ count' \in [Counters -> Nat] /\ \A d \in Counters : count'[d] <= Limit[d[1]] + 1
           /\ ttl' \in [Counters -> 0 .. WindowTicks]
           /\ \A d \in Counters :
                 IF count'[d] = 0 THEN ttl'[d] = 0 ELSE ttl'[d] > 0 \/ count'[d] = 1
<1> DEFINE c == Caller(request[q])
<1>1. TypeOK /\ request[q] \in RequestType /\ request[q].at \in Limiters
  BY InvHasRequests DEF IInv, HitScript, Identified, AtLimiter, RequestsOK
<1>2. c \in Counters
  <2>1. Who(request[q]) # None
    BY DEF HitScript, Identified
  <2>2. Who(request[q]) \in IF request[q].at = "ip" THEN Addresses ELSE Accounts
    BY <1>1, <2>1 DEF Who, RequestType
  <2> QED
    BY <1>1, <2>2 DEF Caller, Counters, Limiters
<1> HIDE DEF c
<1>3. count \in [Counters -> Nat] /\ ttl \in [Counters -> 0 .. WindowTicks]
      /\ WindowTicks \in Nat \ {0} /\ Limit[c[1]] \in Nat
      /\ \A d \in Counters : Limit[d[1]] \in Nat /\ count[d] <= Limit[d[1]] + 1
  BY <1>1, <1>2, LimitAssumptions, LimitsArePositive DEF TypeOK
<1>4. Counted(c) = IF Over(c, count[c]) THEN count[c] ELSE count[c] + 1
  BY <1>1, <1>2, CountedValue
<1>5. count' = [count EXCEPT ![c] = Counted(c)] /\ ttl' = [ttl EXCEPT ![c] = Expiring(c)]
  BY DEF HitScript, CounterOf, c
<1>6. Counted(c) \in Nat \ {0} /\ Counted(c) <= Limit[c[1]] + 1
  BY <1>2, <1>3, <1>4 DEF Over
<1>7. Expiring(c) \in 1 .. WindowTicks /\ Expiring(c) = IF ttl[c] = 0 THEN WindowTicks ELSE ttl[c]
  BY <1>2, <1>3 DEF Expiring
<1>8. count' = [count EXCEPT ![c] = IF Over(c, @) THEN @ ELSE @ + 1]
  BY <1>4, <1>5
<1>9. ttl' = [ttl EXCEPT ![c] = IF @ = 0 THEN WindowTicks ELSE @]
  BY <1>5, <1>7
<1>10. count' \in [Counters -> Nat] /\ \A d \in Counters : count'[d] <= Limit[d[1]] + 1
  BY <1>2, <1>3, <1>5, <1>6
<1>11. ttl' \in [Counters -> 0 .. WindowTicks]
  BY <1>2, <1>3, <1>5, <1>7
<1>12. ASSUME NEW d \in Counters
       PROVE  IF count'[d] = 0 THEN ttl'[d] = 0 ELSE ttl'[d] > 0 \/ count'[d] = 1
  <2>1. CASE d = c
    BY <1>2, <1>3, <1>5, <1>6, <1>7, <2>1
  <2>2. CASE d # c
    BY <1>1, <1>2, <1>3, <1>5, <2>2 DEF TypeOK
  <2> QED
    BY <2>1, <2>2
<1> QED
  BY <1>2, <1>8, <1>9, <1>10, <1>11, <1>12 DEF c

\* Counting keeps what is known of the history.
LEMMA ScriptKeepsHistory ==
    ASSUME IInv, NEW q \in Requests, HitScript(q)
    PROVE  /\ passed' \subseteq (0 .. WindowTicks - 1) \X (Nat \ {0}) /\ IsFiniteSet(passed')
           /\ HitsAreNumbered' /\ WindowIsCounted' /\ BeforeIsOneWindow'
<1> DEFINE c == Caller(request[q])
           counts == c = watched /\ ~Over(c, count[c])
<1>1. TypeOK /\ watched \in Counters /\ watched' = watched /\ stray' = stray
  BY DEF IInv, TypeOK, HitScript
<1>2. /\ c \in Counters
      /\ count' = [count EXCEPT ![c] = IF Over(c, @) THEN @ ELSE @ + 1]
      /\ ttl' = [ttl EXCEPT ![c] = IF @ = 0 THEN WindowTicks ELSE @]
  BY ScriptCounts
<1> HIDE DEF c
<1>3. count[watched] \in Nat /\ ttl[watched] \in 0 .. WindowTicks /\ WatchedLimit \in Nat \ {0}
      /\ WatchedLimit' = WatchedLimit /\ WindowTicks \in Nat \ {0} /\ stray \in BOOLEAN
      /\ count[watched] <= WatchedLimit + 1
  BY <1>1, LimitsArePositive, LimitAssumptions DEF TypeOK, WatchedLimit
<1>4. \/ c # watched /\ passed' = passed
      \/ c = watched /\ Over(c, Counted(c)) /\ passed' = passed
      \/ c = watched /\ ~Over(c, Counted(c)) /\ passed' = passed \union {NextHit}
  BY DEF HitScript, CounterOf, c
<1>5. /\ IsFiniteSet(InWindow) /\ IsFiniteSet(Before) /\ IsFiniteSet(Newest)
      /\ Cardinality(InWindow) \in Nat /\ Cardinality(Before) \in Nat /\ Cardinality(Newest) \in Nat
  BY <1>1, HitsAreSplit
<1>6. /\ NextHit \notin passed /\ NextHit \in (0 .. WindowTicks - 1) \X (Nat \ {0})
      /\ NextHit[1] = 0 /\ NextHit[2] = Cardinality(Newest) + 1
  BY <1>1, NextHitIsNew DEF IInv
<1>7. passed \subseteq (0 .. WindowTicks - 1) \X (Nat \ {0}) /\ IsFiniteSet(passed)
  BY <1>1 DEF TypeOK
<1>8. CASE c # watched
  <2>1. UNCHANGED <<passed, count[watched], ttl[watched]>>
    BY <1>1, <1>2, <1>4, <1>8 DEF TypeOK
  <2>2. UNCHANGED <<InWindow, Before, Newest>>
    BY <1>1, <2>1 DEF InWindow, Before, Newest, WindowAge
  <2> QED
    BY <1>1, <1>3, <1>7, <2>1, <2>2 DEF IInv, HitsAreNumbered, WindowIsCounted, BeforeIsOneWindow
<1>9. CASE c = watched
  <2>1. ttl'[watched] = IF ttl[watched] = 0 THEN WindowTicks ELSE ttl[watched]
    BY <1>1, <1>2, <1>9 DEF TypeOK
  <2>2. count'[watched] = IF count[watched] > WatchedLimit THEN count[watched] ELSE count[watched] + 1
    BY <1>1, <1>2, <1>9 DEF TypeOK, Over, WatchedLimit
  <2>3. Counted(c) = IF count[watched] > WatchedLimit THEN count[watched] ELSE count[watched] + 1
    BY <1>1, <1>2, <1>9, CountedValue DEF Over, WatchedLimit
  \* Opening a window finds nothing of this tick.
  <2>4. ASSUME NEW hit \in passed
        PROVE  ttl'[watched] # 0 /\ hit[1] <= WindowTicks - ttl'[watched] <=> hit \in InWindow
    <3>1. hit[1] \in Nat
      BY <1>7
    <3>2. CASE ttl[watched] = 0
      <4>1. hit \notin Newest
        BY <3>2 DEF IInv, BeforeIsOneWindow
      <4>2. hit[1] # 0
        BY <4>1 DEF Newest
      <4> QED
        BY <1>3, <2>1, <3>1, <3>2, <4>2 DEF InWindow
    <3>3. CASE ttl[watched] # 0
      BY <2>1, <3>3 DEF InWindow, WindowAge
    <3> QED
      BY <3>2, <3>3
  <2>5. CASE Over(c, Counted(c)) /\ passed' = passed
    <3>1. InWindow' = InWindow /\ Newest' = Newest
      BY <1>1, <2>4, <2>5 DEF InWindow, WindowAge, Newest
    <3>2. Before' = Before
      BY <2>5, <3>1 DEF Before
    <3>3. count'[watched] > WatchedLimit /\ count[watched] >= WatchedLimit
      BY <1>3, <1>9, <2>2, <2>3, <2>5 DEF Over, WatchedLimit
    <3>4. count[watched] <= count'[watched]
      BY <1>3, <2>2
    <3>5. WindowIsCounted'
      BY <1>1, <1>3, <1>5, <2>2, <3>1, <3>3, <3>4 DEF IInv, WindowIsCounted
    <3>6. ttl'[watched] # 0
      BY <1>3, <2>1
    <3> QED
      BY <1>1, <1>3, <1>7, <2>5, <3>1, <3>2, <3>5, <3>6 DEF IInv, HitsAreNumbered, BeforeIsOneWindow
  <2>6. CASE ~Over(c, Counted(c)) /\ passed' = passed \union {NextHit}
    <3>1. /\ InWindow' = InWindow \union {NextHit} /\ NextHit \notin InWindow
          /\ Newest' = Newest \union {NextHit} /\ NextHit \notin Newest
      <4>1. ttl'[watched] # 0 /\ NextHit[1] <= WindowTicks - ttl'[watched]
        BY <1>3, <1>6, <2>1
      <4> QED
        BY <1>1, <1>6, <2>4, <2>6, <4>1 DEF InWindow, WindowAge, Newest
    <3>2. Before' = Before
      BY <1>6, <2>6, <3>1 DEF Before
    <3>3. /\ Cardinality(InWindow') = Cardinality(InWindow) + 1
          /\ Cardinality(Newest') = Cardinality(Newest) + 1
          /\ IsFiniteSet(passed')
      BY <1>5, <1>7, <2>6, <3>1, FS_AddElement
    <3>4. count'[watched] = count[watched] + 1 /\ count'[watched] <= WatchedLimit
      BY <1>3, <1>9, <2>2, <2>3, <2>6 DEF Over, WatchedLimit
    <3>5. WindowIsCounted'
      BY <1>1, <1>3, <1>5, <3>3, <3>4 DEF IInv, WindowIsCounted
    <3>6. HitsAreNumbered'
      <4>1. SUFFICES ASSUME NEW hit \in Newest' PROVE hit[2] <= Cardinality(Newest')
        BY DEF HitsAreNumbered
      <4>2. CASE hit = NextHit
        BY <1>5, <1>6, <3>3, <4>2
      <4>3. CASE hit \in Newest
        <5>1. hit[2] \in Nat /\ hit[2] <= Cardinality(Newest)
          BY <1>7, <4>3 DEF IInv, HitsAreNumbered, Newest
        <5> QED
          BY <1>5, <3>3, <5>1
      <4> QED
        BY <3>1, <4>1, <4>2, <4>3
    <3>7. ttl'[watched] # 0
      BY <1>3, <2>1
    <3> QED
      BY <1>1, <1>3, <1>6, <1>7, <2>6, <3>2, <3>3, <3>5, <3>6, <3>7 DEF IInv, BeforeIsOneWindow
  <2> QED
    BY <1>4, <1>9, <2>5, <2>6
<1> QED
  BY <1>8, <1>9

\* A counted hit keeps the rest of the invariant, if the request goes on as one
\* and a refusal names a time the window keeps to.
LEMMA CountedHitKeeps ==
    ASSUME IInv, NEW q \in Requests, HitScript(q), RequestsOK', redis' \in {"ready", "down"},
           told' \in 0 .. WindowTicks \union {None}, RetryAfterIsTrue'
    PROVE  IInv'
<1>1. TypeOK'
  <2>1. watched' \in Counters /\ stray' \in BOOLEAN
    BY DEF IInv, TypeOK, HitScript
  <2>2. /\ count' \in [Counters -> Nat] /\ \A d \in Counters : count'[d] <= Limit[d[1]] + 1
        /\ ttl' \in [Counters -> 0 .. WindowTicks]
        /\ \A d \in Counters :
              IF count'[d] = 0 THEN ttl'[d] = 0 ELSE ttl'[d] > 0 \/ count'[d] = 1
    BY ScriptCounts
  <2>3. passed' \subseteq (0 .. WindowTicks - 1) \X (Nat \ {0}) /\ IsFiniteSet(passed')
    BY ScriptKeepsHistory
  <2> QED
    BY <2>1, <2>2, <2>3 DEF TypeOK, RequestsOK, RequestType
<1> QED
  BY <1>1, ScriptKeepsHistory DEF IInv, RequestsOK

LEMMA HitKeeps ==
    ASSUME IInv, NEW q \in Requests, Hit(q) PROVE IInv'
<1> DEFINE c == Caller(request[q])
           retry == ResetSeconds(Expiring(c)) * TicksPerSecond
<1>1. HitScript(q) /\ redis' = redis /\ TypeOK /\ RequestsOK /\ request[q] # None /\ AtLimiter(q)
  BY InvHasRequests DEF Hit, HitScript, IInv, Identified, AtLimiter
<1>2. /\ c \in Counters /\ watched \in Counters /\ watched' = watched
      /\ ttl' = [ttl EXCEPT ![c] = IF @ = 0 THEN WindowTicks ELSE @]
      /\ ttl \in [Counters -> 0 .. WindowTicks] /\ ttl' \in [Counters -> 0 .. WindowTicks]
      /\ WindowTicks \in Nat \ {0} /\ told \in 0 .. WindowTicks \union {None}
      /\ redis \in {"ready", "down"}
  BY <1>1, ScriptCounts, LimitAssumptions DEF TypeOK, HitScript
<1>3. RequestsOK'
  <2>1. CASE NextHandler(q)
    BY <1>1, <2>1, NextHandlerMoves
  <2>2. CASE Done(q)
    BY <1>1, <2>2, RequestsMove DEF AtLimiter
  <2> QED
    BY <2>1, <2>2 DEF Hit
<1>4. told # None => 0 < ttl[watched] /\ ttl[watched] <= told
  BY DEF IInv, RetryAfterIsTrue
<1>5. CASE told' = told
  <2>1. told # None => ttl'[watched] = ttl[watched]
    BY <1>2, <1>4
  <2>2. RetryAfterIsTrue'
    BY <1>2, <1>4, <1>5, <2>1 DEF RetryAfterIsTrue
  <2> QED
    BY <1>1, <1>2, <1>3, <1>5, <2>2, CountedHitKeeps
<1>6. CASE c = watched /\ told' = IF told = None THEN retry ELSE Min({told, retry})
  <2>1. Expiring(c) = ttl'[c] /\ ttl'[c] \in 1 .. WindowTicks
    BY <1>2 DEF Expiring
  <2>2. retry \in ttl'[watched] .. WindowTicks
    BY <1>6, <2>1, RoundedUp
  <2> HIDE DEF retry
  <2>3. told # None => /\ told \in ttl'[watched] .. WindowTicks
                       /\ Min({told, retry}) \in ttl'[watched] .. WindowTicks
    <3>1. told # None => told \in ttl'[watched] .. WindowTicks
      BY <1>2, <1>4, <1>6
    <3>2. retry \in Int /\ (told # None => told \in Int)
      BY <1>2, <2>2
    <3> QED
      BY <2>2, <3>1, <3>2, MinOfTwo
  <2>4. told' \in ttl'[watched] .. WindowTicks
    BY <1>6, <2>2, <2>3
  <2>5. told' \in 0 .. WindowTicks /\ RetryAfterIsTrue'
    BY <1>2, <1>6, <2>1, <2>4 DEF RetryAfterIsTrue
  <2> QED
    BY <1>1, <1>2, <1>3, <2>5, CountedHitKeeps
<1> QED
  BY <1>5, <1>6 DEF Hit, CounterOf

LEMMA HitUnansweredKeeps ==
    ASSUME IInv, NEW q \in Requests, HitUnanswered(q) PROVE IInv'
<1>1. HitScript(q) /\ redis' = "down" /\ told' = told /\ watched' = watched
  BY DEF HitUnanswered, HitScript
<1>2. RequestsOK'
  BY InvHasRequests DEF HitUnanswered, RequestsOK, Authenticated
<1>3. RetryAfterIsTrue'
  <2>1. watched \in Counters /\ ttl \in [Counters -> 0 .. WindowTicks]
    BY DEF IInv, TypeOK
  <2>2. told # None => 0 < ttl[watched] /\ ttl[watched] <= told /\ ttl'[watched] = ttl[watched]
    BY <1>1, <2>1, ScriptCounts DEF IInv, RetryAfterIsTrue
  <2> QED
    BY <1>1, <2>2 DEF RetryAfterIsTrue
<1> QED
  BY <1>1, <1>2, <1>3, CountedHitKeeps DEF IInv, TypeOK

\* A tick ages the hits that stay in the last window.
LEMMA TickAges ==
    ASSUME TypeOK, Tick
    PROVE  /\ passed' = {Older(hit) : hit \in {h \in passed : h[1] < WindowTicks - 1}}
           /\ passed' \subseteq (0 .. WindowTicks - 1) \X (Nat \ {0}) /\ IsFiniteSet(passed')
           /\ \A hit \in passed' : hit[1] # 0
<1> DEFINE staying == {h \in passed : h[1] < WindowTicks - 1}
<1>1. passed' = {Older(hit) : hit \in staying}
  BY DEF Tick
<1>2. passed \subseteq (0 .. WindowTicks - 1) \X (Nat \ {0}) /\ IsFiniteSet(passed) /\ WindowTicks \in Nat \ {0}
  BY LimitAssumptions DEF TypeOK
<1>3. staying \subseteq Nat \X Nat /\ staying \subseteq passed
  BY <1>2
<1>4. IsFiniteSet(staying)
  BY <1>2, <1>3, FS_Subset
<1>5. IsFiniteSet(passed')
  BY <1>1, <1>3, <1>4, OlderAreAsMany
<1>6. ASSUME NEW hit \in staying
      PROVE  /\ Older(hit) \in (0 .. WindowTicks - 1) \X (Nat \ {0})
             /\ Older(hit)[1] = hit[1] + 1 /\ hit[1] \in Nat
  BY <1>2, <1>6 DEF Older
<1>7. \A hit \in passed' : hit \in (0 .. WindowTicks - 1) \X (Nat \ {0}) /\ hit[1] # 0
  BY <1>1, <1>6
<1> QED
  BY <1>1, <1>5, <1>7

LEMMA TickKeepsTypes == ASSUME IInv, Tick PROVE TypeOK' /\ Authenticated'
<1>1. TypeOK /\ WindowTicks \in Nat \ {0}
  BY LimitAssumptions DEF IInv
<1>2. Authenticated' /\ UNCHANGED <<redis, request, watched>>
  BY DEF Tick, IInv, Authenticated
<1>3. /\ count \in [Counters -> Nat] /\ ttl \in [Counters -> 0 .. WindowTicks]
      /\ \A c \in Counters : Limit[c[1]] \in Nat /\ count[c] <= Limit[c[1]] + 1
      /\ \A c \in Counters : IF count[c] = 0 THEN ttl[c] = 0 ELSE ttl[c] > 0 \/ count[c] = 1
  BY <1>1, LimitsArePositive DEF TypeOK
<1>4. /\ ttl' = [c \in Counters |-> IF ttl[c] = 0 THEN 0 ELSE ttl[c] - 1]
      /\ count' = [c \in Counters |-> IF ttl[c] = 1 THEN 0 ELSE count[c]]
  BY DEF Tick, AfterExpiry, Expires
<1>5. count' \in [Counters -> Nat] /\ \A c \in Counters : count'[c] <= Limit[c[1]] + 1
  BY <1>3, <1>4
<1>6. ttl' \in [Counters -> 0 .. WindowTicks]
  BY <1>1, <1>3, <1>4
<1>7. \A c \in Counters : IF count'[c] = 0 THEN ttl'[c] = 0 ELSE ttl'[c] > 0 \/ count'[c] = 1
  BY <1>3, <1>4
<1>8. told' \in 0 .. WindowTicks \union {None}
  <2>1. told \in 0 .. WindowTicks \union {None}
    BY <1>1 DEF TypeOK
  <2>2. told' = None \/ (told \notin {None, 0} /\ told' = told - 1)
    BY DEF Tick
  <2> QED
    BY <1>1, <2>1, <2>2
<1>9. stray' \in BOOLEAN
  BY <1>1 DEF Tick, TypeOK
<1> QED
  BY <1>1, <1>2, <1>5, <1>6, <1>7, <1>8, <1>9, TickAges DEF TypeOK

\* Ageing keeps hits in the open window; when it expires, all there are become
\* those before, and the ones before it are forgotten.
LEMMA TickKeepsWindows == ASSUME IInv, Tick PROVE WindowIsCounted' /\ BeforeIsOneWindow'
<1> DEFINE t == ttl[watched]
           staying == {h \in passed : h[1] < WindowTicks - 1}
<1>1. /\ TypeOK /\ TypeOK' /\ WindowTicks \in Nat \ {0}
      /\ t \in 0 .. WindowTicks /\ count[watched] \in Nat /\ stray \in BOOLEAN
      /\ watched \in Counters /\ watched' = watched
      /\ WatchedLimit \in Nat \ {0} /\ WatchedLimit' = WatchedLimit
  BY TickKeepsTypes, LimitAssumptions, LimitsArePositive DEF IInv, TypeOK, Tick, WatchedLimit
<1>2. /\ ttl'[watched] = IF t = 0 THEN 0 ELSE t - 1
      /\ count'[watched] = IF t = 1 THEN 0 ELSE count[watched]
      /\ stray' = (stray /\ t # 1)
  BY <1>1 DEF Tick, AfterExpiry, Expires
<1>3. /\ passed' = {Older(hit) : hit \in staying}
      /\ \A hit \in passed' : hit[1] # 0
  BY <1>1, TickAges
<1>4. passed \subseteq (0 .. WindowTicks - 1) \X (Nat \ {0}) /\ IsFiniteSet(passed)
  BY <1>1 DEF TypeOK
<1>5. Newest' = {}
  BY <1>3 DEF Newest
<1>6. /\ IsFiniteSet(InWindow) /\ IsFiniteSet(Before)
      /\ Cardinality(InWindow) \in Nat /\ Cardinality(Before) \in Nat
      /\ Cardinality(passed) = Cardinality(InWindow) + Cardinality(Before)
  BY <1>1, HitsAreSplit
<1>7. \A hit \in passed : hit[1] \in 0 .. WindowTicks - 1 /\ Older(hit)[1] = hit[1] + 1
  BY <1>4 DEF Older
<1>8. /\ Cardinality(InWindow) <= count[watched] /\ Cardinality(InWindow) <= WatchedLimit
      /\ ~stray => count[watched] <= Cardinality(InWindow) \/ WatchedLimit <= Cardinality(InWindow)
      /\ Cardinality(Before) <= WatchedLimit
  BY DEF IInv, WindowIsCounted, BeforeIsOneWindow
<1> HIDE DEF t
\* Whatever ages, it gets no more.
<1>9. ASSUME NEW H, H \subseteq passed
      PROVE  LET aged == {Older(hit) : hit \in H}
             IN  Cardinality(aged) = Cardinality(H) /\ IsFiniteSet(H) /\ Cardinality(H) \in Nat
  <2>1. H \subseteq Nat \X Nat
    BY <1>4, <1>9
  <2>2. IsFiniteSet(H)
    BY <1>4, <1>9, FS_Subset
  <2> QED
    BY <2>1, <2>2, OlderAreAsMany, FS_CardinalityType
<1>10. CASE t > 1
  <2>1. ttl'[watched] = t - 1 /\ count'[watched] = count[watched] /\ stray' = stray
    BY <1>1, <1>2, <1>10
  <2>2. InWindow \subseteq staying
    BY <1>1, <1>7, <1>10 DEF InWindow, WindowAge, t
  <2>3. \A hit \in passed : (ttl'[watched] # 0 /\ Older(hit)[1] <= WindowTicks - ttl'[watched]) <=> hit \in InWindow
    BY <1>1, <1>7, <1>10, <2>1 DEF InWindow, WindowAge, t
  <2>4. InWindow' = {Older(hit) : hit \in InWindow}
    <3>1. InWindow' = {hit \in passed' : ttl'[watched] # 0 /\ hit[1] <= WindowTicks - ttl'[watched]}
      BY <1>1 DEF InWindow, WindowAge
    <3> QED
      BY <1>3, <2>2, <2>3, <3>1
  <2>5. Before' \subseteq {Older(hit) : hit \in Before}
    <3>1. SUFFICES ASSUME NEW old \in passed', old \notin InWindow'
                   PROVE  old \in {Older(hit) : hit \in Before}
      BY DEF Before
    <3>2. PICK hit \in staying : old = Older(hit)
      BY <1>3
    <3>3. hit \notin InWindow
      BY <2>4, <3>1, <3>2
    <3> QED
      BY <3>2, <3>3 DEF Before
  <2>6. Cardinality(InWindow') = Cardinality(InWindow)
    BY <1>9, <2>4, InWindow \subseteq passed DEF InWindow
  <2>7. Cardinality(Before') \in Nat /\ Cardinality(Before') <= Cardinality(Before)
    <3>1. Before \subseteq passed
      BY DEF Before
    <3>2. IsFiniteSet({Older(hit) : hit \in Before}) /\ Cardinality({Older(hit) : hit \in Before}) = Cardinality(Before)
      BY <1>4, <1>6, <3>1, OlderAreAsMany, Before \subseteq Nat \X Nat
    <3> QED
      BY <2>5, <3>2, FS_Subset, FS_CardinalityType
  <2> QED
    BY <1>1, <1>5, <1>6, <1>8, <2>1, <2>6, <2>7 DEF WindowIsCounted, BeforeIsOneWindow
<1>11. CASE t <= 1
  <2>1. ttl'[watched] = 0
    BY <1>1, <1>2, <1>11
  <2>2. InWindow' = {} /\ Before' = passed'
    BY <1>1, <2>1 DEF InWindow, Before
  <2>3. Cardinality(InWindow') = 0
    BY <2>2, FS_EmptySet
  \* All there are were in the window that ends, or before a window that never opened.
  <2>4. Cardinality(passed) <= WatchedLimit
    <3>1. t = 0 => InWindow = {}
      BY DEF InWindow, t
    <3>2. t = 1 => passed = InWindow
      BY <1>1, <1>7 DEF InWindow, WindowAge, t
    <3>3. t = 0 => Cardinality(InWindow) = 0
      BY <3>1, FS_EmptySet
    <3> QED
      BY <1>1, <1>6, <1>8, <1>11, <3>2, <3>3
  <2>5. Cardinality(Before') \in Nat /\ Cardinality(Before') <= WatchedLimit
    <3>1. staying \subseteq passed
      OBVIOUS
    <3>2. Cardinality(passed') = Cardinality(staying) /\ Cardinality(staying) \in Nat
      BY <1>3, <1>9, <3>1
    <3>3. Cardinality(staying) <= Cardinality(passed) /\ Cardinality(passed) \in Nat
      BY <1>4, <3>1, FS_Subset, FS_CardinalityType
    <3> QED
      BY <1>1, <2>2, <2>4, <3>2, <3>3
  <2>6. WindowIsCounted'
    <3>1. count'[watched] \in Nat
      BY <1>1, <1>2
    \* A counter without an expiry is somebody else's, unless there is none.
    <3>2. ~stray' => count'[watched] = 0
      <4>1. CASE t = 1
        BY <1>2, <4>1
      <4>2. CASE t = 0
        <5>1. Cardinality(InWindow) = 0
          BY <4>2, FS_EmptySet, InWindow = {} DEF InWindow, t
        <5> QED
          BY <1>1, <1>2, <1>8, <4>2, <5>1
      <4> QED
        BY <1>1, <1>11, <4>1, <4>2
    <3> QED
      BY <1>1, <2>3, <3>1, <3>2 DEF WindowIsCounted
  <2> QED
    BY <1>1, <1>5, <2>5, <2>6 DEF BeforeIsOneWindow
<1> QED
  BY <1>1, <1>10, <1>11

LEMMA TickKeeps == ASSUME IInv, Tick PROVE IInv'
<1>1. HitsAreNumbered'
  <2>1. Newest' = {}
    BY TickAges DEF IInv, Newest
  <2> QED
    BY <2>1 DEF HitsAreNumbered
<1>2. RetryAfterIsTrue'
  <2>1. /\ watched \in Counters /\ watched' = watched
        /\ ttl \in [Counters -> 0 .. WindowTicks] /\ WindowTicks \in Nat
        /\ told \in 0 .. WindowTicks \union {None}
        /\ told # None => 0 < ttl[watched] /\ ttl[watched] <= told
    BY LimitAssumptions DEF IInv, TypeOK, Tick, RetryAfterIsTrue
  <2>2. ttl'[watched] = IF ttl[watched] = 0 THEN 0 ELSE ttl[watched] - 1
    BY <2>1 DEF Tick
  <2>3. told' = IF told \in {None, 0} \/ ttl[watched] = 1 THEN None ELSE told - 1
    BY DEF Tick, Expires
  <2>4. ttl[watched] \in 0 .. WindowTicks
    BY <2>1
  <2> QED
    BY <2>1, <2>2, <2>3, <2>4 DEF RetryAfterIsTrue
<1> QED
  BY <1>1, <1>2, TickKeepsTypes, TickKeepsWindows DEF IInv

-----------------------------------------------------------------------------
(***************************************************************************)
(* The theorems.                                                            *)
(***************************************************************************)

\* At first nobody was let through, and nobody was told anything.
LEMMA InitEstablishes == Init => IInv
<1> SUFFICES ASSUME Init PROVE IInv
  OBVIOUS
<1>1. /\ count \in [Counters -> {0, 1}] /\ ttl = [c \in Counters |-> 0] /\ watched \in Counters
      /\ passed = {} /\ told = None /\ stray = (count[watched] # 0) /\ redis = "ready"
      /\ request = [q \in Requests |-> None]
  BY DEF Init
<1>2. TypeOK
  <2>1. count \in [Counters -> Nat] /\ \A c \in Counters : count[c] <= Limit[c[1]] + 1
    BY <1>1, LimitsArePositive
  <2>2. ttl \in [Counters -> 0 .. WindowTicks]
    BY <1>1, LimitAssumptions
  <2>3. \A c \in Counters : IF count[c] = 0 THEN ttl[c] = 0 ELSE ttl[c] > 0 \/ count[c] = 1
    BY <1>1
  <2> QED
    BY <1>1, <2>1, <2>2, <2>3, FS_EmptySet DEF TypeOK
<1>3. InWindow = {} /\ Before = {} /\ Newest = {}
  BY <1>1 DEF InWindow, Before, Newest
<1>4. Cardinality({}) = 0 /\ WatchedLimit \in Nat /\ count[watched] \in {0, 1}
  BY <1>1, FS_EmptySet, LimitsArePositive DEF WatchedLimit
<1>5. WindowIsCounted
  <2>1. ~stray => count[watched] = 0
    BY <1>1
  <2> QED
    BY <1>3, <1>4, <2>1 DEF WindowIsCounted
<1>6. HitsAreNumbered /\ BeforeIsOneWindow
  BY <1>3, <1>4 DEF HitsAreNumbered, BeforeIsOneWindow
<1>7. Authenticated /\ RetryAfterIsTrue
  BY <1>1 DEF Authenticated, RetryAfterIsTrue
<1> QED
  BY <1>2, <1>5, <1>6, <1>7 DEF IInv

LEMMA NextPreserves == IInv /\ [Next]_vars => IInv'
<1> SUFFICES ASSUME IInv, [Next]_vars PROVE IInv'
  OBVIOUS
<1>1. CASE Disconnect
  BY <1>1, DisconnectKeeps
<1>2. CASE Reconnect
  BY <1>2, ReconnectKeeps
<1>3. CASE Tick
  BY <1>3, TickKeeps
<1>4. ASSUME NEW q \in Requests, Receive(q) PROVE IInv'
  BY <1>4, ReceiveKeeps
<1>5. ASSUME NEW q \in Requests, requireApiKey(q) PROVE IInv'
  BY <1>5, AuthKeeps
<1>6. ASSUME NEW q \in Requests, Hit(q) PROVE IInv'
  BY <1>6, HitKeeps
<1>7. ASSUME NEW q \in Requests, HitUnanswered(q) PROVE IInv'
  BY <1>7, HitUnansweredKeeps
<1>8. ASSUME NEW q \in Requests, FailOpen(q) PROVE IInv'
  BY <1>8, FailOpenKeeps
<1>9. ASSUME NEW q \in Requests, SkipLimit(q) PROVE IInv'
  BY <1>9, SkipLimitKeeps
<1>10. CASE UNCHANGED vars
  <2>1. UNCHANGED <<counters, history, redis, request>>
    BY <1>10 DEF vars
  <2>2. RequestsOK' /\ redis' \in {"ready", "down"}
    BY <2>1, InvHasRequests DEF IInv, TypeOK, RequestsOK, Authenticated
  <2> QED
    BY <2>1, <2>2, RequestStepKeeps
<1> QED
  BY <1>1, <1>2, <1>3, <1>4, <1>5, <1>6, <1>7, <1>8, <1>9, <1>10 DEF Next

THEOREM Invariance == Spec => []IInv
BY InitEstablishes, NextPreserves, PTL DEF Spec

\* Counters stay within one above their limit and expire within a window, and
\* no counter above one is without an expiry.
THEOREM TypeCorrect == Spec => []TypeOK
BY Invariance, PTL DEF IInv

\* rateLimit.ts: whatever the limit and the window, and however hits, expiries,
\* lost answers and resent commands fall, no stretch as long as a window sees
\* more than twice the limit counted and let through.
THEOREM NeverMoreThanTwice == Spec => []AtMostTwice
<1>1. IInv => AtMostTwice
  <2> SUFFICES ASSUME IInv PROVE AtMostTwice
    OBVIOUS
  <2>1. /\ Cardinality(InWindow) \in Nat /\ Cardinality(Before) \in Nat
        /\ Cardinality(passed) = Cardinality(InWindow) + Cardinality(Before)
    BY HitsAreSplit DEF IInv
  <2>2. Limit[watched[1]] \in Nat
    BY LimitsArePositive DEF IInv, TypeOK
  <2> QED
    BY <2>1, <2>2 DEF IInv, WindowIsCounted, BeforeIsOneWindow, WatchedLimit, AtMostTwice
<1> QED
  BY <1>1, Invariance, PTL

\* rateLimit.ts, limits.ts: who is refused has used up that limit, with hits of
\* its own, in the last window.
THEOREM RefusedForOwnHits == Spec => []OverOnlyWhenUsedUp
<1>1. IInv => OverOnlyWhenUsedUp
  <2> SUFFICES ASSUME IInv, count[watched] > Limit[watched[1]], ~stray
               PROVE  Cardinality(passed) >= Limit[watched[1]]
    BY DEF OverOnlyWhenUsedUp, Over
  <2>1. /\ Cardinality(InWindow) \in Nat /\ Cardinality(Before) \in Nat
        /\ Cardinality(passed) = Cardinality(InWindow) + Cardinality(Before)
    BY HitsAreSplit DEF IInv
  <2>2. Limit[watched[1]] \in Nat /\ count[watched] \in Nat
    BY LimitsArePositive DEF IInv, TypeOK
  <2> QED
    BY <2>1, <2>2 DEF IInv, WindowIsCounted, WatchedLimit
<1> QED
  BY <1>1, Invariance, PTL

\* rateLimit.ts: the time a refusal names is kept, for any length of tick.
THEOREM RetryAfterIsKept == Spec => []RetryAfterIsTrue
BY Invariance, PTL DEF IInv
=============================================================================
