----------------------------- MODULE PageProofs -----------------------------
(***************************************************************************)
(* Theorems about the page: Dashboard, for any keys, monitors, calls and    *)
(* sockets, and LiveStatus, for any monitors, runs, calls and results.      *)
(***************************************************************************)
EXTENDS Dashboard, LiveStatus, SequenceTheorems, TLAPS

-----------------------------------------------------------------------------
(***************************************************************************)
(* Dashboard.                                                               *)
(*                                                                          *)
(* ChartIsOfSelected is inductive next to the types.  SessionsAreSeparate   *)
(* is not: what a page shows next depends on the calls in flight, so the    *)
(* invariant says whose they are (CallsOfSession), and that a start() that  *)
(* is still waiting is the only thing going on (StartIsAlone); and when     *)
(* signed out nothing counts as drawn (OwnList).                            *)
(***************************************************************************)
\* A list is only asked for at a start by somebody who has typed a key.
StartHasKey == \A c \in Calls : call[c] # None /\ call[c].of = "start" => call[c].key \in Keys

TypeInv == TypeOK /\ StartHasKey

\* The chart never needs a case distinction on monitors outside of AllMonitors.
LEMMA OwnMonitors == \A k \in Keys : MonitorsOf[k] \subseteq AllMonitors
BY DEF AllMonitors

\* A page starts signed out, with nothing asked.
LEMMA InitTypes == Init => TypeInv
BY DashboardAssumptions DEF Init, TypeInv, TypeOK, StartHasKey

\* Asking fills the place of one call, with the session's key of the next state.
LEMMA AskTypes ==
    ASSUME TypeInv, NEW c \in Calls, NEW of \in {"start", "connect", "select", "checks"},
           NEW m \in AllMonitors \union {None}, Ask(c, of, m), key' \in Keys \union {None},
           of = "start" => key' \in Keys
    PROVE  call' \in [Calls -> Asked \union {None}] /\ StartHasKey'
<1> DEFINE new == [of |-> of, key |-> key', monitor |-> m]
<1>1. new \in Asked
  BY DEF Asked
<1>2. call' = [call EXCEPT ![c] = new]
  BY DEF Ask
<1>3. call' \in [Calls -> Asked \union {None}]
  BY <1>1, <1>2 DEF TypeInv, TypeOK
<1>4. new.of = of /\ new.key = key'
  OBVIOUS
<1> HIDE DEF new
<1>5. StartHasKey'
  BY <1>2, <1>4 DEF TypeInv, TypeOK, StartHasKey
<1> QED
  BY <1>3, <1>5

\* Ending a call leaves the others as they are.
LEMMA EndTypes ==
    ASSUME TypeInv, NEW c \in Calls, End(c)
    PROVE  call' \in [Calls -> Asked \union {None}] /\ StartHasKey'
BY DEF TypeInv, TypeOK, StartHasKey, End

\* What signing out does to the rest of the state.
LEMMA SignOutTypes ==
    ASSUME TypeInv, NEW caller, signOut(caller)
    PROVE  /\ key' = None /\ monitors' = {} /\ selected' = None /\ socket' = None
           /\ listed' \subseteq AllMonitors /\ chart' \subseteq AllMonitors
           /\ open' \in [Sockets -> Opened \union {None}]
           /\ unread' \in BOOLEAN /\ drawn' = {} /\ overlap' \in BOOLEAN
BY DEF TypeInv, TypeOK, signOut, Closed

\* Opening a socket makes it the page's.
LEMMA ConnectTypes ==
    ASSUME TypeInv, key # None, connectSocket
    PROVE  /\ socket' \in Sockets /\ open'[socket'] # None
           /\ open' \in [Sockets -> Opened \union {None}]
<1>1. PICK s \in Sockets : open' = [open EXCEPT ![s] = [token |-> key, on |-> FALSE]] /\ socket' = s
  BY DEF connectSocket
<1>2. [token |-> key, on |-> FALSE] \in Opened
  BY DEF TypeInv, TypeOK, Opened
<1> QED
  BY <1>1, <1>2, DashboardAssumptions DEF TypeInv, TypeOK

\* A socket that goes on or off stays open with its key.
LEMMA SwitchTypes ==
    ASSUME TypeInv, NEW s \in Sockets, open[s] # None, NEW b \in BOOLEAN,
           open' = [open EXCEPT ![s].on = b]
    PROVE  /\ open' \in [Sockets -> Opened \union {None}]
           /\ \A t \in Sockets : open'[t] = None <=> open[t] = None
           /\ \A t \in Sockets : open[t] # None => open'[t].token = open[t].token
<1>1. open[s] \in Opened
  BY DEF TypeInv, TypeOK
<1>2. [open[s] EXCEPT !.on = b] \in Opened /\ [open[s] EXCEPT !.on = b].token = open[s].token
  BY <1>1 DEF Opened
<1>3. open' = [open EXCEPT ![s] = [open[s] EXCEPT !.on = b]]
  OBVIOUS
<1> QED
  BY <1>2, <1>3, DashboardAssumptions DEF TypeInv, TypeOK

\* The types are preserved by every step.
LEMMA TypeStep == TypeInv /\ [Next]_vars => TypeInv'
<1> SUFFICES ASSUME TypeInv, [Next]_vars PROVE TypeInv'
  OBVIOUS
<1> USE DashboardAssumptions, OwnMonitors
<1>1. ASSUME NEW c \in Calls, NEW k \in Keys, SubmitLogin(c, k) PROVE TypeInv'
  BY <1>1, AskTypes DEF TypeInv, TypeOK, SubmitLogin, view
<1>2. CASE ClickLogout
  <2>1. StartHasKey'
    BY <1>2 DEF ClickLogout, TypeInv, StartHasKey
  <2> QED
    BY <1>2, <2>1, SignOutTypes DEF TypeInv, TypeOK, ClickLogout
<1>3. ASSUME NEW c \in Calls, NEW m \in AllMonitors, select(c, m) PROVE TypeInv'
  <2>1. call' \in [Calls -> Asked \union {None}] /\ StartHasKey'
    <3>1. key' = key
      BY <1>3 DEF select, session
    <3>2. CASE m \in monitors
      BY <1>3, <3>1, <3>2, AskTypes DEF select, TypeInv, TypeOK
    <3>3. CASE m \notin monitors
      BY <1>3, <3>1, <3>3 DEF select, TypeInv, TypeOK, StartHasKey
    <3> QED BY <3>2, <3>3
  <2> QED
    BY <1>3, <2>1 DEF TypeInv, TypeOK, select, session
<1>4. ASSUME NEW c \in Calls, StartAnswered(c) PROVE TypeInv'
  <2>1. call' \in [Calls -> Asked \union {None}] /\ StartHasKey'
    BY <1>4, EndTypes DEF StartAnswered, EndStart
  <2>2. call[c].key \in Keys
    BY <1>4 DEF TypeInv, StartHasKey, StartAnswered
  <2>3. /\ monitors' \subseteq AllMonitors /\ listed' \subseteq AllMonitors
        /\ drawn' \subseteq {"list", "chart"}
    BY <1>4, <2>2 DEF StartAnswered, ShowList, TypeInv, TypeOK
  <2>4. /\ open' \in [Sockets -> Opened \union {None}] /\ socket' \in Sockets \union {None}
        /\ socket' # None => key # None /\ open'[socket'] # None
    BY <1>4, ConnectTypes DEF StartAnswered, EndStart, SignedIn, TypeInv, TypeOK
  <2> QED
    BY <1>4, <2>1, <2>3, <2>4 DEF TypeInv, TypeOK, StartAnswered, EndStart
<1>5. ASSUME NEW c \in Calls, ConnectAnswered(c) PROVE TypeInv'
  <2>1. call' \in [Calls -> Asked \union {None}] /\ StartHasKey'
    <3>1. key' = key /\ selected \in AllMonitors \union {None}
      BY <1>5 DEF ConnectAnswered, session, TypeInv, TypeOK
    <3> QED
      BY <1>5, <3>1, EndTypes, AskTypes DEF ConnectAnswered, TypeInv, TypeOK
  <2>2. call[c].key \in Keys
    BY <1>5 DEF ConnectAnswered, TypeInv, TypeOK, Asked
  <2> QED
    BY <1>5, <2>1, <2>2 DEF TypeInv, TypeOK, ConnectAnswered, ShowList, session
<1>6. ASSUME NEW c \in Calls, ChecksAnswered(c) PROVE TypeInv'
  <2>1. call' \in [Calls -> Asked \union {None}] /\ StartHasKey'
    BY <1>6, EndTypes DEF ChecksAnswered
  <2>2. call[c].monitor \in AllMonitors
    BY <1>6 DEF ChecksAnswered, TypeInv, TypeOK, Asked
  <2> QED
    BY <1>6, <2>1, <2>2 DEF TypeInv, TypeOK, ChecksAnswered, session
<1>7. ASSUME NEW c \in Calls, CallFails(c) PROVE TypeInv'
  <2>1. call' \in [Calls -> Asked \union {None}] /\ StartHasKey'
    BY <1>7, EndTypes DEF CallFails
  <2> QED
    BY <1>7, <2>1 DEF TypeInv, TypeOK, CallFails, view, session
<1>8. ASSUME NEW c \in Calls, Unauthorized(c) PROVE TypeInv'
  BY <1>8, EndTypes, SignOutTypes DEF TypeInv, TypeOK, Unauthorized
<1>9. ASSUME NEW s \in Sockets, NEW c \in Calls, Connects(s, c) PROVE TypeInv'
  <2>1. key' = key
    BY <1>9 DEF Connects, session
  <2>2. call' \in [Calls -> Asked \union {None}] /\ StartHasKey'
    BY <1>9, <2>1, AskTypes DEF Connects, TypeInv, TypeOK
  <2>3. open' \in [Sockets -> Opened \union {None}] /\ \A t \in Sockets : open'[t] = None <=> open[t] = None
    BY <1>9, SwitchTypes DEF Connects
  <2> QED
    BY <1>9, <2>2, <2>3 DEF TypeInv, TypeOK, Connects, view, session
<1>10. ASSUME NEW s \in Sockets, Disconnects(s) PROVE TypeInv'
  <2>1. open' \in [Sockets -> Opened \union {None}] /\ \A t \in Sockets : open'[t] = None <=> open[t] = None
    BY <1>10, SwitchTypes DEF Disconnects
  <2>2. StartHasKey'
    BY <1>10 DEF Disconnects, TypeInv, StartHasKey
  <2> QED
    BY <1>10, <2>1, <2>2 DEF TypeInv, TypeOK, Disconnects, view, session
<1>11. ASSUME NEW s \in Sockets, ConnectRefused(s) PROVE TypeInv'
  <2>1. StartHasKey'
    BY <1>11 DEF ConnectRefused, TypeInv, StartHasKey
  <2> QED
    BY <1>11, <2>1, SignOutTypes DEF TypeInv, TypeOK, ConnectRefused
<1>12. ASSUME NEW s \in Sockets, NEW m \in AllMonitors, OnCheck(s, m) PROVE TypeInv'
  BY <1>12 DEF TypeInv, TypeOK, StartHasKey, OnCheck, session
<1>13. CASE UNCHANGED vars
  BY <1>13 DEF TypeInv, TypeOK, StartHasKey, vars, view, session
<1> QED
  BY <1>1, <1>2, <1>3, <1>4, <1>5, <1>6, <1>7, <1>8, <1>9, <1>10, <1>11, <1>12, <1>13 DEF Next

\* The page's parts fit together in every reachable state: it refers to an open
\* socket or to none, and to none when it is signed out.
THEOREM TypeCorrect == Spec => []TypeOK
<1>1. TypeInv => TypeOK
  BY DEF TypeInv
<1> QED
  BY InitTypes, TypeStep, <1>1, PTL DEF Spec

-----------------------------------------------------------------------------
\* No step puts another monitor's checks under the selected monitor's name.
LEMMA ChartStep == ChartIsOfSelected /\ [Next]_vars => ChartIsOfSelected'
<1> SUFFICES ASSUME ChartIsOfSelected, [Next]_vars PROVE ChartIsOfSelected'
  OBVIOUS
<1> USE DEF ChartIsOfSelected
<1>1. ASSUME NEW c \in Calls, NEW k \in Keys, SubmitLogin(c, k) PROVE ChartIsOfSelected'
  BY <1>1 DEF SubmitLogin, view
<1>2. CASE ClickLogout
  BY <1>2 DEF ClickLogout, signOut
<1>3. ASSUME NEW c \in Calls, NEW m \in AllMonitors, select(c, m) PROVE ChartIsOfSelected'
  BY <1>3 DEF select
<1>4. ASSUME NEW c \in Calls, StartAnswered(c) PROVE ChartIsOfSelected'
  BY <1>4 DEF StartAnswered, EndStart
<1>5. ASSUME NEW c \in Calls, ConnectAnswered(c) PROVE ChartIsOfSelected'
  BY <1>5 DEF ConnectAnswered
<1>6. ASSUME NEW c \in Calls, ChecksAnswered(c) PROVE ChartIsOfSelected'
  BY <1>6 DEF ChecksAnswered, StillSelected
<1>7. ASSUME NEW c \in Calls, CallFails(c) PROVE ChartIsOfSelected'
  BY <1>7 DEF CallFails, view
<1>8. ASSUME NEW c \in Calls, Unauthorized(c) PROVE ChartIsOfSelected'
  BY <1>8 DEF Unauthorized, signOut
<1>9. ASSUME NEW s \in Sockets, NEW c \in Calls, Connects(s, c) PROVE ChartIsOfSelected'
  BY <1>9 DEF Connects, view
<1>10. ASSUME NEW s \in Sockets, Disconnects(s) PROVE ChartIsOfSelected'
  BY <1>10 DEF Disconnects, view
<1>11. ASSUME NEW s \in Sockets, ConnectRefused(s) PROVE ChartIsOfSelected'
  BY <1>11 DEF ConnectRefused, signOut
<1>12. ASSUME NEW s \in Sockets, NEW m \in AllMonitors, OnCheck(s, m) PROVE ChartIsOfSelected'
  BY <1>12 DEF OnCheck
<1>13. CASE UNCHANGED vars
  BY <1>13 DEF vars, view
<1> QED
  BY <1>1, <1>2, <1>3, <1>4, <1>5, <1>6, <1>7, <1>8, <1>9, <1>10, <1>11, <1>12, <1>13 DEF Next

\* However selections, answers and events overlap, the chart that is shown once
\* checks were read is the selected monitor's.
THEOREM ChartCorrect == Spec => []ChartIsOfSelected
<1>1. Init => ChartIsOfSelected
  BY DEF Init, ChartIsOfSelected
<1> QED
  BY <1>1, ChartStep, PTL DEF Spec

-----------------------------------------------------------------------------
\* The only socket that is open is the page's, with the session's key.
OneSocket == \A s \in Sockets : open[s] # None => s = socket /\ open[s].token = key

\* The monitors are the session's own, and so is what it has drawn.
OwnList ==
    /\ key # None =>
          /\ monitors \subseteq MonitorsOf[key]
          /\ "list" \in drawn => listed \subseteq MonitorsOf[key]
          /\ "chart" \in drawn => chart \subseteq MonitorsOf[key]
    /\ key = None => monitors = {} /\ drawn = {}

CallsOfSession == \A c \in Calls : call[c] # None => key # None /\ call[c].key = key

\* While start() waits for its list there is no list, no socket, no other call.
StartIsAlone ==
    \A c \in Calls : call[c] # None /\ call[c].of = "start" =>
        /\ socket = None /\ monitors = {}
        /\ \A d \in Calls : call[d] # None => d = c

SessionInv == ~overlap => OneSocket /\ OwnList /\ CallsOfSession /\ StartIsAlone

\* Asking within a session is a call of that session.
LEMMA AskInSession ==
    ASSUME TypeInv, NEW c \in Calls, call[c] = None \/ call[c].of # "start",
           NEW of \in {"connect", "select", "checks"}, NEW m, Ask(c, of, m),
           key # None, key' = key, CallsOfSession,
           \A d \in Calls : ~(call[d] # None /\ call[d].of = "start")
    PROVE  CallsOfSession' /\ StartIsAlone'
<1> DEFINE new == [of |-> of, key |-> key', monitor |-> m]
<1>1. call' = [call EXCEPT ![c] = new]
  BY DEF Ask
<1>2. new.of # "start" /\ new.key = key
  OBVIOUS
<1> HIDE DEF new
<1> QED
  BY <1>1, <1>2 DEF TypeInv, TypeOK, CallsOfSession, StartIsAlone

\* Signing out leaves a clean page behind, unless calls of the session survive.
LEMMA SignOutClean ==
    ASSUME TypeInv, SessionInv, NEW caller, signOut(caller), ~overlap'
    PROVE  OneSocket' /\ OwnList' /\ \A c \in Calls : c # caller => call[c] = None
<1>1. ~overlap /\ \A c \in Calls : c # caller => call[c] = None
  BY DEF signOut
<1>2. \A s \in Sockets : open'[s] = None
  BY <1>1, DashboardAssumptions DEF signOut, Closed, SessionInv, OneSocket, TypeInv, TypeOK
<1> QED
  BY <1>1, <1>2 DEF signOut, OneSocket, OwnList

\* No step mixes sessions.
LEMMA SessionStep == TypeInv /\ SessionInv /\ [Next]_vars => SessionInv'
<1> SUFFICES ASSUME TypeInv, SessionInv, [Next]_vars, ~overlap'
             PROVE  (OneSocket /\ OwnList /\ CallsOfSession /\ StartIsAlone)'
  BY DEF SessionInv
<1> DEFINE Separate == OneSocket /\ OwnList /\ CallsOfSession /\ StartIsAlone
<1> USE DashboardAssumptions
<1>1. ASSUME NEW c \in Calls, NEW k \in Keys, SubmitLogin(c, k) PROVE Separate'
  <2> DEFINE new == [of |-> "start", key |-> k, monitor |-> None]
  <2>1. Separate /\ key = None /\ key' = k /\ k # None /\ UNCHANGED <<view, socket, open>>
    BY <1>1 DEF SubmitLogin, SessionInv
  <2>2. call' = [call EXCEPT ![c] = new] /\ new.key = k
    BY <1>1 DEF SubmitLogin, Ask
  <2>3. socket = None /\ monitors = {} /\ \A d \in Calls : call[d] = None
    BY <2>1 DEF OwnList, CallsOfSession, TypeInv, TypeOK
  <2>4. \A s \in Sockets : open[s] = None
    BY <2>1, <2>3 DEF OneSocket
  <2> HIDE DEF new
  <2> QED
    BY <2>1, <2>2, <2>3, <2>4 DEF OneSocket, OwnList, CallsOfSession, StartIsAlone, view, TypeInv, TypeOK
<1>2. CASE ClickLogout
  <2>1. signOut(None) /\ UNCHANGED call
    BY <1>2 DEF ClickLogout
  <2> QED
    BY <2>1, SignOutClean DEF CallsOfSession, StartIsAlone
<1>3. ASSUME NEW c \in Calls, NEW m \in AllMonitors, select(c, m) PROVE Separate'
  <2>1. Separate /\ UNCHANGED <<session, open, monitors>> /\ key # None
    BY <1>3 DEF select, SessionInv, session
  <2>2. CASE m \in monitors
    <3>1. \A d \in Calls : ~(call[d] # None /\ call[d].of = "start")
      BY <2>1, <2>2 DEF StartIsAlone
    <3>2. (CallsOfSession /\ StartIsAlone)'
      BY <1>3, <2>1, <2>2, <3>1, AskInSession DEF select, session
    <3>3. OwnList'
      BY <1>3, <2>1 DEF select, OwnList, session
    <3> QED
      BY <2>1, <3>2, <3>3 DEF OneSocket, session
  <2>3. CASE m \notin monitors
    BY <1>3, <2>1, <2>3 DEF select, OneSocket, OwnList, CallsOfSession, StartIsAlone, session
  <2> QED BY <2>2, <2>3
<1>4. ASSUME NEW c \in Calls, StartAnswered(c) PROVE Separate'
  <2>1. Separate /\ key' = key /\ call[c] # None /\ call[c].key = key /\ key # None
    BY <1>4 DEF StartAnswered, EndStart, SessionInv, CallsOfSession
  <2>2. socket = None /\ \A d \in Calls : d # c => call[d] = None
    BY <1>4, <2>1 DEF StartAnswered, StartIsAlone
  <2>3. \A d \in Calls : call'[d] = None
    BY <1>4, <2>2 DEF StartAnswered, EndStart, End, TypeInv, TypeOK
  <2>4. PICK s \in Sockets : open' = [open EXCEPT ![s] = [token |-> key, on |-> FALSE]] /\ socket' = s
    BY <1>4, <2>1 DEF StartAnswered, EndStart, SignedIn, connectSocket
  <2>5. OneSocket'
    BY <2>1, <2>2, <2>4 DEF OneSocket, TypeInv, TypeOK
  <2>6. OwnList'
    BY <1>4, <2>1 DEF StartAnswered, EndStart, ShowList, OwnList
  <2> QED
    BY <2>3, <2>5, <2>6 DEF CallsOfSession, StartIsAlone
<1>5. ASSUME NEW c \in Calls, ConnectAnswered(c) PROVE Separate'
  <2>1. Separate /\ UNCHANGED <<session, open>> /\ call[c] # None /\ call[c].of = "connect"
    BY <1>5 DEF ConnectAnswered, SessionInv, session
  <2>2. key # None /\ call[c].key = key
    BY <2>1 DEF CallsOfSession
  <2>3. \A d \in Calls : ~(call[d] # None /\ call[d].of = "start")
    BY <2>1 DEF StartIsAlone
  <2>4. OneSocket' /\ OwnList'
    BY <1>5, <2>1, <2>2 DEF ConnectAnswered, ShowList, OneSocket, OwnList, session
  <2>5. CallsOfSession' /\ StartIsAlone'
    <3>1. CASE End(c)
      BY <2>1, <2>3, <3>1 DEF End, CallsOfSession, StartIsAlone, session, TypeInv, TypeOK
    <3>2. CASE Ask(c, "checks", selected)
      BY <2>1, <2>2, <2>3, <3>2, AskInSession DEF session
    <3> QED BY <1>5, <3>1, <3>2 DEF ConnectAnswered
  <2> QED BY <2>4, <2>5
<1>6. ASSUME NEW c \in Calls, ChecksAnswered(c) \/ CallFails(c) PROVE Separate'
  <2>1. Separate /\ UNCHANGED <<session, open, monitors>> /\ End(c) /\ call[c] # None /\ call[c].of # "start"
    BY <1>6 DEF ChecksAnswered, CallFails, SessionInv, session, view
  <2>2. OwnList'
    <3>1. CASE CallFails(c)
      BY <2>1, <3>1 DEF CallFails, OwnList, view, session
    <3>2. CASE ChecksAnswered(c)
      <4>1. call[c].monitor \in MonitorsOf[key] /\ key # None /\ listed' = listed
        BY <2>1, <3>2 DEF ChecksAnswered, CallsOfSession
      <4>2. \/ chart' = chart /\ drawn' = drawn
            \/ chart' = {call[c].monitor} /\ drawn' = drawn \union {"chart"}
        BY <3>2 DEF ChecksAnswered
      <4> QED
        BY <2>1, <4>1, <4>2 DEF OwnList, session
    <3> QED BY <1>6, <3>1, <3>2
  <2> QED
    BY <2>1, <2>2 DEF End, OneSocket, CallsOfSession, StartIsAlone, session, TypeInv, TypeOK
<1>8. ASSUME NEW c \in Calls, Unauthorized(c) PROVE Separate'
  <2>1. signOut(c) /\ End(c)
    BY <1>8 DEF Unauthorized
  <2>2. OneSocket' /\ OwnList' /\ \A d \in Calls : d # c => call[d] = None
    BY <2>1, SignOutClean
  <2>3. \A d \in Calls : call'[d] = None
    BY <2>1, <2>2 DEF End, TypeInv, TypeOK
  <2> QED
    BY <2>2, <2>3 DEF CallsOfSession, StartIsAlone
<1>9. ASSUME NEW s \in Sockets, NEW c \in Calls, Connects(s, c) PROVE Separate'
  <2>1. Separate /\ UNCHANGED <<session, view>> /\ open[s] # None /\ call[c] = None
    BY <1>9 DEF Connects, SessionInv, session
  <2>2. s = socket /\ key # None
    BY <2>1 DEF OneSocket, TypeInv, TypeOK
  <2>3. \A d \in Calls : ~(call[d] # None /\ call[d].of = "start")
    BY <2>1, <2>2 DEF StartIsAlone
  <2>4. (CallsOfSession /\ StartIsAlone)'
    BY <1>9, <2>1, <2>2, <2>3, AskInSession DEF Connects, session
  <2>5. OneSocket'
    BY <1>9, <2>1, SwitchTypes DEF Connects, OneSocket, session
  <2> QED
    BY <2>1, <2>4, <2>5 DEF OwnList, session, view
<1>10. ASSUME NEW s \in Sockets, Disconnects(s) PROVE Separate'
  <2>1. Separate /\ UNCHANGED <<session, view, call>>
    BY <1>10 DEF Disconnects, SessionInv, session
  <2>2. OneSocket'
    BY <1>10, <2>1, SwitchTypes DEF Disconnects, OneSocket, session
  <2> QED
    BY <2>1, <2>2 DEF OwnList, CallsOfSession, StartIsAlone, session, view
<1>11. ASSUME NEW s \in Sockets, ConnectRefused(s) PROVE Separate'
  <2>1. signOut(None) /\ UNCHANGED call
    BY <1>11 DEF ConnectRefused
  <2> QED
    BY <2>1, SignOutClean DEF CallsOfSession, StartIsAlone
<1>12. ASSUME NEW s \in Sockets, NEW m \in AllMonitors, OnCheck(s, m) PROVE Separate'
  BY <1>12 DEF OnCheck, SessionInv, OneSocket, OwnList, CallsOfSession, StartIsAlone, session
<1>13. CASE UNCHANGED vars
  BY <1>13 DEF SessionInv, OneSocket, OwnList, CallsOfSession, StartIsAlone, vars, view, session
<1> QED
  BY <1>1, <1>2, <1>3, <1>4, <1>5, <1>6, <1>8, <1>9, <1>10, <1>11, <1>12, <1>13 DEF Next

\* Unless a session ended with requests in flight, for any number of keys,
\* requests and sockets: a session hears its own socket alone, holds no monitor
\* of another account, and neither lists nor charts one after it has drawn the
\* list or the chart itself.
THEOREM SessionsCorrect == Spec => []SessionsAreSeparate
<1>1. Init => SessionInv
  BY DEF Init, SessionInv, OneSocket, OwnList, CallsOfSession, StartIsAlone
<1>2. TypeInv /\ SessionInv => SessionsAreSeparate
  BY DEF SessionInv, OneSocket, OwnList, SessionsAreSeparate
<1> QED
  BY InitTypes, TypeStep, SessionStep, <1>1, <1>2, PTL DEF Spec

-----------------------------------------------------------------------------
(***************************************************************************)
(* LiveStatus.                                                              *)
(*                                                                          *)
(* StaleIsExplained speaks of a page at rest.  The inductive invariant says *)
(* of every connected page that each shown status which is behind, and that *)
(* nothing explains, will be put right by an event that is on its way       *)
(* (IsOnItsWay) or by the list the page waits for (WillCatchUp), and that   *)
(* no late list can bring an older one back (NoneIsBehind).                 *)
(***************************************************************************)
Event == [monitor : Monitors, status : Status]

UnderWay == {downlink[i] : i \in DOMAIN downlink}
Pending == {run[r] : r \in Runs} \ {Nil}
OnTheWay == Pending \union UnderWay

Answered(l) == load[l] \notin {Nil, Awaited}
Answers == {load[l] : l \in {k \in Loads : Answered(k)}}

\* Nothing that is remembered of a monitor is newer than its row.
RememberedIsPast ==
    /\ \A list \in Answers \union {shown}, m \in Monitors :
          list[m] # Nil /\ Exists(m) => list[m] <= row[m]
    /\ \A e \in OnTheWay : Exists(e.monitor) => e.status <= row[e.monitor]

\* Monitors are deleted once and for all, and nothing is remembered of those to come.
OnlyCreatedIsKnown ==
    /\ \A m \in deleted : ~Exists(m)
    /\ \A m \in Monitors \ deleted : ~Exists(m) =>
          /\ \A list \in Answers \union {shown} : list[m] = Nil
          /\ \A e \in OnTheWay : e.monitor # m

IsOnItsWay(m) == [monitor |-> m, status |-> row[m]] \in OnTheWay

\* The status shown is right, will be, or something explains why it is not.
Covered(m) == shown[m] = row[m] \/ m \in excused \/ IsOnItsWay(m) \/ failed

NoneIsBehind(m) == \A list \in Answers : list[m] \in {Nil, row[m]}

CaughtUp(m) == Covered(m) \/ (shown[m] = Nil /\ NoneIsBehind(m))
WillCatchUp(m) ==
    Covered(m) \/ load[current][m] = row[m] \/ (load[current][m] = Nil /\ NoneIsBehind(m))

CatchesUp ==
    connection = "on" =>
        \A m \in Monitors : Exists(m) =>
            /\ current = Nil => CaughtUp(m)
            /\ current # Nil /\ Answered(current) => WillCatchUp(m)

LSInv ==
    /\ LSTypeOK
    /\ RememberedIsPast
    /\ OnlyCreatedIsKnown
    /\ JoinedWhatItShows
    /\ CatchesUp

\* The versions of a row, a list or an event are numbers, and Nil is none.
LEMMA VersionsAreNumbers ==
    ASSUME LSTypeOK
    PROVE  /\ \A n \in Status : n \in Nat /\ n # Nil
           /\ \A list \in Answers \union {shown, row} : list \in [Monitors -> Status \union {Nil}]
           /\ \A e \in OnTheWay : e \in Event /\ e.monitor \in Monitors /\ e.status \in Status
           /\ \A l \in Loads : Answered(l) => load[l] \in Answers
<1>1. \A n \in Status : n \in Nat /\ n # Nil
  BY LiveAssumptions DEF Status
<1>2. \A list \in Answers \union {shown, row} : list \in [Monitors -> Status \union {Nil}]
  BY DEF LSTypeOK, Answers, Answered
<1>3. ASSUME NEW e \in OnTheWay PROVE e \in Event
  <2>1. CASE e \in Pending
    BY <2>1 DEF LSTypeOK, Pending, Event
  <2>2. CASE e \in UnderWay
    <3>1. downlink \in Seq(Event)
      BY DEF LSTypeOK, Event
    <3> QED
      BY <2>2, <3>1, ElementOfSeq, LenProperties DEF UnderWay
  <2> QED
    BY <1>3, <2>1, <2>2 DEF OnTheWay
<1>4. \A e \in Event : e.monitor \in Monitors /\ e.status \in Status
  BY DEF Event
<1>5. \A l \in Loads : Answered(l) => load[l] \in Answers
  BY DEF Answers
<1> QED
  BY <1>1, <1>2, <1>3, <1>4, <1>5

\* An event that is sent joins those under way.
LEMMA SendingAdds ==
    ASSUME downlink \in Seq(Event), NEW e \in Event, downlink' = Append(downlink, e)
    PROVE  downlink' \in Seq(Event) /\ UnderWay' = UnderWay \union {e}
<1>1. /\ downlink' \in Seq(Event) /\ Len(downlink) \in Nat /\ Len(downlink') = Len(downlink) + 1
      /\ DOMAIN downlink = 1 .. Len(downlink) /\ DOMAIN downlink' = 1 .. Len(downlink')
      /\ \A i \in 1 .. Len(downlink) : downlink'[i] = downlink[i]
      /\ downlink'[Len(downlink) + 1] = e
  BY LenProperties
<1> QED
  BY <1>1 DEF UnderWay

\* An event that is received was under way, and the others still are.
LEMMA ReceivingTakes ==
    ASSUME downlink \in Seq(Event), downlink # <<>>, downlink' = Tail(downlink)
    PROVE  /\ downlink' \in Seq(Event)
           /\ Head(downlink) \in UnderWay
           /\ UnderWay' \subseteq UnderWay /\ UnderWay \subseteq UnderWay' \union {Head(downlink)}
<1>1. /\ downlink' \in Seq(Event) /\ Len(downlink) \in Nat \ {0} /\ Len(downlink') = Len(downlink) - 1
      /\ DOMAIN downlink = 1 .. Len(downlink) /\ DOMAIN downlink' = 1 .. Len(downlink')
      /\ \A i \in 1 .. Len(downlink') : downlink'[i] = downlink[i + 1]
      /\ Head(downlink) = downlink[1]
  BY LenProperties, HeadTailProperties, EmptySeq
<1>2. UnderWay' \subseteq UnderWay
  BY <1>1 DEF UnderWay
<1>3. ASSUME NEW i \in 1 .. Len(downlink), i # 1 PROVE downlink[i] \in UnderWay'
  <2>1. i - 1 \in 1 .. Len(downlink') /\ downlink'[i - 1] = downlink[i]
    BY <1>1, <1>3
  <2> QED
    BY <1>1, <2>1 DEF UnderWay
<1> QED
  BY <1>1, <1>2, <1>3 DEF UnderWay

\* What explained a difference explains it as long as there is one.
LEMMA ExcuseLasts ==
    ASSUME NEW lost, lost \subseteq Monitors, excused \subseteq Monitors, Excuse(lost)
    PROVE  /\ excused' \subseteq Monitors
           /\ \A m \in excused \union lost : m \in excused' \/ shown'[m] = row'[m]
BY DEF Excuse

-----------------------------------------------------------------------------
(***************************************************************************)
(* What each part of the invariant needs of a step.                         *)
(***************************************************************************)

\* Lists and events that were there before a step are remembered as they were.
LEMMA NothingNewIsPast ==
    ASSUME LSTypeOK, RememberedIsPast, OnlyCreatedIsKnown,
           Answers' \union {shown'} \subseteq Answers \union {shown, row}, OnTheWay' \subseteq OnTheWay,
           UNCHANGED <<row, deleted>>
    PROVE  RememberedIsPast' /\ OnlyCreatedIsKnown'
<1>1. \A list \in Answers \union {shown, row}, m \in Monitors :
          list[m] # Nil /\ Exists(m) => list[m] <= row[m]
  BY VersionsAreNumbers DEF RememberedIsPast, LSTypeOK
<1>2. \A m \in Monitors \ deleted : ~Exists(m) => \A list \in Answers \union {shown, row} : list[m] = Nil
  BY DEF OnlyCreatedIsKnown, Exists
<1>3. RememberedIsPast'
  BY <1>1 DEF RememberedIsPast, Exists
<1>4. OnlyCreatedIsKnown'
  BY <1>2 DEF OnlyCreatedIsKnown, Exists
<1> QED
  BY <1>3, <1>4

\* A page that was catching up with a monitor still is, while its row, the call
\* it waits for and the lists read stay, and an uncovered one is not listed anew.
LEMMA CatchingUpStays ==
    ASSUME NEW m \in Monitors, UNCHANGED <<row[m], load, current>>,
           Covered(m) => Covered(m)', shown[m] = Nil => shown'[m] = Nil \/ Covered(m)'
    PROVE  /\ CaughtUp(m) => CaughtUp(m)'
           /\ WillCatchUp(m) => WillCatchUp(m)'
<1>1. Answers' = Answers /\ (NoneIsBehind(m) <=> NoneIsBehind(m)')
  BY DEF Answers, Answered, NoneIsBehind
<1> QED
  BY <1>1 DEF CaughtUp, WillCatchUp

\* It is not concerned by a step that touches nothing it depends on.
LEMMA QuietKeeps ==
    ASSUME LSInv, LSTypeOK', JoinedWhatItShows',
           UNCHANGED <<row, deleted, run, downlink, shown, load, current, failed, excused>>,
           connection' = "on" => connection = "on"
    PROVE  LSInv'
<1>1. UNCHANGED <<Answers, OnTheWay>>
  BY DEF Answers, Answered, OnTheWay, Pending, UnderWay
<1>2. RememberedIsPast' /\ OnlyCreatedIsKnown'
  BY <1>1, NothingNewIsPast DEF LSInv
<1>3. \A m \in Monitors : Covered(m) => Covered(m)'
  BY <1>1 DEF Covered, IsOnItsWay
<1>4. CatchesUp'
  BY <1>3, CatchingUpStays DEF LSInv, CatchesUp, Exists, Answered
<1> QED
  BY <1>2, <1>4 DEF LSInv

-----------------------------------------------------------------------------
(***************************************************************************)
(* One lemma per action.                                                    *)
(***************************************************************************)
LEMMA LSInitEstablishes == LSInit => LSInv
<1> SUFFICES ASSUME LSInit PROVE LSInv
  OBVIOUS
<1>1. 0 \in Status /\ Nil # Awaited
  BY LiveAssumptions DEF Status
<1>2. LSTypeOK
  BY <1>1, EmptySeq DEF LSInit, LSTypeOK
<1>3. Answers = {} /\ OnTheWay = {} /\ shown = [m \in Monitors |-> Nil]
  BY <1>1 DEF LSInit, Answers, Answered, OnTheWay, Pending, UnderWay
<1> QED
  BY <1>2, <1>3
     DEF LSInit, LSInv, RememberedIsPast, OnlyCreatedIsKnown, JoinedWhatItShows, Connected, CatchesUp

LEMMA CreateKeeps == ASSUME LSInv, NEW m \in Monitors, createMonitor(m) PROVE LSInv'
<1> USE DEF createMonitor, link, page
<1>1. LSTypeOK /\ row' = [row EXCEPT ![m] = 0] /\ row \in [Monitors -> Status \union {Nil}] /\ 0 \in Status
  BY LiveAssumptions DEF LSInv, LSTypeOK, Status
<1>2. UNCHANGED <<Answers, OnTheWay, shown, deleted>>
  BY DEF Answers, Answered, OnTheWay, Pending, UnderWay
<1>3. excused' \subseteq Monitors /\ \A n \in excused : n \in excused' \/ shown'[n] = row'[n]
  BY <1>1, ExcuseLasts DEF LSTypeOK
<1>4. LSTypeOK'
  BY <1>1, <1>3 DEF LSTypeOK
<1>5. /\ \A list \in Answers \union {shown} : list[m] = Nil
      /\ \A e \in OnTheWay : e.monitor # m
      /\ row[m] = Nil /\ row'[m] = 0 /\ 0 # Nil
      /\ \A n \in Monitors : n # m => row'[n] = row[n]
  BY <1>1, VersionsAreNumbers DEF LSInv, OnlyCreatedIsKnown, Exists
<1>6. RememberedIsPast'
  BY <1>1, <1>2, <1>5, VersionsAreNumbers DEF LSInv, RememberedIsPast, Exists
<1>7. OnlyCreatedIsKnown'
  BY <1>1, <1>2, <1>5 DEF LSInv, OnlyCreatedIsKnown, Exists, LSTypeOK
<1>8. JoinedWhatItShows'
  BY <1>2, <1>5 DEF LSInv, JoinedWhatItShows, Connected, Exists
<1>9. ASSUME NEW n \in Monitors, n # m
      PROVE  (CaughtUp(n) => CaughtUp(n)') /\ (WillCatchUp(n) => WillCatchUp(n)')
  <2>1. row'[n] = row[n] /\ UNCHANGED <<load, current, failed, shown, OnTheWay>>
    BY <1>2, <1>5, <1>9
  <2>2. Covered(n) => Covered(n)'
    BY <1>3, <2>1 DEF Covered, IsOnItsWay
  <2> QED
    BY <2>1, <2>2, CatchingUpStays
<1>10. NoneIsBehind(m)' /\ shown'[m] = Nil /\ (current # Nil /\ Answered(current) => load[current][m] = Nil)
  BY <1>1, <1>2, <1>5, VersionsAreNumbers DEF NoneIsBehind, LSTypeOK
<1>11. CatchesUp'
  <2>1. SUFFICES ASSUME connection = "on", NEW n \in Monitors, Exists(n)'
                 PROVE  /\ current = Nil => CaughtUp(n)'
                        /\ current # Nil /\ Answered(current) => WillCatchUp(n)'
    BY DEF CatchesUp, Answered
  <2>2. CASE n = m
    BY <1>10, <2>2 DEF CaughtUp, WillCatchUp
  <2>3. CASE n # m
    BY <1>5, <1>9, <2>1, <2>3 DEF LSInv, CatchesUp, Exists
  <2> QED
    BY <2>2, <2>3
<1> QED
  BY <1>4, <1>6, <1>7, <1>8, <1>11 DEF LSInv

LEMMA DeleteKeeps == ASSUME LSInv, NEW m \in Monitors, deleteMonitor(m) PROVE LSInv'
<1> USE DEF deleteMonitor, link, page
<1>1. LSTypeOK /\ row' = [row EXCEPT ![m] = Nil] /\ row \in [Monitors -> Status \union {Nil}]
  BY DEF LSInv, LSTypeOK
<1>2. UNCHANGED <<Answers, OnTheWay, shown>> /\ deleted' = deleted \union {m}
  BY DEF Answers, Answered, OnTheWay, Pending, UnderWay
<1>3. excused' \subseteq Monitors /\ \A n \in excused : n \in excused' \/ shown'[n] = row'[n]
  BY <1>1, ExcuseLasts DEF LSTypeOK
<1>4. LSTypeOK'
  BY <1>1, <1>2, <1>3 DEF LSTypeOK
<1>5. ~Exists(m)' /\ \A n \in Monitors : n # m => row'[n] = row[n]
  BY <1>1 DEF Exists
<1>6. RememberedIsPast'
  BY <1>1, <1>2, <1>5, VersionsAreNumbers DEF LSInv, RememberedIsPast, Exists
<1>7. OnlyCreatedIsKnown'
  BY <1>1, <1>2, <1>5 DEF LSInv, OnlyCreatedIsKnown, Exists, LSTypeOK
<1>8. JoinedWhatItShows'
  BY <1>2, <1>5 DEF LSInv, JoinedWhatItShows, Connected, Exists
<1>9. ASSUME NEW n \in Monitors, n # m
      PROVE  (CaughtUp(n) => CaughtUp(n)') /\ (WillCatchUp(n) => WillCatchUp(n)')
  <2>1. row'[n] = row[n] /\ UNCHANGED <<load, current, failed, shown, OnTheWay>>
    BY <1>2, <1>5, <1>9
  <2>2. Covered(n) => Covered(n)'
    BY <1>3, <2>1 DEF Covered, IsOnItsWay
  <2> QED
    BY <2>1, <2>2, CatchingUpStays
<1>10. CatchesUp'
  BY <1>5, <1>9 DEF LSInv, CatchesUp, Exists, Answered
<1> QED
  BY <1>4, <1>6, <1>7, <1>8, <1>10 DEF LSInv

\* The new version is on its way.
LEMMA RecordKeeps ==
    ASSUME LSInv, NEW r \in Runs, NEW m \in Monitors, Record(r, m) PROVE LSInv'
<1> USE DEF Record, link, page
<1> DEFINE new == [monitor |-> m, status |-> row'[m]]
<1>1. /\ LSTypeOK /\ row' = [row EXCEPT ![m] = @ + 1] /\ row \in [Monitors -> Status \union {Nil}]
      /\ run' = [run EXCEPT ![r] = new] /\ run[r] = Nil /\ row[m] # Nil
  BY DEF LSInv, LSTypeOK, Exists
<1>2. /\ row[m] \in Status /\ row'[m] = row[m] + 1 /\ row'[m] \in Status /\ row'[m] # Nil
      /\ row[m] \in Nat
      /\ \A n \in Monitors : n # m => row'[n] = row[n]
  BY <1>1, LiveAssumptions DEF Status
<1>3. new \in Event /\ new # Nil /\ run' \in [Runs -> [monitor : Monitors, status : Status] \union {Nil}]
  BY <1>1, <1>2, LiveAssumptions DEF Event, Status, LSTypeOK
<1> HIDE DEF new
<1>4. new.monitor = m /\ new.status = row'[m]
  BY DEF new
<1>5. UNCHANGED <<Answers, UnderWay, shown, deleted>> /\ OnTheWay' = OnTheWay \union {new}
  <2>1. Pending' = Pending \union {new}
    BY <1>1, <1>3 DEF Pending, LSTypeOK
  <2> QED
    BY <2>1 DEF Answers, Answered, OnTheWay, UnderWay
<1>6. excused' \subseteq Monitors /\ \A n \in excused : n \in excused' \/ shown'[n] = row'[n]
  BY <1>1, ExcuseLasts DEF LSTypeOK
<1>7. LSTypeOK'
  <2>1. row' \in [Monitors -> Status \union {Nil}]
    BY <1>1, <1>2
  <2> QED
    BY <1>1, <1>3, <1>6, <2>1 DEF LSTypeOK
<1>8. /\ \A n \in Monitors : Exists(n)' <=> Exists(n)
      /\ \A n \in Monitors : Exists(n) => row[n] \in Nat /\ row'[n] \in Nat /\ row[n] <= row'[n]
  BY <1>1, <1>2, VersionsAreNumbers DEF Exists
<1>9. RememberedIsPast'
  <2>1. ASSUME NEW list \in Answers \union {shown}, NEW n \in Monitors, list[n] # Nil, Exists(n)
        PROVE  list[n] <= row'[n]
    <3>1. list[n] \in Nat /\ list[n] <= row[n]
      BY <1>1, <2>1, VersionsAreNumbers DEF LSInv, RememberedIsPast
    <3> QED
      BY <1>8, <2>1, <3>1
  <2>2. ASSUME NEW e \in OnTheWay, Exists(e.monitor) PROVE e.status <= row'[e.monitor]
    <3>1. e.monitor \in Monitors /\ e.status \in Nat /\ e.status <= row[e.monitor]
      BY <1>1, <2>2, VersionsAreNumbers DEF LSInv, RememberedIsPast
    <3> QED
      BY <1>8, <2>2, <3>1
  <2>3. new.status <= row'[new.monitor]
    BY <1>2, <1>4, VersionsAreNumbers
  <2>4. \A e \in OnTheWay : e.monitor \in Monitors
    BY <1>1, VersionsAreNumbers
  <2> QED
    BY <1>4, <1>5, <1>8, <2>1, <2>2, <2>3, <2>4 DEF RememberedIsPast
<1>10. OnlyCreatedIsKnown'
  BY <1>1, <1>4, <1>5, <1>8 DEF LSInv, OnlyCreatedIsKnown, LSTypeOK, Exists
<1>11. JoinedWhatItShows'
  BY <1>5, <1>8 DEF LSInv, JoinedWhatItShows, Connected
<1>12. Covered(m)'
  <2>1. [monitor |-> m, status |-> row'[m]] \in OnTheWay'
    BY <1>5 DEF new
  <2> QED
    BY <2>1 DEF Covered, IsOnItsWay
<1>13. ASSUME NEW n \in Monitors, n # m
       PROVE  (CaughtUp(n) => CaughtUp(n)') /\ (WillCatchUp(n) => WillCatchUp(n)')
  <2>1. row'[n] = row[n] /\ UNCHANGED <<load, current, failed, shown>> /\ OnTheWay \subseteq OnTheWay'
    BY <1>2, <1>5, <1>13
  <2>2. Covered(n) => Covered(n)'
    BY <1>6, <2>1 DEF Covered, IsOnItsWay
  <2> QED
    BY <2>1, <2>2, CatchingUpStays
<1>14. CatchesUp'
  BY <1>8, <1>12, <1>13 DEF LSInv, CatchesUp, CaughtUp, WillCatchUp, Answered
<1> QED
  BY <1>7, <1>9, <1>10, <1>11, <1>14 DEF LSInv

\* What is published goes on to the page, or explains why the page is behind.
LEMMA PublishKeeps == ASSUME LSInv, NEW r \in Runs, publishEvent(r) PROVE LSInv'
<1> DEFINE e == run[r]
           lost == IF connection = "on" THEN {e.monitor} ELSE {}
<1>1. /\ LSTypeOK /\ run' = [run EXCEPT ![r] = Nil] /\ e # Nil
      /\ UNCHANGED <<row, deleted, bridge, connection, rooms, uplink, shown, load, current, failed>>
      /\ \/ Receives(e) /\ downlink' = Append(downlink, e) /\ Excuse({})
         \/ downlink' = downlink /\ Excuse(lost)
  BY DEF LSInv, publishEvent, page
<1>2. e \in Event /\ e.monitor \in Monitors /\ e.status \in Status /\ e \in OnTheWay /\ e \in Pending
  BY <1>1, VersionsAreNumbers DEF OnTheWay, Pending
<1>3. UnderWay' \subseteq UnderWay \union {e} /\ UnderWay \subseteq UnderWay' /\ downlink' \in Seq(Event)
      /\ (downlink' # downlink => connection = "on" /\ e \in UnderWay')
  <2>1. downlink \in Seq(Event) /\ (connection # "on" => rooms = {})
    BY <1>1 DEF LSTypeOK, Event
  <2>2. CASE Receives(e) /\ downlink' = Append(downlink, e)
    BY <1>2, <2>1, <2>2, SendingAdds DEF Receives
  <2>3. CASE downlink' = downlink
    BY <2>1, <2>3 DEF UnderWay
  <2> QED
    BY <1>1, <2>2, <2>3
<1>4. Pending' \subseteq Pending /\ Pending \subseteq Pending' \union {e}
  BY <1>1 DEF Pending, LSTypeOK
<1>5. OnTheWay' \subseteq OnTheWay /\ OnTheWay \subseteq OnTheWay' \union {e}
  BY <1>2, <1>3, <1>4 DEF OnTheWay
<1>6. Answers' = Answers
  BY <1>1 DEF Answers, Answered
<1>7. \/ e \in OnTheWay' /\ Excuse({})
      \/ Excuse(lost)
  <2>1. Receives(e) /\ downlink' = Append(downlink, e) => e \in UnderWay'
    BY <1>1, <1>2, SendingAdds DEF LSTypeOK, Event
  <2> QED
    BY <1>1, <2>1 DEF OnTheWay
<1>8. /\ excused' \subseteq Monitors
      /\ \A n \in excused : n \in excused' \/ shown'[n] = row'[n]
      /\ e \notin OnTheWay' /\ connection = "on" => e.monitor \in excused' \/ shown'[e.monitor] = row'[e.monitor]
  <2>1. lost \subseteq Monitors /\ excused \subseteq Monitors
    BY <1>1, <1>2 DEF LSTypeOK
  <2>2. CASE e \in OnTheWay' /\ Excuse({})
    BY <2>1, <2>2, ExcuseLasts
  <2>3. CASE Excuse(lost)
    BY <2>1, <2>3, ExcuseLasts
  <2> QED
    BY <1>7, <2>2, <2>3
<1>9. LSTypeOK'
  <2>1. run' \in [Runs -> [monitor : Monitors, status : Status] \union {Nil}]
    BY <1>1 DEF LSTypeOK
  <2>2. missed' \in [Monitors -> Status]
    BY <1>1, <1>2 DEF publishEvent, LSTypeOK
  <2> QED
    BY <1>1, <1>3, <1>8, <2>1, <2>2 DEF LSTypeOK, Event
<1>10. RememberedIsPast' /\ OnlyCreatedIsKnown'
  BY <1>1, <1>5, <1>6, NothingNewIsPast DEF LSInv
<1>11. JoinedWhatItShows'
  BY <1>1 DEF LSInv, JoinedWhatItShows, Connected, Exists
<1>12. ASSUME NEW n \in Monitors, connection = "on"
       PROVE  (CaughtUp(n) => CaughtUp(n)') /\ (WillCatchUp(n) => WillCatchUp(n)')
  <2>1. Covered(n) => Covered(n)'
    <3>1. IsOnItsWay(n) => IsOnItsWay(n)' \/ (e = [monitor |-> n, status |-> row[n]] /\ e \notin OnTheWay')
      BY <1>1, <1>5 DEF IsOnItsWay
    <3> QED
      BY <1>1, <1>8, <1>12, <3>1 DEF Covered
  <2> QED
    BY <1>1, <2>1, CatchingUpStays
<1>13. CatchesUp'
  BY <1>1, <1>12 DEF LSInv, CatchesUp, Exists, Answered
<1> QED
  BY <1>9, <1>10, <1>11, <1>13 DEF LSInv

LEMMA BridgeKeeps == ASSUME LSInv, BridgeToggles PROVE LSInv'
<1> USE DEF BridgeToggles, link, page
<1>1. LSTypeOK'
  BY DEF LSInv, LSTypeOK
<1>2. JoinedWhatItShows'
  BY DEF LSInv, JoinedWhatItShows, Connected, Exists
<1> QED
  BY <1>1, <1>2, QuietKeeps

\* A room that is not joined any more is that of a monitor that is gone.
LEMMA SubscribeKeeps == ASSUME LSInv, NEW m \in Monitors, OnSubscribe(m) PROVE LSInv'
<1> USE DEF OnSubscribe, server, page
<1>1. LSTypeOK'
  BY DEF LSInv, LSTypeOK
<1>2. JoinedWhatItShows'
  BY DEF LSInv, JoinedWhatItShows, Connected, Exists
<1> QED
  BY <1>1, <1>2, QuietKeeps

LEMMA DisconnectKeeps == ASSUME LSInv, Disconnect PROVE LSInv'
<1> USE DEF Disconnect, server
<1>1. LSTypeOK'
  BY EmptySeq DEF LSInv, LSTypeOK, RoomsAfterDisconnect
<1>2. Answers' = Answers /\ OnTheWay' \subseteq OnTheWay /\ shown' = shown
  BY DEF Answers, Answered, OnTheWay, Pending, UnderWay
<1>3. RememberedIsPast' /\ OnlyCreatedIsKnown'
  BY <1>2, NothingNewIsPast DEF LSInv
<1> QED
  BY <1>1, <1>3 DEF LSInv, JoinedWhatItShows, Connected, CatchesUp

\* A connection waits for its own call, which has not been answered yet.
LEMMA ConnectKeeps == ASSUME LSInv, NEW l \in Loads, Connect(l) PROVE LSInv'
<1> USE DEF Connect, OnConnect, server
<1>1. LSTypeOK /\ load' = [load EXCEPT ![l] = Awaited] /\ current' = l /\ load[l] = Nil
  BY DEF LSInv
<1>2. LSTypeOK'
  BY <1>1 DEF LSTypeOK
<1>3. l # Nil /\ load'[l] = Awaited
  BY <1>1, LiveAssumptions DEF LSTypeOK
<1>4. Answers' \subseteq Answers /\ OnTheWay' = OnTheWay /\ shown' = shown
  BY <1>1 DEF Answers, Answered, OnTheWay, Pending, UnderWay, LSTypeOK
<1>5. RememberedIsPast' /\ OnlyCreatedIsKnown'
  BY <1>1, <1>4, NothingNewIsPast DEF LSInv
<1>6. JoinedWhatItShows' /\ CatchesUp'
  BY <1>1, <1>3 DEF JoinedWhatItShows, Connected, CatchesUp, Answered
<1> QED
  BY <1>2, <1>5, <1>6 DEF LSInv

\* A list is as new as the rows when it is read.
LEMMA ListKeeps == ASSUME LSInv, NEW l \in Loads, listMonitors(l) PROVE LSInv'
<1> USE DEF listMonitors, server, link
<1>1. LSTypeOK /\ load' = [load EXCEPT ![l] = row] /\ load[l] = Awaited
  BY DEF LSInv
<1>2. LSTypeOK'
  BY <1>1 DEF LSTypeOK
<1>3. Answers' \subseteq Answers \union {row} /\ OnTheWay' = OnTheWay /\ shown' = shown
      /\ load'[l] = row /\ \A k \in Loads : k # l => load'[k] = load[k]
  BY <1>1 DEF Answers, Answered, OnTheWay, Pending, UnderWay, LSTypeOK
<1>4. RememberedIsPast' /\ OnlyCreatedIsKnown'
  BY <1>1, <1>3, NothingNewIsPast DEF LSInv
<1>5. JoinedWhatItShows'
  BY DEF LSInv, JoinedWhatItShows, Connected, Exists
<1>6. \A m \in Monitors : /\ Covered(m) => Covered(m)'
                          /\ NoneIsBehind(m) => NoneIsBehind(m)'
  BY <1>3 DEF Covered, IsOnItsWay, NoneIsBehind
<1>7. CatchesUp'
  <2>1. SUFFICES ASSUME connection = "on", NEW m \in Monitors, Exists(m)
                 PROVE  /\ current = Nil => CaughtUp(m)'
                        /\ current # Nil /\ Answered(current)' => WillCatchUp(m)'
    BY DEF CatchesUp, Exists
  <2>2. CASE current = Nil
    BY <1>3, <1>6, <2>1, <2>2 DEF LSInv, CatchesUp, CaughtUp
  <2>3. CASE current = l
    BY <1>1, <1>3, <2>3, LiveAssumptions DEF WillCatchUp
  <2>4. CASE current \notin {Nil, l}
    <3>1. load'[current] = load[current]
      BY <1>1, <1>3, <2>4 DEF LSTypeOK
    <3> QED
      BY <1>3, <1>6, <2>1, <2>4, <3>1 DEF LSInv, CatchesUp, WillCatchUp, Answered
  <2> QED
    BY <2>2, <2>3, <2>4
<1> QED
  BY <1>2, <1>4, <1>5, <1>7 DEF LSInv

\* A call that is over leaves no list behind, and no new one.
LEMMA LoadEnds ==
    ASSUME LSTypeOK, NEW l \in Loads, AfterLoad(l)
    PROVE  /\ Answers' \subseteq Answers /\ load'[l] = Nil
           /\ \A k \in Loads : k # l => load'[k] = load[k]
           /\ load' \in [Loads -> {Nil, Awaited} \union [Monitors -> Status \union {Nil}]]
           /\ current' = IF current = l THEN Nil ELSE current
           /\ current' \in Loads \union {Nil}
           /\ connection' \in {"none", "off", "on"} /\ connection' # "none"
           /\ connection' = "on" <=> connection = "on"
BY DEF AfterLoad, LSTypeOK, Answers, Answered

LEMMA LoadFailsKeeps == ASSUME LSInv, NEW l \in Loads, LoadFails(l) PROVE LSInv'
<1>1. /\ LSTypeOK /\ AfterLoad(l) /\ failed' = (failed \/ current = l)
      /\ UNCHANGED <<row, deleted, run, bridge, rooms, uplink, downlink, shown, missed, excused>>
  BY DEF LSInv, LoadFails, server
<1>2. /\ Answers' \subseteq Answers /\ load'[l] = Nil
      /\ \A k \in Loads : k # l => load'[k] = load[k]
      /\ current' = IF current = l THEN Nil ELSE current
      /\ connection' = "on" <=> connection = "on"
  BY <1>1, LoadEnds
<1>3. LSTypeOK'
  BY <1>1, LoadEnds DEF LSTypeOK
<1>4. OnTheWay' = OnTheWay
  BY <1>1 DEF OnTheWay, Pending, UnderWay
<1>5. RememberedIsPast' /\ OnlyCreatedIsKnown'
  BY <1>1, <1>2, <1>4, NothingNewIsPast DEF LSInv
<1>6. JoinedWhatItShows'
  BY <1>1, <1>2 DEF LSInv, JoinedWhatItShows, Connected, Exists
<1>7. \A m \in Monitors : /\ Covered(m) => Covered(m)'
                          /\ NoneIsBehind(m) => NoneIsBehind(m)'
                          /\ current = l => Covered(m)'
  BY <1>1, <1>2, <1>4 DEF Covered, IsOnItsWay, NoneIsBehind
<1>8. CatchesUp'
  <2>1. SUFFICES ASSUME connection = "on", current # l, NEW m \in Monitors, Exists(m)
                 PROVE  /\ current = Nil => CaughtUp(m)'
                        /\ current # Nil /\ Answered(current)' => WillCatchUp(m)'
    BY <1>1, <1>2, <1>7 DEF CatchesUp, Exists, CaughtUp, WillCatchUp, Answered
  <2>2. CASE current = Nil
    BY <1>1, <1>7, <2>1, <2>2 DEF LSInv, CatchesUp, CaughtUp
  <2>3. CASE current # Nil
    <3>1. current' = current /\ load'[current] = load[current]
      BY <1>1, <1>2, <2>1, <2>3 DEF LSTypeOK
    <3> QED
      BY <1>1, <1>7, <2>1, <2>3, <3>1 DEF LSInv, CatchesUp, WillCatchUp, Answered
  <2> QED
    BY <2>2, <2>3
<1> QED
  BY <1>3, <1>5, <1>6, <1>8 DEF LSInv

LEMMA ApplyKeeps == ASSUME LSInv, NEW l \in Loads, ApplyList(l) PROVE LSInv'
<1> DEFINE list == load[l]
<1>1. /\ LSTypeOK /\ AfterLoad(l) /\ Answered(l) /\ shown' = list /\ Excuse(Older(list))
      /\ uplink' = IF connection = "none" THEN {} ELSE uplink \union Subscribing(list)
      /\ UNCHANGED <<row, deleted, run, bridge, rooms, downlink, failed, missed>>
  BY DEF LSInv, ApplyList, Answered, server
<1>2. /\ Answers' \subseteq Answers /\ load'[l] = Nil
      /\ \A k \in Loads : k # l => load'[k] = load[k]
      /\ current' = IF current = l THEN Nil ELSE current
      /\ connection' = "on" <=> connection = "on"
  BY <1>1, LoadEnds
<1>3. list \in Answers /\ list \in [Monitors -> Status \union {Nil}]
  BY <1>1, VersionsAreNumbers
<1> HIDE DEF list
<1>4. Older(list) \subseteq Monitors /\ Subscribing(list) = Listed(list) /\ Listed(list) \subseteq Monitors
  BY DEF Older, Listed, Subscribing
<1>5. excused' \subseteq Monitors /\ \A m \in excused \union Older(list) : m \in excused' \/ shown'[m] = row'[m]
  BY <1>1, <1>4, ExcuseLasts DEF LSTypeOK
<1>6. LSTypeOK'
  <2>1. uplink' \subseteq Monitors
    BY <1>1, <1>4 DEF LSTypeOK
  <2> QED
    BY <1>1, <1>3, <1>5, <2>1, LoadEnds DEF LSTypeOK
<1>7. OnTheWay' = OnTheWay
  BY <1>1 DEF OnTheWay, Pending, UnderWay
<1>8. RememberedIsPast' /\ OnlyCreatedIsKnown'
  BY <1>1, <1>2, <1>3, <1>7, NothingNewIsPast DEF LSInv
\* Every monitor of the list is joined, or has just been asked for.
<1>9. JoinedWhatItShows'
  BY <1>1, <1>2, <1>4 DEF JoinedWhatItShows, Connected, Listed
\* A list that takes back what was right is an older one.
<1>10. ASSUME NEW m \in Monitors, Exists(m), Covered(m) PROVE Covered(m)'
  <2>1. CASE shown[m] = row[m]
    <3>1. list[m] = Nil \/ (list[m] \in Nat /\ row[m] \in Nat /\ list[m] <= row[m])
      BY <1>1, <1>3, <1>10, VersionsAreNumbers DEF LSInv, RememberedIsPast, Exists
    <3>2. list[m] = row[m] \/ m \in Older(list)
      BY <1>10, <2>1, <3>1 DEF Older, Listed, Exists
    <3> QED
      BY <1>1, <1>5, <3>2 DEF Covered
  <2>2. CASE shown[m] # row[m]
    BY <1>1, <1>5, <1>7, <1>10, <2>2 DEF Covered, IsOnItsWay
  <2> QED
    BY <2>1, <2>2
<1>11. ASSUME NEW m \in Monitors, list[m] = row[m] PROVE Covered(m)'
  BY <1>1, <1>11 DEF Covered
<1>12. \A m \in Monitors : NoneIsBehind(m) => NoneIsBehind(m)'
  BY <1>1, <1>2 DEF NoneIsBehind
<1>13. CatchesUp'
  <2>1. SUFFICES ASSUME connection = "on", NEW m \in Monitors, Exists(m)
                 PROVE  /\ current' = Nil => CaughtUp(m)'
                        /\ current' # Nil /\ Answered(current)' => WillCatchUp(m)'
    BY <1>1, <1>2 DEF CatchesUp, Exists
  <2>2. CASE current = l
    <3>1. WillCatchUp(m) /\ current' = Nil
      BY <1>1, <1>2, <2>1, <2>2, LiveAssumptions DEF LSInv, CatchesUp
    <3>2. Covered(m) \/ list[m] = row[m] \/ (list[m] = Nil /\ NoneIsBehind(m))
      BY <2>2, <3>1 DEF WillCatchUp, list
    <3> QED
      BY <1>1, <1>10, <1>11, <1>12, <2>1, <3>1, <3>2 DEF CaughtUp
  <2>3. CASE current = Nil
    <3>1. CaughtUp(m) /\ current' = Nil
      BY <1>2, <2>1, <2>3 DEF LSInv, CatchesUp
    <3>2. Covered(m) \/ (list[m] \in {Nil, row[m]} /\ NoneIsBehind(m))
      BY <1>3, <3>1 DEF CaughtUp, NoneIsBehind
    <3> QED
      BY <1>1, <1>10, <1>11, <1>12, <2>1, <3>1, <3>2 DEF CaughtUp
  <2>4. CASE current \notin {Nil, l}
    <3>1. current' = current /\ load'[current] = load[current] /\ row' = row
      BY <1>1, <1>2, <2>4 DEF LSTypeOK
    <3>2. Answered(current) => WillCatchUp(m)
      BY <2>1, <2>4 DEF LSInv, CatchesUp
    <3> QED
      BY <1>10, <1>12, <2>1, <2>4, <3>1, <3>2 DEF WillCatchUp, Answered
  <2> QED
    BY <2>2, <2>3, <2>4
<1> QED
  BY <1>6, <1>8, <1>9, <1>13 DEF LSInv

LEMMA OnCheckKeeps == ASSUME LSInv, OnCheckEvent PROVE LSInv'
<1> DEFINE e == Head(downlink)
           lost == {m \in {e.monitor} : shown[e.monitor] # Nil => e.status < shown[m]}
<1>1. /\ LSTypeOK /\ downlink # <<>> /\ downlink' = Tail(downlink) /\ Excuse(lost)
      /\ shown' = IF shown[e.monitor] # Nil THEN [shown EXCEPT ![e.monitor] = e.status] ELSE shown
      /\ UNCHANGED <<row, deleted, run, bridge, connection, rooms, uplink, load, current, failed, missed>>
  BY DEF LSInv, OnCheckEvent, server
<1>2. /\ downlink' \in Seq(Event) /\ e \in UnderWay
      /\ UnderWay' \subseteq UnderWay /\ UnderWay \subseteq UnderWay' \union {e}
  BY <1>1, ReceivingTakes DEF LSTypeOK, Event
<1>3. e \in OnTheWay /\ e \in Event /\ e.monitor \in Monitors /\ e.status \in Status /\ e.status \in Nat
  BY <1>1, <1>2, VersionsAreNumbers DEF OnTheWay
<1>4. OnTheWay' \subseteq OnTheWay /\ OnTheWay \subseteq OnTheWay' \union {e} /\ Answers' = Answers
  BY <1>1, <1>2 DEF OnTheWay, Pending, Answers, Answered
<1> HIDE DEF e
<1>5. excused' \subseteq Monitors /\ \A m \in excused \union lost : m \in excused' \/ shown'[m] = row'[m]
  BY <1>1, <1>3, ExcuseLasts DEF LSTypeOK
<1>6. shown' \in [Monitors -> Status \union {Nil}]
      /\ \A m \in Monitors : /\ shown'[m] = Nil <=> shown[m] = Nil
                             /\ m # e.monitor => shown'[m] = shown[m]
                             /\ m = e.monitor /\ shown[m] # Nil => shown'[m] = e.status
  <2>1. shown \in [Monitors -> Status \union {Nil}] /\ e.status # Nil
    BY <1>1, <1>3, VersionsAreNumbers DEF LSTypeOK
  <2> QED
    BY <1>1, <1>3, <2>1
<1>7. LSTypeOK'
  BY <1>1, <1>2, <1>5, <1>6 DEF LSTypeOK, Event
<1>8. RememberedIsPast'
  <2>1. ASSUME NEW m \in Monitors, shown'[m] # Nil, Exists(m) PROVE shown'[m] <= row[m]
    BY <1>1, <1>3, <1>6, <2>1 DEF LSInv, RememberedIsPast
  <2> QED
    BY <1>1, <1>4, <2>1 DEF LSInv, RememberedIsPast, Exists
<1>9. OnlyCreatedIsKnown'
  BY <1>1, <1>4, <1>6 DEF LSInv, OnlyCreatedIsKnown, Exists
<1>10. JoinedWhatItShows'
  BY <1>1, <1>6 DEF LSInv, JoinedWhatItShows, Connected, Exists
<1>11. ASSUME NEW m \in Monitors, Exists(m), Covered(m) PROVE Covered(m)'
  <2>1. CASE m # e.monitor
    <3>1. IsOnItsWay(m) => IsOnItsWay(m)'
      BY <1>1, <1>4, <2>1 DEF IsOnItsWay
    <3> QED
      BY <1>1, <1>5, <1>6, <1>11, <2>1, <3>1 DEF Covered
  <2>2. CASE m = e.monitor /\ m \in lost
    BY <1>5, <2>2 DEF Covered
  <2>3. CASE m = e.monitor /\ m \notin lost
    <3>1. shown[m] # Nil /\ ~(e.status < shown[m]) /\ shown'[m] = e.status
      BY <1>6, <2>3
    <3>2. shown[m] \in Nat /\ row[m] \in Nat /\ e.status <= row[m]
      BY <1>1, <1>3, <1>11, <2>3, <3>1, VersionsAreNumbers DEF LSInv, RememberedIsPast, Exists
    <3>3. shown[m] = row[m] => shown'[m] = row'[m]
      BY <1>1, <1>3, <3>1, <3>2
    <3>4. IsOnItsWay(m) => IsOnItsWay(m)' \/ shown'[m] = row'[m]
      BY <1>1, <1>4, <3>1 DEF IsOnItsWay
    <3> QED
      BY <1>1, <1>5, <1>11, <3>3, <3>4 DEF Covered
  <2> QED
    BY <2>1, <2>2, <2>3
<1>12. CatchesUp'
  BY <1>1, <1>6, <1>11, CatchingUpStays DEF LSInv, CatchesUp, Exists, Answered
<1> QED
  BY <1>7, <1>8, <1>9, <1>10, <1>12 DEF LSInv

-----------------------------------------------------------------------------
LEMMA LSStep == LSInv /\ [LSNext]_lsVars => LSInv'
<1> SUFFICES ASSUME LSInv, [LSNext]_lsVars PROVE LSInv'
  OBVIOUS
<1>1. CASE BridgeToggles \/ Disconnect \/ OnCheckEvent
  BY <1>1, BridgeKeeps, DisconnectKeeps, OnCheckKeeps
<1>2. ASSUME NEW m \in Monitors,
             createMonitor(m) \/ deleteMonitor(m) \/ OnSubscribe(m) \/ \E r \in Runs : Record(r, m)
      PROVE  LSInv'
  BY <1>2, CreateKeeps, DeleteKeeps, SubscribeKeeps, RecordKeeps
<1>3. ASSUME NEW r \in Runs, publishEvent(r) PROVE LSInv'
  BY <1>3, PublishKeeps
<1>4. ASSUME NEW l \in Loads, Connect(l) \/ listMonitors(l) \/ ApplyList(l) \/ LoadFails(l)
      PROVE  LSInv'
  BY <1>4, ConnectKeeps, ListKeeps, ApplyKeeps, LoadFailsKeeps
<1>5. CASE UNCHANGED lsVars
  <2>1. UNCHANGED <<row, deleted, run, bridge, connection, rooms, uplink, downlink, shown, load, current,
                    failed, missed, excused>>
    BY <1>5 DEF lsVars, server, link, page
  <2>2. LSTypeOK' /\ JoinedWhatItShows'
    BY <2>1 DEF LSInv, LSTypeOK, JoinedWhatItShows, Connected, Exists
  <2> QED
    BY <2>1, <2>2, QuietKeeps
<1> QED
  BY <1>1, <1>2, <1>3, <1>4, <1>5 DEF LSNext

THEOREM LSInvariance == LSSpec => []LSInv
BY LSInitEstablishes, LSStep, PTL DEF LSSpec

\* A socket is in rooms, and events are under way to it, only while it is
\* connected; before there is one, nothing is asked for.
THEOREM LSTypeCorrect == LSSpec => []LSTypeOK
BY LSInvariance, PTL DEF LSInv

\* app.js on 'connect', subscribeAll: a page that reads "live" and has re-read
\* the list is in the room of every monitor it shows, or has just asked for it.
THEOREM JoinsAll == LSSpec => []JoinedWhatItShows
BY LSInvariance, PTL DEF LSInv

\* app.js on 'connect': however events, reads, deletes and reconnects fell, a
\* status that stays behind is explained by something other than a disconnect.
THEOREM StaleExplained == LSSpec => []StaleIsExplained
<1>1. LSInv => StaleIsExplained
  <2> SUFFICES ASSUME LSInv, NEW m \in Monitors, Settled(m), shown[m] # row[m]
               PROVE  m \in excused \/ failed
    BY DEF StaleIsExplained
  <2>1. LSTypeOK /\ CaughtUp(m) /\ shown[m] # Nil
    BY DEF LSInv, CatchesUp, Settled, Connected
  <2>2. ~IsOnItsWay(m)
    <3>1. \A e \in Pending : e.monitor # m
      BY DEF Settled, Pending
    <3>2. downlink \in Seq(Event)
      BY <2>1 DEF LSTypeOK, Event
    <3>3. \A e \in UnderWay : e.monitor # m
      BY <3>2, LenProperties DEF Settled, UnderWay
    <3> QED
      BY <3>1, <3>3 DEF IsOnItsWay, OnTheWay
  <2> QED
    BY <2>1, <2>2 DEF CaughtUp, Covered
<1> QED
  BY <1>1, LSInvariance, PTL
=============================================================================
