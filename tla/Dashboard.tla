----------------------------- MODULE Dashboard ------------------------------
(***************************************************************************)
(* The dashboard page (public/app.js): signing in and out, the list, the    *)
(* selected monitor's chart and the socket, with any number of requests in  *)
(* flight.  Nothing is cancelled: whatever was asked is answered into the   *)
(* page as it is by then.                                                   *)
(*                                                                          *)
(* A key stands for its account; a key that was revoked, or mistyped, gets  *)
(* 401.  Whether shown statuses are current is in module LiveStatus.        *)
(***************************************************************************)
EXTENDS Naturals, FiniteSets

CONSTANTS Keys,
          MonitorsOf,   \* the monitors of each key's account
          Calls,        \* requests in flight at once
          Sockets,      \* sockets open at once
          None

AllMonitors == UNION {MonitorsOf[k] : k \in Keys}

Opened == [token : Keys \union {None}, on : BOOLEAN]
Asked == [of : {"start", "connect", "select", "checks"}, key : Keys \union {None},
          monitor : AllMonitors \union {None}]

ASSUME DashboardAssumptions ==
    /\ MonitorsOf \in [Keys -> SUBSET AllMonitors]
    /\ None \notin Keys \union AllMonitors \union Sockets \union Calls
    /\ None \notin Opened /\ None \notin Asked

VARIABLES key,       \* state.key
          monitors,  \* the ids in state.monitors
          listed,    \* the ids in the list on the page, which renderList writes
          selected,  \* state.selected
          chart,     \* the monitors whose checks are in state.checks
          socket,    \* state.socket
          open,      \* socket -> [token, on] while it is not closed, else None
          call,      \* request -> [of, key, monitor], or None
          unread,    \* history: no checks were read yet for this selection
          drawn,     \* history: what this session has drawn itself, list or chart
          overlap    \* history: a session ended while other requests were in flight

view == <<monitors, listed, selected, chart, unread, drawn>>
session == <<key, socket, overlap>>
vars == <<view, session, open, call>>

Init ==
    /\ key = None
    /\ monitors = {} /\ listed = {} /\ selected = None /\ chart = {}
    /\ socket = None
    /\ open = [s \in Sockets |-> None]
    /\ call = [c \in Calls |-> None]
    /\ unread = TRUE
    /\ drawn = {}
    /\ overlap = FALSE

\* The handler a request belongs to: start, connect, or loadChecks, with the id.
Ask(c, of, m) == call' = [call EXCEPT ![c] = [of |-> of, key |-> key', monitor |-> m]]
End(c) == call' = [call EXCEPT ![c] = None]

Closed_KeepsSocket == open
Closed == IF socket = None THEN open ELSE [open EXCEPT ![socket] = None]

\* Called by hand, or by `caller`, a request that ends with it.  The list on the
\* page and state.checks stay as they are.
signOut(caller) ==
    /\ key' = None
    /\ open' = Closed
    /\ socket' = None
    /\ monitors' = {} /\ selected' = None
    /\ drawn' = {}
    /\ overlap' = (overlap \/ \E c \in Calls \ {caller} : call[c] # None)
    /\ UNCHANGED <<listed, chart, unread>>

-----------------------------------------------------------------------------
SubmitLogin(c, k) ==
    /\ key = None
    /\ key' = k
    /\ call[c] = None /\ Ask(c, "start", None)
    /\ UNCHANGED <<view, socket, open, overlap>>

ClickLogout ==
    /\ key # None
    /\ signOut(None)
    /\ UNCHANGED call

\* A monitor that is only left on the page sets selected, and the rest throws.
select(c, m) ==
    /\ key # None /\ m \in listed
    /\ selected' = m
    /\ listed' = monitors /\ drawn' = drawn \union {"list"}
    /\ unread' = (unread \/ m # selected)
    /\ UNCHANGED <<monitors, chart, session, open>>
    /\ IF m \in monitors THEN call[c] = None /\ Ask(c, "select", m) ELSE UNCHANGED call

connectSocket ==
    \E s \in Sockets :
        /\ open[s] = None
        /\ open' = [open EXCEPT ![s] = [token |-> key, on |-> FALSE]]
        /\ socket' = s

SignedIn_Always == TRUE
SignedIn == key # None

\* The end of start(), with a list or with an error that is not 401.
EndStart(c) ==
    /\ IF SignedIn THEN connectSocket ELSE UNCHANGED <<open, socket>>
    /\ End(c)
    /\ UNCHANGED <<key, selected, chart, unread, overlap>>

\* loadMonitors, whoever asked, shows the list the server has for that key.
ShowList(c) ==
    /\ monitors' = MonitorsOf[call[c].key]
    /\ listed' = monitors' /\ drawn' = drawn \union {"list"}

StartAnswered(c) ==
    /\ call[c] # None /\ call[c].of = "start"
    /\ \/ ShowList(c)
       \/ UNCHANGED <<monitors, listed, drawn>>
    /\ EndStart(c)

\* on 'connect': loadMonitors, then loadChecks of what is selected by then.
ConnectAnswered(c) ==
    /\ call[c] # None /\ call[c].of = "connect" /\ call[c].key # None
    /\ ShowList(c)
    /\ UNCHANGED <<session, selected, chart, unread, open>>
    /\ IF selected = None THEN End(c) ELSE Ask(c, "checks", selected)

StillSelected_Unchecked(m) == TRUE
StillSelected(m) == m = selected

\* loadChecks: the rows replace state.checks unless another monitor was picked.
ChecksAnswered(c) ==
    /\ call[c] # None /\ call[c].of \in {"select", "checks"}
    /\ call[c].key # None /\ call[c].monitor \in MonitorsOf[call[c].key]
    /\ LET mine == StillSelected(call[c].monitor) IN
          /\ chart' = IF mine THEN {call[c].monitor} ELSE chart
          /\ drawn' = IF mine THEN drawn \union {"chart"} ELSE drawn
          /\ unread' = (unread /\ call[c].monitor # selected)
    /\ End(c)
    /\ UNCHANGED <<session, monitors, listed, selected, open>>

\* Network error, 404, 429 or 500.
CallFails(c) ==
    /\ call[c] # None /\ call[c].of # "start"
    /\ End(c)
    /\ UNCHANGED <<view, session, open>>

\* 401 signs out whoever is signed in now.
Unauthorized(c) ==
    /\ call[c] # None
    /\ signOut(c)
    /\ End(c)

-----------------------------------------------------------------------------
Connects(s, c) ==
    /\ open[s] # None /\ ~open[s].on
    /\ open' = [open EXCEPT ![s].on = TRUE]
    /\ UNCHANGED <<view, session>>
    /\ call[c] = None /\ Ask(c, "connect", None)

Disconnects(s) ==
    /\ open[s] # None /\ open[s].on
    /\ open' = [open EXCEPT ![s].on = FALSE]
    /\ UNCHANGED <<view, session, call>>

\* connect_error: the key is not accepted any more.
ConnectRefused(s) ==
    /\ open[s] # None /\ ~open[s].on
    /\ signOut(None)
    /\ UNCHANGED call

\* on 'check', of a monitor the token's account owns.
OnCheck(s, m) ==
    /\ open[s] # None /\ open[s].on /\ open[s].token # None
    /\ m \in MonitorsOf[open[s].token] \intersect monitors
    /\ listed' = monitors /\ drawn' = drawn \union {"list"}
    /\ chart' = IF m = selected THEN chart \union {m} ELSE chart
    /\ UNCHANGED <<monitors, selected, unread, session, open, call>>

Next ==
    \/ ClickLogout
    \/ \E c \in Calls :
          \/ \E k \in Keys : SubmitLogin(c, k)
          \/ \E m \in AllMonitors : select(c, m)
          \/ \E s \in Sockets : Connects(s, c)
          \/ StartAnswered(c)
          \/ ConnectAnswered(c)
          \/ ChecksAnswered(c)
          \/ CallFails(c)
          \/ Unauthorized(c)
    \/ \E s \in Sockets :
          \/ Disconnects(s)
          \/ ConnectRefused(s)
          \/ \E m \in AllMonitors : OnCheck(s, m)

Spec == Init /\ [][Next]_vars

-----------------------------------------------------------------------------
(***************************************************************************)
(* Properties                                                               *)
(***************************************************************************)

\* The types, and: the page refers to an open socket or to none, and to none
\* when it is signed out.
TypeOK ==
    /\ key \in Keys \union {None}
    /\ monitors \subseteq AllMonitors /\ listed \subseteq AllMonitors /\ chart \subseteq AllMonitors
    /\ selected \in AllMonitors \union {None}
    /\ socket \in Sockets \union {None}
    /\ open \in [Sockets -> Opened \union {None}]
    /\ call \in [Calls -> Asked \union {None}]
    /\ unread \in BOOLEAN /\ drawn \subseteq {"list", "chart"} /\ overlap \in BOOLEAN
    /\ socket # None => key # None /\ open[socket] # None

\* The chart under a monitor's name is that monitor's: once checks were read for
\* a selection, no answer to an earlier one and no event puts others among them.
ChartIsOfSelected == selected # None /\ ~unread => chart \subseteq {selected}

\* Unless a session ended while requests were in flight (nothing cancels them),
\* sessions do not mix: one listens through one socket with its own key, leaves
\* none behind, holds only monitors its key may see, and lists and charts only
\* those once it has drawn the list, or the chart, itself.  Until then the page
\* and state.checks keep what the session before left: signOut clears neither.
SessionsAreSeparate ==
    ~overlap =>
        /\ \A s \in Sockets : open[s] # None => s = socket /\ open[s].token = key
        /\ key # None =>
              /\ monitors \subseteq MonitorsOf[key]
              /\ "list" \in drawn => listed \subseteq MonitorsOf[key]
              /\ "chart" \in drawn => chart \subseteq MonitorsOf[key]
=============================================================================
