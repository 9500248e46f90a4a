----------------------------- MODULE LiveStatus -----------------------------
(***************************************************************************)
(* Live status on a dashboard: check runs publish what they recorded        *)
(* (checkWorker.ts, realtime/publish.ts), the API's bridge forwards it to   *)
(* the sockets in the monitor's room (bridge.ts, socket.ts), and the page   *)
(* puts it over what it read over REST (public/app.js).                     *)
(*                                                                          *)
(* A status is a version: the n-th result recorded for the monitor, which   *)
(* may differ from any earlier one.  Publishing, forwarding and emitting to *)
(* the socket is one step; the socket delivers events in order, a while     *)
(* later.  One page, signed in; sign-out is in module Dashboard.            *)
(***************************************************************************)
EXTENDS Naturals, Sequences

CONSTANTS Monitors,    \* the account's monitors
          Runs,        \* check runs in progress at once
          Loads,       \* calls of loadMonitors in progress at once
          MaxVersion,  \* bound on the results recorded for a monitor
          Nil, Awaited \* no value or call, and a call not answered yet

ASSUME LiveAssumptions ==
    /\ MaxVersion \in Nat
    /\ Nil \notin Nat \union Loads \union {Awaited}
    /\ Nil \notin [monitor : Monitors, status : Nat]

VARIABLES row,      \* monitors.current_status, as a version; Nil when there is no row
          deleted,  \* monitors that were deleted
          run,      \* the event a run has yet to publish, or Nil
          bridge,   \* the bridge's Redis connection is subscribed
          connection, \* of the socket: "none" before connectSocket, then "off" or "on"
          rooms,    \* monitors whose room the socket is in
          uplink,   \* subscribe messages on their way, or buffered while not connected
          downlink, \* events on their way to the page
          shown,    \* state.monitors: the status shown, Nil if not listed
          load,     \* each loadMonitors call: Nil, Awaited, or the answer
          current,  \* the call the latest connect (at first, the page) is waiting for, or Nil
          failed,   \* the call of the latest connect failed
          missed,   \* history: the newest status published while not connected
          excused   \* history: monitors whose shown status something else explains

server == <<row, deleted, run, bridge>>
link == <<connection, rooms, uplink, downlink>>
page == <<shown, load, current, failed>>
lsVars == <<server, link, page, missed, excused>>

Status == 0 .. MaxVersion
Exists(m) == row[m] # Nil

LSInit ==
    /\ row \in [Monitors -> {0, Nil}]
    /\ deleted = {}
    /\ run = [r \in Runs |-> Nil]
    /\ bridge \in BOOLEAN
    /\ connection = "none"
    /\ rooms = {} /\ uplink = {} /\ downlink = <<>>
    /\ shown = [m \in Monitors |-> Nil]
    /\ current \in Loads
    /\ load = [l \in Loads |-> IF l = current THEN Awaited ELSE Nil]
    /\ failed = FALSE
    /\ missed = [m \in Monitors |-> 0]
    /\ excused = {}

\* What happened to the monitors in `lost` explains a difference until it is gone.
Excuse(lost) == excused' = {m \in excused \union lost : shown'[m] # row'[m]}

-----------------------------------------------------------------------------
(***************************************************************************)
(* Worker, bridge and server.                                               *)
(***************************************************************************)
createMonitor(m) ==
    /\ ~Exists(m) /\ m \notin deleted
    /\ row' = [row EXCEPT ![m] = 0]
    /\ UNCHANGED <<deleted, run, bridge, link, page, missed>> /\ Excuse({})

deleteMonitor(m) ==
    /\ Exists(m)
    /\ row' = [row EXCEPT ![m] = Nil]
    /\ deleted' = deleted \union {m}
    /\ UNCHANGED <<run, bridge, link, page, missed>> /\ Excuse({})

\* recordCheck commits.
Record(r, m) ==
    /\ run[r] = Nil
    /\ Exists(m) /\ row[m] < MaxVersion
    /\ row' = [row EXCEPT ![m] = @ + 1]
    /\ run' = [run EXCEPT ![r] = [monitor |-> m, status |-> row'[m]]]
    /\ UNCHANGED <<deleted, bridge, link, page, missed>> /\ Excuse({})

\* io.to(monitorRoom(...)).emit
Receives(event) == bridge /\ event.monitor \in rooms

\* publishEvent, the bridge and the socket server.  The worker, too, may fail
\* to reach Redis, or die first.
publishEvent(r) ==
    /\ run[r] # Nil
    /\ run' = [run EXCEPT ![r] = Nil]
    /\ missed' = IF connection = "on" \/ missed[run[r].monitor] > run[r].status
                    THEN missed ELSE [missed EXCEPT ![run[r].monitor] = run[r].status]
    /\ UNCHANGED <<row, deleted, bridge, connection, rooms, uplink, page>>
    /\ \/ /\ Receives(run[r])
          /\ downlink' = Append(downlink, run[r])
          /\ Excuse({})
       \/ /\ UNCHANGED downlink
          /\ Excuse(IF connection = "on" THEN {run[r].monitor} ELSE {})

BridgeToggles ==
    /\ bridge' = ~bridge
    /\ UNCHANGED <<row, deleted, run, link, page, missed, excused>>

\* on 'subscribe': of the account's monitors that exist.
OnSubscribe(m) ==
    /\ connection = "on" /\ m \in uplink
    /\ uplink' = uplink \ {m}
    /\ rooms' = IF Exists(m) THEN rooms \union {m} ELSE rooms
    /\ UNCHANGED <<server, connection, downlink, page, missed, excused>>

RoomsAfterDisconnect_Kept == rooms
RoomsAfterDisconnect == {}

\* Also when the API restarts.  What was on its way is lost.
Disconnect ==
    /\ connection = "on"
    /\ connection' = "off"
    /\ rooms' = RoomsAfterDisconnect /\ uplink' = {} /\ downlink' = <<>>
    /\ current' = Nil
    /\ UNCHANGED <<server, shown, load, failed, missed, excused>>

-----------------------------------------------------------------------------
(***************************************************************************)
(* The page.                                                                *)
(***************************************************************************)

OnConnect_NoReload(l) == UNCHANGED <<load, current>>
OnConnect(l) == load' = [load EXCEPT ![l] = Awaited] /\ current' = l

\* on 'connect', the first one and every later one.
Connect(l) ==
    /\ connection = "off"
    /\ load[l] = Nil
    /\ connection' = "on"
    /\ OnConnect(l)
    /\ failed' = FALSE
    /\ UNCHANGED <<server, rooms, uplink, downlink, shown, missed, excused>>

\* GET /monitors reads the rows.
listMonitors(l) ==
    /\ load[l] = Awaited
    /\ load' = [load EXCEPT ![l] = row]
    /\ UNCHANGED <<server, link, shown, current, failed, missed, excused>>

\* start() opens the socket when its own call is over; a connect's call just ends.
AfterLoad(l) ==
    /\ load' = [load EXCEPT ![l] = Nil]
    /\ current' = IF current = l THEN Nil ELSE current
    /\ connection' = IF connection = "none" THEN "off" ELSE connection

Listed(list) == {m \in Monitors : list[m] # Nil}

Subscribing_New(list) == Listed(list) \ Listed(shown)
Subscribing(list) == Listed(list)

Older(list) == {m \in Listed(shown) : list[m] # Nil => list[m] < shown[m]}

\* The rest of loadMonitors.  Without a socket nothing is emitted.
ApplyList(l) ==
    /\ load[l] \notin {Nil, Awaited}
    /\ shown' = load[l]
    /\ uplink' = IF connection = "none" THEN {} ELSE uplink \union Subscribing(load[l])
    /\ AfterLoad(l)
    /\ UNCHANGED <<server, rooms, downlink, failed, missed>>
    /\ Excuse(Older(load[l]))

\* Network error, 429 or 500: swallowed, and the page stays as it is.
LoadFails(l) ==
    /\ load[l] # Nil
    /\ AfterLoad(l)
    /\ failed' = (failed \/ current = l)
    /\ UNCHANGED <<server, rooms, uplink, downlink, shown, missed, excused>>

\* on 'check'
OnCheckEvent ==
    /\ downlink # <<>>
    /\ downlink' = Tail(downlink)
    /\ UNCHANGED <<server, connection, rooms, uplink, load, current, failed, missed>>
    /\ LET e == Head(downlink)
           listed == shown[e.monitor] # Nil
       IN  /\ shown' = IF listed THEN [shown EXCEPT ![e.monitor] = e.status] ELSE shown
           /\ Excuse({m \in {e.monitor} : listed => e.status < shown[m]})

LSNext ==
    \/ BridgeToggles
    \/ Disconnect
    \/ OnCheckEvent
    \/ \E m \in Monitors :
          \/ createMonitor(m)
          \/ deleteMonitor(m)
          \/ OnSubscribe(m)
          \/ \E r \in Runs : Record(r, m)
    \/ \E r \in Runs : publishEvent(r)
    \/ \E l \in Loads :
          \/ Connect(l)
          \/ listMonitors(l)
          \/ ApplyList(l)
          \/ LoadFails(l)

LSSpec == LSInit /\ [][LSNext]_lsVars

-----------------------------------------------------------------------------
(***************************************************************************)
(* Properties                                                               *)
(***************************************************************************)

\* The types, and: the socket is in rooms, and events are under way to it, only
\* while it is connected; before there is one, nothing is sent.
LSTypeOK ==
    /\ row \in [Monitors -> Status \union {Nil}]
    /\ deleted \subseteq Monitors
    /\ run \in [Runs -> [monitor : Monitors, status : Status] \union {Nil}]
    /\ bridge \in BOOLEAN
    /\ connection \in {"none", "off", "on"}
    /\ rooms \subseteq Monitors /\ uplink \subseteq Monitors
    /\ downlink \in Seq([monitor : Monitors, status : Status])
    /\ shown \in [Monitors -> Status \union {Nil}]
    /\ load \in [Loads -> {Nil, Awaited} \union [Monitors -> Status \union {Nil}]]
    /\ current \in Loads \union {Nil}
    /\ failed \in BOOLEAN
    /\ missed \in [Monitors -> Status]
    /\ excused \subseteq Monitors
    /\ connection # "on" => rooms = {} /\ downlink = <<>>
    /\ connection = "none" => uplink = {}

Connected == connection = "on" /\ current = Nil

\* Whatever was joined before a disconnect, a page that reads "live" and has
\* re-read the list receives the events of every monitor it shows, or has just
\* asked to.
JoinedWhatItShows ==
    Connected /\ ~failed =>
        \A m \in Monitors : shown[m] # Nil /\ Exists(m) => m \in rooms \union uplink

\* Nothing is under way that could still change what is shown of m.
Settled(m) ==
    /\ Connected
    /\ \A l \in Loads : load[l] = Nil
    /\ \A r \in Runs : run[r] # Nil => run[r].monitor # m
    /\ \A i \in 1 .. Len(downlink) : downlink[i].monitor # m
    /\ shown[m] # Nil /\ Exists(m)

\* A shown status that stays behind is never due to a disconnect, however events,
\* reads and reconnects fell: an event was lost or out of order while connected,
\* a list arrived late, or the re-read failed.
StaleIsExplained ==
    \A m \in Monitors : Settled(m) /\ shown[m] # row[m] => m \in excused \/ failed

\* app.js:138-139: anything missed while disconnected is recovered by re-reading
\* over REST.  Once that has been done and nothing is under way, the page shows
\* nothing older than what it missed.
MissedIsRecovered == \A m \in Monitors : Settled(m) /\ ~failed => shown[m] >= missed[m]
=============================================================================
