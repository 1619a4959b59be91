------------------------------ MODULE Monitor ------------------------------
(***************************************************************************)
(* The running program: run_components of apppw-ui/src/runtime.rs with     *)
(* what feeds it and what it feeds.                                        *)
(*                                                                         *)
(*   capture thread --captured--> worker --ui_events--> egui frame loop    *)
(*   proxy tasks ----proxy_events--^   \--> appwatch.db                    *)
(*                                                                         *)
(* The worker owns the ConnectionTracker, the TrafficCorrelator and the    *)
(* packet counts, takes one packet per iteration, handles its events one   *)
(* by one, then drains the proxy's events.  Channels are unbounded FIFOs.  *)
(* Process resolution asks the live socket table; its outcome is any       *)
(* process or none.                                                        *)
(***************************************************************************)
EXTENDS ConnectionTracker, TrafficCorrelator, Storage

CONSTANTS
    ProxyAddress,     \* where the proxy listens
    Client,           \* endpoints that connect to the proxy
    HighBit,          \* 1 << 63, the tag of a request's row id
    DatabaseOpens,    \* the outcomes of Database::open
    UserActs,         \* whether the user clears and pauses
    \* bounds of a run
    MaxPackets,       \* packets captured in a session
    MaxRequests,      \* requests through the proxy in a session
    MaxBacklog,       \* messages under way when a packet is captured
    MaxTime,
    MaxSessions

ASSUME MonitorAssumption ==
    /\ ProxyAddress \in Endpoint
    /\ Client \subseteq Endpoint
    /\ DatabaseOpens \subseteq BOOLEAN /\ DatabaseOpens # {}
    /\ UserActs \in BOOLEAN
    /\ MaxBacklog \in Nat /\ MaxTime \in Nat /\ MaxSessions \in Nat

\* Fewer than 2^63 packets and requests, the program's own premise when it
\* tags request rows with the top bit: each packet opens at most one
\* connection.
ASSUME IdSpaceAssumption ==
    /\ MaxPackets \in Nat /\ MaxRequests \in Nat /\ HighBit \in Nat
    /\ MaxPackets + 1 < HighBit
    /\ MaxRequests < HighBit
    /\ MaxPackets + 1 < MaxU64

VARIABLES
    \* channels
    captured,        \* CaptureHandle.receiver
    in_flight,       \* proxy tasks that took an id and have not sent yet
    proxy_events,    \* ProxyWorker.events
    ui_events,       \* Runtime.events
    \* the worker
    stage,           \* where in its loop the worker is
    packet_counts,   \* id -> packets, partial
    database,        \* whether the database is open
    next_request,    \* ProxyRuntime.next_id
    \* the user interface
    rows,            \* AppState.events: id -> row, partial
    recording,
    \* the world
    clock,
    session,
    packets,         \* captured so far, counted only to bound a run
    \* auxiliary
    unseen,          \* ids whose row misses something the worker sent
    heard            \* all the correlator was shown in the session

workerVars == <<stage, packet_counts>>
uiVars == <<rows, recording, unseen>>
proxyVars == <<in_flight, proxy_events, next_request>>
worldVars == <<clock, session, database, packets>>
vars == <<trackerVars, observed, heard, storageVars, captured, proxyVars,
          ui_events, workerVars, uiVars, worldVars>>

Request == [id : 1 .. MaxRequests, client : Endpoint]

\* to_ui_connection and to_ui_http, reduced to what a row is identified by
\* and what it counts.
ConnectionRowOf(connection, count) ==
    [kind |-> "connection", connection |-> connection, packet_count |-> count]

RequestRowOf(request, process) ==
    [kind |-> "request", client |-> request.client, process |-> process]

\* Mutant: requests and connections share the ids.
RequestRowIdUntagged(id) == id

RequestRowId(id) == id + HighBit   \* id | (1 << 63), for ids below HighBit

Row ==
    [kind : {"connection"}, connection : NetworkConnection, packet_count : U64]
    \cup [kind : {"request"}, client : Endpoint, process : Process \cup {None}]

Message ==
    [type : {"Connection"}, id : Nat, row : Row]
    \cup [type : {"Closed"}, id : Nat]

Send(message) == ui_events' = Append(ui_events, message)

-----------------------------------------------------------------------------
(***************************************************************************)
(* What feeds the worker.                                                  *)
(***************************************************************************)

\* The capture thread parses and sends one packet, stamped with the time.
Capture(packet) ==
    /\ packets < MaxPackets
    /\ packets' = packets + 1
    /\ Len(captured) + Len(ui_events) < MaxBacklog
    /\ captured' =
          Append(captured, [packet EXCEPT !.timestamp = clock,
                                          !.process = None])
    /\ UNCHANGED <<trackerVars, observed, heard, storageVars, proxyVars,
                   ui_events, workerVars, uiVars, clock, session, database>>

\* What the proxy does to the worker is ProxyFeed's, which HttpProxy keeps.
Proxy == INSTANCE ProxyFeed
             WITH next_id   <- next_request,
                  under_way <- in_flight,
                  pending   <- proxy_events

\* A forwarding task of the proxy takes its id once the response is complete
\* and sends its event in a second step: events may overtake each other.
TakeRequestId(client) ==
    /\ next_request <= MaxRequests
    /\ Proxy!Take(client)
    /\ UNCHANGED <<trackerVars, observed, heard, storageVars, captured,
                   ui_events, workerVars, uiVars, worldVars>>

SendProxyEvent(request) ==
    /\ Proxy!Deliver(request)
    /\ UNCHANGED <<trackerVars, observed, heard, storageVars, captured,
                   ui_events, workerVars, uiVars, worldVars>>

Tick ==
    /\ clock < MaxTime
    /\ clock' = clock + 1
    /\ UNCHANGED <<trackerVars, observed, heard, storageVars, captured,
                   proxyVars, ui_events, workerVars, uiVars, session, database,
                   packets>>

-----------------------------------------------------------------------------
(***************************************************************************)
(* The worker's loop.                                                      *)
(***************************************************************************)

\* recv_timeout yields a packet: its process is resolved now, not when it was
\* captured, and the tracker folds it in.
ReceivePacket(process) ==
    /\ stage = "capture"
    /\ captured # <<>>
    /\ ProcessPacket([Head(captured) EXCEPT !.process = process])
    /\ captured' = Tail(captured)
    /\ stage' = "events"
    /\ UNCHANGED <<observed, heard, storageVars, proxyVars, ui_events,
                   packet_counts, uiVars, worldVars>>

ReceiveTimeout ==
    /\ stage = "capture"
    /\ captured = <<>>
    /\ stage' = "proxy"
    /\ UNCHANGED <<trackerVars, observed, heard, storageVars, captured,
                   proxyVars, ui_events, packet_counts, uiVars, worldVars>>

\* Mutant: the count of a closed connection is never removed.
CloseKeepsCount(id) ==
    /\ Send([type |-> "Closed", id |-> id])
    /\ UNCHANGED <<packet_counts, observed, heard, storageVars>>

\* handle_network_event, ConnectionClosed.
Close(id) ==
    /\ packet_counts' = Without(packet_counts, {id})
    /\ Send([type |-> "Closed", id |-> id])
    /\ UNCHANGED <<observed, heard, storageVars>>

\* The connections the sweep closed come first, in hash map order.
HandleExpired(id) ==
    /\ stage = "events"
    /\ returned' = [returned EXCEPT !.expired = @ \ {id}]
    /\ Close(id)
    /\ UNCHANGED <<connections, next_id, captured, proxyVars, stage, uiVars,
                   worldVars>>

\* handle_network_event, ConnectionOpened and ConnectionUpdated: count, show
\* to the correlator, save if the database is open, send.
HandleChanged(change) ==
    LET connection == change.connection
        id == connection.id
        count == SaturatingAdd(
                    IF id \in DOMAIN packet_counts THEN packet_counts[id]
                                                   ELSE 0, 1)
    IN  /\ stage = "events"
        /\ returned.expired = {}
        /\ returned' = [returned EXCEPT !.changed = @ \ {change}]
        /\ packet_counts' = Insert(packet_counts, id, count)
        /\ ObserveConnection(connection, clock)
        /\ heard' = heard \cup
               {[connection |-> connection, observed_at |-> clock]}
        /\ IF database THEN SaveConnection(connection, clock)
                       ELSE UNCHANGED storageVars
        /\ Send([type |-> "Connection", id |-> id,
                 row |-> ConnectionRowOf(connection, count)])
        /\ UNCHANGED <<connections, next_id, captured, proxyVars, stage,
                       uiVars, worldVars>>

\* Mutant: Closed may be sent before the update of the same packet.
HandleEndedEarly(id) ==
    /\ stage = "events"
    /\ returned.expired = {}
    /\ returned' = [returned EXCEPT !.closed = @ \ {id}]
    /\ Close(id)
    /\ UNCHANGED <<connections, next_id, captured, proxyVars, stage, uiVars,
                   worldVars>>

HandleEnded(id) ==
    /\ stage = "events"
    /\ returned.expired = {}
    /\ returned.changed = {}
    /\ returned' = [returned EXCEPT !.closed = @ \ {id}]
    /\ Close(id)
    /\ UNCHANGED <<connections, next_id, captured, proxyVars, stage, uiVars,
                   worldVars>>

PacketHandled ==
    /\ stage = "events"
    /\ returned = NothingReturned
    /\ stage' = "proxy"
    /\ UNCHANGED <<trackerVars, observed, heard, storageVars, captured,
                   proxyVars, ui_events, packet_counts, uiVars, worldVars>>

\* Mutant: a request that matches no connection is dropped.
HandleProxyEventDrops(resolved) ==
    LET request == Head(proxy_events)
        match == Correlated("TCP", request.client, ProxyAddress, clock)
    IN  /\ stage = "proxy"
        /\ proxy_events # <<>>
        /\ IF match = {}
             THEN UNCHANGED <<storageVars, ui_events>>
             ELSE \E connection_id \in match :
                    /\ SaveHttpRequest(request.id, connection_id)
                    /\ Send([type |-> "Connection",
                             id   |-> RequestRowId(request.id),
                             row  |-> RequestRowOf(request, resolved)])
        /\ proxy_events' = Tail(proxy_events)
        /\ UNCHANGED <<trackerVars, observed, heard, captured, in_flight,
                       next_request, workerVars, uiVars, worldVars>>

\* handle_proxy_event: link the request to a connection and take its process,
\* or resolve the process; save; send.
HandleProxyEvent(resolved) ==
    LET request == Head(proxy_events)
        match == Correlated("TCP", request.client, ProxyAddress, clock)
    IN  /\ stage = "proxy"
        /\ proxy_events # <<>>
        /\ \E connection_id \in IF match = {} THEN {None} ELSE match :
             LET process == IF connection_id = None THEN resolved
                            ELSE observed[connection_id].connection.process
             IN  /\ IF database THEN SaveHttpRequest(request.id, connection_id)
                                ELSE UNCHANGED storageVars
                 /\ Send([type |-> "Connection", id |-> RequestRowId(request.id),
                          row |-> RequestRowOf(request, process)])
        /\ proxy_events' = Tail(proxy_events)
        /\ UNCHANGED <<trackerVars, observed, heard, captured, in_flight,
                       next_request, workerVars, uiVars, worldVars>>

\* Mutant: the worker also waits for the requests the proxy is still forwarding.
EndIterationAwaitsProxy ==
    /\ stage = "proxy"
    /\ proxy_events = <<>>
    /\ in_flight = {}
    /\ stage' = "capture"
    /\ UNCHANGED <<trackerVars, observed, heard, storageVars, captured,
                   proxyVars, ui_events, packet_counts, uiVars, worldVars>>

\* Nothing left from the proxy: next iteration.  The user's actions and the
\* process refresh that end an iteration touch none of this state.
EndIteration ==
    /\ stage = "proxy"
    /\ proxy_events = <<>>
    /\ stage' = "capture"
    /\ UNCHANGED <<trackerVars, observed, heard, storageVars, captured,
                   proxyVars, ui_events, packet_counts, uiVars, worldVars>>

-----------------------------------------------------------------------------
(***************************************************************************)
(* The user interface.                                                     *)
(***************************************************************************)
UiLeavesAlone ==
    UNCHANGED <<trackerVars, observed, heard, storageVars, captured, proxyVars,
                workerVars, worldVars>>

\* Mutant: a row that exists is not replaced.
ReceiveConnectionOnce ==
    LET message == Head(ui_events)
    IN  /\ ui_events # <<>>
        /\ message.type = "Connection"
        /\ IF recording
             THEN /\ rows' = IF message.id \in DOMAIN rows THEN rows
                             ELSE Insert(rows, message.id, message.row)
                  /\ unseen' = unseen \ {message.id}
             ELSE /\ unseen' = unseen \cup {message.id}
                  /\ UNCHANGED rows
        /\ ui_events' = Tail(ui_events)
        /\ UNCHANGED recording
        /\ UiLeavesAlone

\* receive_runtime_events, RuntimeEvent::Connection: upsert by id, unless
\* recording is stopped, when the event is dropped.
ReceiveConnection ==
    LET message == Head(ui_events)
    IN  /\ ui_events # <<>>
        /\ message.type = "Connection"
        /\ IF recording
             THEN /\ rows' = Insert(rows, message.id, message.row)
                  /\ unseen' = unseen \ {message.id}
             ELSE /\ unseen' = unseen \cup {message.id}
                  /\ UNCHANGED rows
        /\ ui_events' = Tail(ui_events)
        /\ UNCHANGED recording
        /\ UiLeavesAlone

\* Mutant: a stopped recording drops Closed as it drops updates.
ReceiveClosedIfRecording ==
    LET message == Head(ui_events)
    IN  /\ ui_events # <<>>
        /\ message.type = "Closed"
        /\ IF recording
             THEN /\ rows' = Without(rows, {message.id})
                  /\ unseen' = unseen \ {message.id}
             ELSE UNCHANGED <<rows, unseen>>
        /\ ui_events' = Tail(ui_events)
        /\ UNCHANGED recording
        /\ UiLeavesAlone

\* RuntimeEvent::Closed: the row goes, recording or not.
ReceiveClosed ==
    LET message == Head(ui_events)
    IN  /\ ui_events # <<>>
        /\ message.type = "Closed"
        /\ rows' = Without(rows, {message.id})
        /\ unseen' = unseen \ {message.id}
        /\ ui_events' = Tail(ui_events)
        /\ UNCHANGED recording
        /\ UiLeavesAlone

\* The Start / Stop recording button.
ToggleRecording ==
    /\ UserActs
    /\ recording' = ~recording
    /\ UNCHANGED <<rows, unseen, ui_events>>
    /\ UiLeavesAlone

\* The Clear button empties the table; connections under way come back with
\* their next update.
Clear ==
    /\ UserActs
    /\ rows' = EmptyMap
    /\ unseen' = unseen \cup DOMAIN rows
    /\ UNCHANGED <<recording, ui_events>>
    /\ UiLeavesAlone

-----------------------------------------------------------------------------
Init ==
    /\ InitTracker
    /\ InitCorrelator /\ heard = {}
    /\ InitStorage
    /\ captured = <<>>
    /\ in_flight = {} /\ proxy_events = <<>> /\ next_request = 1
    /\ ui_events = <<>>
    /\ stage = "capture" /\ packet_counts = EmptyMap
    /\ rows = EmptyMap /\ recording = TRUE /\ unseen = {}
    /\ database \in DatabaseOpens
    /\ clock = 0 /\ session = 1 /\ packets = 0

\* The program is closed or dies at any point and is started again: what is
\* in memory is gone, whatever was queued is lost, the database file stays.
Restart ==
    /\ session < MaxSessions
    /\ session' = session + 1
    /\ connections' = EmptyMap /\ next_id' = 1 /\ returned' = NothingReturned
    /\ observed' = EmptyMap /\ heard' = {}
    /\ captured' = <<>>
    /\ in_flight' = {} /\ proxy_events' = <<>> /\ next_request' = 1
    /\ ui_events' = <<>>
    /\ stage' = "capture" /\ packet_counts' = EmptyMap
    /\ rows' = EmptyMap /\ recording' = TRUE /\ unseen' = {}
    /\ database' \in DatabaseOpens
    /\ packets' = 0
    /\ lost_connections' = {} /\ lost_requests' = {}
    /\ UNCHANGED <<process_rows, connection_rows, request_rows, clock>>

Worker ==
    \/ \E process \in Process \cup {None} : ReceivePacket(process)
    \/ ReceiveTimeout
    \/ \E id \in returned.expired : HandleExpired(id)
    \/ \E change \in returned.changed : HandleChanged(change)
    \/ \E id \in returned.closed : HandleEnded(id)
    \/ PacketHandled
    \/ \E process \in Process \cup {None} : HandleProxyEvent(process)
    \/ EndIteration

Frame == ReceiveConnection \/ ReceiveClosed

Next ==
    \/ \E packet \in Packet : Capture(packet)
    \/ \E client \in Client : TakeRequestId(client)
    \/ \E request \in in_flight : SendProxyEvent(request)
    \/ Tick
    \/ Worker
    \/ Frame
    \/ ToggleRecording
    \/ Clear
    \/ Restart

Spec == Init /\ [][Next]_vars

\* The worker's thread is always scheduled again; it asks for a repaint after
\* every iteration that changed something, so the frame loop drains its
\* channel.  Traffic, clock, user and restarts owe nothing.
FairSpec == Spec /\ WF_vars(Worker) /\ WF_vars(Frame)
=============================================================================
