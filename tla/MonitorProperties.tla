-------------------------- MODULE MonitorProperties --------------------------
(***************************************************************************)
(* What the running program must keep true between its threads, its        *)
(* database and its table of rows.                                         *)
(***************************************************************************)
EXTENDS Monitor

TrackedIds == IdsOf(DOMAIN connections)

\* Ids whose Opened event was returned by the tracker but is not handled yet.
NotYetOpened ==
    {c.connection.id : c \in {d \in returned.changed : d.kind = "Opened"}}

\* Ids with a change that the worker has not sent yet.
NotYetSent == {c.connection.id : c \in returned.changed}

\* Positions after `n' of the user interface's channel that close `id'.
ClosedAfter(id, n) ==
    \E j \in DOMAIN ui_events :
        j > n /\ ui_events[j].type = "Closed" /\ ui_events[j].id = id

UpdateQueued(id) ==
    \E j \in DOMAIN ui_events :
        ui_events[j].type = "Connection" /\ ui_events[j].id = id

\* Ids of the requests the worker has not recorded yet.
UnderWay ==
    {request.id : request \in in_flight}
        \cup {proxy_events[n].id : n \in DOMAIN proxy_events}

CorrelatorTypeOK ==
    /\ DOMAIN observed \subseteq U64
    /\ observed \in [DOMAIN observed -> Observation]

ChannelsTypeOK ==
    /\ captured \in Seq(CapturedPacket)
    /\ in_flight \subseteq Request
    /\ proxy_events \in Seq(Request)
    /\ ui_events \in Seq(Message)
    /\ next_request \in 1 .. MaxRequests + 1
    /\ packets \in 0 .. MaxPackets

WorkerTypeOK ==
    /\ stage \in {"capture", "events", "proxy"}
    /\ DOMAIN packet_counts \subseteq U64
    /\ packet_counts \in [DOMAIN packet_counts -> U64]
    /\ database \in BOOLEAN
    /\ clock \in Time

UiTypeOK ==
    /\ DOMAIN rows \subseteq Nat
    /\ rows \in [DOMAIN rows -> Row]
    /\ unseen \subseteq Nat
    /\ recording \in BOOLEAN

MonitorTypeOK ==
    /\ TrackerTypeOK
    /\ CorrelatorTypeOK
    /\ ChannelsTypeOK
    /\ WorkerTypeOK
    /\ UiTypeOK

(***************************************************************************)
(* Invariants                                                              *)
(***************************************************************************)

\* The packet counts hold exactly the connections that have been opened and
\* not closed towards the user: nothing leaks and nothing is counted after
\* its Closed, at every point between two events of one packet
\* (packet_counts of run_components against ConnectionTracker.connections).
CountsMatchTracker ==
    DOMAIN packet_counts =
        (TrackedIds \cup returned.expired \cup returned.closed) \ NotYetOpened

\* What is left of a packet's events agrees with the tracker, which has
\* already moved on: a closed connection is not tracked any more, an expired
\* one is not the packet's own, and the change still to be sent is of a
\* tracked connection or of the one about to be closed.
ReturnedInStep ==
    /\ stage # "events" => returned = NothingReturned
    /\ TrackedIds \cap (returned.expired \cup returned.closed) = {}
    /\ returned.expired \cap (returned.closed \cup NotYetSent) = {}
    /\ NotYetSent \subseteq TrackedIds \cup returned.closed
    /\ \A c, d \in returned.changed : c = d

\* Ids are given out in order: whatever consumers know is below the next id,
\* the correlator knows every counted connection, and an id not yet opened
\* is new to it.
IdsInOrder ==
    /\ \A id \in DOMAIN observed \cup returned.closed : id < next_id
    /\ DOMAIN observed \cap NotYetOpened = {}
    /\ DOMAIN packet_counts \subseteq DOMAIN observed
    /\ next_id + Len(captured) <= packets + 1

\* A row of the table, or an update on its way to it, belongs to a connection
\* the worker still counts, or a Closed for it is queued behind: no row can
\* stay for ever after its connection is gone.
NoGhostRows ==
    /\ \A id \in DOMAIN rows :
          id < HighBit => id \in DOMAIN packet_counts \/ ClosedAfter(id, 0)
    /\ \A n \in DOMAIN ui_events :
          ui_events[n].type = "Connection" /\ ui_events[n].id < HighBit =>
              \/ ui_events[n].id \in DOMAIN packet_counts
              \/ ClosedAfter(ui_events[n].id, n)

\* Once the channel holds nothing for a tracked connection and the user did
\* not pause or clear, its row shows the tracker's own totals and the
\* worker's own count.
RowsCurrent ==
    \A key \in DOMAIN connections :
        LET connection == connections[key].connection
            id == connection.id
        IN  id \notin NotYetSent \cup unseen /\ ~UpdateQueued(id) =>
              /\ id \in DOMAIN rows
              /\ rows[id] = ConnectionRowOf(connection, packet_counts[id])

\* A stored row that shows a connection as it is.
ShownBy(row, connection) ==
    /\ row.key = connection.key
    /\ row.bytes_sent = connection.bytes_sent
    /\ row.bytes_received = connection.bytes_received
    /\ row.process_id = IF connection.process = None THEN None
                                                    ELSE connection.process.pid

\* A tracked connection whose last change was handled is stored as it is,
\* unless that failed.
StoredAsTracked ==
    \A key \in DOMAIN connections :
        LET connection == connections[key].connection
            id == connection.id
        IN  id \notin NotYetSent \cup lost_connections =>
              /\ id \in DOMAIN connection_rows
              /\ ShownBy(connection_rows[id], connection)

RequestsAccounted ==
    \A id \in 1 .. next_request - 1 :
        id \in UnderWay \cup lost_requests \cup DOMAIN request_rows

\* What the user is shown is in the history unless a write failed: connections
\* with the tracker's own totals and process, whatever their ids meant to an
\* earlier session; and no request is refused for anything but the lost row of
\* its connection (handle_network_event and handle_proxy_event against the
\* upserts and foreign keys of Database).
HistoryComplete == database => StoredAsTracked /\ RequestsAccounted

(***************************************************************************)
(* The invariant the proofs rest on.  CountsMatchTracker and NoGhostRows   *)
(* are not inductive alone: that a count is removed exactly once needs to  *)
(* know which events are still to come (ReturnedInStep), and that a new id *)
(* revives nothing needs the order of ids (IdsInOrder).  Nor is            *)
(* RowsCurrent, which says nothing of messages on their way.               *)
(***************************************************************************)
StreamInv == ReturnedInStep /\ IdsInOrder /\ CountsMatchTracker

\* A change still to be sent shows its connection as the tracker has it.
ChangesTracked ==
    \A change \in returned.changed, key \in DOMAIN connections :
        connections[key].connection.id = change.connection.id =>
            connections[key].connection = change.connection

CurrentRow(connection) ==
    ConnectionRowOf(connection, packet_counts[connection.id])

\* The last message about a connection shows it as it is, or there is none and
\* its row does, unless the user missed it.
Shows(connection) ==
    \/ \E n \in DOMAIN ui_events :
          /\ ui_events[n] = [type |-> "Connection", id |-> connection.id,
                             row |-> CurrentRow(connection)]
          /\ \A j \in DOMAIN ui_events :
                j > n => ui_events[j].id # connection.id
    \/ /\ \A n \in DOMAIN ui_events : ui_events[n].id # connection.id
       /\ \/ connection.id \in unseen
          \/ /\ connection.id \in DOMAIN rows
             /\ rows[connection.id] = CurrentRow(connection)

\* That holds of every tracked connection whose last change was sent.
RowsInStep ==
    \A key \in DOMAIN connections :
        connections[key].connection.id \notin NotYetSent =>
            Shows(connections[key].connection)

RowsInv == ChangesTracked /\ RowsInStep

MonitorInv ==
    /\ TrackerInv
    /\ CorrelatorTypeOK
    /\ ChannelsTypeOK
    /\ WorkerTypeOK
    /\ UiTypeOK
    /\ StreamInv
    /\ NoGhostRows
    /\ RowsInv

(***************************************************************************)
(* Action properties                                                       *)
(***************************************************************************)

\* A later state of a connection, and of its row: totals do not shrink, and a
\* process that was known still is.
ConnectionGrows(old, new) ==
    /\ new.bytes_sent >= old.bytes_sent
    /\ new.bytes_received >= old.bytes_received
    /\ new.key = old.key
    /\ old.process # None => new.process = old.process

RowGrows(old, new) ==
    /\ new.kind = "connection"
    /\ new.packet_count >= old.packet_count
    /\ ConnectionGrows(old.connection, new.connection)

\* While a row stays in the table it never goes back to older totals and
\* never loses its process, whatever is queued, cleared or paused.
RowsNeverRegress ==
    [][\A id \in DOMAIN rows \cap DOMAIN rows' :
        rows[id].kind = "connection" => RowGrows(rows[id], rows'[id])]_vars

\* No message of the worker ever removes or overwrites the row of a captured
\* HTTP request, although requests and connections share one id column.
RequestRowsStay ==
    [][ui_events # <<>> /\ ui_events' = Tail(ui_events) /\ session' = session =>
        \A id \in DOMAIN rows : rows[id].kind = "request" =>
            id \in DOMAIN rows' /\ rows'[id] = rows[id]]_vars

\* What the worker was told within the window before now, in this session, of
\* connections between a request's client and the proxy whose owner it knew.
CandidatesFor(request) ==
    {h \in heard :
        /\ h.connection.key = [protocol |-> "TCP", local  |-> request.client,
                                                   remote |-> ProxyAddress]
        /\ h.connection.process # None
        /\ TimeDifference(h.observed_at, clock) <= CorrelationWindow}

\* A request is saved with the id of a connection only when, of all connections
\* heard of in the session, open or closed, this one alone can have carried it,
\* and when the database's row of that id shows this connection as it was heard
\* of, not one that an older session or a lost write left there.  So where the
\* connection it came over is among those it may be linked to, it is linked to
\* that or to none.  It may not be among them: when its owner was not found and
\* an older connection between the same endpoints is within the window, the code
\* takes that one.
LinkedToOnlyCandidate ==
    [][\A id \in DOMAIN request_rows' :
        LET connection_id == request_rows'[id]
        IN  /\ id \notin DOMAIN request_rows \/ request_rows[id] # connection_id
            /\ connection_id # None
            => /\ {h.connection.id : h \in CandidatesFor(Head(proxy_events))}
                    = {connection_id}
               /\ \E h \in heard :
                     /\ h.connection.id = connection_id
                     /\ ShownBy(connection_rows[connection_id], h.connection)]_vars

\* The history in the database is only added to: a stored connection keeps
\* its endpoints and its owner, and its totals never shrink.
HistoryKept ==
    [][\A id \in DOMAIN connection_rows :
        /\ id \in DOMAIN connection_rows'
        /\ connection_rows'[id].key = connection_rows[id].key
        /\ connection_rows'[id].bytes_sent >= connection_rows[id].bytes_sent
        /\ connection_rows'[id].bytes_received
             >= connection_rows[id].bytes_received
        /\ connection_rows[id].process_id # None =>
             connection_rows'[id].process_id = connection_rows[id].process_id
      ]_vars

(***************************************************************************)
(* What the proofs of RowsNeverRegress and RequestRowsStay rest on, beside *)
(* MonitorInv: whatever a row, or a message that will become one, shows is *)
(* older than what the tracker has, and messages are in order.             *)
(***************************************************************************)

\* A connection as it is tracked, and as it will be sent.
Versions ==
    {connections[key].connection : key \in DOMAIN connections}
        \cup {change.connection : change \in returned.changed}

Behind(id, row) ==
    /\ row.kind = "connection"
    /\ id \in DOMAIN observed
    /\ id \in DOMAIN packet_counts => row.packet_count <= packet_counts[id]
    /\ \A connection \in Versions :
          connection.id = id => ConnectionGrows(row.connection, connection)

Recorded(id, row) ==
    /\ row.kind = "request"
    /\ id < RequestRowId(next_request)
    /\ \A request \in UnderWay : RequestRowId(request) # id

Fits(id, row) == IF id < HighBit THEN Behind(id, row) ELSE Recorded(id, row)

\* Only the row of a connection is ever replaced, by a later one.
Follows(id, old, new) == id < HighBit /\ RowGrows(old, new)

Updates == {n \in DOMAIN ui_events : ui_events[n].type = "Connection"}

OrderInv ==
    /\ \A n \in Updates : Fits(ui_events[n].id, ui_events[n].row)
    /\ \A id \in DOMAIN rows : Fits(id, rows[id])
    /\ \A n, m \in Updates :
          n < m /\ ui_events[n].id = ui_events[m].id =>
              Follows(ui_events[n].id, ui_events[n].row, ui_events[m].row)
    /\ \A n \in Updates :
          ui_events[n].id \in DOMAIN rows =>
              Follows(ui_events[n].id, rows[ui_events[n].id],
                      ui_events[n].row)
    /\ \A n \in DOMAIN ui_events \ Updates : ui_events[n].id < HighBit

\* Requests under way have ids of their own, given out in order.
RequestsApart ==
    /\ \A id \in UnderWay : id < next_request
    /\ \A r, s \in in_flight : r.id = s.id => r = s
    /\ \A n, m \in DOMAIN proxy_events :
          proxy_events[n].id = proxy_events[m].id => n = m
    /\ \A r \in in_flight, n \in DOMAIN proxy_events :
          r.id # proxy_events[n].id

(***************************************************************************)
(* What the proof of HistoryKept rests on: in a session, what is stored    *)
(* under an id is an earlier state of what is tracked under it, and the    *)
(* correlator knows it by the same endpoints.                              *)
(***************************************************************************)

\* The database's row of an earlier state of a connection, or of this one.
StoredBefore(row, connection) ==
    /\ row.key = connection.key
    /\ row.bytes_sent <= connection.bytes_sent
    /\ row.bytes_received <= connection.bytes_received
    /\ row.process_id # None =>
          /\ connection.process # None
          /\ row.process_id = connection.process.pid

HistoryInv ==
    /\ connection_rows \in [DOMAIN connection_rows -> ConnectionRow]
    /\ \A id \in DOMAIN connection_rows :
          /\ id \in DOMAIN observed
          /\ connection_rows[id].key = observed[id].connection.key
          /\ \A connection \in Versions : connection.id = id =>
                StoredBefore(connection_rows[id], connection)
    /\ \A id \in DOMAIN observed, connection \in Versions :
          connection.id = id => connection.key = observed[id].connection.key

(***************************************************************************)
(* What the proofs of LinkedToOnlyCandidate rest on, beside MonitorInv:    *)
(* the correlator's entry of an id is the last of all it was shown under   *)
(* it, and an owner that was known then is still known, there and in the   *)
(* tracker.                                                                *)
(***************************************************************************)
HeardInv ==
    /\ heard \subseteq Observation
    /\ \A id \in DOMAIN observed :
          /\ observed[id] \in heard
          /\ observed[id].connection.id = id
    /\ \A h \in heard :
          LET id == h.connection.id
          IN  /\ id \in DOMAIN observed
              /\ ConnectionGrows(h.connection, observed[id].connection)
              /\ h.observed_at <= observed[id].observed_at
              /\ h.observed_at <= clock
              /\ \A connection \in Versions : connection.id = id =>
                    ConnectionGrows(h.connection, connection)

\* In a session, what is stored was heard of,
StoredWasHeard ==
    \A id \in DOMAIN connection_rows : \E h \in heard :
        h.connection.id = id /\ ShownBy(connection_rows[id], h.connection)

\* and while no statement fails, what the correlator knows of this session is in
\* the database, whatever earlier sessions left there under the same ids.
SavedAsObserved ==
    database => \A id \in DOMAIN observed :
        /\ id \in DOMAIN connection_rows
        /\ ShownBy(connection_rows[id], observed[id].connection)

\* With that, or at least with a failed save, the proof of HistoryComplete
\* knows that a request's connection is accounted for.
ObservedAccounted ==
    database =>
        DOMAIN observed \subseteq DOMAIN connection_rows \cup lost_connections

(***************************************************************************)
(* The stream of events as its consumers see it                            *)
(***************************************************************************)
Feed == INSTANCE ConnectionFeed
            WITH Id   <- U64,
                 open <- DOMAIN packet_counts,
                 used <- DOMAIN observed

\* The events the worker hands out keep the promise of ConnectionFeed: an id
\* begins once, ends at most once, after it began, and never comes back
\* within a session, through sweeps, FINs and reopened connections.
FeedPromise == Feed!SpecFeed

\* What the proxy does to the worker, and the worker to it, is ProxyFeed's.
FedByProxy == Proxy!SpecProxyFeed

(***************************************************************************)
(* Liveness                                                                *)
(***************************************************************************)

\* A connection the tracker has closed leaves the table for good.
ClosedRowsLeave ==
    \A id \in 1 .. MaxPackets :
        id \in returned.expired \cup returned.closed
            ~> [](id \notin DOMAIN rows)

\* A request the proxy has recorded reaches the table, while the user is
\* recording and does not clear, however much traffic is captured.
RequestsShown ==
    \A request \in Request :
        (\E n \in DOMAIN proxy_events : proxy_events[n] = request) ~>
            RequestRowId(request.id) \in DOMAIN rows

\* A packet under way is counted and shown: the worker, one packet per
\* iteration, and the frame loop catch up with a finite amount of traffic.
BacklogDrains ==
    captured # <<>> ~>
        captured = <<>> /\ returned = NothingReturned /\ ui_events = <<>>
=============================================================================
