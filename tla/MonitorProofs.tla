---------------------------- MODULE MonitorProofs ----------------------------
(***************************************************************************)
(* Theorems of Monitor, for every set of packets, processes and clients    *)
(* and every bound.                                                        *)
(***************************************************************************)
EXTENDS MonitorProperties, ConnectionTrackerProofs

-----------------------------------------------------------------------------
(***************************************************************************)
(* What one call of process_packet does to ids.                            *)
(***************************************************************************)
ChangedOnly(kind, entry) ==
    returned'.changed = {[kind |-> kind, connection |-> entry.connection]}

\* The ids of the table before a call, with the packet's own `id', are split
\* by the call into those still tracked, the expired and the closed.
SplitsIds(id) ==
    /\ TrackedIds' \cup returned'.expired \cup returned'.closed
         = TrackedIds \cup {id}
    /\ TrackedIds' \cap (returned'.expired \cup returned'.closed) = {}
    /\ returned'.expired \cap (returned'.closed \cup {id}) = {}
    /\ id \in TrackedIds' \cup returned'.closed
    /\ returned'.closed \subseteq {id}

\* If the packet's entry has an id that no other key of the table has, the
\* shared part of process_packet splits the ids.
LEMMA AccountIds ==
    ASSUME TrackerInv, next_id < MaxU64,
           NEW packet, NEW kind, NEW entry,
           Account(packet, kind, entry),
           \A k \in DOMAIN connections :
              k # KeyOf(packet) \/ k \in Idle(packet.timestamp) =>
                connections[k].connection.id # entry.connection.id,
           KeyOf(packet) \in DOMAIN connections \ Idle(packet.timestamp) =>
              connections[KeyOf(packet)].connection.id = entry.connection.id
    PROVE  /\ SplitsIds(entry.connection.id)
           /\ ChangedOnly(kind, entry)
<1> DEFINE key == KeyOf(packet)
<1> DEFINE idle == Idle(packet.timestamp)
<1> DEFINE id == entry.connection.id
<1>1. /\ returned'.expired = IdsOf(idle)
      /\ returned'.changed = {[kind |-> kind, connection |-> entry.connection]}
      /\ returned'.closed = IF EndsConnection(packet) THEN {id} ELSE {}
  BY DEF Account
<1>2. /\ \A k : k # key => (k \in DOMAIN connections' <=>
                               k \in DOMAIN connections \ idle)
      /\ key \in DOMAIN connections' <=> ~EndsConnection(packet)
      /\ \A k \in DOMAIN connections' :
            connections'[k] = IF k = key THEN entry ELSE connections[k]
  BY AccountTable
<1>3. idle \subseteq DOMAIN connections
  BY DEF Idle
<1>4. \A k, l \in DOMAIN connections :
         connections[k].connection.id = connections[l].connection.id => k = l
  BY DEF TrackerInv, IdsIdentify
<1> HIDE DEF key, idle, id
<1>5. IdsOf(idle) = {connections[k].connection.id : k \in idle}
  BY DEF IdsOf
<1>6. TrackedIds = {connections[k].connection.id : k \in DOMAIN connections}
  BY DEF TrackedIds, IdsOf
<1>7. TrackedIds' = {connections'[k].connection.id : k \in DOMAIN connections'}
  BY DEF TrackedIds, IdsOf
<1>8. /\ \A k \in DOMAIN connections :
            k # key \/ k \in idle => connections[k].connection.id # id
      /\ key \in DOMAIN connections \ idle =>
            connections[key].connection.id = id
  BY DEF key, idle, id
<1>9. \A i : i \in TrackedIds' <=>
         \/ i = id /\ ~EndsConnection(packet)
         \/ \E k \in DOMAIN connections \ idle :
               k # key /\ i = connections[k].connection.id
  <2>1. \A k \in DOMAIN connections' : connections'[k].connection.id =
            IF k = key THEN id ELSE connections[k].connection.id
    BY <1>2 DEF id
  <2> QED BY <1>2, <1>7, <2>1
<1>10. \A i : i \in TrackedIds \cup {id} <=>
         \/ i = id
         \/ \E k \in DOMAIN connections :
               k # key /\ i = connections[k].connection.id
         \/ \E k \in idle : i = connections[k].connection.id
  BY <1>3, <1>6, <1>8
<1>11. id \notin IdsOf(idle)
  BY <1>3, <1>5, <1>8
<1>12. TrackedIds' \cap IdsOf(idle) = {}
  BY <1>3, <1>4, <1>5, <1>9, <1>11
<1>13. EndsConnection(packet) => id \notin TrackedIds'
  BY <1>8, <1>9
<1>14. TrackedIds' \cup IdsOf(idle) \cup returned'.closed
         = TrackedIds \cup {id}
  BY <1>1, <1>3, <1>5, <1>9, <1>10
<1>15. id \in TrackedIds' \cup returned'.closed
  BY <1>1, <1>9
<1>16. SplitsIds(id)
  BY <1>1, <1>11, <1>12, <1>13, <1>14, <1>15 DEF SplitsIds
<1> QED BY <1>1, <1>16 DEF ChangedOnly, id

\* An update is of a tracked id.
LEMMA UpdateIds ==
    ASSUME TrackerInv, next_id < MaxU64,
           NEW packet \in CapturedPacket,
           UpdateConnection(packet)
    PROVE  /\ SplitsIds(Updated(packet).connection.id)
           /\ ChangedOnly("Updated", Updated(packet))
           /\ Updated(packet).connection.id \in TrackedIds
           /\ next_id' = next_id
<1> DEFINE key == KeyOf(packet)
<1>1. TrackerTypeOK
  BY DEF TrackerInv
<1>2. key \in DOMAIN connections \ Idle(packet.timestamp)
  BY DEF UpdateConnection, Known
<1>3. Updated(packet).connection.id = connections[key].connection.id
  BY <1>1, <1>2, UpdatedEntry
<1>4. \A k, l \in DOMAIN connections :
         connections[k].connection.id = connections[l].connection.id => k = l
  BY DEF TrackerInv, IdsIdentify
<1>5. Account(packet, "Updated", Updated(packet)) /\ next_id' = next_id
  BY DEF UpdateConnection
<1>6. Updated(packet).connection.id \in TrackedIds
  BY <1>2, <1>3 DEF TrackedIds, IdsOf
<1>7. \A k \in DOMAIN connections :
         k # key \/ k \in Idle(packet.timestamp) =>
           connections[k].connection.id # Updated(packet).connection.id
  BY <1>2, <1>3, <1>4
<1>8. /\ SplitsIds(Updated(packet).connection.id)
      /\ ChangedOnly("Updated", Updated(packet))
  BY <1>2, <1>3, <1>5, <1>7, AccountIds
<1> QED BY <1>5, <1>6, <1>8

\* A connection is opened under the next id, which nothing in the table has.
LEMMA OpenIds ==
    ASSUME TrackerInv, next_id < MaxU64,
           NEW packet \in CapturedPacket,
           OpenConnection(packet)
    PROVE  /\ SplitsIds(next_id)
           /\ ChangedOnly("Opened", Opened(packet))
           /\ Opened(packet).connection.id = next_id
           /\ next_id \notin TrackedIds
           /\ next_id' = next_id + 1
<1> DEFINE key == KeyOf(packet)
<1>1. TrackerTypeOK /\ next_id \in Nat
  BY WidthAssumption DEF TrackerInv, TrackerTypeOK, U64
<1>2. Opened(packet).connection.id = next_id
  BY <1>1, OpenedEntry
<1>3. \A k \in DOMAIN connections : connections[k].connection.id # next_id
  <2>1. \A k \in DOMAIN connections :
           /\ connections[k].connection.id < next_id
           /\ connections[k].connection.id \in Nat
    BY DEF TrackerInv, TrackerTypeOK, IdsIdentify, Tracked,
           NetworkConnection, U64
  <2> QED BY <1>1, <2>1
<1>4. key \notin DOMAIN connections \ Idle(packet.timestamp)
  BY DEF OpenConnection, Known
<1>5. Account(packet, "Opened", Opened(packet))
  BY DEF OpenConnection
<1>6. SplitsIds(next_id) /\ ChangedOnly("Opened", Opened(packet))
  BY <1>2, <1>3, <1>4, <1>5, AccountIds
<1>7. next_id' = next_id + 1
  BY <1>1, WidthAssumption DEF OpenConnection, SaturatingAdd
<1>8. next_id \notin TrackedIds
  BY <1>3 DEF TrackedIds, IdsOf
<1> QED BY <1>2, <1>6, <1>7, <1>8

-----------------------------------------------------------------------------
\* Within the bounds of a run the id counter does not saturate and
\* connection ids stay below the tag bit.
LEMMA IdBound ==
    ASSUME MonitorInv
    PROVE  /\ next_id \in Nat
           /\ next_id < MaxU64
           /\ next_id < HighBit
           /\ captured # <<>> => next_id <= packets
<1>1. /\ next_id \in Nat
      /\ captured \in Seq(CapturedPacket)
      /\ packets \in 0 .. MaxPackets
      /\ next_id + Len(captured) <= packets + 1
  BY WidthAssumption
  DEF MonitorInv, TrackerInv, TrackerTypeOK, U64, ChannelsTypeOK, StreamInv,
      IdsInOrder
<1>2. Len(captured) \in Nat /\ (captured # <<>> => Len(captured) >= 1)
  BY <1>1
<1> QED BY <1>1, <1>2, IdSpaceAssumption, WidthAssumption

\* Handling an event takes something off `returned' and leaves the table.
LEMMA TrackerQuiet ==
    ASSUME TrackerInv, UNCHANGED <<connections, next_id>>,
           returned' \in Returned
    PROVE  TrackerInv'
BY DEF TrackerInv, TrackerTypeOK, IdsIdentify, FiledUnderOwnKey

\* What is sent for a change is well typed.
LEMMA ChangeTyped ==
    ASSUME TrackerInv, NEW change \in returned.changed
    PROVE  /\ change.connection \in NetworkConnection
           /\ change.connection.id \in U64
           /\ change.kind \in {"Opened", "Updated"}
BY DEF TrackerInv, TrackerTypeOK, Returned, Changed, NetworkConnection

LEMMA ReturnedIdsTyped ==
    ASSUME TrackerInv
    PROVE  returned.expired \subseteq U64 /\ returned.closed \subseteq U64
BY DEF TrackerInv, TrackerTypeOK, Returned

-----------------------------------------------------------------------------
(***************************************************************************)
(* Type correctness, part by part.                                         *)
(***************************************************************************)
LEMMA InitInv == Init => MonitorInv
<1> SUFFICES ASSUME Init PROVE MonitorInv
  OBVIOUS
<1>1. TrackerInv
  BY TrackerInitInv DEF Init
<1>2. DOMAIN EmptyMap = {} /\ EmptyMap \in [{} -> {}]
  BY DEF EmptyMap
<1>3. CorrelatorTypeOK
  BY <1>2 DEF Init, InitCorrelator, CorrelatorTypeOK, EmptyMap
<1>4. ChannelsTypeOK
  BY IdSpaceAssumption DEF Init, ChannelsTypeOK
<1>5. WorkerTypeOK
  BY <1>2, MonitorAssumption DEF Init, WorkerTypeOK, EmptyMap, Time
<1>6. UiTypeOK
  BY <1>2 DEF Init, UiTypeOK, EmptyMap
<1>7. TrackedIds = {} /\ returned = NothingReturned /\ next_id = 1
  BY <1>2 DEF Init, InitTracker, TrackedIds, IdsOf
<1>8. ReturnedInStep
  BY <1>7 DEF ReturnedInStep, NothingReturned, NotYetSent
<1>9. IdsInOrder
  BY <1>2, <1>7
  DEF Init, InitCorrelator, IdsInOrder, NothingReturned, NotYetOpened
<1>10. CountsMatchTracker
  BY <1>2, <1>7
  DEF Init, CountsMatchTracker, NothingReturned, NotYetOpened
<1>11. NoGhostRows
  BY <1>2 DEF Init, NoGhostRows
<1>12. RowsInv
  BY <1>2, <1>7
  DEF Init, InitTracker, RowsInv, ChangesTracked, RowsInStep, NothingReturned
<1> QED
  BY <1>1, <1>3, <1>4, <1>5, <1>6, <1>8, <1>9, <1>10, <1>11, <1>12
  DEF MonitorInv, StreamInv

\* A packet taken from the channel, with its process resolved, is a packet.
LEMMA HeadPacket ==
    ASSUME MonitorInv, captured # <<>>, NEW process \in Process \cup {None}
    PROVE  /\ [Head(captured) EXCEPT !.process = process] \in CapturedPacket
           /\ Tail(captured) \in Seq(CapturedPacket)
           /\ Len(Tail(captured)) = Len(captured) - 1
<1>1. captured \in Seq(CapturedPacket)
  BY DEF MonitorInv, ChannelsTypeOK
<1>2. Head(captured) \in CapturedPacket
  BY <1>1
<1>3. [Head(captured) EXCEPT !.process = process] \in CapturedPacket
  BY <1>2 DEF CapturedPacket
<1> QED BY <1>1, <1>3

LEMMA TrackerPart ==
    ASSUME MonitorInv, [Next]_vars PROVE TrackerInv'
<1>1. TrackerInv
  BY DEF MonitorInv
<1>2. ASSUME NEW process \in Process \cup {None}, ReceivePacket(process)
      PROVE  TrackerInv'
  <2> DEFINE packet == [Head(captured) EXCEPT !.process = process]
  <2>1. packet \in CapturedPacket /\ ProcessPacket(packet)
    BY <1>2, HeadPacket DEF ReceivePacket
  <2> QED BY <1>1, <2>1, UpdateKeepsInv, OpenKeepsInv DEF ProcessPacket
<1>3. ASSUME NEW id, HandleExpired(id) \/ HandleEnded(id)
      PROVE  TrackerInv'
  BY <1>1, <1>3, TrackerQuiet
  DEF HandleExpired, HandleEnded, TrackerInv, TrackerTypeOK, Returned
<1>4. ASSUME NEW change \in returned.changed, HandleChanged(change)
      PROVE  TrackerInv'
  BY <1>1, <1>4, TrackerQuiet
  DEF HandleChanged, TrackerInv, TrackerTypeOK, Returned
<1>5. CASE Restart
  <2>1. InitTracker'
    BY <1>5 DEF Restart, InitTracker
  <2> QED BY <2>1, TrackerInitInv, PTL
<1>6. ASSUME UNCHANGED trackerVars PROVE TrackerInv'
  BY <1>1, <1>6, TrackerQuiet DEF trackerVars, TrackerInv, TrackerTypeOK
<1> QED
  BY <1>2, <1>3, <1>4, <1>5, <1>6
  DEF Next, Worker, Frame, Capture, TakeRequestId, SendProxyEvent, Tick,
      ReceiveTimeout, PacketHandled, HandleProxyEvent, EndIteration,
      ReceiveConnection, ReceiveClosed, ToggleRecording, Clear,
      UiLeavesAlone, vars

\* Inserting a value of type S into a map to S keeps the map's type.
LEMMA InsertTyped ==
    ASSUME NEW D, NEW S, NEW map, NEW k \in D, NEW v \in S,
           DOMAIN map \subseteq D,
           map \in [DOMAIN map -> S]
    PROVE  /\ DOMAIN Insert(map, k, v) \subseteq D
           /\ Insert(map, k, v) \in [DOMAIN Insert(map, k, v) -> S]
BY DEF Insert

\* Removing keys does too.
LEMMA WithoutTyped ==
    ASSUME NEW D, NEW S, NEW map, NEW keys,
           DOMAIN map \subseteq D,
           map \in [DOMAIN map -> S]
    PROVE  /\ DOMAIN Without(map, keys) \subseteq D
           /\ Without(map, keys) \in [DOMAIN Without(map, keys) -> S]
BY DEF Without, Restrict

LEMMA EmptyMapTyped ==
    \A D, S : /\ DOMAIN EmptyMap = {}
              /\ DOMAIN EmptyMap \subseteq D
              /\ EmptyMap \in [DOMAIN EmptyMap -> S]
BY DEF EmptyMap

LEMMA CorrelatorPart ==
    ASSUME MonitorInv, [Next]_vars PROVE CorrelatorTypeOK'
<1>1. CorrelatorTypeOK /\ TrackerInv /\ clock \in Time
  BY DEF MonitorInv, WorkerTypeOK
<1>2. ASSUME NEW change \in returned.changed, HandleChanged(change)
      PROVE  CorrelatorTypeOK'
  <2> DEFINE new == [connection |-> change.connection, observed_at |-> clock]
  <2>1. change.connection.id \in U64 /\ new \in Observation
    BY <1>1, ChangeTyped DEF Observation
  <2>2. observed' = Insert(observed, change.connection.id, new)
    BY <1>2 DEF HandleChanged, ObserveConnection
  <2>3. DOMAIN observed \subseteq U64 /\ observed \in [DOMAIN observed -> Observation]
    BY <1>1 DEF CorrelatorTypeOK
  <2> HIDE DEF new
  <2>4. /\ DOMAIN observed' \subseteq U64
        /\ observed' \in [DOMAIN observed' -> Observation]
    BY ONLY <2>1, <2>2, <2>3, InsertTyped
  <2> QED BY <2>4 DEF CorrelatorTypeOK
<1>3. CASE Restart
  BY <1>3, EmptyMapTyped DEF Restart, CorrelatorTypeOK
<1>4. ASSUME UNCHANGED observed PROVE CorrelatorTypeOK'
  BY <1>1, <1>4 DEF CorrelatorTypeOK
<1> QED
  BY <1>2, <1>3, <1>4
  DEF Next, Worker, Frame, Capture, TakeRequestId, SendProxyEvent, Tick,
      ReceivePacket, ReceiveTimeout, HandleExpired, HandleEnded, Close,
      PacketHandled, HandleProxyEvent, EndIteration, ReceiveConnection,
      ReceiveClosed, ToggleRecording, Clear, UiLeavesAlone, vars

\* Every message the worker sends is well typed.
LEMMA SentMessages ==
    ASSUME MonitorInv
    PROVE  /\ \A id \in U64 : [type |-> "Closed", id |-> id] \in Message
           /\ \A change \in returned.changed, count \in U64 :
                 [type |-> "Connection", id |-> change.connection.id,
                  row |-> ConnectionRowOf(change.connection, count)] \in Message
           /\ \A request \in Request, process \in Process \cup {None} :
                 [type |-> "Connection", id |-> RequestRowId(request.id),
                  row |-> RequestRowOf(request, process)] \in Message
<1>1. TrackerInv /\ U64 \subseteq Nat
  BY DEF MonitorInv, U64
<1>2. \A id \in U64 : [type |-> "Closed", id |-> id] \in Message
  BY <1>1 DEF Message
<1>3. ASSUME NEW change \in returned.changed, NEW count \in U64
      PROVE  [type |-> "Connection", id |-> change.connection.id,
              row |-> ConnectionRowOf(change.connection, count)] \in Message
  <2>1. /\ change.connection.id \in Nat
        /\ ConnectionRowOf(change.connection, count) \in Row
    BY <1>1, ChangeTyped DEF ConnectionRowOf, Row
  <2> QED BY <2>1 DEF Message
<1>4. ASSUME NEW request \in Request, NEW process \in Process \cup {None}
      PROVE  [type |-> "Connection", id |-> RequestRowId(request.id),
              row |-> RequestRowOf(request, process)] \in Message
  <2>1. request.id \in Nat /\ request.client \in Endpoint
    BY DEF Request
  <2>2. RequestRowId(request.id) \in Nat
    BY <2>1, IdSpaceAssumption DEF RequestRowId
  <2>3. RequestRowOf(request, process) \in Row
    BY <2>1 DEF RequestRowOf, Row
  <2> QED BY <2>2, <2>3 DEF Message
<1> QED BY <1>2, <1>3, <1>4

\* The count of a change's connection after handle_network_event.
CountOf(id) ==
    SaturatingAdd(IF id \in DOMAIN packet_counts THEN packet_counts[id] ELSE 0,
                  1)

LEMMA CountTyped ==
    ASSUME MonitorInv, NEW id PROVE CountOf(id) \in U64
<1>1. DOMAIN packet_counts \subseteq U64
      /\ packet_counts \in [DOMAIN packet_counts -> U64]
  BY DEF MonitorInv, WorkerTypeOK
<1>2. 0 \in U64 /\ 1 \in U64
  BY WidthAssumption DEF U64
<1>3. (IF id \in DOMAIN packet_counts THEN packet_counts[id] ELSE 0) \in U64
  BY <1>1, <1>2
<1> QED BY <1>2, <1>3, SaturatingAddBounds DEF CountOf

LEMMA ChannelsPart ==
    ASSUME MonitorInv, [Next]_vars PROVE ChannelsTypeOK'
<1>1. ChannelsTypeOK /\ TrackerInv /\ CorrelatorTypeOK /\ clock \in Time
  BY DEF MonitorInv, WorkerTypeOK
<1>2. ASSUME NEW packet \in Packet, Capture(packet) PROVE ChannelsTypeOK'
  <2>1. [packet EXCEPT !.timestamp = clock, !.process = None]
          \in CapturedPacket
    BY <1>1, PacketAssumption DEF CapturedPacket
  <2>2. captured' \in Seq(CapturedPacket)
    BY <1>1, <1>2, <2>1 DEF Capture, ChannelsTypeOK
  <2> QED BY <1>1, <1>2, <2>2, MonitorAssumption, IdSpaceAssumption
          DEF Capture, ChannelsTypeOK, proxyVars
<1>3. ASSUME NEW client \in Client, TakeRequestId(client)
      PROVE  ChannelsTypeOK'
  <2>1. next_request \in 1 .. MaxRequests
    BY <1>1, <1>3, IdSpaceAssumption DEF TakeRequestId, ChannelsTypeOK
  <2>2. [id |-> next_request, client |-> client] \in Request
    BY <2>1, MonitorAssumption DEF Request
  <2>3. next_request' \in 1 .. MaxRequests + 1
    BY <1>3, <2>1, IdSpaceAssumption DEF TakeRequestId, Proxy!Take
  <2> QED BY <1>1, <1>3, <2>2, <2>3
          DEF TakeRequestId, Proxy!Take, ChannelsTypeOK, worldVars
<1>4. ASSUME NEW request \in in_flight, SendProxyEvent(request)
      PROVE  ChannelsTypeOK'
  BY <1>1, <1>4 DEF SendProxyEvent, Proxy!Deliver, ChannelsTypeOK, worldVars
<1>5. ASSUME NEW process \in Process \cup {None}, ReceivePacket(process)
      PROVE  ChannelsTypeOK'
  BY <1>1, <1>5, HeadPacket
  DEF ReceivePacket, ChannelsTypeOK, proxyVars, worldVars
<1>6. ASSUME NEW id \in returned.expired \cup returned.closed,
             HandleExpired(id) \/ HandleEnded(id)
      PROVE  ChannelsTypeOK'
  <2>1. [type |-> "Closed", id |-> id] \in Message
    BY <1>1, ReturnedIdsTyped, SentMessages
  <2>2. ui_events' = Append(ui_events, [type |-> "Closed", id |-> id])
    BY <1>6 DEF HandleExpired, HandleEnded, Close, Send
  <2>3. ui_events' \in Seq(Message)
    BY <1>1, <2>1, <2>2 DEF ChannelsTypeOK
  <2> QED BY <1>1, <1>6, <2>3
          DEF HandleExpired, HandleEnded, ChannelsTypeOK, proxyVars, worldVars
<1>7. ASSUME NEW change \in returned.changed, HandleChanged(change)
      PROVE  ChannelsTypeOK'
  <2> DEFINE id == change.connection.id
  <2>1. ui_events' = Append(ui_events,
            [type |-> "Connection", id |-> id,
             row |-> ConnectionRowOf(change.connection, CountOf(id))])
    BY <1>7 DEF HandleChanged, Send, CountOf
  <2>2. ui_events' \in Seq(Message)
    BY <1>1, <2>1, SentMessages, CountTyped DEF ChannelsTypeOK
  <2> QED BY <1>1, <1>7, <2>2
          DEF HandleChanged, ChannelsTypeOK, proxyVars, worldVars
<1>8. ASSUME NEW resolved \in Process \cup {None}, HandleProxyEvent(resolved)
      PROVE  ChannelsTypeOK'
  <2> DEFINE request == Head(proxy_events)
  <2> DEFINE match == Correlated("TCP", request.client, ProxyAddress, clock)
  <2>1. request \in Request /\ Tail(proxy_events) \in Seq(Request)
    BY <1>1, <1>8 DEF HandleProxyEvent, ChannelsTypeOK
  <2>2. \A id \in match : observed[id].connection.process
                             \in Process \cup {None}
    BY <1>1 DEF Correlated, Matches, CorrelatorTypeOK, Observation,
                NetworkConnection
  <2> HIDE DEF match, request
  <2>3. PICK process \in Process \cup {None} :
            ui_events' = Append(ui_events,
                [type |-> "Connection", id |-> RequestRowId(request.id),
                 row |-> RequestRowOf(request, process)])
    BY <1>8, <2>2 DEF HandleProxyEvent, Send, match, request
  <2>4. ui_events' \in Seq(Message)
    BY <1>1, <2>1, <2>3, SentMessages DEF ChannelsTypeOK
  <2> QED BY <1>1, <1>8, <2>1, <2>4
          DEF HandleProxyEvent, ChannelsTypeOK, worldVars
<1>9. CASE Frame
  <2>1. ui_events' = Tail(ui_events) /\ ui_events # <<>> /\ UiLeavesAlone
    BY <1>9 DEF Frame, ReceiveConnection, ReceiveClosed
  <2> QED BY <1>1, <2>1
          DEF UiLeavesAlone, ChannelsTypeOK, proxyVars, worldVars
<1>10. CASE Restart
  BY <1>10, IdSpaceAssumption DEF Restart, ChannelsTypeOK
<1>11. ASSUME UNCHANGED <<captured, proxyVars, ui_events, packets>>
       PROVE  ChannelsTypeOK'
  BY <1>1, <1>11 DEF ChannelsTypeOK, proxyVars
<1> QED
  BY <1>2, <1>3, <1>4, <1>5, <1>6, <1>7, <1>8, <1>9, <1>10, <1>11
  DEF Next, Worker, Tick, ReceiveTimeout, PacketHandled, EndIteration,
      ToggleRecording, Clear, UiLeavesAlone, vars, worldVars

LEMMA WorkerPart ==
    ASSUME MonitorInv, [Next]_vars PROVE WorkerTypeOK'
<1>1. /\ WorkerTypeOK /\ TrackerInv
      /\ DOMAIN packet_counts \subseteq U64
      /\ packet_counts \in [DOMAIN packet_counts -> U64]
  BY DEF MonitorInv, WorkerTypeOK
<1>2. ASSUME NEW id, HandleExpired(id) \/ HandleEnded(id)
      PROVE  WorkerTypeOK'
  <2>1. packet_counts' = Without(packet_counts, {id})
    BY <1>2 DEF HandleExpired, HandleEnded, Close
  <2>2. /\ DOMAIN packet_counts' \subseteq U64
        /\ packet_counts' \in [DOMAIN packet_counts' -> U64]
    BY ONLY <1>1, <2>1, WithoutTyped
  <2> QED BY <1>1, <1>2, <2>2
          DEF HandleExpired, HandleEnded, WorkerTypeOK, worldVars
<1>3. ASSUME NEW change \in returned.changed, HandleChanged(change)
      PROVE  WorkerTypeOK'
  <2> DEFINE id == change.connection.id
  <2>1. packet_counts' = Insert(packet_counts, id, CountOf(id))
    BY <1>3 DEF HandleChanged, CountOf
  <2>2. id \in U64 /\ CountOf(id) \in U64
    BY <1>1, ChangeTyped, CountTyped
  <2> HIDE DEF id
  <2>3. /\ DOMAIN packet_counts' \subseteq U64
        /\ packet_counts' \in [DOMAIN packet_counts' -> U64]
    BY ONLY <1>1, <2>1, <2>2, InsertTyped
  <2> QED BY <1>1, <1>3, <2>3
          DEF HandleChanged, WorkerTypeOK, worldVars
<1>4. CASE Restart
  BY <1>1, <1>4, EmptyMapTyped, MonitorAssumption DEF Restart, WorkerTypeOK
<1>5. CASE Tick
  BY <1>1, <1>5, MonitorAssumption DEF Tick, WorkerTypeOK, workerVars, Time
<1>6. ASSUME UNCHANGED <<packet_counts, clock, database>>,
             stage' \in {stage, "capture", "events", "proxy"}
      PROVE  WorkerTypeOK'
  BY <1>1, <1>6 DEF WorkerTypeOK
<1> QED
  BY <1>2, <1>3, <1>4, <1>5, <1>6
  DEF Next, Worker, Frame, Capture, TakeRequestId, SendProxyEvent,
      ReceivePacket, ReceiveTimeout, PacketHandled, HandleProxyEvent,
      EndIteration, ReceiveConnection, ReceiveClosed, ToggleRecording, Clear,
      UiLeavesAlone, vars, workerVars, worldVars

LEMMA UiPart ==
    ASSUME MonitorInv, [Next]_vars PROVE UiTypeOK'
<1>1. /\ ui_events \in Seq(Message)
      /\ DOMAIN rows \subseteq Nat
      /\ rows \in [DOMAIN rows -> Row]
      /\ unseen \subseteq Nat
      /\ recording \in BOOLEAN
  BY DEF MonitorInv, ChannelsTypeOK, UiTypeOK
<1>2. CASE ReceiveConnection
  <2> DEFINE message == Head(ui_events)
  <2>1. message \in Message /\ message.type = "Connection"
    BY <1>1, <1>2 DEF ReceiveConnection
  <2>2. message.id \in Nat /\ message.row \in Row
    BY <2>1 DEF Message
  <2>3. CASE recording
    <3>1. /\ rows' = Insert(rows, message.id, message.row)
          /\ unseen' \subseteq unseen /\ recording' = recording
      BY <1>2, <2>3 DEF ReceiveConnection
    <3> HIDE DEF message
    <3>2. DOMAIN rows' \subseteq Nat /\ rows' \in [DOMAIN rows' -> Row]
      BY ONLY <1>1, <2>2, <3>1, InsertTyped
    <3> QED BY <1>1, <3>1, <3>2 DEF UiTypeOK
  <2>4. CASE ~recording
    BY <1>1, <1>2, <2>2, <2>4 DEF ReceiveConnection, UiTypeOK
  <2> QED BY <2>3, <2>4
<1>3. CASE ReceiveClosed
  <2>1. PICK keys : rows' = Without(rows, keys)
    BY <1>3 DEF ReceiveClosed
  <2>2. DOMAIN rows' \subseteq Nat /\ rows' \in [DOMAIN rows' -> Row]
    BY ONLY <1>1, <2>1, WithoutTyped
  <2>3. unseen' \subseteq unseen /\ recording' = recording
    BY <1>3 DEF ReceiveClosed
  <2> QED BY <1>1, <2>2, <2>3 DEF UiTypeOK
<1>4. CASE ToggleRecording
  BY <1>1, <1>4 DEF ToggleRecording, UiTypeOK
<1>5. CASE Clear
  BY <1>1, <1>5, EmptyMapTyped DEF Clear, UiTypeOK
<1>6. CASE Restart
  BY <1>6, EmptyMapTyped DEF Restart, UiTypeOK
<1>7. ASSUME UNCHANGED uiVars PROVE UiTypeOK'
  BY <1>1, <1>7 DEF UiTypeOK, uiVars
<1> QED
  BY <1>2, <1>3, <1>4, <1>5, <1>6, <1>7
  DEF Next, Worker, Frame, Capture, TakeRequestId, SendProxyEvent, Tick,
      ReceivePacket, ReceiveTimeout, HandleExpired, HandleChanged,
      HandleEnded, PacketHandled, HandleProxyEvent, EndIteration, vars

-----------------------------------------------------------------------------
(***************************************************************************)
(* The stream of events.                                                   *)
(***************************************************************************)

\* A call of process_packet returns one change.
LEMMA ChangedIds ==
    ASSUME NEW kind, NEW entry, ChangedOnly(kind, entry)
    PROVE  /\ NotYetSent' = {entry.connection.id}
           /\ NotYetOpened' =
                IF kind = "Opened" THEN {entry.connection.id} ELSE {}
           /\ \A c, d \in returned'.changed : c = d
BY DEF ChangedOnly, NotYetSent, NotYetOpened

\* Between two packets the counts are those of the tracked connections.
LEMMA BetweenPackets ==
    ASSUME MonitorInv, stage # "events"
    PROVE  /\ returned = NothingReturned
           /\ DOMAIN packet_counts = TrackedIds
BY DEF MonitorInv, StreamInv, ReturnedInStep, CountsMatchTracker,
       NothingReturned, NotYetOpened

LEMMA ReceivePacketStream ==
    ASSUME MonitorInv,
           NEW process \in Process \cup {None}, ReceivePacket(process)
    PROVE  StreamInv'
<1> DEFINE packet == [Head(captured) EXCEPT !.process = process]
<1>1. /\ stage = "capture" /\ captured # <<>>
      /\ UNCHANGED <<observed, packet_counts, packets>>
      /\ captured' = Tail(captured)
      /\ stage' = "events"
      /\ ProcessPacket(packet)
  BY DEF ReceivePacket, worldVars
<1>2. packet \in CapturedPacket /\ Len(captured') = Len(captured) - 1
  BY <1>1, HeadPacket
<1>3. TrackerInv /\ next_id < MaxU64 /\ next_id \in Nat
  BY IdBound DEF MonitorInv
<1>4. DOMAIN packet_counts = TrackedIds
  BY <1>1, BetweenPackets
<1>5. /\ \A id \in DOMAIN observed : id < next_id
      /\ DOMAIN packet_counts \subseteq DOMAIN observed
      /\ next_id + Len(captured) <= packets + 1
  BY DEF MonitorInv, StreamInv, IdsInOrder
<1>6. captured \in Seq(CapturedPacket) /\ packets \in Nat
  BY DEF MonitorInv, ChannelsTypeOK
<1>7. \A id \in DOMAIN observed : id \in Nat
  BY DEF MonitorInv, CorrelatorTypeOK, U64
<1> HIDE DEF packet
<1>8. CASE UpdateConnection(packet)
  <2> DEFINE id == Updated(packet).connection.id
  <2>1. /\ SplitsIds(id)
        /\ ChangedOnly("Updated", Updated(packet))
        /\ id \in TrackedIds
        /\ next_id' = next_id
    BY <1>2, <1>3, <1>8, UpdateIds
  <2>2. /\ NotYetSent' = {id} /\ NotYetOpened' = {}
        /\ \A c, d \in returned'.changed : c = d
    BY <2>1, ChangedIds
  <2>3. ReturnedInStep'
    BY <1>1, <2>1, <2>2 DEF ReturnedInStep, SplitsIds
  <2>4. IdsInOrder'
    BY <1>1, <1>2, <1>3, <1>4, <1>5, <1>6, <2>1, <2>2
    DEF IdsInOrder, SplitsIds
  <2>5. CountsMatchTracker'
    BY <1>1, <1>4, <2>1, <2>2 DEF CountsMatchTracker, SplitsIds
  <2> QED BY <2>3, <2>4, <2>5 DEF StreamInv
<1>9. CASE OpenConnection(packet)
  <2> DEFINE id == Opened(packet).connection.id
  <2>1. /\ SplitsIds(next_id)
        /\ ChangedOnly("Opened", Opened(packet))
        /\ id = next_id
        /\ next_id \notin TrackedIds
        /\ next_id' = next_id + 1
    BY <1>2, <1>3, <1>9, OpenIds
  <2>2. /\ NotYetSent' = {next_id} /\ NotYetOpened' = {next_id}
        /\ \A c, d \in returned'.changed : c = d
    BY <2>1, ChangedIds
  <2>3. ReturnedInStep'
    BY <1>1, <2>1, <2>2 DEF ReturnedInStep, SplitsIds
  <2>4. IdsInOrder'
    <3>1. \A i \in DOMAIN observed' \cup returned'.closed : i < next_id'
      BY <1>1, <1>3, <1>5, <1>7, <2>1 DEF SplitsIds
    <3>2. DOMAIN observed' \cap NotYetOpened' = {}
      BY <1>1, <1>3, <1>5, <1>7, <2>2
    <3>3. next_id' + Len(captured') <= packets' + 1
      BY <1>1, <1>2, <1>3, <1>5, <1>6, <2>1
    <3> QED BY <1>1, <1>5, <3>1, <3>2, <3>3 DEF IdsInOrder
  <2>5. CountsMatchTracker'
    BY <1>1, <1>4, <2>1, <2>2 DEF CountsMatchTracker, SplitsIds
  <2> QED BY <2>3, <2>4, <2>5 DEF StreamInv
<1> QED BY <1>1, <1>8, <1>9 DEF ProcessPacket

LEMMA StreamPart ==
    ASSUME MonitorInv, [Next]_vars PROVE StreamInv'
<1>1. /\ ReturnedInStep /\ IdsInOrder /\ CountsMatchTracker
      /\ returned \in Returned
  BY DEF MonitorInv, StreamInv, TrackerInv, TrackerTypeOK
<1>2. /\ captured \in Seq(CapturedPacket) /\ packets \in Nat
      /\ next_id \in Nat
  BY IdBound DEF MonitorInv, ChannelsTypeOK
<1>3. ASSUME NEW packet \in Packet, Capture(packet) PROVE StreamInv'
  <2>1. /\ UNCHANGED <<connections, next_id, returned, observed,
                       packet_counts, stage>>
        /\ packets' = packets + 1
        /\ Len(captured') = Len(captured) + 1
    BY <1>2, <1>3 DEF Capture, trackerVars, workerVars
  <2> QED BY <1>1, <1>2, <2>1
          DEF StreamInv, ReturnedInStep, IdsInOrder, CountsMatchTracker,
              TrackedIds, IdsOf, NotYetOpened, NotYetSent
<1>4. ASSUME NEW process \in Process \cup {None}, ReceivePacket(process)
      PROVE  StreamInv'
  BY <1>4, ReceivePacketStream
<1>5. ASSUME NEW id \in returned.expired, HandleExpired(id)
      PROVE  StreamInv'
  <2>1. /\ UNCHANGED <<connections, next_id, observed, captured, packets,
                       stage>>
        /\ stage = "events"
        /\ DOMAIN packet_counts' = DOMAIN packet_counts \ {id}
        /\ returned'.expired = returned.expired \ {id}
        /\ returned'.changed = returned.changed
        /\ returned'.closed = returned.closed
    BY <1>1, <1>5 DEF HandleExpired, Close, Without, Restrict, worldVars,
                      Returned
  <2>2. /\ TrackedIds' = TrackedIds
        /\ NotYetOpened' = NotYetOpened
        /\ NotYetSent' = NotYetSent
    BY <2>1 DEF TrackedIds, IdsOf, NotYetOpened, NotYetSent
  <2>3. id \notin TrackedIds \cup returned.closed
    BY <1>1 DEF ReturnedInStep
  <2>4. ReturnedInStep'
    BY <1>1, <2>1, <2>2 DEF ReturnedInStep
  <2>5. IdsInOrder'
    BY <1>1, <2>1, <2>2 DEF IdsInOrder
  <2>6. CountsMatchTracker'
    BY <1>1, <2>1, <2>2, <2>3 DEF CountsMatchTracker
  <2> QED BY <2>4, <2>5, <2>6 DEF StreamInv
<1>6. ASSUME NEW id \in returned.closed, HandleEnded(id)
      PROVE  StreamInv'
  <2>1. /\ UNCHANGED <<connections, next_id, observed, captured, packets,
                       stage>>
        /\ stage = "events"
        /\ DOMAIN packet_counts' = DOMAIN packet_counts \ {id}
        /\ returned.expired = {} /\ returned'.expired = {}
        /\ returned.changed = {} /\ returned'.changed = {}
        /\ returned'.closed = returned.closed \ {id}
    BY <1>1, <1>6 DEF HandleEnded, Close, Without, Restrict, worldVars,
                      Returned
  <2>2. /\ TrackedIds' = TrackedIds
        /\ NotYetOpened' = {} /\ NotYetOpened = {}
        /\ NotYetSent' = {}
    BY <2>1 DEF TrackedIds, IdsOf, NotYetOpened, NotYetSent
  <2>3. id \notin TrackedIds
    BY <1>1 DEF ReturnedInStep
  <2>4. ReturnedInStep'
    BY <1>1, <2>1, <2>2 DEF ReturnedInStep
  <2>5. IdsInOrder'
    BY <1>1, <2>1, <2>2 DEF IdsInOrder
  <2>6. CountsMatchTracker'
    BY <1>1, <2>1, <2>2, <2>3 DEF CountsMatchTracker
  <2> QED BY <2>4, <2>5, <2>6 DEF StreamInv
<1>7. ASSUME NEW change \in returned.changed, HandleChanged(change)
      PROVE  StreamInv'
  <2> DEFINE id == change.connection.id
  <2>1. /\ UNCHANGED <<connections, next_id, captured, packets, stage>>
        /\ stage = "events"
        /\ DOMAIN packet_counts' = DOMAIN packet_counts \cup {id}
        /\ DOMAIN observed' = DOMAIN observed \cup {id}
        /\ returned.expired = {} /\ returned'.expired = {}
        /\ returned'.changed = returned.changed \ {change}
        /\ returned'.closed = returned.closed
    BY <1>1, <1>7 DEF HandleChanged, ObserveConnection, Insert, worldVars,
                      Returned
  <2>2. returned.changed = {change}
    BY <1>1 DEF ReturnedInStep
  <2>3. /\ TrackedIds' = TrackedIds
        /\ NotYetOpened' = {}
        /\ NotYetSent' = {}
        /\ NotYetSent = {id}
        /\ NotYetOpened \subseteq {id}
    BY <2>1, <2>2 DEF TrackedIds, IdsOf, NotYetOpened, NotYetSent
  <2>4. id \in TrackedIds \cup returned.closed
    BY <1>1, <2>3 DEF ReturnedInStep
  <2>5. id < next_id
    <3>1. \A i \in TrackedIds : i < next_id
      BY IdBound DEF MonitorInv, TrackerInv, IdsIdentify, TrackedIds, IdsOf
    <3> QED BY <1>1, <2>4, <3>1 DEF IdsInOrder
  <2>6. ReturnedInStep'
    BY <1>1, <2>1, <2>2, <2>3 DEF ReturnedInStep
  <2>7. IdsInOrder'
    BY <1>1, <2>1, <2>3, <2>5 DEF IdsInOrder
  <2>8. CountsMatchTracker'
    BY <1>1, <2>1, <2>3, <2>4 DEF CountsMatchTracker
  <2> QED BY <2>6, <2>7, <2>8 DEF StreamInv
<1>8. ASSUME UNCHANGED <<connections, next_id, returned, observed, captured,
                         packets, packet_counts>>,
             \/ UNCHANGED stage
             \/ stage # "events" /\ stage' # "events"
             \/ returned = NothingReturned
      PROVE  StreamInv'
  BY <1>1, <1>8
  DEF StreamInv, ReturnedInStep, IdsInOrder, CountsMatchTracker, TrackedIds,
      IdsOf, NotYetOpened, NotYetSent
<1>9. CASE Restart
  <2>1. DOMAIN EmptyMap = {}
    BY EmptyMapTyped
  <2>2. /\ connections' = EmptyMap /\ next_id' = 1
        /\ returned' = NothingReturned /\ observed' = EmptyMap
        /\ captured' = <<>> /\ packets' = 0
        /\ packet_counts' = EmptyMap /\ stage' = "capture"
    BY <1>9 DEF Restart
  <2>3. TrackedIds' = {} /\ NotYetOpened' = {} /\ NotYetSent' = {}
    BY <2>1, <2>2 DEF TrackedIds, IdsOf, NotYetOpened, NotYetSent,
                      NothingReturned
  <2>4. ReturnedInStep' /\ IdsInOrder' /\ CountsMatchTracker'
    BY <2>1, <2>2, <2>3
    DEF ReturnedInStep, IdsInOrder, CountsMatchTracker, NothingReturned
  <2> QED BY <2>4 DEF StreamInv
<1> QED
  BY <1>3, <1>4, <1>5, <1>6, <1>7, <1>8, <1>9
  DEF Next, Worker, Frame, TakeRequestId, SendProxyEvent, Tick,
      ReceiveTimeout, PacketHandled, HandleProxyEvent, EndIteration,
      ReceiveConnection, ReceiveClosed, ToggleRecording, Clear,
      UiLeavesAlone, vars, trackerVars, workerVars, worldVars

-----------------------------------------------------------------------------
(***************************************************************************)
(* No row without a counted connection or a Closed on its way.             *)
(***************************************************************************)

\* Taking a count away is covered by the Closed sent in the same step.
LEMMA ClosedSent ==
    ASSUME MonitorInv, NEW id,
           ui_events' = Append(ui_events, [type |-> "Closed", id |-> id]),
           DOMAIN packet_counts' = DOMAIN packet_counts \ {id},
           rows' = rows
    PROVE  NoGhostRows'
<1> DEFINE last == Len(ui_events) + 1
<1>1. /\ ui_events \in Seq(Message) /\ NoGhostRows
      /\ DOMAIN rows \subseteq Nat
  BY DEF MonitorInv, ChannelsTypeOK, UiTypeOK
<1>2. /\ DOMAIN ui_events = 1 .. Len(ui_events) /\ Len(ui_events) \in Nat
      /\ DOMAIN ui_events' = 1 .. last
      /\ \A n \in DOMAIN ui_events : ui_events'[n] = ui_events[n]
      /\ ui_events'[last] = [type |-> "Closed", id |-> id]
  BY <1>1
<1>3. \A i, n : ClosedAfter(i, n) => ClosedAfter(i, n)'
  BY <1>2 DEF ClosedAfter
<1>4. \A n \in 0 .. Len(ui_events) : ClosedAfter(id, n)'
  BY <1>2 DEF ClosedAfter
<1>5. \A i \in DOMAIN rows' :
         i < HighBit => i \in DOMAIN packet_counts' \/ ClosedAfter(i, 0)'
  BY <1>1, <1>2, <1>3, <1>4 DEF NoGhostRows
<1>6. \A i : \A n \in DOMAIN ui_events' :
         ui_events'[n].type = "Connection" /\ i = ui_events'[n].id
           /\ i < HighBit =>
             i \in DOMAIN packet_counts' \/ ClosedAfter(i, n)'
  <2> SUFFICES ASSUME NEW i, NEW n \in DOMAIN ui_events',
                      ui_events'[n].type = "Connection",
                      i = ui_events'[n].id, i < HighBit
               PROVE  i \in DOMAIN packet_counts' \/ ClosedAfter(i, n)'
    OBVIOUS
  <2>1. n \in DOMAIN ui_events /\ ui_events'[n] = ui_events[n]
        /\ n \in 0 .. Len(ui_events)
    BY <1>2
  <2>2. \/ ui_events[n].id \in DOMAIN packet_counts
        \/ ClosedAfter(ui_events[n].id, n)
    BY <1>1, <2>1 DEF NoGhostRows
  <2> QED BY <1>3, <1>4, <2>1, <2>2
<1> QED BY <1>5, <1>6 DEF NoGhostRows, ClosedAfter

\* An update may be sent for a counted connection or for a request.
LEMMA UpdateSent ==
    ASSUME MonitorInv, NEW id, NEW row,
           ui_events' = Append(ui_events, [type |-> "Connection", id |-> id,
                                           row |-> row]),
           DOMAIN packet_counts \subseteq DOMAIN packet_counts',
           id \in DOMAIN packet_counts' \/ ~(id < HighBit),
           rows' = rows
    PROVE  NoGhostRows'
<1> DEFINE last == Len(ui_events) + 1
<1>1. ui_events \in Seq(Message) /\ NoGhostRows
  BY DEF MonitorInv, ChannelsTypeOK
<1>2. /\ DOMAIN ui_events = 1 .. Len(ui_events) /\ Len(ui_events) \in Nat
      /\ DOMAIN ui_events' = 1 .. last
      /\ \A n \in DOMAIN ui_events : ui_events'[n] = ui_events[n]
      /\ ui_events'[last].id = id
  BY <1>1
<1>3. \A i, n : ClosedAfter(i, n) => ClosedAfter(i, n)'
  BY <1>2 DEF ClosedAfter
<1>4. \A i \in DOMAIN rows' :
         i < HighBit => i \in DOMAIN packet_counts' \/ ClosedAfter(i, 0)'
  BY <1>1, <1>3 DEF NoGhostRows
<1>5. \A i : \A n \in DOMAIN ui_events' :
         ui_events'[n].type = "Connection" /\ i = ui_events'[n].id
           /\ i < HighBit =>
             i \in DOMAIN packet_counts' \/ ClosedAfter(i, n)'
  <2> SUFFICES ASSUME NEW i, NEW n \in DOMAIN ui_events',
                      ui_events'[n].type = "Connection",
                      i = ui_events'[n].id, i < HighBit
               PROVE  i \in DOMAIN packet_counts' \/ ClosedAfter(i, n)'
    OBVIOUS
  <2>1. CASE n = last
    BY <1>2, <2>1
  <2>2. CASE n # last
    <3>1. n \in DOMAIN ui_events /\ ui_events'[n] = ui_events[n]
      BY <1>2, <2>2
    <3>2. \/ ui_events[n].id \in DOMAIN packet_counts
          \/ ClosedAfter(ui_events[n].id, n)
      BY <1>1, <3>1 DEF NoGhostRows
    <3> QED BY <1>3, <3>1, <3>2
  <2> QED BY <2>1, <2>2
<1> QED BY <1>4, <1>5 DEF NoGhostRows, ClosedAfter

\* The frame loop takes the first message: a row it writes has its Closed
\* still behind it, a row it removes needs none.
LEMMA MessageTaken ==
    ASSUME MonitorInv, Frame PROVE NoGhostRows'
<1> DEFINE message == Head(ui_events)
<1>1. ui_events \in Seq(Message) /\ NoGhostRows
  BY DEF MonitorInv, ChannelsTypeOK
<1>2. /\ ui_events # <<>> /\ ui_events' = Tail(ui_events)
      /\ packet_counts' = packet_counts
  BY DEF Frame, ReceiveConnection, ReceiveClosed, UiLeavesAlone, workerVars
<1>3. /\ message = ui_events[1] /\ 1 \in DOMAIN ui_events
      /\ DOMAIN ui_events = 1 .. Len(ui_events) /\ Len(ui_events) \in Nat
      /\ DOMAIN ui_events' = 1 .. Len(ui_events) - 1
      /\ \A n \in DOMAIN ui_events' : ui_events'[n] = ui_events[n + 1]
  BY <1>1, <1>2
<1> HIDE DEF message
<1>4. \A i, n : n \in Nat /\ ClosedAfter(i, n + 1) => ClosedAfter(i, n)'
  <2> SUFFICES ASSUME NEW i, NEW n \in Nat, ClosedAfter(i, n + 1)
               PROVE  ClosedAfter(i, n)'
    OBVIOUS
  <2>1. PICK j \in DOMAIN ui_events :
            j > n + 1 /\ ui_events[j].type = "Closed" /\ ui_events[j].id = i
    BY DEF ClosedAfter
  <2>2. /\ j - 1 \in DOMAIN ui_events' /\ j - 1 > n
        /\ ui_events'[j - 1] = ui_events[j]
    BY <1>3, <2>1
  <2> QED BY <2>1, <2>2 DEF ClosedAfter
<1>5. \A i : ClosedAfter(i, 0) =>
         ClosedAfter(i, 1) \/ (message.type = "Closed" /\ message.id = i)
  BY <1>3 DEF ClosedAfter
<1>6. \A i \in DOMAIN rows' :
         i < HighBit => i \in DOMAIN packet_counts' \/ ClosedAfter(i, 0)'
  <2>1. CASE ReceiveConnection
    <3>1. /\ message.type = "Connection"
          /\ DOMAIN rows' \subseteq DOMAIN rows \cup {message.id}
      BY <2>1 DEF ReceiveConnection, Insert, message
    <3>2. \A i \in DOMAIN rows : i < HighBit =>
             i \in DOMAIN packet_counts \/ ClosedAfter(i, 1)
      BY <1>1, <1>5, <3>1 DEF NoGhostRows
    <3>3. message.id < HighBit =>
             message.id \in DOMAIN packet_counts \/ ClosedAfter(message.id, 1)
      BY <1>1, <1>3, <3>1 DEF NoGhostRows
    <3> QED BY <1>2, <1>4, <3>1, <3>2, <3>3
  <2>2. CASE ReceiveClosed
    <3>1. /\ message.type = "Closed"
          /\ DOMAIN rows' = DOMAIN rows \ {message.id}
      BY <2>2 DEF ReceiveClosed, Without, Restrict, message
    <3>2. \A i \in DOMAIN rows' : i < HighBit =>
             i \in DOMAIN packet_counts \/ ClosedAfter(i, 1)
      BY <1>1, <1>5, <3>1 DEF NoGhostRows
    <3> QED BY <1>2, <1>4, <3>2
  <2> QED BY <2>1, <2>2 DEF Frame
<1>7. \A i : \A n \in DOMAIN ui_events' :
         ui_events'[n].type = "Connection" /\ i = ui_events'[n].id
           /\ i < HighBit =>
             i \in DOMAIN packet_counts' \/ ClosedAfter(i, n)'
  <2> SUFFICES ASSUME NEW i, NEW n \in DOMAIN ui_events',
                      ui_events'[n].type = "Connection",
                      i = ui_events'[n].id, i < HighBit
               PROVE  i \in DOMAIN packet_counts' \/ ClosedAfter(i, n)'
    OBVIOUS
  <2>1. n + 1 \in DOMAIN ui_events /\ ui_events'[n] = ui_events[n + 1]
        /\ n \in Nat
    BY <1>3
  <2>2. \/ ui_events[n + 1].id \in DOMAIN packet_counts
        \/ ClosedAfter(ui_events[n + 1].id, n + 1)
    BY <1>1, <2>1 DEF NoGhostRows
  <2> QED BY <1>2, <1>4, <2>1, <2>2
<1> QED BY <1>6, <1>7 DEF NoGhostRows, ClosedAfter

LEMMA GhostPart ==
    ASSUME MonitorInv, [Next]_vars PROVE NoGhostRows'
<1>1. NoGhostRows /\ ChannelsTypeOK
  BY DEF MonitorInv
<1>2. ASSUME NEW id, HandleExpired(id) \/ HandleEnded(id)
      PROVE  NoGhostRows'
  <2>1. /\ rows' = rows
        /\ DOMAIN packet_counts' = DOMAIN packet_counts \ {id}
    BY <1>2 DEF HandleExpired, HandleEnded, Close, Without, Restrict, uiVars
  <2>2. ui_events' = Append(ui_events, [type |-> "Closed", id |-> id])
    BY <1>2 DEF HandleExpired, HandleEnded, Close, Send
  <2> QED BY <2>1, <2>2, ClosedSent
<1>3. ASSUME NEW change \in returned.changed, HandleChanged(change)
      PROVE  NoGhostRows'
  <2> DEFINE id == change.connection.id
  <2>1. /\ rows' = rows
        /\ DOMAIN packet_counts' = DOMAIN packet_counts \cup {id}
    BY <1>3 DEF HandleChanged, Insert, uiVars
  <2>2. ui_events' = Append(ui_events,
            [type |-> "Connection", id |-> id,
             row |-> ConnectionRowOf(change.connection, CountOf(id))])
    BY <1>3 DEF HandleChanged, Send, CountOf
  <2> HIDE DEF id
  <2> QED BY <2>1, <2>2, UpdateSent
<1>4. ASSUME NEW resolved \in Process \cup {None}, HandleProxyEvent(resolved)
      PROVE  NoGhostRows'
  <2> DEFINE request == Head(proxy_events)
  <2>1. /\ rows' = rows /\ packet_counts' = packet_counts
        /\ request \in Request
    BY <1>1, <1>4 DEF HandleProxyEvent, uiVars, workerVars, ChannelsTypeOK
  <2>2. ~(RequestRowId(request.id) < HighBit)
    BY <2>1, IdSpaceAssumption DEF RequestRowId, Request
  <2>3. PICK process :
            ui_events' = Append(ui_events,
                [type |-> "Connection", id |-> RequestRowId(request.id),
                 row |-> RequestRowOf(request, process)])
    BY <1>4 DEF HandleProxyEvent, Send
  <2> HIDE DEF request
  <2> QED BY <2>1, <2>2, <2>3, UpdateSent
<1>5. CASE Frame
  BY <1>5, MessageTaken
<1>6. CASE Clear
  BY <1>1, <1>6, EmptyMapTyped
  DEF Clear, UiLeavesAlone, workerVars, NoGhostRows, ClosedAfter
<1>7. CASE Restart
  BY <1>7, EmptyMapTyped DEF Restart, NoGhostRows
<1>8. ASSUME UNCHANGED <<rows, ui_events, packet_counts>> PROVE NoGhostRows'
  BY <1>1, <1>8 DEF NoGhostRows, ClosedAfter
<1>9. ASSUME \/ \E packet \in Packet : Capture(packet)
             \/ \E client \in Client : TakeRequestId(client)
             \/ \E request \in in_flight : SendProxyEvent(request)
             \/ \E process \in Process \cup {None} : ReceivePacket(process)
             \/ Tick \/ ReceiveTimeout \/ PacketHandled \/ EndIteration
             \/ ToggleRecording \/ UNCHANGED vars
      PROVE  UNCHANGED <<rows, ui_events, packet_counts>>
  BY <1>9
  DEF Capture, TakeRequestId, SendProxyEvent, Tick, ReceivePacket,
      ReceiveTimeout, PacketHandled, EndIteration, ToggleRecording,
      UiLeavesAlone, vars, uiVars, workerVars
<1> QED
  BY <1>2, <1>3, <1>4, <1>5, <1>6, <1>7, <1>8, <1>9 DEF Next, Worker

-----------------------------------------------------------------------------
(***************************************************************************)
(* Rows follow the tracker.                                                *)
(***************************************************************************)

\* A connection is a value, while the table it is found in changes.
LEMMA RowsByConnection ==
    ASSUME \A k \in DOMAIN connections' : \A c :
              c = connections'[k].connection /\ c.id \notin NotYetSent' =>
                Shows(c)'
    PROVE  RowsInStep'
BY DEF RowsInStep, Shows, CurrentRow

\* A packet changes one entry, and no other entry has its id.
LEMMA OneEntryChanges ==
    ASSUME TrackerInv, next_id < MaxU64,
           NEW packet \in CapturedPacket, ProcessPacket(packet)
    PROVE  \E entry :
              /\ \A change \in returned'.changed :
                    change.connection = entry.connection
              /\ NotYetSent' = {entry.connection.id}
              /\ \A k \in DOMAIN connections' :
                    \/ connections'[k] = entry
                    \/ /\ k \in DOMAIN connections
                       /\ connections'[k] = connections[k]
                       /\ connections[k].connection.id # entry.connection.id
<1> DEFINE key == KeyOf(packet)
<1>1. ASSUME NEW kind, NEW entry, Account(packet, kind, entry),
             \A k \in DOMAIN connections :
                k # key => connections[k].connection.id # entry.connection.id
      PROVE  /\ \A change \in returned'.changed :
                   change.connection = entry.connection
             /\ NotYetSent' = {entry.connection.id}
             /\ \A k \in DOMAIN connections' :
                   \/ connections'[k] = entry
                   \/ /\ k \in DOMAIN connections
                      /\ connections'[k] = connections[k]
                      /\ connections[k].connection.id # entry.connection.id
  <2>1. returned'.changed = {[kind |-> kind, connection |-> entry.connection]}
    BY <1>1 DEF Account
  <2>2. NotYetSent' = {entry.connection.id}
    BY <2>1 DEF NotYetSent
  <2>3. \A k \in DOMAIN connections' :
           \/ connections'[k] = entry
           \/ /\ k \in DOMAIN connections
              /\ connections'[k] = connections[k]
              /\ connections[k].connection.id # entry.connection.id
    BY <1>1, AccountTable
  <2> QED BY <2>1, <2>2, <2>3
<1>2. CASE UpdateConnection(packet)
  <2>1. key \in DOMAIN connections
    BY <1>2 DEF UpdateConnection, Known
  <2>2. Updated(packet).connection.id = connections[key].connection.id
    BY <2>1, UpdatedEntry DEF TrackerInv
  <2>3. \A k \in DOMAIN connections :
           k # key => connections[k].connection.id # Updated(packet).connection.id
    BY <2>1, <2>2 DEF TrackerInv, IdsIdentify
  <2>4. Account(packet, "Updated", Updated(packet))
    BY <1>2 DEF UpdateConnection
  <2> HIDE DEF key
  <2> QED BY <1>1, <2>3, <2>4
<1>3. CASE OpenConnection(packet)
  <2>1. Opened(packet).connection.id = next_id
    BY OpenedEntry DEF TrackerInv
  <2>2. next_id \notin TrackedIds
    BY <1>3, OpenIds
  <2>3. \A k \in DOMAIN connections :
           k # key => connections[k].connection.id # Opened(packet).connection.id
    BY <2>1, <2>2 DEF TrackedIds, IdsOf
  <2>4. Account(packet, "Opened", Opened(packet))
    BY <1>3 DEF OpenConnection
  <2> HIDE DEF key
  <2> QED BY <1>1, <2>3, <2>4
<1> QED BY <1>2, <1>3 DEF ProcessPacket

LEMMA ReceivePacketRows ==
    ASSUME MonitorInv,
           NEW process \in Process \cup {None}, ReceivePacket(process)
    PROVE  RowsInv'
<1> DEFINE packet == [Head(captured) EXCEPT !.process = process]
<1>1. /\ stage = "capture" /\ captured # <<>>
      /\ UNCHANGED <<packet_counts, ui_events, rows, unseen>>
      /\ ProcessPacket(packet)
  BY DEF ReceivePacket, uiVars
<1>2. packet \in CapturedPacket
  BY <1>1, HeadPacket
<1>3. TrackerInv /\ next_id < MaxU64 /\ RowsInStep
  BY IdBound DEF MonitorInv, RowsInv
<1>4. NotYetSent = {}
  BY <1>1, BetweenPackets DEF NothingReturned, NotYetSent
<1> HIDE DEF packet
<1>5. PICK entry :
         /\ \A change \in returned'.changed :
               change.connection = entry.connection
         /\ NotYetSent' = {entry.connection.id}
         /\ \A k \in DOMAIN connections' :
               \/ connections'[k] = entry
               \/ /\ k \in DOMAIN connections
                  /\ connections'[k] = connections[k]
                  /\ connections[k].connection.id # entry.connection.id
  BY <1>1, <1>2, <1>3, OneEntryChanges
<1>6. ChangesTracked'
  BY <1>5 DEF ChangesTracked
<1>7. RowsInStep'
  <2> SUFFICES ASSUME NEW k \in DOMAIN connections', NEW c,
                      c = connections'[k].connection, c.id \notin NotYetSent'
               PROVE  Shows(c)'
    BY RowsByConnection
  <2>1. k \in DOMAIN connections /\ connections'[k] = connections[k]
    BY <1>5
  <2>2. Shows(c)
    BY <1>3, <1>4, <2>1 DEF RowsInStep
  <2> QED BY <1>1, <2>2 DEF Shows, CurrentRow
<1> QED BY <1>6, <1>7 DEF RowsInv

\* Every tracked connection whose change was sent is counted.
LEMMA TrackedCounted ==
    ASSUME MonitorInv
    PROVE  \A id \in TrackedIds \ NotYetSent : id \in DOMAIN packet_counts
BY DEF MonitorInv, StreamInv, CountsMatchTracker, NotYetSent, NotYetOpened

\* A message about something else leaves a connection shown.
LEMMA ShownBesides ==
    ASSUME MonitorInv, NEW connection, Shows(connection),
           NEW message, ui_events' = Append(ui_events, message),
           message.id # connection.id,
           packet_counts'[connection.id] = packet_counts[connection.id],
           UNCHANGED <<rows, unseen>>
    PROVE  Shows(connection)'
<1> DEFINE last == Len(ui_events) + 1
<1>1. /\ DOMAIN ui_events = 1 .. Len(ui_events) /\ Len(ui_events) \in Nat
      /\ DOMAIN ui_events' = 1 .. last
      /\ \A n \in DOMAIN ui_events : ui_events'[n] = ui_events[n]
      /\ ui_events'[last] = message
  BY DEF MonitorInv, ChannelsTypeOK
<1>2. CurrentRow(connection)' = CurrentRow(connection)
  BY DEF CurrentRow, ConnectionRowOf
<1>3. \A j \in DOMAIN ui_events' \ DOMAIN ui_events :
         ui_events'[j].id # connection.id
  BY <1>1
<1>4. DOMAIN ui_events \subseteq DOMAIN ui_events'
  BY <1>1
<1>5. UNCHANGED <<rows, unseen>>
  OBVIOUS
<1> HIDE DEF last
<1>6. ASSUME NEW n \in DOMAIN ui_events,
             ui_events[n] = [type |-> "Connection", id |-> connection.id,
                             row |-> CurrentRow(connection)],
             \A j \in DOMAIN ui_events : j > n => ui_events[j].id # connection.id
      PROVE  Shows(connection)'
  <2>1. /\ n \in DOMAIN ui_events'
        /\ ui_events'[n] = [type |-> "Connection", id |-> connection.id,
                            row |-> CurrentRow(connection)']
    BY <1>1, <1>2, <1>4, <1>6
  <2>2. \A j \in DOMAIN ui_events' : j > n => ui_events'[j].id # connection.id
    BY <1>1, <1>3, <1>6
  <2> QED BY <2>1, <2>2 DEF Shows
<1>7. CASE \A n \in DOMAIN ui_events : ui_events[n].id # connection.id
  <2>1. \A n \in DOMAIN ui_events' : ui_events'[n].id # connection.id
    BY <1>1, <1>3, <1>7
  <2>2. \/ connection.id \in unseen
        \/ /\ connection.id \in DOMAIN rows
           /\ rows[connection.id] = CurrentRow(connection)
    BY <1>7 DEF Shows
  <2> QED BY <1>2, <1>5, <2>1, <2>2 DEF Shows
<1> QED BY <1>6, <1>7 DEF Shows

LEMMA ChangedRows ==
    ASSUME MonitorInv,
           NEW change \in returned.changed, HandleChanged(change)
    PROVE  RowsInv'
<1> DEFINE id == change.connection.id
<1> DEFINE message == [type |-> "Connection", id |-> id,
                       row |-> ConnectionRowOf(change.connection, CountOf(id))]
<1>1. /\ UNCHANGED <<connections, rows, unseen>>
      /\ returned' = [returned EXCEPT !.changed = @ \ {change}]
      /\ packet_counts' = Insert(packet_counts, id, CountOf(id))
      /\ ui_events' = Append(ui_events, message)
  BY DEF HandleChanged, Send, CountOf, uiVars
<1>2. /\ \A c \in returned.changed : c = change
      /\ ChangesTracked /\ RowsInStep
      /\ returned \in Returned
  BY DEF MonitorInv, StreamInv, ReturnedInStep, RowsInv, TrackerInv,
         TrackerTypeOK
<1>3. returned'.changed = {}
  BY <1>1, <1>2 DEF Returned
<1>4. NotYetSent = {id}
  BY <1>2 DEF NotYetSent
<1>5. ASSUME NEW k \in DOMAIN connections, NEW c,
             c = connections[k].connection
      PROVE  Shows(c)'
  <2>1. CASE c.id = id
    <3> DEFINE last == Len(ui_events) + 1
    <3>1. c = change.connection
      BY <1>2, <1>5, <2>1 DEF ChangesTracked
    <3>2. packet_counts'[id] = CountOf(id)
      BY <1>1 DEF Insert
    <3>3. ui_events \in Seq(Message)
      BY DEF MonitorInv, ChannelsTypeOK
    <3> HIDE DEF message
    <3>4. /\ last \in DOMAIN ui_events' /\ ui_events'[last] = message
          /\ \A j \in DOMAIN ui_events' : ~(j > last)
      BY <1>1, <3>3
    <3> HIDE DEF last
    <3> QED BY <3>1, <3>2, <3>4 DEF Shows, CurrentRow, message
  <2>2. CASE c.id # id
    <3>1. Shows(c)
      BY <1>2, <1>4, <1>5, <2>2 DEF RowsInStep
    <3>2. packet_counts'[c.id] = packet_counts[c.id]
      <4>1. c.id \in DOMAIN packet_counts
        BY <1>4, <1>5, <2>2, TrackedCounted DEF TrackedIds, IdsOf
      <4> QED BY <1>1, <2>2, <4>1 DEF Insert
    <3> QED BY <1>1, <2>2, <3>1, <3>2, ShownBesides
  <2> QED BY <2>1, <2>2
<1>6. ChangesTracked'
  BY <1>3 DEF ChangesTracked
<1>7. RowsInStep'
  BY <1>1, <1>5, RowsByConnection
<1> QED BY <1>6, <1>7 DEF RowsInv

\* Closed is sent for a connection that is not tracked any more.
LEMMA ClosedRows ==
    ASSUME MonitorInv,
           NEW id \in returned.expired \cup returned.closed,
           HandleExpired(id) \/ HandleEnded(id)
    PROVE  RowsInv'
<1>1. /\ UNCHANGED <<connections, rows, unseen>>
      /\ returned'.changed = returned.changed
      /\ packet_counts' = Without(packet_counts, {id})
      /\ ui_events' = Append(ui_events, [type |-> "Closed", id |-> id])
  BY DEF MonitorInv, TrackerInv, TrackerTypeOK, Returned, HandleExpired,
         HandleEnded, Close, Send, uiVars
<1>2. id \notin TrackedIds /\ ChangesTracked /\ RowsInStep
  BY DEF MonitorInv, StreamInv, ReturnedInStep, RowsInv
<1>3. ASSUME NEW k \in DOMAIN connections, NEW c,
             c = connections[k].connection, c.id \notin NotYetSent
      PROVE  Shows(c)'
  <2>1. c.id \in TrackedIds /\ Shows(c)
    BY <1>2, <1>3 DEF RowsInStep, TrackedIds, IdsOf
  <2>2. c.id \in DOMAIN packet_counts
    BY <1>3, <2>1, TrackedCounted
  <2>3. packet_counts'[c.id] = packet_counts[c.id]
    BY <1>1, <1>2, <2>1, <2>2 DEF Without, Restrict
  <2> QED BY <1>1, <1>2, <2>1, <2>3, ShownBesides
<1>4. ChangesTracked'
  BY <1>1, <1>2 DEF ChangesTracked
<1>5. NotYetSent' = NotYetSent
  BY <1>1 DEF NotYetSent
<1>6. RowsInStep'
  BY <1>1, <1>3, <1>5, RowsByConnection
<1> QED BY <1>4, <1>6 DEF RowsInv

\* Rows of requests have ids of their own.
LEMMA RequestRows ==
    ASSUME MonitorInv,
           NEW resolved \in Process \cup {None}, HandleProxyEvent(resolved)
    PROVE  RowsInv'
<1> DEFINE request == Head(proxy_events)
<1>1. /\ UNCHANGED <<connections, returned, packet_counts, rows, unseen>>
      /\ request \in Request
  BY DEF MonitorInv, HandleProxyEvent, trackerVars, workerVars, uiVars,
         ChannelsTypeOK
<1>2. PICK process :
         ui_events' = Append(ui_events,
             [type |-> "Connection", id |-> RequestRowId(request.id),
              row |-> RequestRowOf(request, process)])
  BY DEF HandleProxyEvent, Send
<1>3. \A i \in TrackedIds : i # RequestRowId(request.id)
  <2>1. \A i \in TrackedIds : i \in Nat /\ i < next_id
    BY IdBound DEF MonitorInv, TrackerInv, TrackerTypeOK, IdsIdentify, Tracked,
                   NetworkConnection, U64, TrackedIds, IdsOf
  <2> QED BY <1>1, <2>1, IdBound, IdSpaceAssumption DEF RequestRowId, Request
<1> HIDE DEF request
<1>4. ASSUME NEW k \in DOMAIN connections, NEW c,
             c = connections[k].connection, c.id \notin NotYetSent
      PROVE  Shows(c)'
  <2>1. c.id # RequestRowId(request.id) /\ Shows(c)
    BY <1>3, <1>4 DEF RowsInStep, TrackedIds, IdsOf, MonitorInv, RowsInv
  <2> QED BY <1>1, <1>2, <2>1, ShownBesides
<1>5. ChangesTracked'
  BY <1>1 DEF MonitorInv, RowsInv, ChangesTracked
<1>6. NotYetSent' = NotYetSent
  BY <1>1 DEF NotYetSent
<1>7. RowsInStep'
  BY <1>1, <1>4, <1>6, RowsByConnection
<1> QED BY <1>5, <1>7 DEF RowsInv

\* The frame loop takes a message: if it was the last about a connection, the
\* row is what it says, or the user missed it.
LEMMA ShownWhenTaken ==
    ASSUME MonitorInv, Frame, NEW connection, Shows(connection)
    PROVE  Shows(connection)'
<1> DEFINE message == Head(ui_events)
<1> DEFINE id == connection.id
<1>1. ui_events \in Seq(Message)
  BY DEF MonitorInv, ChannelsTypeOK
<1>2. /\ ui_events # <<>> /\ ui_events' = Tail(ui_events)
      /\ packet_counts' = packet_counts
  BY DEF Frame, ReceiveConnection, ReceiveClosed, UiLeavesAlone, workerVars
<1>3. /\ message = ui_events[1] /\ 1 \in DOMAIN ui_events
      /\ DOMAIN ui_events = 1 .. Len(ui_events) /\ Len(ui_events) \in Nat
      /\ DOMAIN ui_events' = 1 .. Len(ui_events) - 1
      /\ \A n \in DOMAIN ui_events' : ui_events'[n] = ui_events[n + 1]
  BY <1>1, <1>2
<1>4. CurrentRow(connection)' = CurrentRow(connection)
  BY <1>2 DEF CurrentRow
<1>5. /\ message.type = "Connection" =>
            IF recording
              THEN /\ rows' = Insert(rows, message.id, message.row)
                   /\ unseen' = unseen \ {message.id}
              ELSE rows' = rows /\ unseen' = unseen \cup {message.id}
      /\ message.type # "Connection" =>
            /\ rows' = Without(rows, {message.id})
            /\ unseen' = unseen \ {message.id}
  BY DEF Frame, ReceiveConnection, ReceiveClosed
<1> HIDE DEF message
<1>6. CASE \A n \in DOMAIN ui_events : ui_events[n].id # id
  <2>1. /\ message.id # id
        /\ \A n \in DOMAIN ui_events' : ui_events'[n].id # id
    BY <1>3, <1>6
  <2>2. /\ id \in unseen => id \in unseen'
        /\ id \in DOMAIN rows => id \in DOMAIN rows' /\ rows'[id] = rows[id]
    BY <1>5, <2>1 DEF Insert, Without, Restrict
  <2>3. id \in unseen \/ (id \in DOMAIN rows /\ rows[id] = CurrentRow(connection))
    BY <1>3, <1>6 DEF Shows
  <2> QED BY <1>4, <2>1, <2>2, <2>3 DEF Shows
<1>7. ASSUME NEW n \in DOMAIN ui_events,
             ui_events[n] = [type |-> "Connection", id |-> id,
                             row |-> CurrentRow(connection)],
             \A j \in DOMAIN ui_events : j > n => ui_events[j].id # id
      PROVE  Shows(connection)'
  <2>1. CASE n = 1
    <3>1. /\ message.type = "Connection" /\ message.id = id
          /\ message.row = CurrentRow(connection)
      BY <1>3, <1>7, <2>1
    <3>2. \A j \in DOMAIN ui_events' : ui_events'[j].id # id
      BY <1>3, <1>7, <2>1
    <3>3. \/ id \in unseen'
          \/ id \in DOMAIN rows' /\ rows'[id] = CurrentRow(connection)
      BY <1>5, <3>1 DEF Insert
    <3> QED BY <1>4, <3>2, <3>3 DEF Shows
  <2>2. CASE n # 1
    <3>1. n - 1 \in DOMAIN ui_events' /\ ui_events'[n - 1] = ui_events[n]
      BY <1>3, <2>2
    <3>2. \A j \in DOMAIN ui_events' : j > n - 1 => ui_events'[j].id # id
      BY <1>3, <1>7
    <3> QED BY <1>4, <1>7, <3>1, <3>2 DEF Shows
  <2> QED BY <2>1, <2>2
<1> QED BY <1>6, <1>7 DEF Shows

LEMMA RowsPart ==
    ASSUME MonitorInv, [Next]_vars PROVE RowsInv'
<1>1. ChangesTracked /\ RowsInStep
  BY DEF MonitorInv, RowsInv
<1>2. CASE Frame
  <2>1. UNCHANGED <<connections, returned>>
    BY <1>2 DEF Frame, ReceiveConnection, ReceiveClosed, UiLeavesAlone,
                trackerVars
  <2>2. ASSUME NEW k \in DOMAIN connections, NEW c,
               c = connections[k].connection, c.id \notin NotYetSent
        PROVE  Shows(c)'
    <3>1. Shows(c)
      BY <1>1, <2>2 DEF RowsInStep
    <3> QED BY <1>2, <3>1, ShownWhenTaken
  <2>3. RowsInStep'
    BY <2>1, <2>2, RowsByConnection DEF NotYetSent
  <2> QED BY <1>1, <2>1, <2>3 DEF RowsInv, ChangesTracked
<1>3. CASE Clear
  <2>1. /\ UNCHANGED <<connections, returned, packet_counts, ui_events>>
        /\ unseen' = unseen \cup DOMAIN rows
    BY <1>3 DEF Clear, UiLeavesAlone, trackerVars, workerVars
  <2> QED BY <1>1, <2>1
          DEF RowsInv, ChangesTracked, RowsInStep, NotYetSent, Shows,
              CurrentRow
<1>4. CASE Restart
  <2>1. DOMAIN connections' = {}
    BY <1>4, EmptyMapTyped DEF Restart
  <2> QED BY <2>1 DEF RowsInv, ChangesTracked, RowsInStep
<1>5. ASSUME UNCHANGED <<connections, returned, packet_counts, ui_events, rows,
                         unseen>>
      PROVE  RowsInv'
  BY <1>1, <1>5
  DEF RowsInv, ChangesTracked, RowsInStep, NotYetSent, Shows, CurrentRow
<1>6. ASSUME \/ \E packet \in Packet : Capture(packet)
             \/ \E client \in Client : TakeRequestId(client)
             \/ \E request \in in_flight : SendProxyEvent(request)
             \/ Tick \/ ReceiveTimeout \/ PacketHandled \/ EndIteration
             \/ ToggleRecording \/ UNCHANGED vars
      PROVE  UNCHANGED <<connections, returned, packet_counts, ui_events, rows,
                         unseen>>
  BY <1>6
  DEF Capture, TakeRequestId, SendProxyEvent, Tick, ReceiveTimeout,
      PacketHandled, EndIteration, ToggleRecording, UiLeavesAlone, vars,
      uiVars, workerVars, trackerVars
<1> QED
  BY <1>2, <1>3, <1>4, <1>5, <1>6, ReceivePacketRows, ChangedRows, ClosedRows,
     RequestRows
  DEF Next, Worker

LEMMA StepInv == MonitorInv /\ [Next]_vars => MonitorInv'
BY TrackerPart, CorrelatorPart, ChannelsPart, WorkerPart, UiPart, StreamPart,
   GhostPart, RowsPart
DEF MonitorInv

-----------------------------------------------------------------------------
(***************************************************************************)
(* Theorems                                                                *)
(***************************************************************************)

\* Every conjunct of MonitorInv survives every step of capture, proxy,
\* worker, frame loop, user and restart.
THEOREM MonitorInvariant == Spec => []MonitorInv
<1>1. Init => MonitorInv
  BY InitInv
<1>2. MonitorInv /\ [Next]_vars => MonitorInv'
  BY StepInv
<1> QED BY <1>1, <1>2, PTL DEF Spec

\* The running program is well typed in every state: what travels through
\* its channels and what its maps hold is what their readers expect.
THEOREM MonitorTyped == Spec => []MonitorTypeOK
<1>1. MonitorInv => MonitorTypeOK
  BY DEF MonitorInv, MonitorTypeOK, TrackerInv
<1> QED BY <1>1, MonitorInvariant, PTL

\* packet_counts of run_components holds exactly the connections opened and
\* not closed towards the user, between any two events of a packet.
THEOREM CountsAreExact == Spec => []CountsMatchTracker
<1>1. MonitorInv => CountsMatchTracker
  BY DEF MonitorInv, StreamInv
<1> QED BY <1>1, MonitorInvariant, PTL

\* No row of the table outlives its connection without a Closed for it being
\* queued (handle_network_event against receive_runtime_events).
THEOREM NoRowIsGhost == Spec => []NoGhostRows
<1>1. MonitorInv => NoGhostRows
  BY DEF MonitorInv
<1> QED BY <1>1, MonitorInvariant, PTL

\* A tracked connection's row shows it as tracker and worker have it once
\* nothing is under way, unless the user paused or cleared
\* (handle_network_event against receive_runtime_events).
THEOREM RowsAreCurrent == Spec => []RowsCurrent
<1>1. MonitorInv => RowsCurrent
  BY DEF MonitorInv, RowsInv, RowsInStep, Shows, CurrentRow, RowsCurrent,
         UpdateQueued
<1> QED BY <1>1, MonitorInvariant, PTL

\* Every step of the program begins an id that was never used, ends one that
\* is open, or leaves the stream of events as it is.
LEMMA FeedStep ==
    ASSUME MonitorInv, [Next]_vars
    PROVE  [Feed!NextFeed]_(Feed!feedVars)
<1> DEFINE open == DOMAIN packet_counts
<1> DEFINE used == DOMAIN observed
<1>1. /\ CountsMatchTracker /\ ReturnedInStep /\ TrackerInv
      /\ used \cap NotYetOpened = {}
      /\ open \subseteq used
  BY DEF MonitorInv, StreamInv, IdsInOrder
<1>2. ASSUME NEW id \in returned.expired \cup returned.closed,
             HandleExpired(id) \/ HandleEnded(id),
             id \notin NotYetOpened
      PROVE  Feed!NextFeed
  <2>1. id \in U64 /\ id \in open
    BY <1>1, <1>2, ReturnedIdsTyped DEF CountsMatchTracker
  <2>2. /\ (DOMAIN packet_counts)' = open \ {id}
        /\ (DOMAIN observed)' = used
    BY <1>2 DEF HandleExpired, HandleEnded, Close, Without, Restrict
  <2>3. Feed!End(id)
    BY <2>1, <2>2 DEF Feed!End
  <2> QED BY <2>1, <2>3 DEF Feed!NextFeed
<1>3. ASSUME NEW id \in returned.expired, HandleExpired(id)
      PROVE  id \notin NotYetOpened
  BY <1>1 DEF ReturnedInStep, NotYetOpened, NotYetSent
<1>4. ASSUME NEW id \in returned.closed, HandleEnded(id)
      PROVE  id \notin NotYetOpened
  BY <1>4 DEF HandleEnded, NotYetOpened
<1>5. ASSUME NEW change \in returned.changed, HandleChanged(change)
      PROVE  Feed!NextFeed \/ UNCHANGED Feed!feedVars
  <2> DEFINE id == change.connection.id
  <2>1. /\ (DOMAIN packet_counts)' = open \cup {id}
        /\ (DOMAIN observed)' = used \cup {id}
    BY <1>5 DEF HandleChanged, ObserveConnection, Insert
  <2>2. id \in U64 /\ change.kind \in {"Opened", "Updated"}
    BY <1>1, ChangeTyped
  <2>3. CASE change.kind = "Opened"
    <3>1. id \in NotYetOpened
      BY <2>3 DEF NotYetOpened
    <3>2. Feed!Begin(id)
      BY <1>1, <2>1, <3>1 DEF Feed!Begin
    <3> QED BY <2>2, <3>2 DEF Feed!NextFeed
  <2>4. CASE change.kind = "Updated"
    <3>1. id \in NotYetSent /\ NotYetOpened = {} /\ returned.expired = {}
      BY <1>1, <1>5, <2>4
      DEF ReturnedInStep, NotYetOpened, NotYetSent, HandleChanged
    <3>2. id \in open
      BY <1>1, <3>1 DEF CountsMatchTracker, ReturnedInStep
    <3> QED BY <1>1, <2>1, <3>2 DEF Feed!feedVars
  <2> QED BY <2>2, <2>3, <2>4
<1>6. CASE Restart
  <2>1. (DOMAIN packet_counts)' = {} /\ (DOMAIN observed)' = {}
    BY <1>6, EmptyMapTyped DEF Restart
  <2> QED BY <2>1 DEF Feed!NextFeed, Feed!NewSession
<1>7. ASSUME UNCHANGED <<packet_counts, observed>>
      PROVE  UNCHANGED Feed!feedVars
  BY <1>7 DEF Feed!feedVars
<1>8. ASSUME \/ \E packet \in Packet : Capture(packet)
             \/ \E client \in Client : TakeRequestId(client)
             \/ \E request \in in_flight : SendProxyEvent(request)
             \/ \E process \in Process \cup {None} :
                  ReceivePacket(process) \/ HandleProxyEvent(process)
             \/ Tick \/ ReceiveTimeout \/ PacketHandled \/ EndIteration
             \/ Frame \/ ToggleRecording \/ Clear \/ UNCHANGED vars
      PROVE  UNCHANGED <<packet_counts, observed>>
  BY <1>8
  DEF Capture, TakeRequestId, SendProxyEvent, Tick, ReceivePacket,
      ReceiveTimeout, PacketHandled, HandleProxyEvent, EndIteration, Frame,
      ReceiveConnection, ReceiveClosed, ToggleRecording, Clear,
      UiLeavesAlone, vars, workerVars
<1> QED
  BY <1>2, <1>3, <1>4, <1>5, <1>6, <1>7, <1>8 DEF Next, Worker

\* The program implements ConnectionFeed: an id handed to correlator,
\* database and table begins once, ends at most once, and never returns
\* within a session.
THEOREM FeedPromiseKept == Spec => FeedPromise
<1>1. Init => Feed!InitFeed
  BY EmptyMapTyped DEF Init, InitCorrelator, Feed!InitFeed
<1>2. MonitorInv /\ [Next]_vars => [Feed!NextFeed]_(Feed!feedVars)
  BY FeedStep
<1> QED
  BY <1>1, <1>2, MonitorInvariant, PTL DEF Spec, FeedPromise, Feed!SpecFeed


-----------------------------------------------------------------------------
(***************************************************************************)
(* Growth: connections, counts and requests from one state to the next.    *)
(***************************************************************************)
\* What grew twice has grown.
LEMMA GrowthIsTransitive ==
    ASSUME NEW a \in NetworkConnection, NEW b \in NetworkConnection,
           NEW c \in NetworkConnection,
           ConnectionGrows(a, b), ConnectionGrows(b, c)
    PROVE  ConnectionGrows(a, c)
BY WidthAssumption DEF ConnectionGrows, NetworkConnection, U64

\* Rows are of two kinds, and that of a connection follows itself.
LEMMA RowKinds ==
    ASSUME NEW row \in Row
    PROVE  /\ row.kind = "connection" =>
                /\ row.connection \in NetworkConnection
                /\ row.packet_count \in U64
                /\ RowGrows(row, row)
           /\ row.kind \in {"connection", "request"}
BY WidthAssumption
DEF Row, RowGrows, ConnectionGrows, NetworkConnection, U64

\* Every version of a connection the correlator knows is a later state of one
\* there was before the step.
VersionsGrow ==
    \A new \in Versions' :
        new.id \in DOMAIN observed =>
            \E old \in Versions : old.id = new.id /\ ConnectionGrows(old, new)

\* No count a row may show is taken back, and only new requests get under way.
CountsGrow ==
    /\ DOMAIN observed \subseteq DOMAIN observed'
    /\ \A id \in DOMAIN packet_counts' :
          id \in DOMAIN observed =>
              /\ id \in DOMAIN packet_counts
              /\ packet_counts[id] <= packet_counts'[id]
RequestsGrow ==
    /\ next_request <= next_request'
    /\ \A id \in UnderWay' : id \in UnderWay \/ id >= next_request

\* The parts of the types that growth is about.
OrderTypes ==
    /\ Versions \subseteq NetworkConnection
    /\ \A id \in DOMAIN packet_counts : packet_counts[id] \in Nat
    /\ UnderWay \subseteq Nat
    /\ next_request \in Nat

LEMMA VersionsTyped == MonitorInv => OrderTypes
<1> SUFFICES ASSUME MonitorInv PROVE OrderTypes
  OBVIOUS
<1>1. Versions \subseteq NetworkConnection
  BY DEF MonitorInv, TrackerInv, TrackerTypeOK, Tracked, Returned, Changed,
         Versions
<1>2. UnderWay \subseteq Nat /\ next_request \in Nat
  <2>1. in_flight \subseteq Request /\ proxy_events \in Seq(Request)
    BY DEF MonitorInv, ChannelsTypeOK
  <2>2. \A n \in DOMAIN proxy_events : proxy_events[n] \in Request
    BY <2>1
  <2>3. next_request \in 1 .. MaxRequests + 1
    BY DEF MonitorInv, ChannelsTypeOK
  <2> QED BY <2>1, <2>2, <2>3, IdSpaceAssumption DEF UnderWay, Request
<1>3. \A id \in DOMAIN packet_counts : packet_counts[id] \in Nat
  BY DEF MonitorInv, WorkerTypeOK, U64
<1> QED BY <1>1, <1>2, <1>3 DEF OrderTypes

\* A step that brings no version makes none shrink.
LEMMA FewerVersions ==
    ASSUME MonitorInv, Versions' \subseteq Versions PROVE VersionsGrow
<1>1. \A c \in NetworkConnection : ConnectionGrows(c, c)
  BY WidthAssumption DEF ConnectionGrows, NetworkConnection, U64
<1> QED BY <1>1, VersionsTyped DEF VersionsGrow, OrderTypes

\* A packet makes its connection grow, or opens one that was never shown.
LEMMA ReceivePacketGrows ==
    ASSUME MonitorInv,
           NEW process \in Process \cup {None}, ReceivePacket(process)
    PROVE  VersionsGrow
<1> DEFINE packet == [Head(captured) EXCEPT !.process = process]
<1>1. packet \in CapturedPacket /\ ProcessPacket(packet)
  BY HeadPacket DEF ReceivePacket
<1>2. /\ TrackerInv /\ next_id < MaxU64 /\ OrderTypes
      /\ \A id \in DOMAIN observed : id < next_id
      /\ next_id \in Nat
  BY IdBound, VersionsTyped DEF MonitorInv, StreamInv, IdsInOrder
<1> HIDE DEF packet
<1>3. \A c \in NetworkConnection : ConnectionGrows(c, c)
  BY WidthAssumption DEF ConnectionGrows, NetworkConnection, U64
<1>4. \A k \in DOMAIN connections : connections[k].connection \in Versions
  BY DEF Versions
<1>5. ASSUME NEW kind, NEW entry, Account(packet, kind, entry)
      PROVE  Versions' \subseteq Versions \cup {entry.connection}
  <2>1. returned'.changed = {[kind |-> kind, connection |-> entry.connection]}
    BY <1>5 DEF Account
  <2>2. \A k \in DOMAIN connections' :
           \/ connections'[k] = entry
           \/ k \in DOMAIN connections /\ connections'[k] = connections[k]
    BY <1>5, AccountTable
  <2> QED BY <1>4, <2>1, <2>2 DEF Versions
<1>6. CASE UpdateConnection(packet)
  <2> DEFINE key == KeyOf(packet)
  <2>1. key \in DOMAIN connections
    BY <1>6 DEF UpdateConnection, Known
  <2>2. /\ Updated(packet).connection.id = connections[key].connection.id
        /\ ConnectionGrows(connections[key].connection,
                           Updated(packet).connection)
    BY <1>1, <1>2, <2>1, UpdatedEntry DEF TrackerInv, ConnectionGrows
  <2>3. Versions' \subseteq Versions \cup {Updated(packet).connection}
    BY <1>5, <1>6 DEF UpdateConnection
  <2> HIDE DEF key
  <2> QED BY <1>2, <1>3, <1>4, <2>1, <2>2, <2>3 DEF VersionsGrow, OrderTypes
<1>7. CASE OpenConnection(packet)
  <2>1. Opened(packet).connection.id = next_id
    BY <1>1, <1>2, OpenedEntry DEF TrackerInv
  <2>2. Opened(packet).connection.id \notin DOMAIN observed
    BY <1>2, <2>1
  <2>3. Versions' \subseteq Versions \cup {Opened(packet).connection}
    BY <1>5, <1>7 DEF OpenConnection
  <2> QED BY <1>2, <1>3, <2>2, <2>3 DEF VersionsGrow, OrderTypes
<1> QED BY <1>1, <1>6, <1>7 DEF ProcessPacket

\* Only the worker's packet brings a version; only a restart starts over.
LEMMA VersionsStep ==
    ASSUME MonitorInv, [Next]_vars, ~Restart PROVE VersionsGrow
<1>1. ASSUME connections' = connections,
             returned'.changed \subseteq returned.changed
      PROVE  VersionsGrow
  BY <1>1, FewerVersions DEF Versions
<1>2. returned \in Returned
  BY DEF MonitorInv, TrackerInv, TrackerTypeOK
<1>3. ASSUME \/ \E id \in returned.expired : HandleExpired(id)
             \/ \E change \in returned.changed : HandleChanged(change)
             \/ \E id \in returned.closed : HandleEnded(id)
      PROVE  /\ connections' = connections
             /\ returned'.changed \subseteq returned.changed
  BY <1>2, <1>3 DEF HandleExpired, HandleChanged, HandleEnded, Returned
<1>4. ASSUME \/ \E packet \in Packet : Capture(packet)
             \/ \E client \in Client : TakeRequestId(client)
             \/ \E request \in in_flight : SendProxyEvent(request)
             \/ \E process \in Process \cup {None} : HandleProxyEvent(process)
             \/ Tick \/ ReceiveTimeout \/ PacketHandled \/ EndIteration
             \/ Frame \/ ToggleRecording \/ Clear \/ UNCHANGED vars
      PROVE  connections' = connections /\ returned' = returned
  BY <1>4
  DEF Capture, TakeRequestId, SendProxyEvent, Tick, ReceiveTimeout,
      PacketHandled, HandleProxyEvent, EndIteration, Frame, ReceiveConnection,
      ReceiveClosed, ToggleRecording, Clear, UiLeavesAlone, vars, trackerVars
<1> QED BY <1>1, <1>3, <1>4, ReceivePacketGrows DEF Next, Worker

-----------------------------------------------------------------------------
(***************************************************************************)
(* Rows and the messages that will become rows, in order.                  *)
(***************************************************************************)

\* Tagged ids are ordered as the ids are.
LEMMA TagKeepsOrder ==
    ASSUME NEW id \in Nat, NEW n \in Nat, NEW m \in Nat,
           n <= m, id < RequestRowId(n)
    PROVE  id < RequestRowId(m)
BY IdSpaceAssumption DEF RequestRowId

\* What a row shows was true of an older state, so it still fits a later one.
LEMMA FitsKept ==
    ASSUME MonitorInv, MonitorInv',
           VersionsGrow, CountsGrow, RequestsGrow,
           NEW id \in Nat, NEW row \in Row, Fits(id, row)
    PROVE  Fits(id, row)'
<1>1. OrderTypes /\ OrderTypes'
  <2>1. OrderTypes'
    BY VersionsTyped, PTL
  <2> QED BY <2>1, VersionsTyped
<1>2. CASE id < HighBit
  <2>1. Behind(id, row)
    BY <1>2 DEF Fits
  <2>2. row.connection \in NetworkConnection /\ row.packet_count \in Nat
    BY <2>1, RowKinds DEF Behind, U64
  <2>3. \A new \in Versions' :
           new.id = id => ConnectionGrows(row.connection, new)
    <3> SUFFICES ASSUME NEW new \in Versions', new.id = id
                 PROVE  ConnectionGrows(row.connection, new)
      OBVIOUS
    <3>1. PICK old \in Versions : old.id = id /\ ConnectionGrows(old, new)
      BY <2>1 DEF VersionsGrow, Behind
    <3>2. ConnectionGrows(row.connection, old)
      BY <2>1, <3>1 DEF Behind
    <3>3. old \in NetworkConnection /\ new \in NetworkConnection
      BY <1>1 DEF OrderTypes
    <3> QED BY <2>2, <3>1, <3>2, <3>3, GrowthIsTransitive
  <2>4. id \in DOMAIN packet_counts' => row.packet_count <= packet_counts'[id]
    BY <1>1, <2>1, <2>2 DEF Behind, CountsGrow, OrderTypes
  <2>5. id \in DOMAIN observed'
    BY <2>1 DEF Behind, CountsGrow
  <2>6. Behind(id, row)'
    BY <2>1, <2>3, <2>4, <2>5 DEF Behind
  <2> QED BY <1>2, <2>6 DEF Fits
<1>3. CASE ~(id < HighBit)
  <2>1. Recorded(id, row)
    BY <1>3 DEF Fits
  <2>2. /\ UnderWay' \subseteq Nat /\ next_request' \in Nat
        /\ next_request \in Nat /\ HighBit \in Nat
    BY <1>1, IdSpaceAssumption DEF OrderTypes
  <2>3. id < RequestRowId(next_request')
    <3>1. next_request <= next_request' /\ id < RequestRowId(next_request)
      BY <2>1 DEF Recorded, RequestsGrow
    <3> QED BY <2>2, <3>1, TagKeepsOrder
  <2>4. \A request \in UnderWay' : RequestRowId(request) # id
    <3> SUFFICES ASSUME NEW request \in UnderWay', request >= next_request
                 PROVE  RequestRowId(request) # id
      BY <2>1 DEF Recorded, RequestsGrow
    <3>1. request \in Nat /\ id < RequestRowId(next_request)
      BY <2>1, <2>2 DEF Recorded
    <3>2. id < RequestRowId(request)
      BY <2>2, <3>1, TagKeepsOrder
    <3> QED BY <3>2
  <2>5. Recorded(id, row)'
    BY <2>1, <2>3, <2>4 DEF Recorded, RequestRowId
  <2> QED BY <1>3, <2>5 DEF Fits
<1> QED BY <1>2, <1>3

LEMMA FitsNext ==
    ASSUME MonitorInv, MonitorInv', VersionsGrow, CountsGrow, RequestsGrow
    PROVE  \A id \in Nat, row \in Row : Fits(id, row) => Fits(id, row)'
BY FitsKept

\* Ids and rows are values, while queue and table they are in change.
LEMMA OrderByEntry ==
    ASSUME \A n \in Updates', id \in Nat, row \in Row :
              id = ui_events'[n].id /\ row = ui_events'[n].row
                => Fits(id, row)',
           \A n \in Updates' :
              ui_events'[n].id \in Nat /\ ui_events'[n].row \in Row,
           \A id \in DOMAIN rows', row \in Row :
              row = rows'[id] => Fits(id, row)',
           \A id \in DOMAIN rows' : rows'[id] \in Row
    PROVE  /\ (\A n \in Updates : Fits(ui_events[n].id, ui_events[n].row))'
           /\ (\A id \in DOMAIN rows : Fits(id, rows[id]))'
BY DEF Fits, Behind, Recorded

\* What the queue and the table hold, entry by entry.
LEMMA MessageTypes ==
    ASSUME MonitorInv
    PROVE  /\ ui_events \in Seq(Message)
           /\ DOMAIN ui_events = 1 .. Len(ui_events) /\ Len(ui_events) \in Nat
           /\ \A n \in DOMAIN ui_events :
                 /\ ui_events[n] \in Message
                 /\ ui_events[n].id \in Nat
                 /\ ui_events[n].type \in {"Connection", "Closed"}
                 /\ ui_events[n].type = "Connection" => ui_events[n].row \in Row
           /\ DOMAIN rows \subseteq Nat
           /\ \A id \in DOMAIN rows : rows[id] \in Row
<1>1. ui_events \in Seq(Message)
  BY DEF MonitorInv, ChannelsTypeOK
<1>2. \A message \in Message :
         /\ message.id \in Nat
         /\ message.type \in {"Connection", "Closed"}
         /\ message.type = "Connection" => message.row \in Row
  BY DEF Message
<1>3. DOMAIN rows \subseteq Nat /\ \A id \in DOMAIN rows : rows[id] \in Row
  BY DEF MonitorInv, UiTypeOK
<1>4. DOMAIN ui_events = 1 .. Len(ui_events) /\ Len(ui_events) \in Nat
  BY <1>1
<1>5. \A n \in DOMAIN ui_events : ui_events[n] \in Message
  BY <1>1
<1> QED BY <1>1, <1>2, <1>3, <1>4, <1>5

\* A message joins the queue: it follows whatever has its id.
LEMMA MessageAppended ==
    ASSUME MonitorInv, MonitorInv', OrderInv,
           VersionsGrow, CountsGrow, RequestsGrow, rows' = rows,
           NEW message \in Message, ui_events' = Append(ui_events, message),
           message.type = "Closed" => message.id < HighBit,
           message.type = "Connection" =>
              /\ Fits(message.id, message.row)'
              /\ \A row \in Row : Fits(message.id, row) =>
                    Follows(message.id, row, message.row)
    PROVE  OrderInv'
<1> DEFINE last == Len(ui_events) + 1
<1>1. /\ DOMAIN ui_events' = 1 .. last
      /\ DOMAIN ui_events = 1 .. Len(ui_events) /\ Len(ui_events) \in Nat
      /\ \A n \in DOMAIN ui_events : ui_events'[n] = ui_events[n]
      /\ ui_events'[last] = message
  BY MessageTypes
<1>2. /\ \A n \in DOMAIN ui_events' : n \in DOMAIN ui_events \/ n = last
      /\ \A n \in DOMAIN ui_events : n < last
      /\ last \notin DOMAIN ui_events /\ ~(last < last)
      /\ \A n \in DOMAIN ui_events : ~(last < n)
  BY <1>1
<1> HIDE DEF last
<1>3. \A n \in Updates' :
         \/ n \in Updates /\ ui_events'[n] = ui_events[n]
         \/ /\ n = last /\ ui_events'[n] = message
            /\ message.type = "Connection"
  BY <1>1, <1>2 DEF Updates
<1>4. \A n \in Updates :
         /\ ui_events[n].id \in Nat /\ ui_events[n].row \in Row
         /\ n \in DOMAIN ui_events
         /\ Fits(ui_events[n].id, ui_events[n].row)
  BY MessageTypes DEF Updates, OrderInv
<1>5. \A n \in Updates', id \in Nat, row \in Row :
         id = ui_events'[n].id /\ row = ui_events'[n].row => Fits(id, row)'
  BY <1>3, <1>4, FitsNext
<1>6. /\ \A n \in Updates' :
            ui_events'[n].id \in Nat /\ ui_events'[n].row \in Row
      /\ \A id \in DOMAIN rows', row \in Row :
            row = rows'[id] => Fits(id, row)'
      /\ \A id \in DOMAIN rows' : rows'[id] \in Row
  <2>1. \A id \in DOMAIN rows : Fits(id, rows[id])
    BY DEF OrderInv
  <2>2. \A n \in Updates' :
            ui_events'[n].id \in Nat /\ ui_events'[n].row \in Row
    BY <1>3, <1>4 DEF Message
  <2> QED BY <2>1, <2>2, FitsNext, MessageTypes
<1>7. \A n, m \in Updates' :
         n < m /\ ui_events'[n].id = ui_events'[m].id =>
             Follows(ui_events'[n].id, ui_events'[n].row, ui_events'[m].row)
  BY <1>2, <1>3, <1>4 DEF OrderInv
<1>8. \A n \in Updates' :
          ui_events'[n].id \in DOMAIN rows' =>
              Follows(ui_events'[n].id, rows'[ui_events'[n].id],
                      ui_events'[n].row)
  BY <1>3, <1>4, MessageTypes DEF OrderInv
<1>9. \A n \in DOMAIN ui_events' \ Updates' : ui_events'[n].id < HighBit
  BY <1>1, <1>2, MessageTypes DEF OrderInv, Updates, Message
<1>10. /\ (\A n \in Updates : Fits(ui_events[n].id, ui_events[n].row))'
       /\ (\A id \in DOMAIN rows : Fits(id, rows[id]))'
  BY <1>5, <1>6, OrderByEntry
<1> QED BY <1>7, <1>8, <1>9, <1>10 DEF OrderInv, Follows, RowGrows, ConnectionGrows

\* No message, and no row but some that go.
LEMMA NothingAppended ==
    ASSUME MonitorInv, MonitorInv', OrderInv,
           VersionsGrow, CountsGrow, RequestsGrow, ui_events' = ui_events,
           \A id \in DOMAIN rows' : id \in DOMAIN rows /\ rows'[id] = rows[id]
    PROVE  OrderInv'
<1>1. Updates' = Updates
  BY DEF Updates
<1>2. \A n \in Updates :
         /\ ui_events[n].id \in Nat /\ ui_events[n].row \in Row
         /\ Fits(ui_events[n].id, ui_events[n].row)
  BY MessageTypes DEF Updates, OrderInv
<1>3. \A id \in DOMAIN rows : Fits(id, rows[id])
  BY DEF OrderInv
<1>4. /\ (\A n \in Updates : Fits(ui_events[n].id, ui_events[n].row))'
      /\ (\A id \in DOMAIN rows : Fits(id, rows[id]))'
  <2>1. \A n \in Updates', id \in Nat, row \in Row :
           id = ui_events'[n].id /\ row = ui_events'[n].row => Fits(id, row)'
    BY <1>1, <1>2, FitsNext
  <2>2. \A id \in DOMAIN rows', row \in Row :
           row = rows'[id] => Fits(id, row)'
    BY <1>3, FitsNext, MessageTypes
  <2>3. \A id \in DOMAIN rows' : rows'[id] \in Row
    BY MessageTypes
  <2> QED BY <1>1, <1>2, <2>1, <2>2, <2>3, OrderByEntry
<1>5. /\ \A n, m \in Updates' :
            n < m /\ ui_events'[n].id = ui_events'[m].id =>
                Follows(ui_events'[n].id, ui_events'[n].row,
                        ui_events'[m].row)
      /\ \A n \in Updates' :
            ui_events'[n].id \in DOMAIN rows' =>
                Follows(ui_events'[n].id, rows'[ui_events'[n].id],
                        ui_events'[n].row)
      /\ \A n \in DOMAIN ui_events' \ Updates' : ui_events'[n].id < HighBit
  BY <1>1 DEF OrderInv
<1> QED BY <1>4, <1>5 DEF OrderInv, Follows, RowGrows, ConnectionGrows

\* A step that leaves counts and requests alone.
LEMMA NothingGrows ==
    ASSUME MonitorInv,
           UNCHANGED <<observed, packet_counts, proxyVars>>
    PROVE  CountsGrow /\ RequestsGrow
<1>1. OrderTypes /\ UnderWay' = UnderWay
  BY VersionsTyped DEF UnderWay, proxyVars
<1> QED BY <1>1 DEF CountsGrow, RequestsGrow, OrderTypes, proxyVars

\* The frame loop takes the first message: what is queued behind it follows
\* the row it leaves.
LEMMA FrameOrder ==
    ASSUME MonitorInv, MonitorInv', OrderInv, VersionsGrow, Frame
    PROVE  OrderInv'
<1> DEFINE message == Head(ui_events)
<1>1. VersionsGrow /\ CountsGrow /\ RequestsGrow
  BY NothingGrows
  DEF Frame, ReceiveConnection, ReceiveClosed, UiLeavesAlone, trackerVars,
      workerVars
<1>2. ui_events # <<>> /\ ui_events' = Tail(ui_events)
  BY DEF Frame, ReceiveConnection, ReceiveClosed
<1>3. ui_events \in Seq(Message)
  BY MessageTypes
<1>4. /\ message = ui_events[1] /\ 1 \in DOMAIN ui_events
      /\ DOMAIN ui_events = 1 .. Len(ui_events) /\ Len(ui_events) \in Nat
      /\ DOMAIN ui_events' = 1 .. Len(ui_events) - 1
      /\ \A n \in DOMAIN ui_events' : ui_events'[n] = ui_events[n + 1]
  BY <1>2, <1>3
<1>5. \A n \in DOMAIN ui_events' :
         /\ n + 1 \in DOMAIN ui_events /\ ui_events'[n] = ui_events[n + 1]
         /\ 1 < n + 1
  BY <1>4
<1>6. \A n, m \in DOMAIN ui_events' : n < m => n + 1 < m + 1
  BY <1>4
<1>7. \A id \in DOMAIN rows' :
         \/ id \in DOMAIN rows /\ rows'[id] = rows[id]
         \/ /\ 1 \in Updates /\ id = ui_events[1].id
            /\ rows'[id] = ui_events[1].row
  BY <1>4 DEF Frame, ReceiveConnection, ReceiveClosed, Insert, Without,
              Restrict, Updates
<1> HIDE DEF message
<1>8. \A n \in Updates' : n + 1 \in Updates
  BY <1>5 DEF Updates
<1>9. \A n \in Updates :
         /\ ui_events[n].id \in Nat /\ ui_events[n].row \in Row
         /\ Fits(ui_events[n].id, ui_events[n].row)
  BY MessageTypes DEF Updates, OrderInv
<1>10. /\ (\A n \in Updates : Fits(ui_events[n].id, ui_events[n].row))'
       /\ (\A id \in DOMAIN rows : Fits(id, rows[id]))'
  <2>1. \A n \in Updates' : n \in DOMAIN ui_events'
    BY DEF Updates
  <2>2. \A n \in Updates', id \in Nat, row \in Row :
           id = ui_events'[n].id /\ row = ui_events'[n].row => Fits(id, row)'
    BY <1>1, <1>5, <1>8, <1>9, <2>1, FitsNext
  <2>3. \A n \in Updates' :
           ui_events'[n].id \in Nat /\ ui_events'[n].row \in Row
    BY <1>5, <1>8, <1>9, <2>1
  <2>4. \A id \in DOMAIN rows' : rows'[id] \in Row
    BY <1>7, <1>9, MessageTypes
  <2>5. \A id \in DOMAIN rows', row \in Row :
           row = rows'[id] => Fits(id, row)'
    <3>1. \A id \in DOMAIN rows' : id \in Nat /\ Fits(id, rows'[id])
      BY <1>7, <1>9, MessageTypes DEF OrderInv
    <3> QED BY <1>1, <3>1, FitsNext
  <2> QED BY <2>2, <2>3, <2>4, <2>5, OrderByEntry
<1>11. \A n, m \in Updates' :
          n < m /\ ui_events'[n].id = ui_events'[m].id =>
              Follows(ui_events'[n].id, ui_events'[n].row, ui_events'[m].row)
  BY <1>5, <1>6, <1>8 DEF OrderInv, Updates
<1>12. \A n \in Updates' :
          ui_events'[n].id \in DOMAIN rows' =>
              Follows(ui_events'[n].id, rows'[ui_events'[n].id],
                      ui_events'[n].row)
  BY <1>5, <1>7, <1>8 DEF OrderInv, Updates
<1>13. \A n \in DOMAIN ui_events' \ Updates' : ui_events'[n].id < HighBit
  BY <1>5 DEF OrderInv, Updates
<1> QED BY <1>10, <1>11, <1>12, <1>13
        DEF OrderInv, Follows, RowGrows, ConnectionGrows

\* The worker sends the state every older message and row is behind.
LEMMA ChangedOrder ==
    ASSUME MonitorInv, MonitorInv', OrderInv, VersionsGrow,
           NEW change \in returned.changed, HandleChanged(change)
    PROVE  OrderInv'
<1> DEFINE id == change.connection.id
<1> DEFINE row == ConnectionRowOf(change.connection, CountOf(id))
<1> DEFINE message == [type |-> "Connection", id |-> id, row |-> row]
<1>1. /\ UNCHANGED <<connections, proxyVars, rows>>
      /\ returned' = [returned EXCEPT !.changed = @ \ {change}]
      /\ packet_counts' = Insert(packet_counts, id, CountOf(id))
      /\ ui_events' = Append(ui_events, message)
      /\ DOMAIN observed' = DOMAIN observed \cup {id}
  BY DEF HandleChanged, Send, CountOf, uiVars, ObserveConnection, Insert
<1>2. /\ \A c \in returned.changed : c = change
      /\ ChangesTracked /\ returned \in Returned /\ TrackerInv
      /\ DOMAIN observed \cap NotYetOpened = {}
      /\ ReturnedInStep /\ CountsMatchTracker
  BY DEF MonitorInv, StreamInv, ReturnedInStep, RowsInv, TrackerInv,
         TrackerTypeOK, IdsInOrder
<1>3. /\ OrderTypes /\ id \in Nat /\ CountOf(id) \in U64
      /\ change.connection \in NetworkConnection
      /\ packet_counts \in [DOMAIN packet_counts -> U64]
  BY VersionsTyped, CountTyped, ChangeTyped
  DEF MonitorInv, WorkerTypeOK, TrackerInv, TrackerTypeOK, Returned, Changed,
      NetworkConnection, U64
<1>4. message \in Message
  BY <1>3, SentMessages
<1>5. row.kind = "connection" /\ row.connection = change.connection
      /\ row.packet_count = CountOf(id)
  BY DEF ConnectionRowOf
<1>6. id \in NotYetSent /\ id \in TrackedIds \cup returned.closed
  BY <1>2 DEF NotYetSent, ReturnedInStep
<1>7. id < HighBit
  <2>1. \A i \in TrackedIds \cup returned.closed : i < next_id
    BY IdBound DEF MonitorInv, TrackerInv, IdsIdentify, TrackedIds, IdsOf,
                   StreamInv, IdsInOrder
  <2> QED BY <1>3, <1>6, <2>1, IdBound, IdSpaceAssumption
<1>8. id \in DOMAIN observed => id \in DOMAIN packet_counts
  <2> SUFFICES ASSUME id \in DOMAIN observed PROVE id \in DOMAIN packet_counts
    OBVIOUS
  <2>1. id \notin NotYetOpened
    BY <1>2
  <2> QED BY <1>2, <1>6, <2>1 DEF CountsMatchTracker
<1>9. /\ id \in DOMAIN packet_counts => packet_counts[id] <= CountOf(id)
      /\ packet_counts'[id] = CountOf(id) /\ id \in DOMAIN observed'
  BY <1>1, <1>3, WidthAssumption DEF Insert, CountOf, SaturatingAdd, U64
<1>10. returned'.changed = {}
  BY <1>1, <1>2 DEF Returned
<1>11. Versions' \subseteq NetworkConnection
  BY <1>1, <1>3, <1>10 DEF Versions, OrderTypes
<1>12. \A c \in Versions' : c.id = id => c = change.connection
  BY <1>1, <1>2, <1>10 DEF Versions, ChangesTracked
<1>13. change.connection \in Versions
  BY DEF Versions
<1>14. \A c \in NetworkConnection : ConnectionGrows(c, c)
  BY WidthAssumption DEF ConnectionGrows, NetworkConnection, U64
<1> HIDE DEF message, row, id
<1>15. CountsGrow
  <2>1. \A i \in DOMAIN packet_counts' :
           i # id => i \in DOMAIN packet_counts
                     /\ packet_counts'[i] = packet_counts[i]
    BY <1>1 DEF Insert
  <2> QED BY <1>1, <1>3, <1>8, <1>9, <2>1 DEF CountsGrow, OrderTypes
<1>16. RequestsGrow
  BY <1>1, <1>3 DEF RequestsGrow, OrderTypes, proxyVars, UnderWay
<1>17. \A i, r : i = id /\ r = row => Fits(i, r)'
  <2> SUFFICES ASSUME NEW i, NEW r, i = id, r = row PROVE Fits(i, r)'
    OBVIOUS
  <2>1. Behind(i, r)'
    BY <1>3, <1>5, <1>9, <1>11, <1>12, <1>14 DEF Behind, OrderTypes, U64
  <2> QED BY <1>7, <2>1 DEF Fits
<1>18. ASSUME NEW old \in Row, Fits(id, old)
       PROVE  Follows(id, old, row)
  <2>1. Behind(id, old)
    BY <1>7, <1>18 DEF Fits
  <2>2. ConnectionGrows(old.connection, change.connection)
    BY <1>13, <2>1 DEF Behind, id
  <2>3. old.packet_count <= packet_counts[id] /\ id \in DOMAIN packet_counts
    BY <1>8, <2>1 DEF Behind
  <2>4. old.packet_count \in U64
    BY <2>1, RowKinds DEF Behind
  <2>5. row.packet_count >= old.packet_count
    BY <1>3, <1>5, <1>9, <2>3, <2>4 DEF U64
  <2> QED BY <1>5, <1>7, <2>2, <2>5 DEF Follows, RowGrows
<1>19. PICK m \in Message : m = message
  BY <1>4
<1>20. /\ m.type = "Connection" /\ m.id = id /\ m.row = row
      /\ ui_events' = Append(ui_events, m)
  BY <1>1, <1>19 DEF message
<1>21. Fits(m.id, m.row)'
  BY <1>17, <1>20
<1> QED
  BY <1>1, <1>15, <1>16, <1>18, <1>20, <1>21, MessageAppended

\* A Closed takes a count away, and what is closed has a connection's id.
LEMMA ClosedOrder ==
    ASSUME MonitorInv, MonitorInv', OrderInv, VersionsGrow,
           NEW id \in returned.expired \cup returned.closed,
           HandleExpired(id) \/ HandleEnded(id)
    PROVE  OrderInv'
<1>1. /\ UNCHANGED <<connections, observed, proxyVars, rows>>
      /\ returned'.changed = returned.changed
      /\ packet_counts' = Without(packet_counts, {id})
      /\ ui_events' = Append(ui_events, [type |-> "Closed", id |-> id])
  BY DEF MonitorInv, TrackerInv, TrackerTypeOK, Returned, HandleExpired,
         HandleEnded, Close, Send, uiVars
<1>2. OrderTypes /\ id \in U64 /\ id \in Nat
  BY VersionsTyped, ReturnedIdsTyped DEF MonitorInv, U64
<1>3. id < HighBit
  <2>1. id \in DOMAIN packet_counts \/ id \in NotYetOpened
    BY DEF MonitorInv, StreamInv, CountsMatchTracker
  <2>2. id \in returned.closed \/ id \in DOMAIN packet_counts
    BY <2>1 DEF MonitorInv, StreamInv, ReturnedInStep, NotYetOpened, NotYetSent
  <2>3. id < next_id
    BY <2>2 DEF MonitorInv, StreamInv, IdsInOrder
  <2> QED BY <1>2, <2>3, IdBound, IdSpaceAssumption
<1>4. CountsGrow
  BY <1>1, <1>2 DEF CountsGrow, OrderTypes, Without, Restrict
<1>5. RequestsGrow
  BY <1>1, <1>2 DEF RequestsGrow, OrderTypes, proxyVars, UnderWay
<1>6. PICK m \in Message : m = [type |-> "Closed", id |-> id]
  BY <1>2, SentMessages
<1>7. m.type = "Closed" /\ m.id = id /\ ui_events' = Append(ui_events, m)
  BY <1>1, <1>6
<1> QED BY <1>1, <1>3, <1>4, <1>5, <1>7, MessageAppended

\* The first of the proxy's requests leaves those under way, with an id that
\* none of the others has.
LEMMA RequestTaken ==
    ASSUME MonitorInv, RequestsApart, proxy_events # <<>>,
           proxy_events' = Tail(proxy_events),
           UNCHANGED <<in_flight, next_request>>
    PROVE  /\ Head(proxy_events) \in Request
           /\ Head(proxy_events).id \in UnderWay
           /\ UnderWay' \subseteq UnderWay \ {Head(proxy_events).id}
           /\ RequestsApart'
<1>1. proxy_events \in Seq(Request)
  BY DEF MonitorInv, ChannelsTypeOK
<1>2. /\ Head(proxy_events) = proxy_events[1] /\ 1 \in DOMAIN proxy_events
      /\ DOMAIN proxy_events = 1 .. Len(proxy_events)
      /\ Len(proxy_events) \in Nat
      /\ DOMAIN proxy_events' = 1 .. Len(proxy_events) - 1
      /\ \A n \in DOMAIN proxy_events' : proxy_events'[n] = proxy_events[n + 1]
      /\ Head(proxy_events) \in Request
  BY <1>1
<1>3. /\ \A n \in DOMAIN proxy_events' :
            /\ n + 1 \in DOMAIN proxy_events /\ n + 1 # 1
            /\ proxy_events'[n] = proxy_events[n + 1]
      /\ \A n, m \in DOMAIN proxy_events' : n + 1 = m + 1 => n = m
  BY <1>2
<1>4. UnderWay' \subseteq UnderWay \ {Head(proxy_events).id}
  BY <1>2, <1>3 DEF UnderWay, RequestsApart
<1>5. RequestsApart'
  <2>1. \A id \in UnderWay' : id < next_request'
    BY <1>4 DEF RequestsApart
  <2>2. \A n, m \in DOMAIN proxy_events' :
           proxy_events'[n].id = proxy_events'[m].id => n = m
    BY <1>3 DEF RequestsApart
  <2> QED BY <1>3, <2>1, <2>2 DEF RequestsApart
<1> QED BY <1>2, <1>4, <1>5 DEF UnderWay

\* The id a request's row is sent under was never used by another row.
LEMMA RequestOrder ==
    ASSUME MonitorInv, MonitorInv', OrderInv, RequestsApart, VersionsGrow,
           NEW resolved \in Process \cup {None}, HandleProxyEvent(resolved)
    PROVE  OrderInv' /\ RequestsApart'
<1> DEFINE request == Head(proxy_events)
<1>1. /\ UNCHANGED <<connections, returned, observed, packet_counts, rows,
                      in_flight, next_request>>
      /\ proxy_events # <<>> /\ proxy_events' = Tail(proxy_events)
  BY DEF HandleProxyEvent, trackerVars, workerVars, uiVars
<1>2. /\ request \in Request /\ request.id \in UnderWay
      /\ UnderWay' \subseteq UnderWay \ {request.id}
      /\ RequestsApart'
  BY <1>1, RequestTaken
<1>3. PICK m :
         /\ ui_events' = Append(ui_events, m)
         /\ \E process : m = [type |-> "Connection",
                              id   |-> RequestRowId(request.id),
                              row  |-> RequestRowOf(request, process)]
  BY DEF HandleProxyEvent, Send
<1>4. m \in Message
  <2>1. ui_events' \in Seq(Message) /\ ui_events \in Seq(Message)
    BY DEF MonitorInv, ChannelsTypeOK
  <2>2. ui_events'[Len(ui_events) + 1] = m
    BY <1>3, <2>1
  <2>3. Len(ui_events) + 1 \in DOMAIN ui_events'
    BY <1>3, <2>1
  <2> QED BY <2>1, <2>2, <2>3
<1>5. OrderTypes /\ HighBit \in Nat /\ request.id \in Nat
  BY <1>2, VersionsTyped, IdSpaceAssumption DEF OrderTypes
<1>6. /\ m.type = "Connection" /\ m.id = RequestRowId(request.id)
      /\ m.row.kind = "request"
  BY <1>3 DEF RequestRowOf
<1>7. ~(m.id < HighBit)
  BY <1>5, <1>6 DEF RequestRowId
<1>8. CountsGrow
  BY <1>1, <1>5 DEF CountsGrow, OrderTypes
<1>9. RequestsGrow
  BY <1>1, <1>2, <1>5 DEF RequestsGrow, OrderTypes
<1>10. \A row : ~Fits(m.id, row)
  BY <1>2, <1>6, <1>7 DEF Fits, Recorded
<1>11. Fits(m.id, m.row)'
  <2>1. request.id < next_request
    BY <1>2 DEF RequestsApart
  <2>2. m.id < RequestRowId(next_request)
    BY <1>5, <1>6, <2>1 DEF RequestRowId, OrderTypes
  <2>3. \A r \in UnderWay' : RequestRowId(r) # m.id
    <3>1. \A r \in UnderWay' : r \in Nat /\ r # request.id
      BY <1>2, <1>5 DEF OrderTypes
    <3> QED BY <1>5, <1>6, <3>1 DEF RequestRowId
  <2>4. Recorded(m.id, m.row)'
    BY <1>1, <1>6, <2>2, <2>3 DEF Recorded, RequestRowId
  <2> QED BY <1>7, <2>4 DEF Fits
<1>12. OrderInv'
  BY <1>1, <1>3, <1>4, <1>6, <1>8, <1>9, <1>10, <1>11, MessageAppended
<1> QED BY <1>2, <1>12

\* An id given out is new, and stays its request's while the event travels.
LEMMA RequestsUnderWay ==
    ASSUME MonitorInv, RequestsApart,
           \/ \E client \in Client : TakeRequestId(client)
           \/ \E request \in in_flight : SendProxyEvent(request)
    PROVE  RequestsGrow /\ RequestsApart'
<1>1. /\ in_flight \subseteq Request /\ proxy_events \in Seq(Request)
      /\ OrderTypes
  BY VersionsTyped DEF MonitorInv, ChannelsTypeOK
<1>2. ASSUME NEW client \in Client, TakeRequestId(client)
      PROVE  RequestsGrow /\ RequestsApart'
  <2>1. /\ next_request' = next_request + 1 /\ next_request \in Nat
        /\ in_flight' = in_flight
              \cup {[id |-> next_request, client |-> client]}
        /\ proxy_events' = proxy_events
    BY <1>1, <1>2 DEF TakeRequestId, Proxy!Take, OrderTypes
  <2>2. UnderWay' = UnderWay \cup {next_request}
    <3>1. PICK new : /\ new.id = next_request
                     /\ in_flight' = in_flight \cup {new}
      BY <2>1
    <3> QED BY <2>1, <3>1 DEF UnderWay
  <2>3. next_request \notin UnderWay
    BY <2>1 DEF RequestsApart
  <2>4. \A r \in in_flight : r.id \in UnderWay
    BY DEF UnderWay
  <2>5. \A n \in DOMAIN proxy_events : proxy_events[n].id \in UnderWay
    BY DEF UnderWay
  <2>6. RequestsGrow
    BY <2>1, <2>2 DEF RequestsGrow
  <2>7. \A id \in UnderWay' : id < next_request'
    <3>1. \A id \in UnderWay : id \in Nat /\ id < next_request
      BY <1>1 DEF RequestsApart, OrderTypes
    <3>2. \A id \in UnderWay' : id < next_request + 1
      BY <2>1, <2>2, <3>1
    <3> QED BY <2>1, <3>2
  <2>8. RequestsApart'
    BY <2>1, <2>3, <2>4, <2>5, <2>7 DEF RequestsApart
  <2> QED BY <2>6, <2>8
<1>3. ASSUME NEW request \in in_flight, SendProxyEvent(request)
      PROVE  RequestsGrow /\ RequestsApart'
  <2> DEFINE last == Len(proxy_events) + 1
  <2>1. /\ next_request' = next_request
        /\ in_flight' = in_flight \ {request}
        /\ proxy_events' = Append(proxy_events, request)
    BY <1>3 DEF SendProxyEvent, Proxy!Deliver
  <2>2. /\ DOMAIN proxy_events' = DOMAIN proxy_events \cup {last}
        /\ last \notin DOMAIN proxy_events
        /\ \A n \in DOMAIN proxy_events : proxy_events'[n] = proxy_events[n]
        /\ proxy_events'[last] = request
    BY <1>1, <1>3, <2>1
  <2> HIDE DEF last
  <2>3. UnderWay' \subseteq UnderWay
    BY <1>3, <2>1, <2>2 DEF UnderWay
  <2>4. RequestsGrow
    BY <1>1, <2>1, <2>3 DEF RequestsGrow, OrderTypes
  <2>5. RequestsApart'
    <3>1. \A id \in UnderWay' : id < next_request'
      BY <2>1, <2>3 DEF RequestsApart
    <3>2. \A n, m \in DOMAIN proxy_events' :
             proxy_events'[n].id = proxy_events'[m].id => n = m
      BY <1>3, <2>2 DEF RequestsApart
    <3>3. \A r \in in_flight', n \in DOMAIN proxy_events' :
             r.id # proxy_events'[n].id
      BY <1>3, <2>1, <2>2 DEF RequestsApart
    <3> QED BY <2>1, <3>1, <3>2, <3>3 DEF RequestsApart
  <2> QED BY <2>4, <2>5
<1> QED BY <1>2, <1>3

\* Nothing is queued or shown at first.
LEMMA OrderInit == Init => OrderInv /\ RequestsApart
<1> SUFFICES ASSUME Init PROVE OrderInv /\ RequestsApart
  OBVIOUS
<1>1. /\ DOMAIN ui_events = {} /\ DOMAIN rows = {} /\ DOMAIN proxy_events = {}
      /\ in_flight = {}
  BY DEF Init, EmptyMap
<1> QED BY <1>1 DEF OrderInv, RequestsApart, Updates, UnderWay

\* One case per action that touches queue, table, counts or requests.
LEMMA OrderStep ==
    ASSUME MonitorInv, OrderInv, RequestsApart, [Next]_vars
    PROVE  OrderInv' /\ RequestsApart'
<1>1. MonitorInv' /\ (~Restart => VersionsGrow)
  BY StepInv, VersionsStep
<1>2. ASSUME UNCHANGED <<observed, packet_counts, proxyVars, ui_events>>,
             \A id \in DOMAIN rows' : id \in DOMAIN rows /\ rows'[id] = rows[id],
             ~Restart
      PROVE  OrderInv'
  BY <1>1, <1>2, NothingGrows, NothingAppended
<1>3. ASSUME UNCHANGED proxyVars PROVE RequestsApart'
  BY <1>3 DEF proxyVars, RequestsApart, UnderWay
<1>4. CASE Restart
  <2>1. /\ DOMAIN ui_events' = {} /\ DOMAIN rows' = {} /\ in_flight' = {}
        /\ DOMAIN proxy_events' = {}
    BY <1>4 DEF Restart, EmptyMap
  <2> QED BY <2>1 DEF OrderInv, RequestsApart, Updates, UnderWay
<1>5. CASE /\ ~Restart
           /\ \/ \E client \in Client : TakeRequestId(client)
              \/ \E request \in in_flight : SendProxyEvent(request)
  <2>1. /\ UNCHANGED <<observed, packet_counts, rows, ui_events>>
        /\ OrderTypes /\ RequestsGrow /\ RequestsApart'
    BY <1>5, RequestsUnderWay, VersionsTyped
    DEF TakeRequestId, SendProxyEvent, workerVars, uiVars
  <2>2. CountsGrow
    BY <2>1 DEF CountsGrow, OrderTypes
  <2> QED BY <1>1, <1>5, <2>1, <2>2, NothingAppended
<1>6. ASSUME NEW id \in returned.expired \cup returned.closed,
             HandleExpired(id) \/ HandleEnded(id), ~Restart
      PROVE  OrderInv' /\ RequestsApart'
  BY <1>1, <1>3, <1>6, ClosedOrder DEF HandleExpired, HandleEnded
<1>7. ASSUME NEW change \in returned.changed, HandleChanged(change), ~Restart
      PROVE  OrderInv' /\ RequestsApart'
  BY <1>1, <1>3, <1>7, ChangedOrder DEF HandleChanged
<1>8. ASSUME NEW process \in Process \cup {None}, HandleProxyEvent(process),
             ~Restart
      PROVE  OrderInv' /\ RequestsApart'
  BY <1>1, <1>8, RequestOrder
<1>9. CASE Frame /\ ~Restart
  BY <1>1, <1>3, <1>9, FrameOrder
  DEF Frame, ReceiveConnection, ReceiveClosed, UiLeavesAlone
<1>10. CASE Clear /\ ~Restart
  <2>1. /\ UNCHANGED <<observed, packet_counts, proxyVars, ui_events>>
        /\ DOMAIN rows' = {}
    BY <1>10 DEF Clear, UiLeavesAlone, workerVars, EmptyMap
  <2> QED BY <1>2, <1>3, <1>10, <2>1
<1>11. ASSUME \/ \E packet \in Packet : Capture(packet)
              \/ \E process \in Process \cup {None} : ReceivePacket(process)
              \/ Tick \/ ReceiveTimeout \/ PacketHandled \/ EndIteration
              \/ ToggleRecording \/ UNCHANGED vars
       PROVE  UNCHANGED <<observed, packet_counts, proxyVars, ui_events, rows>>
  BY <1>11
  DEF Capture, ReceivePacket, Tick, ReceiveTimeout, PacketHandled,
      EndIteration, ToggleRecording, UiLeavesAlone, vars, uiVars, workerVars
<1> QED
  BY <1>2, <1>3, <1>4, <1>5, <1>6, <1>7, <1>8, <1>9, <1>10, <1>11
  DEF Next, Worker

\* Messages and rows keep their order through every step.
THEOREM OrderInvariant ==
    Spec => [](MonitorInv /\ OrderInv /\ RequestsApart)
<1>1. Init => OrderInv /\ RequestsApart
  BY OrderInit
<1>2. MonitorInv /\ OrderInv /\ RequestsApart /\ [Next]_vars
        => OrderInv' /\ RequestsApart'
  BY OrderStep
<1> QED BY <1>1, <1>2, MonitorInvariant, PTL DEF Spec

\* A step replaces a connection's row by a later one, if at all.
LEMMA RowsGrow ==
    ASSUME MonitorInv, OrderInv, [Next]_vars,
           NEW id \in DOMAIN rows \cap DOMAIN rows',
           rows[id].kind = "connection"
    PROVE  RowGrows(rows[id], rows'[id])
<1>1. RowGrows(rows[id], rows[id])
  BY MessageTypes, RowKinds
<1>2. CASE rows'[id] = rows[id]
  BY <1>1, <1>2
<1>3. CASE Frame
  <2> DEFINE message == Head(ui_events)
  <2>1. /\ ui_events # <<>>
        /\ \/ rows'[id] = rows[id]
           \/ /\ message.type = "Connection"
              /\ message.id = id /\ rows'[id] = message.row
    BY <1>3 DEF Frame, ReceiveConnection, ReceiveClosed, Insert, Without,
                Restrict
  <2>2. message = ui_events[1] /\ 1 \in DOMAIN ui_events
    BY <2>1, MessageTypes
  <2> HIDE DEF message
  <2>3. CASE message.type = "Connection" /\ message.id = id
              /\ rows'[id] = message.row
    BY <2>2, <2>3 DEF OrderInv, Updates, Follows
  <2> QED BY <1>2, <2>1, <2>3
<1>4. CASE Clear \/ Restart
  BY <1>4 DEF Clear, Restart, EmptyMap
<1>5. ASSUME \/ \E packet \in Packet : Capture(packet)
             \/ \E client \in Client : TakeRequestId(client)
             \/ \E request \in in_flight : SendProxyEvent(request)
             \/ Tick \/ Worker \/ ToggleRecording \/ UNCHANGED vars
      PROVE  rows' = rows
  BY <1>5
  DEF Capture, TakeRequestId, SendProxyEvent, Tick, Worker, ReceivePacket,
      ReceiveTimeout, HandleExpired, HandleChanged, HandleEnded, PacketHandled,
      HandleProxyEvent, EndIteration, ToggleRecording, UiLeavesAlone, vars,
      uiVars
<1> QED BY <1>2, <1>3, <1>4, <1>5 DEF Next

\* A row in the table never goes back to older totals and never loses its
\* process (receive_runtime_events, upsert by id).
THEOREM RowsOnlyGrow == Spec => RowsNeverRegress
<1>1. MonitorInv /\ OrderInv /\ [Next]_vars =>
         [\A id \in DOMAIN rows \cap DOMAIN rows' :
            rows[id].kind = "connection" => RowGrows(rows[id], rows'[id])]_vars
  BY RowsGrow
<1> QED BY <1>1, OrderInvariant, PTL DEF Spec, RowsNeverRegress

\* A message that is taken has an id below the tag, or a new one above it.
LEMMA RequestRowKept ==
    ASSUME MonitorInv, OrderInv, [Next]_vars,
           ui_events # <<>>, ui_events' = Tail(ui_events), session' = session,
           NEW id \in DOMAIN rows, rows[id].kind = "request"
    PROVE  id \in DOMAIN rows' /\ rows'[id] = rows[id]
<1>1. /\ ui_events \in Seq(Message) /\ Len(ui_events) \in Nat
      /\ Len(ui_events') = Len(ui_events) - 1
  BY MessageTypes
<1>2. ~(id < HighBit)
  BY DEF OrderInv, Fits, Behind
<1>3. CASE Frame
  <2> DEFINE message == Head(ui_events)
  <2>1. message = ui_events[1] /\ 1 \in DOMAIN ui_events
    BY <1>1
  <2>2. message.id # id
    BY <1>2, <2>1 DEF OrderInv, Updates, Follows
  <2> QED
    BY <1>3, <2>2 DEF Frame, ReceiveConnection, ReceiveClosed, Insert, Without,
                      Restrict
<1>4. ASSUME ui_events' = ui_events PROVE FALSE
  BY <1>1, <1>4
<1>5. ASSUME NEW message, ui_events' = Append(ui_events, message) PROVE FALSE
  BY <1>1, <1>5
<1>6. CASE Worker
  <2>1. ui_events' = ui_events \/ \E message : ui_events' = Append(ui_events, message)
    BY <1>6
    DEF Worker, ReceivePacket, ReceiveTimeout, HandleExpired, HandleChanged,
        HandleEnded, PacketHandled, HandleProxyEvent, EndIteration, Close, Send
  <2> QED BY <1>4, <1>5, <2>1
<1>7. CASE Restart
  BY <1>7 DEF Restart
<1>8. ASSUME \/ \E packet \in Packet : Capture(packet)
             \/ \E client \in Client : TakeRequestId(client)
             \/ \E request \in in_flight : SendProxyEvent(request)
             \/ Tick \/ ToggleRecording \/ Clear \/ UNCHANGED vars
      PROVE  ui_events' = ui_events
  BY <1>8
  DEF Capture, TakeRequestId, SendProxyEvent, Tick, ToggleRecording, Clear,
      UiLeavesAlone, vars
<1> QED BY <1>3, <1>4, <1>6, <1>7, <1>8 DEF Next

\* No message of the worker removes or overwrites the row of a request
\* (to_ui_http tags its id with the top bit).
THEOREM RequestRowsAreSafe == Spec => RequestRowsStay
<1>1. MonitorInv /\ OrderInv /\ [Next]_vars =>
         [ui_events # <<>> /\ ui_events' = Tail(ui_events)
            /\ session' = session =>
              \A id \in DOMAIN rows : rows[id].kind = "request" =>
                id \in DOMAIN rows' /\ rows'[id] = rows[id]]_vars
  BY RequestRowKept
<1> QED BY <1>1, OrderInvariant, PTL DEF Spec, RequestRowsStay

-----------------------------------------------------------------------------
(***************************************************************************)
(* The history in the database, within a session.                          *)
(***************************************************************************)

\* Of a later state of the connection, the row is still an earlier one.
LEMMA StoredStaysBefore ==
    ASSUME NEW row \in ConnectionRow,
           NEW old \in NetworkConnection, NEW new \in NetworkConnection,
           StoredBefore(row, old), ConnectionGrows(old, new)
    PROVE  StoredBefore(row, new)
BY WidthAssumption
DEF StoredBefore, ConnectionGrows, ConnectionRow, NetworkConnection, U64

\* The database is new when the session is.
LEMMA InitHistory == Init => HistoryInv /\ session = 1
<1> SUFFICES ASSUME Init PROVE HistoryInv /\ session = 1
  OBVIOUS
<1>1. /\ DOMAIN connection_rows = {} /\ DOMAIN observed = {} /\ session = 1
      /\ connection_rows \in [{} -> ConnectionRow]
  BY DEF Init, InitStorage, InitCorrelator, EmptyMap
<1> QED BY <1>1 DEF HistoryInv

\* A step that stores and shows nothing.
LEMMA HistoryUntouched ==
    ASSUME MonitorInv, MonitorInv', HistoryInv, VersionsGrow,
           UNCHANGED <<connection_rows, observed>>
    PROVE  HistoryInv'
<1>1. Versions \subseteq NetworkConnection /\ Versions' \subseteq NetworkConnection
  <2>1. OrderTypes'
    BY VersionsTyped, PTL
  <2> QED BY <2>1, VersionsTyped DEF OrderTypes
<1>2. ASSUME NEW id \in DOMAIN connection_rows, NEW new \in Versions',
             new.id = id
      PROVE  StoredBefore(connection_rows[id], new)
  <2>1. id \in DOMAIN observed /\ connection_rows[id] \in ConnectionRow
    BY DEF HistoryInv
  <2>2. PICK old \in Versions : old.id = id /\ ConnectionGrows(old, new)
    BY <1>2, <2>1 DEF VersionsGrow
  <2>3. StoredBefore(connection_rows[id], old)
    BY <2>2 DEF HistoryInv
  <2> QED BY <1>1, <2>1, <2>2, <2>3, StoredStaysBefore
<1>3. \A id \in DOMAIN observed, new \in Versions' :
         new.id = id => new.key = observed[id].connection.key
  BY DEF HistoryInv, VersionsGrow, ConnectionGrows
<1> QED BY <1>2, <1>3 DEF HistoryInv, StoredBefore

\* The worker stores the state every older row is behind, or fails to.
LEMMA ChangeStored ==
    ASSUME MonitorInv, HistoryInv,
           NEW change \in returned.changed, HandleChanged(change)
    PROVE  /\ HistoryInv'
           /\ \A id \in DOMAIN connection_rows :
                 /\ id \in DOMAIN connection_rows'
                 /\ \/ connection_rows'[id] = connection_rows[id]
                    \/ /\ StoredBefore(connection_rows[id], change.connection)
                       /\ connection_rows'[id].key = change.connection.key
                       /\ connection_rows'[id].bytes_sent
                            = change.connection.bytes_sent
                       /\ connection_rows'[id].bytes_received
                            = change.connection.bytes_received
                       /\ change.connection.process # None =>
                            connection_rows'[id].process_id
                              = change.connection.process.pid
<1> DEFINE connection == change.connection
<1> DEFINE id == connection.id
<1> DEFINE stored ==
      [key            |-> connection.key,
       process_id     |-> IF connection.process = None
                            THEN None ELSE connection.process.pid,
       bytes_sent     |-> connection.bytes_sent,
       bytes_received |-> connection.bytes_received,
       started_at     |-> IF id \in DOMAIN connection_rows
                            THEN connection_rows[id].started_at ELSE clock]
<1>1. /\ connections' = connections
      /\ returned' = [returned EXCEPT !.changed = @ \ {change}]
      /\ observed' = Insert(observed, id, [connection |-> connection,
                                           observed_at |-> clock])
      /\ \/ connection_rows' = connection_rows
         \/ connection_rows' = Insert(connection_rows, id, stored)
  BY DEF HandleChanged, ObserveConnection, SaveConnection, UpsertConnection,
         storageVars
<1>2. /\ \A c \in returned.changed : c = change
      /\ ChangesTracked /\ returned \in Returned
      /\ connection \in NetworkConnection /\ connection \in Versions
      /\ clock \in Time
  BY ChangeTyped
  DEF MonitorInv, StreamInv, ReturnedInStep, RowsInv, TrackerInv,
      TrackerTypeOK, WorkerTypeOK, Versions
<1>3. /\ Versions' \subseteq Versions
      /\ \A c \in Versions' : c.id = id => c = connection
  <2>1. returned'.changed = {}
    BY <1>1, <1>2 DEF Returned
  <2> QED BY <1>1, <1>2, <2>1 DEF Versions, ChangesTracked
<1>4. stored \in ConnectionRow
  BY <1>2 DEF HistoryInv, ConnectionRow, NetworkConnection, Pid
<1>5. StoredBefore(stored, connection)
  BY <1>2, WidthAssumption DEF StoredBefore, NetworkConnection, U64
<1>6. /\ stored.key = connection.key
      /\ stored.bytes_sent = connection.bytes_sent
      /\ stored.bytes_received = connection.bytes_received
      /\ connection.process # None => stored.process_id = connection.process.pid
  OBVIOUS
<1>7. /\ id \in DOMAIN observed' /\ observed'[id].connection = connection
      /\ \A i \in DOMAIN observed' : i # id =>
            i \in DOMAIN observed /\ observed'[i] = observed[i]
      /\ DOMAIN observed \subseteq DOMAIN observed'
      /\ \A i \in DOMAIN observed : i # id => observed'[i] = observed[i]
  BY <1>1 DEF Insert
<1> HIDE DEF stored
<1>8. /\ connection_rows' \in [DOMAIN connection_rows' -> ConnectionRow]
      /\ \A i \in DOMAIN connection_rows' :
            \/ i \in DOMAIN connection_rows
               /\ connection_rows'[i] = connection_rows[i]
            \/ i = id /\ connection_rows'[i] = stored
      /\ \A i \in DOMAIN connection_rows :
            /\ i \in DOMAIN connection_rows'
            /\ \/ connection_rows'[i] = connection_rows[i]
               \/ i = id /\ connection_rows'[i] = stored
  BY <1>1, <1>4 DEF Insert, HistoryInv
<1>9. id \in DOMAIN connection_rows =>
         StoredBefore(connection_rows[id], connection)
  BY <1>2 DEF HistoryInv
<1> HIDE DEF connection, id
<1>10. ASSUME NEW i \in DOMAIN connection_rows'
       PROVE  /\ i \in DOMAIN observed'
              /\ connection_rows'[i].key = observed'[i].connection.key
              /\ \A c \in Versions' : c.id = i =>
                    StoredBefore(connection_rows'[i], c)
  <2>1. CASE i = id
    <3>1. StoredBefore(connection_rows'[i], connection)
      BY <1>5, <1>8, <1>9, <2>1
    <3> QED BY <1>3, <1>7, <2>1, <3>1 DEF StoredBefore
  <2>2. CASE i # id
    BY <1>3, <1>7, <1>8, <2>2 DEF HistoryInv
  <2> QED BY <2>1, <2>2
<1>11. \A i \in DOMAIN observed', c \in Versions' :
          c.id = i => c.key = observed'[i].connection.key
  BY <1>3, <1>7 DEF HistoryInv
<1>12. HistoryInv'
  BY <1>8, <1>10, <1>11 DEF HistoryInv, StoredBefore
<1> QED BY <1>6, <1>8, <1>9, <1>12 DEF connection

\* Only the change of a connection writes connections or shows them to the
\* correlator.
LEMMA OnlyChangesAreStored ==
    ASSUME [Next]_vars, ~Restart,
           ~ \E change \in returned.changed : HandleChanged(change)
    PROVE  UNCHANGED <<connection_rows, observed, heard>>
BY DEF Next, Worker, Frame, Capture, TakeRequestId, SendProxyEvent, Tick,
       ReceivePacket, ReceiveTimeout, HandleExpired, HandleEnded, Close,
       PacketHandled, HandleProxyEvent, SaveHttpRequest, EndIteration,
       ReceiveConnection, ReceiveClosed, ToggleRecording, Clear,
       UiLeavesAlone, vars, storageVars

\* Without a restart the session's history is kept in step.
LEMMA HistoryStep ==
    ASSUME MaxSessions = 1, MonitorInv, HistoryInv, session = 1, [Next]_vars
    PROVE  HistoryInv' /\ session' = 1 /\ ~Restart
<1>1. ~Restart
  BY DEF Restart
<1>2. session' = 1
  BY <1>1
  DEF Next, Worker, Frame, Capture, TakeRequestId, SendProxyEvent, Tick,
      ReceivePacket, ReceiveTimeout, HandleExpired, HandleChanged, HandleEnded,
      PacketHandled, HandleProxyEvent, EndIteration, ReceiveConnection,
      ReceiveClosed, ToggleRecording, Clear, UiLeavesAlone, vars, worldVars
<1>3. CASE \E change \in returned.changed : HandleChanged(change)
  BY <1>1, <1>2, <1>3, ChangeStored
<1>4. CASE ~ \E change \in returned.changed : HandleChanged(change)
  BY <1>1, <1>2, <1>4, StepInv, VersionsStep, OnlyChangesAreStored,
     HistoryUntouched
<1> QED BY <1>1, <1>2, <1>3, <1>4

\* In a session, what is stored is an earlier state of what is tracked.
THEOREM HistoryInvariant ==
    ASSUME MaxSessions = 1
    PROVE  Spec => [](MonitorInv /\ HistoryInv /\ session = 1)
<1>1. Init => HistoryInv /\ session = 1
  BY InitHistory
<1>2. MonitorInv /\ HistoryInv /\ session = 1 /\ [Next]_vars
         => HistoryInv' /\ (session = 1)'
  BY HistoryStep
<1> QED BY <1>1, <1>2, MonitorInvariant, PTL DEF Spec

\* A step replaces a stored connection by a later state, if at all.
LEMMA HistoryGrows ==
    ASSUME MaxSessions = 1, MonitorInv, HistoryInv, session = 1, [Next]_vars,
           NEW id \in DOMAIN connection_rows
    PROVE  LET old == connection_rows[id]
               new == connection_rows'[id]
           IN  /\ id \in DOMAIN connection_rows'
               /\ new.key = old.key
               /\ new.bytes_sent >= old.bytes_sent
               /\ new.bytes_received >= old.bytes_received
               /\ old.process_id # None => new.process_id = old.process_id
<1>1. /\ connection_rows[id] \in ConnectionRow
      /\ ~Restart
  BY HistoryStep DEF HistoryInv
<1>2. CASE connection_rows' = connection_rows
  BY <1>1, <1>2, WidthAssumption DEF ConnectionRow, U64
<1>3. ASSUME NEW change \in returned.changed, HandleChanged(change)
      PROVE  LET old == connection_rows[id]
                 new == connection_rows'[id]
             IN  /\ id \in DOMAIN connection_rows'
                 /\ new.key = old.key
                 /\ new.bytes_sent >= old.bytes_sent
                 /\ new.bytes_received >= old.bytes_received
                 /\ old.process_id # None => new.process_id = old.process_id
  <2>1. change.connection \in NetworkConnection
    BY ChangeTyped DEF MonitorInv
  <2> QED BY <1>1, <1>3, <2>1, ChangeStored, WidthAssumption
          DEF StoredBefore, ConnectionRow, NetworkConnection, U64
<1> QED BY <1>1, <1>2, <1>3, OnlyChangesAreStored

\* Within a session the database is only added to, whichever statements fail
\* (save_connection, upsert by id).
THEOREM HistoryIsKept ==
    ASSUME MaxSessions = 1 PROVE Spec => HistoryKept
<1>1. MonitorInv /\ HistoryInv /\ session = 1 /\ [Next]_vars =>
         [\A id \in DOMAIN connection_rows :
            /\ id \in DOMAIN connection_rows'
            /\ connection_rows'[id].key = connection_rows[id].key
            /\ connection_rows'[id].bytes_sent >= connection_rows[id].bytes_sent
            /\ connection_rows'[id].bytes_received
                 >= connection_rows[id].bytes_received
            /\ connection_rows[id].process_id # None =>
                 connection_rows'[id].process_id
                   = connection_rows[id].process_id]_vars
  BY HistoryGrows
<1> QED BY <1>1, HistoryInvariant, PTL DEF Spec, HistoryKept

-----------------------------------------------------------------------------
(***************************************************************************)
(* What the correlator was shown, and the requests it links.               *)
(***************************************************************************)

LEMMA HeardTyped ==
    ASSUME MonitorInv, HeardInv
    PROVE  /\ \A h \in heard : /\ h.connection \in NetworkConnection
                               /\ h.observed_at \in Nat
           /\ Versions \subseteq NetworkConnection
           /\ clock \in Nat
<1>1. Versions \subseteq NetworkConnection
  BY VersionsTyped DEF OrderTypes
<1>2. clock \in Nat
  BY DEF MonitorInv, WorkerTypeOK, Time
<1> QED BY <1>1, <1>2 DEF HeardInv, Observation, Time

\* The clock goes on, and the session's history with it.
LEMMA ClockStep ==
    ASSUME MonitorInv, [Next]_vars, ~Restart PROVE clock <= clock'
<1>1. clock \in Nat
  BY DEF MonitorInv, WorkerTypeOK, Time
<1>2. clock' = clock \/ clock' = clock + 1
  BY DEF Next, Worker, Frame, Capture, TakeRequestId, SendProxyEvent, Tick,
         ReceivePacket, ReceiveTimeout, HandleExpired, HandleChanged,
         HandleEnded, PacketHandled, HandleProxyEvent, EndIteration,
         ReceiveConnection, ReceiveClosed, ToggleRecording, Clear,
         UiLeavesAlone, vars, worldVars
<1> QED BY <1>1, <1>2

LEMMA HeardUntouched ==
    ASSUME MonitorInv, MonitorInv', HeardInv, VersionsGrow, clock <= clock',
           UNCHANGED <<observed, heard>>
    PROVE  HeardInv'
<1>1. /\ \A h \in heard : /\ h.connection \in NetworkConnection
                          /\ h.observed_at \in Nat
      /\ Versions \subseteq NetworkConnection
      /\ Versions' \subseteq NetworkConnection
      /\ clock \in Nat /\ clock' \in Nat
  <2>1. OrderTypes'
    BY VersionsTyped, PTL
  <2>2. clock' \in Nat
    BY DEF MonitorInv, WorkerTypeOK, Time
  <2> QED BY <2>1, <2>2, HeardTyped DEF OrderTypes
<1>2. ASSUME NEW h \in heard, NEW new \in Versions', new.id = h.connection.id
      PROVE  ConnectionGrows(h.connection, new)
  <2>1. h.connection.id \in DOMAIN observed
    BY DEF HeardInv
  <2>2. PICK old \in Versions : old.id = new.id /\ ConnectionGrows(old, new)
    BY <1>2, <2>1 DEF VersionsGrow
  <2>3. ConnectionGrows(h.connection, old)
    BY <1>2, <2>2 DEF HeardInv
  <2> QED BY <1>1, <2>2, <2>3, GrowthIsTransitive
<1>3. \A h \in heard : h.observed_at <= clock'
  BY <1>1 DEF HeardInv
<1> QED BY <1>2, <1>3 DEF HeardInv, ConnectionGrows

\* The worker shows the correlator the state that all before it led to.
LEMMA ChangeHeard ==
    ASSUME MonitorInv, HeardInv,
           NEW change \in returned.changed, HandleChanged(change)
    PROVE  HeardInv'
<1> DEFINE connection == change.connection
<1> DEFINE id == connection.id
<1> DEFINE new == [connection |-> connection, observed_at |-> clock]
<1>1. /\ connections' = connections /\ clock' = clock
      /\ returned' = [returned EXCEPT !.changed = @ \ {change}]
      /\ observed' = Insert(observed, id, new)
      /\ heard' = heard \cup {new}
  BY DEF HandleChanged, ObserveConnection, worldVars
<1>2. /\ \A c \in returned.changed : c = change
      /\ ChangesTracked /\ returned \in Returned
      /\ connection \in NetworkConnection /\ connection \in Versions
  BY ChangeTyped
  DEF MonitorInv, StreamInv, ReturnedInStep, RowsInv, TrackerInv,
      TrackerTypeOK, Versions
<1>3. /\ Versions' \subseteq Versions
      /\ \A c \in Versions' : c.id = id => c = connection
  <2>1. returned'.changed = {}
    BY <1>1, <1>2 DEF Returned
  <2> QED BY <1>1, <1>2, <2>1 DEF Versions, ChangesTracked
<1>4. /\ id \in DOMAIN observed' /\ observed'[id] = new
      /\ DOMAIN observed' = DOMAIN observed \cup {id}
      /\ \A i \in DOMAIN observed : i # id => observed'[i] = observed[i]
  BY <1>1 DEF Insert
<1>5. ConnectionGrows(connection, connection)
  BY <1>2, WidthAssumption DEF ConnectionGrows, NetworkConnection, U64
<1>6. new \in Observation /\ clock \in Nat
  BY <1>2, HeardTyped DEF Observation, Time
<1>7. new.connection = connection /\ new.observed_at = clock
  OBVIOUS
<1> HIDE DEF new
<1>8. ASSUME NEW h \in heard'
      PROVE  LET i == h.connection.id
             IN  /\ i \in DOMAIN observed'
                 /\ ConnectionGrows(h.connection, observed'[i].connection)
                 /\ h.observed_at <= observed'[i].observed_at
                 /\ h.observed_at <= clock
                 /\ \A c \in Versions' : c.id = i =>
                       ConnectionGrows(h.connection, c)
  <2>1. CASE h = new
    BY <1>3, <1>4, <1>5, <1>6, <1>7, <2>1
  <2>2. CASE h \in heard /\ h.connection.id = id
    <3>1. ConnectionGrows(h.connection, connection) /\ h.observed_at <= clock
      BY <1>2, <2>2 DEF HeardInv
    <3> QED BY <1>3, <1>4, <1>7, <2>2, <3>1
  <2>3. CASE h \in heard /\ h.connection.id # id
    BY <1>3, <1>4, <2>3 DEF HeardInv
  <2> QED BY <1>1, <2>1, <2>2, <2>3
<1>9. \A i \in DOMAIN observed' :
         observed'[i] \in heard' /\ observed'[i].connection.id = i
  BY <1>1, <1>4, <1>7 DEF HeardInv
<1>10. heard' \subseteq Observation
  BY <1>1, <1>6 DEF HeardInv
<1> HIDE DEF connection, id
<1> QED BY <1>1, <1>8, <1>9, <1>10 DEF HeardInv, ConnectionGrows

LEMMA HeardStep ==
    ASSUME MonitorInv, HeardInv, [Next]_vars
    PROVE  HeardInv'
<1>1. CASE Restart
  <2>1. heard' = {} /\ DOMAIN observed' = {}
    BY <1>1 DEF Restart, EmptyMap
  <2> QED BY <2>1 DEF HeardInv
<1>2. CASE \E change \in returned.changed : HandleChanged(change)
  BY <1>2, ChangeHeard
<1>3. CASE ~Restart /\ ~ \E change \in returned.changed : HandleChanged(change)
  BY <1>3, StepInv, VersionsStep, ClockStep, OnlyChangesAreStored, HeardUntouched
<1> QED BY <1>1, <1>2, <1>3

\* The correlator forgets nothing it was shown that a link could depend on: its
\* entry of an id is the last, and knows every owner that was known before.
THEOREM HeardInvariant == Spec => [](MonitorInv /\ HeardInv)
<1>1. Init => HeardInv
  BY DEF Init, InitCorrelator, EmptyMap, HeardInv
<1>2. MonitorInv /\ HeardInv /\ [Next]_vars => HeardInv'
  BY HeardStep
<1> QED BY <1>1, <1>2, MonitorInvariant, PTL DEF Spec

\* The only match of the correlator is the only candidate of all it was shown.
LEMMA OnlyMatch ==
    ASSUME MonitorInv, HeardInv, NEW request, NEW id,
           id \in Correlated("TCP", request.client, ProxyAddress, clock)
    PROVE  /\ id \in DOMAIN observed
           /\ {h.connection.id : h \in CandidatesFor(request)} = {id}
<1> DEFINE key == [protocol |-> "TCP", local  |-> request.client,
                                       remote |-> ProxyAddress]
<1>1. /\ id \in DOMAIN observed
      /\ observed[id].connection.key = key
      /\ observed[id].connection.process # None
      /\ TimeDifference(observed[id].observed_at, clock) <= CorrelationWindow
  BY DEF Correlated, Matches
<1>2. \A i \in DOMAIN observed :
         /\ observed[i].connection.key = key
         /\ observed[i].connection.process # None
         /\ TimeDifference(observed[i].observed_at, clock) <= CorrelationWindow
         => i = id
  BY DEF Correlated, Matches
<1>3. \A h \in CandidatesFor(request) :
         /\ h \in heard /\ h.connection.key = key
         /\ h.connection.process # None
         /\ TimeDifference(h.observed_at, clock) <= CorrelationWindow
  BY DEF CandidatesFor
<1>4. observed[id] \in CandidatesFor(request) /\ observed[id].connection.id = id
  BY <1>1 DEF HeardInv, CandidatesFor
<1> HIDE DEF key
<1>5. ASSUME NEW h \in CandidatesFor(request) PROVE h.connection.id = id
  <2> DEFINE i == h.connection.id
  <2>1. /\ i \in DOMAIN observed
        /\ observed[i] \in heard
        /\ ConnectionGrows(h.connection, observed[i].connection)
        /\ h.observed_at <= observed[i].observed_at
    BY <1>3 DEF HeardInv
  <2>2. /\ observed[i].connection.key = key
        /\ observed[i].connection.process # None
    BY <1>3, <2>1 DEF ConnectionGrows
  <2>3. observed[i].observed_at <= clock
    BY <2>1 DEF HeardInv
  <2>4. /\ h.observed_at \in Nat /\ observed[i].observed_at \in Nat
        /\ clock \in Nat
    BY <1>3, <2>1, HeardTyped
  <2>5. TimeDifference(observed[i].observed_at, clock) <= CorrelationWindow
    BY <1>3, <2>1, <2>3, <2>4, WindowAssumption DEF TimeDifference
  <2> QED BY <1>2, <2>1, <2>2, <2>5
<1> QED BY <1>1, <1>4, <1>5

\* A request saved with a connection has one that the correlator returned.
LEMMA LinkedRightly ==
    ASSUME MonitorInv, HeardInv, [Next]_vars,
           database => \A id \in DOMAIN observed \cap DOMAIN connection_rows :
              \E h \in heard : /\ h.connection.id = id
                               /\ ShownBy(connection_rows[id], h.connection),
           NEW id \in DOMAIN request_rows',
           id \notin DOMAIN request_rows \/ request_rows[id] # request_rows'[id],
           request_rows'[id] # None
    PROVE  /\ {h.connection.id : h \in CandidatesFor(Head(proxy_events))}
                = {request_rows'[id]}
           /\ \E h \in heard :
                 /\ h.connection.id = request_rows'[id]
                 /\ ShownBy(connection_rows[request_rows'[id]], h.connection)
<1>1. request_rows' # request_rows
  OBVIOUS
<1>2. PICK resolved \in Process \cup {None} : HandleProxyEvent(resolved)
  BY <1>1
  DEF Next, Worker, Frame, Capture, TakeRequestId, SendProxyEvent, Tick,
      ReceivePacket, ReceiveTimeout, HandleExpired, HandleChanged, HandleEnded,
      Close, SaveConnection, PacketHandled, EndIteration, ReceiveConnection,
      ReceiveClosed, ToggleRecording, Clear, Restart, UiLeavesAlone, vars,
      storageVars
<1> DEFINE request == Head(proxy_events)
<1> DEFINE match == Correlated("TCP", request.client, ProxyAddress, clock)
<1>3. PICK connection_id \in IF match = {} THEN {None} ELSE match :
         IF database THEN SaveHttpRequest(request.id, connection_id)
                     ELSE UNCHANGED storageVars
  BY <1>2 DEF HandleProxyEvent
<1>4. /\ connection_id \in DOMAIN connection_rows \cup {None}
      /\ request_rows' = Insert(request_rows, request.id, connection_id)
  BY <1>1, <1>3 DEF SaveHttpRequest, storageVars
<1>5. request_rows'[id] = connection_id
  BY <1>4 DEF Insert
<1>6. /\ connection_id \in match /\ connection_id \in DOMAIN connection_rows
      /\ database
  BY <1>1, <1>3, <1>4, <1>5 DEF storageVars
<1>7. /\ connection_id \in DOMAIN observed
      /\ {h.connection.id : h \in CandidatesFor(request)} = {connection_id}
  BY <1>6, OnlyMatch
<1> QED BY <1>5, <1>6, <1>7

\* What is in the database was shown to the correlator in the same step.
LEMMA StoredHeardStep ==
    ASSUME StoredWasHeard, [Next]_vars, ~Restart
    PROVE  StoredWasHeard'
<1>1. ASSUME NEW change \in returned.changed, HandleChanged(change)
      PROVE  StoredWasHeard'
  <2> DEFINE connection == change.connection
  <2> DEFINE new == [connection |-> connection, observed_at |-> clock]
  <2>1. heard' = heard \cup {new} /\ new.connection = connection
    BY <1>1 DEF HandleChanged
  <2>2. connection_rows' = connection_rows \/ UpsertConnection(connection, clock)
    BY <1>1 DEF HandleChanged, SaveConnection, storageVars
  <2>3. \A id \in DOMAIN connection_rows' :
           \/ id \in DOMAIN connection_rows
              /\ connection_rows'[id] = connection_rows[id]
           \/ id = connection.id /\ ShownBy(connection_rows'[id], connection)
    BY <2>2 DEF UpsertConnection, Insert, ShownBy
  <2> HIDE DEF new
  <2> QED BY <2>1, <2>3 DEF StoredWasHeard, ShownBy
<1>2. CASE ~ \E change \in returned.changed : HandleChanged(change)
  BY <1>2, OnlyChangesAreStored DEF StoredWasHeard, ShownBy
<1> QED BY <1>1, <1>2

\* Within a session a request is stored only with the one connection it can have
\* come over, as that was heard of, even when writes of connections were lost
\* (handle_proxy_event and save_http_request's foreign key).
THEOREM OnlyCandidateIsLinked ==
    ASSUME MaxSessions = 1 PROVE Spec => LinkedToOnlyCandidate
<1>1. Init => StoredWasHeard
  BY DEF Init, InitStorage, EmptyMap, StoredWasHeard
<1>2. MonitorInv /\ HistoryInv /\ session = 1 /\ StoredWasHeard /\ [Next]_vars
         => StoredWasHeard'
  BY HistoryStep, StoredHeardStep
<1>3. MonitorInv /\ HeardInv /\ StoredWasHeard /\ [Next]_vars =>
         [\A id \in DOMAIN request_rows' :
            LET connection_id == request_rows'[id]
            IN  /\ id \notin DOMAIN request_rows
                     \/ request_rows[id] # connection_id
                /\ connection_id # None
                => /\ {h.connection.id : h \in CandidatesFor(Head(proxy_events))}
                        = {connection_id}
                   /\ \E h \in heard :
                         /\ h.connection.id = connection_id
                         /\ ShownBy(connection_rows[connection_id],
                                    h.connection)]_vars
  BY LinkedRightly DEF StoredWasHeard
<1> QED BY <1>1, <1>2, <1>3, HistoryInvariant, HeardInvariant, PTL
        DEF Spec, LinkedToOnlyCandidate

\* The database is opened once, when the program starts.
LEMMA SameDatabase == ASSUME [Next]_vars, ~Restart PROVE database' = database
BY DEF Next, Worker, Frame, Capture, TakeRequestId, SendProxyEvent, Tick,
       ReceivePacket, ReceiveTimeout, HandleExpired, HandleChanged,
       HandleEnded, PacketHandled, HandleProxyEvent, EndIteration,
       ReceiveConnection, ReceiveClosed, ToggleRecording, Clear,
       UiLeavesAlone, vars, worldVars

\* What is observed was saved in the same step.
LEMMA SavedStep ==
    ASSUME ~StatementsFail, SavedAsObserved, [Next]_vars
    PROVE  SavedAsObserved'
<1>1. CASE Restart
  BY <1>1 DEF Restart, SavedAsObserved, EmptyMap
<1>2. ASSUME NEW change \in returned.changed, HandleChanged(change)
      PROVE  SavedAsObserved'
  <2> DEFINE connection == change.connection
  <2>1. /\ observed' = Insert(observed, connection.id,
                          [connection |-> connection, observed_at |-> clock])
        /\ database' = database
    BY <1>2 DEF HandleChanged, ObserveConnection, worldVars
  <2>2. database => UpsertConnection(connection, clock)
    BY <1>2 DEF HandleChanged, SaveConnection
  <2>3. database =>
          /\ DOMAIN connection_rows' = DOMAIN connection_rows \cup {connection.id}
          /\ ShownBy(connection_rows'[connection.id], connection)
          /\ \A id \in DOMAIN connection_rows : id # connection.id =>
                connection_rows'[id] = connection_rows[id]
    BY <2>2 DEF UpsertConnection, Insert, ShownBy
  <2>4. /\ DOMAIN observed' = DOMAIN observed \cup {connection.id}
        /\ observed'[connection.id].connection = connection
        /\ \A id \in DOMAIN observed : id # connection.id =>
              observed'[id] = observed[id]
    BY <2>1 DEF Insert
  <2>5. ASSUME database, NEW id \in DOMAIN observed'
        PROVE  /\ id \in DOMAIN connection_rows'
               /\ ShownBy(connection_rows'[id], observed'[id].connection)
    <3>1. CASE id = connection.id
      BY <2>3, <2>4, <2>5, <3>1
    <3>2. CASE id # connection.id
      BY <2>3, <2>4, <2>5, <3>2 DEF SavedAsObserved
    <3> QED BY <3>1, <3>2
  <2> QED BY <2>1, <2>5 DEF SavedAsObserved, ShownBy
<1>3. CASE ~Restart /\ ~ \E change \in returned.changed : HandleChanged(change)
  <2>1. database' = database
    BY <1>3, SameDatabase
  <2> QED BY <1>3, <2>1, OnlyChangesAreStored DEF SavedAsObserved, ShownBy
<1> QED BY <1>1, <1>2, <1>3

\* However often the program is restarted over an old database, requests are
\* linked to connections of their own session: it takes a lost write as well to
\* link one to an older session's (run_components saves a connection before
\* requests are matched with it).
THEOREM LinksSurviveRestarts ==
    ASSUME ~StatementsFail PROVE Spec => LinkedToOnlyCandidate
<1>1. Init => SavedAsObserved
  BY DEF Init, InitCorrelator, SavedAsObserved, EmptyMap
<1>2. SavedAsObserved /\ [Next]_vars => SavedAsObserved'
  BY SavedStep
<1>3. MonitorInv /\ HeardInv /\ SavedAsObserved /\ [Next]_vars =>
         [\A id \in DOMAIN request_rows' :
            LET connection_id == request_rows'[id]
            IN  /\ id \notin DOMAIN request_rows
                     \/ request_rows[id] # connection_id
                /\ connection_id # None
                => /\ {h.connection.id : h \in CandidatesFor(Head(proxy_events))}
                        = {connection_id}
                   /\ \E h \in heard :
                         /\ h.connection.id = connection_id
                         /\ ShownBy(connection_rows[connection_id],
                                    h.connection)]_vars
  <2>1. HeardInv /\ SavedAsObserved /\ database =>
           \A id \in DOMAIN observed : \E h \in heard :
              /\ h.connection.id = id
              /\ ShownBy(connection_rows[id], h.connection)
    BY DEF HeardInv, SavedAsObserved
  <2> QED BY <2>1, LinkedRightly
<1> QED BY <1>1, <1>2, <1>3, HeardInvariant, PTL DEF Spec, LinkedToOnlyCandidate

-----------------------------------------------------------------------------
(***************************************************************************)
(* What the history holds (HistoryComplete), over any number of sessions   *)
(* and with any statement failing.                                         *)
(***************************************************************************)

\* A packet changes one connection, which is then still to be sent.
LEMMA ReceivePacketStored ==
    ASSUME MonitorInv, StoredAsTracked,
           NEW process \in Process \cup {None}, ReceivePacket(process)
    PROVE  StoredAsTracked'
<1> DEFINE packet == [Head(captured) EXCEPT !.process = process]
<1>1. /\ stage = "capture" /\ captured # <<>>
      /\ UNCHANGED <<connection_rows, lost_connections>>
      /\ ProcessPacket(packet)
  BY DEF ReceivePacket, storageVars
<1>2. packet \in CapturedPacket
  BY <1>1, HeadPacket
<1>3. TrackerInv /\ next_id < MaxU64
  BY IdBound DEF MonitorInv
<1>4. NotYetSent = {}
  BY <1>1, BetweenPackets DEF NothingReturned, NotYetSent
<1> HIDE DEF packet
<1>5. PICK entry :
         /\ NotYetSent' = {entry.connection.id}
         /\ \A k \in DOMAIN connections' :
               \/ connections'[k] = entry
               \/ /\ k \in DOMAIN connections
                  /\ connections'[k] = connections[k]
  BY <1>1, <1>2, <1>3, OneEntryChanges
<1> QED BY <1>1, <1>4, <1>5 DEF StoredAsTracked, ShownBy

\* The change of a connection is stored, or its loss noted.
LEMMA ChangeIsStored ==
    ASSUME MonitorInv, database => StoredAsTracked /\ ObservedAccounted,
           NEW change \in returned.changed, HandleChanged(change)
    PROVE  /\ database' => StoredAsTracked' /\ ObservedAccounted'
           /\ database' = database
           /\ UNCHANGED <<request_rows, lost_requests, proxyVars>>
<1> DEFINE connection == change.connection
<1> DEFINE id == connection.id
<1>1. /\ connections' = connections /\ database' = database
      /\ returned' = [returned EXCEPT !.changed = @ \ {change}]
      /\ DOMAIN observed' = DOMAIN observed \cup {id}
      /\ UNCHANGED <<request_rows, lost_requests, proxyVars>>
  BY DEF HandleChanged, ObserveConnection, Insert, SaveConnection, worldVars,
         storageVars
<1>2. /\ \A c \in returned.changed : c = change
      /\ ChangesTracked /\ returned \in Returned
  BY DEF MonitorInv, StreamInv, ReturnedInStep, RowsInv, TrackerInv,
         TrackerTypeOK
<1>3. NotYetSent = {id}
  BY <1>2 DEF NotYetSent
<1>4. CASE /\ UpsertConnection(connection, clock)
           /\ lost_connections' = lost_connections \ {id}
  <2>1. /\ DOMAIN connection_rows' = DOMAIN connection_rows \cup {id}
        /\ ShownBy(connection_rows'[id], connection)
        /\ \A i \in DOMAIN connection_rows : i # id =>
              connection_rows'[i] = connection_rows[i]
    BY <1>4 DEF UpsertConnection, Insert, ShownBy
  <2>2. database => StoredAsTracked'
    <3> SUFFICES ASSUME database, NEW k \in DOMAIN connections, NEW c,
                        c = connections[k].connection,
                        c.id \notin lost_connections'
                 PROVE  /\ c.id \in DOMAIN connection_rows'
                        /\ ShownBy(connection_rows'[c.id], c)
      BY <1>1 DEF StoredAsTracked, ShownBy
    <3>1. CASE c.id = id
      <4>1. c = connection
        BY <1>2, <3>1 DEF ChangesTracked
      <4> QED BY <2>1, <4>1
    <3>2. CASE c.id # id
      <4>1. c.id \notin NotYetSent \cup lost_connections
        BY <1>3, <1>4, <3>2
      <4>2. /\ c.id \in DOMAIN connection_rows
            /\ ShownBy(connection_rows[c.id], c)
        BY <4>1 DEF StoredAsTracked
      <4>3. connection_rows'[c.id] = connection_rows[c.id]
        BY <2>1, <3>2, <4>2
      <4> QED BY <2>1, <4>2, <4>3
    <3> QED BY <3>1, <3>2
  <2>3. database => ObservedAccounted'
    BY <1>1, <1>4, <2>1 DEF ObservedAccounted
  <2> QED BY <1>1, <2>2, <2>3
<1>5. CASE /\ UNCHANGED connection_rows
           /\ lost_connections' = lost_connections \cup {id}
  <2>1. \A i : i \notin NotYetSent' \cup lost_connections'
                  => i \notin NotYetSent \cup lost_connections
    BY <1>3, <1>5
  <2>2. database => StoredAsTracked'
    BY <1>1, <1>5, <2>1 DEF StoredAsTracked, ShownBy
  <2>3. database => ObservedAccounted'
    BY <1>1, <1>5 DEF ObservedAccounted
  <2> QED BY <1>1, <2>2, <2>3
<1>6. CASE ~database
  BY <1>1, <1>6
<1> QED BY <1>4, <1>5, <1>6 DEF HandleChanged, SaveConnection

\* A request is stored, or lost by a statement's failure or with its
\* connection: what it is linked to is observed, so stored or lost.
LEMMA RequestIsStored ==
    ASSUME MonitorInv, database, RequestsAccounted, ObservedAccounted,
           NEW resolved \in Process \cup {None}, HandleProxyEvent(resolved)
    PROVE  RequestsAccounted'
<1> DEFINE request == Head(proxy_events)
<1> DEFINE match == Correlated("TCP", request.client, ProxyAddress, clock)
<1>1. PICK connection_id \in IF match = {} THEN {None} ELSE match :
         SaveHttpRequest(request.id, connection_id)
  BY DEF HandleProxyEvent
<1>2. /\ proxy_events # <<>> /\ proxy_events' = Tail(proxy_events)
      /\ UNCHANGED <<in_flight, next_request>>
  BY DEF HandleProxyEvent
<1>3. connection_id \in DOMAIN observed \cup {None}
  BY <1>1 DEF Correlated, Matches
<1>4. request.id \in lost_requests' \cup DOMAIN request_rows'
  BY <1>1, <1>3 DEF SaveHttpRequest, ObservedAccounted, Insert
<1>5. /\ lost_requests \subseteq lost_requests'
      /\ DOMAIN request_rows \subseteq DOMAIN request_rows'
  BY <1>1 DEF SaveHttpRequest, Insert
<1>6. UnderWay \subseteq UnderWay' \cup {request.id}
  <2>1. proxy_events \in Seq(Request)
    BY DEF MonitorInv, ChannelsTypeOK
  <2>2. \A n \in DOMAIN proxy_events :
           \/ n = 1 /\ proxy_events[n] = request
           \/ n - 1 \in DOMAIN proxy_events'
                 /\ proxy_events'[n - 1] = proxy_events[n]
    BY <1>2, <2>1
  <2> HIDE DEF request
  <2> QED BY <1>2, <2>2 DEF UnderWay
<1> HIDE DEF request
<1> QED BY <1>2, <1>4, <1>5, <1>6 DEF RequestsAccounted

\* The proxy's own steps take ids and pass them on.
LEMMA RequestsStayAccounted ==
    ASSUME MonitorInv, RequestsAccounted,
           UNCHANGED <<lost_requests, request_rows>>,
           \/ \E client \in Client : TakeRequestId(client)
           \/ \E request \in in_flight : SendProxyEvent(request)
           \/ UNCHANGED proxyVars
    PROVE  RequestsAccounted'
<1>1. /\ in_flight \subseteq Request /\ proxy_events \in Seq(Request)
      /\ next_request \in Nat
  BY VersionsTyped DEF MonitorInv, ChannelsTypeOK, OrderTypes
<1>2. ASSUME NEW client \in Client, TakeRequestId(client)
      PROVE  RequestsAccounted'
  <2>1. /\ next_request' = next_request + 1 /\ proxy_events' = proxy_events
        /\ in_flight' = in_flight
              \cup {[id |-> next_request, client |-> client]}
    BY <1>2 DEF TakeRequestId, Proxy!Take
  <2>2. PICK new : /\ new.id = next_request
                   /\ in_flight' = in_flight \cup {new}
    BY <2>1
  <2>3. UnderWay' = UnderWay \cup {next_request}
    BY <2>1, <2>2 DEF UnderWay
  <2>4. \A id \in 1 .. next_request' - 1 :
           id = next_request \/ id \in 1 .. next_request - 1
    BY <1>1, <2>1
  <2> QED BY <2>3, <2>4 DEF RequestsAccounted
<1>3. ASSUME NEW request \in in_flight, SendProxyEvent(request)
      PROVE  RequestsAccounted'
  <2> DEFINE last == Len(proxy_events) + 1
  <2>1. /\ next_request' = next_request
        /\ in_flight' = in_flight \ {request}
        /\ proxy_events' = Append(proxy_events, request)
    BY <1>3 DEF SendProxyEvent, Proxy!Deliver
  <2>2. /\ DOMAIN proxy_events' = DOMAIN proxy_events \cup {last}
        /\ \A n \in DOMAIN proxy_events : proxy_events'[n] = proxy_events[n]
        /\ proxy_events'[last] = request
    BY <1>1, <1>3, <2>1
  <2> HIDE DEF last
  <2>3. UnderWay \subseteq UnderWay'
    BY <2>1, <2>2 DEF UnderWay
  <2> QED BY <2>1, <2>3 DEF RequestsAccounted
<1>4. CASE UNCHANGED proxyVars
  BY <1>4 DEF proxyVars, RequestsAccounted, UnderWay
<1> QED BY <1>2, <1>3, <1>4

CompleteInv == HistoryComplete /\ ObservedAccounted

LEMMA CompleteStep ==
    ASSUME MonitorInv, CompleteInv, [Next]_vars PROVE CompleteInv'
<1> USE DEF CompleteInv, HistoryComplete
<1>1. CASE Restart
  <2>1. /\ DOMAIN connections' = {} /\ DOMAIN observed' = {}
        /\ next_request' = 1
    BY <1>1, EmptyMapTyped DEF Restart
  <2> QED BY <2>1 DEF StoredAsTracked, RequestsAccounted, ObservedAccounted
<1>2. CASE ~Restart /\ ~database
  <2>1. database' = database
    BY <1>2, SameDatabase
  <2> QED BY <1>2, <2>1 DEF ObservedAccounted
<1>3. CASE ~Restart /\ database
  <2>1. ASSUME NEW change \in returned.changed, HandleChanged(change)
        PROVE  CompleteInv'
    <3>1. /\ StoredAsTracked' /\ ObservedAccounted' /\ database' = database
          /\ UNCHANGED <<request_rows, lost_requests, proxyVars>>
      BY <1>3, <2>1, ChangeIsStored
    <3> QED BY <1>3, <3>1, RequestsStayAccounted
  <2>2. ASSUME NEW process \in Process \cup {None}, ReceivePacket(process)
        PROVE  CompleteInv'
    <3>1. UNCHANGED <<observed, storageVars, proxyVars>>
      BY <2>2 DEF ReceivePacket
    <3> QED BY <1>3, <2>2, <3>1, ReceivePacketStored, RequestsStayAccounted
        DEF ObservedAccounted, storageVars
  <2>3. ASSUME NEW process \in Process \cup {None}, HandleProxyEvent(process)
        PROVE  CompleteInv'
    <3>1. /\ UNCHANGED <<observed, connections, returned>>
          /\ UNCHANGED <<connection_rows, lost_connections>>
      BY <2>3 DEF HandleProxyEvent, SaveHttpRequest, storageVars, trackerVars
    <3> QED BY <1>3, <2>3, <3>1, RequestIsStored
        DEF ObservedAccounted, StoredAsTracked, ShownBy, NotYetSent
  <2>4. ASSUME \/ \E id \in returned.expired : HandleExpired(id)
               \/ \E id \in returned.closed : HandleEnded(id)
        PROVE  CompleteInv'
    <3>1. returned \in Returned
      BY DEF MonitorInv, TrackerInv, TrackerTypeOK
    <3>2. /\ UNCHANGED <<connections, observed, storageVars, proxyVars>>
          /\ returned'.changed = returned.changed
      BY <2>4, <3>1 DEF HandleExpired, HandleEnded, Close, Returned
    <3> QED BY <1>3, <3>2, RequestsStayAccounted
        DEF ObservedAccounted, StoredAsTracked, ShownBy, NotYetSent, storageVars
  <2>5. ASSUME UNCHANGED <<connections, returned, observed, storageVars>>,
               \/ \E client \in Client : TakeRequestId(client)
               \/ \E request \in in_flight : SendProxyEvent(request)
               \/ UNCHANGED proxyVars
        PROVE  CompleteInv'
    BY <1>3, <2>5, RequestsStayAccounted
    DEF ObservedAccounted, StoredAsTracked, ShownBy, NotYetSent, storageVars
  <2>6. ASSUME \/ \E packet \in Packet : Capture(packet)
               \/ \E client \in Client : TakeRequestId(client)
               \/ \E request \in in_flight : SendProxyEvent(request)
               \/ Tick \/ ReceiveTimeout \/ PacketHandled \/ EndIteration
               \/ Frame \/ ToggleRecording \/ Clear \/ UNCHANGED vars
        PROVE  /\ UNCHANGED <<connections, returned, observed, storageVars>>
               /\ \/ \E client \in Client : TakeRequestId(client)
                  \/ \E request \in in_flight : SendProxyEvent(request)
                  \/ UNCHANGED proxyVars
    BY <2>6
    DEF Capture, TakeRequestId, SendProxyEvent, Tick, ReceiveTimeout,
        PacketHandled, EndIteration, Frame, ReceiveConnection, ReceiveClosed,
        ToggleRecording, Clear, UiLeavesAlone, vars, trackerVars
  <2> QED BY <1>3, <2>1, <2>2, <2>3, <2>4, <2>5, <2>6 DEF Next, Worker
<1> QED BY <1>1, <1>2, <1>3

\* Nothing the user was shown is missing from the history unless a write of it
\* failed, over any number of sessions and whichever statements fail.
THEOREM HistoryIsComplete == Spec => []HistoryComplete
<1>1. Init => CompleteInv
  <2> SUFFICES ASSUME Init PROVE CompleteInv
    OBVIOUS
  <2>1. /\ DOMAIN connections = {} /\ DOMAIN observed = {}
        /\ next_request = 1
    BY EmptyMapTyped DEF Init, InitTracker, InitCorrelator
  <2> QED BY <2>1 DEF CompleteInv, HistoryComplete, StoredAsTracked,
      RequestsAccounted, ObservedAccounted
<1>2. MonitorInv /\ CompleteInv /\ [Next]_vars => CompleteInv'
  BY CompleteStep
<1> QED BY <1>1, <1>2, MonitorInvariant, PTL DEF Spec, CompleteInv

-----------------------------------------------------------------------------
\* The worker and its proxy exchange requests as ProxyFeed says; HttpProxy
\* keeps the same promise (FeedsTheWorker), so nothing the proxy does is
\* missing from this model.
THEOREM TakesTheFeed == Spec => FedByProxy
<1>1. Init => Proxy!InitProxyFeed
  BY DEF Init, Proxy!InitProxyFeed
<1>2. [Next]_vars => [Proxy!NextProxyFeed]_(Proxy!proxyFeedVars)
  <2> SUFFICES ASSUME [Next]_vars
               PROVE  Proxy!NextProxyFeed \/ UNCHANGED Proxy!proxyFeedVars
    OBVIOUS
  <2>1. ASSUME NEW client \in Client, TakeRequestId(client)
        PROVE  Proxy!NextProxyFeed
    BY <2>1 DEF TakeRequestId, Proxy!NextProxyFeed
  <2>2. ASSUME NEW request \in in_flight, SendProxyEvent(request)
        PROVE  Proxy!NextProxyFeed
    BY <2>2 DEF SendProxyEvent, Proxy!NextProxyFeed
  <2>3. ASSUME NEW process \in Process \cup {None}, HandleProxyEvent(process)
        PROVE  Proxy!NextProxyFeed
    BY <2>3 DEF HandleProxyEvent, Proxy!Read, Proxy!NextProxyFeed
  <2>4. CASE Restart
    BY <2>4 DEF Restart, Proxy!StartAgain, Proxy!NextProxyFeed
  <2>5. ASSUME UNCHANGED proxyVars
        PROVE  UNCHANGED Proxy!proxyFeedVars
    BY <2>5 DEF proxyVars, Proxy!proxyFeedVars
  <2>6. ASSUME \/ \E packet \in Packet : Capture(packet)
               \/ \E process \in Process \cup {None} : ReceivePacket(process)
               \/ \E id \in returned.expired : HandleExpired(id)
               \/ \E change \in returned.changed : HandleChanged(change)
               \/ \E id \in returned.closed : HandleEnded(id)
               \/ Tick \/ ReceiveTimeout \/ PacketHandled \/ EndIteration
               \/ Frame \/ ToggleRecording \/ Clear \/ UNCHANGED vars
        PROVE  UNCHANGED proxyVars
    BY <2>6
    DEF Capture, ReceivePacket, HandleExpired, HandleChanged, HandleEnded,
        Tick, ReceiveTimeout, PacketHandled, EndIteration, Frame,
        ReceiveConnection, ReceiveClosed, ToggleRecording, Clear,
        UiLeavesAlone, vars
  <2> QED BY <2>1, <2>2, <2>3, <2>4, <2>5, <2>6 DEF Next, Worker
<1> QED BY <1>1, <1>2, PTL DEF Spec, FedByProxy, Proxy!SpecProxyFeed
=============================================================================
