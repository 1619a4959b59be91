------------------------- MODULE ConnectionTracker -------------------------
(***************************************************************************)
(* ConnectionTracker of apppw-capture: folds a stream of packets into      *)
(* connections and reports their life as Opened, Updated and Closed        *)
(* events.  It has two operations, process_packet and close_inactive, and  *)
(* the first calls the second.                                             *)
(*                                                                         *)
(* `returned' is the Vec<NetworkEvent> of the last call.  Its order is:    *)
(* the idle connections in the arbitrary order of the hash map, then at    *)
(* most one Opened or Updated, then at most one Closed.                    *)
(***************************************************************************)
EXTENDS AppCore

CONSTANTS
    Packet,             \* the packets the capture can deliver
    InactivityTimeout   \* CONNECTION_INACTIVITY_TIMEOUT

ASSUME PacketAssumption == Packet \subseteq CapturedPacket

ASSUME TimeoutAssumption == InactivityTimeout \in Nat \ {0}

VARIABLES
    connections,   \* ConnectionKey -> [connection, last_seen], partial
    next_id,       \* the id of the next connection
    returned       \* events of the last call

trackerVars == <<connections, next_id, returned>>

Tracked == [connection : NetworkConnection, last_seen : Time]

Changed == [kind : {"Opened", "Updated"}, connection : NetworkConnection]

Returned ==
    [expired : SUBSET U64, changed : SUBSET Changed, closed : SUBSET U64]

NothingReturned == [expired |-> {}, changed |-> {}, closed |-> {}]

-----------------------------------------------------------------------------
\* ConnectionKey::from_packet: the local side is the source of an outbound
\* packet and the destination of an inbound one.
KeyOf(packet) ==
    [protocol |-> packet.protocol,
     local    |-> IF packet.direction = "Outbound"
                    THEN packet.source ELSE packet.destination,
     remote   |-> IF packet.direction = "Outbound"
                    THEN packet.destination ELSE packet.source]

Sent(packet) ==
    IF packet.direction = "Outbound" THEN packet.packet_size ELSE 0

Received(packet) ==
    IF packet.direction = "Inbound" THEN packet.packet_size ELSE 0

\* Mutant: the age is the distance of the two times, so that a clock set back
\* makes connections look old.
IdleEitherWay(now) ==
    {k \in DOMAIN connections :
        Elapsed(now, connections[k].last_seen)
            + Elapsed(connections[k].last_seen, now) >= InactivityTimeout}

\* The keys close_inactive removes at `now'.
Idle(now) ==
    {k \in DOMAIN connections :
        Elapsed(now, connections[k].last_seen) >= InactivityTimeout}

IdsOf(keys) == {connections[k].connection.id : k \in keys}

\* A packet's connection survives the sweep that precedes its lookup.
Known(packet) == KeyOf(packet) \in DOMAIN connections \ Idle(packet.timestamp)

\* Mutant: the process is that of the last packet, resolved or not.
UpdatedForgetsProcess(packet) ==
    LET old == connections[KeyOf(packet)].connection
    IN  [connection |->
            [old EXCEPT
                !.process = packet.process,
                !.bytes_sent = SaturatingAdd(@, Sent(packet)),
                !.bytes_received = SaturatingAdd(@, Received(packet))],
         last_seen |-> packet.timestamp]

\* The entry of a known connection after one more packet: the process, once
\* known, is kept.
Updated(packet) ==
    LET old == connections[KeyOf(packet)].connection
    IN  [connection |->
            [old EXCEPT
                !.process = IF old.process = None THEN packet.process ELSE @,
                !.bytes_sent = SaturatingAdd(@, Sent(packet)),
                !.bytes_received = SaturatingAdd(@, Received(packet))],
         last_seen |-> packet.timestamp]

\* The entry of a connection seen for the first time.
Opened(packet) ==
    [connection |->
        [id             |-> next_id,
         process        |-> packet.process,
         key            |-> KeyOf(packet),
         bytes_sent     |-> Sent(packet),
         bytes_received |-> Received(packet)],
     last_seen |-> packet.timestamp]

\* FIN and RST end a connection as soon as its last packet is counted.
EndsConnection(packet) == packet.protocol = "TCP" /\ packet.tcp_end

\* Mutant: the end is reported but the entry stays in the table.
AccountWithoutRemoval(packet, kind, entry) ==
    LET idle == Idle(packet.timestamp)
        live == Without(connections, idle)
    IN  /\ connections' = Insert(live, KeyOf(packet), entry)
        /\ returned' =
              [expired |-> IdsOf(idle),
               changed |-> {[kind |-> kind, connection |-> entry.connection]},
               closed  |-> IF EndsConnection(packet)
                             THEN {entry.connection.id} ELSE {}]

\* The part process_packet's two branches share: sweep, store or drop the
\* packet's connection, and return what happened.
Account(packet, kind, entry) ==
    LET idle == Idle(packet.timestamp)
        ended == EndsConnection(packet)
        live == Without(connections, idle)
    IN  /\ connections' =
              IF ended THEN Without(live, {KeyOf(packet)})
                       ELSE Insert(live, KeyOf(packet), entry)
        /\ returned' =
              [expired |-> IdsOf(idle),
               changed |-> {[kind |-> kind, connection |-> entry.connection]},
               closed  |-> IF ended THEN {entry.connection.id} ELSE {}]

UpdateConnection(packet) ==
    /\ Known(packet)
    /\ Account(packet, "Updated", Updated(packet))
    /\ UNCHANGED next_id

\* Mutant: the counter is not advanced.
OpenWithStaleId(packet) ==
    /\ ~Known(packet)
    /\ Account(packet, "Opened", Opened(packet))
    /\ UNCHANGED next_id

OpenConnection(packet) ==
    /\ ~Known(packet)
    /\ Account(packet, "Opened", Opened(packet))
    /\ next_id' = SaturatingAdd(next_id, 1)

ProcessPacket(packet) == UpdateConnection(packet) \/ OpenConnection(packet)

CloseInactive(now) ==
    /\ connections' = Without(connections, Idle(now))
    /\ returned' = [NothingReturned EXCEPT !.expired = IdsOf(Idle(now))]
    /\ UNCHANGED next_id

-----------------------------------------------------------------------------
InitTracker ==
    /\ connections = EmptyMap
    /\ next_id = 1
    /\ returned = NothingReturned

\* close_inactive is public; nothing but process_packet and a test calls it,
\* with the time of some packet.
NextTracker ==
    \/ \E packet \in Packet : ProcessPacket(packet)
    \/ \E packet \in Packet : CloseInactive(packet.timestamp)

SpecTracker == InitTracker /\ [][NextTracker]_trackerVars

-----------------------------------------------------------------------------
TrackerTypeOK ==
    /\ DOMAIN connections \subseteq ConnectionKey
    /\ connections \in [DOMAIN connections -> Tracked]
    /\ next_id \in U64 \ {0}
    /\ returned \in Returned

\* While the u64 counter has not saturated, an id names one connection of the
\* table and is below the next one to be given out: consumers of the events
\* (packet counts, correlator, database, rows) all key on the id alone.
IdsIdentify ==
    next_id < MaxU64 =>
        \A k \in DOMAIN connections :
            /\ connections[k].connection.id < next_id
            /\ \A l \in DOMAIN connections :
                  connections[k].connection.id = connections[l].connection.id
                    => k = l

\* Each entry is filed under the key of the connection it holds, so the
\* connection an event carries names the traffic it counts.
FiledUnderOwnKey ==
    \A k \in DOMAIN connections : connections[k].connection.key = k

\* The tracker's inductive invariant: it is well typed, ids identify its
\* connections, and each is found under the key of its own traffic.
TrackerInv == TrackerTypeOK /\ IdsIdentify /\ FiledUnderOwnKey

Live == {connections[k].connection : k \in DOMAIN connections}

\* What a listener that applies one call's events to `table' is left with.
Replay(table, events) ==
    LET changed == {c.connection : c \in events.changed}
        gone == events.expired \cup events.closed
        redrawn == {c.id : c \in changed}
    IN  {c \in table : c.id \notin events.expired \cup redrawn}
        \cup {c \in changed : c.id \notin gone}

\* The events of a call say exactly how it changed the table: replaying them
\* over the old table gives the new one, whatever expired, was updated, was
\* opened or ended in the same call; and Opened announces only a new id.
EventsTellTheTable ==
    [][next_id < MaxU64 =>
        /\ Live' = Replay(Live, returned')
        /\ \A c \in returned'.changed :
              c.kind = "Opened" <=> c.connection.id \notin {d.id : d \in Live}
      ]_trackerVars

\* Only packets drive the sweep, and packets may carry a time before others':
\* when one is counted, at the time it carries, no connection that has been
\* silent for the timeout is left, the packet's own included, which is then
\* another one than before; and none leaves earlier, or loses its id.
ExactlyTheIdleGo ==
    [][\A k \in DOMAIN connections' :
        (k \in DOMAIN connections => connections[k] # connections'[k]) =>
            LET now == connections'[k].last_seen
            IN  /\ \A l \in DOMAIN connections' :
                      connections'[l].last_seen + InactivityTimeout > now
                /\ \A l \in DOMAIN connections :
                      connections[l].last_seen + InactivityTimeout > now =>
                         /\ l \in DOMAIN connections'
                         /\ connections'[l].connection.id
                               = connections[l].connection.id
      ]_trackerVars
=============================================================================
