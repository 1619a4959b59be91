----------------------- MODULE ConnectionTrackerProofs -----------------------
(***************************************************************************)
(* Theorems of ConnectionTracker, for every set of packets, every timeout  *)
(* and every counter width.                                                *)
(***************************************************************************)
EXTENDS ConnectionTracker, TLAPS

\* Saturating addition stays in the width of the counter and never decreases
\* it (u64::saturating_add).
LEMMA SaturatingAddBounds ==
    ASSUME NEW n \in U64, NEW m \in U64
    PROVE  /\ SaturatingAdd(n, m) \in U64
           /\ SaturatingAdd(n, m) >= n
BY WidthAssumption DEF SaturatingAdd, U64

\* A packet's key and byte counts are of the right type (from_packet).
LEMMA PacketParts ==
    ASSUME NEW packet \in CapturedPacket
    PROVE  /\ packet.timestamp \in Time
           /\ packet.process \in Process \cup {None}
           /\ KeyOf(packet) \in ConnectionKey
           /\ Sent(packet) \in U64
           /\ Received(packet) \in U64
<1>2. /\ packet.timestamp \in Time
      /\ packet.process \in Process \cup {None}
      /\ packet.protocol \in Protocol
      /\ packet.source \in Endpoint
      /\ packet.destination \in Endpoint
      /\ packet.packet_size \in U64
  BY DEF CapturedPacket
<1>3. KeyOf(packet) \in ConnectionKey
  BY <1>2 DEF KeyOf, ConnectionKey
<1>4. 0 \in U64
  BY WidthAssumption DEF U64
<1>5. Sent(packet) \in U64 /\ Received(packet) \in U64
  BY <1>2, <1>4 DEF Sent, Received
<1> QED BY <1>2, <1>3, <1>5

\* The entry an update stores keeps id and key, never forgets the process and
\* never loses bytes (process_packet, the branch of a known key).
LEMMA UpdatedEntry ==
    ASSUME TrackerTypeOK,
           NEW packet \in CapturedPacket,
           KeyOf(packet) \in DOMAIN connections
    PROVE  LET old == connections[KeyOf(packet)].connection
               new == Updated(packet).connection
           IN  /\ Updated(packet) \in Tracked
               /\ new.id = old.id
               /\ new.key = old.key
               /\ old.process # None => new.process = old.process
               /\ new.bytes_sent >= old.bytes_sent
               /\ new.bytes_received >= old.bytes_received
<1> DEFINE old == connections[KeyOf(packet)].connection
<1> DEFINE new == Updated(packet).connection
<1>1. old \in NetworkConnection
  BY DEF TrackerTypeOK, Tracked
<1>2. /\ old.id \in U64
      /\ old.process \in Process \cup {None}
      /\ old.key \in ConnectionKey
      /\ old.bytes_sent \in U64
      /\ old.bytes_received \in U64
  BY <1>1 DEF NetworkConnection
<1>3. /\ SaturatingAdd(old.bytes_sent, Sent(packet)) \in U64
      /\ SaturatingAdd(old.bytes_sent, Sent(packet)) >= old.bytes_sent
      /\ SaturatingAdd(old.bytes_received, Received(packet)) \in U64
      /\ SaturatingAdd(old.bytes_received, Received(packet)) >= old.bytes_received
  BY <1>2, SaturatingAddBounds, PacketParts
<1>4. new = [old EXCEPT
                !.process = IF old.process = None THEN packet.process
                                                  ELSE old.process,
                !.bytes_sent = SaturatingAdd(old.bytes_sent, Sent(packet)),
                !.bytes_received =
                    SaturatingAdd(old.bytes_received, Received(packet))]
  BY DEF Updated
<1>5. new \in NetworkConnection
  BY <1>1, <1>2, <1>3, <1>4, PacketParts DEF NetworkConnection
<1>6. Updated(packet) \in Tracked
  BY <1>5, PacketParts DEF Updated, Tracked
<1>7. /\ new.id = old.id
      /\ new.key = old.key
      /\ old.process # None => new.process = old.process
      /\ new.bytes_sent = SaturatingAdd(old.bytes_sent, Sent(packet))
      /\ new.bytes_received = SaturatingAdd(old.bytes_received, Received(packet))
  BY <1>1, <1>4 DEF NetworkConnection
<1> QED BY <1>3, <1>6, <1>7

\* The entry of a new connection is well typed, carries the next id and is
\* for the packet's key.
LEMMA OpenedEntry ==
    ASSUME TrackerTypeOK, NEW packet \in CapturedPacket
    PROVE  /\ Opened(packet) \in Tracked
           /\ Opened(packet).connection.id = next_id
           /\ Opened(packet).connection.key = KeyOf(packet)
BY PacketParts DEF TrackerTypeOK, Opened, Tracked, NetworkConnection

-----------------------------------------------------------------------------
(***************************************************************************)
(* What the shared part of process_packet does to the table, key by key.   *)
(***************************************************************************)
LEMMA AccountTable ==
    ASSUME NEW packet, NEW kind, NEW entry,
           Account(packet, kind, entry)
    PROVE  /\ connections' = [k \in DOMAIN connections' |-> connections'[k]]
           /\ \A k : k # KeyOf(packet) =>
                (k \in DOMAIN connections' <=>
                    k \in DOMAIN connections \ Idle(packet.timestamp))
           /\ KeyOf(packet) \in DOMAIN connections' <=> ~EndsConnection(packet)
           /\ \A k \in DOMAIN connections' :
                connections'[k] = IF k = KeyOf(packet) THEN entry
                                                      ELSE connections[k]
<1> DEFINE live == Without(connections, Idle(packet.timestamp))
<1>1. /\ DOMAIN live = DOMAIN connections \ Idle(packet.timestamp)
      /\ \A k \in DOMAIN live : live[k] = connections[k]
  BY DEF Without, Restrict
<1> HIDE DEF live
<1>2. CASE EndsConnection(packet)
  <2>1. connections' = Without(live, {KeyOf(packet)})
    BY <1>2 DEF Account, live
  <2> QED BY <1>1, <1>2, <2>1 DEF Without, Restrict
<1>3. CASE ~EndsConnection(packet)
  <2>1. connections' = Insert(live, KeyOf(packet), entry)
    BY <1>3 DEF Account, live
  <2> QED BY <1>1, <1>3, <2>1 DEF Insert
<1> QED BY <1>2, <1>3

\* The same for close_inactive.
LEMMA SweepTable ==
    ASSUME NEW now, CloseInactive(now)
    PROVE  /\ connections' = [k \in DOMAIN connections' |-> connections'[k]]
           /\ DOMAIN connections' = DOMAIN connections \ Idle(now)
           /\ \A k \in DOMAIN connections' : connections'[k] = connections[k]
BY DEF CloseInactive, Without, Restrict

\* The ids of a set of table keys are u64 values.
LEMMA IdsTyped ==
    ASSUME TrackerTypeOK, NEW keys \in SUBSET DOMAIN connections
    PROVE  IdsOf(keys) \subseteq U64
BY DEF TrackerTypeOK, Tracked, NetworkConnection, IdsOf

LEMMA AccountTyped ==
    ASSUME TrackerTypeOK,
           NEW packet \in CapturedPacket,
           NEW kind \in {"Opened", "Updated"},
           NEW entry \in Tracked,
           Account(packet, kind, entry)
    PROVE  /\ DOMAIN connections' \subseteq ConnectionKey
           /\ connections' \in [DOMAIN connections' -> Tracked]
           /\ returned' \in Returned
<1>1. KeyOf(packet) \in ConnectionKey
  BY PacketParts
<1>2. DOMAIN connections' \subseteq ConnectionKey
  BY <1>1, AccountTable DEF TrackerTypeOK
<1>3. \A k \in DOMAIN connections' : connections'[k] \in Tracked
  <2> TAKE k \in DOMAIN connections'
  <2>1. CASE k = KeyOf(packet)
    BY <2>1, AccountTable
  <2>2. CASE k # KeyOf(packet)
    BY <2>2, AccountTable DEF TrackerTypeOK
  <2> QED BY <2>1, <2>2
<1>4. connections' \in [DOMAIN connections' -> Tracked]
  BY <1>3, AccountTable
<1>5. returned' \in Returned
  <2>1. IdsOf(Idle(packet.timestamp)) \subseteq U64
    BY IdsTyped DEF Idle
  <2>2. entry.connection \in NetworkConnection /\ entry.connection.id \in U64
    BY DEF Tracked, NetworkConnection
  <2>3. {[kind |-> kind, connection |-> entry.connection]} \subseteq Changed
    BY <2>2 DEF Changed
  <2> QED BY <2>1, <2>2, <2>3 DEF Account, Returned
<1> QED BY <1>2, <1>4, <1>5

LEMMA TrackerInitInv == InitTracker => TrackerInv
<1> SUFFICES ASSUME InitTracker PROVE TrackerInv
  OBVIOUS
<1>1. DOMAIN connections = {}
  BY DEF InitTracker, EmptyMap
<1>2. connections \in [DOMAIN connections -> Tracked]
  BY <1>1 DEF InitTracker, EmptyMap
<1>3. next_id \in U64 \ {0}
  BY WidthAssumption DEF InitTracker, U64
<1>4. returned \in Returned
  BY DEF InitTracker, NothingReturned, Returned
<1> QED
  BY <1>1, <1>2, <1>3, <1>4
  DEF TrackerInv, TrackerTypeOK, IdsIdentify, FiledUnderOwnKey

LEMMA UpdateKeepsInv ==
    ASSUME TrackerInv, NEW packet \in CapturedPacket, UpdateConnection(packet)
    PROVE  TrackerInv'
<1> DEFINE key == KeyOf(packet)
<1> DEFINE entry == Updated(packet)
<1>1. TrackerTypeOK /\ IdsIdentify /\ FiledUnderOwnKey
  BY DEF TrackerInv
<1>2. key \in DOMAIN connections
  BY DEF UpdateConnection, Known
<1>3. Account(packet, "Updated", entry) /\ next_id' = next_id
  BY DEF UpdateConnection
<1>4. /\ entry \in Tracked
      /\ entry.connection.id = connections[key].connection.id
      /\ entry.connection.key = connections[key].connection.key
  BY <1>1, <1>2, UpdatedEntry
<1>5. TrackerTypeOK'
  BY <1>1, <1>3, <1>4, AccountTyped DEF TrackerTypeOK
<1>6. \A k \in DOMAIN connections' :
         /\ k \in DOMAIN connections
         /\ connections'[k].connection.id = connections[k].connection.id
         /\ connections'[k].connection.key = connections[k].connection.key
  BY <1>2, <1>3, <1>4, AccountTable
<1>7. IdsIdentify'
  BY <1>1, <1>3, <1>6 DEF IdsIdentify
<1>8. FiledUnderOwnKey'
  BY <1>1, <1>6 DEF FiledUnderOwnKey
<1> QED BY <1>5, <1>7, <1>8 DEF TrackerInv

LEMMA OpenKeepsInv ==
    ASSUME TrackerInv, NEW packet \in CapturedPacket, OpenConnection(packet)
    PROVE  TrackerInv'
<1> DEFINE key == KeyOf(packet)
<1> DEFINE entry == Opened(packet)
<1>1. TrackerTypeOK /\ IdsIdentify /\ FiledUnderOwnKey
  BY DEF TrackerInv
<1>2. /\ Account(packet, "Opened", entry)
      /\ next_id' = SaturatingAdd(next_id, 1)
  BY DEF OpenConnection
<1>3. /\ entry \in Tracked
      /\ entry.connection.id = next_id
      /\ entry.connection.key = key
  BY <1>1, OpenedEntry
<1>4. next_id' \in U64 \ {0} /\ (next_id' < MaxU64 => next_id' = next_id + 1)
  BY <1>1, <1>2, WidthAssumption DEF TrackerTypeOK, SaturatingAdd, U64
<1>5. TrackerTypeOK'
  BY <1>1, <1>2, <1>3, <1>4, AccountTyped DEF TrackerTypeOK
<1>6. \A k \in DOMAIN connections' :
         IF k = key THEN connections'[k] = entry
         ELSE k \in DOMAIN connections /\ connections'[k] = connections[k]
  BY <1>2, AccountTable
<1>7. IdsIdentify'
  <2> SUFFICES ASSUME next_id' < MaxU64,
                      NEW k \in DOMAIN connections',
                      NEW l \in DOMAIN connections'
               PROVE  /\ connections'[k].connection.id < next_id'
                      /\ connections'[k].connection.id
                            = connections'[l].connection.id => k = l
    BY DEF IdsIdentify
  <2>1. next_id' = next_id + 1 /\ next_id \in Nat /\ next_id < MaxU64
    BY <1>1, <1>4, WidthAssumption DEF TrackerTypeOK, U64
  <2>2. \A m \in DOMAIN connections :
            /\ connections[m].connection.id \in Nat
            /\ connections[m].connection.id < next_id
    BY <1>1, <2>1
    DEF IdsIdentify, TrackerTypeOK, Tracked, NetworkConnection, U64
  <2>3. connections'[k].connection.id < next_id'
    BY <1>3, <1>6, <2>1, <2>2
  <2>4. ASSUME connections'[k].connection.id = connections'[l].connection.id
        PROVE  k = l
    BY <1>1, <1>3, <1>6, <2>1, <2>2, <2>4 DEF IdsIdentify
  <2> QED BY <2>3, <2>4
<1>8. FiledUnderOwnKey'
  BY <1>1, <1>3, <1>6 DEF FiledUnderOwnKey
<1> QED BY <1>5, <1>7, <1>8 DEF TrackerInv

LEMMA SweepKeepsInv ==
    ASSUME TrackerInv, NEW now \in Time, CloseInactive(now)
    PROVE  TrackerInv'
<1>1. TrackerTypeOK /\ IdsIdentify /\ FiledUnderOwnKey
  BY DEF TrackerInv
<1>2. returned' \in Returned
  <2>1. IdsOf(Idle(now)) \subseteq U64
    BY <1>1, IdsTyped DEF Idle
  <2> QED BY <2>1 DEF CloseInactive, NothingReturned, Returned
<1>3. TrackerTypeOK'
  <2>1. \A k \in DOMAIN connections' : connections'[k] \in Tracked
    BY <1>1, SweepTable DEF TrackerTypeOK
  <2>2. connections' \in [DOMAIN connections' -> Tracked]
    BY <2>1, SweepTable
  <2>3. next_id' = next_id
    BY DEF CloseInactive
  <2> QED BY <1>1, <1>2, <2>2, <2>3, SweepTable DEF TrackerTypeOK
<1>4. IdsIdentify' /\ FiledUnderOwnKey'
  <2>1. \A k \in DOMAIN connections' :
          k \in DOMAIN connections /\ connections'[k] = connections[k]
    BY SweepTable
  <2>2. next_id' = next_id
    BY DEF CloseInactive
  <2> QED BY <1>1, <2>1, <2>2 DEF IdsIdentify, FiledUnderOwnKey
<1> QED BY <1>3, <1>4 DEF TrackerInv

LEMMA TrackerNextInv == TrackerInv /\ [NextTracker]_trackerVars => TrackerInv'
<1> SUFFICES ASSUME TrackerInv, [NextTracker]_trackerVars PROVE TrackerInv'
  OBVIOUS
<1>0. Packet \subseteq CapturedPacket
  BY PacketAssumption
<1>1. ASSUME NEW packet \in CapturedPacket, UpdateConnection(packet)
      PROVE  TrackerInv'
  BY <1>1, UpdateKeepsInv
<1>2. ASSUME NEW packet \in CapturedPacket, OpenConnection(packet)
      PROVE  TrackerInv'
  BY <1>2, OpenKeepsInv
<1>3. ASSUME NEW packet \in CapturedPacket, CloseInactive(packet.timestamp)
      PROVE  TrackerInv'
  BY <1>3, PacketParts, SweepKeepsInv
<1>4. CASE UNCHANGED trackerVars
  BY <1>4
  DEF trackerVars, TrackerInv, TrackerTypeOK, IdsIdentify, FiledUnderOwnKey
<1> QED BY <1>0, <1>1, <1>2, <1>3, <1>4 DEF NextTracker, ProcessPacket

\* The tracker's state is well typed, an id identifies one connection until
\* the counter saturates, and each entry is filed under its own key.
THEOREM TrackerInvariant == SpecTracker => []TrackerInv
BY TrackerInitInv, TrackerNextInv, PTL DEF SpecTracker

\* A consumer that keys on ids never confuses two connections of the table.
THEOREM TrackerIds == SpecTracker => []IdsIdentify
<1>1. TrackerInv => IdsIdentify
  BY DEF TrackerInv
<1> QED BY <1>1, TrackerInvariant, PTL

-----------------------------------------------------------------------------
(***************************************************************************)
(* What the steps of the tracker tell its listeners.                       *)
(***************************************************************************)

\* If no entry but the packet's own has its id, the events of the shared part
\* replay into the new table.
LEMMA AccountReplays ==
    ASSUME NEW packet, NEW kind, NEW entry,
           Account(packet, kind, entry),
           \A k, l \in DOMAIN connections :
              connections[k].connection.id = connections[l].connection.id
                => k = l,
           \A k \in DOMAIN connections :
              k # KeyOf(packet) \/ k \in Idle(packet.timestamp) =>
                connections[k].connection.id # entry.connection.id,
           KeyOf(packet) \in DOMAIN connections \ Idle(packet.timestamp) =>
              connections[KeyOf(packet)].connection.id = entry.connection.id
    PROVE  Live' = Replay(Live, returned')
<1> DEFINE key == KeyOf(packet)
<1> DEFINE idle == Idle(packet.timestamp)
<1> DEFINE id == entry.connection.id
<1> DEFINE ended == EndsConnection(packet)
<1>1. /\ returned'.expired = {connections[k].connection.id : k \in idle}
      /\ returned'.changed = {[kind |-> kind, connection |-> entry.connection]}
      /\ returned'.closed = IF ended THEN {id} ELSE {}
  BY DEF Account, IdsOf
<1>2. /\ \A k : k # key => (k \in DOMAIN connections' <=>
                               k \in DOMAIN connections \ idle)
      /\ key \in DOMAIN connections' <=> ~ended
      /\ \A k \in DOMAIN connections' :
            connections'[k] = IF k = key THEN entry ELSE connections[k]
  BY AccountTable
<1>3. idle \subseteq DOMAIN connections
  BY DEF Idle
<1>4. /\ \A k \in DOMAIN connections :
            k # key \/ k \in idle => connections[k].connection.id # id
      /\ key \in DOMAIN connections \ idle =>
            connections[key].connection.id = id
  OBVIOUS
<1>5. \A k, l \in DOMAIN connections :
         connections[k].connection.id = connections[l].connection.id => k = l
  OBVIOUS
<1> HIDE DEF key, idle, ended
<1>6. \A c : c \in Live' <=>
         \/ c = entry.connection /\ ~ended
         \/ \E k \in DOMAIN connections \ idle :
               k # key /\ c = connections[k].connection
  BY <1>2 DEF Live
<1>7. /\ {c.connection : c \in returned'.changed} = {entry.connection}
      /\ {c.id : c \in {entry.connection}} = {id}
  BY <1>1
<1>8. id \notin returned'.expired
  BY <1>1, <1>3, <1>4
<1>9. \A k \in DOMAIN connections :
         connections[k].connection.id \notin returned'.expired \cup {id}
           <=> k \notin idle /\ k # key
  BY <1>1, <1>3, <1>4, <1>5
<1>10. \A c : c \in Replay(Live, returned') <=>
         \/ c \in Live /\ c.id \notin returned'.expired \cup {id}
         \/ c = entry.connection /\ ~ended
  BY <1>1, <1>7, <1>8 DEF Replay
<1>11. \A c : c \in Live /\ c.id \notin returned'.expired \cup {id} <=>
         \E k \in DOMAIN connections \ idle :
            k # key /\ c = connections[k].connection
  BY <1>9 DEF Live
<1> DEFINE after == Live'
<1> DEFINE replayed == Replay(Live, returned')
<1>12. \A c : c \in after <=> c \in replayed
  BY <1>6, <1>10, <1>11
<1>13. after = {c \in after : TRUE} /\ replayed = {c \in replayed : TRUE}
  BY DEF Live, Replay
<1> HIDE DEF after, replayed
<1>14. after = replayed
  BY <1>12, <1>13
<1> QED BY <1>14 DEF after, replayed

LEMMA StepTells ==
    ASSUME TrackerInv, next_id < MaxU64, NextTracker
    PROVE  /\ Live' = Replay(Live, returned')
           /\ \A c \in returned'.changed :
                 c.kind = "Opened"
                   <=> c.connection.id \notin {d.id : d \in Live}
<1>1. /\ TrackerTypeOK
      /\ \A k, l \in DOMAIN connections :
            connections[k].connection.id = connections[l].connection.id
              => k = l
      /\ \A k \in DOMAIN connections : connections[k].connection.id < next_id
      /\ Packet \subseteq CapturedPacket
  BY PacketAssumption DEF TrackerInv, IdsIdentify
<1>2. {d.id : d \in Live} =
         {connections[k].connection.id : k \in DOMAIN connections}
  BY DEF Live
<1>3. ASSUME NEW packet \in CapturedPacket, UpdateConnection(packet)
      PROVE  /\ Live' = Replay(Live, returned')
             /\ \A c \in returned'.changed :
                   c.kind = "Opened"
                     <=> c.connection.id \notin {d.id : d \in Live}
  <2> DEFINE key == KeyOf(packet)
  <2>1. /\ key \in DOMAIN connections \ Idle(packet.timestamp)
        /\ Account(packet, "Updated", Updated(packet))
    BY <1>3 DEF UpdateConnection, Known
  <2>2. Updated(packet).connection.id = connections[key].connection.id
    BY <1>1, <2>1, UpdatedEntry
  <2>3. returned'.changed =
           {[kind |-> "Updated", connection |-> Updated(packet).connection]}
    BY <2>1 DEF Account
  <2>4. Live' = Replay(Live, returned')
    BY <1>1, <2>1, <2>2, AccountReplays
  <2> QED BY <1>2, <2>1, <2>2, <2>3, <2>4
<1>4. ASSUME NEW packet \in CapturedPacket, OpenConnection(packet)
      PROVE  /\ Live' = Replay(Live, returned')
             /\ \A c \in returned'.changed :
                   c.kind = "Opened"
                     <=> c.connection.id \notin {d.id : d \in Live}
  <2>1. /\ KeyOf(packet) \notin DOMAIN connections \ Idle(packet.timestamp)
        /\ Account(packet, "Opened", Opened(packet))
    BY <1>4 DEF OpenConnection, Known
  <2>2. Opened(packet).connection.id = next_id
    BY <1>1, OpenedEntry
  <2>3. \A k \in DOMAIN connections : connections[k].connection.id # next_id
    BY <1>1, WidthAssumption
    DEF TrackerTypeOK, Tracked, NetworkConnection, U64
  <2>4. returned'.changed =
           {[kind |-> "Opened", connection |-> Opened(packet).connection]}
    BY <2>1 DEF Account
  <2>5. Live' = Replay(Live, returned')
    BY <1>1, <2>1, <2>2, <2>3, AccountReplays
  <2> QED BY <1>2, <2>2, <2>3, <2>4, <2>5
<1>5. ASSUME NEW now, CloseInactive(now)
      PROVE  /\ Live' = Replay(Live, returned')
             /\ \A c \in returned'.changed :
                   c.kind = "Opened"
                     <=> c.connection.id \notin {d.id : d \in Live}
  <2>1. /\ returned'.expired = {connections[k].connection.id : k \in Idle(now)}
        /\ returned'.changed = {} /\ returned'.closed = {}
    BY <1>5 DEF CloseInactive, NothingReturned, IdsOf
  <2>2. /\ DOMAIN connections' = DOMAIN connections \ Idle(now)
        /\ \A k \in DOMAIN connections' : connections'[k] = connections[k]
        /\ Idle(now) \subseteq DOMAIN connections
    BY <1>5, SweepTable DEF Idle
  <2>3. \A k \in DOMAIN connections :
           connections[k].connection.id \notin returned'.expired
             <=> k \notin Idle(now)
    BY <1>1, <2>1, <2>2
  <2>4. \A c : c \in Live' <=> c \in Live /\ c.id \notin returned'.expired
    BY <2>2, <2>3 DEF Live
  <2>5. \A c : c \in Replay(Live, returned')
                 <=> c \in Live /\ c.id \notin returned'.expired
    BY <2>1 DEF Replay
  <2> QED BY <2>1, <2>4, <2>5
<1> QED BY <1>1, <1>3, <1>4, <1>5 DEF NextTracker, ProcessPacket

\* The events of a call replay into the new table, and Opened announces only
\* new ids (process_packet, close_inactive).
THEOREM EventsAreComplete == SpecTracker => EventsTellTheTable
<1>1. TrackerInv /\ [NextTracker]_trackerVars =>
         [next_id < MaxU64 =>
            /\ Live' = Replay(Live, returned')
            /\ \A c \in returned'.changed :
                  c.kind = "Opened"
                    <=> c.connection.id \notin {d.id : d \in Live}
         ]_trackerVars
  BY StepTells
<1> QED BY <1>1, TrackerInvariant, PTL DEF SpecTracker, EventsTellTheTable

\* What is idle at the time of the packet that a step counts goes, nothing else.
LEMMA StepSweeps ==
    ASSUME TrackerInv, NextTracker,
           NEW k \in DOMAIN connections',
           k \in DOMAIN connections => connections[k] # connections'[k]
    PROVE  LET now == connections'[k].last_seen
           IN  /\ \A l \in DOMAIN connections' :
                     connections'[l].last_seen + InactivityTimeout > now
               /\ \A l \in DOMAIN connections :
                     connections[l].last_seen + InactivityTimeout > now =>
                        /\ l \in DOMAIN connections'
                        /\ connections'[l].connection.id
                              = connections[l].connection.id
<1> DEFINE now == connections'[k].last_seen
<1> DEFINE NoneStays == \A l \in DOMAIN connections' :
                           connections'[l].last_seen + InactivityTimeout > now
<1> DEFINE NoneElseGoes ==
       \A l \in DOMAIN connections :
          connections[l].last_seen + InactivityTimeout > now =>
             /\ l \in DOMAIN connections'
             /\ connections'[l].connection.id = connections[l].connection.id
<1>1. \A m \in DOMAIN connections : connections[m].last_seen \in Nat
  BY DEF TrackerInv, TrackerTypeOK, Tracked, Time
<1>2. ASSUME NEW packet \in CapturedPacket, NEW kind, NEW entry,
             Account(packet, kind, entry), entry.last_seen = packet.timestamp,
             Known(packet) => entry.connection.id
                                = connections[KeyOf(packet)].connection.id
      PROVE  NoneStays /\ NoneElseGoes
  <2>1. packet.timestamp \in Nat
    BY PacketParts DEF Time
  <2>2. k = KeyOf(packet) /\ connections'[k] = entry /\ now = packet.timestamp
    BY <1>2, AccountTable
  <2>3. \A m \in DOMAIN connections :
           m \in Idle(now) <=>
              ~(connections[m].last_seen + InactivityTimeout > now)
    BY <1>1, <2>1, <2>2, TimeoutAssumption DEF Idle, Elapsed
  <2>4. ASSUME NEW l \in DOMAIN connections'
        PROVE  connections'[l].last_seen + InactivityTimeout > now
    <3>1. CASE l = k
      BY <1>2, <2>1, <2>2, <3>1, TimeoutAssumption
    <3>2. CASE l # k
      <4>1. /\ l \in DOMAIN connections \ Idle(now)
            /\ connections'[l] = connections[l]
        BY <1>2, <2>2, <2>4, <3>2, AccountTable
      <4> QED BY <2>3, <4>1
    <3> QED BY <3>1, <3>2
  <2>5. ASSUME NEW l \in DOMAIN connections,
               connections[l].last_seen + InactivityTimeout > now
        PROVE  /\ l \in DOMAIN connections'
               /\ connections'[l].connection.id = connections[l].connection.id
    <3>1. l \in DOMAIN connections \ Idle(now)
      BY <2>3, <2>5
    <3>2. CASE l = k
      BY <1>2, <2>2, <3>1, <3>2 DEF Known
    <3>3. CASE l # k
      BY <1>2, <2>2, <3>1, <3>3, AccountTable
    <3> QED BY <3>2, <3>3
  <2> QED BY <2>4, <2>5
<1>3. ASSUME NEW packet \in CapturedPacket, ProcessPacket(packet)
      PROVE  NoneStays /\ NoneElseGoes
  <2>1. /\ Updated(packet).last_seen = packet.timestamp
        /\ Opened(packet).last_seen = packet.timestamp
    BY DEF Updated, Opened
  <2>2. CASE UpdateConnection(packet)
    <3>1. KeyOf(packet) \in DOMAIN connections
      BY <2>2 DEF UpdateConnection, Known
    <3>2. Updated(packet).connection.id
            = connections[KeyOf(packet)].connection.id
      BY <3>1, UpdatedEntry DEF TrackerInv
    <3> QED BY <1>2, <2>1, <2>2, <3>2 DEF UpdateConnection
  <2>3. CASE OpenConnection(packet)
    BY <1>2, <2>1, <2>3 DEF OpenConnection
  <2> QED BY <1>3, <2>2, <2>3 DEF ProcessPacket
<1>4. ASSUME NEW time, CloseInactive(time) PROVE FALSE
  BY <1>4, SweepTable
<1> QED BY <1>3, <1>4, PacketAssumption DEF NextTracker

\* When a packet is counted, exactly the connections that are idle at the time
\* it carries go, also when that is before the time of others (process_packet,
\* close_inactive).
THEOREM IdleOnesGo == SpecTracker => ExactlyTheIdleGo
<1>1. TrackerInv /\ [NextTracker]_trackerVars =>
         [\A k \in DOMAIN connections' :
            (k \in DOMAIN connections => connections[k] # connections'[k]) =>
              LET now == connections'[k].last_seen
              IN  /\ \A l \in DOMAIN connections' :
                        connections'[l].last_seen + InactivityTimeout > now
                  /\ \A l \in DOMAIN connections :
                        connections[l].last_seen + InactivityTimeout > now =>
                           /\ l \in DOMAIN connections'
                           /\ connections'[l].connection.id
                                 = connections[l].connection.id
         ]_trackerVars
  BY StepSweeps
<1> QED BY <1>1, TrackerInvariant, PTL DEF SpecTracker, ExactlyTheIdleGo
=============================================================================
