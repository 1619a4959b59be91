------------------------- MODULE AttributionProofs -------------------------
(***************************************************************************)
(* Proofs about Attribution, for any processes, sockets and frames, any    *)
(* number of packets and any changes to Windows in between.                *)
(***************************************************************************)
EXTENDS Attribution, ConnectionTrackerProofs, FiniteSetTheorems

-----------------------------------------------------------------------------
(***************************************************************************)
(* Packets.                                                                *)
(***************************************************************************)

\* A frame that parses becomes a packet nobody owns yet (parse_packet).
LEMMA ParsedPacket ==
    ASSUME NEW frame \in Arriving, Parses(frame), NEW now \in Moment
    PROVE  Parsed(frame, now) \in Packet
<1>1. Parsed(frame, now) = GivenTo(Parsed(frame, now), None)
  BY DEF Parsed, GivenTo
<1> QED BY <1>1, AttributionAssumption

LEMMA GivenTwice ==
    ASSUME NEW p \in CapturedPacket, NEW o, NEW q
    PROVE  GivenTo(GivenTo(p, o), q) = GivenTo(p, q)
BY DEF CapturedPacket, GivenTo

\* Who a packet is given to does not change whose socket it is.
LEMMA AttributedPacket ==
    ASSUME NEW p \in Packet, NEW q \in Process \cup {None}
    PROVE  /\ GivenTo(p, q) \in Packet /\ GivenTo(p, q).process = q
           /\ SoleOwner(GivenTo(p, q)) = SoleOwner(p)
<1>1. PICK f \in Arriving, t \in Moment, o \in Process \cup {None} :
         Parses(f) /\ p = GivenTo(Parsed(f, t), o)
  BY AttributionAssumption
<1>2. Parsed(f, t) \in CapturedPacket
  BY <1>1, ParsedPacket, PacketAssumption
<1>3. GivenTo(p, q) = GivenTo(Parsed(f, t), q)
  BY <1>1, <1>2, GivenTwice
<1>4. GivenTo(p, q) \in Packet
  BY <1>1, <1>3, AttributionAssumption
<1>5. /\ GivenTo(p, q).process = q /\ GivenTo(p, q).protocol = p.protocol
      /\ GivenTo(p, q).direction = p.direction
      /\ GivenTo(p, q).source = p.source
      /\ GivenTo(p, q).destination = p.destination
  BY PacketAssumption DEF CapturedPacket, GivenTo
<1>6. Owners(GivenTo(p, q)) = Owners(p)
  BY <1>5 DEF Owners
<1> QED BY <1>4, <1>5, <1>6 DEF SoleOwner

-----------------------------------------------------------------------------
(***************************************************************************)
(* What the two queries can answer.                                        *)
(***************************************************************************)
LEMMA OwnersByProtocol ==
    ASSUME NEW p
    PROVE  Owners(p) = IF p.protocol = "TCP" THEN TcpPids(SocketOf(p))
                                             ELSE UdpPids(SocketOf(p))
<1>1. CASE p.direction = "Outbound"
  BY <1>1 DEF Owners, TcpPids, UdpPids, SocketOf
<1>2. CASE p.direction # "Outbound"
  BY <1>2 DEF Owners, TcpPids, UdpPids, SocketOf
<1> QED BY <1>1, <1>2

\* The owners of a socket are pids of running processes, and pids are finite.
LEMMA OwnersRun ==
    ASSUME AttributionTypeOK, SocketsOwned, NEW p
    PROVE  /\ Owners(p) \subseteq Pid /\ IsFiniteSet(Owners(p))
           /\ \A x \in Owners(p) : Find(running, x) # {}
<1>1. \A x \in Owners(p) : \E row \in tcp_table \cup udp_table : x = row.pid
  BY DEF Owners
<1>2. Owners(p) \subseteq Pid
  BY <1>1 DEF AttributionTypeOK
<1>3. \A x \in Owners(p) : Find(running, x) # {}
  BY <1>1 DEF SocketsOwned
<1>4. IsFiniteSet(Owners(p))
  BY <1>2, FS_Subset, AttributionAssumption
<1> QED BY <1>2, <1>3, <1>4

\* SoleOwner tells the one owner, or that there is none.
LEMMA SoleOwnerIs ==
    ASSUME AttributionTypeOK, SocketsOwned, NEW p
    PROVE  /\ SoleOwner(p) # {} /\ SoleOwner(p) \subseteq Pid \cup {None}
           /\ \A x \in SoleOwner(p) : x # None => Find(running, x) # {}
<1>1. CASE Cardinality(Owners(p)) = 1
  <2>1. PICK x : Owners(p) = {x}
    BY <1>1, OwnersRun, FS_Singleton
  <2> QED BY <1>1, <2>1, OwnersRun DEF SoleOwner
<1>2. CASE Cardinality(Owners(p)) # 1
  BY <1>2 DEF SoleOwner
<1> QED BY <1>1, <1>2

\* resolve_pid answers the sole owner if there is one, and nothing otherwise:
\* TCP sockets are told apart by both ends, UDP ones by being alone.
LEMMA ResolvedIsSoleOwner ==
    ASSUME AttributionTypeOK, SocketsOwned, NEW p, NEW answer \in ResolvePid(p)
    PROVE  answer \in SoleOwner(p)
<1> DEFINE tcp == TcpPids(SocketOf(p))
           udp == UdpPids(SocketOf(p))
<1>1. CASE p.protocol = "TCP" /\ tcp # {}
  <2>1. Owners(p) = tcp /\ ResolvePid(p) = tcp
    BY <1>1, OwnersByProtocol DEF ResolvePid
  <2>2. \A x, y \in tcp : x = y
    BY DEF SocketsOwned, TcpPids
  <2>3. tcp = {answer}
    BY <2>1, <2>2
  <2> QED BY <2>1, <2>3, FS_Singleton DEF SoleOwner
<1>2. CASE p.protocol = "TCP" /\ tcp = {}
  <2>1. Owners(p) = {} /\ ResolvePid(p) = {None}
    BY <1>2, OwnersByProtocol DEF ResolvePid
  <2> QED BY <2>1, FS_EmptySet DEF SoleOwner
<1>3. CASE p.protocol # "TCP" /\ Cardinality(udp) = 1
  BY <1>3, OwnersByProtocol DEF ResolvePid, SoleOwner
<1>4. CASE p.protocol # "TCP" /\ Cardinality(udp) # 1
  BY <1>4, OwnersByProtocol DEF ResolvePid, SoleOwner
<1> QED BY <1>1, <1>2, <1>3, <1>4

\* One pid that is the only owner for the whole time.
Steady == None \notin answers /\ Cardinality(answers) = 1

\* Then it is what a query answers, and it belongs to a running process.
LEMMA SteadyAnswer ==
    ASSUME AttributionTypeOK, SocketsOwned, Accounted, stage # "idle", Steady
    PROVE  /\ \A x \in answers : x \in Pid /\ Find(running, x) # {}
           /\ \A x \in ResolvePid(packet) : x # None
<1>1. IsFiniteSet(answers)
  BY FS_Subset, AttributionAssumption DEF AttributionTypeOK, Steady
<1>2. PICK x : answers = {x}
  BY <1>1, FS_Singleton DEF Steady
<1>3. SoleOwner(packet) = {x}
  BY <1>2, SoleOwnerIs DEF Accounted
<1> QED BY <1>2, <1>3, SoleOwnerIs, ResolvedIsSoleOwner
       DEF Steady, AttributionTypeOK

-----------------------------------------------------------------------------
(***************************************************************************)
(* The invariant.                                                          *)
(***************************************************************************)
LEMMA InitInv == Init => AttributionInv
<1> SUFFICES ASSUME Init PROVE AttributionInv
  OBVIOUS
<1>1. AttributionTypeOK
  BY AttributionAssumption DEF Init, AttributionTypeOK
<1>2. SocketsOwned
  BY DEF Init, SocketsOwned, Find
<1>3. Accounted /\ NamedOwnedIt /\ SteadyOwnerIsFound
  BY DEF Init, Accounted, NamedOwnedIt, SteadyOwnerIsFound
<1> QED BY <1>1, <1>2, <1>3 DEF AttributionInv

\* Steps of the worker leave Windows alone.
LEMMA SocketsStay ==
    ASSUME SocketsOwned, UNCHANGED windowsVars
    PROVE  SocketsOwned' /\ \A p : SoleOwner(p)' = SoleOwner(p)
<1>1. running' = running /\ tcp_table' = tcp_table /\ udp_table' = udp_table
  BY DEF windowsVars
<1> QED BY <1>1 DEF SocketsOwned, Find, SoleOwner, Owners

\* Between two packets nothing is owed.
LEMMA IdleStep ==
    ASSUME AttributionInv, UNCHANGED <<windowsVars, pid>>, stage' = "idle",
           packet' = None, answers' \subseteq Pid \cup {None},
           processes' \in {processes, running}, recent' \in {recent, running},
           processes' \subseteq recent'
    PROVE  AttributionInv'
<1>1. running' = running /\ tcp_table' = tcp_table /\ udp_table' = udp_table
  BY DEF windowsVars
<1>2. AttributionTypeOK'
  BY <1>1 DEF AttributionInv, AttributionTypeOK
<1>3. SocketsOwned'
  BY SocketsStay DEF AttributionInv
<1>4. Accounted' /\ NamedOwnedIt' /\ SteadyOwnerIsFound'
  BY <1>1 DEF AttributionInv, Accounted, NamedOwnedIt, SteadyOwnerIsFound
<1> QED BY <1>2, <1>3, <1>4 DEF AttributionInv

\* A step of the resolution: the packet stays, but for the process it is given.
LEMMA ResolutionStep ==
    ASSUME AttributionInv, stage # "idle",
           UNCHANGED <<windowsVars, processes, answers, recent>>,
           stage' \in {"query", "again", "list", "attributed"},
           pid' \in Pid \cup {None},
           NEW q \in Process \cup {None},
           packet' = packet \/ packet' = GivenTo(packet, q),
           stage' = "list" => pid' \in answers \ {None},
           NamedOwnedIt', SteadyOwnerIsFound'
    PROVE  AttributionInv'
<1>1. running' = running /\ tcp_table' = tcp_table /\ udp_table' = udp_table
  BY DEF windowsVars
<1>2. packet \in Packet
  BY DEF AttributionInv, AttributionTypeOK
<1>3. packet' \in Packet /\ SoleOwner(packet') = SoleOwner(packet)
  BY <1>2, AttributedPacket
<1>4. SocketsOwned' /\ \A p : SoleOwner(p)' = SoleOwner(p)
  BY SocketsStay DEF AttributionInv
<1>5. AttributionTypeOK'
  BY <1>1, <1>3 DEF AttributionInv, AttributionTypeOK
<1>6. Accounted'
  BY <1>1, <1>3, <1>4 DEF AttributionInv, Accounted
<1> QED BY <1>4, <1>5, <1>6 DEF AttributionInv

LEMMA TakeStep ==
    ASSUME AttributionInv, NEW frame \in Arriving, NEW now \in Moment,
           TakePacket(frame, now)
    PROVE  AttributionInv'
<1>1. /\ stage = "idle" /\ stage' = "query" /\ packet' \in Packet
      /\ answers' = SoleOwner(packet')
      /\ UNCHANGED <<windowsVars, processes, pid, recent>>
  BY ParsedPacket DEF TakePacket
<1>2. running' = running /\ tcp_table' = tcp_table /\ udp_table' = udp_table
  BY <1>1 DEF windowsVars
<1>3. SocketsOwned' /\ \A p : SoleOwner(p)' = SoleOwner(p)
  BY <1>1, SocketsStay DEF AttributionInv
<1>4. answers' \subseteq Pid \cup {None}
  BY <1>1, SoleOwnerIs DEF AttributionInv
<1>5. AttributionTypeOK'
  BY <1>1, <1>2, <1>4 DEF AttributionInv, AttributionTypeOK
<1>6. Accounted' /\ NamedOwnedIt' /\ SteadyOwnerIsFound'
  BY <1>1, <1>2, <1>3
     DEF AttributionInv, Accounted, NamedOwnedIt, SteadyOwnerIsFound
<1> QED BY <1>3, <1>5, <1>6 DEF AttributionInv

\* The packet is given to a process, or to none because nobody had the socket
\* to itself all the time.
LEMMA AttributeStep ==
    ASSUME AttributionInv, stage # "idle", NEW q \in Process \cup {None},
           Attribute(q), UNCHANGED <<windowsVars, processes, answers, recent>>,
           pid' \in Pid \cup {None},
           q # None => q.pid \in answers /\ q \in recent,
           q = None /\ Steady => failed'
    PROVE  AttributionInv'
<1>1. packet \in Packet
  BY DEF AttributionInv, AttributionTypeOK
<1>2. /\ packet' = GivenTo(packet, q) /\ packet'.process = q
      /\ stage' = "attributed"
  BY <1>1, AttributedPacket DEF Attribute
<1>3. NamedOwnedIt'
  BY <1>2 DEF NamedOwnedIt
<1>4. SteadyOwnerIsFound'
  BY <1>2 DEF SteadyOwnerIsFound, Steady
<1> QED BY <1>2, <1>3, <1>4, ResolutionStep

\* What a query answers now is accounted for.
LEMMA AnswerAccounted ==
    ASSUME AttributionInv, stage # "idle", NEW answer \in ResolvePid(packet)
    PROVE  answer \in answers /\ (Steady => answer # None)
BY ResolvedIsSoleOwner, SteadyAnswer DEF AttributionInv, Accounted

LEMMA FoundIn ==
    ASSUME NEW list, list \subseteq Process, NEW id, NEW p \in Find(list, id)
    PROVE  p \in list /\ p \in Process /\ p.pid = id /\ p # None
BY ProcessAssumption DEF Find

LEMMA QueryStep ==
    ASSUME AttributionInv, NEW answer \in ResolvePid(packet), Query(answer)
    PROVE  AttributionInv'
<1>1. /\ stage = "query"
      /\ UNCHANGED <<windowsVars, processes, pid, answers, recent, failed>>
  BY DEF Query, auxVars
<1>2. answer \in answers /\ (Steady => answer # None)
  BY <1>1, AnswerAccounted
<1>3. pid' \in Pid \cup {None} /\ processes \subseteq Process
      /\ processes \subseteq recent
  BY <1>1 DEF AttributionInv, AttributionTypeOK, Accounted
<1>4. CASE answer = None /\ Attribute(None)
  BY <1>1, <1>2, <1>3, <1>4, AttributeStep
<1>5. ASSUME NEW process \in Find(processes, answer), Attribute(process)
      PROVE  AttributionInv'
  BY <1>1, <1>2, <1>3, <1>5, FoundIn, AttributeStep
<1>6. CASE stage' = "again" /\ UNCHANGED packet
  <2>1. NamedOwnedIt' /\ SteadyOwnerIsFound'
    BY <1>6 DEF NamedOwnedIt, SteadyOwnerIsFound
  <2> QED BY <1>1, <1>3, <1>6, <2>1, ResolutionStep
<1> QED BY <1>4, <1>5, <1>6 DEF Query

LEMMA AgainStep ==
    ASSUME AttributionInv, NEW answer \in (Pid \cup {None}) \cap ResolvePid(packet),
           QueryAgain(answer)
    PROVE  AttributionInv'
<1>1. /\ stage = "again"
      /\ UNCHANGED <<windowsVars, processes, answers, recent, failed>>
  BY DEF QueryAgain, auxVars
<1>2. answer \in answers /\ (Steady => answer # None)
  BY <1>1, AnswerAccounted
<1>3. CASE answer = None /\ Attribute(None) /\ UNCHANGED pid
  <2>1. pid' \in Pid \cup {None}
    BY <1>3 DEF AttributionInv, AttributionTypeOK
  <2> QED BY <1>1, <1>2, <1>3, <2>1, AttributeStep
<1>4. CASE answer # None /\ stage' = "list" /\ pid' = answer /\ UNCHANGED packet
  <2>1. NamedOwnedIt' /\ SteadyOwnerIsFound'
    BY <1>4 DEF NamedOwnedIt, SteadyOwnerIsFound
  <2> QED BY <1>1, <1>2, <1>4, <2>1, ResolutionStep
<1> QED BY <1>3, <1>4 DEF QueryAgain

LEMMA ListStep ==
    ASSUME AttributionInv, ListProcesses
    PROVE  AttributionInv'
<1>1. /\ stage = "list" /\ pid' = None
      /\ UNCHANGED <<windowsVars, processes, answers, recent, failed>>
  BY DEF ListProcesses, auxVars
<1>2. /\ pid \in answers /\ pid # None /\ running \subseteq Process
      /\ running \subseteq recent
  BY <1>1 DEF AttributionInv, AttributionTypeOK, Accounted
<1>3. CASE Find(running, pid) = {} /\ Attribute(None)
  <2>1. ~Steady
    BY <1>1, <1>2, <1>3, SteadyAnswer DEF AttributionInv
  <2> QED BY <1>1, <1>3, <2>1, AttributeStep
<1>4. ASSUME NEW process \in Find(running, pid), Attribute(process)
      PROVE  AttributionInv'
  BY <1>1, <1>2, <1>4, FoundIn, AttributeStep
<1> QED BY <1>3, <1>4 DEF ListProcesses

LEMMA RefuseStep ==
    ASSUME AttributionInv, WindowsRefuses
    PROVE  AttributionInv'
<1>1. /\ stage # "idle" /\ Attribute(None) /\ pid' = None /\ failed'
      /\ UNCHANGED <<windowsVars, processes, answers, recent>>
  BY DEF WindowsRefuses
<1> QED BY <1>1, AttributeStep

LEMMA TrackStep ==
    ASSUME AttributionInv, Track
    PROVE  AttributionInv'
<1>1. processes \subseteq recent
  BY DEF AttributionInv, Accounted
<1> QED BY <1>1, IdleStep DEF Track

LEMMA RefreshStep ==
    ASSUME AttributionInv, RefreshProcesses
    PROVE  AttributionInv'
<1>1. packet = None /\ answers \subseteq Pid \cup {None}
  BY DEF AttributionInv, AttributionTypeOK, RefreshProcesses
<1> QED BY <1>1, IdleStep DEF RefreshProcesses

\* Whatever Windows does, the packet's owners of before stay accounted for and
\* those of now are added.
LEMMA ChangeStep ==
    ASSUME AttributionInv, Change, SocketsOwned',
           running' \subseteq Process, Idle0 \in running',
           tcp_table' \subseteq [local : Endpoint, remote : Endpoint, pid : Pid],
           udp_table' \subseteq [local : Endpoint, pid : Pid]
    PROVE  AttributionInv'
<1>1. /\ UNCHANGED <<processes, stage, packet, pid, failed>>
      /\ stage = "idle" => answers' = answers
      /\ stage # "idle" => answers' = answers \cup SoleOwner(packet)'
      /\ recent' = recent \cup running'
  BY DEF Change, workerVars
<1>2. AttributionTypeOK'
  <2>1. CASE stage = "idle"
    BY <1>1, <2>1 DEF AttributionInv, AttributionTypeOK
  <2>2. CASE stage # "idle"
    <3>1. /\ running' \subseteq Process /\ Idle0 \in running'
          /\ processes' \subseteq Process
          /\ stage' \in {"idle", "query", "again", "list", "attributed"}
          /\ packet' \in IF stage' = "idle" THEN {None} ELSE Packet
          /\ pid' \in Pid \cup {None}
      BY <1>1 DEF AttributionInv, AttributionTypeOK
    <3>2. SoleOwner(packet)' \subseteq Pid \cup {None}
      <4>1. Owners(packet)' \subseteq Pid
        BY DEF Owners
      <4> QED BY <4>1 DEF SoleOwner
    <3> QED BY <1>1, <2>2, <3>1, <3>2 DEF AttributionInv, AttributionTypeOK
  <2> QED BY <2>1, <2>2
<1>3. Accounted'
  BY <1>1 DEF AttributionInv, Accounted
<1>4. NamedOwnedIt'
  BY <1>1 DEF AttributionInv, NamedOwnedIt
<1>5. SteadyOwnerIsFound'
  <2> SUFFICES ASSUME stage = "attributed", ~failed, None \notin answers',
                      Cardinality(answers') = 1
               PROVE  packet.process # None /\ packet.process.pid \in answers'
    BY <1>1 DEF SteadyOwnerIsFound
  <2>1. answers \subseteq answers' /\ SoleOwner(packet) \subseteq answers
    BY <1>1 DEF AttributionInv, Accounted
  <2>2. SoleOwner(packet) # {}
    BY SoleOwnerIs DEF AttributionInv
  <2>3. IsFiniteSet(answers')
    BY <1>2, FS_Subset, AttributionAssumption DEF AttributionTypeOK
  <2>4. answers = answers'
    BY <2>1, <2>2, <2>3, FS_Singleton
  <2> QED BY <2>4 DEF AttributionInv, SteadyOwnerIsFound
<1> QED BY <1>2, <1>3, <1>4, <1>5 DEF AttributionInv

\* The row of a connection whose process is gone, or that waits to be forgotten.
LEMMA LingeringRow ==
    ASSUME NEW row \in [local : Endpoint, remote : Endpoint, pid : Pid]
    PROVE  LET left == [row EXCEPT !.pid = Idle0.pid]
           IN  /\ left \in [local : Endpoint, remote : Endpoint, pid : Pid]
               /\ left.local = row.local /\ left.remote = row.remote
               /\ left.pid = Idle0.pid
BY AttributionAssumption DEF Pid

LEMMA ExitStep ==
    ASSUME AttributionInv, NEW process \in running,
           NEW lingering \in SUBSET {r \in tcp_table : r.pid = process.pid},
           ExitProcess(process, lingering)
    PROVE  AttributionInv'
<1> DEFINE Row == [local : Endpoint, remote : Endpoint, pid : Pid]
           left == {[row EXCEPT !.pid = Idle0.pid] : row \in lingering}
           kept == {row \in tcp_table : row.pid # process.pid}
<1>1. /\ running' = running \ {process} /\ tcp_table' = kept \cup left
      /\ udp_table' = {row \in udp_table : row.pid # process.pid}
      /\ Idle0 \in running' /\ Change
  BY DEF ExitProcess, AttributionInv, AttributionTypeOK
<1>2. tcp_table \subseteq Row /\ lingering \subseteq tcp_table
  BY DEF AttributionInv, AttributionTypeOK
<1>3. \A l \in left : \E r \in tcp_table :
         /\ l \in Row /\ l.local = r.local /\ l.remote = r.remote
         /\ l.pid = Idle0.pid /\ r.pid = process.pid
  BY <1>2, LingeringRow
<1> HIDE DEF left
<1> DEFINE From(r, o) ==
              /\ r.local = o.local /\ r.remote = o.remote
              /\ \/ r = o /\ r.pid # process.pid
                 \/ r \in Row /\ r.pid = Idle0.pid /\ o.pid = process.pid
<1>4. \A r \in tcp_table' : \E o \in tcp_table : From(r, o)
  BY <1>1, <1>3
<1>5. ASSUME NEW row \in tcp_table' \cup udp_table' PROVE Find(running', row.pid) # {}
  <2>1. CASE row.pid = Idle0.pid
    BY <1>1, <2>1 DEF Find
  <2>2. CASE row \in tcp_table \cup udp_table /\ row.pid # process.pid
    BY <1>1, <2>2 DEF AttributionInv, SocketsOwned, Find
  <2> QED BY <1>1, <1>3, <2>1, <2>2
<1>6. ASSUME NEW r \in tcp_table', NEW s \in tcp_table',
             r.local = s.local, r.remote = s.remote
      PROVE  r = s
  <2>1. PICK o \in tcp_table : From(r, o)
    BY <1>4
  <2>2. PICK q \in tcp_table : From(s, q)
    BY <1>4
  <2>3. o.local = q.local /\ o.remote = q.remote
    BY <1>6, <2>1, <2>2
  <2>4. o = q
    BY <2>3 DEF AttributionInv, SocketsOwned
  <2>5. CASE r = o /\ s = q
    BY <2>4, <2>5
  <2>6. CASE r \in Row /\ s \in Row /\ r.pid = s.pid
    BY <1>6, <2>6
  <2> QED BY <2>1, <2>2, <2>4, <2>5, <2>6
<1>7. tcp_table' \subseteq Row
  BY <1>1, <1>2, <1>3
<1>8. udp_table' \subseteq [local : Endpoint, pid : Pid] /\ running' \subseteq Process
  BY <1>1 DEF AttributionInv, AttributionTypeOK
<1>9. SocketsOwned'
  BY <1>5, <1>6 DEF SocketsOwned, Find
<1> QED BY <1>1, <1>7, <1>8, <1>9, ChangeStep

LEMMA CloseTcpStep ==
    ASSUME AttributionInv, NEW row \in tcp_table, NEW lingers \in BOOLEAN,
           CloseTcp(row, lingers)
    PROVE  AttributionInv'
<1> DEFINE left == [row EXCEPT !.pid = Idle0.pid]
<1>1. /\ UNCHANGED <<running, udp_table>> /\ Change
      /\ tcp_table' = (tcp_table \ {row}) \cup (IF lingers THEN {left} ELSE {})
  BY DEF CloseTcp
<1>2. /\ left \in [local : Endpoint, remote : Endpoint, pid : Pid]
      /\ left.local = row.local /\ left.remote = row.remote
      /\ left.pid = Idle0.pid
  BY LingeringRow DEF AttributionInv, AttributionTypeOK
<1> HIDE DEF left
<1>3. SocketsOwned'
  <2>1. Find(running, left.pid) # {}
    BY <1>2 DEF AttributionInv, AttributionTypeOK, Find
  <2>2. ASSUME NEW r \in tcp_table', NEW s \in tcp_table',
               r.local = s.local, r.remote = s.remote
        PROVE  r = s
    BY <1>1, <1>2, <2>2 DEF AttributionInv, SocketsOwned
  <2> QED BY <1>1, <2>1, <2>2 DEF AttributionInv, SocketsOwned, Find
<1> QED BY <1>1, <1>2, <1>3, ChangeStep DEF AttributionInv, AttributionTypeOK

\* The other changes add a process, add a row that is no other's, or drop one.
LEMMA OtherChangeStep ==
    ASSUME AttributionInv,
           \/ \E process \in Process : StartProcess(process)
           \/ \E row \in TcpSocket : OpenTcp(row)
           \/ \E row \in UdpSocket : OpenUdp(row)
           \/ \E row \in udp_table : CloseUdp(row)
    PROVE  AttributionInv'
<1>1. /\ running \subseteq running' /\ running' \subseteq Process
      /\ Idle0 \in running' /\ Change
      /\ tcp_table' \subseteq [local : Endpoint, remote : Endpoint, pid : Pid]
      /\ udp_table' \subseteq [local : Endpoint, pid : Pid]
  BY AttributionAssumption DEF AttributionInv, AttributionTypeOK, StartProcess,
                               OpenTcp, OpenUdp, CloseUdp
<1>2. \A row \in (tcp_table' \cup udp_table') \ (tcp_table \cup udp_table) :
         Find(running, row.pid) # {}
  BY DEF StartProcess, OpenTcp, OpenUdp, CloseUdp, Find
<1>3. tcp_table' = tcp_table \/ \E row : /\ tcp_table' = tcp_table \cup {row}
                                      /\ TcpPids(row) = {}
  BY DEF StartProcess, OpenTcp, OpenUdp, CloseUdp
<1>4. SocketsOwned'
  <2>1. \A row \in tcp_table' \cup udp_table' : Find(running', row.pid) # {}
    BY <1>1, <1>2 DEF AttributionInv, SocketsOwned, Find
  <2>2. \A r, s \in tcp_table' :
           r.local = s.local /\ r.remote = s.remote => r = s
    BY <1>3 DEF AttributionInv, SocketsOwned, TcpPids
  <2> QED BY <2>1, <2>2 DEF SocketsOwned, Find
<1> QED BY <1>1, <1>4, ChangeStep

LEMMA StutterStep ==
    ASSUME AttributionInv, UNCHANGED vars
    PROVE  AttributionInv'
BY DEF vars, windowsVars, workerVars, auxVars, AttributionInv, AttributionTypeOK,
       SocketsOwned, Find, Accounted, SoleOwner, Owners, NamedOwnedIt,
       SteadyOwnerIsFound

LEMMA StepInv == AttributionInv /\ [Next]_vars => AttributionInv'
<1> SUFFICES ASSUME AttributionInv, [Next]_vars PROVE AttributionInv'
  OBVIOUS
<1>1. CASE Worker
  BY <1>1, TakeStep, QueryStep, AgainStep, ListStep, RefuseStep, TrackStep,
     RefreshStep DEF Worker
<1>2. CASE Windows
  BY <1>2, ExitStep, CloseTcpStep, OtherChangeStep DEF Windows
<1>3. CASE UNCHANGED vars
  BY <1>3, StutterStep
<1> QED BY <1>1, <1>2, <1>3 DEF Next

-----------------------------------------------------------------------------
\* The invariant of resolution: what the worker knows about a packet was so at
\* some moment since the packet was taken, or since the list was.
THEOREM AttributionInvariant == Spec => []AttributionInv
BY InitInv, StepInv, PTL DEF Spec

\* A packet is given to a process only if its pid had the packet's socket to
\* itself at some moment of the resolution and it ran under that pid since the
\* worker's list was taken (resolve_process).
THEOREM NeverAGuess == Spec => []NamedOwnedIt
<1>1. AttributionInv => NamedOwnedIt
  BY DEF AttributionInv
<1> QED BY <1>1, AttributionInvariant, PTL

\* A pid that has the socket to itself throughout is found, also when its process
\* is younger than the worker's list (the fallback of resolve_process).
THEOREM SteadyOwnersAreFound == Spec => []SteadyOwnerIsFound
<1>1. AttributionInv => SteadyOwnerIsFound
  BY DEF AttributionInv
<1> QED BY <1>1, AttributionInvariant, PTL

\* Resolution gives the tracker packets of the kind it is specified for, whatever
\* happens beside it: seen by the tracker alone, this is ConnectionTracker.
THEOREM TracksPackets == Spec => SpecTracker
<1>1. Init => InitTracker
  BY DEF Init
<1>2. AttributionInv /\ [Next]_vars => [NextTracker]_trackerVars
  <2> SUFFICES ASSUME AttributionInv, [Next]_vars PROVE [NextTracker]_trackerVars
    OBVIOUS
  <2>1. CASE Track
    <3>1. packet \in Packet
      BY <2>1 DEF Track, AttributionInv, AttributionTypeOK
    <3> QED BY <2>1, <3>1 DEF Track, NextTracker
  <2>2. CASE UNCHANGED vars
    BY <2>2 DEF vars
  <2>3. CASE Windows
    BY <2>3 DEF Windows, StartProcess, ExitProcess, OpenTcp, OpenUdp, CloseTcp,
                CloseUdp, Change
  <2>4. CASE Worker /\ ~Track
    BY <2>4 DEF Worker, TakePacket, Query, QueryAgain, ListProcesses,
                WindowsRefuses, RefreshProcesses
  <2> QED BY <2>1, <2>2, <2>3, <2>4 DEF Next
<1> QED BY <1>1, <1>2, AttributionInvariant, PTL DEF Spec, SpecTracker

\* So ids identify the connections also where packets come from resolution.
THEOREM AttributedIds == Spec => []TrackerInv
BY TracksPackets, TrackerInvariant, PTL

\* And so events replay into the table and idle connections go, there as well.
THEOREM AttributedSteps ==
    Spec => EventsTellTheTable /\ ExactlyTheIdleGo
BY TracksPackets, EventsAreComplete, IdleOnesGo, PTL
=============================================================================
