---------------------------- MODULE Attribution ----------------------------
(***************************************************************************)
(* From a frame to a connection with an owner: parse_packet, the worker's  *)
(* resolve_packet_process, SocketProcessResolver of apppw-windows, and the *)
(* tracker, beside processes that start and exit and sockets that open and *)
(* close at any moment.                                                    *)
(*                                                                         *)
(* Resolution asks twice for the socket table and once for the processes,  *)
(* at three different times, and prefers the worker's own list of          *)
(* processes, which is up to a second old.  Pids are reused; a closed TCP  *)
(* socket lingers in the table under pid 0.                                *)
(***************************************************************************)
EXTENDS ConnectionTracker, PacketParsing

CONSTANTS
    Arriving,      \* the frames that may be captured
    Moment,        \* what the system clock may say, in any order
    TcpSocket,     \* the rows the TCP table may have
    UdpSocket,     \* the rows the UDP table may have
    Unspecified,   \* the address of a UDP socket bound to all addresses
    Idle0,         \* the process with pid 0
    \* bounds of a run
    MaxPackets,
    MaxChanges     \* starts, exits, opened and closed sockets

\* The packet with its process filled in.
GivenTo(p, process) == [p EXCEPT !.process = process]

ASSUME EndpointAssumption ==
    \A e \in Endpoint : e = [ip |-> e.ip, port |-> e.port]

ASSUME AttributionAssumption ==
    /\ Arriving \subseteq Frame
    /\ Moment \subseteq Time
    /\ Packet = {GivenTo(Parsed(f, t), p) :
                    f \in {g \in Arriving : Parses(g)}, t \in Moment,
                    p \in Process \cup {None}}
    /\ TcpSocket \subseteq [local : Endpoint, remote : Endpoint, pid : Pid]
    /\ UdpSocket \subseteq [local : Endpoint, pid : Pid]
    /\ Idle0 \in Process
    /\ None \notin Pid /\ IsFiniteSet(Pid)
    /\ MaxPackets \in Nat /\ MaxChanges \in Nat

VARIABLES
    \* Windows
    running,     \* processes, at most one to a pid
    tcp_table,
    udp_table,
    \* the worker
    processes,   \* its list, as of the last refresh
    stage,       \* where in the resolution of a packet it is
    packet,      \* the packet, with its process once that is known
    pid,         \* what the second query answered
    \* auxiliary
    answers,     \* the sole owners of the packet's socket since it was
                 \* taken, None for times when there was none
    recent,      \* processes that ran at some time since the last refresh
    failed,      \* whether Windows refused a query for this packet
    taken,       \* packets taken, counted only to bound a run
    changes      \* changes to Windows, counted only to bound a run

windowsVars == <<running, tcp_table, udp_table>>
workerVars == <<processes, stage, packet, pid>>
auxVars == <<answers, recent, failed>>
vars == <<trackerVars, windowsVars, workerVars, auxVars, taken, changes>>

Socket == [local : Endpoint, remote : Endpoint]

-----------------------------------------------------------------------------
\* The owners of a packet's socket at this moment, by what a socket is: a TCP
\* socket by both its ends, a UDP socket by the port and address that the
\* packet leaves from or arrives at.  For the properties only.
Owners(p) ==
    LET here == IF p.direction = "Outbound" THEN p.source ELSE p.destination
        there == IF p.direction = "Outbound" THEN p.destination ELSE p.source
        tcp == {r \in tcp_table : r.local = here /\ r.remote = there}
        udp == {r \in udp_table : r.local.port = here.port
                    /\ (r.local.ip = here.ip \/ r.local.ip = Unspecified)}
    IN  {r.pid : r \in IF p.protocol = "TCP" THEN tcp ELSE udp}

SoleOwner(p) == IF Cardinality(Owners(p)) = 1 THEN Owners(p) ELSE {None}

(***************************************************************************)
(* resolve_pid over the socket tables of this moment.                      *)
(***************************************************************************)

\* resolve_packet_process: the local side of a packet.
SocketOf(p) ==
    IF p.direction = "Outbound"
      THEN [local |-> p.source, remote |-> p.destination]
      ELSE [local |-> p.destination, remote |-> p.source]

TcpPids(socket) ==
    {row.pid : row \in {r \in tcp_table : r.local = socket.local
                                       /\ r.remote = socket.remote}}

UdpPids(socket) ==
    {row.pid : row \in {r \in udp_table :
                            /\ r.local.ip \in {Unspecified, socket.local.ip}
                            /\ r.local.port = socket.local.port}}

\* Mutant: of several owners of a port, one is picked.
ResolvePidGuessing(p) ==
    LET pids == IF p.protocol = "TCP" THEN TcpPids(SocketOf(p))
                                      ELSE UdpPids(SocketOf(p))
    IN  IF pids = {} THEN {None} ELSE pids

\* The possible answers: of the rows of a TCP socket the first, the only pid
\* of a UDP socket.
ResolvePid(p) ==
    LET tcp == TcpPids(SocketOf(p))
        udp == UdpPids(SocketOf(p))
    IN  CASE p.protocol = "TCP" /\ tcp # {} -> tcp
          [] p.protocol # "TCP" /\ Cardinality(udp) = 1 -> udp
          [] OTHER -> {None}

\* processes.iter().find(|process| process.pid == pid)
Find(list, id) == {p \in list : p.pid = id}

-----------------------------------------------------------------------------
(***************************************************************************)
(* The worker.                                                             *)
(***************************************************************************)

\* A frame is captured, parsed and reaches the worker; one that does not
\* parse leaves no trace.  Time spent in the channel only makes the world
\* older, which is as arbitrary here.
TakePacket(frame, now) ==
    /\ stage = "idle"
    /\ taken < MaxPackets
    /\ Parses(frame)
    /\ packet' = Parsed(frame, now)
    /\ stage' = "query"
    /\ taken' = taken + 1
    /\ answers' = SoleOwner(packet') /\ failed' = FALSE
    /\ UNCHANGED <<trackerVars, windowsVars, processes, pid, recent, changes>>

Attribute(process) ==
    /\ packet' = GivenTo(packet, process)
    /\ stage' = "attributed"

\* Mutant: only the worker's own list is consulted.
QueryWithoutFallback(answer) ==
    /\ stage = "query"
    /\ IF Find(processes, answer) = {}
         THEN Attribute(None)
         ELSE \E process \in Find(processes, answer) : Attribute(process)
    /\ UNCHANGED <<trackerVars, windowsVars, processes, pid, auxVars, taken,
                   changes>>

\* resolve_process: ask for the pid, look it up in the worker's list.
Query(answer) ==
    /\ stage = "query"
    /\ CASE answer = None -> Attribute(None)
         [] answer # None /\ Find(processes, answer) # {} ->
              \E process \in Find(processes, answer) : Attribute(process)
         [] OTHER -> stage' = "again" /\ UNCHANGED packet
    /\ UNCHANGED <<trackerVars, windowsVars, processes, pid, auxVars, taken,
                   changes>>

\* SocketProcessResolver::resolve: ask for the pid once more.
QueryAgain(answer) ==
    /\ stage = "again"
    /\ IF answer = None
         THEN Attribute(None) /\ UNCHANGED pid
         ELSE stage' = "list" /\ pid' = answer /\ UNCHANGED packet
    /\ UNCHANGED <<trackerVars, windowsVars, processes, auxVars, taken,
                   changes>>

\* and look it up among the processes of now.
ListProcesses ==
    /\ stage = "list"
    /\ IF Find(running, pid) = {}
         THEN Attribute(None)
         ELSE \E process \in Find(running, pid) : Attribute(process)
    /\ pid' = None
    /\ UNCHANGED <<trackerVars, windowsVars, processes, auxVars, taken,
                   changes>>

\* query_table asks for the size first and gives up when the table has grown
\* in between; taking the snapshot of processes may fail.
WindowsRefuses ==
    /\ stage \in {"query", "again", "list"}
    /\ Attribute(None)
    /\ pid' = None
    /\ failed' = TRUE
    /\ UNCHANGED <<trackerVars, windowsVars, processes, answers, recent,
                   taken, changes>>

\* The packet, with the process it was given, goes to the tracker.
Track ==
    /\ stage = "attributed"
    /\ ProcessPacket(packet)
    /\ stage' = "idle" /\ packet' = None
    /\ answers' = {} /\ failed' = FALSE
    /\ UNCHANGED <<windowsVars, processes, pid, recent, taken, changes>>

\* Once a second, between two packets.  A refresh that fails keeps the list.
RefreshProcesses ==
    /\ stage = "idle"
    /\ processes' = running
    /\ recent' = running
    /\ UNCHANGED <<trackerVars, windowsVars, stage, packet, pid, answers,
                   failed, taken, changes>>

-----------------------------------------------------------------------------
(***************************************************************************)
(* Windows.                                                                *)
(***************************************************************************)
Change ==
    /\ changes < MaxChanges
    /\ changes' = changes + 1
    /\ UNCHANGED <<trackerVars, workerVars, failed, taken>>
    /\ answers' = IF stage = "idle" THEN answers
                                    ELSE answers \cup SoleOwner(packet)'
    /\ recent' = recent \cup running'

StartProcess(process) ==
    /\ Find(running, process.pid) = {}
    /\ running' = running \cup {process}
    /\ UNCHANGED <<tcp_table, udp_table>>
    /\ Change

\* Its sockets close; TCP sockets may linger.
ExitProcess(process, lingering) ==
    /\ process # Idle0
    /\ running' = running \ {process}
    /\ tcp_table' = {row \in tcp_table : row.pid # process.pid}
          \cup {[row EXCEPT !.pid = Idle0.pid] : row \in lingering}
    /\ udp_table' = {row \in udp_table : row.pid # process.pid}
    /\ Change

\* Ports and addresses of TCP are not shared, those of UDP may be.
OpenTcp(row) ==
    /\ \E process \in running \ {Idle0} : process.pid = row.pid
    /\ TcpPids(row) = {}
    /\ tcp_table' = tcp_table \cup {row}
    /\ UNCHANGED <<running, udp_table>>
    /\ Change

OpenUdp(row) ==
    /\ row \notin udp_table
    /\ \E process \in running \ {Idle0} : process.pid = row.pid
    /\ udp_table' = udp_table \cup {row}
    /\ UNCHANGED <<running, tcp_table>>
    /\ Change

CloseTcp(row, lingers) ==
    /\ row \in tcp_table
    /\ row.pid = Idle0.pid => ~lingers
    /\ tcp_table' = (tcp_table \ {row}) \cup
          (IF lingers THEN {[row EXCEPT !.pid = Idle0.pid]} ELSE {})
    /\ UNCHANGED <<running, udp_table>>
    /\ Change

CloseUdp(row) ==
    /\ row \in udp_table
    /\ udp_table' = udp_table \ {row}
    /\ UNCHANGED <<running, tcp_table>>
    /\ Change

-----------------------------------------------------------------------------
\* The list is taken, or not, before the worker starts; sockets are open
\* already.
Init ==
    /\ InitTracker
    /\ running \in {list \in SUBSET Process :
          /\ Idle0 \in list
          /\ \A p, q \in list : p.pid = q.pid => p = q}
    /\ tcp_table \in {table \in SUBSET TcpSocket :
          /\ \A row \in table : Find(running \ {Idle0}, row.pid) # {}
          /\ \A r, s \in table :
                r.local = s.local /\ r.remote = s.remote => r = s}
    /\ udp_table \in {table \in SUBSET UdpSocket :
          \A row \in table : Find(running \ {Idle0}, row.pid) # {}}
    /\ processes \in {running, {}}
    /\ stage = "idle" /\ packet = None /\ pid = None
    /\ answers = {} /\ recent = running /\ failed = FALSE
    /\ taken = 0 /\ changes = 0

Worker ==
    \/ \E frame \in Arriving, now \in Moment : TakePacket(frame, now)
    \/ \E answer \in Pid \cup {None} :
          /\ stage \in {"query", "again"}
          /\ answer \in ResolvePid(packet)
          /\ Query(answer) \/ QueryAgain(answer)
    \/ ListProcesses
    \/ WindowsRefuses
    \/ Track
    \/ RefreshProcesses

Windows ==
    \/ \E process \in Process : StartProcess(process)
    \/ \E process \in running :
          \E lingering \in SUBSET {r \in tcp_table : r.pid = process.pid} :
              ExitProcess(process, lingering)
    \/ \E row \in TcpSocket : OpenTcp(row)
    \/ \E row \in UdpSocket : OpenUdp(row)
    \/ \E row \in tcp_table, lingers \in BOOLEAN : CloseTcp(row, lingers)
    \/ \E row \in udp_table : CloseUdp(row)

Next == Worker \/ Windows

Spec == Init /\ [][Next]_vars

-----------------------------------------------------------------------------
\* A packet is given to nobody by a guess: the process it is given to had the
\* packet's socket to itself at some moment of the resolution, as far as its
\* pid tells, and ran under that pid at some time since the worker's list was
\* taken.  Only a pid that changes hands within that second can mislead
\* (resolve_process with udp_pid's and tcp_pid's matching).
NamedOwnedIt ==
    stage = "attributed" /\ packet.process # None =>
        /\ packet.process.pid \in answers
        /\ packet.process \in recent

\* A packet is not left without an owner for want of looking: if one pid had
\* the socket to itself throughout and Windows answered, the packet is given
\* to that pid, also when its process started after the worker's list was
\* taken (the fallback of resolve_process).
SteadyOwnerIsFound ==
    /\ stage = "attributed" /\ ~failed
    /\ None \notin answers /\ Cardinality(answers) = 1
    => packet.process # None /\ packet.process.pid \in answers

-----------------------------------------------------------------------------
(***************************************************************************)
(* The invariant the proofs rest on.                                       *)
(***************************************************************************)
AttributionTypeOK ==
    /\ running \subseteq Process /\ Idle0 \in running
    /\ processes \subseteq Process
    /\ tcp_table \subseteq [local : Endpoint, remote : Endpoint, pid : Pid]
    /\ udp_table \subseteq [local : Endpoint, pid : Pid]
    /\ stage \in {"idle", "query", "again", "list", "attributed"}
    /\ packet \in IF stage = "idle" THEN {None} ELSE Packet
    /\ pid \in Pid \cup {None}
    /\ answers \subseteq Pid \cup {None}

\* What Windows guarantees: a socket belongs to a process, or to pid 0, and two
\* TCP sockets do not have both ends in common.
SocketsOwned ==
    /\ \A row \in tcp_table \cup udp_table : Find(running, row.pid) # {}
    /\ \A r, s \in tcp_table : r.local = s.local /\ r.remote = s.remote => r = s

\* What the worker found out was so at a moment it is accountable for.
Accounted ==
    /\ processes \cup running \subseteq recent
    /\ stage # "idle" => SoleOwner(packet) \subseteq answers
    /\ stage = "list" => pid \in answers \ {None}

AttributionInv ==
    /\ AttributionTypeOK /\ SocketsOwned /\ Accounted
    /\ NamedOwnedIt /\ SteadyOwnerIsFound
=============================================================================
