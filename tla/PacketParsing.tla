--------------------------- MODULE PacketParsing ---------------------------
(***************************************************************************)
(* What the capture thread makes of a frame: parse_packet of apppw-capture *)
(* over the fields that etherparse finds in it.                            *)
(***************************************************************************)
EXTENDS AppCore

\* A frame as WinDivert delivers it.  `none' stands for every frame without a
\* TCP or UDP header: malformed, a later fragment, another transport.
Frame ==
    [transport   : {"tcp", "udp", "none"},
     outbound    : BOOLEAN,
     source      : Endpoint,
     destination : Endpoint,
     size        : U64,
     first_byte  : 0 .. 255 \cup {None},   \* of the payload, None if empty
     fin         : BOOLEAN,
     rst         : BOOLEAN]

\* Both top bits set: the header form and the fixed bit of a QUIC long header.
LooksLikeQuic(first_byte) == first_byte # None /\ first_byte \div 64 = 3

ClassifyUdp(first_byte) == IF LooksLikeQuic(first_byte) THEN "QUIC" ELSE "UDP"

Parses(frame) == frame.transport # "none"

\* The packet of a frame that parses, stamped with the time of parsing.
Parsed(frame, now) ==
    [protocol    |-> IF frame.transport = "tcp"
                       THEN "TCP" ELSE ClassifyUdp(frame.first_byte),
     direction   |-> IF frame.outbound THEN "Outbound" ELSE "Inbound",
     source      |-> frame.source,
     destination |-> frame.destination,
     packet_size |-> frame.size,
     tcp_end     |-> frame.transport = "tcp" /\ (frame.fin \/ frame.rst),
     timestamp   |-> now,
     process     |-> None]
=============================================================================
