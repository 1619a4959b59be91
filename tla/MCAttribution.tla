--------------------------- MODULE MCAttribution ---------------------------
(***************************************************************************)
(* A small instance of Attribution: a browser and the proxy it talks to    *)
(* over the loopback, where both ends of a connection are local, and a UDP *)
(* port that two processes may share, towards a server outside.  An editor *)
(* may come to run under the browser's pid.                                *)
(***************************************************************************)
EXTENDS Attribution

At(address, number) == [ip |-> address, port |-> number]

App == At("loopback", 1)
Proxy == At("loopback", 2)
Host == At("host", 3)
Server == At("server", 4)
AnyHost == At("any", 3)
MCEndpoint == {App, Proxy, Host, Server, AnyHost}

MCIdle == [pid |-> 0, name |-> "idle"]
MCProcess ==
    {MCIdle, [pid |-> 1, name |-> "browser"], [pid |-> 1, name |-> "editor"],
     [pid |-> 2, name |-> "proxy"]}

MCTcpSocket ==
    {[local |-> App, remote |-> Proxy, pid |-> 1],
     [local |-> Proxy, remote |-> App, pid |-> 2]}
MCUdpSocket ==
    {[local |-> AnyHost, pid |-> 1], [local |-> Host, pid |-> 2]}

Arrives(transport, outbound, source, destination, first_byte, fin) ==
    [transport |-> transport, outbound |-> outbound, source |-> source,
     destination |-> destination, size |-> 3, first_byte |-> first_byte,
     fin |-> fin, rst |-> FALSE]

\* A request and its end, a datagram that arrives, a QUIC handshake.
MCFrames ==
    {Arrives("tcp", TRUE, App, Proxy, None, FALSE),
     Arrives("tcp", TRUE, App, Proxy, None, TRUE),
     Arrives("udp", FALSE, Server, Host, 64, FALSE),
     Arrives("udp", TRUE, Host, Server, 192, FALSE),
     Arrives("none", FALSE, Server, Host, None, FALSE)}

MCMoment == {0, 1}

MCPacket ==
    {GivenTo(Parsed(f, t), p) :
        f \in {g \in MCFrames : Parses(g)}, t \in MCMoment,
        p \in MCProcess \cup {None}}
=============================================================================
