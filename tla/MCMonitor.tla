----------------------------- MODULE MCMonitor -----------------------------
(***************************************************************************)
(* A small instance of Monitor: one application that talks to the proxy    *)
(* over TCP and one UDP flow.  The proxy's replies are loopback packets,   *)
(* captured as outbound with the endpoints swapped.                        *)
(***************************************************************************)
EXTENDS MonitorProperties

MCEndpoint == {"app", "proxy", "server"}
MCClient == {"app"}
MCProcess == {[pid |-> 1, name |-> "browser"]}

Flow(protocol, source, destination, end) ==
    [protocol |-> protocol, direction |-> "Outbound",
     source |-> source, destination |-> destination,
     packet_size |-> 3, tcp_end |-> end, timestamp |-> 0, process |-> None]

ToProxy == Flow("TCP", "app", "proxy", FALSE)
ToProxyFin == Flow("TCP", "app", "proxy", TRUE)
FromProxy == Flow("TCP", "proxy", "app", FALSE)
Datagram == Flow("UDP", "app", "server", FALSE)

RowPackets == {ToProxy, ToProxyFin, Datagram}

\* Without a database every session begins as the first one did, and no guard
\* and no property of the run reads `heard': states that differ in the number
\* of the session or in `heard' alone are explored once.
RowsView ==
    <<trackerVars, observed, storageVars, captured, proxyVars, ui_events,
      workerVars, uiVars, clock, database, packets>>

HistoryPackets == {ToProxy, ToProxyFin, FromProxy}
=============================================================================
