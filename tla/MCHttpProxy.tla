---------------------------- MODULE MCHttpProxy ----------------------------
(***************************************************************************)
(* A small instance of HttpProxy: an absolute request that asks for an     *)
(* upgrade, one with a Host header and credentials, one with neither, for  *)
(* plain and for inspected connections, over two hosts of which one is     *)
(* passed through.                                                         *)
(***************************************************************************)
EXTENDS HttpProxy

MCRequest ==
    {[scheme |-> "http", authority |-> "site", host_header |-> "site",
      upgrade |-> TRUE, headers |-> {"accept"}],
     [scheme |-> None, authority |-> None, host_header |-> "site",
      upgrade |-> FALSE,
      headers |-> {"authorization", "proxy-authorization"}],
     [scheme |-> None, authority |-> None, host_header |-> None,
      upgrade |-> FALSE, headers |-> {}]}
=============================================================================
