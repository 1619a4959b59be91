----------------------------- MODULE ProxyFeed -----------------------------
(***************************************************************************)
(* What the proxy's tasks and the worker agree on: each recorded exchange  *)
(* takes an id of its own from a counter, leads to one event, sent in a    *)
(* second step so that later ids may overtake it, and never lost between   *)
(* the two; the reader takes events in the order they were sent.           *)
(***************************************************************************)
EXTENDS Naturals, Sequences

CONSTANT Client

VARIABLES
    next_id,    \* ProxyRuntime.next_id
    under_way,  \* exchanges that took an id and sent no event yet
    pending     \* events sent and not read yet

proxyFeedVars == <<next_id, under_way, pending>>

Take(client) ==
    /\ next_id' = next_id + 1
    /\ under_way' = under_way \cup {[id |-> next_id, client |-> client]}
    /\ UNCHANGED pending

Deliver(event) ==
    /\ event \in under_way
    /\ under_way' = under_way \ {event}
    /\ pending' = Append(pending, event)
    /\ UNCHANGED next_id

Read ==
    /\ pending # <<>>
    /\ pending' = Tail(pending)
    /\ UNCHANGED <<next_id, under_way>>

InitProxyFeed == next_id = 1 /\ under_way = {} /\ pending = <<>>

\* The program, and with it the proxy, is started again.
StartAgain == next_id' = 1 /\ under_way' = {} /\ pending' = <<>>

NextProxyFeed ==
    \/ \E client \in Client : Take(client)
    \/ \E event \in under_way : Deliver(event)
    \/ Read \/ StartAgain

SpecProxyFeed == InitProxyFeed /\ [][NextProxyFeed]_proxyFeedVars
=============================================================================
