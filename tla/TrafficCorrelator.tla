------------------------- MODULE TrafficCorrelator -------------------------
(***************************************************************************)
(* TrafficCorrelator of apppw-core: remembers every connection it was ever *)
(* shown, with the time it was last shown, and links an HTTP request to    *)
(* the one connection that can have carried it.  It never forgets, so a    *)
(* closed connection takes part in matching until the window has passed.   *)
(***************************************************************************)
EXTENDS AppCore

CONSTANT CorrelationWindow   \* TrafficCorrelator::default(): two seconds

ASSUME WindowAssumption == CorrelationWindow \in Nat

VARIABLE observed   \* id -> [connection, observed_at], partial

Observation == [connection : NetworkConnection, observed_at : Time]

InitCorrelator == observed = EmptyMap

\* observe_connection: the entry of the same id is replaced.
ObserveConnection(connection, now) ==
    observed' = Insert(observed, connection.id,
                       [connection |-> connection, observed_at |-> now])

\* time_difference: the distance of two times in either direction.
TimeDifference(left, right) ==
    IF left >= right THEN left - right ELSE right - left

\* The observed connections a request seen at `timestamp' between `local' and
\* `remote' may belong to.
Matches(protocol, local, remote, timestamp) ==
    {id \in DOMAIN observed :
        /\ observed[id].connection.key =
             [protocol |-> protocol, local |-> local, remote |-> remote]
        /\ observed[id].connection.process # None
        /\ TimeDifference(observed[id].observed_at, timestamp)
             <= CorrelationWindow}

\* Mutant: the first match counts, whatever else matches.
CorrelatedWithAny(protocol, local, remote, timestamp) ==
    Matches(protocol, local, remote, timestamp)

\* correlate_http_request: a match counts only when it is the only one; the
\* result has at most one id.
Correlated(protocol, local, remote, timestamp) ==
    LET matches == Matches(protocol, local, remote, timestamp)
    IN  {id \in matches : matches = {id}}
=============================================================================
