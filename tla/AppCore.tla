------------------------------ MODULE AppCore ------------------------------
(***************************************************************************)
(* The types of apppw-core (crates/apppw-core/src/lib.rs) that every other *)
(* component exchanges: processes, captured packets and connections.       *)
(*                                                                         *)
(* An Endpoint stands for an (ip, port) pair.  Payloads, header texts and  *)
(* executable paths carry no control and are left out.  Times are          *)
(* naturals, in units the constants that are durations choose.             *)
(***************************************************************************)
EXTENDS Integers, Sequences, FiniteSets, Functions

CONSTANTS
    Endpoint,   \* (ip, port) pairs
    Process,    \* what an operating system process can look like
    None,       \* Option::None
    MaxU64      \* the largest value of a u64 counter

ASSUME ProcessAssumption ==
    /\ \A p \in Process : p = [pid |-> p.pid, name |-> p.name]
    /\ None \notin Process

ASSUME WidthAssumption == MaxU64 \in Nat \ {0}

Pid == {p.pid : p \in Process}
Name == {p.name : p \in Process}

\* Packets are classified as one of these; HTTP and HTTPS rows come from the
\* proxy and never from a packet.
Protocol == {"TCP", "UDP", "QUIC"}
Direction == {"Outbound", "Inbound"}

U64 == 0 .. MaxU64
Time == Nat

\* Mutant: plain addition.
AddUnchecked(n, m) == n + m

\* u64::saturating_add
SaturatingAdd(n, m) == IF n + m > MaxU64 THEN MaxU64 ELSE n + m

\* later.duration_since(earlier).unwrap_or_default(): a clock that was set
\* back yields a zero duration.
Elapsed(later, earlier) == IF later >= earlier THEN later - earlier ELSE 0

CapturedPacket ==
    [protocol    : Protocol,
     direction   : Direction,
     source      : Endpoint,
     destination : Endpoint,
     packet_size : U64,
     tcp_end     : BOOLEAN,          \* tcp_fin || tcp_rst
     timestamp   : Time,
     process     : Process \cup {None}]

ConnectionKey ==
    [protocol : Protocol, local : Endpoint, remote : Endpoint]

NetworkConnection ==
    [id             : U64,
     process        : Process \cup {None},
     key            : ConnectionKey,
     bytes_sent     : U64,
     bytes_received : U64]

\* HashMap::insert and HashMap::remove of a set of keys.
Insert(map, key, value) ==
    [k \in DOMAIN map \cup {key} |-> IF k = key THEN value ELSE map[k]]

Without(map, keys) == Restrict(map, DOMAIN map \ keys)

EmptyMap == [k \in {} |-> None]
=============================================================================
