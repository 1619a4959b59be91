------------------------- MODULE CertificateStore --------------------------
(***************************************************************************)
(* What a user who trusts the certificate relies on: the machine has one   *)
(* authority, chosen once, whoever serves does so with it, and nothing     *)
(* else is ever trusted.  Once the files were disturbed nothing is         *)
(* promised any more.                                                      *)
(***************************************************************************)
CONSTANTS Key, None

VARIABLES
    authority,  \* the key all programs use, None before the first one wrote it
    served,     \* keys of the programs that serve
    trusted,    \* keys whose certificate the user trusts
    disturbed

storeVars == <<authority, served, trusted, disturbed>>

Choose(k) ==
    /\ authority = None
    /\ authority' = k
    /\ UNCHANGED <<served, trusted, disturbed>>

Serve ==
    /\ authority # None
    /\ served = {} /\ served' = {authority}
    /\ UNCHANGED <<authority, trusted, disturbed>>

Close ==
    /\ served' = {}
    /\ UNCHANGED <<authority, trusted, disturbed>>

Trust ==
    /\ served = {authority}
    /\ trusted' = trusted \cup served
    /\ UNCHANGED <<authority, served, disturbed>>

Disturb == disturbed' = TRUE

InitStore ==
    /\ authority = None /\ served = {} /\ trusted = {}
    /\ disturbed = FALSE

NextStore ==
    \/ \E k \in Key : Choose(k)
    \/ Serve \/ Close \/ Trust \/ Disturb

SpecStore == InitStore /\ [][NextStore]_storeVars
=============================================================================
