--------------------------- MODULE ConnectionFeed ---------------------------
(***************************************************************************)
(* What the stream of connection events promises to whoever consumes it:   *)
(* within a session an id begins once, ends at most once and only after it *)
(* began, and never comes back.  A new session starts from nothing.        *)
(***************************************************************************)
CONSTANT Id

VARIABLES
    open,   \* ids that have begun and not ended
    used    \* ids that have ever begun in this session

feedVars == <<open, used>>

Begin(id) ==
    /\ id \notin used
    /\ open' = open \cup {id}
    /\ used' = used \cup {id}

End(id) ==
    /\ id \in open
    /\ open' = open \ {id}
    /\ UNCHANGED used

NewSession ==
    /\ open' = {}
    /\ used' = {}

InitFeed == open = {} /\ used = {}

NextFeed == (\E id \in Id : Begin(id) \/ End(id)) \/ NewSession

SpecFeed == InitFeed /\ [][NextFeed]_feedVars
=============================================================================
