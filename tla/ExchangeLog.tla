---------------------------- MODULE ExchangeLog ----------------------------
(***************************************************************************)
(* What the proxy promises about the exchanges it takes part in: each is   *)
(* recorded at most once, under an id of its own, those of one client in   *)
(* the order they were made; records reach their reader one after the      *)
(* other in the order they were made, none left out; and nobody is         *)
(* answered before the record is made.                                     *)
(***************************************************************************)
EXTENDS Naturals, Sequences

VARIABLES
    log,        \* records made, each with id, number and client
    delivered,  \* how many of them the reader has
    answered    \* numbers of the exchanges that were answered

logVars == <<log, delivered, answered>>

Follows(entry, earlier) ==
    /\ entry.id # earlier.id
    /\ entry.number # earlier.number
    /\ entry.client = earlier.client =>
          entry.id > earlier.id /\ entry.number > earlier.number

Record(entry) ==
    /\ \A i \in DOMAIN log : Follows(entry, log[i])
    /\ log' = Append(log, entry)
    /\ UNCHANGED <<delivered, answered>>

Deliver ==
    /\ delivered < Len(log)
    /\ delivered' = delivered + 1
    /\ UNCHANGED <<log, answered>>

Answer(number) ==
    /\ number \notin answered
    /\ \E i \in DOMAIN log : log[i].number = number
    /\ answered' = answered \cup {number}
    /\ UNCHANGED <<log, delivered>>

InitLog == log = <<>> /\ delivered = 0 /\ answered = {}

NextLog ==
    \/ \E i \in DOMAIN log' : Record(log'[i])
    \/ Deliver
    \/ \E number \in answered' : Answer(number)

SpecLog == InitLog /\ [][NextLog]_logVars
=============================================================================
