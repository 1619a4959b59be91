-------------------------- MODULE HttpProxyProofs --------------------------
(***************************************************************************)
(* Theorems of HttpProxy, for any number of clients, requests, hosts and   *)
(* fingerprints: its invariant, and that it implements ExchangeLog and     *)
(* ProxyFeed.                                                              *)
(***************************************************************************)
EXTENDS HttpProxy, SequenceTheorems, TLAPS

\* Events are only ever appended to, and only by SendEvent; the loop of
\* ProxyWorker moves them from the channel to the worker.
LEMMA EventsAppended ==
    ASSUME HttpProxyTypeOK, NEW c \in Client, SendEvent(c), Info(c) \in Event
    PROVE  /\ Events \in Seq(Event)
           /\ Events' = Append(Events, Info(c))
           /\ channel' \in Seq(Event)
<1>1. channel \in Seq(Event) /\ handed \in Seq(Event)
  BY DEF HttpProxyTypeOK
<1>2. channel' = Append(channel, Info(c)) /\ handed' = handed
  BY DEF SendEvent
<1>3. Append(channel, Info(c)) = channel \o <<Info(c)>>
  BY <1>1, AppendIsConcat
<1>4. <<Info(c)>> \in Seq(Event)
  OBVIOUS
<1>5. handed \o (channel \o <<Info(c)>>) = (handed \o channel) \o <<Info(c)>>
  BY <1>1, <1>4, ConcatAssociative
<1>6. handed \o channel \in Seq(Event)
  BY <1>1, ConcatProperties
<1>7. Append(handed \o channel, Info(c)) = (handed \o channel) \o <<Info(c)>>
  BY <1>6, AppendIsConcat
<1>8. Append(channel, Info(c)) \in Seq(Event)
  BY <1>1, AppendProperties
<1> QED BY <1>2, <1>3, <1>5, <1>6, <1>7, <1>8 DEF Events

LEMMA EventsHandedOn ==
    ASSUME HttpProxyTypeOK, HandOn
    PROVE  /\ Events' = Events
           /\ channel' \in Seq(Event) /\ handed' \in Seq(Event)
           /\ Len(handed') = Len(handed) + 1
           /\ Len(handed) < Len(Events)
<1> DEFINE first == Head(channel)
<1>1. channel \in Seq(Event) /\ handed \in Seq(Event) /\ channel # <<>>
  BY DEF HttpProxyTypeOK, HandOn
<1>2. channel' = Tail(channel) /\ handed' = Append(handed, first)
  BY DEF HandOn
<1>3. Tail(channel) \in Seq(Event) /\ first \in Event
  BY <1>1, HeadTailProperties
<1>4. channel = <<first>> \o Tail(channel)
  BY <1>1, HeadTailProperties, ConcatProperties
<1>5. Append(handed, first) = handed \o <<first>>
  BY <1>1, <1>3, AppendIsConcat
<1>6. <<first>> \in Seq(Event)
  BY <1>3
<1>7. (handed \o <<first>>) \o Tail(channel)
         = handed \o (<<first>> \o Tail(channel))
  BY <1>1, <1>3, <1>6, ConcatAssociative
<1>8. Append(handed, first) \in Seq(Event)
      /\ Len(Append(handed, first)) = Len(handed) + 1
  BY <1>1, <1>3, AppendProperties
<1>9. Len(channel) \in Nat \ {0} /\ Len(handed) \in Nat
      /\ Len(handed \o channel) = Len(handed) + Len(channel)
  BY <1>1, EmptySeq, ConcatProperties, LenProperties
<1> QED BY <1>2, <1>3, <1>4, <1>5, <1>7, <1>8, <1>9 DEF Events

-----------------------------------------------------------------------------
(***************************************************************************)
(* The invariant.                                                          *)
(***************************************************************************)

\* The event of an exchange is well typed (HttpRequestInfo in forward).
LEMMA InfoTyped ==
    ASSUME HttpProxyTypeOK, UpstreamAgrees, NEW c \in Client, In(c, "send")
    PROVE  /\ Info(c) \in Event
           /\ SchemeOf(c, exchange[c].request) \in {"http", "https"}
           /\ HostOf(c, exchange[c].request) \in Host
<1> DEFINE request == exchange[c].request
<1>1. /\ request \in Request /\ exchange[c].number \in Nat
      /\ exchange[c].id \in Nat
  BY DEF HttpProxyTypeOK, Exchange, Nothing, In
<1>2. /\ request.scheme \in {"http", "https", None}
      /\ request.authority \in Host \cup {None}
      /\ request.host_header \in Host \cup {None}
      /\ request.headers \in SUBSET Header
  BY <1>1, HttpProxyAssumption
<1>3. SchemeOf(c, request) \in {"http", "https"}
  BY <1>2 DEF SchemeOf
<1>4. HostOf(c, request) \in Host
  BY <1>2 DEF HostOf, HttpProxyTypeOK, UpstreamAgrees, In, Running
<1>5. Redacted(request.headers)
        \in UNION {[names -> {"[REDACTED]", "value"}] :
                       names \in SUBSET Header}
  <2>1. Redacted(request.headers)
          \in [request.headers -> {"[REDACTED]", "value"}]
    BY DEF Redacted
  <2> QED BY <1>2, <2>1
<1>6. ja4[c] \in Fingerprint \cup {None}
  BY DEF HttpProxyTypeOK
<1> QED BY <1>1, <1>3, <1>4, <1>5, <1>6 DEF Info, Event

\* An exchange, stage by stage, goes on to the next one well typed.
LEMMA ExchangeAdvances ==
    ASSUME NEW e \in Exchange
    PROVE  /\ e.stage = "body" => [e EXCEPT !.stage = "upstream"] \in Exchange
           /\ e.stage = "response" => [e EXCEPT !.stage = "record"] \in Exchange
           /\ e.stage = "send" => [e EXCEPT !.stage = "reply"] \in Exchange
           /\ e.stage # "idle" => e.number \in Nat /\ e.request \in Request
           /\ e.stage \in {"record", "send", "reply"} => e.tunnel \in BOOLEAN
           /\ e.stage \in {"send", "reply"} => e.id \in Nat
BY DEF Exchange, Nothing

\* Going on to another stage changes nothing else of an exchange.
LEMMA ExchangeGoesOn ==
    ASSUME HttpProxyTypeOK, NEW c \in Client, NEW stage, Busy(c), Go(c, stage)
    PROVE  /\ exchange'[c].stage = stage
           /\ exchange'[c].number = exchange[c].number
           /\ exchange'[c].request = exchange[c].request
           /\ \A d \in Client \ {c} : exchange'[d] = exchange[d]
<1>1. exchange[c] \in Exchange /\ DOMAIN exchange = Client
  BY DEF HttpProxyTypeOK
<1>2. exchange' = [exchange EXCEPT ![c] = [exchange[c] EXCEPT !.stage = stage]]
  BY DEF Go
<1>3. LET e == exchange[c]
          f == [e EXCEPT !.stage = stage]
      IN  f.stage = stage /\ f.number = e.number /\ f.request = e.request
  BY <1>1 DEF Busy, In, Exchange, Nothing
<1> QED BY <1>1, <1>2, <1>3

\* Every action of a task leaves its exchange well typed.
LEMMA ExchangeStep ==
    ASSUME HttpProxyTypeOK, [Next]_vars
    PROVE  exchange' \in [Client -> Exchange]
<1>1. exchange \in [Client -> Exchange] /\ next_id \in Nat /\ count \in Nat
  BY DEF HttpProxyTypeOK
<1>2. ASSUME NEW c \in Client, NEW e \in Exchange,
             exchange' = [exchange EXCEPT ![c] = e]
      PROVE  exchange' \in [Client -> Exchange]
  BY <1>1, <1>2
<1>3. Nothing \in Exchange
  BY DEF Exchange
<1>4. ASSUME NEW c \in Client, NEW request \in Request, Send(c, request)
      PROVE  exchange' \in [Client -> Exchange]
  <2>1. [stage |-> "body", number |-> count', request |-> request] \in Exchange
    BY <1>1, <1>4 DEF Send, Exchange
  <2> QED BY <1>2, <1>4, <2>1 DEF Send
<1>5. ASSUME NEW c \in Client, Forward(c) \/ ResponseRead(c) \/ SendEvent(c)
      PROVE  exchange' \in [Client -> Exchange]
  <2>1. \/ In(c, "body") /\ Go(c, "upstream")
        \/ In(c, "response") /\ Go(c, "record")
        \/ In(c, "send") /\ Go(c, "reply")
    BY <1>5 DEF Forward, ResponseRead, SendEvent
  <2>2. exchange[c] \in Exchange
    BY <1>1
  <2>3. CASE In(c, "body") /\ Go(c, "upstream")
    BY <1>2, <2>2, <2>3, ExchangeAdvances DEF In, Go
  <2>4. CASE In(c, "response") /\ Go(c, "record")
    BY <1>2, <2>2, <2>4, ExchangeAdvances DEF In, Go
  <2>5. CASE In(c, "send") /\ Go(c, "reply")
    BY <1>2, <2>2, <2>5, ExchangeAdvances DEF In, Go
  <2> QED BY <2>1, <2>3, <2>4, <2>5
<1>6. ASSUME NEW c \in Client, NEW switching \in BOOLEAN,
             UpstreamAnswers(c, switching)
      PROVE  exchange' \in [Client -> Exchange]
  <2> DEFINE tunnel == switching /\ exchange[c].request.upgrade
             answer == [stage |-> IF tunnel THEN "record" ELSE "response",
                        number |-> exchange[c].number,
                        request |-> exchange[c].request, tunnel |-> tunnel]
  <2>1. exchange[c].number \in Nat /\ exchange[c].request \in Request
    BY <1>1, <1>6, ExchangeAdvances DEF UpstreamAnswers, In
  <2>2. exchange[c].request.upgrade \in BOOLEAN
    BY <2>1, HttpProxyAssumption
  <2>3. tunnel \in BOOLEAN
    BY <2>2
  <2>4. answer \in Exchange
    BY <2>1, <2>3 DEF Exchange
  <2>5. exchange' = [exchange EXCEPT ![c] = answer]
    BY <1>6 DEF UpstreamAnswers
  <2> QED BY <1>2, <2>4, <2>5
<1>7. ASSUME NEW c \in Client, TakeId(c)
      PROVE  exchange' \in [Client -> Exchange]
  <2> DEFINE numbered == [stage |-> "send", number |-> exchange[c].number,
                          request |-> exchange[c].request,
                          tunnel |-> exchange[c].tunnel, id |-> next_id]
  <2>1. /\ exchange[c].number \in Nat /\ exchange[c].request \in Request
        /\ exchange[c].tunnel \in BOOLEAN
    BY <1>1, <1>7, ExchangeAdvances DEF TakeId, In
  <2>2. numbered \in Exchange
    BY <1>1, <2>1 DEF Exchange
  <2>3. exchange' = [exchange EXCEPT ![c] = numbered]
    BY <1>7 DEF TakeId
  <2> QED BY <1>2, <2>2, <2>3
<1>8. ASSUME NEW c \in Client, Fail(c) \/ Reply(c) \/ Disconnect(c)
      PROVE  exchange' \in [Client -> Exchange]
  BY <1>2, <1>3, <1>8 DEF Fail, Reply, Disconnect
<1>9. CASE EndRuntime
  BY <1>3, <1>9 DEF EndRuntime
<1>10. ASSUME \/ \E c \in Client :
                   \/ Accept(c) \/ ConnectRefused(c) \/ Connected(c)
                   \/ \E host \in Host : Connect(c, host)
                   \/ \E fingerprint \in Fingerprint \cup {None} :
                         Handshake(c, fingerprint)
              \/ HandOn \/ Ask \/ StopAccepting \/ UNCHANGED vars
       PROVE  exchange' \in [Client -> Exchange]
  BY <1>1, <1>10
  DEF Accept, ConnectRefused, Connected, Connect, Handshake, HandOn, Ask,
      StopAccepting, vars
<1> QED
  BY <1>4, <1>5, <1>6, <1>7, <1>8, <1>9, <1>10
  DEF Next, Task, Peer, Shutdown

LEMMA TypeStep ==
    ASSUME HttpProxyTypeOK, ExchangesAgree, UpstreamAgrees, [Next]_vars
    PROVE  HttpProxyTypeOK'
<1> USE DEF HttpProxyTypeOK, aux
<1>1. exchange' \in [Client -> Exchange]
  BY ExchangeStep
<1>2. ASSUME NEW c \in Client, SendEvent(c)
      PROVE  HttpProxyTypeOK'
  <2>1. channel' \in Seq(Event)
    BY <1>2, InfoTyped, EventsAppended DEF SendEvent
  <2> QED BY <1>1, <1>2, <2>1 DEF SendEvent
<1>3. CASE HandOn
  <2>1. channel' \in Seq(Event) /\ handed' \in Seq(Event)
    BY <1>3, EventsHandedOn
  <2> QED BY <1>1, <1>3, <2>1 DEF HandOn
<1>4. ASSUME NEW c \in Client, TakeId(c)
      PROVE  HttpProxyTypeOK'
  BY <1>1, <1>4 DEF TakeId
<1>5. ASSUME NEW c \in Client, Reply(c)
      PROVE  HttpProxyTypeOK'
  <2>1. exchange[c].number \in 1 .. count
    BY <1>5 DEF Reply, ExchangesAgree, ExchangeKnown, Busy, In
  <2> QED BY <1>1, <1>5, <2>1 DEF Reply
<1>6. ASSUME NEW c \in Client,
             \/ Accept(c) \/ Disconnect(c) \/ Fail(c)
             \/ \E host \in Host : Connect(c, host)
             \/ ConnectRefused(c) \/ Connected(c)
             \/ \E fingerprint \in Fingerprint \cup {None} :
                   Handshake(c, fingerprint)
      PROVE  HttpProxyTypeOK'
  <2>1. UNCHANGED <<next_id, channel, handed, stopping, count, answered>>
    BY <1>6
    DEF Accept, Disconnect, Fail, Connect, ConnectRefused, Connected, Handshake
  <2>2. link' \in [Client -> {"none", "open", "connecting", "upgrading",
                             "inspected", "tunnel", "closed"}]
    BY <1>6
    DEF Accept, Disconnect, Fail, Connect, ConnectRefused, Connected, Handshake
  <2>3. /\ target' \in [Client -> Host \cup {None}]
        /\ ja4' \in [Client -> Fingerprint \cup {None}]
    BY <1>6
    DEF Accept, Disconnect, Fail, Connect, ConnectRefused, Connected, Handshake
  <2> QED BY <1>1, <2>1, <2>2, <2>3
<1>7. ASSUME NEW c \in Client, NEW request \in Request, Send(c, request)
      PROVE  HttpProxyTypeOK'
  <2>1. count' \in 0 .. MaxRequests /\ count <= count'
    BY <1>7, HttpProxyAssumption DEF Send
  <2>2. answered' \subseteq 1 .. count'
    BY <1>7, <2>1, HttpProxyAssumption DEF Send
  <2> QED BY <1>1, <1>7, <2>1, <2>2 DEF Send
<1>8. ASSUME NEW c \in Client,
             \/ Forward(c)
             \/ \E switching \in BOOLEAN : UpstreamAnswers(c, switching)
             \/ ResponseRead(c)
      PROVE  HttpProxyTypeOK'
  <2>1. UNCHANGED <<link, target, ja4, next_id, channel, handed, stopping,
                    count, answered>>
    BY <1>8 DEF Forward, UpstreamAnswers, ResponseRead
  <2> QED BY <1>1, <2>1
<1>9. CASE Ask \/ Shutdown \/ UNCHANGED vars
  BY <1>1, <1>9 DEF Ask, Shutdown, StopAccepting, EndRuntime, vars
<1> QED
  BY <1>2, <1>3, <1>4, <1>5, <1>6, <1>7, <1>8, <1>9 DEF Next, Task, Peer

\* A client's actions leave every other connection and exchange alone.
LEMMA OthersKeep ==
    ASSUME HttpProxyTypeOK, NEW c \in Client, Task(c) \/ Peer(c),
           NEW d \in Client, d # c
    PROVE  /\ link'[d] = link[d] /\ target'[d] = target[d]
           /\ ja4'[d] = ja4[d] /\ exchange'[d] = exchange[d]
<1> USE DEF HttpProxyTypeOK
<1>1. CASE Task(c)
  BY <1>1 DEF Task, TakeId, SendEvent, Reply, Go
<1>2. CASE \/ Accept(c) \/ Disconnect(c) \/ Fail(c)
           \/ \E host \in Host : Connect(c, host)
           \/ ConnectRefused(c) \/ Connected(c)
           \/ \E fingerprint \in Fingerprint \cup {None} :
                 Handshake(c, fingerprint)
  BY <1>2
  DEF Accept, Disconnect, Fail, Connect, ConnectRefused, Connected, Handshake
<1>3. CASE \/ \E request \in Request : Send(c, request)
           \/ Forward(c)
           \/ \E switching \in BOOLEAN : UpstreamAnswers(c, switching)
           \/ ResponseRead(c)
  BY <1>3 DEF Send, Forward, UpstreamAnswers, ResponseRead, Go
<1> QED BY <1>1, <1>2, <1>3 DEF Peer

\* What LinksAgree says of one connection.
LinkAgrees(c) ==
    /\ Busy(c) => Serving(c)
    /\ link[c] \in {"none", "open"} => target[c] = None
    /\ link[c] \in {"upgrading", "inspected"} =>
          target[c] \in Host \ Passthrough
    /\ ja4[c] # None =>
          /\ link[c] \in {"inspected", "tunnel", "closed"}
          /\ target[c] \in Host \ Passthrough

LEMMA LinksStep ==
    ASSUME HttpProxyTypeOK, LinksAgree, [Next]_vars
    PROVE  LinksAgree'
<1> USE DEF HttpProxyTypeOK, Busy, Serving, In
<1>1. ASSUME NEW c \in Client, Task(c) \/ Peer(c)
      PROVE  LinksAgree'
  <2>1. \A d \in Client : LinkAgrees(d)
    BY DEF LinksAgree, LinkAgrees
  <2>2. \A d \in Client \ {c} : LinkAgrees(d)'
    BY <1>1, <2>1, OthersKeep DEF LinkAgrees
  <2> SUFFICES LinkAgrees(c)'
    BY <2>2 DEF LinksAgree, LinkAgrees
  <2>3. CASE Accept(c) \/ Disconnect(c)
    BY <2>1, <2>3 DEF LinkAgrees, Accept, Disconnect, Nothing
  <2>4. CASE \E host \in Host : Connect(c, host)
    BY <2>1, <2>4 DEF LinkAgrees, Connect
  <2>5. CASE ConnectRefused(c) \/ Connected(c)
    BY <2>1, <2>5 DEF LinkAgrees, ConnectRefused, Connected
  <2>6. CASE \E fingerprint \in Fingerprint \cup {None} :
                Handshake(c, fingerprint)
    BY <2>1, <2>6 DEF LinkAgrees, Handshake
  <2>7. CASE Fail(c) \/ Reply(c)
    BY <2>1, <2>7 DEF LinkAgrees, Fail, Reply, Nothing
  <2>8. CASE TakeId(c) \/ SendEvent(c)
             \/ (\E request \in Request : Send(c, request)) \/ Forward(c)
             \/ (\E switching \in BOOLEAN : UpstreamAnswers(c, switching))
             \/ ResponseRead(c)
    <3>1. UNCHANGED <<link, target, ja4>> /\ Serving(c)
      BY <2>1, <2>8
      DEF LinkAgrees, TakeId, SendEvent, Send, Forward, UpstreamAnswers,
          ResponseRead
    <3> QED BY <2>1, <3>1 DEF LinkAgrees
  <2> QED
    BY <1>1, <2>3, <2>4, <2>5, <2>6, <2>7, <2>8 DEF Task, Peer
<1>2. CASE HandOn \/ Ask \/ Shutdown \/ UNCHANGED vars
  BY <1>2
  DEF LinksAgree, HandOn, Ask, Shutdown, StopAccepting, EndRuntime, Nothing,
      vars
<1> QED BY <1>1, <1>2 DEF Next

\* Only SendEvent and HandOn touch what is recorded.
LEMMA EventsKept ==
    ASSUME UNCHANGED <<channel, handed>>
    PROVE  Events' = Events /\ (\A n : Recorded(n)' <=> Recorded(n))
BY DEF Events, Recorded

\* The elements of Events are events.
LEMMA EventsTyped ==
    ASSUME HttpProxyTypeOK
    PROVE  /\ Events \in Seq(Event)
           /\ Len(Events) \in Nat /\ DOMAIN Events = 1 .. Len(Events)
           /\ \A i \in DOMAIN Events :
                 /\ Events[i] \in Event /\ Events[i].client \in Client
                 /\ Events[i].id \in Nat /\ Events[i].number \in Nat
<1>1. Events \in Seq(Event)
  BY ConcatProperties DEF HttpProxyTypeOK, Events
<1>2. Len(Events) \in Nat /\ DOMAIN Events = 1 .. Len(Events)
  BY <1>1, LenProperties
<1>3. \A i \in DOMAIN Events : Events[i] \in Event
  BY <1>1, <1>2, ElementOfSeq
<1>4. \A e \in Event : e.client \in Client /\ e.id \in Nat /\ e.number \in Nat
  BY DEF Event
<1> QED BY <1>1, <1>2, <1>3, <1>4

\* What SendEvent adds to Events, element by element.
LEMMA EventSent ==
    ASSUME HttpProxyTypeOK, UpstreamAgrees, NEW c \in Client, SendEvent(c)
    PROVE  /\ DOMAIN Events' = 1 .. Len(Events) + 1
           /\ \A i \in DOMAIN Events : Events'[i] = Events[i]
           /\ Events'[Len(Events) + 1] = Info(c)
<1>1. Info(c) \in Event
  BY InfoTyped DEF SendEvent
<1>2. Events \in Seq(Event) /\ Events' = Append(Events, Info(c))
  BY <1>1, EventsAppended
<1>3. Append(Events, Info(c)) \in Seq(Event)
      /\ Len(Append(Events, Info(c))) = Len(Events) + 1
      /\ \A i \in 1 .. Len(Events) : Append(Events, Info(c))[i] = Events[i]
      /\ Append(Events, Info(c))[Len(Events) + 1] = Info(c)
  BY <1>1, <1>2, AppendProperties
<1> QED BY <1>2, <1>3, LenProperties, EventsTyped

\* ExchangesAgree after a step that records nothing: what has to be shown is
\* only about the exchange that moved.
LEMMA ExchangesAgreeKept ==
    ASSUME ExchangesAgree, NEW c \in Client, Events' = Events,
           \A d \in Client \ {c} : exchange'[d] = exchange[d],
           count \in Nat, count' \in Nat, count <= count',
           next_id \in Nat, next_id' \in Nat, next_id <= next_id',
           \A i \in DOMAIN Events :
               Events[i].id \in Nat /\ Events[i].number \in Nat,
           \A d \in Client : In(d, "send") => exchange[d].id \in Nat,
           \A d \in Client \ {c} : Busy(d) => exchange[d].number \notin answered',
           \A d \in Client \ {c} : ExchangesDiffer(c, d)',
           ExchangeKnown(c)',
           \A i \in DOMAIN Events : NotYetIn(c, Events[i])'
    PROVE  ExchangesAgree'
<1> USE DEF ExchangesAgree
<1>1. \A n : Recorded(n)' <=> Recorded(n)
  BY DEF Recorded
<1>2. \A d, e \in Client : d # e => ExchangesDiffer(d, e)'
  <2> SUFFICES ASSUME NEW d \in Client, NEW e \in Client, d # e
               PROVE  ExchangesDiffer(d, e)'
    OBVIOUS
  <2>1. CASE d = c \/ e = c
    BY <2>1 DEF ExchangesDiffer
  <2>2. CASE d # c /\ e # c
    BY <2>2 DEF ExchangesDiffer, Busy, In
  <2> QED BY <2>1, <2>2
<1>3. \A d \in Client : ExchangeKnown(d)'
  BY <1>1 DEF ExchangeKnown, Busy, In
<1>4. \A i \in DOMAIN Events' : EventKnown(Events[i])'
  BY DEF EventKnown
<1>5. \A i \in DOMAIN Events', d \in Client : NotYetIn(d, Events[i])'
  BY DEF NotYetIn, Busy, In
<1> QED BY <1>2, <1>3, <1>4, <1>5

LEMMA ExchangesStep ==
    ASSUME HttpProxyTypeOK, ExchangesAgree, UpstreamAgrees, [Next]_vars
    PROVE  ExchangesAgree'
<1>1. /\ next_id \in Nat /\ count \in Nat
      /\ \A i \in DOMAIN Events :
            Events[i].id \in Nat /\ Events[i].number \in Nat
      /\ \A d \in Client : exchange[d] \in Exchange
      /\ \A d \in Client : In(d, "send") => exchange[d].id \in Nat
  <2>1. \A d \in Client : exchange[d] \in Exchange
    BY DEF HttpProxyTypeOK
  <2>2. \A d \in Client : In(d, "send") => exchange[d].id \in Nat
    BY <2>1, ExchangeAdvances DEF In
  <2>3. next_id \in Nat /\ count \in Nat
    BY DEF HttpProxyTypeOK
  <2> QED BY <2>1, <2>2, <2>3, EventsTyped
<1>2. DOMAIN exchange = Client
  BY DEF HttpProxyTypeOK
<1>3. /\ \A d, e \in Client : d # e => ExchangesDiffer(d, e)
      /\ \A d \in Client : ExchangeKnown(d)
      /\ \A i \in DOMAIN Events :
            EventKnown(Events[i]) /\ \A d \in Client : NotYetIn(d, Events[i])
  BY DEF ExchangesAgree
<1>4. ASSUME NEW c \in Client, NEW request \in Request, Send(c, request)
      PROVE  ExchangesAgree'
  <2>1. /\ exchange'[c].number = count + 1 /\ exchange'[c].stage = "body"
        /\ \A d \in Client \ {c} : exchange'[d] = exchange[d]
        /\ count' = count + 1 /\ UNCHANGED <<next_id, answered>>
    BY <1>2, <1>4 DEF Send
  <2>2. Events' = Events
    BY <1>4, EventsKept DEF Send
  <2>3. answered \subseteq 1 .. count
    BY DEF HttpProxyTypeOK
  <2>4. \A d \in Client \ {c} :
            Busy(d) => exchange[d].number \in (1 .. count) \ answered
    BY <1>3 DEF ExchangeKnown
  <2>5. \A d \in Client \ {c} : ExchangesDiffer(c, d)'
    BY <1>1, <2>1, <2>4 DEF ExchangesDiffer, Busy, In
  <2>6. ExchangeKnown(c)'
    BY <1>1, <2>1, <2>3 DEF ExchangeKnown, Busy, In
  <2>7. \A i \in DOMAIN Events : NotYetIn(c, Events[i])'
    BY <1>1, <1>3, <2>1, <2>2 DEF NotYetIn, EventKnown, Busy, In
  <2> QED
    BY <1>1, <2>1, <2>2, <2>4, <2>5, <2>6, <2>7, ExchangesAgreeKept
<1>5. ASSUME NEW c \in Client,
             \/ Forward(c) \/ ResponseRead(c)
             \/ \E switching \in BOOLEAN : UpstreamAnswers(c, switching)
      PROVE  ExchangesAgree'
  <2>1. /\ exchange[c].stage \in {"body", "upstream", "response"}
        /\ exchange'[c].stage \in {"upstream", "response", "record"}
        /\ exchange'[c].number = exchange[c].number
        /\ \A d \in Client \ {c} : exchange'[d] = exchange[d]
    <3>1. CASE Forward(c)
      BY <3>1, ExchangeGoesOn DEF Forward, Busy, In
    <3>2. CASE ResponseRead(c)
      BY <3>2, ExchangeGoesOn DEF ResponseRead, Busy, In
    <3>3. CASE \E switching \in BOOLEAN : UpstreamAnswers(c, switching)
      BY <1>2, <3>3 DEF UpstreamAnswers, In
    <3> QED BY <1>5, <3>1, <3>2, <3>3
  <2>2. UNCHANGED <<next_id, answered, count>>
    BY <1>5 DEF Forward, ResponseRead, UpstreamAnswers, aux
  <2>3. Events' = Events
    BY <1>5, EventsKept DEF Forward, ResponseRead, UpstreamAnswers
  <2>4. \A d \in Client \ {c} : Busy(d) => exchange[d].number \notin answered'
    BY <1>3, <2>2 DEF ExchangeKnown
  <2>5. \A d \in Client \ {c} : ExchangesDiffer(c, d)'
    BY <1>3, <2>1 DEF ExchangesDiffer, Busy, In
  <2>6. ExchangeKnown(c)'
    BY <1>3, <2>1, <2>2 DEF ExchangeKnown, Busy, In
  <2>7. \A i \in DOMAIN Events : NotYetIn(c, Events[i])'
    BY <1>3, <2>1, <2>3 DEF NotYetIn, Busy, In
  <2> QED
    BY <1>1, <2>1, <2>2, <2>3, <2>4, <2>5, <2>6, <2>7, ExchangesAgreeKept
<1>6. ASSUME NEW c \in Client, TakeId(c)
      PROVE  ExchangesAgree'
  <2>1. /\ exchange[c].stage = "record" /\ exchange'[c].stage = "send"
        /\ exchange'[c].number = exchange[c].number
        /\ exchange'[c].id = next_id
        /\ \A d \in Client \ {c} : exchange'[d] = exchange[d]
    BY <1>2, <1>6 DEF TakeId, In
  <2>2. next_id' = next_id + 1 /\ UNCHANGED <<answered, count>>
    BY <1>6 DEF TakeId, aux
  <2>3. Events' = Events
    BY <1>6, EventsKept DEF TakeId
  <2>4. \A d \in Client \ {c} : Busy(d) => exchange[d].number \notin answered'
    BY <1>3, <2>2 DEF ExchangeKnown
  <2>5. \A d \in Client \ {c} : ExchangesDiffer(c, d)'
    BY <1>1, <1>3, <2>1 DEF ExchangesDiffer, ExchangeKnown, Busy, In
  <2>6. ExchangeKnown(c)'
    BY <1>1, <1>3, <2>1, <2>2 DEF ExchangeKnown, Busy, In
  <2>7. \A i \in DOMAIN Events : NotYetIn(c, Events[i])'
    BY <1>1, <1>3, <2>1, <2>3 DEF NotYetIn, EventKnown, Busy, In
  <2> QED
    BY <1>1, <2>1, <2>2, <2>3, <2>4, <2>5, <2>6, <2>7, ExchangesAgreeKept
<1>7. ASSUME NEW c \in Client, SendEvent(c)
      PROVE  ExchangesAgree'
  <2>1. /\ exchange[c].stage = "send" /\ exchange'[c].stage = "reply"
        /\ exchange'[c].number = exchange[c].number
        /\ \A d \in Client \ {c} : exchange'[d] = exchange[d]
    BY <1>7, ExchangeGoesOn DEF SendEvent, Busy, In
  <2>2. UNCHANGED <<next_id, answered, count>>
    BY <1>7 DEF SendEvent, aux
  <2>3. /\ Info(c).id = exchange[c].id /\ Info(c).client = c
        /\ Info(c).number = exchange[c].number
    BY DEF Info
  <2>4. \A i \in DOMAIN Events' :
            \/ i \in DOMAIN Events /\ Events'[i] = Events[i]
            \/ Events'[i] = Info(c)
    BY <1>7, EventSent, EventsTyped
  <2>5. \A n : Recorded(n) => Recorded(n)'
    BY <1>7, EventSent, EventsTyped DEF Recorded
  <2>6. Recorded(exchange[c].number)'
    BY <1>7, <2>1, <2>3, EventSent, EventsTyped DEF Recorded
  <2>7. \A d, e \in Client : d # e => ExchangesDiffer(d, e)'
    BY <1>3, <2>1 DEF ExchangesDiffer, Busy, In
  <2>8. \A d \in Client : ExchangeKnown(d)'
    BY <1>3, <2>1, <2>2, <2>5, <2>6 DEF ExchangeKnown, Busy, In
  <2>9. \A i \in DOMAIN Events' : EventKnown(Events[i])'
    BY <1>3, <2>1, <2>2, <2>3, <2>4 DEF EventKnown, ExchangeKnown, Busy, In
  <2>10. \A i \in DOMAIN Events', d \in Client : NotYetIn(d, Events[i])'
    <3> SUFFICES ASSUME NEW i \in DOMAIN Events', NEW d \in Client
                 PROVE  NotYetIn(d, Events[i])'
      OBVIOUS
    <3>1. CASE d = c
      BY <2>1, <3>1 DEF NotYetIn, Busy, In
    <3>2. CASE d # c /\ i \in DOMAIN Events /\ Events'[i] = Events[i]
      BY <1>3, <2>1, <3>2 DEF NotYetIn, Busy, In
    <3>3. CASE d # c /\ Events'[i] = Info(c)
      BY <1>3, <2>1, <2>3, <3>3 DEF NotYetIn, ExchangesDiffer, Busy, In
    <3> QED BY <2>4, <3>1, <3>2, <3>3
  <2> QED BY <2>7, <2>8, <2>9, <2>10 DEF ExchangesAgree
<1>8. ASSUME NEW c \in Client, Reply(c) \/ Fail(c) \/ Disconnect(c)
      PROVE  ExchangesAgree'
  <2>1. /\ exchange'[c].stage = "idle"
        /\ \A d \in Client \ {c} : exchange'[d] = exchange[d]
    BY <1>2, <1>8 DEF Reply, Fail, Disconnect, Nothing
  <2>2. UNCHANGED <<next_id, count>>
    BY <1>8 DEF Reply, Fail, Disconnect, aux
  <2>3. \/ UNCHANGED answered
        \/ Busy(c) /\ answered' = answered \cup {exchange[c].number}
    BY <1>8 DEF Reply, Fail, Disconnect, aux, Busy, In
  <2>4. Events' = Events
    BY <1>8, EventsKept DEF Reply, Fail, Disconnect
  <2>5. \A d \in Client \ {c} : Busy(d) => exchange[d].number \notin answered'
    BY <1>3, <2>3 DEF ExchangeKnown, ExchangesDiffer
  <2>6. /\ \A d \in Client \ {c} : ExchangesDiffer(c, d)'
        /\ ExchangeKnown(c)'
        /\ \A i \in DOMAIN Events : NotYetIn(c, Events[i])'
    BY <2>1, <2>4 DEF ExchangesDiffer, ExchangeKnown, NotYetIn, Busy, In
  <2> QED
    BY <1>1, <2>1, <2>2, <2>4, <2>5, <2>6, ExchangesAgreeKept
<1>9. ASSUME UNCHANGED <<next_id, answered, count>>, Events' = Events,
             \/ UNCHANGED exchange
             \/ \A c \in Client : exchange'[c].stage = "idle"
      PROVE  ExchangesAgree'
  BY <1>3, <1>9
  DEF ExchangesAgree, ExchangesDiffer, ExchangeKnown, NotYetIn, EventKnown,
      Recorded, Busy, In
<1>10. CASE HandOn
  BY <1>9, <1>10, EventsHandedOn DEF HandOn, aux
<1>11. CASE EndRuntime
  BY <1>9, <1>11, EventsKept DEF EndRuntime, aux, Nothing
<1>12. ASSUME \/ \E c \in Client :
                   \/ Accept(c) \/ ConnectRefused(c) \/ Connected(c)
                   \/ \E host \in Host : Connect(c, host)
                   \/ \E fingerprint \in Fingerprint \cup {None} :
                         Handshake(c, fingerprint)
              \/ Ask \/ StopAccepting \/ UNCHANGED vars
       PROVE  ExchangesAgree'
  <2>1. UNCHANGED <<exchange, next_id, answered, count, channel, handed>>
    BY <1>12
    DEF Accept, ConnectRefused, Connected, Connect, Handshake, Ask,
        StopAccepting, vars, aux
  <2> QED BY <1>9, <2>1, EventsKept
<1> QED
  BY <1>4, <1>5, <1>6, <1>7, <1>8, <1>10, <1>11, <1>12
  DEF Next, Task, Peer, Shutdown

-----------------------------------------------------------------------------
(***************************************************************************)
(* What the upstream was sent, and what the events say of it.              *)
(***************************************************************************)
Sent(c) == exchange[c].stage \in {"upstream", "response"} \cup Running

UpstreamKnown(c) ==
    Sent(c) => /\ HostOf(c, exchange[c].request) # None
               /\ Outgoing(c, exchange[c].request) \in upstream

\* An event tells what went upstream, given who its client is now.
Tells(e) ==
    /\ \E sent \in upstream :
          /\ sent.number = e.number /\ sent.client = e.client
          /\ sent.scheme = e.scheme /\ sent.host = e.host
          /\ sent.headers \subseteq DOMAIN e.headers
          /\ sent.headers \cap {"proxy-authorization", "proxy-connection"} = {}
    /\ \A h \in DOMAIN e.headers \cap Sensitive : e.headers[h] = "[REDACTED]"
    /\ e.ja4 # None =>
          /\ e.scheme = "https" /\ target[e.client] \in Host \ Passthrough
          /\ link[e.client] \in {"inspected", "tunnel", "closed"}

EventsTell == \A i \in DOMAIN Events : Tells(Events[i])

LEMMA EventsTellEquivalent ==
    ASSUME \A c \in Client : UpstreamKnown(c)
    PROVE  UpstreamAgrees /\ EventsTellWhatWentUpstream <=> EventsTell
BY DEF UpstreamAgrees, EventsTellWhatWentUpstream, EventsTell, Tells,
       UpstreamKnown, Sent

\* While a request is under way its connection stays what it was, so its
\* outgoing request and event agree.
LEMMA InfoTells ==
    ASSUME HttpProxyTypeOK, LinksAgree, UpstreamAgrees,
           NEW c \in Client, In(c, "send")
    PROVE  Tells(Info(c))
<1> DEFINE request == exchange[c].request
           sent == Outgoing(c, request)
<1>1. sent \in upstream
  BY DEF UpstreamAgrees, In, Running
<1>2. /\ sent.number = Info(c).number /\ sent.client = Info(c).client
      /\ sent.scheme = Info(c).scheme /\ sent.host = Info(c).host
  BY DEF Outgoing, Info
<1>3. /\ DOMAIN Info(c).headers = request.headers
      /\ \A h \in request.headers \cap Sensitive :
            Info(c).headers[h] = "[REDACTED]"
  BY DEF Info, Redacted
<1>4. sent.headers = request.headers \ {"proxy-authorization", "proxy-connection"}
  BY DEF Outgoing
<1>5. ASSUME Info(c).ja4 # None
      PROVE  /\ Info(c).scheme = "https"
             /\ target[c] \in Host \ Passthrough /\ link[c] = "inspected"
  BY <1>5 DEF Info, SchemeOf, LinksAgree, Busy, Serving, In
<1>6. Info(c).client = c
  BY DEF Info
<1> QED BY <1>1, <1>2, <1>3, <1>4, <1>5, <1>6 DEF Tells

\* A connection that was taken apart keeps its target (and never opens again).
LEMMA LinkSettled ==
    ASSUME HttpProxyTypeOK, [Next]_vars, NEW c \in Client,
           link[c] \in {"inspected", "tunnel", "closed"}
    PROVE  /\ link'[c] \in {"inspected", "tunnel", "closed"}
           /\ target'[c] = target[c]
<1>1. ASSUME NEW d \in Client, d # c, Task(d) \/ Peer(d)
      PROVE  link'[c] = link[c] /\ target'[c] = target[c]
  BY <1>1, OthersKeep
<1>2. CASE Task(c)
  BY <1>2 DEF HttpProxyTypeOK, Task, TakeId, SendEvent, Reply
<1>3. CASE Peer(c)
  <2>1. CASE Disconnect(c) \/ Fail(c) \/ Forward(c) \/ ResponseRead(c)
             \/ (\E request \in Request : Send(c, request))
             \/ (\E switching \in BOOLEAN : UpstreamAnswers(c, switching))
    BY <2>1
    DEF HttpProxyTypeOK, Disconnect, Fail, Forward, ResponseRead, Send,
        UpstreamAnswers
  <2>2. CASE Accept(c) \/ ConnectRefused(c) \/ Connected(c)
             \/ (\E host \in Host : Connect(c, host))
             \/ (\E fingerprint \in Fingerprint \cup {None} :
                   Handshake(c, fingerprint))
    BY <2>2 DEF Accept, ConnectRefused, Connected, Connect, Handshake
  <2> QED BY <1>3, <2>1, <2>2 DEF Peer
<1>4. CASE HandOn \/ Ask \/ Shutdown \/ UNCHANGED vars
  BY <1>4 DEF HandOn, Ask, Shutdown, StopAccepting, EndRuntime, vars
<1> QED BY <1>1, <1>2, <1>3, <1>4 DEF Next

\* What an event tells stays true: upstream traffic is only added to, and a
\* connection that was taken apart keeps its target.
LEMMA TellsKept ==
    ASSUME HttpProxyTypeOK, [Next]_vars, NEW e \in Event, Tells(e)
    PROVE  Tells(e)'
<1>1. upstream \subseteq upstream'
  <2>1. ASSUME NEW c \in Client, Forward(c)
        PROVE  upstream \subseteq upstream'
    BY <2>1 DEF Forward
  <2>2. ASSUME \/ \E c \in Client :
                    \/ Task(c) \/ Accept(c) \/ Disconnect(c) \/ Fail(c)
                    \/ ConnectRefused(c) \/ Connected(c) \/ ResponseRead(c)
                    \/ \E host \in Host : Connect(c, host)
                    \/ \E fingerprint \in Fingerprint \cup {None} :
                          Handshake(c, fingerprint)
                    \/ \E request \in Request : Send(c, request)
                    \/ \E switching \in BOOLEAN : UpstreamAnswers(c, switching)
               \/ HandOn \/ Ask \/ Shutdown \/ UNCHANGED vars
        PROVE  UNCHANGED upstream
    BY <2>2
    DEF Task, TakeId, SendEvent, Reply, Accept, Disconnect, Fail,
        ConnectRefused, Connected, ResponseRead, Connect, Handshake, Send,
        UpstreamAnswers, HandOn, Ask, Shutdown, StopAccepting, EndRuntime,
        vars, aux
  <2> QED BY <2>1, <2>2 DEF Next, Peer
<1>2. e.client \in Client
  BY DEF Event
<1>3. e.ja4 # None =>
        /\ target'[e.client] \in Host \ Passthrough
        /\ link'[e.client] \in {"inspected", "tunnel", "closed"}
  BY <1>2, LinkSettled DEF Tells
<1> QED BY <1>1, <1>3 DEF Tells

\* A request is forwarded, answered and recorded over the connection it came
\* on as that connection was when it came.
LEMMA UpstreamKnownStep ==
    ASSUME HttpProxyTypeOK, LinksAgree, UpstreamAgrees, [Next]_vars,
           NEW c \in Client
    PROVE  UpstreamKnown(c)'
<1>1. UpstreamKnown(c) /\ exchange[c] \in Exchange /\ DOMAIN exchange = Client
  BY DEF UpstreamAgrees, UpstreamKnown, Sent, HttpProxyTypeOK
<1>2. Busy(c) => Serving(c)
  BY DEF LinksAgree
<1>3. ASSUME Sent(c), UNCHANGED <<link, target>>, upstream \subseteq upstream',
             exchange'[c].number = exchange[c].number,
             exchange'[c].request = exchange[c].request
      PROVE  UpstreamKnown(c)'
  BY <1>1, <1>3 DEF UpstreamKnown, HostOf, SchemeOf, Outgoing
<1>4. ASSUME exchange'[c].stage \in {"idle", "body"}
      PROVE  UpstreamKnown(c)'
  BY <1>4 DEF UpstreamKnown, Sent, Running
<1>5. ASSUME link'[c] = link[c], target'[c] = target[c],
             exchange'[c] = exchange[c], upstream \subseteq upstream'
      PROVE  UpstreamKnown(c)'
  BY <1>1, <1>5 DEF UpstreamKnown, Sent, HostOf, SchemeOf, Outgoing
<1>6. CASE Forward(c)
  <2>1. /\ exchange'[c].number = exchange[c].number
        /\ exchange'[c].request = exchange[c].request
    BY <1>6, ExchangeGoesOn DEF Forward, Busy, In
  <2>2. UNCHANGED <<link, target>>
    BY <1>6 DEF Forward
  <2> QED
    BY <1>6, <2>1, <2>2
    DEF Forward, UpstreamKnown, HostOf, SchemeOf, Outgoing
<1>7. CASE ResponseRead(c) \/ SendEvent(c)
  <2>1. /\ exchange'[c].number = exchange[c].number
        /\ exchange'[c].request = exchange[c].request
    BY <1>7, ExchangeGoesOn DEF ResponseRead, SendEvent, Busy, In
  <2>2. UNCHANGED <<link, target, upstream>> /\ Sent(c)
    BY <1>7 DEF ResponseRead, SendEvent, Sent, Running, In, aux
  <2> QED BY <1>3, <2>1, <2>2
<1>8. CASE \/ TakeId(c)
           \/ \E switching \in BOOLEAN : UpstreamAnswers(c, switching)
  <2>1. /\ exchange'[c].number = exchange[c].number
        /\ exchange'[c].request = exchange[c].request
    BY <1>1, <1>8 DEF TakeId, UpstreamAnswers
  <2>2. UNCHANGED <<link, target, upstream>> /\ Sent(c)
    BY <1>8 DEF TakeId, UpstreamAnswers, Sent, Running, In, aux
  <2> QED BY <1>3, <2>1, <2>2
<1>9. CASE \/ Reply(c) \/ Fail(c) \/ Disconnect(c) \/ EndRuntime
           \/ \E request \in Request : Send(c, request)
  BY <1>1, <1>4, <1>9 DEF Reply, Fail, Disconnect, EndRuntime, Send, Nothing
<1>10. CASE \/ Accept(c) \/ ConnectRefused(c) \/ Connected(c)
            \/ \E host \in Host : Connect(c, host)
            \/ \E fingerprint \in Fingerprint \cup {None} :
                  Handshake(c, fingerprint)
  <2>1. ~Busy(c)
    BY <1>2, <1>10
    DEF Serving, Busy, Accept, ConnectRefused, Connected, Connect, Handshake
  <2>2. UNCHANGED exchange
    BY <1>10 DEF Accept, ConnectRefused, Connected, Connect, Handshake
  <2> QED BY <1>4, <2>1, <2>2 DEF Busy, In
<1>11. ASSUME NEW d \in Client, d # c, Task(d) \/ Peer(d)
       PROVE  UpstreamKnown(c)'
  <2>1. CASE Forward(d)
    BY <1>5, <1>11, <2>1, OthersKeep DEF Forward
  <2>2. CASE ~Forward(d)
    <3>1. UNCHANGED upstream
      BY <1>11, <2>2
      DEF Task, Peer, TakeId, SendEvent, Reply, Accept, Disconnect, Fail,
          ConnectRefused, Connected, ResponseRead, Connect, Handshake, Send,
          UpstreamAnswers, aux
    <3> QED BY <1>5, <1>11, <3>1, OthersKeep
  <2> QED BY <2>1, <2>2
<1>12. CASE HandOn \/ Ask \/ StopAccepting \/ UNCHANGED vars
  <2>1. UNCHANGED <<link, target, exchange, upstream>>
    BY <1>12 DEF HandOn, Ask, StopAccepting, vars, aux
  <2> QED BY <1>5, <2>1
<1> QED
  BY <1>6, <1>7, <1>8, <1>9, <1>10, <1>11, <1>12
  DEF Next, Task, Peer, Shutdown

LEMMA UpstreamStep ==
    ASSUME HttpProxyTypeOK, LinksAgree, UpstreamAgrees,
           EventsTellWhatWentUpstream, [Next]_vars
    PROVE  UpstreamAgrees' /\ EventsTellWhatWentUpstream'
<1>1. \A c \in Client : UpstreamKnown(c)'
  BY UpstreamKnownStep
<1>2. \A i \in DOMAIN Events : Tells(Events[i])
  BY DEF UpstreamAgrees, EventsTellWhatWentUpstream, Tells
<1>3. ASSUME NEW i \in DOMAIN Events', NEW e \in Event, Events'[i] = e, Tells(e)
      PROVE  Tells(Events[i])'
  <2>1. Tells(e)'
    BY <1>3, TellsKept
  <2> QED BY <1>3, <2>1 DEF Tells
<1>4. \A i \in DOMAIN Events' : Tells(Events[i])'
  <2>1. ASSUME NEW i \in DOMAIN Events', i \in DOMAIN Events,
               Events'[i] = Events[i]
        PROVE  Tells(Events[i])'
    BY <1>2, <1>3, <2>1, EventsTyped
  <2>2. ASSUME NEW c \in Client, SendEvent(c), NEW i \in DOMAIN Events'
        PROVE  Tells(Events[i])'
    <3>1. Info(c) \in Event /\ Tells(Info(c))
      BY <2>2, InfoTyped, InfoTells DEF SendEvent
    <3>2. \/ i \in DOMAIN Events /\ Events'[i] = Events[i]
          \/ Events'[i] = Info(c)
      BY <2>2, EventSent, EventsTyped
    <3> QED BY <1>3, <2>1, <3>1, <3>2
  <2>3. ASSUME \A c \in Client : ~SendEvent(c)
        PROVE  Events' = Events
    <3>1. CASE HandOn
      BY <3>1, EventsHandedOn
    <3>2. CASE ~HandOn
      <4>1. UNCHANGED <<channel, handed>>
        BY <2>3, <3>2
        DEF Next, Task, Peer, TakeId, Reply, Accept, Disconnect, Fail,
            ConnectRefused, Connected, ResponseRead, Connect, Handshake, Send,
            Forward, UpstreamAnswers, Ask, Shutdown, StopAccepting,
            EndRuntime, vars
      <4> QED BY <4>1, EventsKept
    <3> QED BY <3>1, <3>2
  <2> QED BY <2>1, <2>2, <2>3
<1> QED
  BY <1>1, <1>4
  DEF UpstreamAgrees, EventsTellWhatWentUpstream, Tells, UpstreamKnown, Sent

\* Every behaviour of the proxy keeps its invariant.
THEOREM ProxyInvariant == Spec => []ProxyInv
<1>1. Init => ProxyInv
  <2> SUFFICES ASSUME Init PROVE ProxyInv
    OBVIOUS
  <2>1. Events = <<>> /\ DOMAIN Events = {}
    BY DEF Init, Events
  <2>2. HttpProxyTypeOK
    BY HttpProxyAssumption DEF Init, HttpProxyTypeOK, Exchange
  <2>3. \A c \in Client : exchange[c].stage = "idle"
    BY DEF Init, Nothing
  <2>4. LinksAgree
    BY <2>3 DEF Init, LinksAgree, Busy, In
  <2>5. ExchangesAgree
    BY <2>1, <2>3
    DEF ExchangesAgree, ExchangesDiffer, ExchangeKnown, Busy, In
  <2>6. UpstreamAgrees /\ EventsTellWhatWentUpstream
    BY <2>1, <2>3 DEF UpstreamAgrees, EventsTellWhatWentUpstream, Running
  <2> QED BY <2>2, <2>4, <2>5, <2>6 DEF ProxyInv
<1>2. ProxyInv /\ [Next]_vars => ProxyInv'
  BY TypeStep, LinksStep, ExchangesStep, UpstreamStep DEF ProxyInv
<1> QED BY <1>1, <1>2, PTL DEF Spec

\* An event tells where its exchange really went, and no credential in clear.
THEOREM EventsAreTrue == Spec => []EventsTellWhatWentUpstream
BY ProxyInvariant, PTL DEF ProxyInv

-----------------------------------------------------------------------------
(***************************************************************************)
(* The proxy implements ExchangeLog.                                       *)
(***************************************************************************)
LEMMA LogStep ==
    ASSUME ProxyInv, [Next]_vars
    PROVE  [Log!NextLog]_(Log!logVars)
<1> USE DEF ProxyInv
<1>1. ASSUME NEW c \in Client, SendEvent(c)
      PROVE  Log!NextLog
  <2> DEFINE last == Len(Events) + 1
  <2>1. Info(c) \in Event
    BY <1>1, InfoTyped DEF SendEvent
  <2>2. Events' = Append(Events, Info(c)) /\ last \in DOMAIN Events'
        /\ Events'[last] = Info(c)
    BY <1>1, <2>1, EventsAppended, EventSent, EventsTyped
  <2>3. \A i \in DOMAIN Events : Log!Follows(Info(c), Events[i])
    <3> SUFFICES ASSUME NEW i \in DOMAIN Events
                 PROVE  Log!Follows(Info(c), Events[i])
      OBVIOUS
    <3>1. NotYetIn(c, Events[i])
      BY DEF ExchangesAgree
    <3>2. /\ Info(c).id = exchange[c].id /\ Info(c).client = c
          /\ Info(c).number = exchange[c].number
      BY DEF Info
    <3>3. /\ Info(c).id \in Nat /\ Info(c).number \in Nat
          /\ Events[i].id \in Nat /\ Events[i].number \in Nat
      BY <2>1, EventsTyped DEF Event
    <3> QED
      BY <1>1, <3>1, <3>2, <3>3 DEF NotYetIn, Log!Follows, SendEvent, Busy, In
  <2>4. Len(handed)' = Len(handed) /\ answered' = answered
    BY <1>1 DEF SendEvent, aux
  <2>5. Log!Record(Events'[last])
    BY <2>2, <2>3, <2>4 DEF Log!Record
  <2> QED BY <2>2, <2>5 DEF Log!NextLog
<1>2. CASE HandOn
  <2>1. answered' = answered
    BY <1>2 DEF HandOn, aux
  <2> QED BY <1>2, <2>1, EventsHandedOn DEF Log!NextLog, Log!Deliver
<1>3. ASSUME NEW c \in Client, Reply(c)
      PROVE  Log!NextLog
  <2> DEFINE number == exchange[c].number
  <2>1. number \notin answered /\ Recorded(number)
    BY <1>3 DEF Reply, ExchangesAgree, ExchangeKnown, Busy, In
  <2>2. answered' = answered \cup {number} /\ UNCHANGED <<channel, handed>>
    BY <1>3 DEF Reply
  <2>3. Log!Answer(number)
    BY <2>1, <2>2, EventsKept DEF Log!Answer, Recorded
  <2> QED BY <2>2, <2>3 DEF Log!NextLog
<1>4. ASSUME UNCHANGED <<channel, handed, answered>>
      PROVE  UNCHANGED Log!logVars
  BY <1>4, EventsKept DEF Log!logVars
<1>5. ASSUME ~HandOn, \A c \in Client : ~SendEvent(c) /\ ~Reply(c)
      PROVE  UNCHANGED <<channel, handed, answered>>
  BY <1>5
  DEF Next, Task, Peer, TakeId, Accept, Disconnect, Fail, ConnectRefused,
      Connected, ResponseRead, Connect, Handshake, Send, Forward,
      UpstreamAnswers, Ask, Shutdown, StopAccepting, EndRuntime, vars, aux
<1> QED BY <1>1, <1>2, <1>3, <1>4, <1>5

\* The proxy keeps the promise of ExchangeLog: ids and numbers identify
\* records, nobody is answered unrecorded, and the worker gets every record
\* in the order it was made.
THEOREM LogPromiseKept == Spec => LogPromise
<1>1. Init => Log!InitLog
  BY DEF Init, Log!InitLog, Events
<1>2. ProxyInv /\ [Next]_vars => [Log!NextLog]_(Log!logVars)
  BY LogStep
<1> QED
  BY <1>1, <1>2, ProxyInvariant, PTL DEF Spec, LogPromise, Log!SpecLog

-----------------------------------------------------------------------------
(***************************************************************************)
(* The proxy implements ProxyFeed, the worker's view of it.                *)
(***************************************************************************)
Announcements == [i \in DOMAIN Events |-> Announced(Events[i])]

\* What was announced is a sequence, and one event adds one announcement.
LEMMA AnnouncedSequence ==
    ASSUME HttpProxyTypeOK
    PROVE  /\ Announcements \in Seq([id : Nat, client : Client])
           /\ Len(Announcements) = Len(Events)
<1>1. \A i \in 1 .. Len(Events) :
         Announced(Events[i]) \in [id : Nat, client : Client]
  BY EventsTyped DEF Announced
<1>2. Announcements = [i \in 1 .. Len(Events) |-> Announced(Events[i])]
  BY EventsTyped DEF Announcements
<1> QED BY <1>1, <1>2, EventsTyped, IsASeq

LEMMA AnnouncementSent ==
    ASSUME ProxyInv, NEW c \in Client, SendEvent(c)
    PROVE  Announcements' = Append(Announcements, Announced(Info(c)))
<1> USE DEF ProxyInv
<1> DEFINE S == [id : Nat, client : Client]
           last == Len(Events) + 1
           longer == Append(Announcements, Announced(Info(c)))
<1>1. /\ Announcements \in Seq(S) /\ Len(Announcements) = Len(Events)
      /\ Len(Events) \in Nat /\ DOMAIN Events = 1 .. Len(Events)
  BY AnnouncedSequence, EventsTyped
<1>2. Info(c) \in Event
  BY <1>1, InfoTyped DEF SendEvent
<1>3. Announced(Info(c)) \in S
  BY <1>2 DEF Event, Announced
<1>4. /\ longer \in Seq(S) /\ Len(longer) = last
      /\ \A i \in 1 .. Len(Events) : longer[i] = Announcements[i]
      /\ longer[last] = Announced(Info(c))
  BY <1>1, <1>3, AppendProperties
<1>5. \A i \in 1 .. Len(Events) : Announcements[i] = Announced(Events[i])
  BY <1>1 DEF Announcements
<1>6. Announcements' = [i \in 1 .. last |-> Announced(Events'[i])]
  BY EventSent DEF Announcements, Announced
<1>7. \A i \in 1 .. last : Announced(Events'[i]) = longer[i]
  <2> SUFFICES ASSUME NEW i \in 1 .. last
               PROVE  Announced(Events'[i]) = longer[i]
    OBVIOUS
  <2>1. CASE i = last
    BY <1>4, <2>1, EventSent
  <2>2. CASE i \in 1 .. Len(Events)
    <3>1. i \in DOMAIN Events
      BY <1>1, <2>2
    <3>2. Events'[i] = Events[i]
      BY <3>1, EventSent
    <3>3. longer[i] = Announcements[i] /\ Announcements[i] = Announced(Events[i])
      BY <1>4, <1>5, <2>2
    <3> QED BY <3>2, <3>3
  <2> QED BY <1>1, <2>1, <2>2
<1>8. longer = [i \in 1 .. last |-> longer[i]]
  BY <1>4, LenProperties
<1>9. Announcements' = longer
  <2> HIDE DEF longer, last
  <2>1. [i \in 1 .. last |-> Announced(Events'[i])]
           = [i \in 1 .. last |-> longer[i]]
    BY <1>7
  <2> QED BY <1>6, <1>8, <2>1
<1> QED BY <1>9

\* Only TakeId and SendEvent begin and end what is to be announced.
LEMMA ToAnnounceKept ==
    ASSUME \A c \in Client : /\ In(c, "send")' <=> In(c, "send")
                             /\ In(c, "send") => exchange'[c].id = exchange[c].id
    PROVE  ToAnnounce' = ToAnnounce
BY DEF ToAnnounce

LEMMA FeedStep ==
    ASSUME ProxyInv, [Next]_vars
    PROVE  [Feed!NextProxyFeed]_(Feed!proxyFeedVars)
<1> USE DEF ProxyInv
<1>1. exchange \in [Client -> Exchange]
  BY DEF HttpProxyTypeOK
<1>2. ASSUME NEW c \in Client, TakeId(c)
      PROVE  Feed!NextProxyFeed
  <2>1. /\ ~In(c, "send") /\ In(c, "send")' /\ exchange'[c].id = next_id
        /\ \A d \in Client \ {c} : exchange'[d] = exchange[d]
        /\ next_id' = next_id + 1
    BY <1>1, <1>2 DEF TakeId, In
  <2>2. ToAnnounce' = ToAnnounce \cup {[id |-> next_id, client |-> c]}
    BY <2>1 DEF ToAnnounce, In
  <2>3. Announcements' = Announcements
    BY <1>2, EventsKept DEF TakeId, Announcements, Announced
  <2>4. Feed!Take(c)
    BY <2>1, <2>2, <2>3 DEF Feed!Take, Announcements
  <2> QED BY <2>4 DEF Feed!NextProxyFeed
<1>3. ASSUME NEW c \in Client, SendEvent(c)
      PROVE  Feed!NextProxyFeed
  <2>1. /\ In(c, "send") /\ ~In(c, "send")'
        /\ \A d \in Client \ {c} : exchange'[d] = exchange[d]
        /\ next_id' = next_id
    BY <1>1, <1>3 DEF SendEvent, Go, In
  <2>2. Announced(Info(c)) = [id |-> exchange[c].id, client |-> c]
    BY DEF Announced, Info
  <2>3. Announced(Info(c)) \in ToAnnounce
    BY <2>1, <2>2 DEF ToAnnounce
  <2>4. ToAnnounce' = ToAnnounce \ {Announced(Info(c))}
    BY <2>1, <2>2 DEF ToAnnounce, In
  <2>5. Announcements' = Append(Announcements, Announced(Info(c)))
    BY <1>3, AnnouncementSent
  <2>6. Feed!Deliver(Announced(Info(c)))
    BY <2>1, <2>3, <2>4, <2>5 DEF Feed!Deliver, Announcements
  <2> QED BY <2>3, <2>6 DEF Feed!NextProxyFeed
<1>4. ASSUME \A c \in Client : ~TakeId(c) /\ ~SendEvent(c)
      PROVE  UNCHANGED Feed!proxyFeedVars
  <2>1. next_id' = next_id
    BY <1>4 DEF Next, Task, Peer, Accept, Disconnect, Fail, ConnectRefused,
       Connected, ResponseRead, Connect, Handshake, Send, Forward,
       UpstreamAnswers, Reply, HandOn, Ask, Shutdown, StopAccepting,
       EndRuntime, vars
  <2>2. Events' = Events
    BY <1>4, EventsKept, EventsHandedOn
    DEF Next, Task, Peer, Accept, Disconnect, Fail, ConnectRefused,
        Connected, ResponseRead, Connect, Handshake, Send, Forward,
        UpstreamAnswers, Reply, Ask, Shutdown, StopAccepting, EndRuntime, vars
  <2>3. \A c \in Client : /\ In(c, "send")' <=> In(c, "send")
                          /\ In(c, "send") => exchange'[c].id = exchange[c].id
    <3> SUFFICES ASSUME NEW c \in Client
                 PROVE  /\ In(c, "send")' <=> In(c, "send")
                        /\ In(c, "send") => exchange'[c].id = exchange[c].id
      OBVIOUS
    <3>1. ASSUME NEW d \in Client, Peer(d) \/ Reply(d)
          PROVE  /\ \/ ~In(d, "send") /\ ~In(d, "send")'
                    \/ exchange'[d] = exchange[d]
                 /\ \A e \in Client \ {d} : exchange'[e] = exchange[e]
      <4>1. CASE Fail(d) \/ Reply(d) \/ Disconnect(d)
        <5>1. ~In(d, "send")
          BY <4>1 DEF Fail, Reply, Disconnect, In, Waiting, Running
        <5>2. exchange' = [exchange EXCEPT ![d] = Nothing]
          BY <4>1 DEF Fail, Reply, Disconnect
        <5> QED BY <1>1, <5>1, <5>2 DEF In, Nothing
      <4>2. ASSUME NEW request \in Request, Send(d, request)
            PROVE  /\ ~In(d, "send") /\ ~In(d, "send")'
                   /\ \A e \in Client \ {d} : exchange'[e] = exchange[e]
        BY <1>1, <4>2 DEF Send, In
      <4>3. CASE Forward(d) \/ ResponseRead(d)
        <5>1. \/ In(d, "body") /\ Go(d, "upstream")
              \/ In(d, "response") /\ Go(d, "record")
          BY <4>3 DEF Forward, ResponseRead
        <5> QED BY <5>1, ExchangeGoesOn DEF Busy, In
      <4>4. ASSUME NEW switching \in BOOLEAN, UpstreamAnswers(d, switching)
            PROVE  /\ ~In(d, "send") /\ ~In(d, "send")'
                   /\ \A e \in Client \ {d} : exchange'[e] = exchange[e]
        BY <1>1, <4>4 DEF UpstreamAnswers, In
      <4>5. CASE UNCHANGED exchange
        BY <4>5
      <4> QED BY <3>1, <4>1, <4>2, <4>3, <4>4, <4>5
          DEF Peer, Accept, ConnectRefused, Connected, Connect, Handshake
    <3>2. CASE \E d \in Client : Peer(d) \/ Reply(d)
      BY <3>1, <3>2 DEF In
    <3>3. CASE EndRuntime
      BY <1>1, <3>3 DEF EndRuntime, In, Nothing, Running
    <3>4. CASE UNCHANGED exchange
      BY <3>4 DEF In
    <3> QED BY <1>4, <3>2, <3>3, <3>4
        DEF Next, Task, HandOn, Ask, Shutdown, StopAccepting, vars
  <2>4. ToAnnounce' = ToAnnounce
    BY <2>3, ToAnnounceKept
  <2>5. Announcements' = Announcements
    BY <2>2 DEF Announcements, Announced
  <2> QED BY <2>1, <2>4, <2>5 DEF Feed!proxyFeedVars, Announcements
<1> QED BY <1>2, <1>3, <1>4

\* To the worker the proxy is no more than ProxyFeed: the actions Monitor has
\* for it, written with the same definitions, allow whatever HttpProxy does.
THEOREM WorkerIsFed == Spec => FeedsTheWorker
<1>1. Init => Feed!InitProxyFeed
  <2> SUFFICES ASSUME Init PROVE Feed!InitProxyFeed
    OBVIOUS
  <2>1. Events = <<>>
    BY DEF Init, Events
  <2>2. ToAnnounce = {}
    BY DEF Init, ToAnnounce, In, Nothing
  <2>3. [i \in DOMAIN Events |-> Announced(Events[i])] = <<>>
    BY <2>1
  <2> QED BY <2>2, <2>3 DEF Init, Feed!InitProxyFeed
<1>2. ProxyInv /\ [Next]_vars => [Feed!NextProxyFeed]_(Feed!proxyFeedVars)
  BY FeedStep
<1> QED
  BY <1>1, <1>2, ProxyInvariant, PTL
  DEF Spec, FeedsTheWorker, Feed!SpecProxyFeed
=============================================================================
