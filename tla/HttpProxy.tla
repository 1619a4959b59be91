----------------------------- MODULE HttpProxy -----------------------------
(***************************************************************************)
(* The HTTP(S) proxy of apppw-proxy and the loop of ProxyWorker that hands *)
(* its events to the worker.  Every client connection is served by a task  *)
(* of its own on a thread pool; a connection's requests come one after the *)
(* other.  A task can be dropped wherever it awaits, because its client    *)
(* has gone or the proxy's runtime ends, and nowhere else.                 *)
(***************************************************************************)
EXTENDS Naturals, Sequences

CONSTANTS
    None,
    Client,       \* client connections
    Host,         \* targets
    Passthrough,  \* the hosts of requires_tls_passthrough
    Fingerprint,  \* JA4 values that can be computed
    Inspecting,   \* whether a certificate authority is set
    Request,      \* requests a client may send
    MaxRequests   \* bound of a run: requests sent

Sensitive == {"authorization", "proxy-authorization", "cookie", "set-cookie"}
Header == Sensitive \cup {"proxy-connection", "accept"}

\* A request as it arrives: the scheme and authority of its URI, its Host
\* header, whether is_upgrade_request holds, and its headers' names.
ASSUME HttpProxyAssumption ==
    /\ None \notin Host \cup Fingerprint
    /\ Passthrough \subseteq Host
    /\ Inspecting \in BOOLEAN
    /\ Request \subseteq [scheme : {"http", "https", None},
                          authority : Host \cup {None},
                          host_header : Host \cup {None},
                          upgrade : BOOLEAN,
                          headers : SUBSET Header]
    /\ MaxRequests \in Nat

VARIABLES
    link,      \* per client: "none", "open", "connecting" (to a passthrough
               \* target), "upgrading", "inspected", "tunnel" or "closed"
    target,    \* the authority of the client's CONNECT
    ja4,       \* the fingerprint of its ClientHello
    exchange,  \* the request its task is busy with
    next_id,   \* ProxyRuntime.next_id
    channel,   \* proxy_events: sent, not yet handed on
    handed,    \* events handed on to the worker
    stopping,  \* "no", "asked", "stopped" or "ended"
    \* auxiliary
    count,     \* requests sent by clients; numbers the exchanges
    upstream,  \* what upstream servers were sent, by exchange
    answered   \* exchanges whose client was given the upstream's response

aux == <<count, upstream, answered>>
vars == <<link, target, ja4, exchange, next_id, channel, handed, stopping, aux>>

Nothing == [stage |-> "idle"]

\* Where forward awaits, and where it does not.
Waiting == {"body", "upstream", "response"}
Running == {"record", "send", "reply"}

Serving(c) == link[c] \in {"open", "inspected"}

In(c, stage) == exchange[c].stage = stage

Go(c, stage) == exchange' = [exchange EXCEPT ![c].stage = stage]

\* Mutant: only the headers that are forwarded are thought of.
RedactedForwarded(headers) ==
    [h \in headers |-> IF h \in Sensitive \ {"proxy-authorization"}
                         THEN "[REDACTED]" ELSE "value"]

\* redact_headers
Redacted(headers) ==
    [h \in headers |-> IF h \in Sensitive THEN "[REDACTED]" ELSE "value"]

-----------------------------------------------------------------------------
Accept(c) ==
    /\ stopping \in {"no", "asked"}
    /\ link[c] = "none"
    /\ link' = [link EXCEPT ![c] = "open"]
    /\ UNCHANGED <<target, ja4, exchange, next_id, channel, handed, stopping,
                   aux>>

\* handle_connect: the target is inspected or connected to.
Connect(c, host) ==
    /\ link[c] = "open" /\ In(c, "idle")
    /\ target' = [target EXCEPT ![c] = host]
    /\ link' = [link EXCEPT ![c] =
                  IF Inspecting /\ host \notin Passthrough
                    THEN "upgrading" ELSE "connecting"]
    /\ UNCHANGED <<ja4, exchange, next_id, channel, handed, stopping, aux>>

\* No certificate can be made, or the target is not reached: an error is the
\* response, and the client may go on.
ConnectRefused(c) ==
    /\ link[c] \in {"upgrading", "connecting"}
    /\ link' = [link EXCEPT ![c] = "open"]
    /\ target' = [target EXCEPT ![c] = None]
    /\ UNCHANGED <<ja4, exchange, next_id, channel, handed, stopping, aux>>

\* The passthrough target is reached; its bytes are copied both ways.
Connected(c) ==
    /\ link[c] = "connecting"
    /\ link' = [link EXCEPT ![c] = "tunnel"]
    /\ UNCHANGED <<target, ja4, exchange, next_id, channel, handed, stopping,
                   aux>>

\* The client's ClientHello is read and the TLS handshake done.
Handshake(c, fingerprint) ==
    /\ link[c] = "upgrading"
    /\ link' = [link EXCEPT ![c] = "inspected"]
    /\ ja4' = [ja4 EXCEPT ![c] = fingerprint]
    /\ UNCHANGED <<target, exchange, next_id, channel, handed, stopping, aux>>

-----------------------------------------------------------------------------
(***************************************************************************)
(* ProxyRuntime::forward.                                                  *)
(***************************************************************************)
Send(c, request) ==
    /\ Serving(c) /\ In(c, "idle")
    /\ count < MaxRequests
    /\ count' = count + 1
    /\ exchange' = [exchange EXCEPT ![c] =
                      [stage |-> "body", number |-> count', request |-> request]]
    /\ UNCHANGED <<link, target, ja4, next_id, channel, handed, stopping,
                   upstream, answered>>

\* The URI's authority, else the Host header, else the CONNECT's target.
HostOf(c, request) ==
    IF request.authority # None THEN request.authority
    ELSE IF request.host_header # None THEN request.host_header
    ELSE target[c]

SchemeOf(c, request) ==
    IF link[c] = "inspected" THEN "https"
    ELSE IF request.scheme # None THEN request.scheme ELSE "http"

\* Any `?' on the way: error_response, and no event.
Fail(c) ==
    /\ exchange[c].stage \in Waiting
    /\ exchange' = [exchange EXCEPT ![c] = Nothing]
    /\ UNCHANGED <<link, target, ja4, next_id, channel, handed, stopping, aux>>

\* What is sent upstream: without the proxy's own headers.
Outgoing(c, request) ==
    [number |-> exchange[c].number, client |-> c,
     scheme |-> SchemeOf(c, request), host |-> HostOf(c, request),
     headers |-> request.headers \ {"proxy-authorization", "proxy-connection"}]

\* The request's body is there and its host is known.
Forward(c) ==
    /\ In(c, "body")
    /\ HostOf(c, exchange[c].request) # None
    /\ upstream' = upstream \cup {Outgoing(c, exchange[c].request)}
    /\ Go(c, "upstream")
    /\ UNCHANGED <<link, target, ja4, next_id, channel, handed, stopping,
                   count, answered>>

\* The upstream's status line: a switch of protocols the client asked for has
\* no body to wait for.
UpstreamAnswers(c, switching) ==
    LET tunnel == switching /\ exchange[c].request.upgrade IN
    /\ In(c, "upstream")
    /\ exchange' = [exchange EXCEPT
                      ![c] = [stage |-> IF tunnel THEN "record" ELSE "response",
                              number |-> @.number, request |-> @.request,
                              tunnel |-> tunnel]]
    /\ UNCHANGED <<link, target, ja4, next_id, channel, handed, stopping, aux>>

ResponseRead(c) ==
    /\ In(c, "response")
    /\ Go(c, "record")
    /\ UNCHANGED <<link, target, ja4, next_id, channel, handed, stopping, aux>>

\* Mutant: the counter is read here and written back with the event.
TakeIdRead(c) ==
    /\ In(c, "record")
    /\ exchange' = [exchange EXCEPT
                      ![c] = [stage |-> "send", number |-> @.number,
                              request |-> @.request, tunnel |-> @.tunnel,
                              id |-> next_id]]
    /\ UNCHANGED <<link, target, ja4, next_id, channel, handed, stopping, aux>>

\* next_id.fetch_add
TakeId(c) ==
    /\ In(c, "record")
    /\ exchange' = [exchange EXCEPT
                      ![c] = [stage |-> "send", number |-> @.number,
                              request |-> @.request, tunnel |-> @.tunnel,
                              id |-> next_id]]
    /\ next_id' = next_id + 1
    /\ UNCHANGED <<link, target, ja4, channel, handed, stopping, aux>>

\* The HttpRequestInfo of the exchange.
Info(c) ==
    LET request == exchange[c].request IN
    [id |-> exchange[c].id, client |-> c,
     scheme |-> SchemeOf(c, request), host |-> HostOf(c, request),
     headers |-> Redacted(request.headers), ja4 |-> ja4[c],
     number |-> exchange[c].number]

\* Mutant: an upgrade is not an exchange to record.
SendEventUnlessTunnel(c) ==
    /\ In(c, "send")
    /\ channel' = IF exchange[c].tunnel THEN channel
                                        ELSE Append(channel, Info(c))
    /\ Go(c, "reply")
    /\ UNCHANGED <<link, target, ja4, next_id, handed, stopping, aux>>

\* event_sender.send, between which and fetch_add others may send.
SendEvent(c) ==
    /\ In(c, "send")
    /\ channel' = Append(channel, Info(c))
    /\ Go(c, "reply")
    /\ UNCHANGED <<link, target, ja4, next_id, handed, stopping, aux>>

\* The upstream's response is returned; after a switch of protocols the
\* connection's bytes are copied both ways.
Reply(c) ==
    /\ In(c, "reply")
    /\ answered' = answered \cup {exchange[c].number}
    /\ link' = [link EXCEPT ![c] = IF exchange[c].tunnel THEN "tunnel" ELSE @]
    /\ exchange' = [exchange EXCEPT ![c] = Nothing]
    /\ UNCHANGED <<target, ja4, next_id, channel, handed, stopping, count,
                   upstream>>

-----------------------------------------------------------------------------
\* Mutant: a task is dropped wherever it is.
DisconnectAnywhere(c) ==
    /\ link[c] \notin {"none", "closed"}
    /\ link' = [link EXCEPT ![c] = "closed"]
    /\ exchange' = [exchange EXCEPT ![c] = Nothing]
    /\ UNCHANGED <<target, ja4, next_id, channel, handed, stopping, aux>>

\* The client goes, or a handshake or upgrade fails; the task is dropped
\* where it waits.
Disconnect(c) ==
    /\ link[c] \notin {"none", "closed"}
    /\ exchange[c].stage \notin Running
    /\ link' = [link EXCEPT ![c] = "closed"]
    /\ exchange' = [exchange EXCEPT ![c] = Nothing]
    /\ UNCHANGED <<target, ja4, next_id, channel, handed, stopping, aux>>

\* Mutant: the events waiting are taken together, and the last one kept.
HandOnLast ==
    /\ stopping = "no"
    /\ channel # <<>>
    /\ handed' = Append(handed, channel[Len(channel)])
    /\ channel' = <<>>
    /\ UNCHANGED <<link, target, ja4, exchange, next_id, stopping, aux>>

\* The loop of ProxyWorker.
HandOn ==
    /\ stopping = "no"
    /\ channel # <<>>
    /\ handed' = Append(handed, Head(channel))
    /\ channel' = Tail(channel)
    /\ UNCHANGED <<link, target, ja4, exchange, next_id, stopping, aux>>

\* ProxyWorker::drop; events that still wait are not handed on any more.
Ask ==
    /\ stopping = "no"
    /\ stopping' = "asked"
    /\ UNCHANGED <<link, target, ja4, exchange, next_id, channel, handed, aux>>

\* ProxyHandle::shutdown: the accept loop ends.
StopAccepting ==
    /\ stopping = "asked"
    /\ stopping' = "stopped"
    /\ UNCHANGED <<link, target, ja4, exchange, next_id, channel, handed, aux>>

\* Mutant: the runtime is kept until every connection is closed.
EndRuntimeIdle ==
    /\ stopping = "stopped"
    /\ \A c \in Client : link[c] \in {"none", "closed"}
    /\ stopping' = "ended"
    /\ UNCHANGED <<link, target, ja4, exchange, next_id, channel, handed, aux>>

\* block_on returns and the runtime is dropped: every task goes at the next
\* place where it waits.
EndRuntime ==
    /\ stopping = "stopped"
    /\ \A c \in Client : exchange[c].stage \notin Running
    /\ stopping' = "ended"
    /\ link' = [c \in Client |-> "closed"]
    /\ exchange' = [c \in Client |-> Nothing]
    /\ UNCHANGED <<target, ja4, next_id, channel, handed, aux>>

-----------------------------------------------------------------------------
Init ==
    /\ link = [c \in Client |-> "none"]
    /\ target = [c \in Client |-> None]
    /\ ja4 = [c \in Client |-> None]
    /\ exchange = [c \in Client |-> Nothing]
    /\ next_id = 1
    /\ channel = <<>> /\ handed = <<>>
    /\ stopping = "no"
    /\ count = 0 /\ upstream = {} /\ answered = {}

\* What the proxy's own threads do once they can.
Task(c) ==
    \/ TakeId(c) \/ SendEvent(c) \/ Reply(c)

\* What clients and upstream servers do, or fail to do.
Peer(c) ==
    \/ Accept(c) \/ Disconnect(c) \/ Fail(c)
    \/ \E host \in Host : Connect(c, host)
    \/ ConnectRefused(c) \/ Connected(c)
    \/ \E fingerprint \in Fingerprint \cup {None} : Handshake(c, fingerprint)
    \/ \E request \in Request : Send(c, request)
    \/ Forward(c)
    \/ \E switching \in BOOLEAN : UpstreamAnswers(c, switching)
    \/ ResponseRead(c)

Shutdown == StopAccepting \/ EndRuntime

Next ==
    \/ \E c \in Client : Task(c) \/ Peer(c)
    \/ HandOn \/ Ask \/ Shutdown

Spec == Init /\ [][Next]_vars

\* The runtime's threads go on; no peer owes anything, and nothing in the
\* proxy limits how long it waits for one.
FairSpec ==
    /\ Spec
    /\ \A c \in Client : WF_vars(Task(c))
    /\ WF_vars(HandOn) /\ WF_vars(Shutdown)

-----------------------------------------------------------------------------
\* Every event sent, in order.
Events == handed \o channel

\* The exchange a task is busy with, as far as it has come.
Exchange ==
    {Nothing}
    \cup [stage : {"body", "upstream"}, number : Nat, request : Request]
    \cup [stage : {"response", "record"}, number : Nat, request : Request,
          tunnel : BOOLEAN]
    \cup [stage : {"send", "reply"}, number : Nat, request : Request,
          tunnel : BOOLEAN, id : Nat]

\* An event, by what the properties tell apart.
Event ==
    [id : Nat, number : Nat, client : Client, scheme : {"http", "https"},
     host : Host, ja4 : Fingerprint \cup {None},
     headers : UNION {[names -> {"[REDACTED]", "value"}] :
                         names \in SUBSET Header}]

HttpProxyTypeOK ==
    /\ link \in [Client -> {"none", "open", "connecting", "upgrading",
                            "inspected", "tunnel", "closed"}]
    /\ target \in [Client -> Host \cup {None}]
    /\ ja4 \in [Client -> Fingerprint \cup {None}]
    /\ exchange \in [Client -> Exchange]
    /\ next_id \in Nat \ {0} /\ count \in 0 .. MaxRequests
    /\ channel \in Seq(Event) /\ handed \in Seq(Event)
    /\ stopping \in {"no", "asked", "stopped", "ended"}
    /\ answered \subseteq 1 .. count

Busy(c) == ~In(c, "idle")

Recorded(number) == \E i \in DOMAIN Events : Events[i].number = number

\* A connection keeps its state while a request of its is under way, and has
\* a target only once it was asked for; inspection is never of a passthrough
\* host.
LinksAgree ==
    \A c \in Client :
        /\ Busy(c) => Serving(c)
        /\ link[c] \in {"none", "open"} => target[c] = None
        /\ link[c] \in {"upgrading", "inspected"} =>
              target[c] \in Host \ Passthrough
        /\ ja4[c] # None =>
              /\ link[c] \in {"inspected", "tunnel", "closed"}
              /\ target[c] \in Host \ Passthrough

\* Exchanges under way have numbers of their own, and ids once they took them.
ExchangesDiffer(c, d) ==
    /\ Busy(c) /\ Busy(d) => exchange[c].number # exchange[d].number
    /\ In(c, "send") /\ In(d, "send") => exchange[c].id # exchange[d].id

\* The number and id of an exchange were given out, and it is not answered
\* before it ends; when it is about to be, it is recorded.
ExchangeKnown(c) ==
    /\ Busy(c) => exchange[c].number \in (1 .. count) \ answered
    /\ In(c, "send") => exchange[c].id < next_id
    /\ In(c, "reply") => Recorded(exchange[c].number)

\* Before it is recorded no event has its number or id, nor a later one of
\* its client's.
NotYetIn(c, event) ==
    /\ Busy(c) /\ ~In(c, "reply") =>
          /\ event.number # exchange[c].number
          /\ event.client = c => event.number < exchange[c].number
    /\ In(c, "send") =>
          /\ event.id # exchange[c].id
          /\ event.client = c => event.id < exchange[c].id

EventKnown(event) == event.id < next_id /\ event.number <= count

ExchangesAgree ==
    /\ \A c, d \in Client : c # d => ExchangesDiffer(c, d)
    /\ \A c \in Client : ExchangeKnown(c)
    /\ \A i \in DOMAIN Events :
          EventKnown(Events[i]) /\ \A c \in Client : NotYetIn(c, Events[i])

\* An exchange that has gone upstream went there as it will be recorded.
UpstreamAgrees ==
    /\ \A c \in Client :
          exchange[c].stage \in {"upstream", "response"} \cup Running =>
              /\ HostOf(c, exchange[c].request) # None
              /\ Outgoing(c, exchange[c].request) \in upstream
    /\ \A i \in DOMAIN Events : Events[i].ja4 # None =>
          link[Events[i].client] \in {"inspected", "tunnel", "closed"}

\* The events keep the promise of ExchangeLog: the worker stores requests
\* under their ids, so no two events share one although fetch_add and send of
\* several tasks interleave; the events of a connection come in the order of
\* its requests; the worker is handed every event in the order it was sent;
\* and no client has the response of an upstream that left no event, not
\* after an upgrade and not when failures and disconnects intervene.
Log == INSTANCE ExchangeLog
           WITH log <- Events, delivered <- Len(handed), answered <- answered

LogPromise == Log!SpecLog

\* To the worker the proxy is what Monitor takes it for: an exchange that took
\* an id leads to one event, though tasks fail, disconnect and are dropped in
\* between, and however their steps interleave.
Announced(event) == [id |-> event.id, client |-> event.client]

ToAnnounce ==
    {[id |-> exchange[c].id, client |-> c] : c \in {d \in Client : In(d, "send")}}

Feed == INSTANCE ProxyFeed
            WITH under_way <- ToAnnounce,
                 pending   <- [i \in DOMAIN Events |-> Announced(Events[i])]

FeedsTheWorker == Feed!SpecProxyFeed

\* An event names the scheme and host its exchange really went to and every
\* header that was sent there; credentials reach the upstream, except those
\* for the proxy, and none reaches the event.  A fingerprint in an event is
\* of a TLS connection the proxy took apart, never of a passthrough host's.
EventsTellWhatWentUpstream ==
    \A i \in DOMAIN Events : \E sent \in upstream :
        LET e == Events[i] IN
        /\ sent.number = e.number /\ sent.client = e.client
        /\ sent.scheme = e.scheme /\ sent.host = e.host
        /\ sent.headers \subseteq DOMAIN e.headers
        /\ sent.headers \cap {"proxy-authorization", "proxy-connection"} = {}
        /\ \A h \in DOMAIN e.headers \cap Sensitive :
              e.headers[h] = "[REDACTED]"
        /\ e.ja4 # None =>
              e.scheme = "https" /\ target[e.client] \in Host \ Passthrough

\* The proxy stops although clients and upstreams hold on to exchanges and
\* tunnels: the worker's join returns.
StopCompletes == stopping = "asked" ~> stopping = "ended"

\* A recorded exchange reaches the worker unless the proxy is stopped first.
RecordedHandedOn ==
    \A n \in 1 .. MaxRequests :
        n \in answered ~>
            \/ stopping # "no"
            \/ \E i \in DOMAIN handed : handed[i].number = n

\* The invariant the proofs rest on: whatever tasks are doing, connections,
\* exchanges, events and upstream traffic fit together.
ProxyInv ==
    /\ HttpProxyTypeOK
    /\ LinksAgree
    /\ ExchangesAgree
    /\ UpstreamAgrees
    /\ EventsTellWhatWentUpstream
=============================================================================
