----------------------------- MODULE Lifecycle -----------------------------
(***************************************************************************)
(* The threads of the program and how they start, fail and stop: the user  *)
(* interface, the runtime worker (run_components), the capture thread, the *)
(* proxy's thread and its accept task.  What travels between them is       *)
(* reduced to counts and to who reports what; Monitor has the contents.    *)
(***************************************************************************)
EXTENDS Naturals, Sequences

CONSTANTS
    CaptureStarts,    \* possible outcomes of PacketCapture::start
    ProxyStarts,      \* possible outcomes of ProxyWorker::start
    ProcessesListed,  \* possible outcomes of the first process listing
    CaptureMayFail,   \* whether WinDivert's recv can return an error
    AcceptMayFail,    \* whether accept can return an error
    WakeMayFail,      \* whether the datagram of CaptureHandle::drop can fail
    \* bounds of a run
    MaxSniffed,       \* packets the driver sees
    MaxAsked          \* relaunch and trust requests of the user

ASSUME LifecycleAssumption ==
    /\ CaptureStarts \subseteq BOOLEAN /\ CaptureStarts # {}
    /\ ProxyStarts \subseteq BOOLEAN /\ ProxyStarts # {}
    /\ ProcessesListed \subseteq BOOLEAN /\ ProcessesListed # {}
    /\ {CaptureMayFail, AcceptMayFail, WakeMayFail} \subseteq BOOLEAN
    /\ MaxSniffed \in Nat /\ MaxAsked \in Nat

VARIABLES
    ui,               \* "running", "closing" (Runtime::drop) or "closed"
    shutdown,         \* a message waits in the worker's shutdown channel
    reports,          \* Runtime.events: "warning" or "error"
    capture_error,    \* AppState.capture_error is set
    worker,           \* where run_components is
    asked, taken,     \* user requests sent to, and taken by, the worker
    answered,         \* user requests reported on
    capture,          \* the worker holds a CaptureHandle
    capture_thread,   \* "none", "receiving" or "ended"
    capture_stop,     \* CaptureHandle.shutdown
    driver,           \* packets WinDivert holds for the capture thread
    sniffed,          \* packets it has seen, counted to bound a run
    packets,          \* CaptureHandle.receiver
    proxy,            \* the worker holds a ProxyWorker
    proxy_thread,     \* "none", "starting", "serving", "stopping", "ended"
    proxy_started,    \* what waits in the `started' channel
    proxy_stop,       \* ProxyWorker.shutdown was sent
    accept            \* "none", "accepting", "failed" or "stopped"

uiVars == <<ui, shutdown, capture_error>>
actionVars == <<asked, taken, answered>>
captureVars == <<capture_thread, capture_stop, driver, sniffed, packets>>
proxyVars == <<proxy_thread, proxy_started, proxy_stop, accept>>
vars == <<uiVars, reports, worker, actionVars, capture, captureVars, proxy,
          proxyVars>>

Looping == {"top", "capture", "actions", "acting"}
Leaving == {"drop_proxy", "join_proxy", "drop_capture", "wake_capture",
            "join_capture", "done"}

Report(kind) == reports' = Append(reports, kind)

-----------------------------------------------------------------------------
(***************************************************************************)
(* Start                                                                   *)
(***************************************************************************)

\* Runtime::start: the first process listing may fail, which is an error like
\* a capture's; then the worker is spawned.
Init ==
    /\ ui = "running" /\ shutdown = FALSE /\ capture_error = FALSE
    /\ \E listed \in ProcessesListed :
          reports = IF listed THEN <<>> ELSE <<"error">>
    /\ worker = "start_capture"
    /\ asked = 0 /\ taken = 0 /\ answered = 0
    /\ capture = FALSE /\ capture_thread = "none" /\ capture_stop = FALSE
    /\ driver = 0 /\ sniffed = 0 /\ packets = 0
    /\ proxy = FALSE /\ proxy_thread = "none" /\ proxy_started = "nothing"
    /\ proxy_stop = FALSE /\ accept = "none"

\* PacketCapture::start, with its retry after a stale driver registration.
StartCapture(starts) ==
    /\ worker = "start_capture"
    /\ worker' = "start_proxy"
    /\ capture' = starts
    /\ capture_thread' = IF starts THEN "receiving" ELSE "none"
    /\ IF starts THEN UNCHANGED reports ELSE Report("error")
    /\ UNCHANGED <<uiVars, actionVars, capture_stop, driver, sniffed, packets,
                   proxy, proxyVars>>

\* ProxyWorker::start spawns the proxy's thread and waits for its message.
SpawnProxy ==
    /\ worker = "start_proxy"
    /\ worker' = "await_proxy"
    /\ proxy_thread' = "starting"
    /\ UNCHANGED <<uiVars, reports, actionVars, capture, captureVars, proxy,
                   proxy_started, proxy_stop, accept>>

\* Runtime, key, certificate and listener are set up in turn; the first that
\* fails ends the thread.
ProxyStartup(starts) ==
    /\ proxy_thread = "starting"
    /\ proxy_thread' = IF starts THEN "serving" ELSE "ended"
    /\ proxy_started' = IF starts THEN "address" ELSE "failure"
    /\ accept' = IF starts THEN "accepting" ELSE "none"
    /\ UNCHANGED <<uiVars, reports, worker, actionVars, capture, captureVars,
                   proxy, proxy_stop>>

\* Either way the user is told; the loop begins.
ProxyStarted ==
    /\ worker = "await_proxy"
    /\ proxy_started # "nothing"
    /\ worker' = "top"
    /\ proxy' = (proxy_started = "address")
    /\ proxy_started' = "nothing"
    /\ Report("warning")
    /\ UNCHANGED <<uiVars, actionVars, capture, captureVars, proxy_thread,
                   proxy_stop, accept>>

-----------------------------------------------------------------------------
(***************************************************************************)
(* The worker's loop.                                                      *)
(***************************************************************************)
CheckShutdown ==
    /\ worker = "top"
    /\ worker' = IF shutdown THEN "drop_proxy" ELSE "capture"
    /\ shutdown' = FALSE
    /\ UNCHANGED <<ui, capture_error, reports, actionVars, capture,
                   captureVars, proxy, proxyVars>>

TakePacket ==
    /\ worker = "capture"
    /\ packets > 0
    /\ packets' = packets - 1
    /\ worker' = "actions"
    /\ UNCHANGED <<uiVars, reports, actionVars, capture, capture_thread,
                   capture_stop, driver, sniffed, proxy, proxyVars>>

\* recv_timeout expires, or there is no capture and the worker sleeps.
NoPacket ==
    /\ worker = "capture"
    /\ capture => packets = 0 /\ capture_thread # "ended"
    /\ worker' = "actions"
    /\ UNCHANGED <<uiVars, reports, actionVars, capture, captureVars, proxy,
                   proxyVars>>

\* Disconnected: the sender is gone and the channel is empty.  The loop
\* breaks and nothing is reported.
CaptureGone ==
    /\ worker = "capture"
    /\ capture /\ packets = 0 /\ capture_thread = "ended"
    /\ worker' = "drop_proxy"
    /\ UNCHANGED <<uiVars, reports, actionVars, capture, captureVars, proxy,
                   proxyVars>>

\* Mutant: without a proxy a request is dropped.
RefuseActionSilently ==
    /\ worker = "actions"
    /\ taken < asked
    /\ ~proxy
    /\ taken' = taken + 1
    /\ UNCHANGED <<uiVars, reports, worker, asked, answered, capture,
                   captureVars, proxy, proxyVars>>

\* Without a proxy a request is answered with an error.
RefuseAction ==
    /\ worker = "actions"
    /\ taken < asked
    /\ ~proxy
    /\ taken' = taken + 1
    /\ answered' = answered + 1
    /\ Report("error")
    /\ UNCHANGED <<uiVars, worker, asked, capture, captureVars, proxy,
                   proxyVars>>

\* A relaunch or certutil runs on the worker's own thread.
BeginAction ==
    /\ worker = "actions"
    /\ taken < asked
    /\ proxy
    /\ taken' = taken + 1
    /\ worker' = "acting"
    /\ UNCHANGED <<uiVars, reports, asked, answered, capture, captureVars,
                   proxy, proxyVars>>

EndAction ==
    /\ worker = "acting"
    /\ worker' = "actions"
    /\ answered' = answered + 1
    /\ \E outcome \in {"warning", "error"} : Report(outcome)
    /\ UNCHANGED <<uiVars, asked, taken, capture, captureVars, proxy,
                   proxyVars>>

NoMoreActions ==
    /\ worker = "actions"
    /\ taken = asked
    /\ worker' = "top"
    /\ UNCHANGED <<uiVars, reports, actionVars, capture, captureVars, proxy,
                   proxyVars>>

-----------------------------------------------------------------------------
(***************************************************************************)
(* The worker's end: drop(proxy), then drop(capture).                      *)
(***************************************************************************)
DropProxy ==
    /\ worker = "drop_proxy"
    /\ worker' = IF proxy THEN "join_proxy" ELSE "drop_capture"
    /\ proxy_stop' = proxy
    /\ UNCHANGED <<uiVars, reports, actionVars, capture, captureVars, proxy,
                   proxy_thread, proxy_started, accept>>

JoinProxy ==
    /\ worker = "join_proxy"
    /\ proxy_thread = "ended"
    /\ worker' = "drop_capture"
    /\ UNCHANGED <<uiVars, reports, actionVars, capture, captureVars, proxy,
                   proxyVars>>

\* Mutant: the thread is not told that it was woken to stop.
DropCaptureUnflagged ==
    /\ worker = "drop_capture"
    /\ worker' = IF capture THEN "wake_capture" ELSE "done"
    /\ UNCHANGED <<uiVars, reports, actionVars, capture, captureVars, proxy,
                   proxyVars>>

DropCapture ==
    /\ worker = "drop_capture"
    /\ worker' = IF capture THEN "wake_capture" ELSE "done"
    /\ capture_stop' = capture
    /\ UNCHANGED <<uiVars, reports, actionVars, capture, capture_thread,
                   driver, sniffed, packets, proxy, proxyVars>>

\* A loopback datagram, sniffed like any other, ends the blocking recv.
WakeCapture ==
    /\ worker = "wake_capture"
    /\ worker' = "join_capture"
    /\ \/ driver' = driver + 1
       \/ WakeMayFail /\ UNCHANGED driver
    /\ UNCHANGED <<uiVars, reports, actionVars, capture, capture_thread,
                   capture_stop, sniffed, packets, proxy, proxyVars>>

\* Mutant: the thread is left behind.
LeaveCapture ==
    /\ worker = "join_capture"
    /\ worker' = "done"
    /\ UNCHANGED <<uiVars, reports, actionVars, capture, captureVars, proxy,
                   proxyVars>>

JoinCapture ==
    /\ worker = "join_capture"
    /\ capture_thread = "ended"
    /\ worker' = "done"
    /\ UNCHANGED <<uiVars, reports, actionVars, capture, captureVars, proxy,
                   proxyVars>>

-----------------------------------------------------------------------------
(***************************************************************************)
(* The capture thread and the proxy's thread.                              *)
(***************************************************************************)
Sniff ==
    /\ capture_thread = "receiving"
    /\ sniffed < MaxSniffed
    /\ sniffed' = sniffed + 1
    /\ driver' = driver + 1
    /\ UNCHANGED <<uiVars, reports, worker, actionVars, capture,
                   capture_thread, capture_stop, packets, proxy, proxyVars>>

\* Mutant: a packet is sent and received again.
ReceivePacketAgain ==
    /\ capture_thread = "receiving"
    /\ driver > 0
    /\ packets' = packets + 1
    /\ UNCHANGED <<uiVars, reports, worker, actionVars, capture,
                   capture_thread, capture_stop, driver, sniffed, proxy,
                   proxyVars>>

\* recv returns a packet: the flag is looked at first, then the packet is
\* sent if it parses.
ReceivePacket ==
    /\ capture_thread = "receiving"
    /\ driver > 0
    /\ driver' = driver - 1
    /\ IF capture_stop
         THEN capture_thread' = "ended" /\ UNCHANGED packets
         ELSE /\ \E parsed \in {0, 1} : packets' = packets + parsed
              /\ UNCHANGED capture_thread
    /\ UNCHANGED <<uiVars, reports, worker, actionVars, capture, capture_stop,
                   sniffed, proxy, proxyVars>>

ReceiveFails ==
    /\ CaptureMayFail
    /\ capture_thread = "receiving"
    /\ capture_thread' = "ended"
    /\ UNCHANGED <<uiVars, reports, worker, actionVars, capture, capture_stop,
                   driver, sniffed, packets, proxy, proxyVars>>

\* `accepted?' ends the accept task; nobody looks at it before the shutdown.
AcceptFails ==
    /\ AcceptMayFail
    /\ accept = "accepting"
    /\ accept' = "failed"
    /\ UNCHANGED <<uiVars, reports, worker, actionVars, capture, captureVars,
                   proxy, proxy_thread, proxy_started, proxy_stop>>

StopServing ==
    /\ proxy_thread = "serving"
    /\ proxy_stop
    /\ proxy_thread' = "stopping"
    /\ UNCHANGED <<uiVars, reports, worker, actionVars, capture, captureVars,
                   proxy, proxy_started, proxy_stop, accept>>

StopAccepting ==
    /\ proxy_thread = "stopping"
    /\ accept = "accepting"
    /\ accept' = "stopped"
    /\ UNCHANGED <<uiVars, reports, worker, actionVars, capture, captureVars,
                   proxy, proxy_thread, proxy_started, proxy_stop>>

\* ProxyHandle::shutdown has awaited the accept task.
EndProxy ==
    /\ proxy_thread = "stopping"
    /\ accept # "accepting"
    /\ proxy_thread' = "ended"
    /\ UNCHANGED <<uiVars, reports, worker, actionVars, capture, captureVars,
                   proxy, proxy_started, proxy_stop, accept>>

-----------------------------------------------------------------------------
(***************************************************************************)
(* The user interface.                                                     *)
(***************************************************************************)

\* A relaunch or a trust request: sent whether or not anyone listens.
Ask ==
    /\ ui = "running"
    /\ asked < MaxAsked
    /\ asked' = asked + 1
    /\ UNCHANGED <<uiVars, reports, worker, taken, answered, capture,
                   captureVars, proxy, proxyVars>>

\* Any error sets capture_error, which nothing ever clears.
ReadReport ==
    /\ ui = "running"
    /\ reports # <<>>
    /\ reports' = Tail(reports)
    /\ capture_error' = (capture_error \/ Head(reports) = "error")
    /\ UNCHANGED <<ui, shutdown, worker, actionVars, capture, captureVars,
                   proxy, proxyVars>>

\* The window is closed: Runtime::drop sends the shutdown message.
Close ==
    /\ ui = "running"
    /\ ui' = "closing"
    /\ shutdown' = TRUE
    /\ UNCHANGED <<capture_error, reports, worker, actionVars, capture,
                   captureVars, proxy, proxyVars>>

JoinWorker ==
    /\ ui = "closing"
    /\ worker = "done"
    /\ ui' = "closed"
    /\ UNCHANGED <<shutdown, capture_error, reports, worker, actionVars,
                   capture, captureVars, proxy, proxyVars>>

-----------------------------------------------------------------------------
WorkerStep ==
    \/ \E starts \in CaptureStarts : StartCapture(starts)
    \/ SpawnProxy \/ ProxyStarted
    \/ CheckShutdown \/ TakePacket \/ NoPacket \/ CaptureGone
    \/ RefuseAction \/ BeginAction \/ NoMoreActions
    \/ DropProxy \/ JoinProxy \/ DropCapture \/ WakeCapture \/ JoinCapture

ProxyStep ==
    \/ \E starts \in ProxyStarts : ProxyStartup(starts)
    \/ StopServing \/ StopAccepting \/ EndProxy

Next ==
    \/ WorkerStep \/ EndAction
    \/ Sniff \/ ReceivePacket \/ ReceiveFails
    \/ ProxyStep \/ AcceptFails
    \/ Ask \/ ReadReport \/ Close \/ JoinWorker

Spec == Init /\ [][Next]_vars

\* Threads are scheduled: whatever a thread can do on its own it does.  No
\* packet, request, failure or closing is owed by anyone, and an external
\* program started by an action need not return.
FairSpec ==
    /\ Spec
    /\ WF_vars(WorkerStep) /\ WF_vars(ReceivePacket) /\ WF_vars(ProxyStep)
    /\ WF_vars(ReadReport) /\ WF_vars(JoinWorker)

-----------------------------------------------------------------------------
LifecycleTypeOK ==
    /\ ui \in {"running", "closing", "closed"}
    /\ worker \in {"start_capture", "start_proxy", "await_proxy"}
                    \cup Looping \cup Leaving
    /\ {shutdown, capture_error, capture, capture_stop, proxy, proxy_stop}
          \subseteq BOOLEAN
    /\ reports \in Seq({"warning", "error"})
    /\ {asked, taken, answered, driver, sniffed, packets} \subseteq Nat
    /\ answered <= taken /\ taken <= asked /\ asked <= MaxAsked
    /\ capture_thread \in {"none", "receiving", "ended"}
    /\ sniffed <= MaxSniffed /\ driver + packets <= sniffed + 1
    /\ proxy_thread \in {"none", "starting", "serving", "stopping", "ended"}
    /\ proxy_started \in {"nothing", "address", "failure"}
    /\ accept \in {"none", "accepting", "failed", "stopped"}

\* When the window is gone so is every thread: nothing sniffs, listens or
\* writes to the database behind the user's back.
NothingOutlivesTheWindow ==
    ui = "closed" =>
        /\ worker = "done"
        /\ capture_thread # "receiving"
        /\ proxy_thread \in {"none", "ended"}
        /\ accept # "accepting"

\* The worker leaves its loop on its own only when the capture has died and
\* every packet it had delivered is processed: no failed start, no dead
\* accept task and no failed action takes it down.
LeavesOnlyWithoutCapture ==
    ui = "running" /\ worker \in Leaving =>
        capture /\ capture_thread = "ended" /\ packets = 0

\* An external program started by an action returns.
ActionsReturn == []<>(worker # "acting")

\* A packet reaches the capture thread once it was told to stop: the wake-up
\* datagram, if it could be sent, or any other.
SomePacketArrives ==
    capture_stop ~> (driver > 0 \/ capture_thread # "receiving")

\* Closing the window ends the program, whatever failed before: the thread
\* blocked in WinDivert, the proxy and the worker are joined.
ShutdownCompletes ==
    ActionsReturn /\ SomePacketArrives => (ui = "closing" ~> ui = "closed")

\* Every request of the user is answered by a message as long as there is a
\* worker, with and without a proxy.
RequestsAnswered ==
    ActionsReturn =>
        (answered < asked ~> answered = asked \/ worker \in Leaving)

\* The sidebar says "Capture ready" as long as capture_error is unset; it is
\* to change once the capture thread has died.
DeadCaptureShown ==
    capture_thread = "ended" ~> (capture_error \/ ui # "running")

-----------------------------------------------------------------------------
(***************************************************************************)
(* The invariant the proofs rest on: where the worker is tells what it has *)
(* started, what it has joined and what the others can still do.           *)
(***************************************************************************)
Counted ==
    /\ worker = "acting" => answered < taken
    /\ worker \notin {"join_capture", "done"} => driver + packets <= sniffed

CaptureFollows ==
    /\ worker = "start_capture" => ~capture /\ capture_thread = "none"
    /\ worker # "start_capture" => (capture <=> capture_thread # "none")
    /\ worker \in {"wake_capture", "join_capture"} => capture
    /\ worker = "done" => capture_thread # "receiving"

ProxyFollows ==
    /\ worker \in {"start_capture", "start_proxy"} <=> proxy_thread = "none"
    /\ worker \in {"start_capture", "start_proxy"} => proxy_started = "nothing"
    /\ worker = "await_proxy" /\ proxy_started = "nothing"
          <=> proxy_thread = "starting"
    /\ proxy_started = "failure" => proxy_thread = "ended"
    /\ worker \in Looping \cup Leaving /\ ~proxy => proxy_thread = "ended"
    /\ worker \in {"drop_capture", "wake_capture", "join_capture", "done"} =>
          proxy_thread = "ended"
    /\ accept = "accepting" => proxy_thread \in {"serving", "stopping"}

WindowFollows ==
    /\ shutdown => ui # "running"
    /\ ui = "closed" => worker = "done"

\* The invariant of the threads' lives: the types, and the four above.
LifecycleInv ==
    /\ LifecycleTypeOK /\ Counted /\ CaptureFollows /\ ProxyFollows
    /\ WindowFollows /\ LeavesOnlyWithoutCapture
=============================================================================
