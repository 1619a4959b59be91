---------------------------- MODULE WorkerProofs ----------------------------
(***************************************************************************)
(* Theorems of the two views of the worker beside Monitor's: Lifecycle,    *)
(* for any number of packets and requests and any of the outcomes of the   *)
(* calls; and FrameLoop, for any limit of a frame and any length of the    *)
(* queue.                                                                  *)
(***************************************************************************)
EXTENDS Lifecycle, FrameLoop, TLAPS

-----------------------------------------------------------------------------
(***************************************************************************)
(* Lifecycle.                                                              *)
(***************************************************************************)
LEMMA InitInv == Init => LifecycleInv
<1> SUFFICES ASSUME Init PROVE LifecycleInv
  OBVIOUS
<1>1. reports \in Seq({"warning", "error"})
  <2>1. <<>> \in Seq({"warning", "error"}) /\ <<"error">> \in Seq({"warning", "error"})
    OBVIOUS
  <2> QED BY <2>1 DEF Init
<1>2. LifecycleTypeOK
  <2>1. {shutdown, capture_error, capture, capture_stop, proxy, proxy_stop}
           \subseteq BOOLEAN
    BY DEF Init
  <2>2. /\ {asked, taken, answered, driver, sniffed, packets} \subseteq Nat
        /\ answered <= taken /\ taken <= asked /\ asked <= MaxAsked
        /\ sniffed <= MaxSniffed /\ driver + packets <= sniffed + 1
    BY LifecycleAssumption DEF Init
  <2> QED BY <1>1, <2>1, <2>2 DEF Init, LifecycleTypeOK
<1>3. Counted /\ CaptureFollows /\ WindowFollows
  BY DEF Init, Counted, CaptureFollows, WindowFollows
<1>4. ProxyFollows /\ LeavesOnlyWithoutCapture
  BY DEF Init, ProxyFollows, LeavesOnlyWithoutCapture, Looping, Leaving
<1> QED BY <1>2, <1>3, <1>4 DEF LifecycleInv

\* One step per action: each moves one thread and its channels.
LEMMA StepInv == LifecycleInv /\ [Next]_vars => LifecycleInv'
<1> SUFFICES ASSUME LifecycleInv, [Next]_vars PROVE LifecycleInv'
  OBVIOUS
<1> USE DEF LifecycleInv, LifecycleTypeOK, Counted, CaptureFollows, ProxyFollows,
            WindowFollows, LeavesOnlyWithoutCapture, Looping, Leaving,
            uiVars, actionVars, captureVars, proxyVars
<1>1. ASSUME NEW starts \in CaptureStarts, StartCapture(starts)
      PROVE  LifecycleInv'
  <2>1. starts \in BOOLEAN
    BY LifecycleAssumption
  <2> QED BY <1>1, <2>1 DEF StartCapture, Report
<1>2. ASSUME NEW starts \in ProxyStarts, ProxyStartup(starts)
      PROVE  LifecycleInv'
  <2>1. starts \in BOOLEAN
    BY LifecycleAssumption
  <2> QED BY <1>2, <2>1 DEF ProxyStartup
<1>3. CASE SpawnProxy
  BY <1>3 DEF SpawnProxy
<1>4. CASE ProxyStarted
  <2>1. /\ worker = "await_proxy" /\ worker' = "top"
        /\ proxy_started \in {"address", "failure"}
        /\ proxy' = (proxy_started = "address") /\ proxy_started' = "nothing"
        /\ reports' \in Seq({"warning", "error"})
        /\ UNCHANGED <<uiVars, actionVars, capture, captureVars, proxy_thread,
                       proxy_stop, accept>>
    BY <1>4 DEF ProxyStarted, Report
  <2>2. CASE proxy_started = "address" /\ proxy' = TRUE
    BY <2>1, <2>2
  <2>3. CASE proxy_started = "failure" /\ proxy' = FALSE
    BY <2>1, <2>3
  <2> QED BY <2>1, <2>2, <2>3
<1>5. CASE CheckShutdown
  BY <1>5 DEF CheckShutdown
<1>6. CASE TakePacket
  BY <1>6 DEF TakePacket
<1>7. CASE NoPacket
  BY <1>7 DEF NoPacket
<1>8. CASE CaptureGone
  BY <1>8 DEF CaptureGone
<1>9. CASE RefuseAction
  BY <1>9 DEF RefuseAction, Report
<1>10. CASE BeginAction
  BY <1>10 DEF BeginAction
<1>11. CASE NoMoreActions
  BY <1>11 DEF NoMoreActions
<1>12. CASE DropProxy
  BY <1>12 DEF DropProxy
<1>13. CASE JoinProxy
  BY <1>13 DEF JoinProxy
<1>14. CASE DropCapture
  BY <1>14 DEF DropCapture
<1>15. CASE WakeCapture
  BY <1>15 DEF WakeCapture
<1>16. CASE JoinCapture
  BY <1>16 DEF JoinCapture
<1>17. CASE EndAction
  BY <1>17 DEF EndAction, Report
<1>18. CASE Sniff
  BY <1>18, LifecycleAssumption DEF Sniff
<1>19. CASE ReceivePacket
  BY <1>19 DEF ReceivePacket
<1>20. CASE ReceiveFails
  BY <1>20 DEF ReceiveFails
<1>21. CASE StopServing
  BY <1>21 DEF StopServing
<1>22. CASE StopAccepting
  BY <1>22 DEF StopAccepting
<1>23. CASE EndProxy
  BY <1>23 DEF EndProxy
<1>24. CASE AcceptFails
  BY <1>24 DEF AcceptFails
<1>25. CASE Ask
  BY <1>25, LifecycleAssumption DEF Ask
<1>26. CASE ReadReport
  BY <1>26 DEF ReadReport
<1>27. CASE Close
  BY <1>27 DEF Close
<1>28. CASE JoinWorker
  BY <1>28 DEF JoinWorker
<1>29. CASE UNCHANGED vars
  BY <1>29 DEF vars
<1> QED
  BY <1>1, <1>2, <1>3, <1>4, <1>5, <1>6, <1>7, <1>8, <1>9, <1>10, <1>11,
     <1>12, <1>13, <1>14, <1>15, <1>16, <1>17, <1>18, <1>19, <1>20, <1>21,
     <1>22, <1>23, <1>24, <1>25, <1>26, <1>27, <1>28, <1>29 DEF Next, WorkerStep,
     ProxyStep

-----------------------------------------------------------------------------
\* The invariant of the program's threads, whichever of them start or fail.
THEOREM LifecycleInvariant == Spec => []LifecycleInv
BY InitInv, StepInv, PTL DEF Spec

\* When the window is gone so is every thread: Runtime::drop joins the worker,
\* whose end joins the proxy's thread and the one blocked in WinDivert.
THEOREM NothingIsLeft == Spec => []NothingOutlivesTheWindow
<1>1. LifecycleInv => NothingOutlivesTheWindow
  BY DEF LifecycleInv, LifecycleTypeOK, WindowFollows, CaptureFollows,
         ProxyFollows, NothingOutlivesTheWindow
<1> QED BY <1>1, LifecycleInvariant, PTL

\* run_components leaves its loop on its own only for a capture that has died,
\* after the last packet it had delivered.
THEOREM WorkerStays == Spec => []LeavesOnlyWithoutCapture
<1>1. LifecycleInv => LeavesOnlyWithoutCapture
  BY DEF LifecycleInv
<1> QED BY <1>1, LifecycleInvariant, PTL

-----------------------------------------------------------------------------
(***************************************************************************)
(* FrameLoop.                                                              *)
(***************************************************************************)
LEMMA FramesInit == InitFrames => FrameLoopInv
<1> SUFFICES ASSUME InitFrames PROVE FrameLoopInv
  OBVIOUS
<1>1. FrameLoopTypeOK
  <2>1. queue \in 0..(MaxQueue + 1) /\ marked \in 0..queue
    BY FrameLoopAssumption DEF InitFrames
  <2>2. {owed, changed, refresh_due, repaint, timer, recording} \subseteq BOOLEAN
    BY DEF InitFrames
  <2>3. received \in 0..MaxPerFrame
    BY FrameLoopAssumption DEF InitFrames
  <2>4. since_tick \in 0..MaxLate /\ uncounted \in 0..MaxLate
    BY FrameLoopAssumption DEF InitFrames
  <2> QED BY <2>1, <2>2, <2>3, <2>4 DEF InitFrames, FrameLoopTypeOK
<1>2. TimerIsSet /\ FrameIsComing /\ NoLostWakeup
  BY DEF InitFrames, TimerIsSet, FrameIsComing, NoLostWakeup
<1>3. PausesNotCounted
  BY DEF InitFrames, PausesNotCounted
<1> QED BY <1>1, <1>2, <1>3 DEF FrameLoopInv

LEMMA FramesTyped ==
    FrameLoopTypeOK /\ [NextFrames]_frameLoopVars => FrameLoopTypeOK'
<1> SUFFICES ASSUME FrameLoopTypeOK, [NextFrames]_frameLoopVars
             PROVE  FrameLoopTypeOK'
  OBVIOUS
<1> USE FrameLoopAssumption
    DEF FrameLoopTypeOK, queueVars, workerVars, frameVars, timeVars
<1>1. CASE SendRow
  <2>1. queue' \in 0..(MaxQueue + 1) /\ marked' \in 0..queue'
    BY <1>1 DEF SendRow, Send
  <2>2. owed' \in BOOLEAN /\ (owed' => marked' > 0)
    BY <1>1 DEF SendRow, Send
  <2> QED BY <1>1, <2>1, <2>2 DEF SendRow
<1>2. CASE RefuseRequest
  <2>1. queue' \in 0..(MaxQueue + 1) /\ marked' \in 0..queue'
    BY <1>2 DEF RefuseRequest, Send
  <2>2. owed' \in BOOLEAN /\ (owed' => marked' > 0)
    BY <1>2 DEF RefuseRequest, Send
  <2> QED BY <1>2, <2>1, <2>2 DEF RefuseRequest
<1>3. CASE AnswerRequest
  <2>1. queue' \in 0..(MaxQueue + 1) /\ marked' \in 0..queue'
    BY <1>3 DEF AnswerRequest, Send
  <2>2. owed' \in BOOLEAN /\ (owed' => marked' > 0)
    BY <1>3 DEF AnswerRequest, Send
  <2> QED BY <1>3, <2>1, <2>2 DEF AnswerRequest
<1>4. CASE Refresh
  <2>1. queue' \in 0..(MaxQueue + 1) /\ marked' \in 0..queue'
    BY <1>4 DEF Refresh, Send
  <2>2. owed' \in BOOLEAN /\ (owed' => marked' > 0)
    BY <1>4 DEF Refresh, Send
  <2> QED BY <1>4, <2>1, <2>2 DEF Refresh
<1>5. CASE RefreshFails
  BY <1>5 DEF RefreshFails
<1>6. CASE EndEvents
  BY <1>6 DEF EndEvents
<1>7. CASE EndActions
  BY <1>7 DEF EndActions
<1>8. CASE NoRefresh
  BY <1>8 DEF NoRefresh
<1>9. CASE RequestRepaint
  BY <1>9 DEF RequestRepaint
<1>10. CASE Begin
  <2>1. received' \in 0..MaxPerFrame
    BY <1>10 DEF Begin
  <2> QED BY <1>10, <2>1 DEF Begin
<1>11. CASE Receive
  <2>1. /\ queue' \in 0..(MaxQueue + 1) /\ marked' \in 0..queue'
        /\ received' \in 0..MaxPerFrame
    BY <1>11 DEF Receive
  <2>2. {owed', repaint'} \subseteq BOOLEAN /\ (owed' => marked' > 0)
    BY <1>11 DEF Receive
  <2> QED BY <1>11, <2>1, <2>2 DEF Receive
<1>12. CASE EndReceive
  BY <1>12 DEF EndReceive
<1>13. CASE Tick
  BY <1>13 DEF Tick
<1>14. CASE Draw
  BY <1>14 DEF Draw
<1>15. CASE Pass
  BY <1>15 DEF Pass
<1>16. CASE UNCHANGED frameLoopVars
  BY <1>16 DEF frameLoopVars
<1> QED
  BY <1>1, <1>2, <1>3, <1>4, <1>5, <1>6, <1>7, <1>8, <1>9, <1>10, <1>11,
     <1>12, <1>13, <1>14, <1>15, <1>16 DEF NextFrames, Iterate, Frame,
     BeginRequested, BeginTimed

\* One step per action: those of the worker send and ask, those of a frame
\* take, tick and set the timer.
LEMMA FramesStep == FrameLoopInv /\ [NextFrames]_frameLoopVars => FrameLoopInv'
<1> SUFFICES ASSUME FrameLoopInv, [NextFrames]_frameLoopVars
             PROVE  TimerIsSet' /\ FrameIsComing' /\ PausesNotCounted' /\ NoLostWakeup'
  BY FramesTyped DEF FrameLoopInv
<1> USE FrameLoopAssumption
    DEF FrameLoopInv, FrameLoopTypeOK, TimerIsSet, FrameIsComing,
        PausesNotCounted, NoLostWakeup, queueVars, workerVars, frameVars, timeVars
<1>1. CASE SendRow
  BY <1>1 DEF SendRow, Send
<1>2. CASE RefuseRequest
  BY <1>2 DEF RefuseRequest, Send
<1>3. CASE AnswerRequest
  BY <1>3 DEF AnswerRequest, Send
<1>4. CASE Refresh
  BY <1>4 DEF Refresh, Send
<1>5. CASE RefreshFails
  BY <1>5 DEF RefreshFails
<1>6. CASE EndEvents
  BY <1>6 DEF EndEvents
<1>7. CASE EndActions
  BY <1>7 DEF EndActions
<1>8. CASE NoRefresh
  BY <1>8 DEF NoRefresh
<1>9. CASE RequestRepaint
  BY <1>9 DEF RequestRepaint
<1>10. CASE Begin
  BY <1>10 DEF Begin
<1>11. CASE Receive
  BY <1>11 DEF Receive
<1>12. CASE EndReceive
  BY <1>12 DEF EndReceive
<1>13. CASE Tick
  BY <1>13 DEF Tick
<1>14. CASE Draw
  BY <1>14 DEF Draw
<1>15. CASE Pass
  BY <1>15 DEF Pass
<1>16. CASE UNCHANGED frameLoopVars
  BY <1>16 DEF frameLoopVars
<1> QED
  BY <1>1, <1>2, <1>3, <1>4, <1>5, <1>6, <1>7, <1>8, <1>9, <1>10, <1>11,
     <1>12, <1>13, <1>14, <1>15, <1>16 DEF NextFrames, Iterate, Frame,
     BeginRequested, BeginTimed

\* The invariant of the frame loop, however worker, frames and clock take
\* turns.
THEOREM FrameLoopInvariant == SpecFrames => []FrameLoopInv
BY FramesInit, FramesStep, PTL DEF SpecFrames

\* The session's timer counts recorded time only: a pause of any length adds
\* nothing when recording goes on.
THEOREM TimerCountsRecording == SpecFrames => []PausesNotCounted
<1>1. FrameLoopInv => PausesNotCounted
  BY DEF FrameLoopInv
<1> QED BY <1>1, FrameLoopInvariant, PTL

\* A message the worker asks a repaint for never waits with nothing on its
\* way, whatever the limit of a frame.
THEOREM WakeupsAreKept == SpecFrames => []NoLostWakeup
<1>1. FrameLoopInv => NoLostWakeup
  BY DEF FrameLoopInv
<1> QED BY <1>1, FrameLoopInvariant, PTL
=============================================================================
