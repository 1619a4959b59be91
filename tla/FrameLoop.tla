----------------------------- MODULE FrameLoop -----------------------------
(***************************************************************************)
(* When the window looks at the worker's messages: egui draws a frame only *)
(* when a repaint was requested, when the timer of the last frame runs out *)
(* or when there is input.  The worker sends its messages first and        *)
(* requests the repaint later, a frame takes a limited number of messages, *)
(* and the session's timer is kept by the frames.                          *)
(***************************************************************************)
EXTENDS Naturals

CONSTANTS
    MaxPerFrame,   \* MAX_RUNTIME_EVENTS_PER_FRAME
    Second,        \* clock ticks per second
    MaxQueue,      \* bounds of a run: messages waiting
    MaxLate        \* and ticks between a frame and its timer's frame

ASSUME FrameLoopAssumption ==
    /\ MaxPerFrame \in Nat \ {0} /\ Second \in Nat \ {0}
    /\ MaxQueue \in Nat \ {0} /\ MaxLate \in Nat /\ MaxLate >= Second

VARIABLES
    queue,        \* Runtime.events: messages waiting
    marked,       \* one of them, its place in the queue, or 0 (auxiliary)
    owed,         \* a repaint was asked for since it was sent, or will be at
                  \* the end of this iteration (auxiliary)
    changed,      \* run_components: `changed' of this iteration
    refresh_due,  \* a second has passed since the last process refresh
    stage,        \* the worker's: "events", "actions", "refresh" or "repaint"
    repaint,      \* a repaint was requested
    frame,        \* "none", "receiving", "ticking" or "drawing"
    received,     \* messages taken by this frame
    timer,        \* request_repaint_after is pending
    recording,
    since_tick,   \* clock ticks since AppState.last_tick
    uncounted     \* ticks recorded and not counted yet (auxiliary)

queueVars == <<queue, marked, owed>>
workerVars == <<changed, refresh_due, stage>>
frameVars == <<frame, received>>
timeVars == <<since_tick, uncounted>>
frameLoopVars == <<queueVars, workerVars, repaint, frameVars, timer, recording,
                   timeVars>>

\* A message is sent; any one may be the marked one.  `announced' says whether
\* the worker asks for a repaint on its account.  (The bound leaves room for
\* one process list.)
Send(announced, room) ==
    /\ queue < room
    /\ queue' = queue + 1
    /\ marked' \in IF marked = 0 THEN {0, queue'} ELSE {marked}
    /\ owed' = (marked' > 0 /\ (owed \/ announced))

-----------------------------------------------------------------------------
(***************************************************************************)
(* The worker.                                                             *)
(***************************************************************************)

\* The rows of one packet's events, or of one request.
SendRow ==
    /\ stage = "events"
    /\ Send(TRUE, MaxQueue)
    /\ changed' = TRUE
    /\ UNCHANGED <<refresh_due, stage, repaint, frameVars, timer, recording,
                   timeVars>>

EndEvents ==
    /\ stage = "events"
    /\ stage' = "actions"
    /\ UNCHANGED <<queueVars, changed, refresh_due, repaint, frameVars, timer,
                   recording, timeVars>>

\* Without a proxy an action is refused, and no repaint requested for it; the
\* warnings and errors of the start are sent like that, too.
RefuseRequest ==
    /\ stage = "actions"
    /\ Send(FALSE, MaxQueue)
    /\ UNCHANGED <<workerVars, repaint, frameVars, timer, recording, timeVars>>

AnswerRequest ==
    /\ stage = "actions"
    /\ Send(TRUE, MaxQueue)
    /\ repaint' = TRUE
    /\ UNCHANGED <<workerVars, frameVars, timer, recording, timeVars>>

EndActions ==
    /\ stage = "actions"
    /\ stage' = "refresh"
    /\ UNCHANGED <<queueVars, changed, refresh_due, repaint, frameVars, timer,
                   recording, timeVars>>

\* Mutant: a refresh is not a change.
RefreshUnchanged ==
    /\ stage = "refresh"
    /\ refresh_due
    /\ Send(TRUE, MaxQueue + 1)
    /\ refresh_due' = FALSE
    /\ stage' = "repaint"
    /\ UNCHANGED <<changed, repaint, frameVars, timer, recording, timeVars>>

\* The processes are listed once a second.
Refresh ==
    /\ stage = "refresh"
    /\ refresh_due
    /\ Send(TRUE, MaxQueue + 1)
    /\ changed' = TRUE
    /\ refresh_due' = FALSE
    /\ stage' = "repaint"
    /\ UNCHANGED <<repaint, frameVars, timer, recording, timeVars>>

RefreshFails ==
    /\ stage = "refresh"
    /\ refresh_due
    /\ refresh_due' = FALSE
    /\ stage' = "repaint"
    /\ UNCHANGED <<queueVars, changed, repaint, frameVars, timer, recording,
                   timeVars>>

NoRefresh ==
    /\ stage = "refresh"
    /\ ~refresh_due
    /\ stage' = "repaint"
    /\ UNCHANGED <<queueVars, changed, refresh_due, repaint, frameVars, timer,
                   recording, timeVars>>

RequestRepaint ==
    /\ stage = "repaint"
    /\ stage' = "events"
    /\ repaint' = (repaint \/ changed)
    /\ changed' = FALSE
    /\ UNCHANGED <<queueVars, refresh_due, frameVars, timer, recording,
                   timeVars>>

-----------------------------------------------------------------------------
(***************************************************************************)
(* A frame.                                                                *)
(***************************************************************************)
Begin ==
    /\ frame = "none"
    /\ frame' = "receiving"
    /\ received' = 0
    /\ repaint' = FALSE
    /\ timer' = FALSE
    /\ UNCHANGED <<queueVars, workerVars, recording, timeVars>>

BeginRequested == repaint /\ Begin

\* The timer's frame comes a second after it was set, or somewhat later.
BeginTimed == timer /\ since_tick >= Second /\ Begin

\* Mutant: a frame stops at its limit without asking for another.
ReceiveAndStop ==
    /\ frame = "receiving"
    /\ queue > 0 /\ received < MaxPerFrame
    /\ queue' = queue - 1
    /\ marked' = IF marked = 0 THEN 0 ELSE marked - 1
    /\ owed' = (marked' > 0 /\ owed)
    /\ received' = received + 1
    /\ UNCHANGED <<workerVars, repaint, frame, timer, recording, timeVars>>

\* One message; the last a frame may take requests another frame.
Receive ==
    /\ frame = "receiving"
    /\ queue > 0 /\ received < MaxPerFrame
    /\ queue' = queue - 1
    /\ marked' = IF marked = 0 THEN 0 ELSE marked - 1
    /\ owed' = (marked' > 0 /\ owed)
    /\ received' = received + 1
    /\ repaint' = (repaint \/ received' = MaxPerFrame)
    /\ UNCHANGED <<workerVars, frame, timer, recording, timeVars>>

EndReceive ==
    /\ frame = "receiving"
    /\ queue = 0 \/ received = MaxPerFrame
    /\ frame' = "ticking"
    /\ UNCHANGED <<queueVars, workerVars, repaint, received, timer, recording,
                   timeVars>>

\* Mutant: time goes on when recording is paused.
TickPaused ==
    /\ frame = "ticking"
    /\ frame' = "drawing"
    /\ timer' = recording
    /\ IF recording /\ since_tick >= Second
         THEN since_tick' = 0 /\ uncounted' = 0
         ELSE UNCHANGED timeVars
    /\ UNCHANGED <<queueVars, workerVars, repaint, received, recording>>

\* AppState::tick adds whole seconds and starts again from now, dropping the
\* rest; paused, it only starts again.  While recording, the next frame is at
\* most a second away.
Tick ==
    /\ frame = "ticking"
    /\ frame' = "drawing"
    /\ timer' = recording
    /\ IF recording => since_tick >= Second
         THEN since_tick' = 0 /\ uncounted' = 0
         ELSE UNCHANGED timeVars
    /\ UNCHANGED <<queueVars, workerVars, repaint, received, recording>>

\* The user may press the record button; egui draws another frame after a
\* click.
Draw ==
    /\ frame = "drawing"
    /\ frame' = "none"
    /\ recording' \in BOOLEAN
    /\ repaint' = (repaint \/ recording' # recording)
    /\ UNCHANGED <<queueVars, workerVars, received, timer, timeVars>>

\* Time passes, though not worth counting between a frame's tick and its end.
\* It is counted no further than it makes a difference, and is bounded while
\* a timer's frame is owed.
Pass ==
    /\ frame # "drawing"
    /\ ~recording \/ since_tick < MaxLate
    /\ since_tick' = IF since_tick < MaxLate THEN since_tick + 1
                                             ELSE since_tick
    /\ uncounted' = IF recording /\ uncounted < MaxLate THEN uncounted + 1
                                                        ELSE uncounted
    /\ refresh_due' = TRUE
    /\ UNCHANGED <<queueVars, changed, stage, repaint, frameVars, timer,
                   recording>>

-----------------------------------------------------------------------------
InitFrames ==
    /\ queue = 0 /\ marked = 0 /\ owed = FALSE
    /\ changed = FALSE /\ refresh_due = FALSE /\ stage = "events"
    /\ repaint = TRUE /\ frame = "none" /\ received = 0 /\ timer = FALSE
    /\ recording = TRUE
    /\ since_tick = 0 /\ uncounted = 0

Iterate == EndEvents \/ EndActions \/ NoRefresh \/ RequestRepaint

Frame == BeginRequested \/ BeginTimed \/ Receive \/ EndReceive \/ Tick \/ Draw

NextFrames ==
    \/ SendRow \/ RefuseRequest \/ AnswerRequest \/ Refresh \/ RefreshFails
    \/ Iterate \/ Frame \/ Begin \/ Pass

SpecFrames == InitFrames /\ [][NextFrames]_frameLoopVars

\* The worker iterates, requested and timed frames are drawn, time passes,
\* and listing the processes does not fail for ever.  Input is owed by
\* nobody.
FairFrames ==
    /\ SpecFrames
    /\ WF_frameLoopVars(Iterate)
    /\ SF_frameLoopVars(Refresh) /\ WF_frameLoopVars(RefreshFails)
    /\ WF_frameLoopVars(Frame) /\ WF_frameLoopVars(Pass)

-----------------------------------------------------------------------------
\* The timer counts recorded time only, however long recording was paused
\* and however few frames were drawn meanwhile: what a tick may add was
\* recorded since the tick before.
PausesNotCounted == recording => since_tick <= uncounted

\* No wakeup is lost between the worker, which asks for a repaint after it has
\* sent, and the frames, which take a limited number: a message a repaint was
\* or will be asked for does not wait with nothing on its way.
NoLostWakeup ==
    owed => \/ changed \/ repaint
            \/ frame = "receiving" /\ received < MaxPerFrame

\* Any message of the worker is looked at sooner or later with nobody at the
\* keyboard, recording or not: those without a repaint of their own ride on
\* the next process refresh, those beyond a frame's limit on its request.
MessagesAreRead == marked > 0 ~> marked = 0

-----------------------------------------------------------------------------
(***************************************************************************)
(* The invariant the proofs rest on.                                       *)
(***************************************************************************)
FrameLoopTypeOK ==
    /\ queue \in 0..(MaxQueue + 1) /\ marked \in 0..queue
    /\ {owed, changed, refresh_due, repaint, timer, recording} \subseteq BOOLEAN
    /\ owed => marked > 0
    /\ stage \in {"events", "actions", "refresh", "repaint"}
    /\ frame \in {"none", "receiving", "ticking", "drawing"}
    /\ received \in 0..MaxPerFrame
    /\ since_tick \in 0..MaxLate /\ uncounted \in 0..MaxLate

\* A frame that ends has set its timer, or started the second again.
TimerIsSet ==
    frame = "drawing" => timer = recording /\ (recording \/ since_tick = 0)

\* Between two frames of a recording the next one is always on its way.
FrameIsComing == frame = "none" /\ recording => repaint \/ timer

\* The invariant of the frame loop.
FrameLoopInv ==
    /\ FrameLoopTypeOK /\ TimerIsSet /\ FrameIsComing
    /\ PausesNotCounted /\ NoLostWakeup
=============================================================================
