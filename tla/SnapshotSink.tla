---------------------------- MODULE SnapshotSink ----------------------------
(***************************************************************************)
(* SnapshotSink (src/src/snapshot_sink.cpp): the thread that starts and    *)
(* stops it, the SDK thread that delivers frames, the capture thread, and  *)
(* the compositor's detection thread.                                      *)
(* stop() sets its flag under mutex_; frames and the wait of the capture   *)
(* thread are under frameMutex_, which is a variable here because the      *)
(* compositor calls back while onVideoFrame() holds it.                    *)
(***************************************************************************)
CONSTANT Modes      \* the modes a task may ask for

ASSUME ModesAssumption == Modes \subseteq {"individual", "composite"}

VARIABLES
    mode,           \* config_.mode
    capturing,      \* isCapturing_
    stopRequested,
    stopper,        \* the stopping thread: "out" or "join"
    capture,        \* the capture thread; "tested" evaluated its predicate to false
    sdk,            \* the SDK thread in onVideoFrame()
    frameLock,      \* the holder of frameMutex_
    valid,          \* currentFrame_.valid
    due,            \* the interval since lastSnapshotTimeMs_ has passed
    lost            \* the notification of stop() fell between the test and the wait

snapshotVars == <<mode, capturing, stopRequested, stopper, capture, sdk, frameLock, valid, due, lost>>

SnapshotInit ==
    /\ mode \in Modes
    /\ capturing = FALSE /\ stopRequested = FALSE
    /\ stopper = "out" /\ capture = "none" /\ sdk = "out"
    /\ frameLock = "none" /\ valid = FALSE /\ due = TRUE /\ lost = FALSE

-----------------------------------------------------------------------------
\* initialize() and start(); both refuse while the sink is capturing.
StartCapture ==
    /\ stopper = "out" /\ ~capturing
    /\ mode' \in Modes
    /\ stopRequested' = FALSE /\ capturing' = TRUE
    /\ capture' = "loop"
    /\ UNCHANGED <<stopper, sdk, frameLock, valid, due, lost>>

\* notify_all() reaches the capture thread only where it really waits.
Notified(at) == IF at = "waiting" THEN "woken" ELSE at

\* Mutant: the flag is set, and nobody is told.
StopQuietly ==
    /\ stopper = "out" /\ capturing
    /\ stopRequested' = TRUE
    /\ stopper' = "join"
    /\ lost' = (capture = "tested")
    /\ UNCHANGED <<mode, capturing, capture, sdk, frameLock, valid, due>>

StopCapture ==
    /\ stopper = "out" /\ capturing
    /\ stopRequested' = TRUE
    /\ capture' = Notified(capture)
    /\ lost' = (capture = "tested")
    /\ stopper' = "join"
    /\ UNCHANGED <<mode, capturing, sdk, frameLock, valid, due>>

JoinCapture ==
    /\ stopper = "join" /\ capture = "done"
    /\ capture' = "none" /\ capturing' = FALSE
    /\ stopper' = "out"
    /\ UNCHANGED <<mode, stopRequested, sdk, frameLock, valid, due, lost>>

-----------------------------------------------------------------------------
(* onVideoFrame(), and onComposedFrame() that the compositor calls from it *)

OnVideoFrame ==
    /\ sdk = "out" /\ capturing
    /\ sdk' = "lock"
    /\ UNCHANGED <<mode, capturing, stopRequested, stopper, capture, frameLock, valid, due, lost>>

\* A frame that is not due is skipped; one of a composite snapshot goes to the
\* compositor with frameMutex_ held; another one is the next snapshot.
TakeFrame ==
    /\ sdk = "lock" /\ frameLock = "none"
    /\ \/ ~due /\ sdk' = "out" /\ UNCHANGED <<frameLock, valid>>
       \/ /\ due /\ mode = "composite"
          /\ frameLock' = "sdk" /\ sdk' = "compose"
          /\ UNCHANGED valid
       \/ /\ due /\ mode = "individual"
          /\ valid' = TRUE /\ sdk' = "notify"
          /\ UNCHANGED frameLock
    /\ UNCHANGED <<mode, capturing, stopRequested, stopper, capture, due, lost>>

\* addUserFrame() only stores the frame, when the last composition is recent;
\* onComposedFrame() ignores it when the sink has stopped.
OnlyStored ==
    /\ sdk = "compose"
    /\ frameLock' = "none" /\ sdk' = "out"
    /\ UNCHANGED <<mode, capturing, stopRequested, stopper, capture, valid, due, lost>>

\* It composes, and onComposedFrame() locks frameMutex_, which this thread holds.
\* The detector's mutex may stop it before: its holder, which composes as well,
\* waits for frameMutex_.
Compose ==
    /\ sdk = "compose" /\ capturing
    /\ sdk' = "stuck"
    /\ UNCHANGED <<mode, capturing, stopRequested, stopper, capture, frameLock, valid, due, lost>>

\* The detection thread composes on a change of the layout, without frameMutex_.
LayoutComposes ==
    /\ mode = "composite" /\ capturing /\ due /\ frameLock = "none"
    /\ valid' = TRUE /\ capture' = Notified(capture)
    /\ UNCHANGED <<mode, capturing, stopRequested, stopper, sdk, frameLock, due, lost>>

NotifyFrame ==
    /\ sdk = "notify"
    /\ capture' = Notified(capture)
    /\ sdk' = "out"
    /\ UNCHANGED <<mode, capturing, stopRequested, stopper, frameLock, valid, due, lost>>

-----------------------------------------------------------------------------
(* captureThread() *)

CaptureGo(from, to) ==
    /\ capture = from /\ capture' = to
    /\ UNCHANGED <<mode, capturing, stopRequested, stopper, sdk, lost>>

\* The top of the loop, and the wait that evaluates its predicate with
\* frameMutex_ held.
LoopTop ==
    /\ CaptureGo("loop", IF stopRequested THEN "done" ELSE "test")
    /\ UNCHANGED <<frameLock, valid, due>>

TestFrame ==
    /\ frameLock = "none"
    /\ \/ CaptureGo("test", IF stopRequested THEN "done" ELSE IF valid THEN "save" ELSE "tested")
       \/ CaptureGo("woken", IF stopRequested THEN "done" ELSE IF valid THEN "save" ELSE "tested")
    /\ frameLock' = IF capture' = "tested" THEN "capture" ELSE "none"
    /\ valid' = (valid /\ capture' # "save")
    /\ UNCHANGED due

\* frameMutex_ is released as the thread begins to wait.
Sleep ==
    /\ CaptureGo("tested", "waiting")
    /\ frameLock' = "none"
    /\ UNCHANGED <<valid, due>>

\* The file and its metadata entry are written, or not.
Save ==
    /\ CaptureGo("save", "loop")
    /\ due' \in {due, FALSE}
    /\ UNCHANGED <<frameLock, valid>>

IntervalPasses ==
    /\ ~due
    /\ due' = TRUE
    /\ UNCHANGED <<mode, capturing, stopRequested, stopper, capture, sdk, frameLock, valid, lost>>

-----------------------------------------------------------------------------
SnapshotNext ==
    \/ StartCapture \/ StopCapture \/ JoinCapture
    \/ OnVideoFrame \/ TakeFrame \/ OnlyStored \/ Compose \/ LayoutComposes \/ NotifyFrame
    \/ LoopTop \/ TestFrame \/ Sleep \/ Save \/ IntervalPasses

\* Threads that can go on do; frames need not come.
SnapshotFairness ==
    /\ WF_snapshotVars(JoinCapture)
    /\ WF_snapshotVars(TakeFrame \/ OnlyStored \/ Compose \/ NotifyFrame)
    /\ SF_snapshotVars(LoopTop \/ TestFrame \/ Sleep \/ Save)

SnapshotSpec == SnapshotInit /\ [][SnapshotNext]_snapshotVars /\ SnapshotFairness

-----------------------------------------------------------------------------
(* Properties *)

\* stop() returns: the capture thread learns of the request wherever it is.
\* Two states the code does not recover from are left out: the notification
\* came between its test and its wait, under the other mutex, and the SDK
\* thread locked frameMutex_ twice.
SnapshotStops == stopper = "join" ~> (stopper = "out" \/ lost \/ sdk = "stuck")

\* "Set callback to receive composed frames for snapshot saving"
\* (snapshot_sink.cpp:81): onVideoFrame() returns after the compositor has
\* called back.
FrameReturns == sdk = "compose" ~> sdk = "out"
=============================================================================
