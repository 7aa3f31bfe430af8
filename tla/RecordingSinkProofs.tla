------------------------- MODULE RecordingSinkProofs -------------------------
(***************************************************************************)
(* The recording sink keeps its invariants, implements Session and is      *)
(* never stuck in a stop(), for any number of calling threads, buffer      *)
(* sizes, sessions and frames.                                             *)
(***************************************************************************)
EXTENDS RecordingSink, TLAPS

\* Where a thread is inside stop(), and past the join of each worker there
StopSteps == {"wakeAudio", "wakeVideo", "joinAudio", "joinVideo", "joinCoord", "close", "clear"}
Quieted == StopSteps \ {"wakeAudio"}
AudioJoined == {"joinVideo", "joinCoord", "close", "clear"}
VideoJoined == {"joinCoord", "close", "clear"}

\* stop() and start() exclude each other and themselves: stopInProgress stands
\* for the one thread past StopEnter, which knows whether there is a recording.
LockInv ==
    /\ \A t \in Stoppers : call[t] \in StopSteps =>
          stopInProgress /\ stopRequested /\ wasRecording[t] = isRecording
    /\ \A t, u \in Stoppers : call[t] \in StopSteps /\ call[u] \in StopSteps => t = u
    /\ \A t, u \in Stoppers : call[t] = "launch" /\ call[u] = "launch" => t = u
    /\ \A t \in Stoppers : call[t] = "launch" => isRecording /\ ~stopRequested /\ ~stopInProgress

\* Which workers exist, and which sessions are closed
SessionInv ==
    /\ ~isRecording \/ Opening => audio = "none" /\ video = "none"
    /\ \A t \in Stoppers : call[t] \in AudioJoined => audio = "none"
    /\ \A t \in Stoppers : call[t] \in VideoJoined => video = "none"
    /\ ~isRecording => opened = closed
    /\ \A t \in Stoppers : call[t] = "clear" => opened = closed
    /\ isRecording /\ (\A t \in Stoppers : call[t] # "clear") => opened = closed + 1

\* The audio worker of a recording is joined only by stop(), and is over only
\* when the end was asked for, its queue is empty and no frame is on its way
\* into it; after that none comes.
DrainInv ==
    /\ lost = 0
    /\ isRecording /\ ~Opening /\ audio = "none" => \E t \in Stoppers : call[t] \in AudioJoined
    /\ audio \in {"drain", "drainEncode", "done"} => stopRequested
    /\ audio = "done" => audioQ = 0 /\ onAudio # "checked"
    /\ \A t \in Stoppers : call[t] \in Quieted => onAudio # "checked"
    /\ \A t \in Stoppers : call[t] \in AudioJoined /\ isRecording => audioQ = 0

SinkInv == TypeOK /\ LockInv /\ SessionInv /\ DrainInv

\* The first state has the invariant.
LEMMA InitHasInv == Init => SinkInv
<1> SUFFICES ASSUME Init PROVE SinkInv
  OBVIOUS
<1> USE SinkAssumption DEF Init
<1>1. /\ isRecording \in BOOLEAN /\ stopRequested \in BOOLEAN /\ stopInProgress \in BOOLEAN
      /\ haveThread \in BOOLEAN /\ expired \in BOOLEAN
  BY Zenon
<1>2. TypeOK
  BY <1>1 DEF TypeOK, CallSteps
<1>3. LockInv /\ SessionInv /\ DrainInv
  BY DEF LockInv, SessionInv, DrainInv, Opening, StopSteps, Quieted, AudioJoined, VideoJoined
<1>4. QED BY <1>2, <1>3 DEF SinkInv

\* Every step keeps the invariant.
LEMMA StepKeepsInv == SinkInv /\ [Next]_vars => SinkInv'
<1> SUFFICES ASSUME SinkInv, [Next]_vars PROVE SinkInv'
  OBVIOUS
<1> USE SinkAssumption DEF SinkInv, TypeOK, LockInv, SessionInv, DrainInv, Opening, Stoppers, CallSteps, StopSteps, Quieted, AudioJoined, VideoJoined, flags, callVars, workers, sdkVars, queues, ghosts
<1>1. ASSUME NEW t \in Stoppers, Start(t) PROVE SinkInv'
  <2>1. TypeOK'
    <3>1. isRecording' \in BOOLEAN /\ stopRequested' \in BOOLEAN /\ stopInProgress' \in BOOLEAN
          /\ haveThread' \in BOOLEAN /\ expired' \in BOOLEAN
      BY <1>1, Zenon DEF Start, Launch
    <3>2. call' \in [Stoppers -> CallSteps] /\ resume' \in [Stoppers -> {"out", "restart"}]
          /\ wasRecording' \in [Stoppers -> BOOLEAN]
      BY <1>1 DEF Start, Launch
    <3>3. QED BY <1>1, <3>1, <3>2 DEF Start, Launch
  <2>2. LockInv'
    BY <1>1 DEF Start, Launch
  <2>3. SessionInv'
    BY <1>1 DEF Start, Launch
  <2>4. DrainInv'
    BY <1>1 DEF Start, Launch
  <2>5. QED BY <2>1, <2>2, <2>3, <2>4
<1>2. ASSUME NEW t \in Stoppers, Restart(t) PROVE SinkInv'
  <2>1. TypeOK'
    <3>1. isRecording' \in BOOLEAN /\ stopRequested' \in BOOLEAN /\ stopInProgress' \in BOOLEAN
          /\ haveThread' \in BOOLEAN /\ expired' \in BOOLEAN
      BY <1>2, Zenon DEF Restart, Launch
    <3>2. call' \in [Stoppers -> CallSteps] /\ resume' \in [Stoppers -> {"out", "restart"}]
          /\ wasRecording' \in [Stoppers -> BOOLEAN]
      BY <1>2 DEF Restart, Launch
    <3>3. QED BY <1>2, <3>1, <3>2 DEF Restart, Launch
  <2>2. LockInv'
    BY <1>2 DEF Restart, Launch
  <2>3. SessionInv'
    BY <1>2 DEF Restart, Launch
  <2>4. DrainInv'
    BY <1>2 DEF Restart, Launch
  <2>5. QED BY <2>1, <2>2, <2>3, <2>4
<1>3. ASSUME NEW t \in Stoppers, Launched(t) PROVE SinkInv'
  <2>1. TypeOK'
    <3>1. isRecording' \in BOOLEAN /\ stopRequested' \in BOOLEAN /\ stopInProgress' \in BOOLEAN
          /\ haveThread' \in BOOLEAN /\ expired' \in BOOLEAN
      BY <1>3, Zenon DEF Launched
    <3>2. call' \in [Stoppers -> CallSteps] /\ resume' \in [Stoppers -> {"out", "restart"}]
          /\ wasRecording' \in [Stoppers -> BOOLEAN]
      BY <1>3 DEF Launched
    <3>3. QED BY <1>3, <3>1, <3>2 DEF Launched
  <2>2. LockInv'
    BY <1>3 DEF Launched
  <2>3. SessionInv'
    BY <1>3 DEF Launched
  <2>4. DrainInv'
    BY <1>3 DEF Launched
  <2>5. QED BY <2>1, <2>2, <2>3, <2>4
<1>4. ASSUME NEW t \in Stoppers, Stop(t) PROVE SinkInv'
  BY <1>4 DEF Stop, Goto
<1>5. ASSUME NEW t \in Stoppers, StopEnter(t) PROVE SinkInv'
  <2>1. TypeOK'
    <3>1. isRecording' \in BOOLEAN /\ stopRequested' \in BOOLEAN /\ stopInProgress' \in BOOLEAN
          /\ haveThread' \in BOOLEAN /\ expired' \in BOOLEAN
      BY <1>5, Zenon DEF StopEnter, Goto
    <3>2. call' \in [Stoppers -> CallSteps] /\ resume' \in [Stoppers -> {"out", "restart"}]
          /\ wasRecording' \in [Stoppers -> BOOLEAN]
      BY <1>5 DEF StopEnter, Goto
    <3>3. QED BY <1>5, <3>1, <3>2 DEF StopEnter, Goto
  <2>2. LockInv'
    BY <1>5 DEF StopEnter, Goto
  <2>3. SessionInv'
    BY <1>5 DEF StopEnter, Goto
  <2>4. DrainInv'
    BY <1>5 DEF StopEnter, Goto
  <2>5. QED BY <2>1, <2>2, <2>3, <2>4
<1>6. ASSUME NEW t \in Stoppers, WakeAudio(t) PROVE SinkInv'
  BY <1>6 DEF WakeAudio, Goto
<1>7. ASSUME NEW t \in Stoppers, WakeVideo(t) PROVE SinkInv'
  BY <1>7 DEF WakeVideo, Goto, NotifyVideo
<1>8. ASSUME NEW t \in Stoppers, JoinAudio(t) PROVE SinkInv'
  BY <1>8 DEF JoinAudio, Goto
<1>9. ASSUME NEW t \in Stoppers, JoinVideo(t) PROVE SinkInv'
  BY <1>9 DEF JoinVideo, Goto
<1>10. ASSUME NEW t \in Stoppers, JoinCoord(t) PROVE SinkInv'
  <2>1. TypeOK'
    <3>1. isRecording' \in BOOLEAN /\ stopRequested' \in BOOLEAN /\ stopInProgress' \in BOOLEAN
          /\ haveThread' \in BOOLEAN /\ expired' \in BOOLEAN
      BY <1>10, Zenon DEF JoinCoord, Goto
    <3>2. call' \in [Stoppers -> CallSteps] /\ resume' \in [Stoppers -> {"out", "restart"}]
          /\ wasRecording' \in [Stoppers -> BOOLEAN]
      BY <1>10 DEF JoinCoord, Goto
    <3>3. QED BY <1>10, <3>1, <3>2 DEF JoinCoord, Goto
  <2>2. LockInv'
    BY <1>10 DEF JoinCoord, Goto
  <2>3. SessionInv'
    BY <1>10 DEF JoinCoord, Goto
  <2>4. DrainInv'
    BY <1>10 DEF JoinCoord, Goto
  <2>5. QED BY <2>1, <2>2, <2>3, <2>4
<1>11. ASSUME NEW t \in Stoppers, Close(t) PROVE SinkInv'
  BY <1>11 DEF Close, Goto
<1>12. ASSUME NEW t \in Stoppers, Clear(t) PROVE SinkInv'
  BY <1>12 DEF Clear, Goto
<1>13. ASSUME DurationPasses PROVE SinkInv'
  <2>1. TypeOK'
    BY <1>13 DEF DurationPasses
  <2>2. LockInv'
    BY <1>13 DEF DurationPasses
  <2>3. SessionInv'
    BY <1>13 DEF DurationPasses
  <2>4. DrainInv'
    BY <1>13 DEF DurationPasses
  <2>5. QED BY <2>1, <2>2, <2>3, <2>4
<1>14. ASSUME CoordLook PROVE SinkInv'
  BY <1>14 DEF CoordLook
<1>15. ASSUME CoordWake PROVE SinkInv'
  BY <1>15 DEF CoordWake, NotifyVideo
<1>16. ASSUME CoordEnd PROVE SinkInv'
  BY <1>16 DEF CoordEnd
<1>17. ASSUME AudioLoop PROVE SinkInv'
  BY <1>17 DEF AudioLoop
<1>18. ASSUME AudioTake PROVE SinkInv'
  BY <1>18 DEF AudioTake
<1>19. ASSUME AudioEncode PROVE SinkInv'
  BY <1>19 DEF AudioEncode
<1>20. ASSUME VideoLoop PROVE SinkInv'
  BY <1>20 DEF VideoLoop
<1>21. ASSUME VideoSleep PROVE SinkInv'
  BY <1>21 DEF VideoSleep
<1>22. ASSUME VideoTake PROVE SinkInv'
  BY <1>22 DEF VideoTake
<1>23. ASSUME VideoEncode PROVE SinkInv'
  BY <1>23 DEF VideoEncode
<1>24. ASSUME OnAudioFrame PROVE SinkInv'
  <2>1. TypeOK'
    BY <1>24 DEF OnAudioFrame, Accepting
  <2>2. LockInv'
    BY <1>24 DEF OnAudioFrame, Accepting
  <2>3. SessionInv'
    BY <1>24 DEF OnAudioFrame, Accepting
  <2>4. DrainInv'
    BY <1>24 DEF OnAudioFrame, Accepting
  <2>5. QED BY <2>1, <2>2, <2>3, <2>4
<1>25. ASSUME OnAudioCheck PROVE SinkInv'
  BY <1>25 DEF OnAudioCheck, Accepting
<1>26. ASSUME OnAudioPush PROVE SinkInv'
  BY <1>26 DEF OnAudioPush
<1>27. ASSUME OnVideoFrame PROVE SinkInv'
  <2>1. TypeOK'
    BY <1>27 DEF OnVideoFrame, Accepting
  <2>2. LockInv'
    BY <1>27 DEF OnVideoFrame, Accepting
  <2>3. SessionInv'
    BY <1>27 DEF OnVideoFrame, Accepting
  <2>4. DrainInv'
    BY <1>27 DEF OnVideoFrame, Accepting
  <2>5. QED BY <2>1, <2>2, <2>3, <2>4
<1>28. ASSUME OnVideoPush PROVE SinkInv'
  BY <1>28 DEF OnVideoPush, Accepting, NotifyVideo
<1>29. CASE UNCHANGED vars
  BY <1>29 DEF vars
<1>30. QED
  BY <1>1, <1>2, <1>3, <1>4, <1>5, <1>6, <1>7, <1>8, <1>9, <1>10, <1>11, <1>12, <1>13, <1>14, <1>15, <1>16, <1>17, <1>18, <1>19, <1>20, <1>21, <1>22, <1>23, <1>24, <1>25, <1>26, <1>27, <1>28, <1>29 DEF Next, StopStep, Coordinator, AudioWorker, VideoWorker, Sdk

LEMMA AlwaysSinkInv == Spec => []SinkInv
  BY InitHasInv, StepKeepsInv, PTL DEF Spec

\* The state keeps its types, and the frame queues of onAudioFrame() and
\* onVideoFrame() their configured lengths.
THEOREM TypeCorrect == Spec => []TypeOK
<1>1. SinkInv => TypeOK
  BY DEF SinkInv
<1>2. QED BY AlwaysSinkInv, <1>1, PTL

\* When the sink is not recording, every session is finalised once and no
\* worker of it is left, whoever called stop() and start() and in which order.
THEOREM AlwaysQuietWhenIdle == Spec => []QuietWhenIdle
<1>1. SinkInv => QuietWhenIdle
  BY DEF SinkInv, TypeOK, SessionInv, QuietWhenIdle
<1>2. QED BY AlwaysSinkInv, <1>1, PTL

\* A worker that holds a frame holds it while the files of its session are
\* open: stop() finalises them only after it joined both workers.
THEOREM AlwaysWriteBeforeClose == Spec => []WriteBeforeClose
<1>1. SinkInv => WriteBeforeClose
  BY DEF SinkInv, SessionInv, WriteBeforeClose, AudioJoined, VideoJoined
<1>2. QED BY AlwaysSinkInv, <1>1, PTL

-----------------------------------------------------------------------------
(* What stop() waits for *)

\* stopInProgress is never left behind, and the video worker does not sleep
\* once the stop() that is going to join it has notified it.
WakeInv ==
    /\ stopInProgress => \E t \in Stoppers : call[t] \in StopSteps
    /\ \A t \in Stoppers : call[t] \in {"joinAudio", "joinVideo"} => video \notin {"sleepy", "asleep"}

\* The coordinator calls only stop(), and only from its callback; it exists as
\* long as recordingThread_ is set.
CoordInv ==
    /\ ~haveThread => coord = "none"
    /\ \A t \in Stoppers : call[t] = "launch" => ~haveThread
    /\ call["coordinator"] # "out" => coord = "returning"
    /\ resume["coordinator"] = "out" /\ call["coordinator"] \notin {"restart", "launch"}

\* Each worker waits for nothing, or for what is there: the guards of its
\* actions, as far as other threads decide them
AudioCanGoOn == audio \in {"work", "drain"} => onAudio # "checked"
VideoCanGoOn == video # "asleep"
CoordCanGoOn ==
    /\ coord = "loop" => stopRequested /\ ~Opening
    /\ coord = "wakeAudio" => onAudio # "checked"
    /\ coord = "wakeVideo" => video # "sleepy"
    /\ coord = "returning" => call["coordinator"] \in {"out", "stop"}

\* What a stop() waits for can happen: the worker it joins is able to take its
\* next step, and a stop() that waits for another one, waits for a thread that
\* is in the middle of it.
NoStopIsStuck ==
    \A t \in Stoppers :
      /\ call[t] = "joinAudio" => AudioCanGoOn
      /\ call[t] = "joinVideo" => VideoCanGoOn
      /\ call[t] = "joinCoord" /\ t # "coordinator" => CoordCanGoOn
      /\ call[t] = "close" => onAudio # "checked" /\ video # "sleepy"
      /\ call[t] = "stop" /\ stopInProgress =>
            t = "coordinator" \/ \E u \in Stoppers \ {t} : call[u] \in StopSteps

\* Every step keeps them.
LEMMA StepKeepsWaits ==
    ASSUME SinkInv, WakeInv, CoordInv, [Next]_vars
    PROVE  WakeInv' /\ CoordInv'
<1> USE SinkAssumption DEF SinkInv, TypeOK, LockInv, SessionInv, WakeInv, CoordInv, Opening, Stoppers, CallSteps, StopSteps, flags, callVars, workers, sdkVars, queues, ghosts
<1>1. ASSUME NEW t \in Stoppers, Start(t) PROVE WakeInv' /\ CoordInv'
  BY <1>1 DEF Start, Launch
<1>2. ASSUME NEW t \in Stoppers, Restart(t) PROVE WakeInv' /\ CoordInv'
  BY <1>2 DEF Restart, Launch
<1>3. ASSUME NEW t \in Stoppers, Launched(t) PROVE WakeInv' /\ CoordInv'
  BY <1>3 DEF Launched
<1>4. ASSUME NEW t \in Stoppers, Stop(t) PROVE WakeInv' /\ CoordInv'
  BY <1>4 DEF Stop, Goto
<1>5. ASSUME NEW t \in Stoppers, StopEnter(t) PROVE WakeInv' /\ CoordInv'
  BY <1>5 DEF StopEnter, Goto
<1>6. ASSUME NEW t \in Stoppers, WakeAudio(t) PROVE WakeInv' /\ CoordInv'
  BY <1>6 DEF WakeAudio, Goto
<1>7. ASSUME NEW t \in Stoppers, WakeVideo(t) PROVE WakeInv' /\ CoordInv'
  BY <1>7 DEF WakeVideo, Goto, NotifyVideo
<1>8. ASSUME NEW t \in Stoppers, JoinAudio(t) PROVE WakeInv' /\ CoordInv'
  BY <1>8 DEF JoinAudio, Goto
<1>9. ASSUME NEW t \in Stoppers, JoinVideo(t) PROVE WakeInv' /\ CoordInv'
  BY <1>9 DEF JoinVideo, Goto
<1>10. ASSUME NEW t \in Stoppers, JoinCoord(t) PROVE WakeInv' /\ CoordInv'
  BY <1>10 DEF JoinCoord, Goto
<1>11. ASSUME NEW t \in Stoppers, Close(t) PROVE WakeInv' /\ CoordInv'
  BY <1>11 DEF Close, Goto
<1>12. ASSUME NEW t \in Stoppers, Clear(t) PROVE WakeInv' /\ CoordInv'
  BY <1>12 DEF Clear, Goto
<1>13. ASSUME DurationPasses PROVE WakeInv' /\ CoordInv'
  BY <1>13 DEF DurationPasses
<1>14. ASSUME CoordLook PROVE WakeInv' /\ CoordInv'
  BY <1>14 DEF CoordLook
<1>15. ASSUME CoordWake PROVE WakeInv' /\ CoordInv'
  BY <1>15 DEF CoordWake, NotifyVideo
<1>16. ASSUME CoordEnd PROVE WakeInv' /\ CoordInv'
  BY <1>16 DEF CoordEnd
<1>17. ASSUME AudioWorker PROVE WakeInv' /\ CoordInv'
  BY <1>17 DEF AudioWorker, AudioLoop, AudioTake, AudioEncode
<1>18. ASSUME VideoLoop PROVE WakeInv' /\ CoordInv'
  BY <1>18 DEF VideoLoop
<1>19. ASSUME VideoSleep PROVE WakeInv' /\ CoordInv'
  BY <1>19 DEF VideoSleep
<1>20. ASSUME VideoTake PROVE WakeInv' /\ CoordInv'
  BY <1>20 DEF VideoTake
<1>21. ASSUME VideoEncode PROVE WakeInv' /\ CoordInv'
  BY <1>21 DEF VideoEncode
<1>22. ASSUME OnAudioFrame PROVE WakeInv' /\ CoordInv'
  BY <1>22 DEF OnAudioFrame
<1>23. ASSUME OnAudioCheck PROVE WakeInv' /\ CoordInv'
  BY <1>23 DEF OnAudioCheck
<1>24. ASSUME OnAudioPush PROVE WakeInv' /\ CoordInv'
  BY <1>24 DEF OnAudioPush
<1>25. ASSUME OnVideoFrame PROVE WakeInv' /\ CoordInv'
  BY <1>25 DEF OnVideoFrame
<1>26. ASSUME OnVideoPush PROVE WakeInv' /\ CoordInv'
  BY <1>26 DEF OnVideoPush, Accepting, NotifyVideo
<1>27. CASE UNCHANGED vars
  BY <1>27 DEF vars
<1>28. QED
  BY <1>1, <1>2, <1>3, <1>4, <1>5, <1>6, <1>7, <1>8, <1>9, <1>10, <1>11, <1>12, <1>13, <1>14, <1>15, <1>16, <1>17, <1>18, <1>19, <1>20, <1>21, <1>22, <1>23, <1>24, <1>25, <1>26, <1>27 DEF Next, StopStep, Coordinator, VideoWorker, Sdk

\* No stop() waits for what cannot happen: not for a video worker that missed
\* its notification, not for a coordinator whose callback waits for that very
\* stop(), not for a stop() that nobody carries out.  This is the part of
\* StopReturns that does not rest on fairness.
THEOREM NeverStuck == Spec => []NoStopIsStuck
<1>1. Init => WakeInv /\ CoordInv
  BY SinkAssumption DEF Init, WakeInv, CoordInv, Stoppers
<1>2. SinkInv /\ WakeInv /\ CoordInv => NoStopIsStuck
  <2> SUFFICES ASSUME SinkInv, WakeInv, CoordInv, NEW t \in Stoppers
               PROVE  /\ call[t] = "joinAudio" => AudioCanGoOn
                      /\ call[t] = "joinVideo" => VideoCanGoOn
                      /\ call[t] = "joinCoord" /\ t # "coordinator" => CoordCanGoOn
                      /\ call[t] = "close" => onAudio # "checked" /\ video # "sleepy"
                      /\ call[t] = "stop" /\ stopInProgress =>
                            t = "coordinator" \/ \E u \in Stoppers \ {t} : call[u] \in StopSteps
    BY DEF NoStopIsStuck
  <2> USE DEF SinkInv, TypeOK, LockInv, SessionInv, DrainInv, StopSteps, Quieted, VideoJoined
  <2>1. call[t] = "joinAudio" => AudioCanGoOn
    BY DEF AudioCanGoOn
  <2>2. call[t] = "joinVideo" => VideoCanGoOn
    BY DEF VideoCanGoOn, WakeInv
  <2>3. call[t] = "joinCoord" /\ t # "coordinator" => CoordCanGoOn
    BY SinkAssumption DEF CoordCanGoOn, CoordInv, Opening, Stoppers, CallSteps
  <2>4. call[t] = "close" => onAudio # "checked" /\ video # "sleepy"
    OBVIOUS
  <2>5. call[t] = "stop" /\ stopInProgress => \E u \in Stoppers \ {t} : call[u] \in StopSteps
    BY DEF WakeInv
  <2>6. QED BY <2>1, <2>2, <2>3, <2>4, <2>5
<1>3. QED BY AlwaysSinkInv, StepKeepsWaits, <1>1, <1>2, PTL DEF Spec

-----------------------------------------------------------------------------
(* The refinement *)

\* What S substitutes for the variables of Session
Phase ==
    IF ~isRecording THEN "idle" ELSE IF Opening THEN "opening"
    ELSE IF stopRequested THEN "ending" ELSE "active"

Pending == audioQ + InFlight + lost

\* A step of Session, in terms of its substituted variables
LEMMA SessionSteps ==
    ASSUME \/ Phase = "idle" /\ Phase' = "opening" /\ Pending' = Pending
           \/ Phase = "opening" /\ Phase' \in {"active", "idle"} /\ Pending' = Pending
           \/ Phase \in {"opening", "active"} /\ Phase' = Phase /\ Pending' = Pending + 1
           \/ Pending > 0 /\ Phase' = Phase /\ Pending' = Pending - 1
           \/ Phase = "active" /\ Phase' = "ending" /\ Pending' = Pending
           \/ Phase = "ending" /\ Pending = 0 /\ Phase' = "idle" /\ Pending' = Pending
           \/ Phase' = Phase /\ Pending' = Pending
    PROVE  [S!SessionNext]_S!sessionVars
  BY DEF S!SessionNext, S!Begin, S!Opened, S!Accept, S!Write, S!AskEnd, S!End, S!sessionVars, Phase, Pending

\* Every step of the sink is a step of the session, or leaves it alone.
LEMMA StepImplements == SinkInv /\ [Next]_vars => [S!SessionNext]_S!sessionVars
<1> SUFFICES ASSUME SinkInv, [Next]_vars PROVE [S!SessionNext]_S!sessionVars
  OBVIOUS
<1> USE SinkAssumption DEF SinkInv, TypeOK, LockInv, SessionInv, DrainInv, Opening, Phase, Pending, InFlight, StopSteps, Quieted, AudioJoined, VideoJoined, flags, callVars, workers, sdkVars, queues, ghosts
<1>1. ASSUME NEW t \in Stoppers, Start(t)
      PROVE  \/ Phase' = Phase /\ Pending' = Pending
             \/ Phase = "idle" /\ Phase' = "opening" /\ Pending' = Pending
  BY <1>1 DEF Start, Launch
<1>2. ASSUME NEW t \in Stoppers, Restart(t)
      PROVE  \/ Phase' = Phase /\ Pending' = Pending
             \/ Phase = "idle" /\ Phase' = "opening" /\ Pending' = Pending
  BY <1>2 DEF Restart, Launch
<1>3. ASSUME NEW t \in Stoppers, Launched(t)
      PROVE  Phase = "opening" /\ Phase' \in {"active", "idle"} /\ Pending' = Pending
  BY <1>3 DEF Launched
<1>4. ASSUME NEW t \in Stoppers, Stop(t)
      PROVE  Phase' = Phase /\ Pending' = Pending
  BY <1>4 DEF Stop, Goto
<1>5. ASSUME NEW t \in Stoppers, StopEnter(t)
      PROVE  \/ Phase' = Phase /\ Pending' = Pending
             \/ Phase = "active" /\ Phase' = "ending" /\ Pending' = Pending
  BY <1>5 DEF StopEnter, Goto
<1>6. ASSUME NEW t \in Stoppers, WakeAudio(t)
      PROVE  Phase' = Phase /\ Pending' = Pending
  BY <1>6 DEF WakeAudio, Goto
<1>7. ASSUME NEW t \in Stoppers, WakeVideo(t)
      PROVE  Phase' = Phase /\ Pending' = Pending
  BY <1>7 DEF WakeVideo, Goto, NotifyVideo
<1>8. ASSUME NEW t \in Stoppers, JoinAudio(t)
      PROVE  Phase' = Phase /\ Pending' = Pending
  BY <1>8 DEF JoinAudio, Goto
<1>9. ASSUME NEW t \in Stoppers, JoinVideo(t)
      PROVE  Phase' = Phase /\ Pending' = Pending
  BY <1>9 DEF JoinVideo, Goto
<1>10. ASSUME NEW t \in Stoppers, JoinCoord(t)
      PROVE  Phase' = Phase /\ Pending' = Pending
  BY <1>10 DEF JoinCoord, Goto
<1>11. ASSUME NEW t \in Stoppers, Close(t)
      PROVE  Phase' = Phase /\ Pending' = Pending
  BY <1>11 DEF Close, Goto
<1>12. ASSUME NEW t \in Stoppers, Clear(t)
      PROVE  \/ Phase' = Phase /\ Pending' = Pending
             \/ Phase = "ending" /\ Pending = 0 /\ Phase' = "idle" /\ Pending' = Pending
  BY <1>12 DEF Clear, Goto
<1>13. ASSUME DurationPasses
      PROVE  Phase' = Phase /\ Pending' = Pending
  BY <1>13 DEF DurationPasses
<1>14. ASSUME CoordLook
      PROVE  \/ Phase' = Phase /\ Pending' = Pending
             \/ Phase = "active" /\ Phase' = "ending" /\ Pending' = Pending
  BY <1>14 DEF CoordLook
<1>15. ASSUME CoordWake
      PROVE  Phase' = Phase /\ Pending' = Pending
  BY <1>15 DEF CoordWake, NotifyVideo
<1>16. ASSUME CoordEnd
      PROVE  Phase' = Phase /\ Pending' = Pending
  BY <1>16 DEF CoordEnd
<1>17. ASSUME AudioLoop
      PROVE  Phase' = Phase /\ Pending' = Pending
  BY <1>17 DEF AudioLoop
<1>18. ASSUME AudioTake
      PROVE  Phase' = Phase /\ Pending' = Pending
  BY <1>18 DEF AudioTake
<1>19. ASSUME AudioEncode
      PROVE  Pending > 0 /\ Phase' = Phase /\ Pending' = Pending - 1
  BY <1>19 DEF AudioEncode
<1>20. ASSUME VideoWorker
      PROVE  Phase' = Phase /\ Pending' = Pending
  BY <1>20 DEF VideoWorker, VideoLoop, VideoSleep, VideoTake, VideoEncode
<1>21. ASSUME OnAudioFrame
      PROVE  Phase' = Phase /\ Pending' = Pending
  BY <1>21 DEF OnAudioFrame, Accepting
<1>22. ASSUME OnAudioCheck
      PROVE  \/ Phase' = Phase /\ Pending' = Pending
             \/ Phase \in {"opening", "active"} /\ Phase' = Phase /\ Pending' = Pending + 1
  BY <1>22 DEF OnAudioCheck, Accepting
<1>23. ASSUME OnAudioPush
      PROVE  \/ Phase' = Phase /\ Pending' = Pending
             \/ Pending > 0 /\ Phase' = Phase /\ Pending' = Pending - 1
  BY <1>23 DEF OnAudioPush
<1>24. ASSUME OnVideoFrame
      PROVE  Phase' = Phase /\ Pending' = Pending
  BY <1>24 DEF OnVideoFrame, Accepting
<1>25. ASSUME OnVideoPush
      PROVE  Phase' = Phase /\ Pending' = Pending
  BY <1>25 DEF OnVideoPush, Accepting, NotifyVideo
<1>26. CASE UNCHANGED vars
  BY <1>26 DEF vars, S!sessionVars
<1>27. QED
  BY <1>1, <1>2, <1>3, <1>4, <1>5, <1>6, <1>7, <1>8, <1>9, <1>10, <1>11, <1>12, <1>13, <1>14, <1>15, <1>16, <1>17, <1>18, <1>19, <1>20, <1>21, <1>22, <1>23, <1>24, <1>25, <1>26, SessionSteps DEF Next, StopStep, Coordinator, AudioWorker, Sdk

\* The sink implements Session: sessions do not overlap, and one ends only
\* when every audio frame it accepted was encoded.
THEOREM SinkImplementsSession == Spec => ImplementsSession
<1>1. Init => S!SessionInit
  BY DEF Init, S!SessionInit, InFlight
<1>2. QED BY <1>1, AlwaysSinkInv, StepImplements, PTL DEF Spec, ImplementsSession, S!SessionSpec

=============================================================================
