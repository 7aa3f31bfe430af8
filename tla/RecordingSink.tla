---------------------------- MODULE RecordingSink ----------------------------
(***************************************************************************)
(* The threads of RecordingSink (src/src/recording_sink.cpp): callers of   *)
(* start() and stop(), the coordinator that ends a recording after its     *)
(* maximal duration and may itself call stop() from the completion         *)
(* callback, the audio and the video worker, and the SDK threads that      *)
(* deliver frames.  Frames are counted, not named.                         *)
(*                                                                         *)
(* A mutex is modelled where a thread holds it over two steps:             *)
(* audioQueueMutex_ between the check and the push of onAudioFrame, and    *)
(* videoQueueMutex_ between the wait predicate and falling asleep.         *)
(* mutex_ is never held over a blocking call: its sections are one step.   *)
(***************************************************************************)
EXTENDS Naturals

CONSTANTS
    Callers,        \* the external threads that call start() and stop()
    AudioBuffer,    \* config_.audioBufferSize
    VideoBuffer,    \* config_.videoBufferSize
    MaxSessions,    \* bound: recordings started
    MaxFrames       \* bound: audio and video frames delivered

ASSUME SinkAssumption ==
    /\ "coordinator" \notin Callers
    /\ AudioBuffer \in Nat \ {0} /\ VideoBuffer \in Nat \ {0}
    /\ MaxSessions \in Nat /\ MaxFrames \in Nat

VARIABLES
    isRecording, stopRequested, stopInProgress,
    haveThread,     \* recordingThread_ is set
    expired,        \* config_.maxDurationSeconds have passed
    call,           \* where each thread is in start() or stop()
    resume,         \* where its stop() returns: "out", or "restart" inside start()
    wasRecording,   \* the local of stop()
    coord, audio, video,    \* the three worker threads; "none" is joined or not created
    onAudio, onVideo,       \* the SDK threads in onAudioFrame and onVideoFrame
    audioQ, videoQ,         \* the lengths of the frame queues
    opened, closed,         \* sessions begun, and those whose files were finalised or that were given up
    lost,                   \* accepted audio frames thrown away when the files were finalised
    frames                  \* frames delivered so far

flags == <<isRecording, stopRequested, stopInProgress, haveThread, expired>>
callVars == <<call, resume, wasRecording>>
sdkVars == <<onAudio, onVideo, frames>>
ghosts == <<opened, closed, lost>>
workers == <<coord, audio, video>>
queues == <<audioQ, videoQ>>
vars == <<flags, callVars, workers, sdkVars, queues, ghosts>>

Stoppers == Callers \cup {"coordinator"}

\* isRecording(): frames are accepted until somebody asked for the end.
Accepting == isRecording /\ ~stopRequested

Init ==
    /\ isRecording = FALSE /\ stopRequested = FALSE /\ stopInProgress = FALSE
    /\ haveThread = FALSE /\ expired = FALSE
    /\ call = [t \in Stoppers |-> "out"]
    /\ resume = [t \in Stoppers |-> "out"]
    /\ wasRecording = [t \in Stoppers |-> FALSE]
    /\ coord = "none" /\ audio = "none" /\ video = "none"
    /\ onAudio = "out" /\ onVideo = "out"
    /\ audioQ = 0 /\ videoQ = 0
    /\ opened = 0 /\ closed = 0 /\ lost = 0
    /\ frames = 0

-----------------------------------------------------------------------------
(* start() *)

\* isRecording_ is set first, so frames are accepted while the session is
\* being opened.  mutex_ is held until the call is over.
Opening == \E t \in Stoppers : call[t] = "launch"

Launch(t) ==
    /\ isRecording' = TRUE /\ stopRequested' = FALSE /\ expired' = FALSE
    /\ call' = [call EXCEPT ![t] = "launch"]
    /\ resume' = [resume EXCEPT ![t] = "out"]
    /\ opened' = opened + 1
    /\ UNCHANGED <<stopInProgress, haveThread, closed, lost>>

\* A coordinator kept from a session that ended in its callback is reaped
\* first, by a stop() inside start().
Start(t) ==
    /\ t \in Callers /\ call[t] = "out" /\ opened < MaxSessions /\ ~Opening
    /\ ~isRecording /\ ~stopInProgress
    /\ IF haveThread
       THEN /\ call' = [call EXCEPT ![t] = "stop"]
            /\ resume' = [resume EXCEPT ![t] = "restart"]
            /\ UNCHANGED <<flags, ghosts>>
       ELSE Launch(t)
    /\ UNCHANGED <<wasRecording, workers, sdkVars, queues>>

\* Back from that stop(), under mutex_ again: everything is checked again.
Restart(t) ==
    /\ call[t] = "restart" /\ ~Opening
    /\ IF isRecording \/ stopInProgress \/ haveThread \/ opened = MaxSessions
       THEN /\ call' = [call EXCEPT ![t] = "out"]
            /\ resume' = [resume EXCEPT ![t] = "out"]
            /\ UNCHANGED <<flags, ghosts>>
       ELSE Launch(t)
    /\ UNCHANGED <<wasRecording, workers, sdkVars, queues>>

\* The segment manager opened its session and the threads are created, or it
\* could not and the recording is given up.
Launched(t) ==
    /\ call[t] = "launch"
    /\ call' = [call EXCEPT ![t] = "out"]
    /\ \/ /\ coord' = "loop" /\ audio' = "loop" /\ video' = "loop"
          /\ haveThread' = TRUE
          /\ UNCHANGED <<isRecording, closed>>
       \/ /\ isRecording' = FALSE /\ closed' = closed + 1
          /\ UNCHANGED <<workers, haveThread>>
    /\ UNCHANGED <<stopRequested, stopInProgress, expired, resume, wasRecording, opened, lost,
                   sdkVars, queues>>

-----------------------------------------------------------------------------
(* stop(), which several threads may run at once *)

Goto(t, from, to) ==
    /\ call[t] = from
    /\ call' = [call EXCEPT ![t] = to]
    /\ UNCHANGED resume

\* A thread calls stop(): an external one at any time, the coordinator from
\* the completion callback.
Stop(t) ==
    /\ Goto(t, "out", "stop")
    /\ \/ t \in Callers /\ UNCHANGED coord
       \/ t = "coordinator" /\ coord = "callback" /\ coord' = "returning"
    /\ UNCHANGED <<flags, wasRecording, audio, video, sdkVars, queues, ghosts>>

\* Mutant of StopEnter: a second stop() does not wait for the first.
StopEnterTwice(t) ==
    /\ ~Opening
    /\ Goto(t, "stop", IF isRecording \/ haveThread THEN "wakeAudio" ELSE resume[t])
    /\ stopInProgress' = (isRecording \/ haveThread)
    /\ stopRequested' = (stopRequested \/ isRecording \/ haveThread)
    /\ wasRecording' = [wasRecording EXCEPT ![t] = isRecording]
    /\ UNCHANGED <<isRecording, haveThread, expired, workers, sdkVars, queues, ghosts>>

\* The first section under mutex_.  A stop() in progress is waited for, but
\* not by the coordinator, which that stop() is going to join.
StopEnter(t) ==
    /\ ~Opening
    /\ \/ /\ stopInProgress /\ t = "coordinator"
          /\ Goto(t, "stop", "out")
          /\ UNCHANGED <<stopRequested, stopInProgress, wasRecording>>
       \/ /\ ~stopInProgress /\ ~isRecording /\ ~haveThread
          /\ Goto(t, "stop", resume[t])
          /\ UNCHANGED <<stopRequested, stopInProgress, wasRecording>>
       \/ /\ ~stopInProgress /\ (isRecording \/ haveThread)
          /\ Goto(t, "stop", "wakeAudio")
          /\ stopInProgress' = TRUE /\ stopRequested' = TRUE
          /\ wasRecording' = [wasRecording EXCEPT ![t] = isRecording]
    /\ UNCHANGED <<isRecording, haveThread, expired, workers, sdkVars, queues, ghosts>>

\* wakeProcessingThreads(): each notification is sent under the queue's mutex.
WakeAudio(t) ==
    /\ Goto(t, "wakeAudio", "wakeVideo")
    /\ onAudio # "checked"
    /\ UNCHANGED <<flags, wasRecording, workers, sdkVars, queues, ghosts>>

\* Mutant of NotifyVideo: notified without the mutex, before the worker sleeps.
NotifyVideoUnlocked ==
    video' = IF video = "asleep" THEN "work" ELSE video

NotifyVideo ==
    /\ video # "sleepy"
    /\ video' = IF video = "asleep" THEN "work" ELSE video

WakeVideo(t) ==
    /\ Goto(t, "wakeVideo", "joinAudio")
    /\ NotifyVideo
    /\ UNCHANGED <<flags, wasRecording, coord, audio, sdkVars, queues, ghosts>>

JoinAudio(t) ==
    /\ Goto(t, "joinAudio", "joinVideo")
    /\ audio \in {"none", "done"}
    /\ audio' = "none"
    /\ UNCHANGED <<flags, wasRecording, coord, video, sdkVars, queues, ghosts>>

\* Mutant of JoinVideo: the video worker is left to itself.
DetachVideo(t) ==
    /\ Goto(t, "joinVideo", "joinCoord")
    /\ UNCHANGED <<flags, wasRecording, workers, sdkVars, queues, ghosts>>

JoinVideo(t) ==
    /\ Goto(t, "joinVideo", "joinCoord")
    /\ video \in {"none", "done"}
    /\ video' = "none"
    /\ UNCHANGED <<flags, wasRecording, coord, audio, sdkVars, queues, ghosts>>

\* The coordinator cannot join itself; it stays joinable for the next stop().
JoinCoord(t) ==
    /\ Goto(t, "joinCoord", "close")
    /\ \/ t = "coordinator" /\ UNCHANGED <<coord, haveThread>>
       \/ /\ t # "coordinator" /\ coord \in {"none", "done"}
          /\ coord' = "none" /\ haveThread' = FALSE
    /\ UNCHANGED <<isRecording, stopRequested, stopInProgress, expired, wasRecording, audio, video,
                   sdkVars, queues, ghosts>>

\* Encoders and files are finalised, then the queues are emptied, unless this
\* call only reaped the coordinator.
Close(t) ==
    /\ Goto(t, "close", "clear")
    /\ onAudio # "checked" /\ video # "sleepy"
    /\ IF wasRecording[t]
       THEN closed' = closed + 1 /\ lost' = lost + audioQ /\ audioQ' = 0 /\ videoQ' = 0
       ELSE UNCHANGED <<closed, lost, queues>>
    /\ UNCHANGED <<flags, wasRecording, workers, sdkVars, opened>>

\* The last section under mutex_, which wakes the waiting stop() calls.
Clear(t) ==
    /\ Goto(t, "clear", resume[t])
    /\ isRecording' = (isRecording /\ ~wasRecording[t])
    /\ stopInProgress' = FALSE
    /\ UNCHANGED <<stopRequested, haveThread, expired, wasRecording, workers, sdkVars, queues,
                   ghosts>>

StopStep(t) ==
    \/ StopEnter(t) \/ WakeAudio(t) \/ WakeVideo(t) \/ JoinAudio(t) \/ JoinVideo(t)
    \/ JoinCoord(t) \/ Close(t) \/ Clear(t)

-----------------------------------------------------------------------------
(* recordingThread(): the coordinator, which looks every 10 ms *)

DurationPasses ==
    /\ isRecording /\ ~expired
    /\ expired' = TRUE
    /\ UNCHANGED <<isRecording, stopRequested, stopInProgress, haveThread, callVars, workers,
                   sdkVars, queues, ghosts>>

\* The loop ends when somebody else asked for the end, or here, when the
\* maximal duration is over.
CoordLook ==
    /\ coord = "loop" /\ ~Opening /\ (stopRequested \/ expired)
    /\ coord' = IF stopRequested THEN "done" ELSE "wakeAudio"
    /\ stopRequested' = TRUE
    /\ UNCHANGED <<isRecording, stopInProgress, haveThread, expired, callVars, audio, video,
                   sdkVars, queues, ghosts>>

CoordWake ==
    /\ \/ coord = "wakeAudio" /\ onAudio # "checked" /\ coord' = "wakeVideo" /\ UNCHANGED video
       \/ coord = "wakeVideo" /\ NotifyVideo /\ coord' = "callback"
    /\ UNCHANGED <<flags, callVars, audio, sdkVars, queues, ghosts>>

\* The callback is over, with or without a stop() of its own.
CoordEnd ==
    /\ coord \in {"callback", "returning"} /\ call["coordinator"] = "out"
    /\ coord' = "done"
    /\ UNCHANGED <<flags, callVars, audio, video, sdkVars, queues, ghosts>>

Coordinator == CoordLook \/ CoordWake \/ CoordEnd

-----------------------------------------------------------------------------
(* The audio worker, which drains its queue once more after the end was    *)
(* asked for, and the video worker, which does not.                        *)

AudioLoop ==
    /\ audio = "loop"
    /\ audio' = IF stopRequested THEN "drain" ELSE "work"
    /\ UNCHANGED <<flags, callVars, coord, video, sdkVars, queues, ghosts>>

AudioTake ==
    /\ audio \in {"work", "drain"} /\ onAudio # "checked"
    /\ \/ /\ audioQ > 0 /\ audioQ' = audioQ - 1
          /\ audio' = IF audio = "work" THEN "encode" ELSE "drainEncode"
       \/ /\ audioQ = 0 /\ UNCHANGED audioQ
          /\ audio' = IF audio = "work" THEN "loop" ELSE "done"
    /\ UNCHANGED <<flags, callVars, coord, video, sdkVars, videoQ, ghosts>>

AudioEncode ==
    /\ audio \in {"encode", "drainEncode"}
    /\ audio' = IF audio = "encode" THEN "work" ELSE "drain"
    /\ UNCHANGED <<flags, callVars, coord, video, sdkVars, queues, ghosts>>

AudioWorker == AudioLoop \/ AudioTake \/ AudioEncode

\* The loop condition and the wait predicate, under videoQueueMutex_.
VideoLoop ==
    /\ video = "loop"
    /\ video' = IF stopRequested THEN "done" ELSE IF videoQ > 0 THEN "work" ELSE "sleepy"
    /\ UNCHANGED <<flags, callVars, coord, audio, sdkVars, queues, ghosts>>

VideoSleep ==
    /\ video = "sleepy"
    /\ video' = "asleep"
    /\ UNCHANGED <<flags, callVars, coord, audio, sdkVars, queues, ghosts>>

VideoTake ==
    /\ video = "work"
    /\ \/ /\ videoQ > 0 /\ ~stopRequested
          /\ videoQ' = videoQ - 1 /\ video' = "encode"
       \/ /\ videoQ = 0 \/ stopRequested
          /\ video' = "loop" /\ UNCHANGED videoQ
    /\ UNCHANGED <<flags, callVars, coord, audio, sdkVars, audioQ, ghosts>>

VideoEncode ==
    /\ video = "encode"
    /\ video' = "work"
    /\ UNCHANGED <<flags, callVars, coord, audio, sdkVars, queues, ghosts>>

VideoWorker == VideoLoop \/ VideoSleep \/ VideoTake \/ VideoEncode

-----------------------------------------------------------------------------
(* The SDK threads.  A frame is checked without a lock, then again under   *)
(* the queue's mutex, and replaces the oldest one of a full queue.         *)

OnAudioFrame ==
    /\ onAudio = "out" /\ Accepting /\ frames < MaxFrames
    /\ onAudio' = "seen"
    /\ frames' = frames + 1
    /\ UNCHANGED <<flags, callVars, workers, onVideo, queues, ghosts>>

\* Mutant of OnAudioCheck: the frame is not checked again under the lock.
OnAudioUnchecked ==
    /\ onAudio = "seen"
    /\ onAudio' = "checked"
    /\ UNCHANGED <<flags, callVars, workers, onVideo, frames, queues, ghosts>>

OnAudioCheck ==
    /\ onAudio = "seen"
    /\ onAudio' = IF Accepting THEN "checked" ELSE "out"
    /\ UNCHANGED <<flags, callVars, workers, onVideo, frames, queues, ghosts>>

\* Mutant of OnAudioPush: a full queue keeps its oldest frame.
OnAudioPushUnbounded ==
    /\ onAudio = "checked"
    /\ onAudio' = "out"
    /\ audioQ' = audioQ + 1
    /\ UNCHANGED <<flags, callVars, workers, onVideo, frames, videoQ, ghosts>>

OnAudioPush ==
    /\ onAudio = "checked"
    /\ onAudio' = "out"
    /\ audioQ' = IF audioQ >= AudioBuffer THEN AudioBuffer ELSE audioQ + 1
    /\ UNCHANGED <<flags, callVars, workers, onVideo, frames, videoQ, ghosts>>

OnVideoFrame ==
    /\ onVideo = "out" /\ Accepting /\ frames < MaxFrames
    /\ onVideo' = "seen"
    /\ frames' = frames + 1
    /\ UNCHANGED <<flags, callVars, workers, onAudio, queues, ghosts>>

OnVideoPush ==
    /\ onVideo = "seen"
    /\ onVideo' = "out"
    /\ \/ /\ Accepting /\ NotifyVideo
          /\ videoQ' = IF videoQ >= VideoBuffer THEN VideoBuffer ELSE videoQ + 1
       \/ /\ ~Accepting
          /\ UNCHANGED <<video, videoQ>>
    /\ UNCHANGED <<flags, callVars, coord, audio, onAudio, frames, audioQ, ghosts>>

Sdk == OnAudioFrame \/ OnAudioCheck \/ OnAudioPush \/ OnVideoFrame \/ OnVideoPush

-----------------------------------------------------------------------------
Next ==
    \/ \E t \in Stoppers : Start(t) \/ Restart(t) \/ Launched(t) \/ Stop(t) \/ StopStep(t)
    \/ DurationPasses \/ Coordinator \/ AudioWorker \/ VideoWorker \/ Sdk

\* Threads that can run do run, and time passes; nobody has to call the sink.
Fairness ==
    /\ \A t \in Stoppers : WF_vars(StopStep(t)) /\ WF_vars(Restart(t)) /\ WF_vars(Launched(t))
    /\ WF_vars(Coordinator) /\ WF_vars(AudioWorker) /\ WF_vars(VideoWorker)
    /\ WF_vars(OnAudioCheck) /\ WF_vars(OnAudioPush) /\ WF_vars(OnVideoPush)
    /\ WF_vars(DurationPasses)

Spec == Init /\ [][Next]_vars /\ Fairness

-----------------------------------------------------------------------------
(* Properties *)

CallSteps == {"out", "stop", "wakeAudio", "wakeVideo", "joinAudio", "joinVideo", "joinCoord",
              "close", "clear", "restart", "launch"}

\* Types of the state, and the bounds of the two queues (config_.audioBufferSize and
\* config_.videoBufferSize) that onAudioFrame and onVideoFrame must keep.
TypeOK ==
    /\ isRecording \in BOOLEAN /\ stopRequested \in BOOLEAN /\ stopInProgress \in BOOLEAN
    /\ haveThread \in BOOLEAN /\ expired \in BOOLEAN
    /\ call \in [Stoppers -> CallSteps]
    /\ resume \in [Stoppers -> {"out", "restart"}]
    /\ wasRecording \in [Stoppers -> BOOLEAN]
    /\ coord \in {"none", "loop", "wakeAudio", "wakeVideo", "callback", "returning", "done"}
    /\ audio \in {"none", "loop", "work", "encode", "drain", "drainEncode", "done"}
    /\ video \in {"none", "loop", "sleepy", "asleep", "work", "encode", "done"}
    /\ onAudio \in {"out", "seen", "checked"} /\ onVideo \in {"out", "seen"}
    /\ audioQ \in 0..AudioBuffer /\ videoQ \in 0..VideoBuffer
    /\ opened \in 0..MaxSessions /\ closed \in Nat /\ lost \in Nat
    /\ frames \in 0..MaxFrames

\* No worker outlives its recording: when the sink is not recording, the files
\* of every session were finalised exactly once and neither worker exists, so
\* that the next start() cannot meet a thread of the last one.
QuietWhenIdle ==
    /\ ~isRecording => opened = closed /\ audio = "none" /\ video = "none"
    /\ isRecording => closed \in {opened - 1, opened}

\* The encoders are never used after stop() finalised them: a frame in the
\* hands of a worker belongs to a session whose files are open.
WriteBeforeClose ==
    (audio \in {"encode", "drainEncode"} \/ video = "encode") =>
        isRecording /\ opened = closed + 1

\* Accepted audio outside the queue: on its way in, and with the audio worker.
InFlight ==
    (IF onAudio = "checked" THEN 1 ELSE 0)
        + (IF audio \in {"encode", "drainEncode"} THEN 1 ELSE 0)

\* The sink as a session: audio accepted by onAudioFrame is the pending work.
S == INSTANCE Session WITH
    phase <- IF ~isRecording THEN "idle" ELSE IF Opening THEN "opening"
             ELSE IF stopRequested THEN "ending" ELSE "active",
    pending <- audioQ + InFlight + lost

\* The sink implements Session: recordings do not overlap, and stop() ends
\* one only after every accepted audio frame was encoded ("drain accepted PCM
\* before finalizing AAC"), whoever calls it and whenever.
ImplementsSession == S!SessionSpec

\* Every stop() returns, whether called by one thread, by two, or by the
\* completion callback on the thread that another stop() is joining.
StopReturns == \A t \in Stoppers : call[t] # "out" ~> call[t] = "out"
=============================================================================
