---------------------------- MODULE StreamingSink ----------------------------
(***************************************************************************)
(* StreamingSink (src/src/streaming_sink.cpp) and its StreamingOutput: the *)
(* publishing thread with its connection attempts, back-off and deadline,  *)
(* the threads that call initialize(), start() and stop(), and the SDK     *)
(* thread that delivers media.  lifecycleMutex_ is a variable, because     *)
(* stop() holds it while it joins; sections under mutex_ are one step.     *)
(* Audio is told apart only by whether it came during an outage; of video  *)
(* the sink keeps one composed frame, pendingVideo_, which is left out.    *)
(***************************************************************************)
EXTENDS Naturals

CONSTANTS
    Callers,        \* the threads that call the sink
    Attempts,       \* config_.reconnectAttempts
    MaxSessions,    \* bound: streams started
    MaxOutages      \* bound: connections that succeed and are lost again

ASSUME StreamAssumption ==
    /\ "none" \notin Callers
    /\ Attempts \in Nat /\ MaxSessions \in Nat /\ MaxOutages \in Nat

VARIABLES
    initialized, active, stopping, failed, outputFailed,    \* the flags of the sink
    late,           \* the task's deadline has passed
    lifecycle,      \* the holder of lifecycleMutex_, or "none"
    call,           \* where each caller is in stop()
    worker,         \* the publishing thread; "done" is joinable, "none" does not exist
    attempt,        \* the loop variable of reconnect()
    output,         \* the transport: "closed" or "open"
    buffered,       \* what is in the mixer: "live" and "outage" audio
    media,          \* the SDK thread: "out", or "in" past isStreaming()
    sessions,       \* streams started
    reported,       \* completion callbacks made for this stream
    opens,          \* connection attempts since the last success
    outages

flags == <<initialized, active, stopping, failed>>
threads == <<lifecycle, call, worker, attempt>>
counts == <<sessions, reported, opens, outages>>
vars == <<flags, outputFailed, late, threads, output, buffered, media, counts>>

IsStreaming == active /\ ~stopping

Init ==
    /\ initialized = FALSE /\ active = FALSE /\ stopping = FALSE /\ failed = FALSE
    /\ outputFailed = FALSE /\ late = FALSE
    /\ lifecycle = "none" /\ call = [t \in Callers |-> "out"]
    /\ worker = "none" /\ attempt = 0
    /\ output = "closed" /\ buffered = {} /\ media = "out"
    /\ sessions = 0 /\ reported = 0 /\ opens = 0 /\ outages = 0

-----------------------------------------------------------------------------
(* The callers *)

\* A free sink takes a configuration, or refuses an invalid one.
Initialize(t) ==
    /\ call[t] = "out" /\ lifecycle = "none"
    /\ ~active /\ worker = "none"
    /\ \/ initialized' = TRUE /\ failed' = FALSE /\ buffered' = {}
       \/ initialized' = FALSE /\ UNCHANGED <<failed, buffered>>
    /\ UNCHANGED <<active, stopping, outputFailed, late, threads, output, media, counts>>

\* The task is accepted; everything else happens on the publishing thread,
\* unless that cannot be created.
Start(t) ==
    /\ call[t] = "out" /\ lifecycle = "none" /\ sessions < MaxSessions
    /\ initialized /\ ~active /\ worker = "none"
    /\ stopping' = FALSE /\ late' = FALSE
    /\ sessions' = sessions + 1
    /\ \/ active' = TRUE /\ failed' = FALSE /\ worker' = "begin"
       \/ failed' = TRUE /\ UNCHANGED <<active, worker>>
    /\ reported' = 0 /\ opens' = 0 /\ outages' = 0
    /\ UNCHANGED <<initialized, outputFailed, lifecycle, call, attempt, output, buffered, media>>

\* stop() tells the publishing thread first, then takes the lock.
Stop(t) ==
    /\ call[t] = "out"
    /\ stopping' = TRUE
    /\ call' = [call EXCEPT ![t] = "lock"]
    /\ UNCHANGED <<initialized, active, failed, outputFailed, late, lifecycle, worker, attempt,
                   output, buffered, media, counts>>

StopLock(t) ==
    /\ call[t] = "lock" /\ lifecycle = "none"
    /\ lifecycle' = t
    /\ call' = [call EXCEPT ![t] = "join"]
    /\ UNCHANGED <<flags, outputFailed, late, worker, attempt, output, buffered, media, counts>>

StopJoin(t) ==
    /\ call[t] = "join" /\ worker \in {"none", "done"}
    /\ worker' = "none" /\ active' = FALSE
    /\ call' = [call EXCEPT ![t] = "clean"]
    /\ UNCHANGED <<initialized, stopping, failed, outputFailed, late, lifecycle, attempt, output,
                   buffered, media, counts>>

StopClean(t) ==
    /\ call[t] = "clean"
    /\ output' = "closed" /\ buffered' = {} /\ initialized' = FALSE
    /\ lifecycle' = "none"
    /\ call' = [call EXCEPT ![t] = "out"]
    /\ UNCHANGED <<active, stopping, failed, outputFailed, late, worker, attempt, media, counts>>

StopStep(t) == StopLock(t) \/ StopJoin(t) \/ StopClean(t)

-----------------------------------------------------------------------------
(* run(), the publishing thread *)

WorkerGo(to) ==
    /\ worker' = to
    /\ UNCHANGED <<lifecycle, call>>

DeadlinePasses ==
    /\ active /\ ~late
    /\ late' = TRUE
    /\ UNCHANGED <<flags, outputFailed, threads, output, buffered, media, counts>>

\* openSession() returns at once when the end is known.
Open ==
    /\ worker \in {"begin", "retry"}
    /\ outputFailed' = FALSE
    /\ IF stopping \/ late
       THEN WorkerGo(IF worker = "begin" THEN "close" ELSE "exhausted") /\ UNCHANGED opens
       ELSE /\ WorkerGo(IF worker = "begin" THEN "opening" ELSE "reopening")
            /\ opens' = opens + 1
    /\ UNCHANGED <<flags, late, attempt, output, buffered, media, sessions, reported, outages>>

\* Mutant: the mixer is not reset.
OpenKeepsAudio ==
    /\ worker \in {"opening", "reopening"} /\ outages <= MaxOutages
    /\ output' = "open"
    /\ opens' = 0 /\ outages' = outages + 1
    /\ WorkerGo("loop")
    /\ UNCHANGED <<flags, outputFailed, late, attempt, buffered, media, sessions, reported>>

\* Connected, perhaps after stop() was called: what the mixer collected while
\* there was no connection is dropped.
OpenSucceeds ==
    /\ worker \in {"opening", "reopening"} /\ outages <= MaxOutages
    /\ output' = "open" /\ buffered' = {}
    /\ opens' = 0 /\ outages' = outages + 1
    /\ WorkerGo("loop")
    /\ UNCHANGED <<flags, outputFailed, late, attempt, media, sessions, reported>>

\* Mutant: attempts counted from zero.
AttemptFromZero(n) == /\ attempt' = n
                      /\ WorkerGo(IF n <= Attempts + 1 THEN "backoff" ELSE "exhausted")

\* Where reconnect() goes for its n-th attempt.
Attempt(n) == /\ attempt' = n
              /\ WorkerGo(IF n <= Attempts THEN "backoff" ELSE "exhausted")

\* The destination could not be reached, or stop() or the deadline interrupted
\* the attempt.
OpenFails ==
    /\ worker \in {"opening", "reopening"}
    /\ outputFailed' = TRUE
    /\ IF worker = "reopening" THEN Attempt(attempt + 1)
       ELSE IF stopping \/ late THEN WorkerGo("close") /\ UNCHANGED attempt
       ELSE Attempt(1)
    /\ UNCHANGED <<flags, late, output, buffered, media, counts>>

\* An encoder could not be opened: that is final.
EncoderFails ==
    /\ worker \in {"opening", "reopening"}
    /\ IF worker = "reopening" THEN WorkerGo("exhausted") /\ UNCHANGED failed
       ELSE WorkerGo("close") /\ failed' = (failed \/ (~stopping /\ ~late))
    /\ UNCHANGED <<initialized, active, stopping, outputFailed, late, attempt, output, buffered,
                   media, counts>>

\* The delay is over, or was cut short.
Backoff ==
    /\ worker = "backoff"
    /\ WorkerGo(IF stopping \/ failed \/ late THEN "exhausted" ELSE "retry")
    /\ UNCHANGED <<flags, outputFailed, late, attempt, output, buffered, media, counts>>

\* Mutant: an exhausted budget is not a failure.
ExhaustedSilently ==
    /\ worker = "exhausted"
    /\ attempt' = 0
    /\ WorkerGo("close")
    /\ UNCHANGED <<flags, outputFailed, late, output, buffered, media, counts>>

\* reconnect() returns false.
Exhausted ==
    /\ worker = "exhausted"
    /\ failed' = (failed \/ (~stopping /\ ~late))
    /\ attempt' = 0
    /\ WorkerGo("close")
    /\ UNCHANGED <<initialized, active, stopping, outputFailed, late, output, buffered, media,
                   counts>>

\* One turn of the publishing loop.
Publish ==
    /\ worker = "loop"
    /\ IF stopping \/ failed \/ late THEN WorkerGo("close") ELSE WorkerGo("write")
    /\ UNCHANGED <<flags, outputFailed, late, attempt, output, buffered, media, counts>>

WriteSucceeds ==
    /\ worker = "write"
    /\ buffered' = {}
    /\ WorkerGo("loop")
    /\ UNCHANGED <<flags, outputFailed, late, attempt, output, media, counts>>

\* Media was not written: the transport is replaced, an encoder is not, and a
\* stream that is ending anyway only goes back to the loop.
WriteFails ==
    /\ worker = "write"
    /\ \/ /\ stopping \/ late
          /\ WorkerGo("loop")
          /\ UNCHANGED <<failed, outputFailed, attempt, output>>
       \/ /\ ~stopping /\ ~late
          /\ failed' = TRUE /\ WorkerGo("loop")
          /\ UNCHANGED <<outputFailed, attempt, output>>
       \/ /\ ~stopping /\ ~late
          /\ outputFailed' = TRUE /\ output' = "closed"
          /\ Attempt(1) /\ UNCHANGED failed
    /\ UNCHANGED <<initialized, active, stopping, late, buffered, media, counts>>

\* The end of run(): transport and encoders are closed, and the owner hears of
\* an end that it did not ask for.
Close ==
    /\ worker = "close"
    /\ output' = "closed" /\ active' = FALSE
    /\ WorkerGo("decide")
    /\ UNCHANGED <<initialized, stopping, failed, outputFailed, late, attempt, buffered, media,
                   counts>>

Decide ==
    /\ worker = "decide"
    /\ IF ~stopping /\ (failed \/ late)
       THEN WorkerGo("callback") /\ reported' = reported + 1
       ELSE WorkerGo("exit") /\ UNCHANGED reported
    /\ UNCHANGED <<flags, outputFailed, late, attempt, output, buffered, media, sessions, opens,
                   outages>>

\* Mutant: the publishing thread waits for itself.
CallbackJoins ==
    /\ worker = "callback"
    /\ stopping' = TRUE
    /\ WorkerGo("join")
    /\ UNCHANGED <<initialized, active, failed, outputFailed, late, attempt, output, buffered,
                   media, counts>>

\* stop() from the callback: the publishing thread only sets the flag.
CallbackStops ==
    /\ worker = "callback"
    /\ stopping' = TRUE
    /\ WorkerGo("exit")
    /\ UNCHANGED <<initialized, active, failed, outputFailed, late, attempt, output, buffered,
                   media, counts>>

Exit ==
    /\ worker \in {"callback", "exit"}
    /\ attempt' = 0
    /\ WorkerGo("done")
    /\ UNCHANGED <<flags, outputFailed, late, output, buffered, media, counts>>

Worker ==
    \/ Open \/ OpenSucceeds \/ OpenFails \/ EncoderFails \/ Backoff \/ Exhausted \/ Publish
    \/ WriteSucceeds \/ WriteFails \/ Close \/ Decide \/ CallbackStops \/ Exit

-----------------------------------------------------------------------------
(* onAudioFrame() and onVideoFrame() on an SDK thread *)

OnFrame ==
    /\ media = "out" /\ IsStreaming
    /\ media' = "in"
    /\ UNCHANGED <<flags, outputFailed, late, threads, output, buffered, counts>>

\* The frame is buffered, or its processing fails and with it the stream.
Push ==
    /\ media = "in"
    /\ media' = "out"
    /\ \/ /\ buffered' = buffered \cup {IF output = "open" THEN "live" ELSE "outage"}
          /\ UNCHANGED failed
       \/ failed' = TRUE /\ UNCHANGED buffered
    /\ UNCHANGED <<initialized, active, stopping, outputFailed, late, threads, output, counts>>

-----------------------------------------------------------------------------
Next ==
    \/ \E t \in Callers : Initialize(t) \/ Start(t) \/ Stop(t) \/ StopStep(t)
    \/ DeadlinePasses \/ Worker \/ OnFrame \/ Push

\* Threads run and time passes.  Every connection attempt and every write ends,
\* by its own timeout (StreamingOutput::interrupt).  lifecycleMutex_ starves
\* nobody: the other threads do not call the sink in an endless loop.
Fairness ==
    /\ \A t \in Callers : WF_vars(StopStep(t)) /\ SF_vars(StopLock(t))
    /\ WF_vars(Worker) /\ WF_vars(DeadlinePasses) /\ WF_vars(Push)

Spec == Init /\ [][Next]_vars /\ Fairness

-----------------------------------------------------------------------------
(* Properties *)

Steps == {"none", "begin", "opening", "retry", "reopening", "backoff", "exhausted", "loop",
          "write", "close", "decide", "callback", "exit", "done"}

\* Types of the state; the transport is open only while the publishing thread
\* is in its loop, so stop() never closes what that thread is using.
TypeOK ==
    /\ {initialized, active, stopping, failed, outputFailed, late} \subseteq BOOLEAN
    /\ lifecycle \in Callers \cup {"none"}
    /\ call \in [Callers -> {"out", "lock", "join", "clean"}]
    /\ worker \in Steps /\ attempt \in 0..(Attempts + 1)
    /\ output \in {"closed", "open"}
    /\ output = "open" => worker \in {"loop", "write", "close"}
    /\ buffered \subseteq {"live", "outage"} /\ media \in {"out", "in"}
    /\ sessions \in 0..MaxSessions /\ reported \in Nat
    /\ outages \in Nat

\* A stream never ends in silence, and is never reported twice: when the
\* publishing thread is over and nobody called stop(), the completion callback
\* was made for this stream, whichever of its failures and deadlines ended it.
EndIsReported ==
    /\ reported <= 1
    /\ worker = "done" /\ ~stopping => reported = 1

\* The retry budget of the design (streaming_output_design.md:82): an outage
\* costs at most the original attempt and config_.reconnectAttempts more, and
\* the budget is whole again after a success.
RetryBudget == opens <= Attempts + 1

\* Audio mixed in while there was no connection is not sent after it
\* ("Never replay audio accumulated while the destination was unavailable.").
\* A composed frame that waits in pendingVideo_ is.
NoReplay == worker \in {"loop", "write"} => "outage" \notin buffered

\* stop() returns to its caller, also while another stop() joins, while the
\* callback of the publishing thread stops the sink itself, and when a start()
\* took back the request between its two halves.
StopReturns == \A t \in Callers : call[t] # "out" ~> call[t] = "out"
=============================================================================
