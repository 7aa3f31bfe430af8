----------------------------- MODULE Passthrough -----------------------------
(***************************************************************************)
(* RecordingSink with encoded video (src/src/recording_sink.cpp, from      *)
(* onEncodedVideoFrame() on): the SDK thread writes the packets of a user  *)
(* itself, the audio thread adds the sound, and stop() finalises the file. *)
(* All three do so under userContextsMutex_.  One user; a file is known by *)
(* its first video packet and how it was closed.                           *)
(***************************************************************************)

\* A keyframe with and one without its parameter sets, and another frame
Packets == {"key", "bare", "delta"}

\* The file of a context.  damaged: a video packet could not be written;
\* pending: samples are in audioSampleBuffer, the resampler or the encoder;
\* lost: samples could not be converted or written; entry: the file in the
\* metadata.
NewFile == [first |-> "none", damaged |-> FALSE, pending |-> FALSE, lost |-> FALSE,
            trailer |-> FALSE, entry |-> "none"]

VARIABLES
    sink,       \* isRecording_ and stopRequested_
    arriving,   \* the frame with which the SDK thread has passed its first check, or "none"
    context,    \* the user's PassthroughContext: "waiting" has no extradata, "failed" no header
    file,
    refused     \* some start() has failed after frames were let in

passVars == <<sink, arriving, context, file, refused>>

PassInit ==
    /\ sink = "idle" /\ arriving = "none" /\ refused = FALSE
    /\ context = "none" /\ file = NewFile

IsRecording == sink \in {"starting", "recording"}

-----------------------------------------------------------------------------
(* start() and stop() *)

\* Frames are let in before the session of the segment manager is begun.
StartPassthrough ==
    /\ sink = "idle"
    /\ sink' = "starting"
    /\ UNCHANGED <<arriving, context, file, refused>>

Started ==
    /\ sink = "starting"
    /\ \/ sink' = "recording" /\ UNCHANGED refused
       \/ sink' = "idle" /\ refused' = TRUE
    /\ UNCHANGED <<arriving, context, file>>

RequestStop ==
    /\ sink = "recording"
    /\ sink' = "stopping"
    /\ UNCHANGED <<arriving, context, file, refused>>

\* cleanupPassthroughContext(): the last samples and what the encoder held
\* back, the trailer, and the metadata entry; the context goes in any case.
\* Whether the file is complete is judged by these steps alone: not by packets
\* and samples that could not be written before.
CleanupPassthroughContext ==
    /\ sink = "stopping"
    /\ sink' = "finalized" /\ context' = "none"
    /\ IF context # "open" THEN UNCHANGED file
       ELSE \E flushed, closed \in BOOLEAN :
              file' \in [first : {file.first}, damaged : {file.damaged},
                         pending : {file.pending /\ ~flushed}, lost : {file.lost}, trailer : {closed},
                         entry : {"none", IF flushed /\ closed THEN "complete" ELSE "incomplete"}]
    /\ UNCHANGED <<arriving, refused>>

Stopped ==
    /\ sink = "finalized"
    /\ sink' = "idle"
    /\ UNCHANGED <<arriving, context, file, refused>>

-----------------------------------------------------------------------------
(* onEncodedVideoFrame() *)

OnEncodedVideoFrame(p) ==
    /\ IsRecording /\ arriving = "none"
    /\ arriving' = p
    /\ UNCHANGED <<sink, context, file, refused>>

\* Under the lock: the sink has stopped meanwhile, or no context can be made.
DropFrame ==
    /\ arriving # "none"
    /\ ~IsRecording \/ context = "none"
    /\ arriving' = "none"
    /\ UNCHANGED <<sink, context, file, refused>>

\* setupPassthroughExtradata(): the first keyframe with parameter sets opens the
\* file and writes its header; when that fails it is not tried again.
SetUp(c) ==
    IF c # "waiting" \/ arriving = "delta" THEN {c}
    ELSE IF arriving = "bare" THEN {"waiting"} ELSE {"open", "failed"}

\* writePassthroughVideoPacket()
Written(f) == {[f EXCEPT !.first = IF @ = "none" THEN arriving ELSE @], [f EXCEPT !.damaged = TRUE]}

\* Mutant: a frame that waited for the lock is not checked again.
HandleLate ==
    /\ arriving # "none"
    /\ \E c \in SetUp(IF context = "none" THEN "waiting" ELSE context) :
         LET f == IF context = "none" THEN NewFile ELSE file IN
         context' = c /\ file' \in IF c = "open" THEN Written(f) ELSE {f}
    /\ arriving' = "none"
    /\ UNCHANGED <<sink, refused>>

\* Nothing is written before the header.
HandleFrame ==
    /\ arriving # "none" /\ IsRecording
    /\ \E c \in SetUp(IF context = "none" THEN "waiting" ELSE context) :
         LET f == IF context = "none" THEN NewFile ELSE file IN
         context' = c /\ file' \in IF c = "open" THEN Written(f) ELSE {f}
    /\ arriving' = "none"
    /\ UNCHANGED <<sink, refused>>

\* encodePassthroughAudioFrame() and writePassthroughAudioSamples(): samples
\* wait for a whole frame.  When resampling fails the samples are not taken, and
\* those of a frame are erased before its packets are written: what fails there
\* is lost, which is only logged.  The audio thread also works off its queue
\* after a stop was asked for; without a header the samples are dropped.
AudioFrame ==
    /\ sink \in {"recording", "stopping"} /\ context = "open"
    /\ \E held, fails \in BOOLEAN :
         file' = [file EXCEPT !.pending = held, !.lost = @ \/ fails]
    /\ UNCHANGED <<sink, arriving, context, refused>>

-----------------------------------------------------------------------------
PassNext ==
    \/ StartPassthrough \/ Started \/ RequestStop \/ CleanupPassthroughContext \/ Stopped
    \/ DropFrame \/ HandleFrame \/ AudioFrame
    \/ \E p \in Packets : OnEncodedVideoFrame(p)

PassSpec == PassInit /\ [][PassNext]_passVars

-----------------------------------------------------------------------------
(* Properties *)

\* A frame that was under way when stop() came opens no file that nobody
\* would finalise, or that the next recording would go on writing to, unless a
\* start() failed after it had let frames in; a file begins with a keyframe
\* that can be decoded, unless writing failed; and metadata calls a file
\* complete only with its trailer and the sound that was still held back when
\* stop() came.  Packets and samples lost before that do not count.
PassthroughSound ==
    /\ sink \in {"idle", "finalized"} /\ ~refused => context = "none"
    /\ file.first \in {"none", "key"} \/ file.damaged
    /\ file.entry = "complete" => file.trailer /\ ~file.pending
==============================================================================
