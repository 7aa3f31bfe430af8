----------------------------- MODULE MediaClock -----------------------------
(***************************************************************************)
(* The timestamps of one output with a video and an audio stream, from the *)
(* RTC times of its frames: the encoders of RecordingSink ("encode"), its  *)
(* passthrough of encoded video ("passthrough") and StreamingSink          *)
(* ("publish").  Both streams share an origin, which the first frame of    *)
(* either sets.                                                            *)
(***************************************************************************)
EXTENDS Integers, FiniteSetsExt

CONSTANTS
    Tick,           \* output ticks in one unit of RTC time, a millisecond
    MinIncrement,   \* ticks between two frames of a stream
    MaxGap,         \* ticks of silence that move the audio timeline
    Jump, BackJump, \* units of RTC time forth and back that count as a restart
    MaxTime,        \* bound: RTC times
    MaxPts          \* bound: timestamps

ASSUME ClockAssumption ==
    /\ Tick \in Nat /\ Tick > 1 /\ MinIncrement \in Nat \ {0} /\ MaxGap \in Nat
    /\ Jump \in Nat /\ BackJump \in Nat /\ MaxTime \in Nat /\ MaxPts \in Nat

NoPts == -1             \* no frame yet; also the mark the code uses
Times == 0..MaxTime
Streams == {"video", "audio"}

VARIABLES
    kind,       \* which of the three outputs
    origin,     \* rtcTimeOrigin, originMs_; NoPts before it is set
    seen,       \* the RTC time of the last frame of each stream
    pts,        \* the last timestamp written to each stream
    next        \* where the audio timeline goes on

clockVars == <<kind, origin, seen, pts, next>>

ClockInit ==
    /\ kind \in {"encode", "passthrough", "publish"}
    /\ origin = NoPts /\ next = NoPts
    /\ seen = [s \in Streams |-> NoPts] /\ pts = [s \in Streams |-> NoPts]

\* initializeRtcTimeOrigin(), and the same lines of the other two
Origin(t) == IF origin = NoPts THEN t ELSE origin

Relative(t, from) == (t - from) * Tick

Stamp(s, t, p) ==
    /\ p <= MaxPts
    /\ seen' = [seen EXCEPT ![s] = t] /\ pts' = [pts EXCEPT ![s] = p]
    /\ UNCHANGED kind

-----------------------------------------------------------------------------
(* The encoders of RecordingSink *)

\* ensureMonotonicPTS()
EnsureMonotonicPTS(new, last) ==
    IF last < 0 \/ new > last THEN new ELSE last + MinIncrement

\* detectStreamRestart()
DetectStreamRestart(lastTs, t) == lastTs > 0 /\ (t - lastTs > Jump \/ t - lastTs < -BackJump)

\* updateStreamState() comes first, so the time a restart is looked for from is
\* that of the frame itself.  A restart of a stream that is not in segments
\* would begin its timestamps anew.
Encode(s, t) ==
    LET restart == DetectStreamRestart(t, t)
        from == IF restart THEN t ELSE Origin(t)
        last == IF restart THEN NoPts ELSE pts[s] IN
    /\ kind = "encode"
    /\ origin' = from
    /\ Stamp(s, t, EnsureMonotonicPTS(Relative(t, from), last))
    /\ UNCHANGED next

-----------------------------------------------------------------------------
(* Passthrough *)

\* writePassthroughVideoPacket(), by the wall clock
PassVideo(t) ==
    LET new == Relative(t, Origin(t)) IN
    /\ kind = "passthrough"
    /\ origin' = Origin(t)
    /\ Stamp("video", t, IF new <= pts["video"] THEN pts["video"] + 1 ELSE new)
    /\ UNCHANGED next

\* encodePassthroughAudioFrame() and writePassthroughAudioSamples(): the
\* samples have a timeline of their own, which only a gap moves.
PassAudio(t) ==
    LET new == Max({0, Relative(t, Origin(t))})
        at == IF next = NoPts \/ new > next + MaxGap THEN new ELSE next IN
    /\ kind = "passthrough"
    /\ origin' = Origin(t)
    /\ Stamp("audio", t, at)
    /\ next' = at + MinIncrement

-----------------------------------------------------------------------------
(* StreamingSink *)

\* Mutant: a frame that comes too early is moved by one tick, as in PassVideo.
PublishByTick(t) ==
    LET least == IF pts["video"] < 0 THEN 0 ELSE pts["video"] + 1 IN
    /\ kind = "publish"
    /\ origin' = Origin(t)
    /\ Stamp("video", t, Max({least, Relative(t, Origin(t))}))
    /\ UNCHANGED next

\* processMedia(): a frame that comes too early is moved a whole millisecond
\* behind the last one, the precision of FLV.
PublishVideo(t) ==
    LET least == IF pts["video"] < 0 THEN 0 ELSE pts["video"] + Tick IN
    /\ kind = "publish"
    /\ origin' = Origin(t)
    /\ Stamp("video", t, Max({least, Relative(t, Origin(t))}))
    /\ UNCHANGED next

\* encodeAudio()
PublishAudio(t) ==
    LET new == Relative(t, Origin(t))
        at == IF next = NoPts \/ new > next + MaxGap THEN Max({0, new}) ELSE next IN
    /\ kind = "publish"
    /\ origin' = Origin(t)
    /\ Stamp("audio", t, at)
    /\ next' = at + MinIncrement

\* openSession() begins a new output after an outage.
Reopen ==
    /\ kind = "publish"
    /\ origin' = NoPts /\ next' = NoPts
    /\ seen' = [s \in Streams |-> NoPts] /\ pts' = [s \in Streams |-> NoPts]
    /\ UNCHANGED kind

-----------------------------------------------------------------------------
Frame(t) == \/ \E s \in Streams : Encode(s, t)
            \/ PassVideo(t) \/ PassAudio(t) \/ PublishVideo(t) \/ PublishAudio(t)

ClockNext == (\E t \in Times : Frame(t)) \/ Reopen

ClockSpec == ClockInit /\ [][ClockNext]_clockVars

-----------------------------------------------------------------------------
(* Properties *)

\* How far apart the timestamps of a stream have to be
Spacing(s) == IF kind = "publish" /\ s = "video" THEN Tick ELSE 1

\* The timestamps of a stream grow with every frame of an output, as muxers
\* demand (tests/recording_thread_tests.cpp: EXPECT_GT(packet->dts, previous)),
\* when the frames' times repeat, go back or jump; those of published video by
\* a millisecond, so that FLV can tell them apart.  The exception are encoded
\* frames older than the origin, which the other stream set: those have
\* negative timestamps, which the code takes for the mark of a first frame, and
\* repeat or go back as the frames' times do.
Grows(s) ==
    \/ pts'[s] >= pts[s] + Spacing(s) \/ pts[s] = NoPts
    \/ kind = "encode" /\ pts[s] < 0 /\ seen'[s] <= seen[s]

PtsGrow ==
    [][\A s \in Streams :
         <<seen[s], pts[s]>> # <<seen'[s], pts'[s]>> => Grows(s) \/ (kind = "publish" /\ origin' = NoPts)]_clockVars
=============================================================================
