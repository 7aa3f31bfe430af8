----------------------------- MODULE AudioMixer -----------------------------
(***************************************************************************)
(* AudioMixer (src/src/audio_mixer.cpp): one queue of samples per user, on *)
(* a common timeline of sample numbers.  A sink thread drains it; it gives *)
(* mutex_ up while it encodes a frame, when the SDK thread pushes and a    *)
(* stop resets.  Samples are counted, their values left out.               *)
(***************************************************************************)
EXTENDS Integers, FiniteSetsExt

CONSTANTS
    Publishers,
    Count,          \* samples of one output frame
    Gap,            \* a tenth of a second: a longer gap moves a user's queue
    Limit,          \* half a second: what a queue may hold
    Silence,        \* a second: a longer silence of everyone is left out
    MaxFrame,       \* bound: samples of one pushed frame
    MaxSample       \* bound: sample numbers

ASSUME MixerAssumption ==
    /\ Count \in Nat \ {0} /\ Gap \in Nat /\ Limit \in Nat \ {0}
    /\ Silence \in Nat /\ MaxFrame \in Nat /\ MaxSample \in Nat

None == -1

\* A user without an Input.  The age of an input is that of its last frame when
\* drain() takes the time: "new" within WAIT_MS, "late", or "gone" after a second.
Absent == [first |-> None, len |-> 0, age |-> "absent"]

VARIABLES
    inputs,         \* inputs_
    nextSample,     \* nextSample_
    warm,           \* WAIT_MS have passed since start_
    drain,          \* the draining thread: "out", "loop" or "consume", where mutex_ is free
    flush,          \* its argument
    drainEnd,
    at,             \* the first sample of the last frame mixed since a reset
    offsets         \* where samples were added to the frame being consumed

mixerVars == <<inputs, nextSample, warm, drain, flush, drainEnd, at, offsets>>

MixerInit ==
    /\ inputs = [u \in Publishers |-> Absent] /\ nextSample = None
    /\ warm = FALSE /\ drain = "out" /\ flush = FALSE /\ drainEnd = None
    /\ at = None /\ offsets = {}

Present == {u \in Publishers : inputs[u] # Absent}
End(q) == q.first + q.len
MutexFree == drain # "loop"

-----------------------------------------------------------------------------
\* configure() and reset()
Reset ==
    /\ MutexFree
    /\ inputs' = [u \in Publishers |-> Absent] /\ nextSample' = None
    /\ at' = None
    /\ UNCHANGED <<warm, drain, flush, drainEnd, offsets>>

\* k samples from the front
Dropped(q, k) == [q EXCEPT !.first = @ + k, !.len = @ - k]

\* A queue goes on where it ended, unless the frame comes after a gap; what
\* exceeds the limit is dropped at the front.
Pushed(q, t, n) ==
    LET anew == q.first < 0 \/ t > End(q) + Gap
        p == [first |-> IF anew THEN t ELSE q.first,
              len |-> (IF anew THEN 0 ELSE q.len) + n, age |-> "new"] IN
    Dropped(p, Max({0, p.len - Limit}))

\* push(): n samples come out of the resampler.
Push(u, t, n) ==
    /\ MutexFree
    /\ inputs' = [inputs EXCEPT ![u] = Pushed(@, t, n)]
    /\ End(inputs'[u]) <= MaxSample
    /\ nextSample' = IF nextSample < 0 THEN t ELSE nextSample
    /\ warm' = (warm /\ nextSample >= 0)
    /\ UNCHANGED <<drain, flush, drainEnd, at, offsets>>

\* A resampler that cannot be made or fails leaves an entry behind; a new one
\* has no arrival time, and is thus old.
PushFails(u) ==
    /\ MutexFree
    /\ inputs[u] = Absent
    /\ inputs' = [inputs EXCEPT ![u] = [first |-> None, len |-> 0, age |-> "gone"]]
    /\ UNCHANGED <<nextSample, warm, drain, flush, drainEnd, at, offsets>>

\* drain() looks at the time once, as it begins.
TimePasses ==
    /\ drain = "out"
    /\ \/ warm' = TRUE /\ UNCHANGED inputs
       \/ \E u \in Present :
            /\ inputs' = [inputs EXCEPT ![u].age = IF @ = "new" THEN "late" ELSE "gone"]
            /\ UNCHANGED warm
    /\ UNCHANGED <<nextSample, drain, flush, drainEnd, at, offsets>>

-----------------------------------------------------------------------------
(* drain() *)

\* Only the backlog of this moment is drained.
DrainBegin(f) ==
    /\ drain = "out"
    /\ nextSample >= 0 /\ Present # {} /\ (f \/ warm)
    /\ drain' = "loop" /\ flush' = f
    /\ drainEnd' = Max({nextSample} \cup {End(inputs[u]) : u \in {v \in Present : inputs[v].len > 0}})
    /\ UNCHANGED <<inputs, nextSample, warm, at, offsets>>

\* Samples older than the next one come too late.
Trimmed(q) == Dropped(q, Min({q.len, Max({0, nextSample - q.first})}))

\* The queues of one round of the loop, and what it finds in them
Trim == [u \in Publishers |-> IF inputs[u] = Absent THEN Absent ELSE Trimmed(inputs[u])]
Filled == {u \in Publishers : Trim[u].len > 0}
Latest == Max({nextSample} \cup {End(Trim[u]) : u \in Filled})
Earliest == IF Filled = {} THEN drainEnd ELSE Min({Trim[u].first : u \in Filled})

\* The frame leaves out a long silence of every user.
From == IF Earliest > nextSample + Silence THEN Earliest ELSE nextSample
To == From + Count

Empty == Filled = {} \/ Earliest >= drainEnd

\* Mutant: also a flush waits for a whole frame.
ShortAlways == Latest < To

Short == ~flush /\ Latest < To

\* A user who sent something lately may still fill the frame.
Awaited ==
    /\ ~flush
    /\ \E u \in Present : Trim[u].first < To /\ End(Trim[u]) < To /\ Trim[u].age = "new"

\* Users without samples and without frames for a second are forgotten.
Remembered(q) == IF q.len = 0 /\ q.age = "gone" THEN Absent ELSE q

DrainReturns(qs, sample) ==
    /\ inputs' = qs /\ nextSample' = sample
    /\ drain' = "out" /\ flush' = FALSE /\ drainEnd' = None
    /\ UNCHANGED <<warm, at, offsets>>

\* The loop ends: the backlog is drained, or no whole frame is left.
DrainDone ==
    /\ drain = "loop" /\ nextSample >= drainEnd
    /\ DrainReturns([u \in Publishers |-> Remembered(inputs[u])], nextSample)

DrainEnds ==
    /\ drain = "loop" /\ nextSample < drainEnd
    /\ Empty \/ Short
    /\ DrainReturns([u \in Publishers |-> Remembered(Trim[u])], IF Empty THEN nextSample ELSE From)

DrainWaits ==
    /\ drain = "loop" /\ nextSample < drainEnd
    /\ ~Empty /\ ~Short /\ Awaited
    /\ DrainReturns(Trim, From)

DrainMixes ==
    LET part == [u \in Publishers |-> Max({0, Min({Trim[u].len, To - Trim[u].first})})] IN
    /\ drain = "loop" /\ nextSample < drainEnd
    /\ ~Empty /\ ~Short /\ ~Awaited
    /\ inputs' = [u \in Publishers |-> IF part[u] > 0 THEN Dropped(Trim[u], part[u]) ELSE Trim[u]]
    /\ offsets' = UNION {{Trim[u].first - From + k : k \in 0..part[u] - 1} : u \in Filled}
    /\ at' = From /\ nextSample' = To
    /\ drain' = "consume"
    /\ UNCHANGED <<warm, flush, drainEnd>>

\* consume() encodes and writes the frame, or fails.
Consume ==
    /\ drain = "consume"
    /\ offsets' = {}
    /\ \/ drain' = "loop" /\ UNCHANGED <<flush, drainEnd>>
       \/ drain' = "out" /\ flush' = FALSE /\ drainEnd' = None
    /\ UNCHANGED <<inputs, nextSample, warm, at>>

-----------------------------------------------------------------------------
MixerNext ==
    \/ Reset \/ TimePasses
    \/ DrainDone \/ DrainEnds \/ DrainWaits \/ DrainMixes \/ Consume
    \/ \E u \in Publishers : PushFails(u) \/ \E t \in 0..MaxSample, n \in 0..MaxFrame : Push(u, t, n)
    \/ \E f \in BOOLEAN : DrainBegin(f)

MixerSpec == MixerInit /\ [][MixerNext]_mixerVars

-----------------------------------------------------------------------------
(* Properties *)

\* Every sample falls into the frame being mixed, where mixed[offset + ch] is
\* not checked, and no queue outgrows "half a second, even if a producer
\* outruns the encoder" (audio_mixer.cpp:86).
MixInBounds ==
    /\ offsets \subseteq 0..Count - 1
    /\ \A u \in Publishers : inputs[u].len <= Limit

NoOverlap == at' # at /\ at # None /\ at' # None => at' >= at + Count

\* What is left of the backlog a flush found
Rest(q) == (q.first..End(q) - 1) \cap (nextSample..drainEnd - 1)

FlushIsWhole == flush /\ drain = "loop" /\ drain' = "out" => \A u \in Publishers : Rest(inputs'[u]) = {}

\* Whatever is pushed or reset while a frame is encoded: samples are mixed in
\* bounds, frames do not overlap, and a flush that no failure and no reset cuts
\* short leaves nothing behind but what came too late ("drain accepted PCM
\* before finalizing AAC", recording_sink.cpp:2945).
MixSound == [][MixInBounds' /\ NoOverlap /\ FlushIsWhole]_mixerVars
=============================================================================
