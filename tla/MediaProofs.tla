----------------------------- MODULE MediaProofs -----------------------------
(***************************************************************************)
(* The parts of a sink below its threads: the timestamps of MediaClock,    *)
(* the frames of AudioMixer, the files of Passthrough, the regions of      *)
(* Compositor and the users of LayoutDetector, for every resolution, rate, *)
(* limit, canvas and sequence of frames; and where the stop() of           *)
(* SnapshotSink can be held up.                                            *)
(***************************************************************************)
EXTENDS MediaClock, AudioMixer, Passthrough, Compositor, LayoutDetector, SnapshotSink,
        WellFoundedInduction, FiniteSetTheorems, TLAPS

\* A set of naturals has a least element.
LEMMA LeastNatural ==
  ASSUME NEW T \in SUBSET Nat, T # {}
  PROVE \E x \in T : \A y \in T : x <= y
<1> DEFINE R == OpToRel(<, Nat)
<1>1. IsWellFoundedOn(R, Nat)
  BY NatLessThanWellFounded
<1>2. \A x, y \in Nat : y < x => <<y, x>> \in R
  BY DEF OpToRel
<1> HIDE DEF R
<1>3. PICK x \in T : \A y \in T : ~(<<y, x>> \in R)
  BY <1>1, WFMin
<1>4. ASSUME NEW y \in T PROVE x <= y
  <2>1. x \in Nat /\ y \in Nat
    OBVIOUS
  <2>2. ~(y < x)
    BY <1>2, <1>3, <2>1, Zenon
  <2>3. QED BY <2>1, <2>2
<1>5. QED BY <1>4

\* What Min of the community modules returns for a set with a lower bound
LEMMA LeastExists ==
  ASSUME NEW S \in SUBSET Int, S # {}, NEW b \in Int, \A x \in S : x >= b
  PROVE  Min(S) \in S /\ \A y \in S : Min(S) <= y
<1> DEFINE T == {x - b : x \in S}
<1>1. T \in SUBSET Nat /\ T # {}
  <2>1. PICK z \in S : TRUE
    OBVIOUS
  <2>2. \A x \in S : x - b \in Nat
    OBVIOUS
  <2>3. QED BY <2>1, <2>2
<1>2. PICK m \in T : \A y \in T : m <= y
  BY <1>1, LeastNatural
<1>3. PICK x \in S : m = x - b
  BY <1>2
<1>4. ASSUME NEW y \in S PROVE x <= y
  <2>1. m <= y - b
    BY <1>2
  <2>2. QED BY <1>3, <2>1
<1>5. QED BY <1>4 DEF Min

\* And Max for a set with an upper bound
LEMMA GreatestExists ==
  ASSUME NEW S \in SUBSET Int, S # {}, NEW b \in Int, \A x \in S : x <= b
  PROVE  Max(S) \in S /\ \A y \in S : Max(S) >= y
<1> DEFINE T == {b - x : x \in S}
<1>1. T \in SUBSET Nat /\ T # {}
  <2>1. PICK z \in S : TRUE
    OBVIOUS
  <2>2. \A x \in S : b - x \in Nat
    OBVIOUS
  <2>3. QED BY <2>1, <2>2
<1>2. PICK m \in T : \A y \in T : m <= y
  BY <1>1, LeastNatural
<1>3. PICK x \in S : m = b - x
  BY <1>2
<1>4. ASSUME NEW y \in S PROVE x >= y
  <2>1. m <= b - y
    BY <1>2
  <2>2. QED BY <1>3, <2>1
<1>5. QED BY <1>4 DEF Max

\* What Max returns for two numbers, and Min
LEMMA MaxOfTwo ==
    ASSUME NEW a \in Int, NEW b \in Int
    PROVE /\ Max({a, b}) \in Int /\ Max({a, b}) >= a /\ Max({a, b}) >= b
          /\ Max({a, b}) \in {a, b}
<1>1. \E x \in {a, b} : \A y \in {a, b} : x >= y
  <2>1. CASE a >= b
    BY <2>1
  <2>2. CASE b >= a
    BY <2>2
  <2>3. QED BY <2>1, <2>2
<1>2. Max({a, b}) \in {a, b} /\ \A y \in {a, b} : Max({a, b}) >= y
  BY <1>1 DEF Max
<1>3. QED BY <1>2
LEMMA MinOfTwo ==
    ASSUME NEW a \in Int, NEW b \in Int
    PROVE /\ Min({a, b}) \in Int /\ Min({a, b}) <= a /\ Min({a, b}) <= b
          /\ Min({a, b}) \in {a, b}
<1>1. \E x \in {a, b} : \A y \in {a, b} : x <= y
  <2>1. CASE a <= b
    BY <2>1
  <2>2. CASE b <= a
    BY <2>2
  <2>3. QED BY <2>1, <2>2
<1>2. Min({a, b}) \in {a, b} /\ \A y \in {a, b} : Min({a, b}) <= y
  BY <1>1 DEF Min
<1>3. QED BY <1>2

LEMMA MaxWithZero ==
    ASSUME NEW a \in Int
    PROVE  Max({0, a}) = IF a > 0 THEN a ELSE 0
<1>1. Max({0, a}) \in Int /\ Max({0, a}) >= 0 /\ Max({0, a}) >= a /\ Max({0, a}) \in {0, a}
  <2>1. PICK z \in Int : z = 0
    OBVIOUS
  <2>2. Max({z, a}) \in Int /\ Max({z, a}) >= z /\ Max({z, a}) >= a /\ Max({z, a}) \in {z, a}
    BY MaxOfTwo
  <2>3. QED BY <2>1, <2>2
<1>2. QED BY <1>1

-----------------------------------------------------------------------------
(* MediaClock *)

\* The types of the clock; the audio timeline goes on behind the last audio
\* timestamp, and only encoded frames may have a timestamp before the origin:
\* it is then that of their own time, and never the mark of a first frame.
ClockInv ==
    /\ kind \in {"encode", "passthrough", "publish"}
    /\ origin \in Times \cup {NoPts} /\ next \in Int
    /\ seen \in [Streams -> Times \cup {NoPts}] /\ pts \in [Streams -> Int]
    /\ \A s \in Streams : pts[s] # NoPts => origin # NoPts /\ seen[s] # NoPts
    /\ \A s \in Streams : pts[s] < 0 /\ pts[s] # NoPts =>
         kind = "encode" /\ pts[s] = Relative(seen[s], origin)
    /\ next = NoPts \/ (next > 0 /\ kind # "encode")
    /\ next # NoPts => next > pts["audio"]
    /\ next = NoPts /\ kind # "encode" => pts["audio"] = NoPts

\* Relative() is an integer, grows with the time, and is not the mark NoPts.
LEMMA RelativeGrows ==
    ASSUME NEW o \in Times, NEW t \in Times, NEW u \in Times
    PROVE /\ Relative(t, o) \in Int /\ Relative(t, o) # NoPts
          /\ t > u => Relative(t, o) > Relative(u, o)
<1>1. t \in Int /\ u \in Int /\ o \in Int /\ Tick \in Int /\ Tick > 1
  BY ClockAssumption DEF Times
<1>2. \A d \in Int : d * Tick \in Int /\ d * Tick # -1 /\ (d > 0 => d * Tick > 0)
  <2> SUFFICES ASSUME NEW d \in Int PROVE d * Tick \in Int /\ d * Tick # -1 /\ (d > 0 => d * Tick > 0)
    OBVIOUS
  <2>1. CASE d >= 0
    BY <1>1, <2>1
  <2>2. CASE d <= -1
    <3>1. (-1 - d) * Tick >= 0
      BY <1>1, <2>2
    <3>2. QED BY <1>1, <2>2, <3>1
  <2>3. QED BY <2>1, <2>2
<1>3. (t - o) * Tick - (u - o) * Tick = (t - u) * Tick
  BY <1>1
<1>4. t - o \in Int /\ u - o \in Int /\ t - u \in Int
  BY <1>1
<1>5. QED BY <1>1, <1>2, <1>3, <1>4 DEF Relative, NoPts

\* A frame sets the time and the timestamp of its stream only.
LEMMA StampEffect ==
    ASSUME ClockInv, NEW s \in Streams, NEW t \in Times, NEW p \in Int, Stamp(s, t, p)
    PROVE /\ seen' \in [Streams -> Times \cup {NoPts}] /\ pts' \in [Streams -> Int]
          /\ seen'[s] = t /\ pts'[s] = p /\ kind' = kind
          /\ \A r \in Streams \ {s} : seen'[r] = seen[r] /\ pts'[r] = pts[r]
  BY DEF Stamp, ClockInv

\* A restart is never detected: the time it would be seen by is already that
\* of the frame.
LEMMA NoRestart ==
    ASSUME NEW t \in Times PROVE ~DetectStreamRestart(t, t)
  BY ClockAssumption DEF DetectStreamRestart, Times

\* The origin once set stays, and it is a time.
LEMMA OriginIsTime ==
    ASSUME ClockInv, NEW t \in Times
    PROVE /\ Origin(t) \in Times
          /\ origin # NoPts => Origin(t) = origin
  BY DEF Origin, ClockInv

\* Encode() keeps the invariant and lets the stream grow.
LEMMA EncodeStep ==
    ASSUME ClockInv, NEW s \in Streams, NEW t \in Times, Encode(s, t)
    PROVE ClockInv' /\ \A r \in Streams : <<seen[r], pts[r]>> # <<seen'[r], pts'[r]>> => Grows(r)
<1> DEFINE new == Relative(t, Origin(t))
<1> DEFINE p == EnsureMonotonicPTS(new, pts[s])
<1>1. kind = "encode" /\ origin' = Origin(t) /\ Stamp(s, t, p) /\ next' = next
  BY NoRestart DEF Encode
<1>2. Origin(t) \in Times /\ (origin # NoPts => Origin(t) = origin)
  BY OriginIsTime
<1>3. new \in Int /\ new # NoPts
  BY <1>2, RelativeGrows
<1>4. pts[s] \in Int
  BY DEF ClockInv
<1>5. /\ p \in Int /\ p # NoPts
      /\ pts[s] >= 0 => p > pts[s]
      /\ pts[s] < 0 => p = new
      /\ p < 0 => p = new
  BY <1>3, <1>4, ClockAssumption DEF EnsureMonotonicPTS, NoPts
<1> HIDE DEF p
<1>6. /\ seen' \in [Streams -> Times \cup {NoPts}] /\ pts' \in [Streams -> Int]
      /\ seen'[s] = t /\ pts'[s] = p /\ kind' = kind
      /\ \A r \in Streams \ {s} : seen'[r] = seen[r] /\ pts'[r] = pts[r]
  BY <1>1, <1>5, StampEffect
<1>7. origin' \in Times /\ origin' # NoPts /\ (origin # NoPts => origin' = origin)
  BY <1>1, <1>2 DEF Times, NoPts
<1>8. ClockInv'
  <2>1. \A r \in Streams : pts'[r] < 0 /\ pts'[r] # NoPts =>
           kind' = "encode" /\ pts'[r] = Relative(seen'[r], origin')
    <3> SUFFICES ASSUME NEW r \in Streams, pts'[r] < 0, pts'[r] # NoPts
                 PROVE kind' = "encode" /\ pts'[r] = Relative(seen'[r], origin')
      OBVIOUS
    <3>1. CASE r = s
      BY <3>1, <1>1, <1>5, <1>6
    <3>2. CASE r # s
      <4>1. seen'[r] = seen[r] /\ pts'[r] = pts[r]
        BY <3>2, <1>6
      <4>2. pts[r] = Relative(seen[r], origin) /\ origin # NoPts
        BY <4>1 DEF ClockInv
      <4>3. QED BY <4>1, <4>2, <1>7, <1>6, <1>1
    <3>3. QED BY <3>1, <3>2
  <2>2. next' = NoPts
    BY <1>1 DEF ClockInv
  <2>4. \A r \in Streams : pts'[r] # NoPts => origin' # NoPts /\ seen'[r] # NoPts
    <3> SUFFICES ASSUME NEW r \in Streams, pts'[r] # NoPts PROVE seen'[r] # NoPts
      BY <1>7
    <3>1. CASE r = s
      BY <3>1, <1>6 DEF Times, NoPts
    <3>2. CASE r # s
      BY <3>2, <1>6 DEF ClockInv
    <3>3. QED BY <3>1, <3>2
  <2>3. QED BY <1>1, <1>6, <1>7, <2>1, <2>2, <2>4 DEF ClockInv
<1>9. \A r \in Streams : <<seen[r], pts[r]>> # <<seen'[r], pts'[r]>> => Grows(r)
  <2>1. CASE pts[s] >= 0
    BY <2>1, <1>1, <1>4, <1>5, <1>6 DEF Grows, Spacing
  <2>2. CASE pts[s] = NoPts
    BY <2>2, <1>6 DEF Grows
  <2>3. CASE pts[s] < 0 /\ pts[s] # NoPts
    <3>1. pts[s] = Relative(seen[s], origin) /\ origin # NoPts /\ seen[s] \in Times
      BY <2>3 DEF ClockInv
    <3>2. t > seen[s] => Relative(t, origin) > Relative(seen[s], origin)
      BY <3>1, RelativeGrows DEF ClockInv
    <3>3. p = Relative(t, origin)
      BY <2>3, <1>5, <1>2, <3>1
    <3>4. t > seen[s] \/ t <= seen[s]
      BY <3>1 DEF Times
    <3>5. p > pts[s] => p >= pts[s] + Spacing(s)
      BY <1>1, <1>4, <1>5 DEF Spacing
    <3>6. QED BY <1>1, <1>6, <2>3, <3>1, <3>2, <3>3, <3>4, <3>5 DEF Grows
  <2>4. pts[s] \in Int
    BY <1>4
  <2>5. QED BY <2>1, <2>2, <2>3, <2>4 DEF NoPts
<1>10. QED BY <1>8, <1>9

\* The other outputs, which only write timestamps that are not negative: a
\* frame of stream s with timestamp p, behind the last one.
LEMMA StampStep ==
    ASSUME ClockInv, kind # "encode", NEW s \in Streams, NEW t \in Times, NEW p \in Nat,
           pts[s] # NoPts => p >= pts[s] + Spacing(s),
           Stamp(s, t, p), origin' = Origin(t), next' \in Int,
           IF s = "audio" THEN next' > p ELSE next' = next
    PROVE ClockInv' /\ \A r \in Streams : <<seen[r], pts[r]>> # <<seen'[r], pts'[r]>> => Grows(r)
<1>1. /\ seen' \in [Streams -> Times \cup {NoPts}] /\ pts' \in [Streams -> Int]
      /\ seen'[s] = t /\ pts'[s] = p /\ kind' = kind
      /\ \A r \in Streams \ {s} : seen'[r] = seen[r] /\ pts'[r] = pts[r]
  BY StampEffect
<1>2. origin' \in Times /\ origin' # NoPts
  BY OriginIsTime DEF Times, NoPts
<1>3. t # NoPts
  BY DEF Times, NoPts
<1>4. \A r \in Streams : pts'[r] # NoPts => origin' # NoPts /\ seen'[r] # NoPts
  BY <1>1, <1>2, <1>3 DEF ClockInv
<1>5. \A r \in Streams : ~(pts'[r] < 0 /\ pts'[r] # NoPts)
  BY <1>1 DEF ClockInv
<1>6. /\ next' = NoPts \/ (next' > 0 /\ kind' # "encode")
      /\ next' # NoPts => next' > pts'["audio"]
      /\ next' = NoPts => pts'["audio"] = NoPts
  <2>1. CASE s = "audio"
    BY <2>1, <1>1 DEF NoPts
  <2>2. CASE s # "audio"
    <3>1. pts'["audio"] = pts["audio"] /\ next' = next
      BY <2>2, <1>1 DEF Streams
    <3>2. QED BY <3>1, <1>1 DEF ClockInv
  <2>3. QED BY <2>1, <2>2
<1>7. ClockInv'
  BY <1>1, <1>2, <1>4, <1>5, <1>6 DEF ClockInv
<1>8. \A r \in Streams : <<seen[r], pts[r]>> # <<seen'[r], pts'[r]>> => Grows(r)
  BY <1>1 DEF Grows
<1>9. QED BY <1>7, <1>8

\* Every step keeps the invariant, and timestamps grow in it.
LEMMA ClockStep ==
    ASSUME ClockInv, ClockNext
    PROVE /\ ClockInv'
          /\ \A r \in Streams : <<seen[r], pts[r]>> # <<seen'[r], pts'[r]>> =>
               Grows(r) \/ (kind = "publish" /\ origin' = NoPts)
<1> USE DEF Streams
<1>1. ASSUME NEW t \in Times, NEW s \in Streams, Encode(s, t)
      PROVE ClockInv' /\ \A r \in Streams : <<seen[r], pts[r]>> # <<seen'[r], pts'[r]>> => Grows(r)
  BY <1>1, EncodeStep
<1>2. ASSUME NEW t \in Times, PassVideo(t)
      PROVE ClockInv' /\ \A r \in Streams : <<seen[r], pts[r]>> # <<seen'[r], pts'[r]>> => Grows(r)
  <2> DEFINE new == Relative(t, Origin(t))
  <2> DEFINE p == IF new <= pts["video"] THEN pts["video"] + 1 ELSE new
  <2>1. kind = "passthrough" /\ origin' = Origin(t) /\ Stamp("video", t, p) /\ next' = next
    BY <1>2 DEF PassVideo
  <2>2. new \in Int
    BY OriginIsTime, RelativeGrows
  <2>3. pts["video"] \in Int /\ pts["video"] >= -1
    BY <2>1 DEF ClockInv, NoPts
  <2>4. p \in Nat /\ p >= pts["video"] + 1
    BY <2>2, <2>3
  <2> HIDE DEF p
  <2>5. next' \in Int /\ Spacing("video") = 1
    BY <2>1 DEF ClockInv, Spacing
  <2>6. QED BY <2>1, <2>4, <2>5, StampStep
<1>3. ASSUME NEW t \in Times, PublishVideo(t)
      PROVE ClockInv' /\ \A r \in Streams : <<seen[r], pts[r]>> # <<seen'[r], pts'[r]>> => Grows(r)
  <2> DEFINE new == Relative(t, Origin(t))
  <2> DEFINE least == IF pts["video"] < 0 THEN 0 ELSE pts["video"] + Tick
  <2> DEFINE p == Max({least, new})
  <2>1. kind = "publish" /\ origin' = Origin(t) /\ Stamp("video", t, p) /\ next' = next
    BY <1>3 DEF PublishVideo
  <2>2. new \in Int
    BY OriginIsTime, RelativeGrows
  <2>3. pts["video"] \in Int /\ (pts["video"] >= 0 \/ pts["video"] = NoPts)
    BY <2>1 DEF ClockInv, NoPts
  <2>4. least \in Int /\ least >= 0 /\ (pts["video"] # NoPts => least = pts["video"] + Tick)
    BY <2>3, ClockAssumption DEF NoPts
  <2> HIDE DEF least, new
  <2>5. p \in Int /\ p >= least
    BY <2>2, <2>4, MaxOfTwo
  <2> HIDE DEF p
  <2>6. p \in Nat /\ (pts["video"] # NoPts => p >= pts["video"] + Tick)
    BY <2>4, <2>5
  <2>7. next' \in Int /\ Spacing("video") = Tick
    BY <2>1 DEF ClockInv, Spacing
  <2>8. QED BY <2>1, <2>6, <2>7, StampStep
<1>4. ASSUME NEW t \in Times, PassAudio(t) \/ PublishAudio(t)
      PROVE ClockInv' /\ \A r \in Streams : <<seen[r], pts[r]>> # <<seen'[r], pts'[r]>> => Grows(r)
  <2> DEFINE new == Relative(t, Origin(t))
  <2> DEFINE top == Max({0, new})
  <2>1. new \in Int
    BY OriginIsTime, RelativeGrows
  <2>2. top \in Int /\ top >= 0 /\ top >= new /\ (top = 0 \/ top = new)
    <3> HIDE DEF new
    <3>1. top \in Int /\ top >= 0 /\ top >= new /\ top \in {0, new}
      BY <2>1, MaxOfTwo
    <3>2. QED BY <3>1
  <2> DEFINE passed == IF next = NoPts \/ top > next + MaxGap THEN top ELSE next
  <2> DEFINE published == IF next = NoPts \/ new > next + MaxGap THEN top ELSE next
  <2>3. PICK p \in {passed, published} :
          /\ kind # "encode" /\ origin' = Origin(t) /\ Stamp("audio", t, p)
          /\ next' = p + MinIncrement
    BY <1>4 DEF PassAudio, PublishAudio
  <2> HIDE DEF new, top
  <2>4. /\ next \in Int /\ (next = NoPts \/ next > 0) /\ pts["audio"] \in Int
        /\ next # NoPts => next > pts["audio"]
        /\ next = NoPts => pts["audio"] = NoPts
    BY <2>3 DEF ClockInv
  <2>5. passed \in Nat /\ passed > pts["audio"]
    BY <2>2, <2>4, ClockAssumption DEF NoPts
  <2>6. published \in Nat /\ published > pts["audio"]
    BY <2>1, <2>2, <2>4, ClockAssumption DEF NoPts
  <2>7. p \in Nat /\ p > pts["audio"] /\ next' \in Int /\ next' > p
    BY <2>3, <2>5, <2>6, ClockAssumption
  <2>8. p >= pts["audio"] + Spacing("audio")
    BY <2>4, <2>7 DEF Spacing
  <2>9. QED BY <2>3, <2>7, <2>8, StampStep
<1>5. ASSUME Reopen PROVE ClockInv' /\ kind = "publish" /\ origin' = NoPts
  BY <1>5 DEF Reopen, ClockInv, NoPts
<1>6. QED BY <1>1, <1>2, <1>3, <1>4, <1>5 DEF ClockNext, Frame

\* The invariant holds in every state.
THEOREM ClockAlwaysSound == ClockSpec => []ClockInv
<1>1. ClockInit => ClockInv
  BY DEF ClockInit, ClockInv, NoPts, Streams
<1>2. ClockInv /\ [ClockNext]_clockVars => ClockInv'
  <2>1. ASSUME ClockInv, UNCHANGED clockVars PROVE ClockInv'
    BY <2>1 DEF clockVars, ClockInv
  <2>2. QED BY <2>1, ClockStep
<1>3. QED BY <1>1, <1>2, PTL DEF ClockSpec

\* Timestamps grow with every frame of a recording, a passthrough and a live
\* stream, there those of the video by a millisecond; except between encoded
\* frames that are older than the origin, whose timestamps are negative.
THEOREM PtsAlwaysGrow == ClockSpec => PtsGrow
<1>1. ClockInv /\ [ClockNext]_clockVars =>
        [\A s \in Streams : <<seen[s], pts[s]>> # <<seen'[s], pts'[s]>> =>
           Grows(s) \/ (kind = "publish" /\ origin' = NoPts)]_clockVars
  BY ClockStep
<1>2. QED BY <1>1, ClockAlwaysSound, PTL DEF ClockSpec, PtsGrow

-----------------------------------------------------------------------------
(* AudioMixer *)

Queue == [first : Int, len : Nat, age : {"absent", "new", "late", "gone"}]

\* A queue keeps its limit and the bound of the timeline, and one with samples
\* has a place on it.
QueueOK(q) ==
    /\ q \in Queue
    /\ q.first >= -1 /\ q.len <= Limit /\ End(q) <= MaxSample
    /\ q.len > 0 => q.first >= 0

\* No samples wait before the timeline has begun, and it goes on behind the
\* last frame that was mixed.
MixerInv ==
    /\ inputs \in [Publishers -> Queue]
    /\ \A u \in Publishers : QueueOK(inputs[u]) /\ (inputs[u].len > 0 => nextSample >= 0)
    /\ nextSample \in Int /\ nextSample >= -1 /\ drainEnd \in Int
    /\ at \in Int /\ (at # None => at >= 0 /\ nextSample >= at + Count)
    /\ offsets \subseteq 0..Count - 1

LEMMA AbsentOK == QueueOK(Absent)
  BY MixerAssumption DEF QueueOK, Queue, Absent, None, End

\* Samples dropped at the front leave the end where it is.
LEMMA DroppedFacts ==
    ASSUME NEW q \in Queue, NEW k \in 0..q.len
    PROVE  /\ Dropped(q, k) \in Queue
           /\ Dropped(q, k).first = q.first + k /\ Dropped(q, k).len = q.len - k
           /\ End(Dropped(q, k)) = End(q)
<1>1. q.first + k \in Int /\ q.len - k \in Nat
  BY DEF Queue
<1>2. Dropped(q, k) \in [first : {q.first + k}, len : {q.len - k}, age : {"absent", "new", "late", "gone"}]
  BY DEF Dropped, Queue
<1>3. QED BY <1>1, <1>2 DEF Queue, End

LEMMA DroppedOK ==
    ASSUME NEW q, QueueOK(q), NEW k \in 0..q.len
    PROVE  QueueOK(Dropped(q, k))
<1>1. q \in Queue /\ q.first \in Int /\ q.len \in Nat
  BY DEF QueueOK, Queue
<1>2. /\ Dropped(q, k) \in Queue /\ End(Dropped(q, k)) = End(q)
      /\ Dropped(q, k).first = q.first + k /\ Dropped(q, k).len = q.len - k
  BY <1>1, DroppedFacts
<1>3. /\ q.first + k >= -1 /\ q.len - k <= Limit
      /\ q.len - k > 0 => q.first + k >= 0
  BY <1>1, MixerAssumption DEF QueueOK
<1>4. QED BY <1>2, <1>3 DEF QueueOK

\* What push() makes of a queue
LEMMA PushedFacts ==
    ASSUME NEW q, QueueOK(q), NEW t \in 0..MaxSample, NEW n \in 0..MaxFrame, End(Pushed(q, t, n)) <= MaxSample
    PROVE  QueueOK(Pushed(q, t, n))
<1> DEFINE anew == q.first < 0 \/ t > End(q) + Gap
           p == [first |-> IF anew THEN t ELSE q.first, len |-> (IF anew THEN 0 ELSE q.len) + n, age |-> "new"]
           over == p.len - Limit
           k == Max({0, over})
<1>1. q \in Queue /\ q.first \in Int /\ q.len \in Nat
  BY DEF QueueOK, Queue
<1>2. p \in Queue /\ p.first >= 0 /\ p.len \in Nat
  BY <1>1, MixerAssumption DEF Queue
<1>3. Pushed(q, t, n) = Dropped(p, k)
  BY DEF Pushed
<1> HIDE DEF p
<1>4. over \in Int
  BY <1>2, MixerAssumption
<1>5. over \in Int /\ over = p.len - Limit /\ Limit \in Nat
  BY <1>4, MixerAssumption
<1> HIDE DEF over
<1>6. k = IF over > 0 THEN over ELSE 0
  BY <1>4, MaxWithZero
<1> HIDE DEF k
<1>7. k \in 0..p.len
  BY <1>2, <1>5, <1>6
<1>8. /\ Dropped(p, k) \in Queue
      /\ Dropped(p, k).first = p.first + k /\ Dropped(p, k).len = p.len - k
  BY <1>2, <1>7, DroppedFacts
<1>9. p.first + k >= -1 /\ p.first + k >= 0 /\ p.len - k <= Limit
  BY <1>2, <1>5, <1>6, <1>7 DEF Queue
<1>10. QED BY <1>3, <1>8, <1>9, Zenon DEF QueueOK

\* Of l samples from f on, those before n: at most all, and what is left is not
\* before n.
LEMMA LateSamples ==
    ASSUME NEW f \in Int, NEW l \in Nat, NEW n \in Int
    PROVE  LET k == Min({l, Max({0, n - f})}) IN
           k \in 0..l /\ (l - k > 0 => f + k >= n)
<1> DEFINE late == n - f
           m == Max({0, late})
           k == Min({l, m})
<1>1. late \in Int
  OBVIOUS
<1> HIDE DEF late
<1>2. m = IF late > 0 THEN late ELSE 0
  BY <1>1, MaxWithZero
<1> HIDE DEF m
<1>3. m \in Int /\ l \in Int
  BY <1>1, <1>2
<1>4. k \in Int /\ k <= l /\ k <= m /\ k \in {l, m}
  BY <1>3, MinOfTwo
<1> HIDE DEF k
<1>5. k \in 0..l /\ (l - k > 0 => f + k >= n)
  BY <1>2, <1>3, <1>4 DEF late
<1>6. QED BY <1>5 DEF k, m, late

\* A round of the loop of drain() leaves no samples before the next one.
LEMMA TrimFacts ==
    ASSUME MixerInv, NEW u \in Publishers
    PROVE  /\ QueueOK(Trim[u])
           /\ Trim[u].len > 0 => Trim[u].first >= nextSample /\ nextSample >= 0
<1> DEFINE q == inputs[u]
           k == Min({q.len, Max({0, nextSample - q.first})})
<1>1. QueueOK(q) /\ q \in Queue /\ q.first \in Int /\ q.len \in Nat /\ nextSample \in Int
  BY DEF MixerInv, QueueOK, Queue
<1>2. Trim[u] = IF q = Absent THEN Absent ELSE Dropped(q, k)
  BY DEF Trim, Trimmed
<1>3. CASE q = Absent
  BY <1>2, <1>3, AbsentOK DEF Absent
<1>4. CASE q # Absent
  <2>1. k \in 0..q.len /\ (q.len - k > 0 => q.first + k >= nextSample)
    BY <1>1, LateSamples
  <2> HIDE DEF k
  <2>2. QueueOK(Dropped(q, k)) /\ Dropped(q, k).first = q.first + k /\ Dropped(q, k).len = q.len - k
    BY <1>1, <2>1, DroppedOK, DroppedFacts
  <2>3. q.len - k > 0 => q.len > 0
    BY <1>1, <2>1
  <2>4. q.len > 0 => nextSample >= 0
    BY DEF MixerInv
  <2>5. QED BY <1>2, <1>4, <2>1, <2>2, <2>3, <2>4
<1>5. QED BY <1>3, <1>4

\* When there are samples, the frame begins with the first of them or before,
\* and not before the next sample.
LEMMA RoundFacts ==
    ASSUME MixerInv, Filled # {}
    PROVE  /\ nextSample >= 0 /\ Earliest \in Int
           /\ From \in Int /\ From >= nextSample
           /\ \A u \in Filled : Trim[u].first \in Int /\ Earliest <= Trim[u].first /\ From <= Trim[u].first
<1> DEFINE S == {Trim[u].first : u \in Filled}
<1>1. \A u \in Filled : /\ u \in Publishers /\ Trim[u].first \in Int
                        /\ Trim[u].first >= nextSample /\ nextSample >= 0
  BY TrimFacts DEF Filled, QueueOK, Queue
<1>2. S \in SUBSET Int /\ S # {} /\ \A x \in S : x >= nextSample
  BY <1>1
<1>3. nextSample \in Int /\ nextSample >= 0
  BY <1>1 DEF MixerInv
<1> HIDE DEF S
<1>4. Min(S) \in S /\ \A y \in S : Min(S) <= y
  BY <1>2, <1>3, LeastExists
<1>5. Earliest = Min(S)
  BY DEF Earliest, S
<1>6. Earliest \in Int /\ \A u \in Filled : Earliest <= Trim[u].first
  BY <1>2, <1>4, <1>5 DEF S
<1>7. From \in Int /\ From >= nextSample /\ \A u \in Filled : From <= Trim[u].first
  BY <1>1, <1>3, <1>6, MixerAssumption DEF From
<1>8. QED BY <1>1, <1>3, <1>6, <1>7

\* What drain() returns with: queues that are trimmed, or forgotten, and a
\* timeline that goes on
LEMMA ReturnKeeps ==
    ASSUME MixerInv, NEW qs \in [Publishers -> Queue], NEW n \in Int, n >= nextSample, DrainReturns(qs, n),
           \A u \in Publishers : QueueOK(qs[u]) /\ (qs[u].len > 0 => n >= 0)
    PROVE  MixerInv' /\ NoOverlap
<1>1. inputs' = qs /\ nextSample' = n /\ drainEnd' = None /\ at' = at /\ offsets' = offsets
  BY DEF DrainReturns
<1>2. nextSample' \in Int /\ nextSample' >= -1 /\ drainEnd' \in Int
  BY <1>1 DEF MixerInv, None
<1>3. at' \in Int /\ (at' # None => at' >= 0 /\ nextSample' >= at' + Count)
  BY <1>1, MixerAssumption DEF MixerInv
<1>4. QED BY <1>1, <1>2, <1>3 DEF MixerInv, NoOverlap

LEMMA RememberedOK ==
    ASSUME NEW q, QueueOK(q)
    PROVE  QueueOK(Remembered(q)) /\ (Remembered(q).len > 0 => Remembered(q) = q)
<1>1. Absent.len = 0
  BY DEF Absent
<1>2. QED BY <1>1, AbsentOK DEF Remembered

LEMMA QueueTypes ==
    ASSUME NEW q, QueueOK(q)
    PROVE  q \in Queue /\ q.first \in Int /\ q.len \in Nat /\ End(q) = q.first + q.len
  BY DEF QueueOK, Queue, End

LEMMA ResetStep == ASSUME MixerInv, Reset PROVE MixerInv' /\ NoOverlap /\ FlushIsWhole
<1>1. inputs' = [u \in Publishers |-> Absent] /\ nextSample' = None /\ at' = None
      /\ offsets' = offsets /\ drainEnd' = drainEnd /\ drain' = drain
  BY DEF Reset
<1>2. Absent \in Queue /\ Absent.len = 0 /\ QueueOK(Absent)
  BY AbsentOK DEF QueueOK, Absent
<1>3. inputs' \in [Publishers -> Queue] /\ \A u \in Publishers : inputs'[u] = Absent
  BY <1>1, <1>2
<1>4. \A u \in Publishers : QueueOK(inputs'[u]) /\ ~(inputs'[u].len > 0)
  BY <1>2, <1>3
<1>5. MixerInv'
  BY <1>1, <1>3, <1>4 DEF MixerInv, None
<1>6. QED BY <1>1, <1>5 DEF NoOverlap, FlushIsWhole

\* A step that changes one queue and leaves the frames alone
LEMMA OneQueueStep ==
    ASSUME MixerInv, NEW u \in Publishers, NEW q, QueueOK(q), inputs' = [inputs EXCEPT ![u] = q],
           nextSample' \in Int, nextSample' >= nextSample, q.len > 0 => nextSample' >= 0,
           UNCHANGED <<drain, drainEnd, at, offsets>>
    PROVE  MixerInv' /\ NoOverlap /\ FlushIsWhole
<1>1. q \in Queue
  BY DEF QueueOK
<1>2. inputs' \in [Publishers -> Queue]
  BY <1>1 DEF MixerInv
<1>3. nextSample \in Int /\ nextSample >= -1
  BY DEF MixerInv
<1>4. nextSample >= 0 => nextSample' >= 0
  BY <1>3
<1>5. ASSUME NEW v \in Publishers
      PROVE  QueueOK(inputs'[v]) /\ (inputs'[v].len > 0 => nextSample' >= 0)
  <2>1. CASE v = u
    <3>1. inputs'[v] = q
      BY <2>1 DEF MixerInv
    <3>2. QED BY <3>1
  <2>2. CASE v # u
    <3>1. inputs'[v] = inputs[v]
      BY <2>2 DEF MixerInv
    <3>2. QED BY <3>1, <1>4 DEF MixerInv
  <2>3. QED BY <2>1, <2>2
<1>6. at' \in Int /\ (at' # None => at' >= 0 /\ nextSample' >= at' + Count)
  BY <1>3, MixerAssumption DEF MixerInv
<1>7. nextSample' >= -1 /\ drainEnd' \in Int /\ offsets' \subseteq 0..Count - 1
  BY <1>3 DEF MixerInv
<1>8. MixerInv'
  BY <1>2, <1>5, <1>6, <1>7 DEF MixerInv
<1>9. QED BY <1>8 DEF NoOverlap, FlushIsWhole

LEMMA PushStep ==
    ASSUME MixerInv, NEW u \in Publishers, NEW t \in 0..MaxSample, NEW n \in 0..MaxFrame, Push(u, t, n)
    PROVE  MixerInv' /\ NoOverlap /\ FlushIsWhole
<1> DEFINE q == Pushed(inputs[u], t, n)
<1>1. /\ inputs' = [inputs EXCEPT ![u] = q] /\ End(inputs'[u]) <= MaxSample
      /\ nextSample' = IF nextSample < 0 THEN t ELSE nextSample
      /\ UNCHANGED <<drain, drainEnd, at, offsets>>
  BY DEF Push
<1>2. QueueOK(inputs[u]) /\ nextSample \in Int /\ inputs \in [Publishers -> Queue]
  BY DEF MixerInv
<1> HIDE DEF q
<1>3. inputs'[u] = q
  BY <1>1, <1>2
<1>4. QueueOK(q)
  BY <1>1, <1>2, <1>3, PushedFacts DEF q
<1>5. nextSample' \in Int /\ nextSample' >= nextSample /\ nextSample' >= 0
  BY <1>1, <1>2
<1>6. QED BY <1>1, <1>4, <1>5, OneQueueStep

LEMMA PushFailsStep ==
    ASSUME MixerInv, NEW u \in Publishers, PushFails(u)
    PROVE  MixerInv' /\ NoOverlap /\ FlushIsWhole
<1> DEFINE q == [first |-> None, len |-> 0, age |-> "gone"]
<1>1. /\ inputs' = [inputs EXCEPT ![u] = q] /\ nextSample' = nextSample
      /\ UNCHANGED <<drain, drainEnd, at, offsets>>
  BY DEF PushFails
<1>2. QueueOK(q) /\ ~(q.len > 0)
  BY MixerAssumption DEF QueueOK, Queue, End, None
<1>3. nextSample' \in Int /\ nextSample' >= nextSample
  BY <1>1 DEF MixerInv
<1> HIDE DEF q
<1>4. QED BY <1>1, <1>2, <1>3, OneQueueStep

LEMMA TimeStep == ASSUME MixerInv, TimePasses PROVE MixerInv' /\ NoOverlap /\ FlushIsWhole
<1>1. CASE UNCHANGED inputs
  BY <1>1 DEF TimePasses, MixerInv, NoOverlap, FlushIsWhole
<1>2. ASSUME NEW u \in Present, inputs' = [inputs EXCEPT ![u].age = IF @ = "new" THEN "late" ELSE "gone"]
      PROVE  MixerInv' /\ NoOverlap /\ FlushIsWhole
  <2> DEFINE q == [inputs[u] EXCEPT !.age = IF @ = "new" THEN "late" ELSE "gone"]
  <2>1. u \in Publishers /\ QueueOK(inputs[u])
    BY DEF Present, MixerInv
  <2>2. inputs' = [inputs EXCEPT ![u] = q]
    BY <1>2
  <2>3. q \in Queue /\ q.first = inputs[u].first /\ q.len = inputs[u].len
    BY <2>1 DEF QueueOK, Queue
  <2> HIDE DEF q
  <2>4. QueueOK(q)
    BY <2>1, <2>3 DEF QueueOK, End
  <2>5. q.len > 0 => nextSample >= 0
    BY <2>1, <2>3 DEF MixerInv
  <2>6. nextSample' = nextSample /\ UNCHANGED <<drain, drainEnd, at, offsets>>
    BY DEF TimePasses
  <2>7. nextSample' \in Int /\ nextSample' >= nextSample
    BY <2>6 DEF MixerInv
  <2>8. QED BY <2>1, <2>2, <2>4, <2>5, <2>6, <2>7, OneQueueStep
<1>3. QED BY <1>1, <1>2 DEF TimePasses

LEMMA BeginStep ==
    ASSUME MixerInv, NEW f, DrainBegin(f)
    PROVE  MixerInv' /\ NoOverlap /\ FlushIsWhole
<1> DEFINE S == {nextSample} \cup {End(inputs[u]) : u \in {v \in Present : inputs[v].len > 0}}
           b == IF nextSample > MaxSample THEN nextSample ELSE MaxSample
<1>1. \A u \in Present : End(inputs[u]) \in Int /\ End(inputs[u]) <= MaxSample
  BY QueueTypes DEF Present, MixerInv, QueueOK
<1>2. nextSample \in Int /\ MaxSample \in Int
  BY MixerAssumption DEF MixerInv
<1>3. S \in SUBSET Int /\ S # {} /\ b \in Int /\ \A x \in S : x <= b
  BY <1>1, <1>2
<1>4. drainEnd' = Max(S)
  BY DEF DrainBegin
<1> HIDE DEF S, b
<1>5. drainEnd' \in Int
  BY <1>3, <1>4, GreatestExists
<1>6. UNCHANGED <<inputs, nextSample, at, offsets>> /\ drain' = "loop"
  BY DEF DrainBegin
<1>7. MixerInv'
  BY <1>5, <1>6 DEF MixerInv
<1>8. QED BY <1>6, <1>7 DEF NoOverlap, FlushIsWhole

LEMMA DoneStep == ASSUME MixerInv, DrainDone PROVE MixerInv' /\ NoOverlap /\ FlushIsWhole
<1> DEFINE qs == [u \in Publishers |-> Remembered(inputs[u])]
<1>1. DrainReturns(qs, nextSample) /\ nextSample >= drainEnd
  BY DEF DrainDone
<1>2. \A u \in Publishers : /\ QueueOK(qs[u]) /\ qs[u] \in Queue
                            /\ qs[u].len > 0 => nextSample >= 0
  BY RememberedOK, QueueTypes DEF MixerInv
<1>3. qs \in [Publishers -> Queue]
  BY <1>2
<1> HIDE DEF qs
<1>4. MixerInv' /\ NoOverlap
  <2>1. nextSample \in Int /\ nextSample >= nextSample
    BY DEF MixerInv
  <2>2. QED BY <1>1, <1>2, <1>3, <2>1, ReturnKeeps
<1>5. nextSample..drainEnd - 1 = {}
  BY <1>1 DEF MixerInv
<1>6. QED BY <1>4, <1>5 DEF FlushIsWhole, Rest

LEMMA EndsStep == ASSUME MixerInv, DrainEnds PROVE MixerInv' /\ NoOverlap /\ FlushIsWhole
<1> DEFINE qs == [u \in Publishers |-> Remembered(Trim[u])]
           n == IF Empty THEN nextSample ELSE From
<1>1. DrainReturns(qs, n) /\ (Empty \/ Short)
  BY DEF DrainEnds
<1>2. \A u \in Publishers : /\ QueueOK(qs[u]) /\ qs[u] \in Queue
                            /\ qs[u].len > 0 => qs[u] = Trim[u] /\ nextSample >= 0
  BY TrimFacts, RememberedOK, QueueTypes
<1>3. qs \in [Publishers -> Queue]
  BY <1>2
<1> HIDE DEF qs
<1>4. n \in Int /\ n >= nextSample /\ (nextSample >= 0 => n >= 0)
  <2>1. nextSample \in Int
    BY DEF MixerInv
  <2>2. CASE Empty
    BY <2>1, <2>2
  <2>3. CASE ~Empty
    BY <2>1, <2>3, RoundFacts DEF Empty
  <2>4. QED BY <2>2, <2>3
<1> HIDE DEF n
<1>5. MixerInv' /\ NoOverlap
  BY <1>1, <1>2, <1>3, <1>4, ReturnKeeps
<1>6. ASSUME flush, NEW u \in Publishers PROVE Rest(qs[u]) = {}
  <2>1. Empty
    BY <1>1, <1>6 DEF Short
  <2>2. qs[u].first \in Int /\ qs[u].len \in Nat /\ End(qs[u]) = qs[u].first + qs[u].len
    BY <1>2, QueueTypes
  <2>3. CASE qs[u].len = 0
    <3>1. qs[u].first..End(qs[u]) - 1 = {}
      BY <2>2, <2>3
    <3>2. QED BY <3>1 DEF Rest
  <2>4. CASE qs[u].len > 0
    <3>1. qs[u] = Trim[u] /\ u \in Filled
      BY <1>2, <2>4 DEF Filled
    <3>2. Earliest >= drainEnd /\ Earliest \in Int /\ Earliest <= qs[u].first
      BY <2>1, <3>1, RoundFacts DEF Empty
    <3>3. drainEnd \in Int /\ nextSample \in Int
      BY DEF MixerInv
    <3>4. (qs[u].first..End(qs[u]) - 1) \cap (nextSample..drainEnd - 1) = {}
      BY <2>2, <3>2, <3>3
    <3>5. QED BY <3>4 DEF Rest
  <2>5. QED BY <2>2, <2>3, <2>4
<1>7. inputs' = qs
  BY <1>1 DEF DrainReturns
<1>8. QED BY <1>5, <1>6, <1>7 DEF FlushIsWhole

LEMMA WaitsStep == ASSUME MixerInv, DrainWaits PROVE MixerInv' /\ NoOverlap /\ FlushIsWhole
<1>1. DrainReturns(Trim, From) /\ Filled # {} /\ ~flush
  BY DEF DrainWaits, Empty, Awaited
<1>2. \A u \in Publishers : QueueOK(Trim[u]) /\ Trim[u] \in Queue
  BY TrimFacts, QueueTypes
<1>3. Trim \in [Publishers -> Queue]
  BY <1>2 DEF Trim
<1>4. From \in Int /\ From >= nextSample /\ From >= 0
  BY <1>1, RoundFacts DEF MixerInv
<1>5. MixerInv' /\ NoOverlap
  BY <1>1, <1>2, <1>3, <1>4, ReturnKeeps
<1>6. QED BY <1>1, <1>5 DEF FlushIsWhole

LEMMA ConsumeStep == ASSUME MixerInv, Consume PROVE MixerInv' /\ NoOverlap /\ FlushIsWhole
<1>1. UNCHANGED <<inputs, nextSample, at>> /\ offsets' = {} /\ drain = "consume"
  BY DEF Consume
<1>2. drainEnd' \in Int
  BY DEF Consume, MixerInv, None
<1>3. MixerInv'
  BY <1>1, <1>2 DEF MixerInv
<1>4. QED BY <1>1, <1>3 DEF NoOverlap, FlushIsWhole

\* The samples of a queue that go into the frame fit behind its beginning.
LEMMA MixedPart ==
    ASSUME NEW f \in Int, NEW l \in Nat, NEW from \in Int, l > 0 => f >= from
    PROVE  LET part == Max({0, Min({l, from + Count - f})}) IN
           /\ part \in 0..l
           /\ \A k \in 0..part - 1 : f - from + k \in 0..Count - 1
<1> DEFINE room == from + Count - f
           least == Min({l, room})
           part == Max({0, least})
<1>1. room \in Int /\ l \in Int
  BY MixerAssumption
<1> HIDE DEF room
<1>2. least \in Int /\ least <= l /\ least <= room /\ least \in {l, room}
  BY <1>1, MinOfTwo
<1>3. least \in Int
  BY <1>2
<1> HIDE DEF least
<1>4. part = IF least > 0 THEN least ELSE 0
  BY <1>3, MaxWithZero
<1> HIDE DEF part
<1>5. part \in 0..l
  BY <1>2, <1>4
<1>6. ASSUME NEW k \in 0..part - 1 PROVE f - from + k \in 0..Count - 1
  BY <1>2, <1>4, <1>5, <1>6, MixerAssumption DEF room
<1>7. QED BY <1>5, <1>6 DEF part, least, room

LEMMA MixesStep == ASSUME MixerInv, DrainMixes PROVE MixerInv' /\ NoOverlap /\ FlushIsWhole
<1> DEFINE part == [u \in Publishers |-> Max({0, Min({Trim[u].len, To - Trim[u].first})})]
           qs == [u \in Publishers |-> IF part[u] > 0 THEN Dropped(Trim[u], part[u]) ELSE Trim[u]]
<1>1. /\ inputs' = qs
      /\ offsets' = UNION {{Trim[u].first - From + k : k \in 0..part[u] - 1} : u \in Filled}
      /\ at' = From /\ nextSample' = To /\ drain' = "consume" /\ drainEnd' = drainEnd
      /\ Filled # {}
  BY DEF DrainMixes, Empty
<1>2. /\ nextSample \in Int /\ nextSample >= 0 /\ From \in Int /\ From >= nextSample
      /\ \A u \in Filled : From <= Trim[u].first
  BY <1>1, RoundFacts DEF MixerInv
<1>3. ASSUME NEW u \in Publishers
      PROVE  /\ part[u] \in 0..Trim[u].len
             /\ \A k \in 0..part[u] - 1 : Trim[u].first - From + k \in 0..Count - 1
  <2>1. Trim[u].first \in Int /\ Trim[u].len \in Nat
    BY TrimFacts, QueueTypes
  <2>2. Trim[u].len > 0 => Trim[u].first >= From
    BY <1>2, <2>1 DEF Filled
  <2>3. part[u] = Max({0, Min({Trim[u].len, To - Trim[u].first})})
    OBVIOUS
  <2>4. To - Trim[u].first = From + Count - Trim[u].first
    BY <1>2, <2>1, MixerAssumption DEF To
  <2> HIDE DEF part
  <2>5. QED BY <1>2, <2>1, <2>2, <2>3, <2>4, MixedPart
<1> HIDE DEF part
<1>4. \A u \in Publishers : QueueOK(qs[u]) /\ qs[u] \in Queue
  BY <1>3, TrimFacts, DroppedOK, QueueTypes
<1>5. qs \in [Publishers -> Queue]
  BY <1>4
<1>6. offsets' \subseteq 0..Count - 1
  BY <1>1, <1>3 DEF Filled
<1>7. To \in Int /\ To >= 0 /\ To = From + Count
  BY <1>2, MixerAssumption DEF To
<1> HIDE DEF qs
<1>8. MixerInv'
  <2>1. \A u \in Publishers : QueueOK(inputs'[u]) /\ (inputs'[u].len > 0 => nextSample' >= 0)
    BY <1>1, <1>4, <1>7
  <2>2. nextSample' \in Int /\ nextSample' >= -1 /\ drainEnd' \in Int
    BY <1>1, <1>7 DEF MixerInv
  <2>3. at' \in Int /\ at' >= 0 /\ nextSample' >= at' + Count
    BY <1>1, <1>2, <1>7, MixerAssumption
  <2>4. QED BY <1>1, <1>5, <1>6, <2>1, <2>2, <2>3 DEF MixerInv
<1>9. NoOverlap
  <2>1. at # None => nextSample >= at + Count /\ at \in Int
    BY DEF MixerInv
  <2>2. at # None => From >= at + Count
    BY <1>2, <2>1, MixerAssumption
  <2>3. QED BY <1>1, <2>2 DEF NoOverlap
<1>10. QED BY <1>1, <1>8, <1>9 DEF FlushIsWhole

\* Every step of the mixer keeps the invariant and is sound.
LEMMA MixerStep ==
    ASSUME MixerInv, MixerNext PROVE MixerInv' /\ NoOverlap /\ FlushIsWhole
  BY ResetStep, TimeStep, DoneStep, EndsStep, WaitsStep, MixesStep, ConsumeStep, PushFailsStep,
     PushStep, BeginStep DEF MixerNext

LEMMA MixerAlwaysInv == MixerSpec => []MixerInv
<1>1. MixerInit => MixerInv
  <2> SUFFICES ASSUME MixerInit PROVE MixerInv
    OBVIOUS
  <2>1. Absent \in Queue /\ Absent.len = 0 /\ QueueOK(Absent)
    BY AbsentOK DEF QueueOK, Absent
  <2>2. inputs \in [Publishers -> Queue] /\ \A u \in Publishers : inputs[u] = Absent
    BY <2>1 DEF MixerInit
  <2>3. \A u \in Publishers : QueueOK(inputs[u]) /\ ~(inputs[u].len > 0)
    BY <2>1, <2>2
  <2>4. QED BY <2>2, <2>3 DEF MixerInit, MixerInv, None
<1>2. MixerInv /\ UNCHANGED mixerVars => MixerInv'
  BY DEF mixerVars, MixerInv
<1>3. MixerInv /\ [MixerNext]_mixerVars => MixerInv'
  BY <1>2, MixerStep
<1>4. QED BY <1>1, <1>3, PTL DEF MixerSpec

\* Samples are mixed inside of the frame and no queue outgrows its limit, frames
\* do not overlap, and a flush that is not cut short leaves nothing behind,
\* whatever push() and reset() do while drain() has given up mutex_ to encode.
THEOREM MixAlwaysSound == MixerSpec => MixSound
<1>1. MixerInv => MixInBounds
  BY DEF MixerInv, QueueOK, MixInBounds
<1>2. MixerInv /\ MixerInv' /\ [MixerNext]_mixerVars => [MixInBounds' /\ NoOverlap /\ FlushIsWhole]_mixerVars
  BY <1>1, MixerStep DEF MixInBounds, MixerInv, QueueOK
<1>3. QED BY <1>2, MixerAlwaysInv, PTL DEF MixerSpec, MixSound

-----------------------------------------------------------------------------
(* Passthrough *)

File == [first : Packets \cup {"none"}, damaged : BOOLEAN, pending : BOOLEAN, lost : BOOLEAN,
         trailer : BOOLEAN, entry : {"none", "complete", "incomplete"}]

\* The file of a context is not in the metadata yet, and has its first packet
\* from the moment it is open.
PassInv ==
    /\ sink \in {"idle", "starting", "recording", "stopping", "finalized"}
    /\ arriving \in Packets \cup {"none"} /\ context \in {"none", "waiting", "open", "failed"}
    /\ file \in File
    /\ context # "none" => file.entry = "none"
    /\ context = "open" => file.first # "none" \/ file.damaged
    /\ PassthroughSound

LEMMA NewFileFacts ==
    /\ NewFile \in File /\ NewFile.first = "none" /\ NewFile.entry = "none"
<1>1. NewFile.first = "none" /\ NewFile.entry = "none"
  BY DEF NewFile
<1>2. NewFile \in File
  BY DEF NewFile, File
<1>3. QED BY <1>1, <1>2

\* Every step keeps the invariant of the passthrough.
LEMMA PassStep == PassInv /\ [PassNext]_passVars => PassInv'
<1> SUFFICES ASSUME PassInv, [PassNext]_passVars PROVE PassInv'
  OBVIOUS
<1> USE DEF PassInv, PassthroughSound
<1>1. ASSUME StartPassthrough PROVE PassInv'
  BY <1>1 DEF StartPassthrough
<1>2. ASSUME Started PROVE PassInv'
  BY <1>2 DEF Started
<1>3. ASSUME RequestStop PROVE PassInv'
  BY <1>3 DEF RequestStop
<1>4. ASSUME CleanupPassthroughContext PROVE PassInv'
  <2>1. CASE context # "open"
    BY <1>4, <2>1 DEF CleanupPassthroughContext
  <2>2. CASE context = "open"
    <3>1. PICK flushed \in BOOLEAN, closed \in BOOLEAN :
              file' \in [first : {file.first}, damaged : {file.damaged},
                         pending : {file.pending /\ ~flushed}, lost : {file.lost}, trailer : {closed},
                         entry : {"none", IF flushed /\ closed THEN "complete" ELSE "incomplete"}]
      BY <1>4, <2>2 DEF CleanupPassthroughContext
    <3>2. /\ file'.first = file.first /\ file'.damaged = file.damaged
          /\ file'.entry = "complete" => file'.trailer /\ ~file'.pending
      BY <3>1
    <3>3. file' \in File
      BY <3>1 DEF File
    <3>4. QED BY <1>4, <3>2, <3>3 DEF CleanupPassthroughContext
  <2>3. QED BY <2>1, <2>2
<1>5. ASSUME Stopped PROVE PassInv'
  BY <1>5 DEF Stopped
<1>6. ASSUME NEW p \in Packets, OnEncodedVideoFrame(p) PROVE PassInv'
  BY <1>6 DEF OnEncodedVideoFrame
<1>7. ASSUME DropFrame PROVE PassInv'
  BY <1>7 DEF DropFrame
<1>8. ASSUME HandleFrame PROVE PassInv'
  <2> DEFINE c0 == IF context = "none" THEN "waiting" ELSE context
             f == IF context = "none" THEN NewFile ELSE file
  <2>1. PICK c \in SetUp(c0) : context' = c /\ file' \in IF c = "open" THEN Written(f) ELSE {f}
    BY <1>8 DEF HandleFrame
  <2>2. /\ f \in File /\ f.entry = "none" /\ (f.first \in {"none", "key"} \/ f.damaged)
        /\ c0 = "open" => f.first # "none" \/ f.damaged
        /\ f.first = "none" /\ c0 = "open" => f.damaged
    BY NewFileFacts
  <2> HIDE DEF f
  <2>3. c \in {"waiting", "open", "failed"} /\ (c = "open" => c0 = "open" \/ arriving = "key")
    BY <2>1, <1>8 DEF SetUp, HandleFrame, Packets
  <2>4. CASE c # "open"
    BY <1>8, <2>1, <2>2, <2>3, <2>4 DEF HandleFrame, IsRecording
  <2>5. CASE c = "open"
    <3>1. file' \in File /\ file'.entry = "none"
      <4>1. arriving \in Packets
        BY <1>8 DEF HandleFrame
      <4>2. CASE file' = [f EXCEPT !.first = IF @ = "none" THEN arriving ELSE @]
        BY <2>2, <4>1, <4>2 DEF File
      <4>3. CASE file' = [f EXCEPT !.damaged = TRUE]
        BY <2>2, <4>3 DEF File
      <4>4. QED BY <2>1, <2>5, <4>2, <4>3 DEF Written
    <3>2. /\ file'.first # "none" \/ file'.damaged
          /\ file'.first \in {"none", "key"} \/ file'.damaged
      BY <1>8, <2>1, <2>2, <2>3, <2>5 DEF HandleFrame, Written, File
    <3>3. QED BY <1>8, <2>1, <2>5, <3>1, <3>2 DEF HandleFrame, IsRecording
  <2>6. QED BY <2>4, <2>5
<1>9. ASSUME AudioFrame PROVE PassInv'
  <2>1. PICK held, fails \in BOOLEAN : file' = [file EXCEPT !.pending = held, !.lost = @ \/ fails]
    BY <1>9 DEF AudioFrame
  <2>2. file.lost \/ fails \in BOOLEAN
    OBVIOUS
  <2>3. /\ file' \in File /\ file'.first = file.first /\ file'.damaged = file.damaged
        /\ file'.entry = file.entry
    BY <2>1, <2>2 DEF File
  <2>4. QED BY <1>9, <2>3 DEF AudioFrame
<1>10. CASE UNCHANGED passVars
  BY <1>10 DEF passVars
<1>11. QED
  BY <1>1, <1>2, <1>3, <1>4, <1>5, <1>6, <1>7, <1>8, <1>9, <1>10 DEF PassNext

\* No file of a user outlives its recording, files begin with a keyframe that
\* can be decoded, and metadata calls a file complete only with its trailer and
\* the sound held back at the end, wherever stop() meets the SDK thread in
\* onEncodedVideoFrame() and whatever writing fails.
THEOREM PassthroughAlwaysSound == PassSpec => []PassthroughSound
<1>1. PassInit => PassInv
  BY NewFileFacts DEF PassInit, PassInv, PassthroughSound
<1>2. PassInv => PassthroughSound
  BY DEF PassInv
<1>3. QED BY <1>1, <1>2, PassStep, PTL DEF PassSpec

-----------------------------------------------------------------------------
(* Compositor *)

\* Rounding down to an even number
LEMMA EvenFacts ==
    ASSUME NEW k \in Nat
    PROVE /\ Even(k) \in Nat /\ Even(k) % 2 = 0 /\ Even(k) <= k
          /\ \A m \in Nat : k <= m => Even(k) <= Even(m)
          /\ k % 2 = 0 => Even(k) = k
  BY DEF Even

\* Quotient and remainder
LEMMA DivFacts ==
    ASSUME NEW a \in Nat, NEW p \in Nat \ {0}
    PROVE /\ a \div p \in Nat
          /\ p * (a \div p) <= a /\ a < p * (a \div p) + p
<1>1. QED OBVIOUS

\* A quotient is at most what multiplies back to more.
LEMMA DivAtMost ==
    ASSUME NEW a \in Nat, NEW p \in Nat \ {0}, NEW q \in Nat, a < p * (q + 1)
    PROVE a \div p <= q
<1> DEFINE d == a \div p
<1>1. d \in Nat /\ p * d <= a
  BY DivFacts
<1> HIDE DEF d
<1>2. ASSUME d >= q + 1 PROVE FALSE
  <2>1. p * d >= p * (q + 1)
    BY <1>1, <1>2
  <2>2. QED BY <1>1, <2>1
<1>3. QED BY <1>1, <1>2 DEF d

\* Division is monotone.
LEMMA DivMonotone ==
    ASSUME NEW a \in Nat, NEW b \in Nat, NEW p \in Nat \ {0}, a <= b
    PROVE a \div p <= b \div p
<1> DEFINE q == b \div p
<1>1. q \in Nat /\ b < p * q + p
  BY DivFacts
<1> HIDE DEF q
<1>2. p * (q + 1) = p * q + p
  BY <1>1
<1>3. a < p * (q + 1)
  BY <1>1, <1>2
<1>4. a \div p <= q
  BY <1>1, <1>3, DivAtMost
<1>5. QED BY <1>4 DEF q

\* The cuts of an even length are even, in order and inside it.
LEMMA CutFacts ==
    ASSUME NEW p \in Nat \ {0}, NEW size \in Nat, size % 2 = 0, NEW k \in Nat, NEW m \in Nat, k <= m, m <= p
    PROVE /\ Cut(k, p, size) \in Nat /\ Cut(m, p, size) \in Nat
          /\ Cut(k, p, size) % 2 = 0 /\ Cut(m, p, size) % 2 = 0
          /\ Cut(k, p, size) <= Cut(m, p, size) /\ Cut(m, p, size) <= size
<1>1. k * size \in Nat /\ m * size \in Nat /\ k * size <= m * size /\ m * size <= p * size
  <2>1. (m - k) * size >= 0 /\ (p - m) * size >= 0
    OBVIOUS
  <2>2. QED BY <2>1
<1>2. (k * size) \div p \in Nat /\ (m * size) \div p \in Nat
  BY <1>1, DivFacts
<1>3. (k * size) \div p <= (m * size) \div p
  BY <1>1, DivMonotone
<1>4. (m * size) \div p <= size
  <2>1. p * (size + 1) = p * size + p
    OBVIOUS
  <2>2. m * size < p * (size + 1)
    BY <1>1, <2>1
  <2>3. QED BY <1>1, <2>2, DivAtMost
<1> DEFINE a == (k * size) \div p
<1> DEFINE b == (m * size) \div p
<1>5. Even(a) \in Nat /\ Even(a) % 2 = 0 /\ Even(a) <= Even(b)
  BY <1>2, <1>3, EvenFacts
<1>6. Even(b) \in Nat /\ Even(b) % 2 = 0 /\ Even(b) <= b
  BY <1>2, EvenFacts
<1>7. Even(b) <= size
  <2> HIDE DEF b
  <2>1. b \in Nat /\ b <= size
    BY <1>2, <1>4 DEF b
  <2>2. QED BY <1>6, <2>1
<1>8. QED BY <1>5, <1>6, <1>7 DEF Cut

\* A box with even sides at even coordinates inside another one
FitsIn(box, w, h) ==
    /\ box \in Boxes /\ Inside(box, w, h)
    /\ box.x % 2 = 0 /\ box.y % 2 = 0 /\ box.w % 2 = 0 /\ box.h % 2 = 0

\* Two even numbers in order, inside a length
Span(l, r, size) ==
    /\ l \in Nat /\ r \in Nat /\ size \in Nat /\ l <= r /\ r <= size
    /\ l % 2 = 0 /\ r % 2 = 0

\* A cell between two spans
LEMMA CellFits ==
    ASSUME NEW l, NEW r, NEW t, NEW b, NEW w, NEW h, Span(l, r, w), Span(t, b, h)
    PROVE /\ FitsIn(Cell(l, r, t, b), w, h)
          /\ Cell(l, r, t, b).x = l /\ Cell(l, r, t, b).x + Cell(l, r, t, b).w = r
          /\ Cell(l, r, t, b).y = t /\ Cell(l, r, t, b).y + Cell(l, r, t, b).h = b
<1>1. (r - l) % 2 = 0 /\ (b - t) % 2 = 0
  BY DEF Span
<1>2. Cell(l, r, t, b) = [x |-> l, y |-> t, w |-> r - l, h |-> b - t]
  BY DEF Cell, Box
<1>3. l + (r - l) = r /\ t + (b - t) = b /\ r - l \in Int /\ b - t \in Int
  BY DEF Span
<1>4. QED BY <1>1, <1>2, <1>3 DEF FitsIn, Inside, Boxes, Span

\* A frame in a region of at least two by two pixels
LEMMA ScaledFits ==
    ASSUME NEW src \in (Nat \ {0}) \X (Nat \ {0}), NEW box \in Boxes, preserve \in BOOLEAN,
           box.w >= 2, box.h >= 2, box.w % 2 = 0, box.h % 2 = 0
    PROVE FitsIn(Scaled(src, box), box.w, box.h)
<1> DEFINE W == box.w
<1> DEFINE H == box.h
<1> DEFINE A == src[1]
<1> DEFINE B == src[2]
<1> DEFINE wider == A * H > W * B
<1> DEFINE w == IF wider THEN W ELSE (H * A) \div B
<1> DEFINE h == IF wider THEN (W * B) \div A ELSE H
<1>1. W \in Nat /\ H \in Nat /\ A \in Nat \ {0} /\ B \in Nat \ {0}
  BY DEF Boxes
<1> HIDE DEF W, H, A, B
<1>2. H * A \in Nat /\ W * B \in Nat /\ A * H = H * A
  BY <1>1
<1>3. w \in Nat /\ w <= W
  <2>1. CASE wider
    BY <1>1, <2>1
  <2>2. CASE ~wider
    <3>1. B * (W + 1) = W * B + B
      BY <1>1
    <3>2. H * A < B * (W + 1)
      BY <1>1, <1>2, <2>2, <3>1
    <3>3. (H * A) \div B <= W /\ (H * A) \div B \in Nat
      BY <1>1, <1>2, <3>2, DivAtMost, DivFacts
    <3>4. QED BY <2>2, <3>3
  <2>3. QED BY <2>1, <2>2
<1>4. h \in Nat /\ h <= H
  <2>1. CASE wider
    <3>1. A * (H + 1) = A * H + A
      BY <1>1
    <3>2. W * B < A * (H + 1)
      BY <1>1, <1>2, <2>1, <3>1
    <3>3. (W * B) \div A <= H /\ (W * B) \div A \in Nat
      BY <1>1, <1>2, <3>2, DivAtMost, DivFacts
    <3>4. QED BY <2>1, <3>3
  <2>2. CASE ~wider
    BY <1>1, <2>2
  <2>3. QED BY <2>1, <2>2
<1> HIDE DEF w, h
<1>5. W >= 2 /\ H >= 2 /\ W % 2 = 0 /\ H % 2 = 0
  BY DEF W, H
<1> DEFINE sw == Larger(2, Even(w))
<1> DEFINE sh == Larger(2, Even(h))
<1>6. sw \in Nat /\ sw >= 2 /\ sw <= W /\ sw % 2 = 0
  BY <1>1, <1>3, <1>5, EvenFacts DEF Larger
<1>7. sh \in Nat /\ sh >= 2 /\ sh <= H /\ sh % 2 = 0
  BY <1>1, <1>4, <1>5, EvenFacts DEF Larger
<1> HIDE DEF sw, sh
<1>8. ASSUME NEW s \in Nat, NEW c \in Nat, s <= c
      PROVE LET o == ((c - s) \div 4) * 2 IN o \in Int /\ o >= 0 /\ o % 2 = 0 /\ o + s <= c
  BY <1>8
<1>9. CASE preserve
  <2> DEFINE ox == ((W - sw) \div 4) * 2
  <2> DEFINE oy == ((H - sh) \div 4) * 2
  <2>1. Scaled(src, box) = [x |-> ox, y |-> oy, w |-> sw, h |-> sh]
    BY <1>9 DEF Scaled, Box, W, H, A, B, w, h, sw, sh
  <2>2. ox \in Int /\ ox >= 0 /\ ox % 2 = 0 /\ ox + sw <= W
    BY <1>1, <1>6, <1>8
  <2>3. oy \in Int /\ oy >= 0 /\ oy % 2 = 0 /\ oy + sh <= H
    BY <1>1, <1>7, <1>8
  <2> HIDE DEF ox, oy
  <2>4. Inside(Scaled(src, box), W, H) /\ Scaled(src, box) \in Boxes
    BY <2>1, <2>2, <2>3, <1>6, <1>7 DEF Inside, Boxes
  <2>5. QED BY <2>1, <2>2, <2>3, <2>4, <1>6, <1>7 DEF FitsIn, W, H
<1>10. CASE ~preserve
  <2>1. Scaled(src, box) = [x |-> 0, y |-> 0, w |-> W, h |-> H]
    BY <1>10 DEF Scaled, Box, W, H
  <2>2. Inside(Scaled(src, box), W, H) /\ Scaled(src, box) \in Boxes
    BY <2>1, <1>1 DEF Inside, Boxes
  <2>3. QED BY <2>1, <2>2, <1>5 DEF FitsIn, W, H
<1>11. QED BY <1>9, <1>10

\* What initialize() has let through: a canvas with even sides, and regions
\* inside it.
ConfigInv ==
    /\ canvas \in Canvases \cup {<<2, 2>>} /\ ValidCanvas(canvas)
    /\ preserve \in BOOLEAN
    /\ \A i \in DOMAIN custom : custom[i] \in Boxes /\ ValidRegion(custom[i], canvas)

\* Regions lie inside the canvas, and those of the code's own layouts apart.
RegionsOK(rs) ==
    /\ \A i \in DOMAIN rs : FitsIn(rs[i], canvas[1], canvas[2])
    /\ layout # "customized" => \A i, j \in DOMAIN rs : i # j => Apart(rs[i], rs[j])

LEMMA CanvasFacts ==
    ASSUME ConfigInv
    PROVE /\ canvas[1] \in Nat /\ canvas[1] >= 2 /\ canvas[1] % 2 = 0
          /\ canvas[2] \in Nat /\ canvas[2] >= 2 /\ canvas[2] % 2 = 0
<1>1. canvas \in Nat \X Nat
  BY CompositorAssumption DEF ConfigInv
<1>2. QED BY <1>1 DEF ConfigInv, ValidCanvas

\* Ratios are ordered: what is better than the better of two is better than both.
LEMMA RatiosAreOrdered ==
    ASSUME NEW a \in Int, NEW b \in Int, NEW f \in Int,
           NEW m \in Nat \ {0}, NEW c \in Nat \ {0}, NEW d \in Nat \ {0},
           a * c < b * m, b * d <= f * c
    PROVE  a * d < f * m
<1>1. (a * c) * d < (b * m) * d
  <2> DEFINE x == a * c  y == b * m
  <2>1. x \in Int /\ y \in Int /\ x < y
    OBVIOUS
  <2> HIDE DEF x, y
  <2>2. QED BY <2>1
<1>2. (b * d) * m <= (f * c) * m
  <2> DEFINE x == b * d  y == f * c
  <2>1. x \in Int /\ y \in Int /\ x <= y
    OBVIOUS
  <2> HIDE DEF x, y
  <2>2. QED BY <2>1
<1>3. (a * c) * d = c * (a * d) /\ (f * c) * m = c * (f * m) /\ (b * m) * d = (b * d) * m
  OBVIOUS
<1> DEFINE u == a * d  v == f * m
<1>4. u \in Int /\ v \in Int
  OBVIOUS
<1>5. c * u < c * v
  <2> DEFINE w == (b * d) * m
  <2>1. w \in Int /\ c * u \in Int /\ c * v \in Int
    OBVIOUS
  <2> HIDE DEF u, v, w
  <2>2. c * u < w /\ w <= c * v
    BY <1>1, <1>2, <1>3 DEF u, v, w
  <2>3. QED BY <2>1, <2>2
<1> HIDE DEF u, v
<1>6. u < v
  BY <1>4, <1>5
<1>7. QED BY <1>6 DEF u, v

\* calculateOptimalLayout() finds a number of columns: of finitely many scores
\* one is the least.
LEMMA BestExists ==
    ASSUME NEW size \in Nat \X Nat, NEW n \in Nat \ {0}
    PROVE  \E c \in 1..n : IsBest(size, n, c)
<1> DEFINE S(c) == Score(size, n, c)
           Beats(c, d) == S(c) * d < S(d) * c \/ (S(c) * d = S(d) * c /\ c <= d)
           P(m) == \E c \in 1..m : \A d \in 1..m : Beats(c, d)
           T == {m \in 1..n : ~P(m)}
<1>1. \A c \in 1..n : S(c) \in Int
  <2> SUFFICES ASSUME NEW c \in 1..n PROVE S(c) \in Int
    OBVIOUS
  <2> DEFINE r == Rows(n, c)
  <2>1. r \in Int
    BY DEF Rows
  <2> HIDE DEF r
  <2>2. QED BY <2>1 DEF Score, r
<1>2. \A c \in 1..n : IsBest(size, n, c) <=> \A d \in 1..n : Beats(c, d)
  BY DEF IsBest
<1> HIDE DEF S
<1>3. SUFFICES ASSUME T # {} PROVE FALSE
  <2>1. n \in 1..n
    OBVIOUS
  <2>2. P(n)
    BY <1>3, <2>1
  <2>3. QED BY <1>2, <2>2
<1>4. PICK m \in T : \A k \in T : m <= k
  <2>1. T \in SUBSET Nat
    OBVIOUS
  <2> HIDE DEF T
  <2>2. QED BY <1>3, <2>1, LeastNatural
<1>5. m \in 1..n /\ ~P(m)
  BY <1>4
<1>6. m # 1
  <2>1. S(1) * 1 = S(1) * 1 /\ 1 \in 1..1 /\ \A d \in 1..1 : d = 1
    OBVIOUS
  <2>2. P(1)
    BY <2>1
  <2>3. QED BY <1>5, <2>2
<1>7. m - 1 \in 1..n /\ ~(m <= m - 1)
  BY <1>5, <1>6
<1>8. P(m - 1)
  BY <1>4, <1>7
<1>9. PICK c \in 1..(m - 1) : \A d \in 1..(m - 1) : Beats(c, d)
  BY <1>8
<1>10. /\ c \in 1..m /\ m \in 1..m /\ S(c) \in Int /\ S(m) \in Int /\ c < m
       /\ c \in Nat \ {0} /\ m \in Nat \ {0}
  BY <1>1, <1>5, <1>9
<1>11. CASE Beats(c, m)
  <2>1. \A d \in 1..m : d = m \/ d \in 1..(m - 1)
    BY <1>10
  <2>2. \A d \in 1..m : Beats(c, d)
    BY <1>9, <1>11, <2>1
  <2>3. QED BY <1>5, <1>10, <2>2
<1>12. CASE ~Beats(c, m)
  <2>1. S(m) * c < S(c) * m
    <3> DEFINE x == S(m) * c  y == S(c) * m
    <3>1. x \in Int /\ y \in Int
      BY <1>10
    <3>2. ~(y < x) /\ ~(y = x)
      BY <1>10, <1>12
    <3> HIDE DEF x, y
    <3>3. x < y
      BY <3>1, <3>2
    <3>4. QED BY <3>3 DEF x, y
  <2>2. ASSUME NEW d \in 1..m PROVE Beats(m, d)
    <3>1. CASE d = m
      BY <1>10, <3>1
    <3>2. CASE d # m
      <4>1. d \in 1..(m - 1) /\ d \in Nat \ {0} /\ d \in 1..n
        BY <1>5, <1>10, <3>2
      <4>2. S(d) \in Int
        BY <1>1, <4>1
      <4>3. S(c) * d <= S(d) * c
        <5>1. Beats(c, d)
          BY <1>9, <4>1
        <5> DEFINE x == S(c) * d  y == S(d) * c
        <5>2. x \in Int /\ y \in Int
          BY <1>10, <4>1, <4>2
        <5>3. x < y \/ x = y
          BY <5>1
        <5> HIDE DEF x, y
        <5>4. x <= y
          BY <5>2, <5>3
        <5>5. QED BY <5>4 DEF x, y
      <4>4. S(m) * d < S(d) * m
        BY <1>10, <2>1, <4>1, <4>2, <4>3, RatiosAreOrdered
      <4>5. QED BY <4>4
    <3>3. QED BY <3>1, <3>2
  <2>3. QED BY <1>5, <1>10, <2>2
<1>13. QED BY <1>11, <1>12

\* The grid has a cell for every user.
LEMMA GridFacts ==
    ASSUME ConfigInv, NEW n \in 1..Cardinality(Members), Cardinality(Members) \in Nat
    PROVE LET cols == CalculateOptimalLayout(n)[1]  rows == CalculateOptimalLayout(n)[2] IN
          cols \in Nat \ {0} /\ rows \in Nat \ {0} /\ n <= cols * rows
<1>1. CASE n \in 1..4
  <2>1. CASE n = 1 BY <2>1 DEF CalculateOptimalLayout
  <2>2. CASE n = 2 BY <2>2 DEF CalculateOptimalLayout
  <2>3. CASE n = 3 BY <2>3 DEF CalculateOptimalLayout
  <2>4. CASE n = 4 BY <2>4 DEF CalculateOptimalLayout
  <2>5. QED BY <1>1, <2>1, <2>2, <2>3, <2>4
<1>2. CASE n > 4
  <2> DEFINE c == BestCols(n)
  <2>1. \E k \in 1..n : IsBest(canvas, n, k)
    <3>1. canvas \in Nat \X Nat
      BY CompositorAssumption DEF ConfigInv
    <3>2. QED BY <3>1, BestExists
  <2>2. c \in 1..n
    BY <2>1 DEF BestCols
  <2> HIDE DEF c
  <2> DEFINE q == (n + c - 1) \div c
  <2>3. n + c - 1 \in Nat /\ c \in Nat \ {0} /\ n \in Nat
    BY <2>2
  <2>4. q \in Nat /\ n + c - 1 < c * q + c
    BY <2>3, DivFacts
  <2> HIDE DEF q
  <2>5. n <= c * q /\ q # 0
    BY <2>3, <2>4, <1>2
  <2>6. CalculateOptimalLayout(n) = <<c, q>>
    BY <1>2 DEF CalculateOptimalLayout, Rows, c, q
  <2>7. QED BY <2>3, <2>4, <2>5, <2>6
<1>3. QED BY <1>1, <1>2

\* The remainder
LEMMA ModFacts ==
    ASSUME NEW a \in Nat, NEW p \in Nat, p > 0
    PROVE (a % p) \in Nat /\ (a % p) < p /\ a = p * (a \div p) + (a % p)
<1>1. (a % p) \in Nat
  OBVIOUS
<1>2. (a % p) < p
  OBVIOUS
<1>3. a = p * (a \div p) + (a % p)
  OBVIOUS
<1>4. QED BY <1>1, <1>2, <1>3

\* A cell of a grid, by its number
LEMMA PlaceFacts ==
    ASSUME NEW cols \in Nat \ {0}, NEW rows \in Nat \ {0}, NEW k \in Nat, k < cols * rows
    PROVE /\ (k % cols) \in Nat /\ (k % cols) + 1 <= cols
          /\ k \div cols \in Nat /\ k \div cols + 1 <= rows
          /\ k = cols * (k \div cols) + (k % cols)
<1> DEFINE d == k \div cols
<1> DEFINE m == k % cols
<1>1. m \in Nat /\ m < cols /\ k = cols * d + m
  BY ModFacts
<1>2. d \in Nat
  BY DivFacts
<1>3. rows - 1 \in Nat /\ rows - 1 + 1 = rows
  OBVIOUS
<1>4. k < cols * (rows - 1 + 1)
  BY <1>3
<1>5. d <= rows - 1
  BY <1>3, <1>4, DivAtMost
<1> HIDE DEF d, m
<1>6. m + 1 <= cols /\ d + 1 <= rows
  BY <1>1, <1>2, <1>3, <1>5
<1>7. QED BY <1>1, <1>2, <1>6 DEF d, m

LEMMA FlatFits ==
    ASSUME ConfigInv, NEW n \in 1..Cardinality(Members), Cardinality(Members) \in Nat
    PROVE RegionsOK(FlatRegions(n))
<1> DEFINE cols == CalculateOptimalLayout(n)[1]
<1> DEFINE rows == CalculateOptimalLayout(n)[2]
<1> DEFINE w == canvas[1]
<1> DEFINE h == canvas[2]
<1> DEFINE col(i) == (i - 1) % cols
<1> DEFINE row(i) == (i - 1) \div cols
<1>1. cols \in Nat \ {0} /\ rows \in Nat \ {0} /\ n <= cols * rows
  BY GridFacts
<1>2. w \in Nat /\ w % 2 = 0 /\ h \in Nat /\ h % 2 = 0
  BY CanvasFacts
<1>3. /\ DOMAIN FlatRegions(n) = 1..n
      /\ \A i \in 1..n : FlatRegions(n)[i] =
            Cell(Cut(col(i), cols, w), Cut(col(i) + 1, cols, w), Cut(row(i), rows, h), Cut(row(i) + 1, rows, h))
  BY DEF FlatRegions
<1> HIDE DEF cols, rows, w, h
<1>4. ASSUME NEW i \in 1..n
      PROVE /\ col(i) \in Nat /\ col(i) + 1 <= cols /\ row(i) \in Nat /\ row(i) + 1 <= rows
            /\ i - 1 = cols * row(i) + col(i)
  <2>1. i - 1 \in Nat /\ i - 1 < cols * rows
    BY <1>1
  <2>2. QED BY <1>1, <2>1, PlaceFacts
<1> HIDE DEF col, row
<1>5. ASSUME NEW i \in 1..n
      PROVE LET c == FlatRegions(n)[i] IN
            /\ FitsIn(c, w, h)
            /\ c.x = Cut(col(i), cols, w) /\ c.x + c.w = Cut(col(i) + 1, cols, w)
            /\ c.y = Cut(row(i), rows, h) /\ c.y + c.h = Cut(row(i) + 1, rows, h)
  <2> DEFINE l == Cut(col(i), cols, w)
  <2> DEFINE r == Cut(col(i) + 1, cols, w)
  <2> DEFINE t == Cut(row(i), rows, h)
  <2> DEFINE b == Cut(row(i) + 1, rows, h)
  <2>1. /\ col(i) \in Nat /\ col(i) + 1 \in Nat /\ col(i) <= col(i) + 1 /\ col(i) + 1 <= cols
        /\ row(i) \in Nat /\ row(i) + 1 \in Nat /\ row(i) <= row(i) + 1 /\ row(i) + 1 <= rows
    BY <1>4
  <2>2. l \in Nat /\ r \in Nat /\ l <= r /\ r <= w /\ l % 2 = 0 /\ r % 2 = 0
    BY <1>1, <1>2, <2>1, CutFacts
  <2>3. t \in Nat /\ b \in Nat /\ t <= b /\ b <= h /\ t % 2 = 0 /\ b % 2 = 0
    BY <1>1, <1>2, <2>1, CutFacts
  <2>4. FlatRegions(n)[i] = Cell(l, r, t, b)
    BY <1>3
  <2> HIDE DEF l, r, t, b
  <2>5. /\ FitsIn(Cell(l, r, t, b), w, h)
        /\ Cell(l, r, t, b).x = l /\ Cell(l, r, t, b).x + Cell(l, r, t, b).w = r
        /\ Cell(l, r, t, b).y = t /\ Cell(l, r, t, b).y + Cell(l, r, t, b).h = b
    <3>1. Span(l, r, w) /\ Span(t, b, h)
      BY <1>2, <2>2, <2>3 DEF Span
    <3>2. QED BY ONLY <3>1, CellFits
  <2>6. QED BY <2>4, <2>5 DEF l, r, t, b
<1>6. ASSUME NEW i \in 1..n, NEW j \in 1..n, i # j
      PROVE Apart(FlatRegions(n)[i], FlatRegions(n)[j])
  <2>1. /\ col(i) \in Nat /\ col(j) \in Nat /\ row(i) \in Nat /\ row(j) \in Nat
        /\ col(i) <= cols /\ col(j) <= cols /\ row(i) <= rows /\ row(j) <= rows
        /\ col(i) + 1 \in Nat /\ col(j) + 1 \in Nat /\ row(i) + 1 \in Nat /\ row(j) + 1 \in Nat
    BY <1>1, <1>4
  <2>2. col(i) # col(j) \/ row(i) # row(j)
    BY <1>1, <1>4, <1>6, <2>1
  <2>3. CASE col(i) + 1 <= col(j)
    <3>1. Cut(col(i) + 1, cols, w) <= Cut(col(j), cols, w)
      BY <1>1, <1>2, <2>1, <2>3, CutFacts
    <3>2. QED BY <1>5, <3>1 DEF Apart
  <2>4. CASE col(j) + 1 <= col(i)
    <3>1. Cut(col(j) + 1, cols, w) <= Cut(col(i), cols, w)
      BY <1>1, <1>2, <2>1, <2>4, CutFacts
    <3>2. QED BY <1>5, <3>1 DEF Apart
  <2>5. CASE row(i) + 1 <= row(j)
    <3>1. Cut(row(i) + 1, rows, h) <= Cut(row(j), rows, h)
      BY <1>1, <1>2, <2>1, <2>5, CutFacts
    <3>2. QED BY <1>5, <3>1 DEF Apart
  <2>6. CASE row(j) + 1 <= row(i)
    <3>1. Cut(row(j) + 1, rows, h) <= Cut(row(i), rows, h)
      BY <1>1, <1>2, <2>1, <2>6, CutFacts
    <3>2. QED BY <1>5, <3>1 DEF Apart
  <2>7. QED BY <2>1, <2>2, <2>3, <2>4, <2>5, <2>6
<1>7. QED BY <1>3, <1>5, <1>6 DEF RegionsOK, w, h

\* The edge of a spotlight layout leaves room for the large picture.
LEMMA EdgeFacts ==
    ASSUME NEW size \in Nat, size >= 2, size % 2 = 0
    PROVE Edge(size) \in Nat /\ Edge(size) <= size /\ Edge(size) % 2 = 0
  BY DEF Edge, Larger

\* Two cells whose spans do not cross in one of the directions
LEMMA CellsApart ==
    ASSUME NEW l, NEW r, NEW t, NEW b, NEW w, NEW h, Span(l, r, w), Span(t, b, h),
           NEW l2, NEW r2, NEW t2, NEW b2, Span(l2, r2, w), Span(t2, b2, h),
           r <= l2 \/ b <= t2
    PROVE Apart(Cell(l, r, t, b), Cell(l2, r2, t2, b2)) /\ Apart(Cell(l2, r2, t2, b2), Cell(l, r, t, b))
<1>1. /\ Cell(l, r, t, b).x + Cell(l, r, t, b).w = r
      /\ Cell(l, r, t, b).y + Cell(l, r, t, b).h = b
  BY CellFits
<1>2. Cell(l2, r2, t2, b2).x = l2 /\ Cell(l2, r2, t2, b2).y = t2
  BY CellFits
<1>3. QED BY <1>1, <1>2 DEF Apart

\* The parts of a strip
LEMMA CutSpan ==
    ASSUME NEW p \in Nat \ {0}, NEW size \in Nat, size % 2 = 0, NEW k \in 0..(p - 1)
    PROVE Span(Cut(k, p, size), Cut(k + 1, p, size), size)
<1>1. k \in Nat /\ k + 1 \in Nat /\ k <= k + 1 /\ k + 1 <= p
  OBVIOUS
<1>2. /\ Cut(k, p, size) \in Nat /\ Cut(k + 1, p, size) \in Nat
      /\ Cut(k, p, size) % 2 = 0 /\ Cut(k + 1, p, size) % 2 = 0
      /\ Cut(k, p, size) <= Cut(k + 1, p, size) /\ Cut(k + 1, p, size) <= size
  BY <1>1, CutFacts
<1>3. QED BY <1>2 DEF Span

LEMMA CutOrder ==
    ASSUME NEW p \in Nat \ {0}, NEW size \in Nat, size % 2 = 0, NEW k \in Nat, NEW m \in Nat, k <= m, m <= p
    PROVE Cut(k, p, size) <= Cut(m, p, size)
  BY CutFacts

\* The strip along an edge: cells across it, and where the large picture is
LEMMA SpotlightFits ==
    ASSUME ConfigInv, NEW n \in Nat, n > 1
    PROVE RegionsOK(SpotlightRegions(n))
<1> DEFINE w == canvas[1]
<1> DEFINE h == canvas[2]
<1> DEFINE p == n - 1
<1> DEFINE S == SpotlightRegions(n)
<1>1. w \in Nat /\ w % 2 = 0 /\ w >= 2 /\ h \in Nat /\ h % 2 = 0 /\ h >= 2
  BY CanvasFacts
<1>2. p \in Nat \ {0} /\ DOMAIN S = 1..n /\ \A i \in 1..n : i # 1 => i - 2 \in 0..(p - 1) /\ (i - 2) + 1 = i - 1
  BY DEF SpotlightRegions
<1>3. CASE w >= h
  <2> DEFINE main == w - Edge(w)
  <2> DEFINE cell(i) == Cell(main, w, Cut(i - 2, p, h), Cut(i - 1, p, h))
  <2>1. S[1] = Cell(0, main, 0, h) /\ \A i \in 1..n : i # 1 => S[i] = cell(i)
    BY <1>3 DEF SpotlightRegions
  <2>2. Span(0, main, w) /\ Span(main, w, w) /\ Span(0, h, h)
    BY <1>1, EdgeFacts DEF Span
  <2> HIDE DEF w, h, p, S, main
  <2>3. ASSUME NEW i \in 1..n, i # 1 PROVE Span(Cut(i - 2, p, h), Cut(i - 1, p, h), h)
    BY <1>1, <1>2, <2>3, CutSpan
  <2>4. ASSUME NEW i \in 1..n PROVE FitsIn(S[i], w, h)
    BY <2>1, <2>2, <2>3, CellFits
  <2>5. ASSUME NEW i \in 1..n, i # 1 PROVE Apart(S[1], S[i]) /\ Apart(S[i], S[1])
    <3>1. main <= main
      BY <2>2 DEF Span
    <3>2. QED BY <2>1, <2>2, <2>3, <2>5, <3>1, CellsApart
  <2>6. ASSUME NEW i \in 1..n, NEW j \in 1..n, i # 1, j # 1, i < j PROVE Apart(S[i], S[j]) /\ Apart(S[j], S[i])
    <3>1. i - 1 \in Nat /\ j - 2 \in Nat /\ i - 1 <= j - 2 /\ j - 2 <= p
      BY <2>6 DEF p
    <3>2. Cut(i - 1, p, h) <= Cut(j - 2, p, h)
      BY <1>1, <1>2, <3>1, CutOrder
    <3>3. QED BY <2>1, <2>2, <2>3, <2>6, <3>2, CellsApart
  <2>7. ASSUME NEW i \in 1..n, NEW j \in 1..n, i # j PROVE Apart(S[i], S[j])
    <3>1. i < j \/ j < i
      BY <2>7
    <3>2. 1 \in 1..n
      OBVIOUS
    <3>3. QED BY <2>5, <2>6, <2>7, <3>1, <3>2
  <2>8. QED BY <1>2, <2>4, <2>7 DEF RegionsOK, S, w, h
<1>4. CASE ~(w >= h)
  <2> DEFINE main == h - Edge(h)
  <2> DEFINE cell(i) == Cell(Cut(i - 2, p, w), Cut(i - 1, p, w), main, h)
  <2>1. S[1] = Cell(0, w, 0, main) /\ \A i \in 1..n : i # 1 => S[i] = cell(i)
    BY <1>4 DEF SpotlightRegions
  <2>2. Span(0, main, h) /\ Span(main, h, h) /\ Span(0, w, w)
    BY <1>1, EdgeFacts DEF Span
  <2> HIDE DEF w, h, p, S, main
  <2>3. ASSUME NEW i \in 1..n, i # 1 PROVE Span(Cut(i - 2, p, w), Cut(i - 1, p, w), w)
    BY <1>1, <1>2, <2>3, CutSpan
  <2>4. ASSUME NEW i \in 1..n PROVE FitsIn(S[i], w, h)
    BY <2>1, <2>2, <2>3, CellFits
  <2>5. ASSUME NEW i \in 1..n, i # 1 PROVE Apart(S[1], S[i]) /\ Apart(S[i], S[1])
    <3>1. main <= main
      BY <2>2 DEF Span
    <3>2. QED BY <2>1, <2>2, <2>3, <2>5, <3>1, CellsApart
  <2>6. ASSUME NEW i \in 1..n, NEW j \in 1..n, i # 1, j # 1, i < j PROVE Apart(S[i], S[j]) /\ Apart(S[j], S[i])
    <3>1. i - 1 \in Nat /\ j - 2 \in Nat /\ i - 1 <= j - 2 /\ j - 2 <= p
      BY <2>6 DEF p
    <3>2. Cut(i - 1, p, w) <= Cut(j - 2, p, w)
      BY <1>1, <1>2, <3>1, CutOrder
    <3>3. QED BY <2>1, <2>2, <2>3, <2>6, <3>2, CellsApart
  <2>7. ASSUME NEW i \in 1..n, NEW j \in 1..n, i # j PROVE Apart(S[i], S[j])
    <3>1. i < j \/ j < i
      BY <2>7
    <3>2. 1 \in 1..n
      OBVIOUS
    <3>3. QED BY <2>5, <2>6, <2>7, <3>1, <3>2
  <2>8. QED BY <1>2, <2>4, <2>7 DEF RegionsOK, S, w, h
<1>5. QED BY <1>3, <1>4

\* The regions of any layout
LEMMA AllFit ==
    ASSUME ConfigInv, NEW n \in 1..Cardinality(Members), Cardinality(Members) \in Nat
    PROVE RegionsOK(CalculateRegions(n))
<1>1. CASE layout = "customized"
  <2>1. CalculateRegions(n) = custom
    BY <1>1 DEF CalculateRegions
  <2>2. ASSUME NEW i \in DOMAIN custom PROVE FitsIn(custom[i], canvas[1], canvas[2])
    BY DEF ConfigInv, ValidRegion, FitsIn, Inside
  <2>3. QED BY <1>1, <2>1, <2>2 DEF RegionsOK
<1>2. CASE layout # "customized" /\ layout = "spotlight" /\ n > 1
  BY <1>2, SpotlightFits DEF CalculateRegions
<1>3. CASE layout # "customized" /\ ~(layout = "spotlight" /\ n > 1)
  BY <1>3, FlatFits DEF CalculateRegions
<1>4. QED BY <1>1, <1>2, <1>3

\* What is drawn in regions that fit
DrawnOK(pic) ==
    /\ \A i \in DOMAIN pic :
         LET r == pic[i].region  f == pic[i].frame IN
         /\ Inside(r, canvas[1], canvas[2]) /\ Inside(f, r.w, r.h)
         /\ \A k \in {r.x, r.y, r.w, r.h, f.x, f.y, f.w, f.h} : k % 2 = 0
    /\ layout # "customized" =>
         \A i, j \in DOMAIN pic : i # j => Apart(pic[i].region, pic[j].region)

LEMMA DrawnFits ==
    ASSUME ConfigInv, NEW rs, RegionsOK(rs), NEW src \in Sources
    PROVE DrawnOK(Drawn(rs, src))
<1> DEFINE pic == Drawn(rs, src)
<1>1. /\ \A i \in DOMAIN pic : i \in DOMAIN rs /\ rs[i].w >= 2 /\ rs[i].h >= 2
      /\ \A i \in DOMAIN pic : pic[i].region = rs[i] /\ pic[i].frame = Scaled(src, rs[i])
  BY DEF Drawn
<1> HIDE DEF pic
<1>2. src \in (Nat \ {0}) \X (Nat \ {0}) /\ preserve \in BOOLEAN
  BY CompositorAssumption DEF ConfigInv
<1>3. ASSUME NEW i \in DOMAIN pic
      PROVE LET r == pic[i].region  f == pic[i].frame IN
            /\ Inside(r, canvas[1], canvas[2]) /\ Inside(f, r.w, r.h)
            /\ \A k \in {r.x, r.y, r.w, r.h, f.x, f.y, f.w, f.h} : k % 2 = 0
  <2> DEFINE r == rs[i]
  <2> DEFINE f == Scaled(src, r)
  <2>1. FitsIn(r, canvas[1], canvas[2]) /\ r.w >= 2 /\ r.h >= 2
    BY <1>1 DEF RegionsOK
  <2> HIDE DEF r
  <2>2. r \in Boxes /\ r.w % 2 = 0 /\ r.h % 2 = 0
    BY <2>1 DEF FitsIn
  <2>3. FitsIn(f, r.w, r.h)
    BY <1>2, <2>1, <2>2, ScaledFits
  <2> HIDE DEF f
  <2>4. /\ Inside(r, canvas[1], canvas[2]) /\ Inside(f, r.w, r.h)
        /\ \A k \in {r.x, r.y, r.w, r.h, f.x, f.y, f.w, f.h} : k % 2 = 0
    BY <2>1, <2>3 DEF FitsIn
  <2>5. pic[i].region = r /\ pic[i].frame = f
    BY <1>1 DEF r, f
  <2>6. QED BY <2>4, <2>5
<1>4. layout # "customized" => \A i, j \in DOMAIN pic : i # j => Apart(pic[i].region, pic[j].region)
  BY <1>1 DEF RegionsOK
<1>5. QED BY <1>3, <1>4 DEF DrawnOK, pic

-----------------------------------------------------------------------------
CompositorInv == ConfigInv /\ buffer \subseteq Members /\ RegionsFit

LEMMA CompositeFits ==
    ASSUME CompositorInv, NEW drawn, drawn \subseteq Members, Composite(drawn),
           UNCHANGED <<canvas, layout, custom, preserve>>
    PROVE ConfigInv' /\ RegionsFit'
<1>1. ConfigInv'
  BY DEF CompositorInv, ConfigInv, ValidCanvas, ValidRegion
<1>2. CASE drawn = {}
  BY <1>1, <1>2 DEF Composite, CompositorInv, RegionsFit
<1>3. CASE drawn # {}
  <2> DEFINE n == Cardinality(drawn)
  <2>1. Cardinality(Members) \in Nat /\ n \in Nat /\ n <= Cardinality(Members) /\ n # 0
    BY <1>3, CompositorAssumption, FS_Subset, FS_EmptySet, FS_CardinalityType
  <2>2. n \in 1..Cardinality(Members)
    BY <2>1
  <2> HIDE DEF n
  <2>3. PICK src \in Sources : picture' = Drawn(CalculateRegions(n), src)
    BY <1>3 DEF Composite, n
  <2>4. RegionsOK(CalculateRegions(n))
    BY <2>1, <2>2, AllFit DEF CompositorInv
  <2>5. DrawnOK(picture')
    BY <2>3, <2>4, DrawnFits DEF CompositorInv
  <2>6. QED BY <1>1, <2>5 DEF DrawnOK, RegionsFit
<1>4. QED BY <1>1, <1>2, <1>3

LEMMA InitialPicture == CompositorInit => CompositorInv
<1> SUFFICES ASSUME CompositorInit PROVE CompositorInv
  OBVIOUS
<1>1. ConfigInv
  BY DEF CompositorInit, ConfigInv, ValidCanvas
<1>2. RegionsFit
  BY DEF CompositorInit, RegionsFit
<1>3. QED BY <1>1, <1>2 DEF CompositorInit, CompositorInv

LEMMA NextPicture == CompositorInv /\ [CompositorNext]_compositorVars => CompositorInv'
<1> SUFFICES ASSUME CompositorInv, [CompositorNext]_compositorVars PROVE CompositorInv'
  OBVIOUS
<1>1. CASE Initialize
  <2>1. PICK size \in Canvases, rs \in CustomRegions :
           /\ ValidCanvas(size) /\ \A i \in DOMAIN rs : ValidRegion(rs[i], size)
           /\ canvas' = size /\ custom' = rs
    BY <1>1 DEF Initialize
  <2>2. ConfigInv'
    BY <1>1, <2>1, CompositorAssumption DEF Initialize, ConfigInv, ValidCanvas, ValidRegion
  <2>3. RegionsFit'
    BY <1>1 DEF Initialize, RegionsFit
  <2>4. QED BY <1>1, <2>2, <2>3 DEF Initialize, CompositorInv
<1>2. CASE OnLayoutChange
  BY <1>2, CompositeFits DEF OnLayoutChange, CompositorInv
<1>3. CASE IntervalEnds
  BY <1>3 DEF IntervalEnds, CompositorInv, ConfigInv, RegionsFit, ValidCanvas, ValidRegion
<1>4. CASE Cleanup
  BY <1>4 DEF Cleanup, CompositorInv, ConfigInv, RegionsFit, ValidCanvas, ValidRegion
<1>5. ASSUME NEW u \in Members, AddUserFrame(u) PROVE CompositorInv'
  <2>1. buffer' \subseteq Members
    BY <1>5 DEF AddUserFrame, CompositorInv
  <2>2. CASE early
    BY <1>5, <2>1, <2>2 DEF AddUserFrame, CompositorInv, ConfigInv, RegionsFit, ValidCanvas, ValidRegion
  <2>3. CASE ~early
    <3>1. PICK drawn \in SUBSET buffer' : Composite(drawn)
      BY <1>5, <2>3 DEF AddUserFrame
    <3>2. UNCHANGED <<canvas, layout, custom, preserve>>
      BY <1>5 DEF AddUserFrame
    <3>3. QED BY <2>1, <3>1, <3>2, CompositeFits DEF CompositorInv
  <2>4. QED BY <2>2, <2>3
<1>6. CASE UNCHANGED compositorVars
  BY <1>6 DEF compositorVars, CompositorInv, ConfigInv, RegionsFit, ValidCanvas, ValidRegion
<1>7. QED BY <1>1, <1>2, <1>3, <1>4, <1>5, <1>6 DEF CompositorNext

\* For every valid canvas, any number of users and any size of their frames,
\* what createCompositeFrameWithoutLock() draws lies inside the canvas on even
\* coordinates, each frame inside its region, and no computed region covers
\* another.
THEOREM RegionsAlwaysFit == CompositorSpec => []RegionsFit
<1>1. CompositorInv => RegionsFit
  BY DEF CompositorInv
<1>2. QED BY <1>1, InitialPicture, NextPicture, PTL DEF CompositorSpec

-----------------------------------------------------------------------------
(* The layout of the detector *)

\* UserInfo, and no user
Infos == [state : {"NONE", "JOINING", "ACTIVE", "LEAVING", "LEFT"},
          last : 0..3, first : 0..2, frames : 0..MinFrames]

\* Only expected users are tracked, or at most maxUsers.
DetectorInv ==
    /\ users \in [Senders -> Infos]
    /\ IF expected = {} THEN IsFiniteSet(Tracked) /\ Cardinality(Tracked) <= MaxUsers
       ELSE Tracked \subseteq expected

\* The layout the callback gets is of expected users, or of at most maxUsers.
LayoutFits == IF expected = {} THEN IsFiniteSet(shown) /\ Cardinality(shown) <= MaxUsers
              ELSE shown \subseteq expected

\* When no user is added, neither bound can break.
LEMMA FewerTracked ==
    ASSUME DetectorInv, users' \in [Senders -> Infos], expected' = expected, Tracked' \subseteq Tracked
    PROVE  DetectorInv'
<1>1. CASE expected = {}
  <2>1. IsFiniteSet(Tracked') /\ Cardinality(Tracked') <= Cardinality(Tracked)
    BY <1>1, FS_Subset DEF DetectorInv
  <2>2. Cardinality(Tracked') \in Nat /\ Cardinality(Tracked) \in Nat
    BY <1>1, <2>1, FS_CardinalityType DEF DetectorInv
  <2>3. Cardinality(Tracked') <= MaxUsers
    BY <1>1, <2>1, <2>2, DetectorAssumption DEF DetectorInv
  <2>4. QED BY <1>1, <2>1, <2>3 DEF DetectorInv
<1>2. CASE expected # {}
  BY <1>2 DEF DetectorInv
<1>3. QED BY <1>1, <1>2

\* The detection thread keeps the types of the users, and adds none.
LEMMA UpdatedInfos ==
    ASSUME NEW info \in Infos
    PROVE  Kept(Updated(info)) \in Infos /\ (info = NoUser => Kept(Updated(info)) = NoUser)
<1>1. Updated(info) \in Infos /\ (info = NoUser => Updated(info) = NoUser)
  BY DetectorAssumption DEF Updated, Infos, NoUser, IsUserStable, Recent
<1>2. NoUser \in Infos
  BY DetectorAssumption DEF NoUser, Infos
<1>3. QED BY <1>1, <1>2 DEF Kept, NoUser

LEMMA FramedInfos ==
    ASSUME NEW info \in Infos
    PROVE  Framed(info) \in Infos /\ NewUser \in Infos
<1>1. NewUser \in Infos
  BY DetectorAssumption DEF NewUser, NoUser, Infos
<1>2. info.frames \in 0..MinFrames /\ Counted(info.frames) \in 0..MinFrames
  BY DetectorAssumption DEF Counted, Infos
<1>3. [info EXCEPT !.last = 0, !.frames = Counted(@),
                   !.state = IF @ = "LEAVING" THEN "ACTIVE" ELSE @] \in Infos
  <2> DEFINE counted == Counted(info.frames)
             state == IF info.state = "LEAVING" THEN "ACTIVE" ELSE info.state
  <2>1. /\ state \in {"NONE", "JOINING", "ACTIVE", "LEAVING", "LEFT"}
        /\ counted \in 0..MinFrames /\ 0 \in 0..3
    BY <1>2 DEF Infos
  <2> HIDE DEF counted, state
  <2>2. [info EXCEPT !.last = 0, !.frames = counted, !.state = state] \in Infos
    BY <2>1, DetectorAssumption DEF Infos
  <2>3. QED BY <2>2 DEF counted, state, Infos
<1>4. QED BY <1>1, <1>3 DEF Framed

\* Every step keeps the invariant; a frame adds a user whom Accepts() takes.
LEMMA StepKeepsDetector ==
    ASSUME DetectorInv, [DetectorNext]_detectorVars
    PROVE  DetectorInv'
<1>1. ASSUME NEW u \in Senders, OnUserFrame(u) PROVE DetectorInv'
  <2>1. users' \in [Senders -> Infos] /\ expected' = expected
    BY <1>1, FramedInfos DEF OnUserFrame, DetectorInv
  <2>2. Tracked' \subseteq Tracked \cup {u}
    BY <1>1 DEF OnUserFrame, Tracked, DetectorInv
  <2>3. CASE u \in Tracked
    <3>1. Tracked' \subseteq Tracked
      BY <2>2, <2>3
    <3>2. QED BY <2>1, <3>1, FewerTracked
  <2>4. CASE u \notin Tracked /\ expected # {}
    BY <1>1, <2>1, <2>2, <2>4 DEF OnUserFrame, Accepts, DetectorInv
  <2>5. CASE u \notin Tracked /\ expected = {}
    <3>1. IsFiniteSet(Tracked) /\ Cardinality(Tracked) < MaxUsers
      BY <1>1, <2>5 DEF OnUserFrame, Accepts, DetectorInv
    <3>2. IsFiniteSet(Tracked \cup {u}) /\ Cardinality(Tracked \cup {u}) = Cardinality(Tracked) + 1
      BY <2>5, <3>1, FS_AddElement
    <3>3. IsFiniteSet(Tracked') /\ Cardinality(Tracked') <= Cardinality(Tracked) + 1
      BY <2>2, <3>2, FS_Subset
    <3>4. Cardinality(Tracked') \in Nat /\ Cardinality(Tracked) \in Nat
      BY <3>1, <3>3, FS_CardinalityType
    <3>5. Cardinality(Tracked') <= MaxUsers
      BY <3>1, <3>3, <3>4, DetectorAssumption
    <3>6. QED BY <2>1, <2>5, <3>3, <3>5 DEF DetectorInv
  <2>6. QED BY <2>3, <2>4, <2>5
<1>2. ASSUME UpdateUserStates PROVE DetectorInv'
  <2>1. users' \in [Senders -> Infos] /\ expected' = expected
    BY <1>2, UpdatedInfos DEF UpdateUserStates, DetectorInv
  <2>2. Tracked' \subseteq Tracked
    BY <1>2, UpdatedInfos DEF UpdateUserStates, DetectorInv, Tracked
  <2>3. QED BY <2>1, <2>2, FewerTracked
<1>3. ASSUME NEW u \in Senders, LastAges(u) PROVE DetectorInv'
  <2>1. users' \in [Senders -> Infos] /\ expected' = expected
    <3> DEFINE first == IF users[u].first < users[u].last + 1 /\ users[u].first < 2
                        THEN users[u].first + 1 ELSE users[u].first
    <3>1. users[u].last + 1 \in 0..3 /\ first \in 0..2
      BY <1>3 DEF LastAges, DetectorInv, Infos
    <3>2. users' = [users EXCEPT ![u] = [users[u] EXCEPT !.last = users[u].last + 1, !.first = first]]
      BY <1>3 DEF LastAges, DetectorInv, Infos
    <3> HIDE DEF first
    <3>3. [users[u] EXCEPT !.last = users[u].last + 1, !.first = first] \in Infos
      BY <3>1 DEF DetectorInv, Infos
    <3>4. QED BY <1>3, <3>2, <3>3 DEF LastAges, DetectorInv
  <2>2. Tracked' \subseteq Tracked
    BY <1>3 DEF LastAges, DetectorInv, Tracked
  <2>3. QED BY <2>1, <2>2, FewerTracked
<1>4. ASSUME NEW u \in Senders, FirstAges(u) PROVE DetectorInv'
  <2>1. users' \in [Senders -> Infos] /\ expected' = expected
    BY <1>4 DEF FirstAges, DetectorInv, Infos
  <2>2. Tracked' \subseteq Tracked
    BY <1>4 DEF FirstAges, DetectorInv, Tracked
  <2>3. QED BY <2>1, <2>2, FewerTracked
<1>5. ASSUME expected' = expected, users' = users PROVE DetectorInv'
  BY <1>5 DEF DetectorInv, Tracked
<1>6. QED
  BY <1>1, <1>2, <1>3, <1>4, <1>5
  DEF DetectorNext, CheckLayoutChange, Woken, StopDetector, Settles, OthersLeave, detectorVars

\* The layout changes only to users who are tracked.
LEMMA StepKeepsLayout ==
    ASSUME DetectorInv, LayoutFits, [DetectorNext]_detectorVars
    PROVE  LayoutFits'
<1>1. ASSUME CheckLayoutChange PROVE LayoutFits'
  <2>1. expected' = expected /\ (shown' = shown \/ shown' \subseteq Tracked)
    <3>1. \A u \in Senders : ShouldIncludeInLayout(users[u]) => users[u] # NoUser
      BY DEF ShouldIncludeInLayout, NoUser
    <3>2. QED BY <1>1, <3>1 DEF CheckLayoutChange, Tracked
  <2>2. CASE shown' = shown
    BY <2>1, <2>2 DEF LayoutFits
  <2>3. CASE shown' \subseteq Tracked /\ expected # {}
    BY <2>1, <2>3 DEF LayoutFits, DetectorInv
  <2>4. CASE shown' \subseteq Tracked /\ expected = {}
    <3>1. IsFiniteSet(shown') /\ Cardinality(shown') <= Cardinality(Tracked)
      BY <2>4, FS_Subset DEF DetectorInv
    <3>2. Cardinality(shown') \in Nat /\ Cardinality(Tracked) \in Nat
      BY <2>4, <3>1, FS_CardinalityType DEF DetectorInv
    <3>3. Cardinality(shown') <= MaxUsers
      BY <2>4, <3>1, <3>2, DetectorAssumption DEF DetectorInv
    <3>4. QED BY <2>1, <2>4, <3>1, <3>3 DEF LayoutFits
  <2>5. QED BY <2>1, <2>2, <2>3, <2>4
<1>2. ASSUME expected' = expected, shown' = shown PROVE LayoutFits'
  BY <1>2 DEF LayoutFits
<1>3. QED
  BY <1>1, <1>2
  DEF DetectorNext, UpdateUserStates, Woken, StopDetector, Settles, OthersLeave, OnUserFrame,
      LastAges, FirstAges, detectorVars

\* onUserFrame() and the detection thread never show a stranger in a layout of
\* expected users, and never more than maxUsers in an open one, however users
\* come, go and come back between two looks of the thread.
THEOREM LayoutAlwaysFits == DetectorSpec => []LayoutFits
<1>1. DetectorInit => DetectorInv /\ LayoutFits
  <2> SUFFICES ASSUME DetectorInit PROVE DetectorInv /\ LayoutFits
    OBVIOUS
  <2>1. users \in [Senders -> Infos]
    BY DetectorAssumption DEF DetectorInit, NewUser, NoUser, Infos
  <2>2. Tracked \subseteq expected
    BY DEF DetectorInit, Tracked
  <2>3. IsFiniteSet({}) /\ Cardinality({}) <= MaxUsers
    BY FS_EmptySet, DetectorAssumption
  <2>4. expected = {} => Tracked = {}
    BY <2>2
  <2>5. QED BY <2>1, <2>2, <2>3, <2>4 DEF DetectorInit, DetectorInv, LayoutFits
<1>2. QED BY <1>1, StepKeepsDetector, StepKeepsLayout, PTL DEF DetectorSpec

-----------------------------------------------------------------------------
(* The stop() of the snapshot sink *)

\* frameMutex_ is held where the code holds it over a step; and a request the
\* capture thread has not seen finds it awake, or is the one that was lost.
SnapshotInv ==
    /\ capture \in {"none", "loop", "test", "tested", "waiting", "woken", "save", "done"}
    /\ sdk \in {"out", "lock", "compose", "notify", "stuck"}
    /\ capture = "tested" => frameLock = "capture" /\ sdk \notin {"compose", "stuck"}
    /\ sdk \in {"compose", "stuck"} => frameLock = "sdk" /\ "composite" \in Modes
    /\ capture # "tested" /\ sdk \notin {"compose", "stuck"} => frameLock = "none"
    /\ mode \in Modes
    /\ stopper = "join" => stopRequested /\ capture # "none"
    /\ stopper = "join" /\ capture \in {"tested", "waiting"} => lost
    /\ capturing <=> capture # "none"

\* The capture thread is able to take its next step, or is over.
CaptureCanGoOn ==
    \/ capture \in {"loop", "save", "tested", "done"}
    \/ capture \in {"test", "woken"} /\ frameLock = "none"

\* stop() is held up in two ways only: the notification was lost, or the SDK
\* thread is composing with frameMutex_ held, which takes a composite snapshot.
HeldUpOnlyThere ==
    stopper = "join" =>
        \/ CaptureCanGoOn
        \/ capture = "waiting" /\ lost
        \/ sdk \in {"compose", "stuck"} /\ "composite" \in Modes

\* Every step keeps the invariant.
LEMMA StepKeepsSnapshot ==
    ASSUME SnapshotInv, [SnapshotNext]_snapshotVars
    PROVE  SnapshotInv'
<1> USE DEF SnapshotInv
<1>1. ASSUME StartCapture PROVE SnapshotInv'
  BY <1>1 DEF StartCapture
<1>2. ASSUME StopCapture PROVE SnapshotInv'
  BY <1>2 DEF StopCapture, Notified
<1>3. ASSUME JoinCapture PROVE SnapshotInv'
  BY <1>3 DEF JoinCapture
<1>4. ASSUME OnVideoFrame PROVE SnapshotInv'
  BY <1>4 DEF OnVideoFrame
<1>5. ASSUME TakeFrame PROVE SnapshotInv'
  BY <1>5 DEF TakeFrame
<1>6. ASSUME OnlyStored PROVE SnapshotInv'
  BY <1>6 DEF OnlyStored
<1>7. ASSUME Compose PROVE SnapshotInv'
  BY <1>7 DEF Compose
<1>8. ASSUME LayoutComposes PROVE SnapshotInv'
  BY <1>8 DEF LayoutComposes, Notified
<1>9. ASSUME NotifyFrame PROVE SnapshotInv'
  BY <1>9 DEF NotifyFrame, Notified
<1>10. ASSUME LoopTop PROVE SnapshotInv'
  BY <1>10 DEF LoopTop, CaptureGo
<1>11. ASSUME TestFrame PROVE SnapshotInv'
  BY <1>11 DEF TestFrame, CaptureGo
<1>12. ASSUME Sleep PROVE SnapshotInv'
  BY <1>12 DEF Sleep, CaptureGo
<1>13. ASSUME Save PROVE SnapshotInv'
  BY <1>13 DEF Save, CaptureGo
<1>14. ASSUME IntervalPasses PROVE SnapshotInv'
  BY <1>14 DEF IntervalPasses
<1>15. CASE UNCHANGED snapshotVars
  BY <1>15 DEF snapshotVars
<1>16. QED
  BY <1>1, <1>2, <1>3, <1>4, <1>5, <1>6, <1>7, <1>8, <1>9, <1>10, <1>11, <1>12, <1>13, <1>14, <1>15 DEF SnapshotNext

\* Whenever stop() joins the capture thread, that thread can go on, except in
\* the two states SnapshotStops leaves out; in a sink of individual snapshots
\* only the lost notification is left.
THEOREM HeldUpNowhereElse == SnapshotSpec => []HeldUpOnlyThere
<1>1. SnapshotInit => SnapshotInv
  BY DEF SnapshotInit, SnapshotInv
<1>2. SnapshotInv => HeldUpOnlyThere
  BY DEF SnapshotInv, HeldUpOnlyThere, CaptureCanGoOn
<1>3. QED BY <1>1, <1>2, StepKeepsSnapshot, PTL DEF SnapshotSpec
==============================================================================
