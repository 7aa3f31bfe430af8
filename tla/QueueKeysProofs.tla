-------------------------- MODULE QueueKeysProofs --------------------------
(***************************************************************************)
(* Proofs about QueueKeys, for every set of tasks and pods, every channel  *)
(* name and every region.  The first part is about the grammar of keys     *)
(* alone; the second carries it through the steps of the system.           *)
(***************************************************************************)
EXTENDS QueueKeys, SequenceTheorems, FiniteSetTheorems, TLAPS

-----------------------------------------------------------------------------
(* The grammar. *)

(* What the cleaner's pattern says of a key that matches it: some part     *)
(* after the second and before the last is "channel".                      *)
LEMMA AgedHasChannel ==
  ASSUME NEW k \in Seq(Part), Matches(AgedPattern, k)
  PROVE  \E i \in 3..(Len(k) - 1) : k[i] = "channel"
<1>1. /\ Len(AgedPattern) = 4
      /\ AgedPattern[1] = "egress" /\ AgedPattern[2] = "*"
      /\ AgedPattern[3] = "channel" /\ AgedPattern[4] = "*"
  BY DEF AgedPattern
<1>2. PICK cut \in [0..4 -> 0..Len(k)] :
        /\ cut[0] = 0
        /\ cut[4] = Len(k)
        /\ \A i \in 1..4 :
             IF AgedPattern[i] = "*"
             THEN cut[i] > cut[i - 1]
             ELSE cut[i] = cut[i - 1] + 1 /\ k[cut[i]] = AgedPattern[i]
  BY <1>1 DEF Matches
<1>3. cut[1] = cut[0] + 1 /\ cut[2] > cut[1]
  BY <1>1, <1>2
<1>4. cut[3] = cut[2] + 1 /\ k[cut[3]] = "channel"
  BY <1>1, <1>2
<1>5. cut[4] > cut[3]
  BY <1>1, <1>2
<1>6. cut[0] \in Int /\ cut[1] \in Int /\ cut[2] \in Int /\ cut[3] \in Int /\ cut[4] \in Int
  BY <1>2
<1> QED
  BY <1>2, <1>3, <1>4, <1>5, <1>6

(* No queue that a pod consumes is ever looked at by the cleaner of aged   *)
(* tasks (CleanupAgedTasks): a waiting task that a pod could fetch never   *)
(* times out, whatever the commands, channels and regions are.             *)
THEOREM ConsumedNeverAged ==
  ASSUME NEW k \in Seq(Part), isValidQueueKey(k)
  PROVE  ~Matches(AgedPattern, k)
<1> SUFFICES ASSUME Matches(AgedPattern, k) PROVE FALSE
  OBVIOUS
<1>1. PICK i \in 3..(Len(k) - 1) : k[i] = "channel"
  BY AgedHasChannel
<1>2. CASE Len(k) = 3
  BY <1>1, <1>2
<1>3. CASE Len(k) = 4 /\ k[3] \in validCmds
  BY <1>1, <1>3 DEF validCmds
<1>4. CASE Len(k) = 5 /\ k[3] = "web" /\ k[4] \in validCmds
  BY <1>1, <1>4 DEF validCmds
<1> QED
  BY <1>2, <1>3, <1>4 DEF isValidQueueKey

(* No pod ever yields before it pops a queue that it consumes              *)
(* (shouldYieldForRegionalTask), whatever its region.                      *)
THEOREM ConsumedNeverYields ==
  ASSUME NEW k, NEW p \in Pods, isValidQueueKey(k)
  PROVE  ~shouldYieldForRegionalTask(p, k)
<1>1. Len(k) = 3 \/ Len(k) = 4 \/ Len(k) = 5
  BY DEF isValidQueueKey
<1>2. Len(k) = 5 => k[4] \in validCmds
  BY DEF isValidQueueKey
<1>3. ~(Len(k) >= 5 /\ k[4] = "channel")
  <2>1. ~(3 >= 5) /\ ~(4 >= 5) /\ "channel" \notin validCmds
    BY DEF validCmds
  <2> QED
    BY <1>1, <1>2, <2>1, Zenon
<1>4. ~(Len(k) >= 6 /\ k[5] = "channel")
  <2>1. ~(3 >= 6) /\ ~(4 >= 6) /\ ~(5 >= 6)
    OBVIOUS
  <2> QED
    BY <1>1, <2>1, Zenon
<1>5. YieldRegion(k) = ""
  BY <1>3, <1>4, Zenon DEF YieldRegion
<1> QED
  BY <1>5, Zenon DEF shouldYieldForRegionalTask

(* The parts of a concatenation.                                           *)
LEMMA CatParts ==
  ASSUME NEW a \in Seq(Part), NEW b \in Seq(Part)
  PROVE  /\ a \o b \in Seq(Part)
         /\ Len(a \o b) = Len(a) + Len(b)
         /\ \A i \in 1..Len(a) : (a \o b)[i] = a[i]
         /\ \A i \in 1..Len(b) : (a \o b)[Len(a) + i] = b[i]
BY ConcatProperties

(* A freestyle task is routed to "egress:web:..." for the flexible         *)
(* recorders (getQueueKey), and yet every native pod consumes that queue:  *)
(* the pattern egress:*:<cmd>:* for regional queues matches it, and        *)
(* isValidQueueKey accepts it, for every command and every channel name    *)
(* without ':'.                                                            *)
THEOREM NativeConsumesWeb ==
  ASSUME NEW cmd \in validCmds, NEW c \in Part
  PROVE  LET k == getQueueKey("freestyle", cmd, <<c>>, "") IN
           /\ isValidQueueKey(k)
           /\ \E pattern \in NativePatterns : Matches(pattern, k)
<1> DEFINE a == <<"egress", "web", cmd>>
           k == getQueueKey("freestyle", cmd, <<c>>, "")
           pattern == <<"egress", "*", cmd, "*">>
           cut == [i \in 0..4 |-> i]
<1>1. "egress" \in Part /\ "web" \in Part /\ cmd \in Part
  BY QueueKeysAssumption DEF Words, NotRegion
<1>2. /\ a \in Seq(Part) /\ Len(a) = 3
      /\ a[1] = "egress" /\ a[2] = "web" /\ a[3] = cmd
  BY <1>1
<1>3. <<c>> \in Seq(Part) /\ Len(<<c>>) = 1
  OBVIOUS
<1>4. k = a \o <<c>>
  BY Zenon DEF getQueueKey
<1>5. Len(k) = 4 /\ k[1] = "egress" /\ k[3] = cmd
  <2> HIDE DEF a, k
  <2>1. Len(k) = Len(a) + 1 /\ \A i \in 1..Len(a) : k[i] = a[i]
    BY <1>2, <1>3, <1>4, CatParts, Zenon
  <2>2. 3 + 1 = 4 /\ 1 \in 1..3 /\ 3 \in 1..3
    OBVIOUS
  <2> QED
    BY <1>2, <2>1, <2>2, Zenon
<1> HIDE DEF a, k
<1>6. isValidQueueKey(k)
  <2>1. 4 >= 3
    OBVIOUS
  <2> QED
    BY <1>5, <2>1, Zenon DEF isValidQueueKey
<1>7. pattern \in NativePatterns
  BY DEF NativePatterns
<1>8. /\ Len(pattern) = 4
      /\ pattern[1] = "egress" /\ pattern[2] = "*"
      /\ pattern[3] = cmd /\ pattern[4] = "*"
  OBVIOUS
<1> HIDE DEF pattern
<1>9. /\ cut \in [0..4 -> 0..4] /\ cut[0] = 0 /\ cut[4] = 4
      /\ \A i \in 1..4 : cut[i] = i /\ cut[i - 1] = i - 1
  OBVIOUS
<1> HIDE DEF cut
<1>10. \A i \in 1..4 :
         IF pattern[i] = "*"
         THEN cut[i] > cut[i - 1]
         ELSE cut[i] = cut[i - 1] + 1 /\ k[cut[i]] = pattern[i]
  <2>1. SUFFICES ASSUME NEW i \in 1..4
        PROVE  /\ i > i - 1 /\ i = (i - 1) + 1
               /\ pattern[i] = "*" \/ k[i] = pattern[i]
    BY <1>9, Zenon
  <2>2. i = 1 \/ i = 2 \/ i = 3 \/ i = 4
    OBVIOUS
  <2>3. i > i - 1 /\ i = (i - 1) + 1
    OBVIOUS
  <2> QED
    BY <1>5, <1>8, <2>2, <2>3, Zenon
<1>11. Matches(pattern, k)
  <2>1. /\ cut \in [0..Len(pattern) -> 0..Len(k)]
        /\ cut[0] = 0 /\ cut[Len(pattern)] = Len(k)
    BY <1>5, <1>8, <1>9
  <2>2. \A i \in 1..Len(pattern) :
          IF pattern[i] = "*"
          THEN cut[i] > cut[i - 1]
          ELSE cut[i] = cut[i - 1] + 1 /\ k[cut[i]] = pattern[i]
    BY <1>8, <1>10
  <2> QED
    BY <2>1, <2>2, SMT DEF Matches
<1> QED
  BY <1>6, <1>7, <1>11, Zenon DEF k

(* The validation of protocol.go lets a channel name hold ':'.  Unless the *)
(* text before the first ':' is itself a command or "web", no pod ever     *)
(* consumes the queue of such a channel: isValidQueueKey counts parts.     *)
THEOREM ColonNeverConsumed ==
  ASSUME NEW cmd \in validCmds, NEW channel \in Seq(Part), Len(channel) >= 2,
         channel[1] \notin validCmds \cup {"web"}
  PROVE  ~isValidQueueKey(buildQueueKey(cmd, channel))
<1> DEFINE a == <<"egress", cmd>>
           k == buildQueueKey(cmd, channel)
<1>1. "egress" \in Part /\ cmd \in Part
  BY QueueKeysAssumption DEF Words, NotRegion
<1>2. a \in Seq(Part) /\ Len(a) = 2
  BY <1>1
<1>3. k = a \o channel
  BY Zenon DEF buildQueueKey
<1> HIDE DEF a, k
<1>4. /\ Len(k) = Len(a) + Len(channel)
      /\ \A i \in 1..Len(channel) : k[Len(a) + i] = channel[i]
  BY <1>2, <1>3, CatParts, Zenon
<1>5. Len(channel) \in Nat
  BY LenProperties, Zenon
<1>6. 1 \in 1..Len(channel) /\ 2 + 1 = 3 /\ 2 + Len(channel) # 3
  BY <1>5
<1>7. Len(k) # 3 /\ k[3] = channel[1]
  BY <1>2, <1>4, <1>6, Zenon
<1>8. ~isValidQueueKey(k)
  BY <1>7, Zenon DEF isValidQueueKey
<1> QED
  BY <1>8, Zenon DEF k

(* The parts of a dedupe mark.                                             *)
LEMMA DedupeParts ==
  ASSUME NEW t \in Tasks
  PROVE  /\ Len(dedupeKey(t)) = Len(Channel[t]) + 4
         /\ Len(Channel[t]) \in Nat \ {0}
         /\ dedupeKey(t)[2] = "dedupe"
         /\ dedupeKey(t)[3] \in validCmds
<1>1. Channel[t] \in Seq(Part) /\ Channel[t] # <<>> /\ Cmd[t] \in validCmds
  BY QueueKeysAssumption
<1>2. Cmd[t] \in Part /\ "egress" \in Part /\ "dedupe" \in Part /\ "request" \in Part
  BY <1>1, QueueKeysAssumption DEF Words, NotRegion
<1> DEFINE a == <<"egress", "dedupe", Cmd[t]>>
           b == a \o Channel[t]
<1>3. a \in Seq(Part) /\ Len(a) = 3 /\ a[2] = "dedupe" /\ a[3] = Cmd[t]
  BY <1>2
<1>4. Len(Channel[t]) \in Nat \ {0}
  BY <1>1, EmptySeq
<1> HIDE DEF a
<1>5. /\ b \in Seq(Part) /\ Len(b) = 3 + Len(Channel[t])
      /\ b[2] = a[2] /\ b[3] = a[3]
  <2>1. /\ b \in Seq(Part) /\ Len(b) = Len(a) + Len(Channel[t])
        /\ \A i \in 1..Len(a) : b[i] = a[i]
    BY <1>1, <1>3, CatParts, Zenon
  <2>2. Len(b) = 3 + Len(Channel[t])
    BY <1>3, <2>1, Zenon
  <2>3. 2 \in 1..3 /\ 3 \in 1..3
    OBVIOUS
  <2> QED
    BY <1>3, <2>1, <2>2, <2>3, Zenon
<1>6. dedupeKey(t) = b \o <<"request">>
  BY DEF dedupeKey, a
<1> HIDE DEF b
<1>7. /\ Len(b \o <<"request">>) = Len(b) + 1
      /\ (b \o <<"request">>)[2] = b[2] /\ (b \o <<"request">>)[3] = b[3]
  BY <1>4, <1>5
<1> QED
  BY <1>1, <1>3, <1>4, <1>5, <1>6, <1>7

(* isValidQueueKey refuses every record, dedupe mark, lease and processing *)
(* list, whatever the name of the channel.                                 *)
THEOREM MetadataNeverConsumed ==
  ASSUME NEW k \in MetaKeys
  PROVE  ~isValidQueueKey(k)
<1>1. CASE k = TaskKey \/ k = LeaseKey \/ k = ProcessingKey
  BY <1>1 DEF TaskKey, LeaseKey, ProcessingKey, isValidQueueKey, validCmds
<1>2. ASSUME NEW t \in Tasks, k = dedupeKey(t) PROVE ~isValidQueueKey(k)
  <2>1. Len(k) \in Nat /\ Len(k) >= 5 /\ k[3] \in validCmds
    BY <1>2, DedupeParts
  <2>2. k[3] # "web"
    BY <2>1 DEF validCmds
  <2>3. Len(k) # 3 /\ Len(k) # 4
    <3>1. ~(3 >= 5) /\ ~(4 >= 5)
      OBVIOUS
    <3> QED
      BY <2>1, <3>1, Zenon
  <2> QED
    BY <2>2, <2>3, Zenon DEF isValidQueueKey
<1> QED
  BY <1>1, <1>2 DEF MetaKeys

-----------------------------------------------------------------------------
(* The queues of a native task. *)

(* A key of a task for a native layout, in a channel without ':', has      *)
(* "web" neither as its second part nor between the second and the last.   *)
LEMMA NativeKey ==
  ASSUME NEW t \in Tasks, Layout[t] # "freestyle", Len(Channel[t]) = 1,
         NEW k \in {QueueOf(t), RequeueOf(t)}
  PROVE  /\ k \in Seq(Part)
         /\ (Len(k) = 3 \/ Len(k) = 4)
         /\ k[2] # "web"
         /\ Len(k) = 4 => k[3] # "web"
<1>1. /\ Channel[t] \in Seq(Part) /\ Cmd[t] \in validCmds /\ Region[t] \in Part
      /\ Region[t] # "web"
  BY QueueKeysAssumption DEF NotRegion
<1>2. Cmd[t] \in Part /\ Cmd[t] # "web" /\ "egress" \in Part
  BY <1>1, QueueKeysAssumption DEF validCmds, Words, NotRegion
<1> DEFINE a == <<"egress", Cmd[t]>>
           b == <<"egress", Region[t], Cmd[t]>>
<1>3. a \in Seq(Part) /\ Len(a) = 2 /\ a[2] = Cmd[t]
  BY <1>2
<1>4. b \in Seq(Part) /\ Len(b) = 3 /\ b[2] = Region[t] /\ b[3] = Cmd[t]
  BY <1>1, <1>2
<1>5. RequeueOf(t) = a \o Channel[t]
  BY DEF RequeueOf, buildQueueKey
<1>6. QueueOf(t) = a \o Channel[t] \/ QueueOf(t) = b \o Channel[t]
  BY Zenon DEF QueueOf, getQueueKey
<1> HIDE DEF a, b
<1>7. CASE k = a \o Channel[t]
  <2>1. /\ k \in Seq(Part) /\ Len(k) = Len(a) + Len(Channel[t])
        /\ \A i \in 1..Len(a) : k[i] = a[i]
    BY <1>1, <1>3, <1>7, CatParts, Zenon
  <2>2. 2 \in 1..2 /\ 2 + 1 = 3 /\ 3 # 4
    OBVIOUS
  <2>3. Len(k) = 3 /\ k[2] = Cmd[t]
    BY <1>3, <2>1, <2>2, Zenon
  <2> QED
    BY <1>2, <2>1, <2>2, <2>3, Zenon
<1>8. CASE k = b \o Channel[t]
  <2>1. /\ k \in Seq(Part) /\ Len(k) = Len(b) + Len(Channel[t])
        /\ \A i \in 1..Len(b) : k[i] = b[i]
    BY <1>1, <1>4, <1>8, CatParts, Zenon
  <2>2. 2 \in 1..3 /\ 3 \in 1..3 /\ 3 + 1 = 4
    OBVIOUS
  <2>3. Len(k) = 4 /\ k[2] = Region[t] /\ k[3] = Cmd[t]
    BY <1>4, <2>1, <2>2, Zenon
  <2> QED
    BY <1>1, <1>2, <2>1, <2>3, Zenon
<1> QED
  BY <1>5, <1>6, <1>7, <1>8

(* What the patterns of a flexible recorder say of a key that matches one. *)
LEMMA WebHasWeb ==
  ASSUME NEW k \in Seq(Part), NEW pattern \in WebPatterns, Matches(pattern, k)
  PROVE  \/ Len(k) >= 3 /\ k[2] = "web"
         \/ \E i \in 3..(Len(k) - 1) : k[i] = "web"
<1>1. CASE pattern = <<"egress", "web", "*">>
  <2>1. Len(pattern) = 3 /\ pattern[1] = "egress" /\ pattern[2] = "web" /\ pattern[3] = "*"
    BY <1>1
  <2>2. PICK cut \in [0..3 -> 0..Len(k)] :
          /\ cut[0] = 0
          /\ cut[3] = Len(k)
          /\ \A i \in 1..3 :
               IF pattern[i] = "*"
               THEN cut[i] > cut[i - 1]
               ELSE cut[i] = cut[i - 1] + 1 /\ k[cut[i]] = pattern[i]
    BY <2>1 DEF Matches
  <2>3. cut[1] = cut[0] + 1 /\ cut[2] = cut[1] + 1 /\ k[cut[2]] = "web" /\ cut[3] > cut[2]
    BY <2>1, <2>2
  <2>4. cut[1] \in Int /\ cut[2] \in Int /\ cut[3] \in Int
    BY <2>2
  <2> QED
    BY <2>2, <2>3, <2>4
<1>2. CASE pattern = <<"egress", "*", "web", "*">>
  <2>1. /\ Len(pattern) = 4 /\ pattern[1] = "egress" /\ pattern[2] = "*"
        /\ pattern[3] = "web" /\ pattern[4] = "*"
    BY <1>2
  <2>2. PICK cut \in [0..4 -> 0..Len(k)] :
          /\ cut[0] = 0
          /\ cut[4] = Len(k)
          /\ \A i \in 1..4 :
               IF pattern[i] = "*"
               THEN cut[i] > cut[i - 1]
               ELSE cut[i] = cut[i - 1] + 1 /\ k[cut[i]] = pattern[i]
    BY <2>1 DEF Matches
  <2>3. /\ cut[1] = cut[0] + 1 /\ cut[2] > cut[1]
        /\ cut[3] = cut[2] + 1 /\ k[cut[3]] = "web" /\ cut[4] > cut[3]
    BY <2>1, <2>2
  <2>4. cut[1] \in Int /\ cut[2] \in Int /\ cut[3] \in Int /\ cut[4] \in Int
    BY <2>2
  <2> QED
    BY <2>2, <2>3, <2>4
<1> QED
  BY <1>1, <1>2 DEF WebPatterns

(* No pod that consumes such a key is a flexible recorder, and the native  *)
(* pod that does starts the task itself.                                   *)
LEMMA NativeConsumer ==
  ASSUME NEW t \in Tasks, Layout[t] # "freestyle", Len(Channel[t]) = 1,
         NEW k \in {QueueOf(t), RequeueOf(t)}, NEW p \in Pods, k \in Accepted[p]
  PROVE  Mode[p] = "native" /\ ~isWebTask(p, t, k)
<1>1. /\ k \in Seq(Part) /\ (Len(k) = 3 \/ Len(k) = 4)
      /\ k[2] # "web" /\ (Len(k) = 4 => k[3] # "web")
  BY NativeKey
<1>2. \E pattern \in patterns(Mode[p]) : Matches(pattern, k)
  BY DEF Accepted
<1>3. Mode[p] \in {"native", "web"}
  BY QueueKeysAssumption
<1>4. Mode[p] # "web"
  <2> SUFFICES ASSUME Mode[p] = "web" PROVE FALSE
    OBVIOUS
  <2>1. PICK pattern \in WebPatterns : Matches(pattern, k)
    BY <1>2 DEF patterns
  <2>2. CASE k[2] = "web"
    BY <1>1, <2>2
  <2>3. ASSUME NEW i \in 3..(Len(k) - 1), k[i] = "web" PROVE FALSE
    <3>1. PICK n \in Nat : n = Len(k)
      BY <1>1
    <3>2. (n = 3 \/ n = 4) /\ i \in 3..(n - 1)
      BY <1>1, <2>3, <3>1, Zenon
    <3>3. n = 4 /\ i = 3
      BY <3>2
    <3> QED
      BY <1>1, <2>3, <3>1, <3>3, Zenon
  <2> QED
    BY <1>1, <2>1, <2>2, <2>3, WebHasWeb
<1>5. ~(Len(k) >= 4 /\ k[3] = "web")
  <2>1. ~(3 >= 4)
    OBVIOUS
  <2> QED
    BY <1>1, <2>1, Zenon
<1> QED
  BY <1>1, <1>3, <1>4, <1>5, Zenon DEF isWebTask

-----------------------------------------------------------------------------
(* The steps of the system. *)

(* What the routing keeps true: a list holds tasks of its name only, a pod *)
(* only plans queues that it accepts, and a task that a pod popped, or     *)
(* claimed, came from a queue of its own that this pod accepts.            *)
ListPart(ls) == \A k \in Keys : \A i \in 1..Len(ls[k]) :
                  k \in {QueueOf(ls[k][i]), RequeueOf(ls[k][i])}
PlanPart(pl) == \A p \in Pods : pl[p] \subseteq Accepted[p]
HoldPart(h, src) == \A t \in Tasks : h[t] # NoPod =>
                      /\ h[t] \in Pods
                      /\ src[t] \in {QueueOf(t), RequeueOf(t)}
                      /\ src[t] \in Accepted[h[t]]
GotPart(g) == \A p \in Pods : \A e \in g[p] :
                /\ e.key \in {QueueOf(e.task), RequeueOf(e.task)}
                /\ e.key \in Accepted[p]

RouteInv ==
  ListPart(lists) /\ PlanPart(plan) /\ HoldPart(holder, source) /\ GotPart(got)

(* A task's two keys are keys of the system.                               *)
LEMMA OwnKeys ==
  ASSUME NEW t \in Tasks
  PROVE  QueueOf(t) \in Keys /\ RequeueOf(t) \in Keys
BY DEF Keys

(* LPUSH: the new entry is in front, the others move up by one.            *)
LEMMA PushFront ==
  ASSUME NEW s \in Seq(Tasks), NEW t \in Tasks
  PROVE  /\ <<t>> \o s \in Seq(Tasks)
         /\ \A i \in 1..Len(<<t>> \o s) :
              (<<t>> \o s)[i] = t \/ \E j \in 1..Len(s) : (<<t>> \o s)[i] = s[j]
<1> DEFINE u == <<t>>
<1>1. u \in Seq(Tasks) /\ Len(u) = 1 /\ u[1] = t
  OBVIOUS
<1> HIDE DEF u
<1>2. PICK n \in Nat : n = Len(s)
  OBVIOUS
<1>3. /\ u \o s \in Seq(Tasks) /\ Len(u \o s) = 1 + n
      /\ \A i \in 1..(1 + n) : (u \o s)[i] = IF i <= 1 THEN u[i] ELSE s[i - 1]
  <2>1. /\ u \o s \in Seq(Tasks) /\ Len(u \o s) = Len(u) + Len(s)
        /\ \A i \in 1..(Len(u) + Len(s)) :
             (u \o s)[i] = IF i <= Len(u) THEN u[i] ELSE s[i - Len(u)]
    BY <1>1, ConcatProperties
  <2> QED
    BY <1>1, <1>2, <2>1, Zenon
<1>4. ASSUME NEW i \in 1..(1 + n)
      PROVE  (u \o s)[i] = t \/ \E j \in 1..n : (u \o s)[i] = s[j]
  <2>1. CASE i = 1
    BY <1>1, <1>3, <2>1
  <2>2. CASE i # 1
    <3>1. i - 1 \in 1..n /\ ~(i <= 1)
      BY <2>2
    <3> QED
      BY <1>3, <3>1, Zenon
  <2> QED
    BY <2>1, <2>2
<1> QED
  BY <1>2, <1>3, <1>4, Zenon DEF u

(* RPOP: what is left was there before.                                    *)
LEMMA PopBack ==
  ASSUME NEW s \in Seq(Tasks), s # <<>>
  PROVE  /\ s[Len(s)] \in Tasks
         /\ SubSeq(s, 1, Len(s) - 1) \in Seq(Tasks)
         /\ \A i \in 1..Len(SubSeq(s, 1, Len(s) - 1)) :
              \E j \in 1..Len(s) : SubSeq(s, 1, Len(s) - 1)[i] = s[j]
         /\ Len(s) \in 1..Len(s)
BY EmptySeq

(* LREM of one entry: what is left was there before.                       *)
LEMMA RemoveEntry ==
  ASSUME NEW s \in Seq(Tasks), NEW i \in 1..Len(s)
  PROVE  LET r == SubSeq(s, 1, i - 1) \o SubSeq(s, i + 1, Len(s)) IN
         /\ s[i] \in Tasks
         /\ r \in Seq(Tasks)
         /\ \A h \in 1..Len(r) : \E j \in 1..Len(s) : r[h] = s[j]
<1> DEFINE a == SubSeq(s, 1, i - 1)
           b == SubSeq(s, i + 1, Len(s))
<1>1. PICK n \in Nat : n = Len(s)
  OBVIOUS
<1>2. i \in 1..n
  BY <1>1
<1>3. /\ a \in Seq(Tasks) /\ Len(a) = i - 1
      /\ \A h \in 1..(i - 1) : a[h] = s[h]
  BY <1>1, <1>2
<1>4. /\ b \in Seq(Tasks) /\ Len(b) = n - i
      /\ \A h \in 1..(n - i) : b[h] = s[h + i]
  BY <1>1, <1>2
<1> HIDE DEF a, b
<1>5. /\ a \o b \in Seq(Tasks) /\ Len(a \o b) = (i - 1) + (n - i)
      /\ \A h \in 1..((i - 1) + (n - i)) :
           (a \o b)[h] = IF h <= i - 1 THEN a[h] ELSE b[h - (i - 1)]
  <2>1. /\ a \o b \in Seq(Tasks) /\ Len(a \o b) = Len(a) + Len(b)
        /\ \A h \in 1..(Len(a) + Len(b)) :
             (a \o b)[h] = IF h <= Len(a) THEN a[h] ELSE b[h - Len(a)]
    BY <1>3, <1>4, ConcatProperties
  <2> QED
    BY <1>3, <1>4, <2>1, Zenon
<1>6. ASSUME NEW h \in 1..((i - 1) + (n - i))
      PROVE  \E j \in 1..n : (a \o b)[h] = s[j]
  <2>1. CASE h <= i - 1
    <3>1. h \in 1..(i - 1) /\ h \in 1..n
      BY <1>2, <2>1
    <3> QED
      BY <1>3, <1>5, <2>1, <3>1, Zenon
  <2>2. CASE ~(h <= i - 1)
    <3>1. h - (i - 1) \in 1..(n - i) /\ (h - (i - 1)) + i \in 1..n
      BY <1>2, <2>2
    <3> QED
      BY <1>4, <1>5, <2>2, <3>1, Zenon
  <2> QED
    BY <2>1, <2>2
<1>7. s[i] \in Tasks
  OBVIOUS
<1> QED
  BY <1>1, <1>5, <1>6, <1>7, Zenon DEF a, b

(* The bound on retries is a natural number.                               *)
LEMMA RetriesBound == MaxRetries \in Nat
BY QueueKeysAssumption, Zenon

(* What a pod holds between its pop and its claim, and its cleaner between *)
(* its look and its pipeline.                                              *)
Popped == [task : Tasks, key : Keys, verdict : {"unread", "take", "defer"}]
Seen   == [pod : Pods, task : Tasks, retry : 0..MaxRetries]

(* LREM keeps the counts of the processing lists natural numbers.          *)
LEMMA RemovedType ==
  ASSUME proc \in [Pods -> [Tasks -> Nat]], NEW p \in Pods, NEW t \in Tasks
  PROVE  Removed(p, t) \in [Pods -> [Tasks -> Nat]]
<1>1. (IF proc[p][t] > 0 THEN proc[p][t] - 1 ELSE 0) \in Nat
  OBVIOUS
<1> QED
  BY <1>1 DEF Removed

(* Every step keeps the types.                                             *)
LEMMA TypeStep ==
  ASSUME TypeOK, [Next]_vars
  PROVE  TypeOK'
<1>1. CASE UNCHANGED vars
  BY <1>1 DEF TypeOK, vars
<1>2. ASSUME NEW t \in Tasks, Publish(t) PROVE TypeOK'
  <2>1. QueueOf(t) \in Keys
    BY OwnKeys
  <2>2. <<t>> \o lists[QueueOf(t)] \in Seq(Tasks)
    BY <2>1, PushFront DEF TypeOK
  <2>3. lists' \in [Keys -> Seq(Tasks)]
    BY <1>2, <2>1, <2>2 DEF Publish, TypeOK
  <2> QED
    BY <1>2, <2>3 DEF Publish, TypeOK, States
<1>3. ASSUME NEW t \in Tasks, Finish(t) PROVE TypeOK'
  BY <1>3 DEF Finish, TypeOK, States
<1>4. ASSUME NEW p \in Pods, Recover(p) PROVE TypeOK'
  <2>1. PICK e \in looked[p] :
          /\ st' = [st EXCEPT ![e.task] = "ENQUEUED"]
          /\ aged' = [aged EXCEPT ![e.task] = FALSE]
          /\ retry' = [retry EXCEPT ![e.task] = e.retry]
          /\ lists' = [lists EXCEPT ![RequeueOf(e.task)] = <<e.task>> \o @]
          /\ holder' = [holder EXCEPT ![e.task] = NoPod]
          /\ proc' = Removed(e.pod, e.task)
    BY <1>4 DEF Recover
  <2>2. e \in Seen
    BY <2>1 DEF TypeOK, Seen
  <2>3. e.task \in Tasks /\ e.pod \in Pods /\ e.retry \in 0..MaxRetries
    BY <2>2 DEF Seen
  <2>4. RequeueOf(e.task) \in Keys
    BY <2>3, OwnKeys
  <2>5. <<e.task>> \o lists[RequeueOf(e.task)] \in Seq(Tasks)
    BY <2>3, <2>4, PushFront DEF TypeOK
  <2>6. lists' \in [Keys -> Seq(Tasks)]
    BY <2>1, <2>4, <2>5 DEF TypeOK
  <2>7. proc' \in [Pods -> [Tasks -> Nat]]
    BY <2>1, <2>3, RemovedType DEF TypeOK
  <2>8. /\ st' \in [Tasks -> States] /\ aged' \in [Tasks -> BOOLEAN]
        /\ retry' \in [Tasks -> 0..MaxRetries]
        /\ holder' \in [Tasks -> Pods \cup {NoPod}]
    BY <2>1, <2>3 DEF TypeOK, States
  <2>9. looked' \in [Pods -> SUBSET Seen]
    BY <1>4 DEF Recover, TypeOK, Seen
  <2> QED
    BY <1>4, <2>6, <2>7, <2>8, <2>9 DEF Recover, TypeOK, Seen
<1>5. ASSUME NEW t \in Tasks, Age(t) PROVE TypeOK'
  BY <1>5 DEF Age, TypeOK
<1>6. ASSUME NEW k \in Keys, NEW i \in 1..Len(lists[k]), Timeout(k, i) PROVE TypeOK'
  <2>1. lists[k][i] \in Tasks
    BY RemoveEntry DEF TypeOK
  <2>2. SubSeq(lists[k], 1, i - 1) \o SubSeq(lists[k], i + 1, Len(lists[k])) \in Seq(Tasks)
    BY RemoveEntry DEF TypeOK
  <2>3. lists' \in [Keys -> Seq(Tasks)]
    BY <1>6, <2>2 DEF Timeout, TypeOK
  <2> QED
    BY <1>6, <2>1, <2>3 DEF Timeout, TypeOK, States
<1>7. ASSUME NEW p \in Pods, Scan(p) PROVE TypeOK'
  <2>1. Existing \subseteq Keys \cup MetaKeys
    BY DEF Existing
  <2> QED
    BY <1>7, <2>1 DEF Scan, TypeOK
<1>8. ASSUME NEW p \in Pods, NEW k \in Keys, Pop(p, k) PROVE TypeOK'
  <2> DEFINE t == lists[k][Len(lists[k])]
             g == [task |-> t, key |-> k, verdict |-> "unread"]
  <2>1. t \in Tasks
    BY <1>8, PopBack DEF Pop, TypeOK
  <2>2. SubSeq(lists[k], 1, Len(lists[k]) - 1) \in Seq(Tasks)
    BY <1>8, PopBack DEF Pop, TypeOK
  <2>3. lists' \in [Keys -> Seq(Tasks)]
    BY <1>8, <2>2 DEF Pop, TypeOK
  <2>4. g \in Popped
    BY <2>1 DEF Popped
  <2>5. got' = [got EXCEPT ![p] = {g}] /\ proc' = [proc EXCEPT ![p][t] = @ + 1]
    BY <1>8 DEF Pop
  <2> HIDE DEF g, t
  <2>6. got' \in [Pods -> SUBSET Popped]
    BY <2>4, <2>5 DEF TypeOK, Popped
  <2>7. proc' \in [Pods -> [Tasks -> Nat]]
    BY <2>1, <2>5 DEF TypeOK
  <2> QED
    BY <1>8, <2>3, <2>6, <2>7 DEF Pop, TypeOK, Popped
<1>9. ASSUME NEW p \in Pods, NEW k \in Keys, FetchNothing(p, k) PROVE TypeOK'
  BY <1>9 DEF FetchNothing, TypeOK
<1>10. ASSUME NEW p \in Pods, Inspect(p) PROVE TypeOK'
  <2>1. PICK g \in got[p], v \in {"take", "defer"} :
          got' = [got EXCEPT ![p] = {[g EXCEPT !.verdict = v]}]
    BY <1>10 DEF Inspect
  <2>2. [g EXCEPT !.verdict = v] \in Popped
    <3>1. g \in Popped
      BY <2>1 DEF TypeOK, Popped
    <3> QED
      BY <3>1 DEF Popped
  <2>3. got' \in [Pods -> SUBSET Popped]
    BY <2>1, <2>2 DEF TypeOK, Popped
  <2> QED
    BY <1>10, <2>3 DEF Inspect, TypeOK, Popped
<1>11. ASSUME NEW p \in Pods, Defer(p) PROVE TypeOK'
  <2>1. PICK g \in got[p] : proc' = Removed(p, g.task)
    BY <1>11 DEF Defer
  <2>2. g.task \in Tasks
    BY <2>1 DEF TypeOK
  <2>3. proc' \in [Pods -> [Tasks -> Nat]]
    BY <2>1, <2>2, RemovedType DEF TypeOK
  <2> QED
    BY <1>11, <2>3 DEF Defer, TypeOK
<1>12. ASSUME NEW p \in Pods, Claim(p) PROVE TypeOK'
  <2>1. PICK g \in got[p] :
          /\ st' = [st EXCEPT ![g.task] = "PROCESSING"]
          /\ holder' = [holder EXCEPT ![g.task] = p]
          /\ source' = [source EXCEPT ![g.task] = g.key]
    BY <1>12 DEF Claim
  <2>2. g.task \in Tasks /\ g.key \in Keys
    BY <2>1 DEF TypeOK
  <2>3. /\ st' \in [Tasks -> States] /\ holder' \in [Tasks -> Pods \cup {NoPod}]
        /\ source' \in [Tasks -> Keys \cup {<<>>}]
    BY <2>1, <2>2 DEF TypeOK, States
  <2> QED
    BY <1>12, <2>3 DEF Claim, TypeOK
<1>13. ASSUME NEW p \in Pods, NEW q \in Pods, NEW t \in Tasks, Look(p, q, t) PROVE TypeOK'
  <2> DEFINE e == [pod |-> q, task |-> t, retry |-> retry[t] + 1]
  <2>1. retry[t] + 1 \in 0..MaxRetries
    BY <1>13, RetriesBound DEF Look, TypeOK
  <2>2. e \in Seen
    BY <2>1 DEF Seen
  <2>3. looked' = [looked EXCEPT ![p] = {e}]
    BY <1>13 DEF Look
  <2> HIDE DEF e
  <2>4. looked' \in [Pods -> SUBSET Seen]
    BY <2>2, <2>3 DEF TypeOK, Seen
  <2> QED
    BY <1>13, <2>4 DEF Look, TypeOK, Seen
<1>14. ASSUME NEW q \in Pods, NEW t \in Tasks, Skip(q, t) PROVE TypeOK'
  <2>1. proc' \in [Pods -> [Tasks -> Nat]]
    BY <1>14, RemovedType DEF Skip, TypeOK
  <2> QED
    BY <1>14, <2>1 DEF Skip, TypeOK
<1> QED
  BY <1>1, <1>2, <1>3, <1>4, <1>5, <1>6, <1>7, <1>8, <1>9, <1>10, <1>11, <1>12, <1>13, <1>14
  DEF Next, CleanupAgedTasks

(* Pushing a task to a queue of its own keeps ListPart.                    *)
LEMMA PushKeeps ==
  ASSUME TypeOK, ListPart(lists), NEW t \in Tasks, NEW k \in {QueueOf(t), RequeueOf(t)}
  PROVE  ListPart([lists EXCEPT ![k] = <<t>> \o @])
<1> DEFINE ls == [lists EXCEPT ![k] = <<t>> \o @]
<1>1. k \in Keys
  BY OwnKeys
<1> SUFFICES ASSUME NEW j \in Keys, NEW i \in 1..Len(ls[j])
             PROVE  j \in {QueueOf(ls[j][i]), RequeueOf(ls[j][i])}
  BY DEF ListPart
<1>2. CASE j # k
  <2>1. ls[j] = lists[j]
    BY <1>2 DEF TypeOK
  <2> QED
    BY <2>1 DEF ListPart
<1>3. CASE j = k
  <2>1. ls[j] = <<t>> \o lists[k]
    BY <1>1, <1>3 DEF TypeOK
  <2>2. ls[j][i] = t \/ \E h \in 1..Len(lists[k]) : ls[j][i] = lists[k][h]
    <3>1. lists[k] \in Seq(Tasks)
      BY <1>1 DEF TypeOK
    <3>2. i \in 1..Len(<<t>> \o lists[k])
      BY <2>1
    <3>3. \/ (<<t>> \o lists[k])[i] = t
          \/ \E h \in 1..Len(lists[k]) : (<<t>> \o lists[k])[i] = lists[k][h]
      BY <3>1, <3>2, PushFront
    <3> QED
      BY <2>1, <3>3, Zenon
  <2> QED
    BY <1>1, <1>3, <2>2, Zenon DEF ListPart
<1> QED
  BY <1>2, <1>3

(* So does removing entries from a queue.                                  *)
LEMMA ShrinkKeeps ==
  ASSUME TypeOK, ListPart(lists), NEW k \in Keys, NEW s,
         \A i \in 1..Len(s) : \E h \in 1..Len(lists[k]) : s[i] = lists[k][h]
  PROVE  ListPart([lists EXCEPT ![k] = s])
<1> DEFINE ls == [lists EXCEPT ![k] = s]
<1> SUFFICES ASSUME NEW j \in Keys, NEW i \in 1..Len(ls[j])
             PROVE  j \in {QueueOf(ls[j][i]), RequeueOf(ls[j][i])}
  BY DEF ListPart
<1>1. CASE j # k
  <2>1. ls[j] = lists[j]
    BY <1>1 DEF TypeOK
  <2> QED
    BY <2>1 DEF ListPart
<1>2. CASE j = k
  <2>1. ls[j] = s
    BY <1>2 DEF TypeOK
  <2> QED
    BY <1>2, <2>1, Zenon DEF ListPart
<1> QED
  BY <1>1, <1>2

(* Every step keeps the routing.                                           *)
LEMMA RouteStep ==
  ASSUME TypeOK, RouteInv, [Next]_vars
  PROVE  RouteInv'
<1> DEFINE Goal == /\ ListPart(lists') /\ PlanPart(plan')
                   /\ HoldPart(holder', source') /\ GotPart(got')
<1> SUFFICES Goal
  BY DEF RouteInv, ListPart, PlanPart, HoldPart, GotPart
<1>0. ListPart(lists) /\ PlanPart(plan) /\ HoldPart(holder, source) /\ GotPart(got)
  BY DEF RouteInv
<1>1. CASE UNCHANGED vars
  BY <1>0, <1>1 DEF vars
<1>2. ASSUME NEW t \in Tasks, Publish(t) PROVE Goal
  <2>1. ListPart(lists')
    BY <1>0, <1>2, PushKeeps DEF Publish
  <2> QED
    BY <1>0, <1>2, <2>1 DEF Publish
<1>3. ASSUME NEW t \in Tasks, Finish(t) PROVE Goal
  BY <1>0, <1>3 DEF Finish
<1>4. ASSUME NEW p \in Pods, Recover(p) PROVE Goal
  <2>1. PICK e \in looked[p] :
          /\ lists' = [lists EXCEPT ![RequeueOf(e.task)] = <<e.task>> \o @]
          /\ holder' = [holder EXCEPT ![e.task] = NoPod]
    BY <1>4 DEF Recover
  <2>2. e.task \in Tasks
    BY <2>1 DEF TypeOK
  <2>3. ListPart(lists')
    BY <1>0, <2>1, <2>2, PushKeeps
  <2>4. HoldPart(holder', source')
    BY <1>0, <1>4, <2>1, <2>2 DEF Recover, HoldPart, TypeOK
  <2> QED
    BY <1>0, <1>4, <2>3, <2>4 DEF Recover
<1>5. ASSUME NEW t \in Tasks, Age(t) PROVE Goal
  BY <1>0, <1>5 DEF Age
<1>6. ASSUME NEW k \in Keys, NEW i \in 1..Len(lists[k]), Timeout(k, i) PROVE Goal
  <2> DEFINE r == SubSeq(lists[k], 1, i - 1) \o SubSeq(lists[k], i + 1, Len(lists[k]))
  <2>1. \A h \in 1..Len(r) : \E j \in 1..Len(lists[k]) : r[h] = lists[k][j]
    BY RemoveEntry DEF TypeOK
  <2>2. lists' = [lists EXCEPT ![k] = r]
    BY <1>6 DEF Timeout
  <2> HIDE DEF r
  <2>3. ListPart(lists')
    BY <1>0, <2>1, <2>2, ShrinkKeeps
  <2> QED
    BY <1>0, <1>6, <2>3 DEF Timeout
<1>7. ASSUME NEW p \in Pods, Scan(p) PROVE Goal
  <2>1. PlanPart(plan')
    BY <1>0, <1>7 DEF Scan, PlanPart, TypeOK
  <2> QED
    BY <1>0, <1>7, <2>1 DEF Scan
<1>8. ASSUME NEW p \in Pods, NEW k \in Keys, Pop(p, k) PROVE Goal
  <2> DEFINE r == SubSeq(lists[k], 1, Len(lists[k]) - 1)
             t == lists[k][Len(lists[k])]
             g == [task |-> t, key |-> k, verdict |-> "unread"]
  <2>1. /\ t \in Tasks /\ Len(lists[k]) \in 1..Len(lists[k])
        /\ \A h \in 1..Len(r) : \E j \in 1..Len(lists[k]) : r[h] = lists[k][j]
    BY <1>8, PopBack DEF Pop, TypeOK
  <2>2. /\ lists' = [lists EXCEPT ![k] = r]
        /\ got' = [got EXCEPT ![p] = {g}]
        /\ plan' = [plan EXCEPT ![p] = @ \ {k}]
    BY <1>8 DEF Pop
  <2>3. k \in {QueueOf(t), RequeueOf(t)}
    BY <1>0, <2>1 DEF ListPart
  <2>4. k \in Accepted[p]
    BY <1>0, <1>8 DEF Pop, NextQueues, PlanPart
  <2>5. g.key = k /\ g.task = t
    OBVIOUS
  <2> HIDE DEF r, t, g
  <2>6. ListPart(lists')
    BY <1>0, <2>1, <2>2, ShrinkKeeps
  <2>7. GotPart(got')
    BY <1>0, <2>2, <2>3, <2>4, <2>5 DEF GotPart, TypeOK
  <2>8. PlanPart(plan')
    BY <1>0, <2>2 DEF PlanPart, TypeOK
  <2> QED
    BY <1>0, <1>8, <2>6, <2>7, <2>8 DEF Pop
<1>9. ASSUME NEW p \in Pods, NEW k \in Keys, FetchNothing(p, k) PROVE Goal
  <2>1. PlanPart(plan')
    BY <1>0, <1>9 DEF FetchNothing, PlanPart, TypeOK
  <2> QED
    BY <1>0, <1>9, <2>1 DEF FetchNothing
<1>10. ASSUME NEW p \in Pods, Inspect(p) PROVE Goal
  <2>1. PICK g \in got[p], v \in {"take", "defer"} :
          got' = [got EXCEPT ![p] = {[g EXCEPT !.verdict = v]}]
    BY <1>10 DEF Inspect
  <2> DEFINE h == [g EXCEPT !.verdict = v]
  <2>2. h.task = g.task /\ h.key = g.key
    BY <2>1 DEF TypeOK
  <2>3. got' = [got EXCEPT ![p] = {h}]
    BY <2>1
  <2> HIDE DEF h
  <2>4. GotPart(got')
    <3> SUFFICES ASSUME NEW q \in Pods, NEW e \in got'[q]
                 PROVE  /\ e.key \in {QueueOf(e.task), RequeueOf(e.task)}
                        /\ e.key \in Accepted[q]
      BY DEF GotPart
    <3>1. CASE q = p
      <4>1. e = h
        BY <2>3, <3>1 DEF TypeOK
      <4> QED
        BY <1>0, <2>1, <2>2, <3>1, <4>1, Zenon DEF GotPart
    <3>2. CASE q # p
      <4>1. e \in got[q]
        BY <2>3, <3>2 DEF TypeOK
      <4> QED
        BY <1>0, <4>1, Zenon DEF GotPart
    <3> QED
      BY <3>1, <3>2
  <2> QED
    BY <1>0, <1>10, <2>4 DEF Inspect
<1>11. ASSUME NEW p \in Pods, Defer(p) PROVE Goal
  <2>1. GotPart(got') /\ PlanPart(plan')
    BY <1>0, <1>11 DEF Defer, GotPart, PlanPart, TypeOK
  <2> QED
    BY <1>0, <1>11, <2>1 DEF Defer
<1>12. ASSUME NEW p \in Pods, Claim(p) PROVE Goal
  <2>1. PICK g \in got[p] :
          /\ holder' = [holder EXCEPT ![g.task] = p]
          /\ source' = [source EXCEPT ![g.task] = g.key]
    BY <1>12 DEF Claim
  <2>2. g.task \in Tasks
    BY <2>1 DEF TypeOK
  <2>3. g.key \in {QueueOf(g.task), RequeueOf(g.task)} /\ g.key \in Accepted[p]
    BY <1>0, <2>1 DEF GotPart
  <2>4. HoldPart(holder', source')
    BY <1>0, <2>1, <2>2, <2>3 DEF HoldPart, TypeOK
  <2>5. GotPart(got') /\ PlanPart(plan')
    BY <1>0, <1>12 DEF Claim, GotPart, PlanPart, TypeOK
  <2> QED
    BY <1>0, <1>12, <2>4, <2>5 DEF Claim
<1>13. ASSUME NEW p \in Pods, NEW q \in Pods, NEW t \in Tasks, Look(p, q, t) PROVE Goal
  BY <1>0, <1>13 DEF Look
<1>14. ASSUME NEW q \in Pods, NEW t \in Tasks, Skip(q, t) PROVE Goal
  BY <1>0, <1>14 DEF Skip
<1> QED
  BY <1>1, <1>2, <1>3, <1>4, <1>5, <1>6, <1>7, <1>8, <1>9, <1>10, <1>11, <1>12, <1>13, <1>14
  DEF Next, CleanupAgedTasks

(* Types and routing hold in every reachable state.                        *)
THEOREM InvHolds == Spec => [](TypeOK /\ RouteInv)
<1>1. Init => TypeOK /\ RouteInv
  <2> SUFFICES ASSUME Init PROVE TypeOK /\ RouteInv
    OBVIOUS
  <2>1. TypeOK
    <3>1. retry \in [Tasks -> 0..MaxRetries]
      BY RetriesBound DEF Init
    <3>2. lists \in [Keys -> Seq(Tasks)]
      BY DEF Init
    <3> QED
      BY <3>1, <3>2 DEF Init, TypeOK, States
  <2>2. ListPart(lists)
    BY DEF Init, ListPart
  <2>3. PlanPart(plan) /\ HoldPart(holder, source) /\ GotPart(got)
    BY DEF Init, PlanPart, HoldPart, GotPart
  <2> QED
    BY <2>1, <2>2, <2>3 DEF RouteInv
<1>2. TypeOK /\ RouteInv /\ [Next]_vars => (TypeOK /\ RouteInv)'
  BY TypeStep, RouteStep
<1> QED
  BY <1>1, <1>2, PTL DEF Spec

(* TypeOK is an invariant.                                                 *)
THEOREM TypeCorrect == Spec => []TypeOK
BY InvHolds, PTL

(* No pod ever tries to pop a record, a dedupe mark, a lease or a          *)
(* processing list (getPrioritizedQueues with isValidQueueKey), for every  *)
(* set of tasks, channel names with ':' included.                          *)
THEOREM MetadataNeverFetched == Spec => []NoMetadataFetched
<1>1. RouteInv => NoMetadataFetched
  BY MetadataNeverConsumed DEF RouteInv, PlanPart, Accepted, NoMetadataFetched
<1> QED
  BY <1>1, InvHolds, PTL

(* A native task in a channel without ':' runs natively, in a native pod,  *)
(* whatever its region, command and layout and whatever was recovered.     *)
THEOREM NativeAlwaysNative == Spec => []NativeStaysNative
<1>1. RouteInv => NativeStaysNative
  BY NativeConsumer DEF RouteInv, HoldPart, NativeStaysNative
<1> QED
  BY <1>1, InvHolds, PTL
=============================================================================
