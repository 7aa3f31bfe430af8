----------------------------- MODULE QueueKeys -----------------------------
(***************************************************************************)
(* How tasks are routed to pods through the names of Redis lists.          *)
(*                                                                         *)
(* RedisQueue builds the name of a task's list from its layout, region,    *)
(* command and channel; a pod asks Redis (KEYS) for the names that match   *)
(* the glob patterns of its configuration, keeps those that look like a    *)
(* queue, orders them by priority and pops them one after the other; the   *)
(* cleaner finds the lists it times out with a pattern of its own.  Four   *)
(* pieces of code (getQueueKey, buildQueueKey, isValidQueueKey and the     *)
(* patterns) must agree on one grammar of names, and nothing but the       *)
(* running system puts them together.                                      *)
(*                                                                         *)
(* A key is the sequence of its ':'-separated parts.  A channel is a       *)
(* sequence of parts too: the validation of protocol.go accepts ':' in a   *)
(* channel name, and the key simply gets more parts.  What happens to a    *)
(* task inside a queue (leases, stale writes, stops) is module TaskQueue;  *)
(* here a lease may expire at any time, a pod never loses its memory, and  *)
(* stop requests, which have a list per pod, are left out.                 *)
(***************************************************************************)
EXTENDS Integers, Sequences, FiniteSets

CONSTANTS
  Part,        \* the texts that may stand between the colons of a key
  Tasks,       \* start requests
  Layout,      \* Layout[t]: the layout of the payload
  Cmd,         \* Cmd[t]: the command
  Channel,     \* Channel[t]: the channel name, as a sequence of parts
  Region,      \* Region[t]: the region it is published to, "" for none
  Pods,
  Mode,        \* Mode[p]: "native" (egress) or "web" (flexible recorder)
  PodRegion,   \* PodRegion[p]: the pod's region, "" for none
  NoPod,
  MaxRetries   \* bound: lease expiries explored per task

validCmds == {"snapshot", "record", "rtmp", "whip"}

\* Second parts that getPrioritizedQueues does not take for a region.
NotRegion == validCmds \cup {"web", "cmd"}

\* The texts of the grammar itself.
Words == NotRegion \cup {"egress", "stop", "dedupe", "task", "lease",
                         "processing", "channel", "id", "pod", "request", ""}

ASSUME QueueKeysAssumption ==
  /\ Words \subseteq Part
  /\ Layout \in [Tasks -> {"flat", "spotlight", "customized", "freestyle"}]
  /\ Cmd \in [Tasks -> validCmds]
  /\ Channel \in [Tasks -> Seq(Part)]
  /\ \A t \in Tasks : Channel[t] # <<>>
  /\ Region \in [Tasks -> Part]
  /\ \A t \in Tasks : Region[t] = "" \/ Region[t] \notin NotRegion \cup {"stop"}
  /\ Mode \in [Pods -> {"native", "web"}]
  /\ PodRegion \in [Pods -> Part]
  /\ NoPod \notin Pods
  /\ MaxRetries \in Nat

-----------------------------------------------------------------------------
(* The names. *)

\* Mutant: every layout but the default one counts as a web layout.
getQueueKeyNonFlat(layout, cmd, channel, region) ==
  IF layout # "flat"
  THEN (IF region # "" THEN <<"egress", region, "web", cmd>> ELSE <<"egress", "web", cmd>>)
         \o channel
  ELSE (IF region # "" THEN <<"egress", region, cmd>> ELSE <<"egress", cmd>>)
         \o channel

\* The list that a task is published to.
getQueueKey(layout, cmd, channel, region) ==
  IF layout = "freestyle"
  THEN (IF region # "" THEN <<"egress", region, "web", cmd>> ELSE <<"egress", "web", cmd>>)
         \o channel
  ELSE (IF region # "" THEN <<"egress", region, cmd>> ELSE <<"egress", cmd>>)
         \o channel

\* Where a task goes back to after its lease expired or its worker died.
buildQueueKey(cmd, channel) == <<"egress", cmd>> \o channel

QueueOf(t)   == getQueueKey(Layout[t], Cmd[t], Channel[t], Region[t])
RequeueOf(t) == buildQueueKey(Cmd[t], Channel[t])

Keys == {QueueOf(t) : t \in Tasks} \cup {RequeueOf(t) : t \in Tasks}

\* The keys that are not queues.  "id", "request" and "pod" stand for a task
\* id, a request id and a pod id, none of which holds a ':'.
TaskKey       == <<"egress", "task", "id">>
LeaseKey      == <<"egress", "lease", "id">>
ProcessingKey == <<"egress", "processing", "pod">>
dedupeKey(t)  == <<"egress", "dedupe", Cmd[t]>> \o Channel[t] \o <<"request">>

MetaKeys == {TaskKey, LeaseKey, ProcessingKey} \cup {dedupeKey(t) : t \in Tasks}

(* The glob of Redis KEYS: '*' stands for any text, ':' included, and in   *)
(* every pattern of the configuration it is a whole part, so it covers one *)
(* part or more.  cut[i] is the number of parts of k that the first i      *)
(* parts of the pattern cover.                                             *)
Matches(pattern, k) ==
  \E cut \in [0..Len(pattern) -> 0..Len(k)] :
     /\ cut[0] = 0
     /\ cut[Len(pattern)] = Len(k)
     /\ \A i \in 1..Len(pattern) :
          IF pattern[i] = "*"
          THEN cut[i] > cut[i - 1]
          ELSE cut[i] = cut[i - 1] + 1 /\ k[cut[i]] = pattern[i]

NativePatterns ==
  {<<"egress", c, "*">> : c \in validCmds} \cup
  {<<"egress", "*", c, "*">> : c \in validCmds}

WebPatterns == {<<"egress", "web", "*">>, <<"egress", "*", "web", "*">>}

patterns(mode) == IF mode = "native" THEN NativePatterns ELSE WebPatterns

\* Mutant: the number of parts is only checked from below.
isValidQueueKeyLoose(k) ==
  /\ Len(k) >= 3
  /\ k[1] = "egress"
  /\ \/ Len(k) = 3 /\ k[2] \in validCmds \cup {"stop"}
     \/ Len(k) >= 4 /\ k[3] \in validCmds
     \/ Len(k) >= 5 /\ k[3] = "web" /\ k[4] \in validCmds

\* Mutant: a key of four parts is only taken for a web queue.
isValidQueueKeyGlobal(k) ==
  /\ Len(k) >= 3
  /\ k[1] = "egress"
  /\ \/ Len(k) = 3 /\ k[2] \in validCmds \cup {"stop"}
     \/ Len(k) = 4 /\ k[2] = "web" /\ k[3] \in validCmds
     \/ Len(k) = 5 /\ k[3] = "web" /\ k[4] \in validCmds

isValidQueueKey(k) ==
  /\ Len(k) >= 3
  /\ k[1] = "egress"
  /\ \/ Len(k) = 3 /\ k[2] \in validCmds \cup {"stop"}
     \/ Len(k) = 4 /\ k[3] \in validCmds
     \/ Len(k) = 5 /\ k[3] = "web" /\ k[4] \in validCmds

\* The region that getPrioritizedQueues reads off a key, "" for a global one.
KeyRegion(k) ==
  IF Len(k) >= 4 /\ k[2] \notin NotRegion THEN k[2] ELSE ""

\* The rank of a queue for a pod: stop requests, its own region, the rest.
Rank(p, k) ==
  CASE k[2] = "stop"                                      -> 0
    [] k[2] # "stop" /\ KeyRegion(k) # ""
         /\ KeyRegion(k) = PodRegion[p]                   -> 1
    [] OTHER                                              -> 2

\* The region that shouldYieldForRegionalTask reads off a key.
YieldRegion(k) ==
  IF /\ \/ Len(k) >= 5 /\ k[4] = "channel"
        \/ Len(k) >= 6 /\ k[5] = "channel"
     /\ k[2] \notin NotRegion
  THEN k[2] ELSE ""

shouldYieldForRegionalTask(p, k) ==
  /\ k[2] # "stop"
  /\ YieldRegion(k) # ""
  /\ PodRegion[p] = "" \/ PodRegion[p] # YieldRegion(k)

\* Which recorder startTask hands a task to: the queue it came from decides,
\* then the layout, then the mode of the pod.
isWebTask(p, t, k) ==
  \/ k[2] = "web"
  \/ Len(k) >= 4 /\ k[3] = "web"
  \/ Layout[t] = "freestyle"
  \/ Mode[p] = "web"

\* The keys a pod asks for and does not discard.  (A constant: the keys of
\* the instance, looked at once.)
Accepted ==
  [p \in Pods |-> {k \in Keys \cup MetaKeys :
                     /\ isValidQueueKey(k)
                     /\ \E pattern \in patterns(Mode[p]) : Matches(pattern, k)}]

AgedPattern == <<"egress", "*", "channel", "*">>

AgedQueues == {k \in Keys : Matches(AgedPattern, k)}

-----------------------------------------------------------------------------
VARIABLES
  st,      \* the state in the task's record ("done": STOPPED or FAILED)
  aged,    \* EnqueuedAt is more than TaskTimeout ago
  retry,   \* RetryCount
  lists,   \* the Redis lists, left end first
  proc,    \* proc[p][t]: how often t is in the processing list of p
  holder,  \* PodID in the record: the pod that claimed the task last
  source,  \* SourceQueue of the last claim, <<>> before the first one
  plan,    \* the queues of a pod's current fetch that it has yet to try
  got,     \* what a pod has popped and not yet claimed: nothing or one entry
  looked   \* what a pod's cleaner is about to recover: nothing or one entry

vars == <<st, aged, retry, lists, proc, holder, source, plan, got, looked>>

States == {"none", "ENQUEUED", "PROCESSING", "TIMEOUT", "done"}

Init ==
  /\ st     = [t \in Tasks |-> "none"]
  /\ aged   = [t \in Tasks |-> FALSE]
  /\ retry  = [t \in Tasks |-> 0]
  /\ lists  = [k \in Keys |-> <<>>]
  /\ proc   = [p \in Pods |-> [t \in Tasks |-> 0]]
  /\ holder = [t \in Tasks |-> NoPod]
  /\ source = [t \in Tasks |-> <<>>]
  /\ plan   = [p \in Pods |-> {}]
  /\ got    = [p \in Pods |-> {}]
  /\ looked = [p \in Pods |-> {}]

\* Redis deletes an empty list, so KEYS returns the non-empty ones, and the
\* keys of records, dedupe marks, leases and processing lists.
Existing ==
  {k \in Keys : lists[k] # <<>>} \cup
  {k \in MetaKeys :
     \/ k = TaskKey /\ \E t \in Tasks : st[t] # "none"
     \/ k = LeaseKey /\ \E t \in Tasks : st[t] = "PROCESSING"
     \/ k = ProcessingKey /\ \E p \in Pods, t \in Tasks : proc[p][t] > 0
     \/ \E t \in Tasks : k = dedupeKey(t) /\ st[t] \notin {"none", "done"}}

\* LREM of one entry, if there is one.
Removed(p, t) == [proc EXCEPT ![p][t] = IF @ > 0 THEN @ - 1 ELSE 0]

\* A start request is accepted and published (PublishTaskToRegion).
Publish(t) ==
  /\ st[t] = "none"
  /\ st' = [st EXCEPT ![t] = "ENQUEUED"]
  /\ lists' = [lists EXCEPT ![QueueOf(t)] = <<t>> \o @]
  /\ UNCHANGED <<aged, retry, proc, holder, source, plan, got, looked>>

\* A pod lists the queues to try (getPrioritizedQueues).
Scan(p) ==
  /\ plan[p] = {} /\ got[p] = {}
  /\ plan' = [plan EXCEPT ![p] = Accepted[p] \cap Existing]
  /\ plan'[p] # {}
  /\ UNCHANGED <<st, aged, retry, lists, proc, holder, source, got, looked>>

\* The queues a pod may try next: KEYS fixes no order among equals.
NextQueues(p) == {k \in plan[p] : \A j \in plan[p] : Rank(p, k) <= Rank(p, j)}

\* The pod finds an entry in the next queue: BRPOPLPUSH moves it to the
\* pod's processing list.  The record still says ENQUEUED, without a lease.
Pop(p, k) ==
  /\ got[p] = {}
  /\ k \in NextQueues(p) \cap Keys
  /\ lists[k] # <<>>
  /\ LET t == lists[k][Len(lists[k])] IN
       /\ lists' = [lists EXCEPT ![k] = SubSeq(@, 1, Len(@) - 1)]
       /\ proc' = [proc EXCEPT ![p][t] = @ + 1]
       /\ got' = [got EXCEPT ![p] = {[task |-> t, key |-> k, verdict |-> "unread"]}]
  /\ plan' = [plan EXCEPT ![p] = @ \ {k}]
  /\ UNCHANGED <<st, aged, retry, holder, source, looked>>

\* Another pod emptied the queue since the scan: after a second the pod goes
\* on with the next one, or the five seconds of the fetch are over.
FetchNothing(p, k) ==
  /\ got[p] = {}
  /\ k \in NextQueues(p) \cap Keys
  /\ lists[k] = <<>>
  /\ plan' \in {[plan EXCEPT ![p] = @ \ {k}], [plan EXCEPT ![p] = {}]}
  /\ UNCHANGED <<st, aged, retry, lists, proc, holder, source, got, looked>>

\* deferTaskForAnotherPod reads whether the record names another pod.
Inspect(p) ==
  /\ \E g \in got[p] :
       /\ g.verdict = "unread"
       /\ got' = [got EXCEPT ![p] =
                    {[g EXCEPT !.verdict =
                        IF holder[g.task] \in {NoPod, p} THEN "take" ELSE "defer"]}]
  /\ UNCHANGED <<st, aged, retry, lists, proc, holder, source, plan, looked>>

\* It does: the entry goes to the list of that pod's stop requests, which is
\* none of this module's, and the pod goes on with its next queue or its
\* time is over.
Defer(p) ==
  /\ \E g \in got[p] : g.verdict = "defer" /\ proc' = Removed(p, g.task)
  /\ got' = [got EXCEPT ![p] = {}]
  /\ plan' \in {plan, [plan EXCEPT ![p] = {}]}
  /\ UNCHANGED <<st, aged, retry, lists, holder, source, looked>>

\* ClaimTaskWithLease, whatever the record says by now.
Claim(p) ==
  /\ \E g \in got[p] :
       /\ g.verdict = "take"
       /\ st' = [st EXCEPT ![g.task] = "PROCESSING"]
       /\ holder' = [holder EXCEPT ![g.task] = p]
       /\ source' = [source EXCEPT ![g.task] = g.key]
  /\ got' = [got EXCEPT ![p] = {}]
  /\ plan' = [plan EXCEPT ![p] = {}]
  /\ UNCHANGED <<aged, retry, lists, proc, looked>>

\* The task ends, whatever its result; its entry stays in the processing
\* list (UpdateTaskResult).
Finish(t) ==
  /\ st[t] = "PROCESSING"
  /\ st' = [st EXCEPT ![t] = "done"]
  /\ UNCHANGED <<aged, retry, lists, proc, holder, source, plan, got, looked>>

(* The cleaner of pod p finds an entry of q's processing list without a    *)
(* lease and reads the record: the lease of a claimed task has expired, an *)
(* entry that was only popped never had one.  What is looked at is         *)
(* recovered in a later step, so another cleaner may look at it as well.   *)
Look(p, q, t) ==
  /\ looked[p] = {}
  /\ proc[q][t] > 0
  /\ st[t] \in {"ENQUEUED", "PROCESSING"}
  /\ retry[t] < MaxRetries
  /\ looked' = [looked EXCEPT ![p] = {[pod |-> q, task |-> t, retry |-> retry[t] + 1]}]
  /\ UNCHANGED <<st, aged, retry, lists, proc, holder, source, plan, got>>

\* The pipeline of checkAndRecoverTask: it writes the record it read, with a
\* fresh EnqueuedAt, pushes the task and removes its entry if it still is
\* there.
Recover(p) ==
  /\ \E e \in looked[p] :
       /\ st' = [st EXCEPT ![e.task] = "ENQUEUED"]
       /\ aged' = [aged EXCEPT ![e.task] = FALSE]
       /\ retry' = [retry EXCEPT ![e.task] = e.retry]
       /\ lists' = [lists EXCEPT ![RequeueOf(e.task)] = <<e.task>> \o @]
       /\ holder' = [holder EXCEPT ![e.task] = NoPod]
       /\ proc' = Removed(e.pod, e.task)
  /\ looked' = [looked EXCEPT ![p] = {}]
  /\ UNCHANGED <<source, plan, got>>

\* The entry of a task that ended is removed.
Skip(q, t) ==
  /\ proc[q][t] > 0
  /\ st[t] \in {"done", "TIMEOUT"}
  /\ proc' = Removed(q, t)
  /\ UNCHANGED <<st, aged, retry, lists, holder, source, plan, got, looked>>

\* TaskTimeout passes while the task waits.
Age(t) ==
  /\ st[t] = "ENQUEUED"
  /\ ~aged[t]
  /\ aged' = [aged EXCEPT ![t] = TRUE]
  /\ UNCHANGED <<st, retry, lists, proc, holder, source, plan, got, looked>>

\* The cleaner times out the i-th entry of a list
\* (checkAndTimeoutEnqueuedTask).
Timeout(k, i) ==
  /\ k \in AgedQueues
  /\ st[lists[k][i]] = "ENQUEUED"
  /\ aged[lists[k][i]]
  /\ st' = [st EXCEPT ![lists[k][i]] = "TIMEOUT"]
  /\ lists' = [lists EXCEPT ![k] = SubSeq(@, 1, i - 1) \o SubSeq(@, i + 1, Len(@))]
  /\ UNCHANGED <<aged, retry, proc, holder, source, plan, got, looked>>

CleanupAgedTasks == \E k \in Keys : \E i \in 1..Len(lists[k]) : Timeout(k, i)

Next ==
  \/ \E t \in Tasks : Publish(t) \/ Finish(t) \/ Age(t)
  \/ CleanupAgedTasks
  \/ \E p \in Pods : Scan(p) \/ Inspect(p) \/ Defer(p) \/ Claim(p) \/ Recover(p)
  \/ \E p \in Pods, k \in Keys : Pop(p, k) \/ FetchNothing(p, k)
  \/ \E p, q \in Pods, t \in Tasks : Look(p, q, t)
  \/ \E q \in Pods, t \in Tasks : Skip(q, t)

Spec == Init /\ [][Next]_vars

\* The steps of a pod's subscriber after the scan.
Fetch(p) ==
  \/ \E k \in Keys : Pop(p, k) \/ FetchNothing(p, k)
  \/ Inspect(p) \/ Defer(p) \/ Claim(p)

(* The subscriber of a pod is an endless loop of scans and fetches, the    *)
(* cleaner an endless ticker, and time passes.  Nothing makes a client     *)
(* publish, a task end or a lease expire.                                  *)
Fairness ==
  /\ \A p \in Pods : WF_vars(Scan(p)) /\ WF_vars(Fetch(p))
  /\ \A t \in Tasks : WF_vars(Age(t))
  /\ WF_vars(CleanupAgedTasks)

FairSpec == Spec /\ Fairness

-----------------------------------------------------------------------------
(* Properties. *)

TypeOK ==
  /\ st \in [Tasks -> States]
  /\ aged \in [Tasks -> BOOLEAN]
  /\ retry \in [Tasks -> 0..MaxRetries]
  /\ lists \in [Keys -> Seq(Tasks)]
  /\ proc \in [Pods -> [Tasks -> Nat]]
  /\ holder \in [Tasks -> Pods \cup {NoPod}]
  /\ source \in [Tasks -> Keys \cup {<<>>}]
  /\ plan \in [Pods -> SUBSET (Keys \cup MetaKeys)]
  /\ got \in [Pods -> SUBSET [task : Tasks, key : Keys,
                              verdict : {"unread", "take", "defer"}]]
  /\ looked \in [Pods -> SUBSET [pod : Pods, task : Tasks, retry : 0..MaxRetries]]

(* A pod never tries to pop a record, a dedupe mark, a lease or a          *)
(* processing list: the pattern egress:*:record:* matches dedupe marks, and *)
(* a pop of a string would fail the whole fetch, of a processing list steal *)
(* the running tasks of a pod.  Only isValidQueueKey stands between them.  *)
NoMetadataFetched == \A p \in Pods : plan[p] \cap MetaKeys = {}

(* A task for a native layout, in a channel without ':', never runs in a   *)
(* flexible-recorder pod, nor is handed to the web recorder by a native    *)
(* pod, whichever region it was published to and however often it was      *)
(* recovered.                                                              *)
NativeStaysNative ==
  \A t \in Tasks :
    (holder[t] # NoPod /\ Layout[t] # "freestyle" /\ Len(Channel[t]) = 1) =>
       /\ Mode[holder[t]] = "native"
       /\ ~isWebTask(holder[t], t, source[t])

(* While a native pod is up, a task that waits does not wait for ever, if  *)
(* its channel has no ':': its queue, and the one it is recovered to, are  *)
(* read by some pod, also when cleaners recovered it twice or gave it back *)
(* while a pod was about to claim it.  (A channel with ':' has no such     *)
(* promise: see ColonNeverConsumed.  Nor has a fleet of flexible recorders *)
(* only: a recovered freestyle task waits in a list they do not read.)     *)
Served ==
  (\E p \in Pods : Mode[p] = "native") =>
    \A t \in {u \in Tasks : Len(Channel[u]) = 1} :
       (st[t] = "ENQUEUED") ~> (st[t] # "ENQUEUED")
=============================================================================
