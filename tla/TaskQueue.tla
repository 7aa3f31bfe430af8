----------------------------- MODULE TaskQueue -----------------------------
(***************************************************************************)
(* The Redis task store of pkg/queue/redis_queue.go and the goroutines of  *)
(* every egress pod (pkg/egress/manager.go) and of the API server that     *)
(* read and write it.                                                      *)
(*                                                                         *)
(* A Redis command, or a MULTI/EXEC pipeline, is one atomic step.  A Go    *)
(* function that issues several commands is several steps: what it read is *)
(* kept in the "copy" of the goroutine and is written back later, whatever *)
(* happened to the record in between.  Each pod runs four goroutines that  *)
(* share the store: the subscriber (sub), one completion listener per      *)
(* channel (lis), the lease renewal (ren) and the cleanup process (cln).   *)
(*                                                                         *)
(* Outside this module: worker processes that die and the maps of the      *)
(* manager (WorkerManager), queue names (QueueKeys), the expiry of task    *)
(* records (their TTL is refreshed by every write), web tasks.             *)
(***************************************************************************)
EXTENDS Integers, Sequences, FiniteSets

CONSTANTS
  Pods,       \* pod IDs; a pod that restarts draws a new one
  Starts,     \* task IDs of start requests
  Stops,      \* task IDs of stop requests
  Orig,       \* [Stops -> Starts], the task_id in the payload of a stop
  Channels,   \* a channel and command, hence a queue egress:<cmd>:<channel>
  Chan,       \* [Starts -> Channels]
  Keys,       \* dedupe keys, egress:dedupe:<cmd>:<channel>:<request_id>
  Key,        \* [Starts \cup Stops -> Keys]
  Outcomes,   \* how a worker may end a task by itself
  MayCrash,   \* the pods that may die
  MaxCopies,  \* bound: entries of one ID over all the Redis lists
  NoPod       \* the empty PodID, and the holder of a lease that does not exist

Ids == Starts \cup Stops

ASSUME TaskQueueAssumption ==
  /\ Starts # {} /\ Starts \cap Stops = {}
  /\ Orig \in [Stops -> Starts]
  /\ Chan \in [Starts -> Channels]
  /\ Key \in [Ids -> Keys]
  /\ Outcomes \subseteq {"success", "failed", "unrecoverable"}
  /\ MayCrash \subseteq Pods
  /\ MaxCopies \in Nat \ {0}
  /\ NoPod \notin Pods

Terminal == {"STOPPED", "FAILED", "TIMEOUT"}

(* The fields of a task record that some code reads back.  "worker" is     *)
(* WorkerID >= 0; the record of an ID that was not published is NoTask.    *)
NoTask == [state |-> "NONE", pod |-> NoPod, worker |-> FALSE]

VARIABLES
  task,      \* egress:task:<id>
  queue,     \* egress:<cmd>:<channel>; LPUSH at the front, BRPOPLPUSH at the back
  stopQ,     \* egress:stop:<pod>
  proc,      \* egress:processing:<pod>, how many entries each ID has
  lease,     \* egress:lease:<id>, the pod it names
  dedupe,    \* the dedupe keys that exist
  api,       \* the API server's request handler of each ID
  alive,     \* the pods that run
  tracked,   \* ChannelTasks of a pod
  active,    \* ActiveTasks of a pod: the tasks whose lease it renews
  running,   \* the tasks the workers of a pod execute
  halting,   \* the running tasks to whose worker a stop was sent
  sub, lis, ren, cln,  \* the goroutines of a pod
  raced      \* auxiliary: the IDs some unconditional write went wrong for

redis == <<task, queue, stopQ, proc, lease, dedupe>>
local == <<tracked, active, running, halting>>
vars  == <<redis, api, alive, local, sub, lis, ren, cln, raced>>

-----------------------------------------------------------------------------
(* Goroutine states.  A step named in the Rmw sets is a read-modify-write  *)
(* of a record: "got" says whether its GET has happened.                   *)

SubRmw == {"claim", "work", "ack", "fail", "mark", "final", "sack"}

LisRmw == {"result", "failFree", "failHeld"}

AnId  == CHOOSE t \in Ids : TRUE
IdleSub == [pc |-> "idle", id |-> AnId, got |-> FALSE, copy |-> NoTask]
IdleLis == [pc |-> "idle", out |-> "success", got |-> FALSE, copy |-> NoTask]
IdleRen == [pc |-> "scan", id |-> AnId, snap |-> {}, copy |-> NoTask]
IdleCln(p) == [pc |-> "idle", id |-> AnId, from |-> p, copy |-> NoTask]

Init ==
  /\ task = [t \in Ids |-> NoTask]
  /\ queue = [c \in Channels |-> <<>>]
  /\ stopQ = [p \in Pods |-> <<>>]
  /\ proc = [p \in Pods |-> [t \in Ids |-> 0]]
  /\ lease = [t \in Ids |-> NoPod]
  /\ dedupe = {}
  /\ api = [t \in Ids |-> [pc |-> "new", pod |-> NoPod, worker |-> FALSE]]
  /\ alive = Pods
  /\ tracked = [p \in Pods |-> {}]
  /\ active = [p \in Pods |-> {}]
  /\ running = [p \in Pods |-> {}]
  /\ halting = [p \in Pods |-> {}]
  /\ sub = [p \in Pods |-> IdleSub]
  /\ lis = [p \in Pods |-> [t \in Starts |-> IdleLis]]
  /\ ren = [p \in Pods |-> IdleRen]
  /\ cln = [p \in Pods |-> IdleCln(p)]
  /\ raced = {}

-----------------------------------------------------------------------------
(* Helpers                                                                 *)

ChannelOf(id) == IF id \in Starts THEN Chan[id] ELSE Chan[Orig[id]]

(* LREM <list> 1 <id> on a processing list.                                *)
LRem(p, id) == [proc EXCEPT ![p][id] = IF @ > 0 THEN @ - 1 ELSE 0]

LPush(c, id) == [queue EXCEPT ![c] = <<id>> \o @]

Last(s)  == s[Len(s)]
Front(s) == SubSeq(s, 1, Len(s) - 1)

(* The places of the lists of Redis that hold id.                          *)
Places(s, id) == {i \in DOMAIN s : s[i] = id}

QueuePlaces(id)      == UNION {{c} \X Places(queue[c], id) : c \in Channels}
StopQPlaces(id)      == UNION {{p} \X Places(stopQ[p], id) : p \in Pods}
ProcessingPlaces(id) == UNION {{p} \X (1..proc[p][id]) : p \in Pods}

Copies(id) == Cardinality(({"queue"} \X QueuePlaces(id)) \cup ({"stop"} \X StopQPlaces(id))
                          \cup ({"processing"} \X ProcessingPlaces(id)))

(* The write of UpdateTaskResult: the copy with a new state.  The dedupe   *)
(* key of a task that reached a terminal state is deleted.                 *)
Result(id, copy, state) ==
  /\ task' = [task EXCEPT ![id] = [copy EXCEPT !.state = state]]
  /\ dedupe' = IF state \in Terminal THEN dedupe \ {Key[id]} ELSE dedupe

(* Auxiliary: a write of a copy that is no longer the record, or one that  *)
(* takes a record out of a terminal state.                                 *)
Race(id, copy, state) ==
  raced' = IF \/ copy # task[id]
              \/ task[id].state \in Terminal /\ state # task[id].state
           THEN raced \cup {id} ELSE raced

(* wm.Mutex is held from the choice of a worker to the end of              *)
(* UpdateTaskWorker.                                                       *)
MutexFree(p) == sub[p].pc # "work"

SubStep(p, pc) == /\ p \in alive
                  /\ sub[p].pc = pc
                  /\ pc \in SubRmw => sub[p].got
SubGoto(p, pc) == sub' = [sub EXCEPT ![p].pc = pc, ![p].got = FALSE, ![p].copy = NoTask]
SubIdle(p)     == sub' = [sub EXCEPT ![p] = IdleSub]

LisStep(p, t, pc) == /\ p \in alive
                     /\ lis[p][t].pc = pc
                     /\ pc \in LisRmw => lis[p][t].got
LisGoto(p, t, pc) == lis' = [lis EXCEPT ![p][t] =
                       IF pc = "idle" THEN IdleLis ELSE [@ EXCEPT !.pc = pc, !.got = FALSE, !.copy = NoTask]]

-----------------------------------------------------------------------------
(* API server: each handler checks the dedupe key and publishes later.     *)

(* PublishTaskToRegion up to the duplicate check.                          *)
PublishCheck(t) ==
  /\ t \in Starts /\ api[t].pc = "new"
  /\ api' = [api EXCEPT ![t].pc = IF Key[t] \in dedupe THEN "done" ELSE "checked"]
  /\ UNCHANGED <<redis, alive, local, sub, lis, ren, cln, raced>>

PublishWrite(t) ==
  /\ t \in Starts /\ api[t].pc = "checked"
  /\ task' = [task EXCEPT ![t] = [NoTask EXCEPT !.state = "ENQUEUED"]]
  /\ queue' = LPush(ChannelOf(t), t)
  /\ dedupe' = dedupe \cup {Key[t]}
  /\ api' = [api EXCEPT ![t].pc = "done"]
  /\ UNCHANGED <<stopQ, proc, lease, alive, local, sub, lis, ren, cln, raced>>

(* The API server's stopTask refuses a finished task; PublishStopTaskFor   *)
(* then takes the pod of the task, or else the holder of its lease.        *)
StopCheck(s) ==
  LET o == Orig[s]
      target == IF task[o].pod # NoPod THEN task[o].pod ELSE lease[o]
      refused == task[o].state \in Terminal \/ Key[s] \in dedupe
  IN /\ s \in Stops /\ api[s].pc = "new" /\ task[o].state # "NONE"
     /\ api' = [api EXCEPT ![s] =
                  [pc |-> IF refused THEN "done" ELSE "checked",
                   pod |-> IF refused THEN NoPod ELSE target,
                   worker |-> ~refused /\ target # NoPod /\ task[o].worker]]
     /\ UNCHANGED <<redis, alive, local, sub, lis, ren, cln, raced>>

StopPublish(s) ==
  /\ s \in Stops /\ api[s].pc = "checked"
  /\ task' = [task EXCEPT ![s] = [state |-> "ENQUEUED", pod |-> api[s].pod, worker |-> api[s].worker]]
  /\ IF api[s].pod = NoPod
     THEN queue' = LPush(ChannelOf(s), s) /\ UNCHANGED stopQ
     ELSE stopQ' = [stopQ EXCEPT ![api[s].pod] = <<s>> \o @] /\ UNCHANGED queue
  /\ dedupe' = dedupe \cup {Key[s]}
  /\ api' = [api EXCEPT ![s] = [pc |-> "done", pod |-> NoPod, worker |-> FALSE]]
  /\ UNCHANGED <<proc, lease, alive, local, sub, lis, ren, cln, raced>>

-----------------------------------------------------------------------------
(* Subscriber: fetchTaskFromRedis                                          *)

(* BRPOPLPUSH to the processing list.  The stop queue of the pod comes     *)
(* first, but the list of queues was read earlier: a stop request that     *)
(* arrives in between waits for the next fetch.                            *)
Popped(p, id) ==
  /\ proc' = [proc EXCEPT ![p][id] = @ + 1]
  /\ sub' = [sub EXCEPT ![p] = [IdleSub EXCEPT !.pc = "popped", !.id = id]]
  /\ UNCHANGED <<task, lease, dedupe, api, alive, local, lis, ren, cln, raced>>

PopStop(p) ==
  /\ SubStep(p, "idle") /\ stopQ[p] # <<>>
  /\ stopQ' = [stopQ EXCEPT ![p] = Front(@)]
  /\ Popped(p, Last(stopQ[p])) /\ UNCHANGED queue

PopQueue(p, c) ==
  /\ SubStep(p, "idle") /\ queue[c] # <<>>
  /\ queue' = [queue EXCEPT ![c] = Front(@)]
  /\ Popped(p, Last(queue[c])) /\ UNCHANGED stopQ

(* deferTaskForAnotherPod, the reads: a stop follows the task it is for.   *)
Deferred(id) ==
  IF id \in Stops
  THEN [task[id] EXCEPT !.pod = task[Orig[id]].pod, !.worker = task[Orig[id]].worker]
  ELSE task[id]

Inspect(p) ==
  LET id == sub[p].id
      copy == Deferred(id)
  IN /\ SubStep(p, "popped")
     /\ IF copy = task[id] /\ copy.pod \in {NoPod, p}
        THEN SubGoto(p, "claim")
        ELSE sub' = [sub EXCEPT ![p].pc = "retarget", ![p].got = (copy # task[id]), ![p].copy = copy]
     /\ UNCHANGED <<redis, api, alive, local, lis, ren, cln, raced>>

(* deferTaskForAnotherPod, the writes: the record if it was retargeted     *)
(* ("got"), and the ID to the stop queue of the pod it prefers.            *)
Retarget(p) ==
  LET id == sub[p].id
      copy == sub[p].copy
  IN /\ SubStep(p, "retarget")
     /\ task' = IF sub[p].got THEN [task EXCEPT ![id] = copy] ELSE task
     /\ IF copy.pod \in {NoPod, p}
        THEN SubGoto(p, "claim") /\ UNCHANGED <<stopQ, proc>>
        ELSE /\ proc' = LRem(p, id)
             /\ stopQ' = [stopQ EXCEPT ![copy.pod] = Append(@, id)]
             /\ SubIdle(p)
     /\ UNCHANGED <<queue, lease, dedupe, api, alive, local, lis, ren, cln, raced>>

(* The GET of every read-modify-write of the subscriber.                   *)
Subject(p) == IF sub[p].pc \in {"mark", "final"} THEN Orig[sub[p].id] ELSE sub[p].id

SubGet(p) ==
  /\ p \in alive /\ sub[p].pc \in SubRmw /\ ~sub[p].got
  /\ sub' = [sub EXCEPT ![p].got = TRUE, ![p].copy = task[Subject(p)]]
  /\ UNCHANGED <<redis, api, alive, local, lis, ren, cln, raced>>

(* Mutant of Claim: the record is written and the lease is not.            *)
ClaimWithoutLease(p) ==
  LET id == sub[p].id
  IN /\ SubStep(p, "claim")
     /\ task' = [task EXCEPT ![id] = [state |-> "PROCESSING", pod |-> p, worker |-> FALSE]]
     /\ SubGoto(p, IF id \in Starts THEN "start" ELSE "mark")
     /\ Race(id, sub[p].copy, "PROCESSING")
     /\ UNCHANGED <<queue, stopQ, proc, lease, dedupe, api, alive, local, lis, ren, cln>>

(* ClaimTaskWithLease: whatever the state of the record.                   *)
Claim(p) ==
  LET id == sub[p].id
  IN /\ SubStep(p, "claim")
     /\ task' = [task EXCEPT ![id] = [state |-> "PROCESSING", pod |-> p, worker |-> FALSE]]
     /\ lease' = [lease EXCEPT ![id] = p]
     /\ SubGoto(p, IF id \in Starts THEN "start" ELSE "mark")
     /\ Race(id, sub[p].copy, "PROCESSING")
     /\ UNCHANGED <<queue, stopQ, proc, dedupe, api, alive, local, lis, ren, cln>>

-----------------------------------------------------------------------------
(* Subscriber: processRedisTask of a start                                 *)

Busy(p, t) == \E u \in tracked[p] : Chan[u] = Chan[t]

(* startNativeRecorderTask hands the task to a worker.                     *)
StartNative(p) ==
  LET t == sub[p].id
  IN /\ SubStep(p, "start") /\ ~Busy(p, t)
     /\ tracked' = [tracked EXCEPT ![p] = @ \cup {t}]
     /\ running' = [running EXCEPT ![p] = @ \cup {t}]
     /\ SubGoto(p, "work")
     /\ UNCHANGED <<redis, api, alive, active, halting, lis, ren, cln, raced>>

(* The task is invalid, no worker is free, or one of its type already runs *)
(* on its channel.                                                         *)
StartRefused(p) ==
  /\ SubStep(p, "start")
  /\ SubGoto(p, "fail")
  /\ UNCHANGED <<redis, api, alive, local, lis, ren, cln, raced>>

UpdateTaskWorker(p) ==
  LET t == sub[p].id
      copy == sub[p].copy
  IN /\ SubStep(p, "work")
     /\ task' = [task EXCEPT ![t] = [copy EXCEPT !.worker = TRUE]]
     /\ SubGoto(p, "ack")
     /\ Race(t, copy, copy.state)
     /\ UNCHANGED <<queue, stopQ, proc, lease, dedupe, api, alive, local, lis, ren, cln>>

(* A started task is written PROCESSING again, then tracked for renewal.   *)
AckStart(p) ==
  LET t == sub[p].id
  IN /\ SubStep(p, "ack")
     /\ Result(t, sub[p].copy, "PROCESSING")
     /\ SubGoto(p, "track")
     /\ Race(t, sub[p].copy, "PROCESSING")
     /\ UNCHANGED <<queue, stopQ, proc, lease, api, alive, local, lis, ren, cln>>

(* Mutant of TrackStart: the task is not entered for lease renewal.        *)
TrackStartForgotten(p) ==
  /\ SubStep(p, "track")
  /\ SubIdle(p)
  /\ UNCHANGED <<redis, api, alive, local, lis, ren, cln, raced>>

TrackStart(p) ==
  /\ SubStep(p, "track")
  /\ active' = [active EXCEPT ![p] = @ \cup {sub[p].id}]
  /\ SubIdle(p)
  /\ UNCHANGED <<redis, api, alive, tracked, running, halting, lis, ren, cln, raced>>

FailStart(p) ==
  LET t == sub[p].id
  IN /\ SubStep(p, "fail")
     /\ Result(t, sub[p].copy, "FAILED")
     /\ SubIdle(p)
     /\ Race(t, sub[p].copy, "FAILED")
     /\ UNCHANGED <<queue, stopQ, proc, lease, api, alive, local, lis, ren, cln>>

-----------------------------------------------------------------------------
(* Subscriber: stopTask                                                    *)

(* The task is marked STOPPING before anything is known about it.          *)
StopMark(p) ==
  LET o == Orig[sub[p].id]
  IN /\ SubStep(p, "mark")
     /\ Result(o, sub[p].copy, "STOPPING")
     /\ SubGoto(p, "lookup")
     /\ Race(o, sub[p].copy, "STOPPING")
     /\ UNCHANGED <<queue, stopQ, proc, lease, api, alive, local, lis, ren, cln>>

(* A task without a pod or a worker counts as idle.                        *)
StopLookup(p) ==
  LET o == Orig[sub[p].id]
  IN /\ SubStep(p, "lookup")
     /\ SubGoto(p, IF task[o].pod = NoPod \/ ~task[o].worker THEN "final" ELSE "find")
     /\ UNCHANGED <<redis, api, alive, local, lis, ren, cln, raced>>

(* Mutant of StopSend: the task is forgotten and its worker not told.      *)
StopSendForgotten(p) ==
  LET o == Orig[sub[p].id]
  IN /\ SubStep(p, "find")
     /\ tracked' = [tracked EXCEPT ![p] = @ \ {o}]
     /\ active' = [active EXCEPT ![p] = @ \ {o}]
     /\ SubGoto(p, "final")
     /\ UNCHANGED <<redis, api, alive, running, halting, lis, ren, cln, raced>>

(* A tracked task is stopped on its worker and forgotten; one that is not  *)
(* tracked here is only dropped from the lease renewal.                    *)
StopSend(p) ==
  LET o == Orig[sub[p].id]
  IN /\ SubStep(p, "find")
     /\ halting' = IF o \in tracked[p] \cap running[p]
                   THEN [halting EXCEPT ![p] = @ \cup {o}] ELSE halting
     /\ tracked' = [tracked EXCEPT ![p] = @ \ {o}]
     /\ active' = [active EXCEPT ![p] = @ \ {o}]
     /\ SubGoto(p, "final")
     /\ UNCHANGED <<redis, api, alive, running, lis, ren, cln, raced>>

StopFinal(p) ==
  LET o == Orig[sub[p].id]
  IN /\ SubStep(p, "final")
     /\ Result(o, sub[p].copy, "STOPPED")
     /\ SubGoto(p, "sack")
     /\ Race(o, sub[p].copy, "STOPPED")
     /\ UNCHANGED <<queue, stopQ, proc, lease, api, alive, local, lis, ren, cln>>

(* The deferred update of the stop task itself.                            *)
StopAck(p) ==
  LET s == sub[p].id
  IN /\ SubStep(p, "sack")
     /\ Result(s, sub[p].copy, "STOPPED")
     /\ active' = [active EXCEPT ![p] = @ \ {s}]
     /\ SubIdle(p)
     /\ Race(s, sub[p].copy, "STOPPED")
     /\ UNCHANGED <<queue, stopQ, proc, lease, api, alive, tracked, running, halting, lis, ren, cln>>

-----------------------------------------------------------------------------
(* Worker and completion listener: handleTaskCompletion and failTask       *)

(* A worker ends a task by itself, or because it was told to stop, and     *)
(* sends a completion message; a stream that is stopped may have failed.   *)
WorkerDone(p, t) ==
  /\ p \in alive /\ t \in running[p] /\ lis[p][t].pc = "idle"
  /\ \E out \in IF t \in halting[p] THEN {"success"} \cup (Outcomes \cap {"failed"}) ELSE Outcomes :
       lis' = [lis EXCEPT ![p][t] = [IdleLis EXCEPT
                 !.pc = IF out = "unrecoverable" THEN "inspect" ELSE "result", !.out = out]]
  /\ running' = [running EXCEPT ![p] = @ \ {t}]
  /\ halting' = [halting EXCEPT ![p] = @ \ {t}]
  /\ UNCHANGED <<redis, api, alive, tracked, active, sub, ren, cln, raced>>

LisGet(p, t) ==
  /\ p \in alive /\ lis[p][t].pc \in LisRmw /\ ~lis[p][t].got
  /\ lis' = [lis EXCEPT ![p][t] = [@ EXCEPT !.got = TRUE, !.copy = task[t]]]
  /\ UNCHANGED <<redis, api, alive, local, sub, ren, cln, raced>>

(* deriveCompletionResult and the update of the record.                    *)
Complete(p, t) ==
  LET state == IF lis[p][t].out = "success" THEN "STOPPED" ELSE "FAILED"
  IN /\ LisStep(p, t, "result")
     /\ Result(t, lis[p][t].copy, state)
     /\ LisGoto(p, t, "untrack")
     /\ Race(t, lis[p][t].copy, state)
     /\ UNCHANGED <<queue, stopQ, proc, lease, api, alive, local, sub, ren, cln>>

Untrack(p, t) ==
  /\ LisStep(p, t, "untrack") /\ MutexFree(p)
  /\ active' = [active EXCEPT ![p] = @ \ {t}]
  /\ tracked' = [tracked EXCEPT ![p] = @ \ {t}]
  /\ LisGoto(p, t, "idle")
  /\ UNCHANGED <<redis, api, alive, running, halting, sub, ren, cln, raced>>

(* failTask reads the worker of the task; with one, it first forgets the   *)
(* task (the stop it sends finds nothing to stop).                         *)
FailInspect(p, t) ==
  /\ LisStep(p, t, "inspect")
  /\ IF task[t].worker
     THEN /\ MutexFree(p)
          /\ tracked' = [tracked EXCEPT ![p] = @ \ {t}]
          /\ LisGoto(p, t, "failHeld")
     ELSE LisGoto(p, t, "failFree") /\ UNCHANGED tracked
  /\ UNCHANGED <<redis, api, alive, active, running, halting, sub, ren, cln, raced>>

FailFree(p, t) ==
  /\ LisStep(p, t, "failFree")
  /\ Result(t, lis[p][t].copy, "FAILED")
  /\ active' = [active EXCEPT ![p] = @ \ {t}]
  /\ LisGoto(p, t, "idle")
  /\ Race(t, lis[p][t].copy, "FAILED")
  /\ UNCHANGED <<queue, stopQ, proc, lease, api, alive, tracked, running, halting, sub, ren, cln>>

FailHeld(p, t) ==
  /\ LisStep(p, t, "failHeld")
  /\ Result(t, lis[p][t].copy, "FAILED")
  /\ LisGoto(p, t, "drop")
  /\ Race(t, lis[p][t].copy, "FAILED")
  /\ UNCHANGED <<queue, stopQ, proc, lease, api, alive, local, sub, ren, cln>>

FailDrop(p, t) ==
  /\ LisStep(p, t, "drop")
  /\ proc' = LRem(p, t)
  /\ LisGoto(p, t, "unlease")
  /\ UNCHANGED <<task, queue, stopQ, lease, dedupe, api, alive, local, sub, ren, cln, raced>>

FailUnlease(p, t) ==
  /\ LisStep(p, t, "unlease")
  /\ lease' = [lease EXCEPT ![t] = NoPod]
  /\ active' = [active EXCEPT ![p] = @ \ {t}]
  /\ LisGoto(p, t, "idle")
  /\ UNCHANGED <<task, queue, stopQ, proc, dedupe, api, alive, tracked, running, halting, sub, ren, cln, raced>>

-----------------------------------------------------------------------------
(* Lease renewal: renewAllLeases and RenewLease                            *)

RenewAllLeases(p) ==
  /\ p \in alive /\ ren[p].pc = "scan" /\ ren[p].snap = {} /\ active[p] # {}
  /\ ren' = [ren EXCEPT ![p].snap = active[p]]
  /\ UNCHANGED <<redis, api, alive, local, sub, lis, cln, raced>>

(* The lease is checked; without it the task is not renewed any more.      *)
RenewCheck(p, t) ==
  /\ p \in alive /\ ren[p].pc = "scan" /\ t \in ren[p].snap
  /\ IF lease[t] = p
     THEN /\ ren' = [ren EXCEPT ![p].pc = "get", ![p].id = t]
          /\ UNCHANGED active
     ELSE /\ ren' = [ren EXCEPT ![p].snap = @ \ {t}]
          /\ active' = [active EXCEPT ![p] = @ \ {t}]
  /\ UNCHANGED <<redis, api, alive, tracked, running, halting, sub, lis, cln, raced>>

RenewGet(p) ==
  /\ p \in alive /\ ren[p].pc = "get"
  /\ ren' = [ren EXCEPT ![p].pc = "set", ![p].copy = task[ren[p].id]]
  /\ UNCHANGED <<redis, api, alive, local, sub, lis, cln, raced>>

(* The whole record is written back; EXPIRE leaves a missing lease missing.*)
RenewSet(p) ==
  LET t == ren[p].id
      copy == ren[p].copy
  IN /\ p \in alive /\ ren[p].pc = "set"
     /\ task' = [task EXCEPT ![t] = copy]
     /\ ren' = [ren EXCEPT ![p] = [IdleRen EXCEPT !.snap = ren[p].snap \ {t}]]
     /\ Race(t, copy, copy.state)
     /\ UNCHANGED <<queue, stopQ, proc, lease, dedupe, api, alive, local, sub, lis, cln>>

-----------------------------------------------------------------------------
(* Cleanup process: CleanupExpiredLeases and checkAndRecoverTask           *)

(* LRANGE of a processing list and the GET of the lease of one of its IDs. *)
(* They are one step: an ID that leaves the list between the two, and is   *)
(* recovered all the same, is a RecoveryRace.                              *)
CleanCheck(p, q, id) ==
  /\ p \in alive /\ cln[p].pc = "idle"
  /\ proc[q][id] > 0 /\ lease[id] = NoPod
  /\ cln' = [cln EXCEPT ![p] = [pc |-> "get", id |-> id, from |-> q, copy |-> NoTask]]
  /\ UNCHANGED <<redis, api, alive, local, sub, lis, ren, raced>>

CleanGet(p) ==
  /\ p \in alive /\ cln[p].pc = "get"
  /\ cln' = [cln EXCEPT ![p].pc = "decide", ![p].copy = task[cln[p].id]]
  /\ UNCHANGED <<redis, api, alive, local, sub, lis, ren, raced>>

(* A finished task only leaves the processing list.                        *)
CleanDrop(p) ==
  LET id == cln[p].id
  IN /\ p \in alive /\ cln[p].pc = "decide" /\ cln[p].copy.state \in Terminal
     /\ proc' = LRem(cln[p].from, id)
     /\ cln' = [cln EXCEPT ![p] = IdleCln(p)]
     /\ Race(id, cln[p].copy, task[id].state)
     /\ UNCHANGED <<task, queue, stopQ, lease, dedupe, api, alive, local, sub, lis, ren>>

(* Mutants of Requeue: the pipeline without its LPUSH, without its LREM.   *)
RequeueLost(q, id) == proc' = LRem(q, id) /\ UNCHANGED queue
RequeueTwice(q, id) == queue' = LPush(ChannelOf(id), id) /\ UNCHANGED proc

Requeue(q, id) == queue' = LPush(ChannelOf(id), id) /\ proc' = LRem(q, id)

(* Auxiliary: id was popped and its lease does not exist yet.              *)
Unclaimed(q, id) ==
  q \in alive /\ sub[q].id = id /\ sub[q].pc \in {"popped", "retarget", "claim"}

(* Auxiliary: the record or the lease changed since they were read, another*)
(* pod has recovered the entry meanwhile, or its pod is about to claim it. *)
RecoveryRace(p, id) ==
  \/ cln[p].copy # task[id] \/ lease[id] # NoPod
  \/ proc[cln[p].from][id] = 0 \/ Unclaimed(cln[p].from, id)

(* Any other task goes back to the queue: one pipeline, whatever happened  *)
(* since the list, the lease and the record were read.                     *)
CleanRecover(p) ==
  LET id == cln[p].id
  IN /\ p \in alive /\ cln[p].pc = "decide" /\ cln[p].copy.state \notin Terminal
     /\ Copies(id) < MaxCopies + (IF proc[cln[p].from][id] > 0 THEN 1 ELSE 0)
     /\ task' = [task EXCEPT ![id] = [NoTask EXCEPT !.state = "ENQUEUED"]]
     /\ Requeue(cln[p].from, id)
     /\ lease' = [lease EXCEPT ![id] = NoPod]
     /\ cln' = [cln EXCEPT ![p] = IdleCln(p)]
     /\ raced' = IF RecoveryRace(p, id) THEN raced \cup {id} ELSE raced
     /\ UNCHANGED <<stopQ, dedupe, api, alive, local, sub, lis, ren>>

-----------------------------------------------------------------------------
(* The environment                                                         *)

(* The lease of id is being kept: its pod renews it, or works on the task  *)
(* for the short time before it does.                                      *)
Kept(id) ==
  LET p == lease[id]
  IN /\ p \in alive
     /\ \/ id \in active[p]
        \/ sub[p].pc # "idle" /\ sub[p].id = id
        \/ sub[p].pc # "idle" /\ sub[p].id \in Stops /\ Orig[sub[p].id] = id
        \/ ren[p].pc # "scan" /\ ren[p].id = id

(* Redis drops a lease LeaseTimeout after its last renewal.                *)
LeaseExpire(id) ==
  /\ lease[id] # NoPod /\ ~Kept(id)
  /\ lease' = [lease EXCEPT ![id] = NoPod]
  /\ UNCHANGED <<task, queue, stopQ, proc, dedupe, api, alive, local, sub, lis, ren, cln, raced>>

(* A pod dies with its workers; Redis keeps what was written.              *)
Crash(p) ==
  /\ p \in alive \cap MayCrash
  /\ alive' = alive \ {p}
  /\ tracked' = [tracked EXCEPT ![p] = {}]
  /\ active' = [active EXCEPT ![p] = {}]
  /\ running' = [running EXCEPT ![p] = {}]
  /\ halting' = [halting EXCEPT ![p] = {}]
  /\ sub' = [sub EXCEPT ![p] = IdleSub]
  /\ lis' = [lis EXCEPT ![p] = [t \in Starts |-> IdleLis]]
  /\ ren' = [ren EXCEPT ![p] = IdleRen]
  /\ cln' = [cln EXCEPT ![p] = IdleCln(p)]
  /\ UNCHANGED <<redis, api, raced>>

-----------------------------------------------------------------------------
ApiNext == \/ \E t \in Starts : PublishCheck(t) \/ PublishWrite(t)
           \/ \E s \in Stops : StopCheck(s) \/ StopPublish(s)

SubNext(p) ==
  \/ PopStop(p) \/ (\E c \in Channels : PopQueue(p, c))
  \/ Inspect(p) \/ Retarget(p) \/ SubGet(p) \/ Claim(p)
  \/ StartNative(p) \/ StartRefused(p) \/ UpdateTaskWorker(p) \/ AckStart(p)
  \/ TrackStart(p) \/ FailStart(p)
  \/ StopMark(p) \/ StopLookup(p) \/ StopSend(p) \/ StopFinal(p) \/ StopAck(p)

LisNext(p, t) ==
  \/ WorkerDone(p, t) \/ LisGet(p, t) \/ Complete(p, t) \/ Untrack(p, t)
  \/ FailInspect(p, t) \/ FailFree(p, t) \/ FailHeld(p, t) \/ FailDrop(p, t) \/ FailUnlease(p, t)

RenNext(p) == \/ RenewAllLeases(p) \/ RenewGet(p) \/ RenewSet(p)
              \/ \E t \in Ids : RenewCheck(p, t)

ClnNext(p) == \/ CleanGet(p) \/ CleanDrop(p) \/ CleanRecover(p)
              \/ \E q \in Pods, t \in Ids : CleanCheck(p, q, t)

Next ==
  \/ ApiNext
  \/ \E p \in Pods : \/ SubNext(p) \/ RenNext(p) \/ ClnNext(p) \/ Crash(p)
                     \/ \E t \in Starts : LisNext(p, t)
  \/ \E t \in Ids : LeaseExpire(t)

Spec == Init /\ [][Next]_vars

-----------------------------------------------------------------------------
(* Properties                                                              *)

Executors(t)  == {p \in Pods : t \in running[p]}
Unfinished(t) == task[t].state \in {"ENQUEUED", "PROCESSING", "STOPPING"}
Listed(t)     == QueuePlaces(t) # {} \/ ProcessingPlaces(t) # {} \/ \E p \in alive : Places(stopQ[p], t) # {}

(* No task is executed by two pods: popping a task, claiming it, renewing  *)
(* its lease and recovering it after a crash never hand it out twice.      *)
OneExecutor == \A t \in Starts : Cardinality(Executors(t)) <= 1

(* No task is lost: one that has not ended is executed, or some list that  *)
(* a live pod reads still holds it, whichever pods died on the way.        *)
NoTaskLoss == \A t \in Starts : Unfinished(t) => Listed(t) \/ Executors(t) # {}

-----------------------------------------------------------------------------
(* What the leases do guarantee: as long as no write of a stale record and *)
(* no recovery of an unclaimed entry has hit a task, crashes, failovers,   *)
(* expired leases and stop requests leave it with one executor, one entry  *)
(* in the lists and the lease of the pod that executes it.                 *)

(* Pods die, their leases expire and the cleanup process of another pod    *)
(* hands the task out again, and never are there two executors.            *)
UnracedOneExecutor == \A t \in Starts \ raced : Cardinality(Executors(t)) <= 1

(* Whatever step a pod dies at, an unfinished task remains in some list.   *)
UnracedNoTaskLoss == \A t \in Starts \ raced : Unfinished(t) => Listed(t)

(* A worker that was not told to stop works under the lease of its pod:    *)
(* the lease outlives every step from the claim to the renewal.            *)
UnracedLeased == \A p \in Pods : \A t \in (running[p] \ halting[p]) \ raced : lease[t] = p

(* A worker that was not told to stop is in the maps of its manager, where *)
(* a stop request looks for it.                                            *)
UnracedTracked == \A p \in Pods : running[p] \ raced \subseteq tracked[p] \cup halting[p]

(* Recovery moves the one entry of a task; it never adds a second one.     *)
UnracedNoDup == \A t \in Starts \ raced : Copies(t) <= 1
=============================================================================
