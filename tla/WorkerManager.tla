--------------------------- MODULE WorkerManager ---------------------------
(***************************************************************************)
(* The WorkerManager of one egress pod (pkg/egress/manager.go) in native   *)
(* mode: the maps from channels to workers and tasks, the states of the    *)
(* workers, and the goroutines that change them, each step of which runs   *)
(* under wm.Mutex or under the Mutex of a worker.                          *)
(*                                                                         *)
(* The subscriber (sub) hands tasks to workers and stops them; worker w    *)
(* has a completion listener (lis[w]); the monitor restarts workers that   *)
(* have no process.  A worker is an eg_worker process: it takes commands   *)
(* from its socket one by one and writes completion messages to it, as     *)
(* src/task_pipe.cpp does.  Task records in Redis are in TaskQueue.        *)
(***************************************************************************)
EXTENDS Integers, Sequences, FiniteSets

CONSTANTS
  Workers,      \* worker IDs
  Channels,
  Tasks,        \* task IDs of start requests
  ChanOf,       \* [Tasks -> Channels]
  CmdOf,        \* Tasks -> command: record, snapshot, rtmp, whip
  Endings,      \* how a worker may end a task by itself
  Starting,     \* how a worker may react to a start command
  MayDie,       \* the workers whose process may die
  MaxStops,     \* bound: stop requests for one task
  MaxRestarts,  \* bound: how often the monitor tries to start a worker
  NoWorker, NoChannel, NoTask

MaxRetries == 3   \* attempts of stopOriginalTaskWithRetries

ASSUME WorkerManagerAssumption ==
  /\ ChanOf \in [Tasks -> Channels]
  /\ DOMAIN CmdOf = Tasks
  /\ Endings \subseteq {"success", "failed", "unrecoverable"}
  /\ Starting \subseteq {"run", "refuse", "ignore"}
  /\ MayDie \subseteq Workers
  /\ MaxStops \in Nat /\ MaxRestarts \in Nat
  /\ NoWorker \notin Workers /\ NoChannel \notin Channels /\ NoTask \notin Tasks

VARIABLES
  process,   \* Cmd of a worker: none, up, or dead (and not reaped: a zombie)
  restarts,  \* how often the monitor called startWorker
  wstate,    \* Status.State of a worker
  chWorker,  \* ChannelWorkers
  wChannel,  \* WorkerChannels
  chTasks,   \* ChannelTasks; a channel is in the Go map when it has tasks
  assigned,  \* the tasks whose record names a worker (UpdateTaskWorker)
  mutex,     \* wm.Mutex, held across steps by the subscriber only
  wmutex,    \* the Mutex of a worker, held across steps by its listener only
  sub, lis,  \* the subscriber and the completion listeners
  todo,      \* the start requests that were not fetched yet
  asked,     \* stop requests fetched for a task
  inbox,     \* commands on the socket of a worker
  outbox,    \* completion messages on the socket of a worker
  exec,      \* the tasks a worker executes (channel_states_)
  leaked     \* auxiliary: the workers that lost a task without being made idle

maps  == <<chWorker, wChannel, chTasks>>
procs == <<process, restarts, inbox, outbox, exec>>
reqs  == <<todo, asked, assigned, leaked>>
vars  == <<procs, wstate, maps, mutex, wmutex, sub, lis, reqs>>

Commands    == [act : {"start", "stop"}, task : Tasks]
Completions == [task : Tasks, out : {"success", "failed", "unrecoverable"}]

Sub == [pc : {"idle", "send", "record", "stop", "untrack", "stuck"},
        task : Tasks \cup {NoTask}, worker : Workers \cup {NoWorker}, tries : 0..MaxRetries]
Lis == [pc : {"read", "inspect", "find", "remove", "state", "failRemove"}, task : Tasks \cup {NoTask}]

IdleSub == [pc |-> "idle", task |-> NoTask, worker |-> NoWorker, tries |-> 0]
IdleLis == [pc |-> "read", task |-> NoTask]

TypeOK ==
  /\ process \in [Workers -> {"none", "up", "dead"}]
  /\ restarts \in [Workers -> Nat]
  /\ wstate \in [Workers -> {"IDLE", "RUNNING", "NOT_AVAILABLE"}]
  /\ chWorker \in [Channels -> Workers \cup {NoWorker}]
  /\ wChannel \in [Workers -> Channels \cup {NoChannel}]
  /\ chTasks \in [Channels -> SUBSET Tasks]
  /\ assigned \subseteq Tasks
  /\ mutex \in {"free", "sub"}
  /\ wmutex \in [Workers -> {"free", "lis"}]
  /\ sub \in Sub
  /\ lis \in [Workers -> Lis]
  /\ todo \subseteq Tasks
  /\ asked \in [Tasks -> Nat]
  /\ inbox \in [Workers -> Seq(Commands)]
  /\ outbox \in [Workers -> Seq(Completions)]
  /\ exec \in [Workers -> SUBSET Tasks]
  /\ leaked \subseteq Workers

(* NewWorkerManagerWithMode and the first startWorker of every worker,     *)
(* which may fail.                                                         *)
Init ==
  /\ process \in [Workers -> {"none", "up"}]
  /\ restarts = [w \in Workers |-> 0]
  /\ wstate = [w \in Workers |-> IF process[w] = "up" THEN "IDLE" ELSE "NOT_AVAILABLE"]
  /\ chWorker = [c \in Channels |-> NoWorker]
  /\ wChannel = [w \in Workers |-> NoChannel]
  /\ chTasks = [c \in Channels |-> {}]
  /\ assigned = {}
  /\ mutex = "free"
  /\ wmutex = [w \in Workers |-> "free"]
  /\ sub = IdleSub
  /\ lis = [w \in Workers |-> IdleLis]
  /\ todo = Tasks
  /\ asked = [t \in Tasks |-> 0]
  /\ inbox = [w \in Workers |-> <<>>]
  /\ outbox = [w \in Workers |-> <<>>]
  /\ exec = [w \in Workers |-> {}]
  /\ leaked = {}
-----------------------------------------------------------------------------
(* Helpers                                                                 *)

Send(w, act, t) == inbox' = [inbox EXCEPT ![w] = Append(@, [act |-> act, task |-> t])]

Reply(w, t, out) == outbox' = [outbox EXCEPT ![w] = Append(@, [task |-> t, out |-> out])]

(* Mutant of RemoveTask: the worker keeps the channel it has no task of.   *)
RemoveTaskOnly(c, t) ==
  /\ chTasks' = [chTasks EXCEPT ![c] = @ \ {t}]
  /\ chWorker' = [chWorker EXCEPT ![c] = IF chTasks[c] = {t} THEN NoWorker ELSE @]
  /\ UNCHANGED wChannel

(* removeTaskFromChannel: the last task of a channel takes the mappings of *)
(* the channel with it; a channel without tasks is left alone.             *)
RemoveTask(c, t) ==
  LET last == chTasks[c] = {t}
  IN /\ chTasks' = [chTasks EXCEPT ![c] = @ \ {t}]
     /\ chWorker' = IF last THEN [chWorker EXCEPT ![c] = NoWorker] ELSE chWorker
     /\ wChannel' = IF last
                    THEN [w \in Workers |-> IF wChannel[w] = c THEN NoChannel ELSE wChannel[w]]
                    ELSE wChannel

-----------------------------------------------------------------------------
(* Subscriber: startNativeRecorderTask                                     *)

(* Mutant of Occupied: only the very same task counts.                     *)
OccupiedBySame(t) == t \in chTasks[ChanOf[t]]

(* At most one task per command on a channel.                              *)
Occupied(t) == \E u \in chTasks[ChanOf[t]] : CmdOf[u] = CmdOf[t]

(* The mappings findWorkerForChannel leaves behind: those of a channel     *)
(* whose worker is not available are deleted.                              *)
Dead(c) == chWorker[c] # NoWorker /\ wstate[chWorker[c]] = "NOT_AVAILABLE"

LiveWorker(c) == IF Dead(c) THEN NoWorker ELSE chWorker[c]
LiveTasks(c)  == IF Dead(c) THEN {} ELSE chTasks[c]
LiveChannels(c) ==
  IF Dead(c) THEN [wChannel EXCEPT ![chWorker[c]] = NoChannel] ELSE wChannel

(* The worker of the channel, or else any idle worker.                     *)
FreeWorkers(c) ==
  IF LiveWorker(c) # NoWorker THEN {LiveWorker(c)} ELSE {w \in Workers : wstate[w] = "IDLE"}

(* The task is refused: its record becomes FAILED.                         *)
StartRefused(t) ==
  LET c == ChanOf[t]
  IN /\ sub.pc = "idle" /\ mutex = "free" /\ t \in todo
     /\ todo' = todo \ {t}
     /\ IF Occupied(t)
        THEN UNCHANGED maps
        ELSE /\ FreeWorkers(c) = {}
             /\ chWorker' = [chWorker EXCEPT ![c] = LiveWorker(c)]
             /\ wChannel' = LiveChannels(c)
             /\ chTasks' = [chTasks EXCEPT ![c] = LiveTasks(c)]
     /\ UNCHANGED <<procs, wstate, mutex, wmutex, sub, lis, asked, assigned, leaked>>

(* Under wm.Mutex: a worker is chosen and the maps are updated.            *)
StartAssign(t) ==
  LET c == ChanOf[t]
  IN /\ sub.pc = "idle" /\ mutex = "free" /\ t \in todo /\ ~Occupied(t)
     /\ todo' = todo \ {t}
     /\ \E w \in FreeWorkers(c) :
          /\ chWorker' = [chWorker EXCEPT ![c] = w]
          /\ wChannel' = [LiveChannels(c) EXCEPT ![w] = c]
          /\ sub' = [pc |-> "send", task |-> t, worker |-> w, tries |-> 0]
     /\ chTasks' = [chTasks EXCEPT ![c] = LiveTasks(c) \cup {t}]
     /\ mutex' = "sub"
     /\ UNCHANGED <<procs, wstate, wmutex, lis, asked, assigned, leaked>>

(* Mutant of StartSend: the worker is not marked RUNNING.                  *)
StartSendUnmarked ==
  LET w == sub.worker
  IN /\ sub.pc = "send" /\ wmutex[w] = "free" /\ process[w] = "up"
     /\ Send(w, "start", sub.task)
     /\ sub' = [sub EXCEPT !.pc = "record"]
     /\ UNCHANGED <<process, restarts, outbox, exec, wstate, maps, mutex, wmutex, lis, reqs>>

(* Still under wm.Mutex, the Mutex of the worker is taken for the send.    *)
StartSend ==
  LET w == sub.worker
  IN /\ sub.pc = "send" /\ wmutex[w] = "free" /\ process[w] = "up"
     /\ Send(w, "start", sub.task)
     /\ wstate' = [wstate EXCEPT ![w] = "RUNNING"]
     /\ sub' = [sub EXCEPT !.pc = "record"]
     /\ UNCHANGED <<process, restarts, outbox, exec, maps, mutex, wmutex, lis, reqs>>

(* The send fails; removeTaskFromChannel then locks wm.Mutex, which the    *)
(* caller holds: a Go mutex is not reentrant, the subscriber hangs.        *)
StartSendFails ==
  /\ sub.pc = "send" /\ wmutex[sub.worker] = "free" /\ process[sub.worker] # "up"
  /\ sub' = [sub EXCEPT !.pc = "stuck"]
  /\ UNCHANGED <<procs, wstate, maps, mutex, wmutex, lis, reqs>>

(* UpdateTaskWorker, then wm.Mutex is released.                            *)
StartRecord ==
  /\ sub.pc = "record"
  /\ assigned' = assigned \cup {sub.task}
  /\ mutex' = "free"
  /\ sub' = IdleSub
  /\ UNCHANGED <<procs, wstate, maps, wmutex, lis, todo, asked, leaked>>

-----------------------------------------------------------------------------
(* Subscriber: stopTask                                                    *)

(* The channel of the task has a worker, and the task or no task at all.   *)
Tracked(t) ==
  /\ chWorker[ChanOf[t]] # NoWorker
  /\ t \in chTasks[ChanOf[t]] \/ chTasks[ChanOf[t]] = {}

(* A stop request for a task whose record names a worker of this pod.  The *)
(* claim cleared the worker of the stop request itself, so that only the   *)
(* maps can tell which worker has the task; without one nothing is sent.   *)
StopFind(t) ==
  /\ sub.pc = "idle" /\ mutex = "free" /\ t \in assigned /\ asked[t] < MaxStops
  /\ asked' = [asked EXCEPT ![t] = @ + 1]
  /\ sub' = IF Tracked(t)
            THEN [pc |-> "stop", task |-> t, worker |-> chWorker[ChanOf[t]], tries |-> 0]
            ELSE sub
  /\ UNCHANGED <<procs, wstate, maps, mutex, wmutex, lis, todo, assigned, leaked>>

(* Mutant of StopSend: the task is forgotten and its worker is not told.   *)
StopSendSkipped ==
  /\ sub.pc = "stop" /\ wmutex[sub.worker] = "free" /\ process[sub.worker] = "up"
  /\ sub' = [sub EXCEPT !.pc = "untrack"]
  /\ UNCHANGED <<procs, wstate, maps, mutex, wmutex, lis, reqs>>

StopSend ==
  /\ sub.pc = "stop" /\ wmutex[sub.worker] = "free" /\ process[sub.worker] = "up"
  /\ Send(sub.worker, "stop", sub.task)
  /\ sub' = [sub EXCEPT !.pc = "untrack"]
  /\ UNCHANGED <<process, restarts, outbox, exec, wstate, maps, mutex, wmutex, lis, reqs>>

(* A failed attempt.  After the last one forceKillWorker takes wm.Mutex    *)
(* and calls removeTaskFromChannel, which takes it again.                  *)
StopSendFails ==
  /\ sub.pc = "stop" /\ wmutex[sub.worker] = "free" /\ process[sub.worker] # "up"
  /\ IF sub.tries + 1 < MaxRetries
     THEN sub' = [sub EXCEPT !.tries = @ + 1] /\ UNCHANGED mutex
     ELSE mutex = "free" /\ mutex' = "sub" /\ sub' = [sub EXCEPT !.pc = "stuck"]
  /\ UNCHANGED <<procs, wstate, maps, wmutex, lis, reqs>>

(* cleanupStoppedTask                                                      *)
StopUntrack ==
  /\ sub.pc = "untrack" /\ mutex = "free"
  /\ RemoveTask(ChanOf[sub.task], sub.task)
  /\ sub' = IdleSub
  /\ UNCHANGED <<procs, wstate, mutex, wmutex, lis, reqs>>

-----------------------------------------------------------------------------
(* Completion listener of worker w: handleTaskCompletion                   *)

LisStep(w, pc) == lis[w].pc = pc
LisGoto(w, pc) == lis' = [lis EXCEPT ![w].pc = pc]
LisDone(w)     == lis' = [lis EXCEPT ![w] = IdleLis] /\ wmutex' = [wmutex EXCEPT ![w] = "free"]

(* A message is read, and the Mutex of the worker is held until it is      *)
(* handled.                                                                *)
LisRead(w) ==
  LET m == Head(outbox[w])
  IN /\ LisStep(w, "read") /\ outbox[w] # <<>> /\ wmutex[w] = "free"
     /\ outbox' = [outbox EXCEPT ![w] = Tail(@)]
     /\ wmutex' = [wmutex EXCEPT ![w] = "lis"]
     /\ lis' = [lis EXCEPT ![w] =
                  [pc |-> IF m.out = "unrecoverable" THEN "inspect" ELSE "find", task |-> m.task]]
     /\ UNCHANGED <<process, restarts, inbox, exec, wstate, maps, mutex, sub, reqs>>

(* After an unrecoverable error failTask takes over, unless the record is  *)
(* gone.  Without a worker in the record it leaves the maps alone; with    *)
(* one it sends a stop and forgets the task.  Either way the worker keeps  *)
(* the state it has.                                                       *)
FailLookupError(w) ==
  /\ LisStep(w, "inspect")
  /\ LisGoto(w, "find")
  /\ UNCHANGED <<procs, wstate, maps, mutex, wmutex, sub, reqs>>

FailUnassigned(w) ==
  /\ LisStep(w, "inspect") /\ lis[w].task \notin assigned
  /\ LisDone(w)
  /\ leaked' = leaked \cup {w}
  /\ UNCHANGED <<procs, wstate, maps, mutex, sub, todo, asked, assigned>>

FailSendStop(w) ==
  /\ LisStep(w, "inspect") /\ lis[w].task \in assigned
  /\ IF process[w] = "up" THEN Send(w, "stop", lis[w].task) ELSE UNCHANGED inbox
  /\ LisGoto(w, "failRemove")
  /\ UNCHANGED <<process, restarts, outbox, exec, wstate, maps, mutex, wmutex, sub, reqs>>

FailRemove(w) ==
  /\ LisStep(w, "failRemove") /\ mutex = "free"
  /\ RemoveTask(ChanOf[lis[w].task], lis[w].task)
  /\ LisDone(w)
  /\ leaked' = leaked \cup {w}
  /\ UNCHANGED <<procs, wstate, mutex, sub, todo, asked, assigned>>

(* The channel of the worker is searched for the task under wm.Mutex, and  *)
(* the task removed under a later wm.Mutex.                                *)
LisFind(w) ==
  LET t == lis[w].task
  IN /\ LisStep(w, "find") /\ mutex = "free"
     /\ LisGoto(w, IF chWorker[ChanOf[t]] = w /\ t \in chTasks[ChanOf[t]] THEN "remove" ELSE "state")
     /\ UNCHANGED <<procs, wstate, maps, mutex, wmutex, sub, reqs>>

LisRemove(w) ==
  /\ LisStep(w, "remove") /\ mutex = "free"
  /\ RemoveTask(ChanOf[lis[w].task], lis[w].task)
  /\ LisGoto(w, "state")
  /\ UNCHANGED <<procs, wstate, mutex, wmutex, sub, reqs>>

(* Mutant of Remaining: the worker is idle after any completion.           *)
RemainingNone(w) == {}

Remaining(w) == IF wChannel[w] = NoChannel THEN {} ELSE chTasks[wChannel[w]]

(* Mutant of LisState: the state of the worker is left alone.              *)
LisStateKept(w) ==
  /\ LisStep(w, "state") /\ mutex = "free"
  /\ LisDone(w)
  /\ UNCHANGED <<procs, wstate, maps, mutex, sub, reqs>>

(* The worker is RUNNING while its channel has tasks, IDLE otherwise.      *)
LisState(w) ==
  /\ LisStep(w, "state") /\ mutex = "free"
  /\ wstate' = [wstate EXCEPT ![w] = IF Remaining(w) # {} THEN "RUNNING" ELSE "IDLE"]
  /\ LisDone(w)
  /\ UNCHANGED <<procs, maps, mutex, sub, reqs>>

-----------------------------------------------------------------------------
(* Monitor: monitorWorkers and startWorker                                 *)

(* A worker without a process is started again, under wm.Mutex.  Signal 0  *)
(* reaches a process that died and that nobody waited for: the monitor     *)
(* takes it for alive.                                                     *)
MonitorStart(w) ==
  /\ process[w] = "none" /\ mutex = "free" /\ restarts[w] < MaxRestarts
  /\ restarts' = [restarts EXCEPT ![w] = @ + 1]
  /\ \/ /\ process' = [process EXCEPT ![w] = "up"]
        /\ wstate' = [wstate EXCEPT ![w] = "IDLE"]
     \/ /\ wstate' = [wstate EXCEPT ![w] = "NOT_AVAILABLE"]
        /\ UNCHANGED process
  /\ UNCHANGED <<inbox, outbox, exec, maps, mutex, wmutex, sub, lis, reqs>>

-----------------------------------------------------------------------------
(* The worker process: TaskPipe                                            *)

Command(w, act) == process[w] = "up" /\ inbox[w] # <<>> /\ Head(inbox[w]).act = act

Take(w) == inbox' = [inbox EXCEPT ![w] = Tail(@)]

(* A start command runs the task, or is refused with a completion message, *)
(* or fails and says nothing.                                              *)
WorkerStart(w) ==
  LET t == Head(inbox[w]).task
  IN /\ Command(w, "start") /\ Take(w)
     /\ \/ /\ "run" \in Starting
           /\ exec' = [exec EXCEPT ![w] = @ \cup {t}]
           /\ UNCHANGED <<outbox, leaked>>
        \/ "refuse" \in Starting /\ Reply(w, t, "failed") /\ UNCHANGED <<exec, leaked>>
        \/ "ignore" \in Starting /\ leaked' = leaked \cup {w} /\ UNCHANGED <<exec, outbox>>
     /\ UNCHANGED <<process, restarts, wstate, maps, mutex, wmutex, sub, lis, todo, asked, assigned>>

(* A stop command is answered when it finds the task.  (A stream that has  *)
(* failed answers "failed", which the listener handles like "success".)     *)
WorkerStop(w) ==
  LET t == Head(inbox[w]).task
  IN /\ Command(w, "stop") /\ Take(w)
     /\ IF t \in exec[w] THEN Reply(w, t, "success") ELSE UNCHANGED outbox
     /\ exec' = [exec EXCEPT ![w] = @ \ {t}]
     /\ UNCHANGED <<process, restarts, wstate, maps, mutex, wmutex, sub, lis, reqs>>

(* A task ends by itself: its duration is over, its destination fails, or  *)
(* the SDK reports an error.                                               *)
WorkerEnd(w, t) ==
  /\ process[w] = "up" /\ t \in exec[w]
  /\ \E out \in Endings : Reply(w, t, out)
  /\ exec' = [exec EXCEPT ![w] = @ \ {t}]
  /\ UNCHANGED <<process, restarts, inbox, wstate, maps, mutex, wmutex, sub, lis, reqs>>

WorkerDies(w) ==
  /\ process[w] = "up" /\ w \in MayDie
  /\ process' = [process EXCEPT ![w] = "dead"]
  /\ exec' = [exec EXCEPT ![w] = {}]
  /\ inbox' = [inbox EXCEPT ![w] = <<>>]
  /\ UNCHANGED <<restarts, outbox, wstate, maps, mutex, wmutex, sub, lis, reqs>>

-----------------------------------------------------------------------------
SubNext ==
  \/ \E t \in Tasks : StartRefused(t) \/ StartAssign(t) \/ StopFind(t)
  \/ StartSend \/ StartSendFails \/ StartRecord
  \/ StopSend \/ StopSendFails \/ StopUntrack

LisNext(w) ==
  \/ LisRead(w) \/ LisFind(w) \/ LisRemove(w) \/ LisState(w)
  \/ FailLookupError(w) \/ FailUnassigned(w) \/ FailSendStop(w) \/ FailRemove(w)

WorkerNext(w) == WorkerStart(w) \/ WorkerStop(w)

Next ==
  \/ SubNext
  \/ \E w \in Workers : \/ LisNext(w) \/ MonitorStart(w) \/ WorkerNext(w) \/ WorkerDies(w)
                        \/ \E t \in Tasks : WorkerEnd(w, t)

Spec == Init /\ [][Next]_vars

(* Go and the kernel schedule every goroutine and every worker process     *)
(* that can run.  Nothing obliges a task to end, a worker to die or a user *)
(* to ask for a stop.                                                      *)
SubSteps == StartSend \/ StartSendFails \/ StartRecord \/ StopSend \/ StopSendFails \/ StopUntrack

Fairness ==
  /\ WF_vars(SubSteps)
  /\ WF_vars(\E t \in Tasks : StartRefused(t) \/ StartAssign(t))
  /\ \A w \in Workers : WF_vars(LisNext(w)) /\ WF_vars(WorkerNext(w)) /\ WF_vars(MonitorStart(w))

FairSpec == Spec /\ Fairness

-----------------------------------------------------------------------------
(* Properties                                                              *)

(* The maps agree: ChannelWorkers and WorkerChannels are inverse to each   *)
(* other, and exactly the channels with a worker have tasks.  Starts,      *)
(* stops, completions and failures, which each change the three maps piece *)
(* by piece and in several critical sections, keep it so.                  *)
MapsAgree ==
  /\ \A c \in Channels, w \in Workers : chWorker[c] = w <=> wChannel[w] = c
  /\ \A c \in Channels : chWorker[c] # NoWorker <=> chTasks[c] # {}

(* An idle worker has no channel, except the one being handed its first    *)
(* task: findFreeWorker never gives one worker to two channels.            *)
IdleIsFree ==
  \A w \in Workers : wstate[w] = "IDLE" /\ wChannel[w] # NoChannel =>
                       sub.pc \in {"send", "stuck"} /\ sub.worker = w

(* A channel has one task per command (the concurrency guard of            *)
(* startNativeRecorderTask), and only tasks of its own.                    *)
OnePerCommand ==
  \A c \in Channels : \A t, u \in chTasks[c] : ChanOf[t] = c /\ (CmdOf[t] = CmdOf[u] => t = u)

(* The inductive invariant.  The maps are only safe because wm.Mutex stays *)
(* with the subscriber from the choice of a worker to its RUNNING state,   *)
(* and because a worker without a process has no channel and no messages.  *)
LockInv ==
  /\ mutex = "sub" <=> sub.pc \in {"send", "record", "stuck"}
  /\ sub.pc # "idle" => sub.task \in Tasks /\ sub.worker \in Workers
  /\ \A w \in Workers : lis[w].pc # "read" => lis[w].task \in Tasks

ProcessInv ==
  \A w \in Workers :
    /\ wstate[w] = "NOT_AVAILABLE" <=> process[w] = "none"
    /\ process[w] = "none" => wChannel[w] = NoChannel /\ lis[w].pc = "read" /\ outbox[w] = <<>>

MapInv == MapsAgree /\ IdleIsFree /\ OnePerCommand

(* LockInv and ProcessInv with the properties of the maps: every step of   *)
(* every goroutine keeps them together.                                    *)
IndInv == TypeOK /\ LockInv /\ ProcessInv /\ MapInv

(* A worker has one RTC connection: it never executes tasks of two         *)
(* channels, although it is IDLE again while stops are under way.          *)
OneChannelPerWorker == \A w \in Workers : \A t, u \in exec[w] : ChanOf[t] = ChanOf[u]

(* What a worker executes is in the maps, where a stop request looks for   *)
(* it, or else a stop is on its way to the worker.                         *)
NoOrphan ==
  \A w \in Workers : \A t \in exec[w] :
    \/ t \in chTasks[ChanOf[t]] /\ chWorker[ChanOf[t]] = w
    \/ \E i \in DOMAIN inbox[w] : inbox[w][i] = [act |-> "stop", task |-> t]

(* A task for which a stop was fetched is eventually executed nowhere.     *)
StopIsExecuted == \A t \in Tasks : asked[t] > 0 ~> \A w \in Workers : t \notin exec[w]

(* The subscriber holds wm.Mutex and waits for the Mutex of a worker whose *)
(* listener holds that one and waits for wm.Mutex, or it waits for the     *)
(* wm.Mutex it holds itself: nothing of the pod moves any more.            *)
Deadlocked ==
  \/ sub.pc = "stuck"
  \/ /\ sub.pc = "send" /\ wmutex[sub.worker] = "lis"
     /\ lis[sub.worker].pc \in {"find", "remove", "state", "failRemove"}

(* A worker whose tasks have all been stopped or have ended is idle again  *)
(* in the end, so that the capacity of the pod comes back, with two tasks  *)
(* on its channel as well.  The three ways to lose the worker for good are *)
(* named: its process is dead, the mutexes are taken in opposite orders,   *)
(* or an end reached the manager in no message or through failTask, which  *)
(* leaves the state of the worker alone.                                   *)
CapacityReturns ==
  \A w \in Workers :
    wstate[w] = "RUNNING" ~> \/ wstate[w] = "IDLE" \/ exec[w] # {}
                             \/ process[w] = "dead" \/ Deadlocked \/ w \in leaked
=============================================================================
