# RTC-Egress: a TLA+ verification project

RTC-Egress records, snapshots and streams RTC channels. Requests reach an API
server, travel through Redis to one of many pods, and are executed there by
worker processes (native tasks) or by an external web recorder (freestyle
layouts). A worker takes commands from a socket, joins the channel, and feeds
decoded or encoded media to its recording, snapshot and streaming sinks. This
project models the parts in which correctness depends on the order of many
actors' steps: the task store, the routing of tasks to pods, the assignment of
tasks to workers, the command loop of a worker, and its sinks down to files,
timestamps, audio mixing and picture layout.

## 1. Inventory

| Component | State | Operations | Talks to |
|---|---|---|---|
| Task store, `pkg/queue/redis_queue.go` | Redis: task records, queue lists, stop lists, processing lists, leases, dedupe marks | publish, publish a stop, claim, set worker, set result, renew a lease, recover, time out | API server and every pod, through Redis only |
| Queue routing, `redis_queue.go`, `manager.go`, `config/*.example` | names of lists, patterns of each pod | build a key, scan, validate, rank, yield | task store |
| Worker manager, `pkg/egress/manager.go` | `ChannelWorkers`, `WorkerChannels`, `ChannelTasks`, `ActiveTasks`, worker states, two kinds of mutex | start, stop, fail, complete, monitor, renew | task store, workers (Unix sockets) |
| Worker command loop, `src/task_pipe.cpp` | `channel_states_`, the sinks | start, stop, SDK error, completion | manager, sinks, RTC client |
| API server, `cmd/api_server/main.go` | none | start, stop, status | task store |
| Web recorder proxy, `pkg/egress/web_recorder_proxy.go` | none | HTTP with retries | external web recorder |
| Webhook notifier, `pkg/webhook/notifier.go` | notification states, batch, delivered marks | key events, batches, retries | Redis, HTTP |
| Health manager, `pkg/health` | heartbeats with TTL | register, heartbeat, statistics | Redis |
| Uploader, `pkg/uploader`, `cmd/uploader` | files, metadata | watch, upload, retry | file system, S3 |
| Streaming sink and output, `src/streaming_*.cpp` | publishing thread, transport, deadline, flags, callback | initialize, start, stop, frames, reconnect | RTC client, TaskPipe |
| Recording sink, `src/recording_sink.cpp` | coordinator, audio and video threads, queues, encoder contexts, passthrough contexts | start, stop, decoded and encoded frames, rotation | RTC client, TaskPipe, segment and metadata managers |
| Segment manager, `src/ts_segment_manager.cpp` | session, current segment, playlist | start, rotate, finalise, end | recording sink, file system |
| Metadata manager, `src/metadata_manager.cpp` | sessions, files, checksums | start, append, complete, validate, end, save | sinks, file system |
| Snapshot sink, `src/snapshot_sink.cpp` | capture thread, current frame, two mutexes | start, stop, frames, composed frames | RTC client, compositor |
| Compositor, layout detector, audio mixer | users, frames, canvas, samples, timeline | add, leave, compose, push, drain | sinks |
| RTC client, connection observer | SDK connection | connect, disconnect, errors | SDK, TaskPipe |

What is hard here, and what makes each part correct:

* **Task store.** Every change of a record is a GET, a change in Go, and a SET of
  the whole record; only publishing, claiming, recovering and timing out use a
  transaction for their writes. Four goroutines per pod and the API server do
  this concurrently, pods die between any two steps, and leases expire. Correct
  means: one executor, no loss, no second entry, final states stay final, a stop
  stops.
* **Routing.** Four pieces of code and two configuration files encode one grammar
  of list names. Correct means: every published task is read by a pod of its kind
  and by no other, and nothing that is not a queue is ever popped.
* **Worker manager.** Three maps and the worker states are changed in several
  critical sections, under two mutexes taken in both orders. Correct means: the
  maps agree, an idle worker is free, one task per command and channel, nothing
  runs that a stop cannot find, capacity comes back, nobody waits for ever.

* **Command loop.** Five threads (commands, the coordinator's and the publisher's
  callbacks, the SDK's error, shutdown) end tasks, and each stops sinks by joining
  threads that may be doing the same. Correct means: a report per task and no
  second one, sinks run exactly while they have tasks, everybody returns.
* **Sinks.** `stop()` sets flags, wakes, joins and closes while frames arrive, a
  duration ends and a network fails. Correct means: nothing accepted is lost and
  nothing written after the close, an end is reported once, retries are bounded,
  `stop()` returns.
* **Files.** A switch of segments is a rename, a playlist, a trailer, a new file
  and a metadata entry; each may fail and the process may die in between. Correct
  means: at most one segment is unfinished, and playlist and metadata name only
  what is there.
* **Media.** Timestamps increase whatever the SDK delivers; samples are mixed once
  and inside the frame; regions lie in the canvas and apart; the layout follows
  who is sending.

`PROJECT.json` lists these hazards line by line.

## 2. Modules

| Module | Models | Checked by | Proofs |
|---|---|---|---|
| `TaskQueue` | the task store and the goroutines that use it, over several pods | `MCTaskQueue` | `TaskQueueProofs` |
| `QueueKeys` | names, patterns, ranking, time-out and recovery of queues | `MCQueueKeys` | `QueueKeysProofs` |
| `WorkerManager` | one pod's manager, its mutexes, its workers | `MCWorkerManager` | `WorkerManagerProofs` |
| `TaskPipe` | a worker's command loop and the threads beside it | `MCTaskPipe` | `TaskPipeProofs` |
| `RecordingSink`, `Session` | the threads of a recording; what a sink promises | `MCRecordingSink` | `RecordingSinkProofs` |
| `StreamingSink` | the publishing thread, its retries and its callers | `MCStreamingSink` | `StreamingSinkProofs` |
| `SegmentFiles`, `Metadata` | the files of a recording in segments | `MCSegmentFiles` | `SegmentFilesProofs` |
| `SnapshotSink` | snapshots and their two mutexes | `MCMedia`, `MCSnapshotSink` | `MediaProofs` |
| `MediaClock` | timestamps of the three kinds of output | `MCMedia` | `MediaProofs` |
| `AudioMixer` | the common timeline of all users' samples | `MCMedia` | `MediaProofs` |
| `Compositor` | canvas, layouts, regions | `MCMedia` | `MediaProofs` |
| `LayoutDetector` | who is in the layout | `MCMedia` | `MediaProofs` |
| `Passthrough` | recording of encoded video | `MCMedia` | `MediaProofs` |

The first three split the dispatching system. `TaskQueue` sees of a manager only
what it tracks (`tracked`, `active`) and of its workers only what they run;
`WorkerManager` sees of Redis only whether a record names a worker (`assigned`);
`QueueKeys` looks at names, and at the lists as far as a name decides who reads
them. `TaskPipe` sees
of the manager that it keeps a worker on one channel (`ManagerSends`, which is
`OneChannelPerWorker` of `WorkerManager`), and of the sinks what their `stop()`
waits for, which `RecordingSink` and `StreamingSink` spell out. `SegmentFiles`
extends `Metadata` and changes both in one action where the code does. `MCMedia`
puts the small machines below the sinks into one run, a behaviour of one of them
at a time; they share no state.

Definitions that start with the name of another one and come just before it,
under a comment "Mutant", are plausible mistakes: each breaks one property, which
shows that the property depends on that piece of code. No specification uses
them.

### TaskQueue

Redis is `task`, `queue`, `stopQ`, `proc`, `lease`, `dedupe`. One Redis command or
one MULTI/EXEC is one action. A goroutine of pod `p` is a record with a program
counter: `sub[p]` (`startRedisSubscriber`, `fetchTaskFromRedis`,
`processRedisTask`, `stopTask`), `lis[p][t]` (`handleTaskCompletion`, `failTask`),
`ren[p]` (`renewAllLeases`, `RenewLease`), `cln[p]` (`CleanupExpiredLeases`,
`checkAndRecoverTask`). `copy` is the record it read; the write that follows
stores `copy`, whatever the record is by then.

Of a record only `state`, `pod` and whether a worker is set are kept. A Go step on
local maps is merged with the Redis read before it where nothing in Redis depends
on the moment between the two (`FailInspect`); the reads of `PublishStopTaskFor`
are one step, `StopCheck`, and its pipeline another.

`Kept` says when a lease cannot expire: it is renewed long before its time-out, so
it lives as long as its pod does and has the task in `ActiveTasks` or is at work
on it (the 5 s limits of each call are shorter than a lease).

`raced` is an auxiliary variable. A task enters it when the code does something to
its record that the code's own design takes for impossible: it writes a stale
copy, takes a record out of a final state, or recovers an entry that is not the one
it looked at: popped and not claimed yet, recovered by another pod in the
meantime, or with a record or lease that changed since. Recovery is judged at its
write (`RecoveryRace`), not at the look that led to it. `OneExecutor` and
`NoTaskLoss` are stated without it, and fail; the `Unraced` properties say what is
left. See the runs below.

Redis itself answers every command: connection errors are left out, and with them
the renewal that fails for another reason than a lost lease, after which
`renewAllLeases` gives the task up although its worker goes on
(`manager.go:586-591`).

### QueueKeys

A key is the sequence of its parts. `getQueueKey`, `buildQueueKey`,
`isValidQueueKey`, `shouldYieldForRegionalTask`, `isWebTask` are translated one by
one, the patterns are those of `config/egress_config.yaml.example` and
`config/flexible_recorder_config.yaml.example`, and `Matches` is the glob of Redis
on whole parts (external). A channel may have several parts because the
validation in `pkg/egress/protocol.go` lets ':' pass. A fetch is a `Scan`, which
fixes the queues to try, followed by tries in order of rank while other pods empty
them. Popping, looking at the record, and handing the task on (`Defer`) or claiming
it are steps of their own, as are a cleaner's look at an entry without a lease
(`Look`) and its pipeline (`Recover`), which pushes the task whether or not the entry
is still there: an entry may be in a list twice, and no property says otherwise.
Regions other than the empty one are passed by the library's interface; the
API server itself publishes without a region (`parseRegionFromIP` returns "").

### WorkerManager

One action per critical section. `mutex` is `wm.Mutex`, held across actions only
by the subscriber, which keeps it from the choice of a worker until
`UpdateTaskWorker` has returned; `wmutex[w]` is a worker's mutex, held by its
listener while it handles a message. A channel is in the Go map `ChannelTasks`
exactly when it has tasks, hence `chTasks[c] = {}` for an absent one. A worker
process takes commands in order (`inbox`) and sends completions (`outbox`); it may
run, refuse or silently drop a start (`Starting`), and end a task by itself
(`Endings`). `leaked` collects the workers that lost a task without being made
idle: through `failTask`, or because the worker dropped a start. The process state "dead" is a child nobody waited for: signal 0 still
reaches it. "stuck" is a subscriber that locks `wm.Mutex` a second time
(`removeTaskFromChannel` called under the lock).

### TaskPipe

`th[x]` says where thread `x` is and with which task: the command handler, the
recording coordinator and the publishing thread in their completion callbacks,
the SDK thread of an unrecoverable error, and the main thread in `stop()`. A
section under `state_mutex_` is one action, except the stop of the last snapshot,
which joins the capture thread with the mutex held (`StateFree`); the other
threads wait for it wherever they lock the mutex. `stop()` of the recording and the
streaming sink is a step that begins to stop and one that joins, `stop()` of the
snapshot sink one step that waits for the capture thread (`StopSnap`), and that
thread may hang (`CaptureHangs`, for the two reasons that `SnapshotSink` shows).
`cleanupConnection`, `releaseConnection` and `sendCompletionMessage` are steps
shared by all callers, as in the code. `met` collects tasks that two threads worked
on at once, `raced` those and the ones started while another thread ended
something, `shared` tasks of a channel whose recordings shared the sink, `refused`
those given up without a message, `broken` an SDK error that left the client
connected: the ways in which the code is known to give up its promises (section 5).

### RecordingSink and Session

Callers, the coordinator, the two workers and the two SDK threads, each with its
own position. The queues are counted. A mutex is a variable's guard only where a
thread holds it across two steps: `audioQueueMutex_` from the check of
`isRecording()` to the push, and `videoQueueMutex_` from the predicate to the
wait. `Session` is what a sink promises: phases that do not overlap, nothing
accepted after the end was asked for, no end before all that was accepted is
written. `RecordingSink` implements it under the mapping `phase` from
`isRecording_` and `stopRequested_`, `pending` from the queue, the frame on its
way in, the frame with the worker, and what the close threw away. The last one is
why the refinement says something: a lost frame could never be written, and the
step that ends the session would not be a step of `Session`.

### StreamingSink

`worker` is the position in `run()`, `openSession()` and `reconnect()`; `attempt`
is the loop variable; `buffered` says from which time the audio in the mixer is.
An attempt to connect or write is a step with any outcome, since
`StreamingOutput` ends each by `interrupt()` or its own timeout. `late` is
`durationReached()`. `lifecycle` is `lifecycleMutex_`. Two callers and the
callback of the publishing thread itself call `stop()`.

### SegmentFiles and Metadata

`step` walks `switchToNewTSSegment` (finalise, playlist, close, rotate, set up,
append), `rec` the end of the recording in `stop()`. Each rename, header,
playlist and save is a step with failure as an outcome, and `Crash` may happen
after any of them. `Metadata` are the operations of `MetadataManager` on one
task's session, as values; `saved` is what is on disk per prefix. A checksum is
the content it was taken of. Every `stat` may fail, which gives the size 0, and every
checksum, which gives an empty one and the status "checksum_failed"; `unread` collects
the files to which that happened. An I/O error in the middle of a file, after which
`calculateSHA256` returns the digest of what it has read, is left out.

### The media machines

* `MediaClock`: origin, last RTC time and last timestamp per stream, for the
  encoders of a recording, its passthrough and the streaming output. A millisecond
  is `Tick` units of a stream's time base.
* `AudioMixer`: per user the first sample, the length and the age of its queue;
  `drain()` gives the mutex up while a frame is consumed (`Consume`), when pushes
  and resets happen.
* `Compositor`: the regions of flat, spotlight and customized layouts with the
  code's integer divisions and rounding to even, the scaled frame inside a
  region, and which users' frames are kept. The order of users is left out.
* `LayoutDetector`: users' states with the ages the code compares against its
  time-outs; `alone` is a user who keeps sending while the others have stopped.
* `SnapshotSink`: `frameMutex_` as a holder, the capture thread between test and
  wait, the SDK thread inside the compositor's callback, and the detection thread,
  which composes when the layout changes.
* `Passthrough`: one user's context between its first frame and its trailer; `lost`
  says that samples were erased and then not converted or not written, `damaged`
  that a packet was not.

## 3. Runs

| Run | Instance | Shows |
|---|---|---|
| `queue_stop` | 2 pods, one may die; 1 start, 1 stop; success and unrecoverable failure | a task not in `raced` has one executor, with its lease, in the maps, and one entry in the lists |
| `manager_maps` | 2 workers, one may die; 2 channels, 3 tasks; every ending and reaction | maps agree, idle is free, one channel per worker, no orphan |
| `manager_live` | 1 worker that may die; 2 recordings and a snapshot of one channel, a recording of another; ignored starts, unrecoverable errors | one task per command; a fetched stop ends the task; the worker becomes idle again unless it is dead, the mutexes are in a cycle, or it is in `leaked` |
| `keys` | a native and a web pod in two regions; a regional spotlight task, a web task and one whose channel has ':'; fair | nothing but queues is popped; native stays native; while a native pod is up, every waiting task whose channel has no ':' leaves its queue |
| `pipe` | 2 channels, 2 tasks of any kind, 1 SDK error, a capture thread that may hang, the end of the worker | an end is reported, once if no two threads met over the task, else at most twice (three times with an SDK error); until then sinks match tasks and a task works on its own channel; every thread comes back, unless the capture thread hangs or the coordinator and the streaming thread join each other |
| `recording` | 2 callers and the coordinator, buffers of 1, 2 sessions, 2 frames | the sink implements `Session`, nothing is encoded after the close, an idle sink is quiet, `stop()` returns |
| `streaming` | 2 callers, 2 retries, 2 sessions, 1 outage after a success | the end is reported once, the budget is kept, no old audio, `stop()` returns |
| `files` | 3 segments that grow by one unit; renames, headers, playlists, saves, and stats and checksums of 2 segments may fail; a crash anywhere | only the current segment is unfinished, the playlist is true, and so are the entries of completed metadata; an entry of a segment that could not be read is verified only with the right checksum, and the total is the sum if all could be read |
| `media` | the constants of `MCMedia.cfg`; one machine at a time | timestamps grow (but for negative ones of an encoded recording), mixing is sound, regions fit, the layout settles, passthrough and snapshot stop cleanly |

Three runs show a disagreement between the code and its documents or comments, with
the shortest trace as their output:

| Run | What happens |
|---|---|
| `queue_one_executor` | pop, then the other pod's cleanup sees an entry without a lease and requeues it; both execute |
| `queue_loss` | the same recovery, after which the first pod claims the task it holds, which writes its name into the record, and dies; the second pod pops the requeued entry, takes the task for one of the first pod, and moves it to the first pod's stop list, which nobody reads any more |
| `snapshot` | a composite snapshot: `onVideoFrame` holds `frameMutex_`, the compositor calls `onComposedFrame`, which locks it again |

**Bounds.** Two pods suffice for a crash, a failover and a race between an owner
and a cleaner; one stop and one start for every pair of goroutines. `MaxCopies` = 2 bounds repeated recovery of an entry that is not
there; a second copy is already a violation of the properties that count copies.
In `WorkerManager` three tasks give a channel with two commands and a second
channel that competes for workers, and the fourth one of `manager_live` a second
recording that meets the guard; `MaxStops` and `MaxRestarts` = 1 let every stop
and restart happen once per task and worker. In `QueueKeys` the tasks are chosen
so that each shape of a key occurs; `MaxRetries` = 1 gives each task one recovery,
and a second one leads to the same queue as the first. `TaskPipe` with two tasks
has two of one kind or two kinds, on one channel or one after the other on two;
one error ends them all; its finding that a task is reported twice, or three times
with an error, needs no more. In `RecordingSink` a buffer of one is full at once, and
two sessions let a late frame or thread of the first meet the second; the same
holds for `StreamingSink`, where two attempts tell a first from a last retry.
Three segments are a first, a middle and a last one; one unit of length tells a
segment before its trailer from one after it; `MaxUnread` = 2 leaves one segment
that can be read beside those that cannot. In `MCMedia` a unit of RTC time is
less than two frames and more than one (`Tick` 3, `MinIncrement` 2), so repeated,
backward and skipping times all occur; a backward step of more than `BackJump` = 1
would be the restart that the code looks for; the mixer's gap, limit and silence are
smaller than the timeline of five samples; the canvases are wide, high, smaller
than a spotlight's edge, and one no number of users divides, with up to five
users; one place for two users makes them compete for `maxUsers`.

**The constraint `NotRaced`.** The `Unraced` properties quantify over tasks
outside `raced`, which never shrinks. The states of `TaskQueue` in which some task
is raced are not explored further in `queue_stop`, since with one task they say
nothing. What that run shows is thus conditional: until the first such race, crash,
failover, expiry, stop and completion in every order are harmless.
`queue_one_executor` and `queue_loss`, which have no constraint, show what a race
leads to: a task that two pods execute, and one that nobody will. Of the properties
of `TaskPipe`, `SinksMatchTasks` and `OnItsChannel` are conditional in the same way,
on `raced` and `broken`, without a constraint; `ReportedOnce` and `CommandsReturn`
cover every state and name their exceptions.

**Deadlock** is not checked: a system in which all requests are finished, or whose
bounds are used up, stops.

**The exceptions of `CapacityReturns`.** A worker that has lost its last task is
not always made idle. The property names when: its process is dead, `wm.Mutex` and
its own mutex are in a cycle (`Deadlocked`), or it is in `leaked`. The run reaches
all of them, and shows that there is no other way. The design promises more
(section 5).

**Fairness.** Go and the kernel schedule every goroutine and thread that is not
blocked; weak fairness of each thread's steps says so, and no more.
`WorkerManager!FairSpec`: the subscriber's steps, each listener, each worker and
the monitor; ending a task, dying and asking for a stop are not fair.
`QueueKeys!FairSpec`: the subscriber and the cleaner are endless loops with
sleeps, and time passes (`Age`); publishing, finishing and losing a lease are not
fair. `TaskPipe`, `RecordingSink`: the steps of every thread inside a handler;
commands, frames and errors are not. That a recording's duration passes is fair,
since it is a clock. `StreamingSink` adds strong fairness of `StopLock`: a thread
that waits for `lifecycleMutex_` gets it in the end, because nobody calls the sink
in an endless loop. `SnapshotSink` has strong fairness of the capture thread, which
competes for `frameMutex_` with frames that arrive now and then.
`LayoutDetector`: the detection thread wakes by its own time-out, ages grow, and
the user in `alone` keeps sending.

## 4. Proofs

All theorems hold for every value of the constants that satisfies the assumption
named in the module that declares them.

`TaskQueueProofs`: `Spec => []Inv` for any number of pods, requests, channels and
crashes, with

    Inv == TypeOK /\ DeadInv /\ PublishInv /\ TaskInv

and from it `UnracedOneExecutor`, `UnracedNoTaskLoss`, `UnracedLeased`,
`UnracedTracked` and `UnracedNoDup`. `TaskInv` says of every start outside `raced`:
it has one entry, in a queue or in one processing list (`EntryInv`); a waiting
task and one that was popped and not claimed belong to nobody (`FreeInv`); it
belongs to one pod, which has its lease and its entry until it is finished
(`OwnerInv`); who works on it has the lease, even when the stop of another pod
finished the record (`LeasedAt`); and its stages in the pod follow each other
(`StageAt`). None of these is inductive alone: a second executor can only come from
a second entry, a second entry only from a recovery, a recovery only from a missing
lease, and the lease is there because the pod renews what is in `ActiveTasks` or
in its hands. `PublishInv` says that nothing is known of an ID before its request
was published, so that publishing is the first entry; `DeadInv`, that nothing is
left of a dead pod but what it wrote to Redis. Most steps take nothing from a task, and a lemma
(`Frame`) carries its part of the invariant over all of them; publishing, popping,
claiming, recovering, the end of a lease and a crash have arguments of their own.
The first attempt failed for a reason: two surviving pods recover one entry
(section 5), and an earlier definition of `raced`, which judged a recovery by the
look before it, did not contain this.

`WorkerManagerProofs`: `Spec => []IndInv` with

    IndInv == TypeOK /\ LockInv /\ ProcessInv /\ MapInv

and from it `TypeOK`, `MapsAgree`, `IdleIsFree`, `OnePerCommand`. The maps alone
are not inductive. A start writes the maps before it marks the worker RUNNING, so
an idle worker may have a channel; that is harmless only because the subscriber
then holds `wm.Mutex` (`LockInv`) and nobody can choose the worker again.
`findWorkerForChannel` deletes the mappings of an unavailable worker, and does it
wrongly for the state of others unless such a worker has no channel at all
(`ProcessInv`). One lemma per conjunct of `IndInv` shows that every action keeps
it; lemmas on `RemoveTask` and on the assignment carry the argument for the maps.
On top of it `Spec => []ExecInv`, about what is on the sockets and in the workers,
gives `OneChannelPerWorker` and `NoOrphan`: what was started is in the maps or has
a stop behind it on the socket (`TrackInv`), before a start of another channel comes
the stop of what was started (`ChannelInv`), a task is started at one place, after
it was sent and before an answer (`OnceInv`), and the subscriber between the maps
and the socket agrees with both (`SubInv`).

`QueueKeysProofs`: facts about names, for every command, channel and region:
`ConsumedNeverAged` and `ConsumedNeverYields` (no key that `isValidQueueKey`
accepts matches the cleaner's pattern or makes a pod yield), `NativeConsumesWeb`
(native pods ask for and accept the queue of every freestyle task),
`ColonNeverConsumed` (a key with a longer channel is rejected unless the channel
starts with a command or "web"), `MetadataNeverConsumed` (every record, lease,
processing list and dedupe mark is rejected). Then `Spec => [](TypeOK /\ RouteInv)`:
every list holds only tasks that belong there, every plan only accepted keys,
every held task came from a key its holder accepts; from it `TypeOK`,
`NoMetadataFetched` and `NativeStaysNative`. What a pod has popped and not yet
claimed, and what a cleaner is about to recover, are part of `RouteInv`.

`TaskPipeProofs`: `Spec => []Inv`, for any number of channels, tasks and SDK
errors, with

    Inv == TypeOK /\ Control /\ OnceInv /\ LeftInv /\ FailInv /\ RunInv /\ TaskInv /\ CalmInv

and from it `ReportedOnce`, `SinksMatchTasks` and `OnItsChannel`. `Control` says
where each of the five threads can be, with which task and on whose behalf, that a
callback runs only once its sink has ended, and that a task being started is not
entered yet. `OnceInv`, `LeftInv`, `FailInv` and `RunInv` say what makes an end
unique: what left a channel does not come back, an error finds the kinds of all
tasks it fails in what it read before it took the lock, and a sink that runs has its
task or a thread that is about to stop it. `CountInv(t)`, of every task, ties the
number of messages to those who may still send one. A command, the callback of the
task's sink and an SDK error are each good for one (`BoundInv`), none comes before
the task has left, and only one if nobody met another (`OnlyInv`); and a task that
has left was reported, given up silently, or is in the hands of a thread that owes
the message (`HeardInv`). `ReportedOnce` alone would not survive a step, since it
does not say who may still send or has to.
`CalmInv` is about channels and sinks and holds while `raced` is empty: all live
tasks are on one channel, a channel in use has an entry, the client is in it until
the thread that removed the entry leaves, and the sink of each kind runs exactly
while it has tasks, but for the handler between the sink and the map. It needs the
message count too: a start for another channel is ruled out only because the manager
has heard of the end of everything live (`SameChannel`, from `ManagerSends` and
`CountInv`). The step is proved action by action, in four groups (places of threads,
ends, messages, channels and sinks), from a lemma per action on what it changes.
`NeverWaitInCircle` is the part of `CommandsReturn` that needs no fairness: in any
set of the five threads and the capture thread there is one that waits for none of
the others. `WaitsFor` has every wait of the worker: the join of the capture thread,
the joins and the mutexes of `RecordingSink::stop()` and `StreamingSink::stop()`, a
start that waits for the last recording's coordinator, and `state_mutex_`, which the
handler keeps while it joins the capture thread. The two exceptions are stated in
`NoCircle`: a capture thread that hangs, and a coordinator and a streaming thread that
both take a channel down, which then join each other. Besides `Inv` it needs that
whoever is at a join is the one the sink has let in (`StopperInv`). `OneRemoves` says
that the second exception takes a race: until then only one thread takes a channel
down.

`RecordingSinkProofs`: `Spec => []SinkInv`, for any set of callers and any sizes,
from which `TypeOK`, `QuietWhenIdle`, `WriteBeforeClose`, and then, step by step,
that the sink implements `Session`. Beside the type `SinkInv` says that one thread
at a time is past the entry of `stop()` and none is then in `start()` (`LockInv`),
which workers exist at each position of `stop()` and which sessions are closed
(`SessionInv`), and that the audio worker ends only when the end was asked for, its
queue is empty and no frame is between the check and the push (`DrainInv`). The
last one is what the refinement needs: without it the close could throw a frame
away. `NeverStuck` is the part of `StopReturns` that needs no fairness: the worker
that a `stop()` joins is able to take its next step (the guards of its actions are
spelled out in `AudioCanGoOn`, `VideoCanGoOn` and `CoordCanGoOn`, as ENABLED is out
of reach), and a `stop()` that waits for another one waits for a thread in the
middle of it. It follows from `WakeInv`, the video worker does not sleep after its
notification, and `CoordInv`, the coordinator calls only `stop()`, from its callback.

`StreamingSinkProofs`: `Spec => []SinkInv`, from which `TypeOK`, `EndIsReported`,
`RetryBudget` and `NoReplay`, for any set of callers and any number of retries,
sessions and outages. Beside the three properties `SinkInv` says who holds
`lifecycleMutex_` and that whoever cleans up does so after the join (`LockInv`),
where the publishing thread is while the transport is open (`OutputInv`), that
nothing is reported before `Decide` and that a thread past its loop that nobody
stopped has a reason to report (`ReportInv`), and that the number of connection
attempts since the last success is tied to the loop variable at every position
of the thread (`BudgetInv`). `LifecycleAlwaysSound` adds that `active_` holds exactly
while the thread publishes, that `lifecycleMutex_` is never left behind, and that
`stop()` releases only what no thread uses.

`SegmentFilesProofs`: for any number of segments of any length and a crash
anywhere, `SegmentsTypeOK`, `CrashCostsOne` and `PlaylistIsTrue` from `FilesInv`,
which adds what the video thread found at each step of a switch (`StepInv`) and
that the current segment is the only one that is written and has its final name
exactly when it is complete (`CurrentInv`). `FilesAreTrue`, the part of
`MetadataIsTrue` about each file, follows from `MetadataInv`: while a recording
goes on the session names only complete and closed segments, and an entry outside
`unread` has the size and the checksum of its file. The rest of `MetadataIsTrue`,
that the saved total is the sum of the lengths if no `stat` or checksum failed, is
`MetadataAlwaysTrue`, from `TotalInv`: the running total is the sum over the files of
the session at every moment, so that an append, the replacement of an entry and a
failed save each account for what they change. The sum is a fold of the community
modules, of which the library has no theorem. The lemmas `SumUnfolds` to
`SumOfOneMore` say that it exists for finite sets, does not depend on the order, and
grows by the number that is added. The prover takes no induction rule, so each is an
argument about a least counterexample: a set of smallest size, or a least number, for
which it fails, which `WellFoundedInduction` provides without an operator parameter.

`MediaProofs`, for the machines below the sinks:

* `PtsAlwaysGrow`, that the timestamps of each stream increase, those of published
  video by a millisecond, when RTC times repeat, go back or jump. The exception is
  stated in `Grows`: after a negative timestamp of an encoded recording, which the
  code takes for none, the next one follows the RTC time (section 5). `ClockInv` adds that a stream with a timestamp has an origin, that the
  only negative timestamp is a first one before the origin, that it is exactly the
  distance to the origin (so it cannot be mistaken for the mark -1, as a tick is
  longer than one), and that the audio timeline is ahead of what was written. A
  lemma `NoRestart` shows that `detectStreamRestart` never fires.
* `MixAlwaysSound`: no sample is mixed twice or outside its frame, whatever is
  pushed while a frame is consumed. `MixerInv` bounds the queues and puts the
  timeline behind the last frame that was mixed.
* `PassthroughAlwaysSound`, from `PassInv`: the file of a context is not in the
  metadata yet, and has its first packet from the moment it is open. "Complete" is
  about the trailer and the sound that was held back when `stop()` came; what was
  lost before leaves no trace in the metadata (section 5).
* `RegionsAlwaysFit`, for every canvas that `initialize()` accepts and any number
  of users. The lemmas are about the integer divisions: rounding to even keeps
  order and bounds, two cuts of one side of the canvas are ordered like their
  indices, hence cells in different columns or rows are apart, and a scaled frame
  stays in its region. `CompositorInv` adds only the facts about the configuration
  that `initialize()` has checked. That among the numbers of columns one has the
  best score (`BestExists`) is again an argument about a least counterexample.
* `LayoutAlwaysFits`: the layout has only expected users, or at most `maxUsers` of
  them where anyone is taken. `DetectorInv` says so of the users who are tracked;
  the detection thread removes users and only a frame that `Accepts` takes adds one.
* `HeldUpNowhereElse`, the part of `SnapshotStops` that needs no fairness. When
  `stop()` joins the capture thread, that thread can go on, or it sleeps because the
  notification fell between its test and its wait, or the SDK thread composes with
  `frameMutex_` held, which takes a composite snapshot. So the two states that
  `SnapshotStops` leaves out are the only ones. `SnapshotInv` says who holds
  `frameMutex_` and that a capture thread which tested before the request and sleeps
  after it is the one whose notification was lost.

Every invariant and action property of the passing runs is proved. Only
model-checked: everything under fairness (`StopIsExecuted`, `CapacityReturns`,
`Served`, `CommandsReturn`, the two `StopReturns`, `SnapshotStops`, `LayoutSettles`),
which is beyond the prover, as is ENABLED. The invariants of this section that no
run lists (`NoCircle`, `NoStopIsStuck`, `LifecycleSound`, `LayoutFits`,
`HeldUpOnlyThere`) are safety facts that TLC found true on the instances of the runs
before they were proved.

## 5. Disagreements met while modelling

Beside the three runs above, the models reach, and their properties name or step
around, the following. Each is named where a comment or condition of a module mentions it.

Task store and routing:

* A completion overtakes `UpdateTaskWorker`, whose stale write makes a finished
  task PROCESSING in no list (`redis_queue.go:378`; the design says "No task
  loss").
* A stop is acknowledged before the start has recorded its worker, and the task
  runs on (`manager.go:1313`); a stop takes a task that ended meanwhile back to
  STOPPING (`StopMark`); a stop addressed to a pod that dies stays in its list.
* Two surviving pods read the processing list of a dead one before either recovers
  from it; each pushes the entry, which is then in the queue twice
  (`redis_queue.go:552-625`: the push does not depend on what LREM removed).
* Two requests with one dedupe key are both accepted when both check before either
  writes.
* A recovered freestyle task waits in a queue that web pods do not read
  (`redis_queue.go:601`): without a native pod it waits for ever, which is why
  `Served` asks for one.
* Proved: the cleaner of aged tasks looks at no queue that pods consume, a pod
  never yields to another region (the comment at `manager.go:982` says it will),
  native pods consume the queues of freestyle tasks, no pod consumes the queue of
  a channel with ':' (which the validation accepts) unless the channel starts with
  a command or "web". Such a task is timed out only if its key happens to match
  the cleaner's pattern; `Served` leaves these channels out.

Worker manager:

* `wm.Mutex` and `worker.Mutex` are taken in opposite orders (`manager.go:1207`,
  `:427`), and once twice by the same goroutine (`:1212`). A recording that is
  started on a channel whose snapshot ends at that moment can stop the pod for good.
* After an unrecoverable error a worker stays RUNNING without tasks
  (`manager.go:456`), and so it does when the worker drops a start without a
  message. With the lock cycle, these are the exceptions of `CapacityReturns`;
  `task_dispatching_design.md:169` promises a worker that "becomes IDLE when no tasks
  remain", `:171` gives a snapshot and a recording on one channel as the test. A dead worker stays a zombie that signal 0 reaches and is
  never replaced (`:296`).

Command loop:

* A stop looks its task up without erasing it (`task_pipe.cpp:464-466`). When the
  recording reaches its duration, or the stream ends, before the stop has released
  the task, the callback and the stop both report it (`:436`, `:519`); with an SDK
  error at the same time there are three messages. `ReportedOnce` bounds them.
* A task that is entered while another thread, which found the channel empty, is
  about to take it down is erased with the channel's entry (`:703-708`) and never
  reported.
* Two recordings of one channel share the sink: when it expires the first task is
  reported twice and the second never (`task_pipe.cpp:415`). The manager's
  `OnePerCommand` keeps this from happening.
* After an SDK error the client stays connected, and the next task's connect
  answers "Already connected" (`rtc_client.cpp:100`).
* A start that arrives while another thread cleans the same channel up uses sinks
  that are being stopped; the coordinator and the publishing thread that clean up
  at the same time join each other and never return.
* A recording that reached its duration stays unfinalised while the channel has
  other tasks; connection failures of snapshot and recording tasks are not
  reported.
* The last snapshot is stopped with `state_mutex_` held (`task_pipe.cpp:293-299`);
  when its capture thread hangs, which the run `snapshot` and `SnapshotStops` show to
  be possible, every thread that asks for the mutex waits for ever. A stop without a
  task ID reads the ID from the map entry it has just erased (`:277-278`).

Sinks and media:

* Streaming: a `stop()` overtaken by another thread's `start()` joins a thread that
  nobody told to stop, and waits until the stream ends by itself; a late
  `onAudioFrame` may set `failed_` in the next session; a video frame that waits
  when the connection breaks is sent after the reconnect (`pendingVideo_` is kept,
  only the mixer is reset), so `NoReplay` is about audio.
* Snapshot: `stop()` notifies under `mutex_`, the capture thread waits with
  `frameMutex_`, so a notification between its test and its wait is lost. An SDK thread that
  holds `frameMutex_` asks for the detector's mutex, whose holder, when it
  composes on a change of the layout, asks for `frameMutex_`.
* Segments: in a switch the rename and the playlist come before the trailer
  (`recording_sink.cpp:2057`; at the end of a recording it is the other way round,
  as the comment at `:283` wants); after a failed setup every later rotation fails
  at the rename; `initialize()` and `start()` may format prefixes that differ by a
  second.
* Metadata: a `stat` that fails when a segment is appended leaves the total wrong for
  good, because a known entry is replaced without being counted
  (`metadata_manager.cpp:176-187`, `:215`); a file whose `stat` fails at the append and
  at the check is "verified" with size 0.
* Timestamps: `detectStreamRestart` compares with a state that
  `updateStreamState` has just overwritten, and never fires. `ensureMonotonicPTS`
  takes every negative timestamp for none ("First frame: use directly",
  `recording_sink.cpp:1945`): frames older than the origin that the other stream has
  set, and that repeat, get equal timestamps, where
  `tests/recording_thread_tests.cpp:84` expects growing ones of the file.
* Compositor and detector: `cleanup()` frees the detector while an SDK thread may
  be inside `addUserFrame` (`video_compositor.cpp:418`); the interval since the
  last composition is unsigned and underflows when another thread composed after
  the time was taken (`:119`); users who left count against `maxUsers` until they
  are dropped.
* Passthrough: samples are erased before the write that may fail
  (`recording_sink.cpp:2826-2838`), a conversion that fails drops them (`:2771`), and
  the caller only logs it (`:600`); the file is called complete all the same, since
  that is decided by header, flush and trailer (`:2639`). The same holds for video
  packets that could not be written. A failed header is never retried; `start()` lets frames in before it
  may fail, so a file may be opened that nobody closes.

## 6. Not modelled, and what is left

Left out for good: command-line and configuration parsing, logging, HTTP and JSON
layers (the vendored `nlohmann/json.hpp`, 25 thousand lines, is more than half of
the C++ code), FFmpeg and SDK calls, demo programs, pixels and sample values, and
stateless validation of strings.

Left out so far, each with its reason in `PROJECT.json`: webhook notifier, web
recorder proxy, uploader, health manager and socket framing; several user contexts
at once in a recording, which the tasks of `TaskPipe` never ask for; MP4 files of
decoded video, whose life is that of one segment; reading metadata back, which has
no caller.

What remains: `WebhookNotifier`, with lossy events, batches, retries and delivered
marks.

## 7. Running

    tlc -workers 2 -config MCRecordingSink.cfg MCRecordingSink
    tlapm StreamingSinkProofs.tla
