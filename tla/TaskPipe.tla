------------------------------- MODULE TaskPipe -------------------------------
(***************************************************************************)
(* The command loop of a worker (src/src/task_pipe.cpp) and the threads    *)
(* that end tasks beside it: the handler of the socket's commands, the     *)
(* recording coordinator and the streaming thread in their completion      *)
(* callbacks, the SDK thread that reports an unrecoverable error, and the  *)
(* main thread in stop().  Each section under state_mutex_ is one step,    *)
(* but for the one that joins the capture thread with the mutex held; a    *)
(* call that joins a thread is a step that waits.  The sinks appear by     *)
(* what stop() of RecordingSink, SnapshotSink and StreamingSink waits for, *)
(* the RTC client by the channel it is connected to.                       *)
(***************************************************************************)
EXTENDS Naturals, FiniteSets

CONSTANTS
    MaxChannels,    \* bound: channels
    MaxTasks,       \* bound: start commands
    MaxErrors       \* bound: unrecoverable SDK errors

ASSUME PipeAssumption ==
    MaxChannels \in Nat /\ MaxTasks \in Nat /\ MaxErrors \in Nat

VARIABLES
    begun,          \* start commands the manager has sent: the tasks are 1..begun
    kind, chan,     \* what each of them is, and its channel
    active,         \* tasks in the active_tasks of channel_states_
    conn,           \* channel_states_: "none" (no entry), "listed" or "connected", per channel
    rtc,            \* the channel the RTC client is connected to, or None
    rec, recTask,   \* the recording sink: "off", "on" or "expired"; its config_.taskId
    recStopper,     \* the thread in RecordingSink::stop(), or "none"
    snap,           \* the snapshot sink: "off", "on", or "stuck": its capture thread hangs
    stream, streamTask, \* the streaming sink: "off", "ready", "on" or "ended"
    streamStopper,  \* the thread that joins in StreamingSink::stop(), or "none"
    th,             \* the threads: where each is, with which task, and its locals
    sock,           \* sockfd_: "open", "closed", or "down" after stop()
    errors,         \* SDK errors so far
    sent,           \* completion messages sent for each task
    shared,         \* tasks on a channel where two recordings shared the sink
    refused,        \* tasks that were given up without a message
    met,            \* tasks that two threads worked on at the same time
    raced,          \* those, and the ones started while another thread ended something
    broken          \* an SDK error left the client connected

jobs == <<begun, kind, chan>>
sinks == <<rec, recTask, recStopper, snap, stream, streamTask, streamStopper>>
state == <<active, conn>>
notes == <<shared, refused, broken>>
vars == <<jobs, state, rtc, sinks, th, sock, errors, sent, notes, met, raced>>

Kinds == {"record", "snapshot", "stream"}
None == 0
Channels == 1..MaxChannels
Tasks == 1..MaxTasks
Begun == 1..begun
Threads == {"handler", "coordinator", "streamer", "sdk", "main"}
Idle == [pc |-> "idle", task |-> None, then |-> "idle", send |-> FALSE, was |-> FALSE,
         had |-> {}]

OnChannel(c) == {t \in active : chan[t] = c}
OfKind(k) == {t \in active : kind[t] = k}

Init ==
    /\ begun = 0 /\ kind = [t \in Tasks |-> "none"] /\ chan = [t \in Tasks |-> None]
    /\ active = {} /\ conn = [c \in Channels |-> "none"]
    /\ rtc = None
    /\ rec = "off" /\ recTask = None /\ recStopper = "none"
    /\ snap = "off"
    /\ stream = "off" /\ streamTask = None /\ streamStopper = "none"
    /\ th = [x \in Threads |-> Idle]
    /\ sock = "open" /\ errors = 0
    /\ sent = [t \in Tasks |-> 0]
    /\ shared = {} /\ refused = {} /\ met = {} /\ raced = {} /\ broken = FALSE

At(x, pc) == th[x].pc = pc
Go(x, pc) == th' = [th EXCEPT ![x] = IF pc = "idle" THEN Idle ELSE [@ EXCEPT !.pc = pc]]
Done(x) == Go(x, "idle")
Busy(x) == ~At(x, "idle")

\* The handler is inside a start command.
Starting ==
    \/ th["handler"].pc \in {"ready", "connect", "register", "begin"}
    \/ th["handler"].then = "ready"

\* Ghosts: tasks that two threads work on, or that are held while an SDK error
\* is handled; and the task that is started while another thread ends
\* something.
Meeting ==
    {t \in Tasks : \E x \in Threads : \E y \in Threads \ {x} :
        th[x].task = t /\ Busy(y) /\ (th[y].task = t \/ y = "sdk")}
Racing ==
    Meeting \cup {t \in Tasks : /\ th["handler"].task = t /\ Starting
                                /\ \E y \in Threads \ {"handler"} : Busy(y)}

\* state_mutex_ is free: the handler keeps it while it stops the last snapshot.
StateFree == ~(At("handler", "stopSnap") /\ th["handler"].then = "release")

\* A thread in stop() of a sink, and one in cleanupConnection() or stop()
\* after the entry of the channel is gone
Joining == {"stopSnap", "stopRec", "joinRec", "stopStream", "joinStream"}
Removing(x) == At(x, "disconnect") \/ (th[x].pc \in Joining /\ th[x].then = "stopStream")

\* sendCompletionMessage(): nothing is sent once the socket is closed.
Send(T) == sent' = [t \in Tasks |-> IF sock = "open" /\ t \in T THEN sent[t] + 1 ELSE sent[t]]

-----------------------------------------------------------------------------
(* start commands *)

\* The manager keeps a worker on one channel: it sends no start while it
\* counts a task of another channel as running.  Channels are numbered in the
\* order in which they are first used.
ManagerSends(c) ==
    /\ begun < MaxTasks
    /\ c = 1 \/ \E u \in Begun : chan[u] = c - 1
    /\ \A u \in Begun : chan[u] = c \/ sent[u] > 0

\* The three start handlers.  Streaming refuses while one is active, and
\* reaps a completed publishing thread first.
Start(k, c) ==
    LET t == begun + 1
    IN /\ sock = "open" /\ At("handler", "idle") /\ ManagerSends(c)
       /\ begun' = t
       /\ kind' = [kind EXCEPT ![t] = k] /\ chan' = [chan EXCEPT ![t] = c]
       /\ \/ /\ k = "stream" /\ OfKind("stream") # {}
             /\ Send({t}) /\ UNCHANGED th
          \/ /\ k = "stream" /\ OfKind("stream") = {}
             /\ th' = [th EXCEPT !["handler"] = [Idle EXCEPT !.pc = "stopStream", !.task = t,
                                                             !.then = "ready", !.send = TRUE]]
             /\ UNCHANGED sent
          \/ /\ k # "stream"
             /\ th' = [th EXCEPT !["handler"] = [Idle EXCEPT !.pc = "connect", !.task = t,
                                                             !.send = (k = "record")]]
             /\ UNCHANGED sent
       /\ UNCHANGED <<state, rtc, sinks, sock, errors, shared, refused, broken>>

\* StreamingSink::initialize(); a refused configuration is reported.
Ready ==
    LET t == th["handler"].task
    IN /\ At("handler", "ready")
       /\ \/ stream' = "ready" /\ Go("handler", "connect") /\ UNCHANGED sent
          \/ UNCHANGED stream /\ Send({t}) /\ Done("handler")
       /\ UNCHANGED <<jobs, state, rtc, rec, recTask, recStopper, snap, streamTask,
                      streamStopper, sock, errors, shared, refused, broken>>

\* ensureConnected(): a client that is connected already says so, whatever
\* the channel.  Only streaming reports that the connection failed.
Connect ==
    LET t == th["handler"].task
    IN /\ At("handler", "connect")
       /\ \/ /\ conn[chan[t]] = "connected" /\ Go("handler", "register")
             /\ UNCHANGED <<conn, rtc, refused, sent, stream>>
          \/ /\ conn[chan[t]] # "connected"
             /\ rtc' = IF rtc = None THEN chan[t] ELSE rtc
             /\ conn' = [conn EXCEPT ![chan[t]] = "connected"]
             /\ Go("handler", "register")
             /\ UNCHANGED <<refused, sent, stream>>
          \/ /\ conn[chan[t]] # "connected" /\ rtc = None
             /\ IF kind[t] = "stream"
                THEN Send({t}) /\ stream' = "off" /\ UNCHANGED refused
                ELSE refused' = refused \cup {t} /\ UNCHANGED <<sent, stream>>
             /\ Done("handler")
             /\ UNCHANGED <<conn, rtc>>
       /\ UNCHANGED <<jobs, active, rec, recTask, recStopper, snap, streamTask, streamStopper,
                      sock, errors, shared, broken>>

\* The task is entered under the lock; a second recording of the channel
\* shares the sink.
Register ==
    LET t == th["handler"].task
    IN /\ At("handler", "register")
       /\ active' = active \cup {t}
       /\ conn' = [conn EXCEPT ![chan[t]] = IF @ = "none" THEN "listed" ELSE @]
       /\ IF kind[t] = "record" /\ \E u \in OnChannel(chan[t]) : kind[u] = "record"
          THEN Done("handler") /\ shared' = shared \cup OnChannel(chan[t]) \cup {t}
          ELSE Go("handler", "begin") /\ UNCHANGED shared
       /\ UNCHANGED <<jobs, rtc, sinks, sock, errors, sent, refused, broken>>

\* initialize() and start() of the task's sink succeed.  A recording waits
\* for the coordinator of the last one.
Begin ==
    LET t == th["handler"].task
    IN /\ At("handler", "begin")
       /\ \/ /\ kind[t] = "record" /\ rec = "off" /\ recStopper = "none"
             /\ At("coordinator", "idle")
             /\ rec' = "on" /\ recTask' = t
             /\ UNCHANGED <<snap, stream, streamTask>>
          \/ /\ kind[t] = "snapshot" /\ snap' = IF snap = "off" THEN "on" ELSE snap
             /\ UNCHANGED <<rec, recTask, stream, streamTask>>
          \/ /\ kind[t] = "stream" /\ stream = "ready" /\ streamStopper = "none"
             /\ stream' = "on" /\ streamTask' = t
             /\ UNCHANGED <<rec, recTask, snap>>
       /\ Done("handler")
       /\ UNCHANGED <<jobs, state, rtc, recStopper, streamStopper, sock, errors, sent, shared,
                      refused, broken>>

\* Mutant of BeginFails: the failed task is reported and not released.
BeginFailsKept ==
    /\ At("handler", "begin")
    /\ Go("handler", "send")
    /\ UNCHANGED <<jobs, state, rtc, sinks, sock, errors, sent, notes>>

\* They fail: a recording that was not finalised, or any other reason.  A
\* snapshot that failed is released and not reported.
BeginFails ==
    LET t == th["handler"].task
    IN /\ At("handler", "begin")
       /\ kind[t] = "snapshot" => snap = "off"
       /\ th' = [th EXCEPT !["handler"].pc = "release"]
       /\ refused' = IF kind[t] = "snapshot" THEN refused \cup {t} ELSE refused
       /\ UNCHANGED <<jobs, state, rtc, sinks, sock, errors, sent, shared, broken>>

-----------------------------------------------------------------------------
(* stop commands *)

\* Mutant of Stop: the sinks are left to cleanupConnection().
StopLater(t) ==
    /\ sock = "open" /\ At("handler", "idle") /\ t \in active
    /\ th' = [th EXCEPT !["handler"] = [Idle EXCEPT !.pc = "release", !.task = t, !.send = TRUE]]
    /\ UNCHANGED <<jobs, state, rtc, sinks, sock, errors, sent, notes>>

\* The task is looked up under the lock.  A snapshot is erased there, and the
\* last one stops its sink before the lock is given up; the last recording of
\* a channel stops its sink first, and like a stream it stays entered.
Stop(t) ==
    LET others == active \ {t}
        last == \A u \in others : ~(kind[u] = "record" /\ chan[u] = chan[t])
        at == CASE kind[t] = "record" /\ last -> "stopRec"
                [] kind[t] = "stream" -> "stopStream"
                [] kind[t] = "snapshot" /\ snap # "off"
                      /\ ~\E u \in others : kind[u] = "snapshot" -> "stopSnap"
                [] OTHER -> "release"
    IN /\ sock = "open" /\ At("handler", "idle") /\ t \in active
       /\ th' = [th EXCEPT !["handler"] = [Idle EXCEPT !.pc = at, !.task = t, !.then = "release",
                                                       !.send = TRUE]]
       /\ active' = IF kind[t] = "snapshot" THEN others ELSE active
       /\ UNCHANGED <<jobs, conn, rtc, sinks, sock, errors, sent, notes>>

-----------------------------------------------------------------------------
(* Callbacks of the sinks *)

\* The maximal duration of the recording is over, for the task it began with.
Expire ==
    /\ rec = "on" /\ recStopper = "none" /\ At("coordinator", "idle")
    /\ rec' = "expired"
    /\ th' = [th EXCEPT !["coordinator"] = [Idle EXCEPT !.pc = "find", !.task = recTask,
                                                        !.send = TRUE]]
    /\ UNCHANGED <<jobs, state, rtc, recTask, recStopper, snap, stream, streamTask,
                   streamStopper, sock, errors, sent, shared, refused, broken>>

\* Publishing failed or reached its duration, and nobody asked for the end.
StreamEnds ==
    /\ stream = "on" /\ streamStopper = "none"
    /\ stream' = "ended"
    /\ th' = [th EXCEPT !["streamer"] = [Idle EXCEPT !.pc = "find", !.task = streamTask,
                                                     !.send = TRUE]]
    /\ UNCHANGED <<jobs, state, rtc, rec, recTask, recStopper, snap, streamTask, streamStopper,
                   sock, errors, sent, shared, refused, broken>>

\* Both callbacks look their task up; the coordinator reports it either way.
Find(x) ==
    /\ x \in {"coordinator", "streamer"} /\ At(x, "find") /\ StateFree
    /\ IF th[x].task \in active THEN Go(x, "release")
       ELSE IF x = "coordinator" THEN Go(x, "send") ELSE Done(x)
    /\ UNCHANGED <<jobs, state, rtc, sinks, sock, errors, sent, notes>>

-----------------------------------------------------------------------------
(* releaseConnection() and cleanupConnection(), run by any of the threads *)

\* The task leaves its channel; whether the channel is empty is decided here,
\* and acted on after the lock was given up.
Release(x) ==
    LET t == th[x].task
    IN /\ At(x, "release") /\ StateFree
       /\ active' = active \ {t}
       /\ Go(x, IF conn[chan[t]] # "none" /\ OnChannel(chan[t]) \subseteq {t}
                THEN "cleanup" ELSE "send")
       /\ UNCHANGED <<jobs, conn, rtc, sinks, sock, errors, sent, notes>>

\* The entry of the channel is erased under the lock, with any task that was
\* entered since; the sinks are stopped after it.
Cleanup(x) ==
    LET c == chan[th[x].task]
    IN /\ At(x, "cleanup") /\ StateFree
       /\ IF conn[c] = "none"
          THEN Go(x, "send") /\ UNCHANGED <<active, conn, refused>>
          ELSE /\ th' = [th EXCEPT ![x].pc = "stopSnap", ![x].then = "stopStream",
                                   ![x].was = (conn[c] = "connected")]
               /\ active' = active \ OnChannel(c)
               /\ conn' = [conn EXCEPT ![c] = "none"]
               /\ refused' = refused \cup OnChannel(c)
       /\ UNCHANGED <<jobs, rtc, sinks, sock, errors, sent, shared, broken>>

\* Where a thread goes after SnapshotSink::stop().
AfterSnap(x) ==
    CASE th[x].then = "stopStream" -> "stopRec"
      [] th[x].then = "stopSnap" -> "failStream"
      [] OTHER -> th[x].then

\* SnapshotSink::stop() returns when it has joined the capture thread.
StopSnap(x) ==
    /\ At(x, "stopSnap") /\ snap # "stuck"
    /\ snap' = "off"
    /\ Go(x, AfterSnap(x))
    /\ UNCHANGED <<jobs, state, rtc, rec, recTask, recStopper, stream, streamTask,
                   streamStopper, sock, errors, sent, notes>>

\* The capture thread waits for ever: for a frameMutex_ that is not given up,
\* or for a notification that it has missed (module SnapshotSink).
CaptureHangs ==
    /\ snap = "on" /\ snap' = "stuck"
    /\ UNCHANGED <<jobs, state, rtc, rec, recTask, recStopper, stream, streamTask,
                   streamStopper, th, sock, errors, sent, notes>>

\* Mutant of StopRec: the coordinator waits like any other thread.
StopRecWaits(x) ==
    /\ At(x, "stopRec") /\ recStopper = "none"
    /\ IF rec = "off" /\ At("coordinator", "idle")
       THEN Go(x, th[x].then) /\ UNCHANGED recStopper
       ELSE Go(x, "joinRec") /\ recStopper' = x
    /\ UNCHANGED <<jobs, state, rtc, rec, recTask, snap, stream, streamTask, streamStopper,
                   sock, errors, sent, notes>>

\* RecordingSink::stop(): one at a time, and the coordinator never waits for
\* the thread that waits for it.
StopRec(x) ==
    /\ At(x, "stopRec")
    /\ \/ /\ recStopper # "none" /\ x = "coordinator"
          /\ Go(x, th[x].then) /\ UNCHANGED recStopper
       \/ /\ recStopper = "none" /\ rec = "off" /\ At("coordinator", "idle")
          /\ Go(x, th[x].then) /\ UNCHANGED recStopper
       \/ /\ recStopper = "none" /\ ~(rec = "off" /\ At("coordinator", "idle"))
          /\ Go(x, "joinRec") /\ recStopper' = x
    /\ UNCHANGED <<jobs, state, rtc, rec, recTask, snap, stream, streamTask, streamStopper,
                   sock, errors, sent, notes>>

JoinRec(x) ==
    /\ At(x, "joinRec")
    /\ x = "coordinator" \/ At("coordinator", "idle")
    /\ rec' = "off" /\ recTask' = None /\ recStopper' = "none"
    /\ Go(x, th[x].then)
    /\ UNCHANGED <<jobs, state, rtc, snap, stream, streamTask, streamStopper, sock,
                   errors, sent, notes>>

\* Where a thread goes after StreamingSink::stop().
AfterStream(x) == IF th[x].then = "stopStream" THEN "disconnect" ELSE th[x].then

\* StreamingSink::stop(): its own thread returns at once, others take
\* lifecycleMutex_ and join it.
StopStream(x) ==
    /\ At(x, "stopStream")
    /\ \/ x = "streamer" /\ Go(x, AfterStream(x)) /\ UNCHANGED streamStopper
       \/ /\ x # "streamer" /\ streamStopper = "none"
          /\ streamStopper' = x /\ Go(x, "joinStream")
    /\ UNCHANGED <<jobs, state, rtc, rec, recTask, recStopper, snap, stream, streamTask, sock,
                   errors, sent, notes>>

JoinStream(x) ==
    /\ At(x, "joinStream") /\ At("streamer", "idle")
    /\ stream' = "off" /\ streamTask' = None /\ streamStopper' = "none"
    /\ Go(x, AfterStream(x))
    /\ UNCHANGED <<jobs, state, rtc, rec, recTask, recStopper, snap, sock, errors,
                   sent, notes>>

\* Mutant of Disconnect: the client stays in the channel.
DisconnectForgotten(x) ==
    /\ At(x, "disconnect")
    /\ Go(x, "send")
    /\ UNCHANGED <<jobs, state, rtc, sinks, sock, errors, sent, notes>>

\* The client is left if the channel's entry said it was connected.
Disconnect(x) ==
    /\ At(x, "disconnect")
    /\ rtc' = IF th[x].was THEN None ELSE rtc
    /\ broken' = (broken /\ rtc' # None)
    /\ Go(x, "send")
    /\ UNCHANGED <<jobs, state, sinks, sock, errors, sent, shared, refused>>

Report(x) ==
    /\ At(x, "send")
    /\ IF th[x].send THEN Send({th[x].task}) ELSE UNCHANGED sent
    /\ Done(x)
    /\ UNCHANGED <<jobs, state, rtc, sinks, sock, errors, notes>>

-----------------------------------------------------------------------------
(* handleSdkError(), on a thread of the SDK *)

\* Which sinks had tasks is read before the lock is taken for the rest.
SdkError ==
    /\ rtc # None /\ errors < MaxErrors /\ At("sdk", "idle") /\ StateFree
    /\ errors' = errors + 1
    /\ th' = [th EXCEPT !["sdk"] = [Idle EXCEPT !.pc = "fail",
                                                !.had = {kind[t] : t \in active}]]
    /\ UNCHANGED <<jobs, state, rtc, sinks, sock, sent, notes>>

\* Every active task is failed and all state cleared; the client is not left.
\* The sinks that had tasks are stopped afterwards.
FailAll ==
    LET had == th["sdk"].had
        next == IF "snapshot" \in had THEN "stopSnap" ELSE "failStream"
    IN /\ At("sdk", "fail") /\ StateFree
       /\ Send(active)
       /\ active' = {} /\ conn' = [c \in Channels |-> "none"]
       /\ th' = [th EXCEPT !["sdk"].pc = IF "record" \in had THEN "stopRec" ELSE next,
                           !["sdk"].then = next]
       /\ broken' = TRUE
       /\ UNCHANGED <<jobs, rtc, sinks, sock, errors, shared, refused>>

FailStream ==
    /\ At("sdk", "failStream")
    /\ IF "stream" \in th["sdk"].had
       THEN th' = [th EXCEPT !["sdk"].pc = "stopStream", !["sdk"].then = "idle"]
       ELSE Done("sdk")
    /\ UNCHANGED <<jobs, state, rtc, sinks, sock, errors, sent, notes>>

-----------------------------------------------------------------------------
(* The end of the worker *)

\* The loop ends because the manager closed the socket, or in stop().
Hangup ==
    /\ sock = "open" /\ At("handler", "idle")
    /\ sock' = "closed"
    /\ UNCHANGED <<jobs, state, rtc, sinks, th, errors, sent, notes>>

\* TaskPipe::stop(), once the loop has ended.
Shutdown ==
    /\ sock = "closed"
    /\ sock' = "down"
    /\ active' = {} /\ conn' = [c \in Channels |-> "none"]
    /\ th' = [th EXCEPT !["main"] = [Idle EXCEPT !.pc = "stopSnap", !.then = "stopStream",
                                                 !.was = TRUE]]
    /\ UNCHANGED <<jobs, rtc, sinks, errors, sent, notes>>

-----------------------------------------------------------------------------
Handle == Ready \/ Connect \/ Register \/ Begin \/ BeginFails
EndStep(x) ==
    \/ Find(x) \/ Release(x) \/ Cleanup(x) \/ StopSnap(x) \/ StopRec(x) \/ JoinRec(x)
    \/ StopStream(x) \/ JoinStream(x) \/ Disconnect(x) \/ Report(x)
Fail == FailAll \/ FailStream

Step ==
    \/ \E k \in Kinds, c \in Channels : Start(k, c)
    \/ \E t \in Tasks : Stop(t)
    \/ Handle \/ Expire \/ StreamEnds \/ CaptureHangs \/ SdkError \/ Fail \/ Hangup \/ Shutdown
    \/ \E x \in Threads : EndStep(x)

Next == Step /\ met' = met \cup Meeting' /\ raced' = raced \cup Racing'

\* Threads that can run do run; no command and no error has to come.
Fairness == WF_th(Handle) /\ WF_th(Fail) /\ \A x \in Threads : WF_th(EndStep(x))

Spec == Init /\ [][Next]_vars /\ Fairness
-----------------------------------------------------------------------------
(* Properties *)

\* What the manager hears of the end of a task.  No message comes while the
\* task is active.  The command, the callback of the task's sink and an SDK
\* error may each send one when they meet over it, since a stop looks its task
\* up without erasing it; without such a meeting, or a recording that was
\* shared, there is one.  And there is one as soon as nobody is at work on the
\* task, unless it was given up silently or the socket is closed.
ReportedOnce ==
    \A t \in Begun :
        /\ t \in active => sent[t] = 0
        /\ sent[t] <= IF errors = 0 THEN 2 ELSE 3
        /\ t \notin met \cup shared => sent[t] <= 1
        /\ t \notin active \cup refused /\ sock = "open" /\ (\A x \in Threads : th[x].task # t)
              => sent[t] >= 1

Quiet == \A x \in Threads : At(x, "idle")

\* When nothing is going on, a sink runs exactly if there is a task for it: no
\* recording, capture or publishing is left behind, and no task is left
\* without its sink, whichever thread ended which task.  A recording that
\* reached its duration stays unfinalised while the channel has other tasks.
SinksMatchTasks ==
    Quiet /\ raced = {} =>
        /\ rec = "on" => OfKind("record") # {}
        /\ OfKind("record") # {} => rec # "off"
        /\ snap # "off" <=> OfKind("snapshot") # {}
        /\ stream = "on" <=> OfKind("stream") # {}

\* A task works on its own channel: until an SDK error leaves the client
\* connected, the channel of a running task is the one the client is in.
OnItsChannel == ~broken /\ raced = {} => \A t \in active : rtc = chan[t]

\* Every command, callback and error handler comes to its end, whatever it
\* locks and joins, with two exceptions: the capture thread of the snapshot
\* sink hangs, or the coordinator and the streaming thread both take a channel
\* down and join each other.
CommandsReturn ==
    \A x \in Threads :
        Busy(x) ~> \/ At(x, "idle") \/ snap = "stuck"
                   \/ Removing("coordinator") /\ Removing("streamer")
=============================================================================
