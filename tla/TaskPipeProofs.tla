--------------------------- MODULE TaskPipeProofs ---------------------------
(***************************************************************************)
(* What the command loop of a worker guarantees, for any number of         *)
(* channels, tasks and SDK errors: how often the end of a task is          *)
(* reported, and when no threads wait in a circle; and, until two threads  *)
(* meet over a task, no sink without a task, no task without its sink, and *)
(* a client in the right channel.                                          *)
(***************************************************************************)
EXTENDS TaskPipe, TLAPS

-----------------------------------------------------------------------------
(* The state                                                               *)

Pcs == {"idle", "ready", "connect", "register", "begin", "find", "release", "cleanup",
        "stopSnap", "stopRec", "joinRec", "stopStream", "joinStream", "disconnect", "send",
        "fail", "failStream"}
Thens == {"idle", "ready", "release", "stopSnap", "stopStream", "failStream"}

\* The steps of each thread
Ending == Joining \cup {"idle", "release", "cleanup", "disconnect", "send"}
Places == [x \in Threads |->
              CASE x = "handler" -> Ending \cup {"ready", "connect", "register", "begin"}
                [] x = "sdk"     -> Joining \cup {"idle", "fail", "failStream"}
                [] x = "main"    -> Joining \cup {"idle", "disconnect", "send"}
                [] OTHER         -> Ending \cup {"find"}]
Holders == {"handler", "coordinator", "streamer"}

Thread == [pc : Pcs, task : Tasks \cup {None}, then : Thens, send : BOOLEAN, was : BOOLEAN,
           had : SUBSET (Kinds \cup {"none"})]

JobsType ==
    /\ begun \in 0..MaxTasks
    /\ kind \in [Tasks -> Kinds \cup {"none"}] /\ chan \in [Tasks -> Channels \cup {None}]
    /\ \A t \in Begun : kind[t] \in Kinds /\ chan[t] \in Channels

StateType ==
    /\ active \subseteq Begun
    /\ conn \in [Channels -> {"none", "listed", "connected"}]
    /\ rtc \in Channels \cup {None}

SinksType ==
    /\ rec \in {"off", "on", "expired"} /\ recTask \in Begun \cup {None}
    /\ recStopper \in Threads \cup {"none"}
    /\ snap \in {"off", "on", "stuck"}
    /\ stream \in {"off", "ready", "on", "ended"} /\ streamTask \in Begun \cup {None}
    /\ streamStopper \in Threads \cup {"none"}

ThreadsType ==
    /\ th \in [Threads -> Thread]
    /\ \A x \in Threads : th[x].pc \in Places[x] /\ th[x].task \in Begun \cup {None}

NotesType ==
    /\ sock \in {"open", "closed", "down"} /\ errors \in Nat
    /\ sent \in [Tasks -> Nat]
    /\ shared \subseteq Begun /\ refused \subseteq Begun
    /\ met \subseteq Begun /\ raced \subseteq Begun
    /\ broken \in BOOLEAN

TypeOK == JobsType /\ StateType /\ SinksType /\ ThreadsType /\ NotesType

-----------------------------------------------------------------------------
(* The threads                                                             *)

TaskOf(x) == th[x].task

\* A thread has its task with it until it is idle; those of the SDK and of
\* stop() have none.  What it does after it has stopped a sink depends on who
\* called: a start, a stop, a cleanup or the SDK.
HolderInv ==
    /\ \A x \in Holders : TaskOf(x) = None <=> At(x, "idle")
    /\ TaskOf("sdk") = None /\ TaskOf("main") = None
    /\ Busy("coordinator") => kind[TaskOf("coordinator")] = "record" /\ th["coordinator"].send
    /\ Busy("streamer") => kind[TaskOf("streamer")] = "stream" /\ th["streamer"].send

ThenInv ==
    /\ \A x \in {"coordinator", "streamer", "main"} :
          th[x].pc \in Joining => th[x].then = "stopStream"
    /\ th["sdk"].pc \in {"stopRec", "joinRec"} =>
          th["sdk"].then = IF "snapshot" \in th["sdk"].had THEN "stopSnap" ELSE "failStream"
    /\ At("sdk", "stopSnap") => th["sdk"].then = "stopSnap"
    /\ th["sdk"].pc \in {"stopStream", "joinStream"} =>
          th["sdk"].then = "idle" /\ "stream" \in th["sdk"].had
    /\ At("handler", "stopSnap") =>
          \/ th["handler"].then = "release" /\ kind[TaskOf("handler")] = "snapshot"
          \/ th["handler"].then = "stopStream"
    /\ th["handler"].pc \in {"stopRec", "joinRec"} =>
          \/ th["handler"].then = "release" /\ kind[TaskOf("handler")] = "record"
          \/ th["handler"].then = "stopStream"
    /\ th["handler"].pc \in {"stopStream", "joinStream"} =>
          \/ th["handler"].then \in {"ready", "release"} /\ kind[TaskOf("handler")] = "stream"
          \/ th["handler"].then = "stopStream"
    /\ At("handler", "ready") => th["handler"].then = "ready" /\ kind[TaskOf("handler")] = "stream"
    /\ Busy("handler") /\ th["handler"].then = "ready" => kind[TaskOf("handler")] = "stream"

\* Only a snapshot that never began ends without a message.
SendInv ==
    Busy("handler") /\ ~th["handler"].send =>
        /\ kind[TaskOf("handler")] = "snapshot"
        /\ th["handler"].pc \in {"connect", "register", "begin"} \/ TaskOf("handler") \in refused

\* The command loop ends before the socket is closed, and stop() runs after it.
SockInv ==
    /\ sock # "open" => At("handler", "idle")
    /\ Busy("main") => sock = "down"
    /\ sock = "down" => active = {}
    /\ Busy("sdk") => errors > 0

\* A callback is run by a sink that has ended.
CallbackInv ==
    /\ Busy("coordinator") => rec # "on"
    /\ Busy("streamer") => stream = "ended"
    /\ rec = "on" => recTask # None /\ kind[recTask] = "record"
    /\ stream = "on" => streamTask # None /\ kind[streamTask] = "stream"

RaceInv == Meeting \subseteq met /\ Racing \subseteq raced /\ met \subseteq raced

\* A start that has not entered its task yet, and one whose sink has not begun
Fresh ==
    \/ th["handler"].pc \in {"ready", "connect", "register"}
    \/ th["handler"].pc \in {"stopStream", "joinStream"} /\ th["handler"].then = "ready"

StartInv ==
    /\ Fresh => TaskOf("handler") \notin active
    /\ Fresh /\ kind[TaskOf("handler")] = "stream" => OfKind("stream") = {}
    /\ Fresh \/ At("handler", "begin") =>
          /\ recTask # TaskOf("handler") /\ streamTask # TaskOf("handler")
          /\ TaskOf("coordinator") # TaskOf("handler") /\ TaskOf("streamer") # TaskOf("handler")
    /\ At("handler", "begin") => TaskOf("handler") \in active \cup raced
    /\ th["handler"].pc \in {"ready", "connect", "register", "begin"} =>
          (kind[TaskOf("handler")] = "stream" => stream \in {"off", "ready"})

Control == HolderInv /\ ThenInv /\ SendInv /\ SockInv /\ CallbackInv /\ RaceInv /\ StartInv

-----------------------------------------------------------------------------
(* Tasks and their ends                                                    *)

\* A thread that has taken its task out
Released(x) == Removing(x) \/ th[x].pc \in {"cleanup", "send"}

\* One stream at a time, and recordings of one channel share the sink.
OnceInv ==
    /\ \A t, u \in active : kind[t] = "stream" /\ kind[u] = "stream" => t = u
    /\ \A t, u \in active : t # u /\ kind[t] = "record" /\ kind[u] = "record" /\ chan[t] = chan[u]
          => t \in shared

\* What has left a channel does not come back, and a channel is empty when it
\* is taken down.
LeftInv ==
    /\ \A x \in Holders : Released(x) => TaskOf(x) \notin active
    /\ \A x \in Holders : At(x, "cleanup") =>
          \A u \in active \ raced : chan[u] # chan[TaskOf(x)]

\* An error finds every task it fails in the kinds it has read, and leaves none.
FailInv ==
    /\ At("sdk", "fail") => \A u \in active \ met : kind[u] \in th["sdk"].had
    /\ th["sdk"].pc \in Joining \cup {"failStream"} => active \subseteq raced

\* A sink that runs has its task, or somebody is about to stop it.
RunInv ==
    /\ At("handler", "release") \/ Released("handler") =>
          /\ rec = "on" /\ recTask = TaskOf("handler") => recTask \in shared
          /\ ~(stream = "on" /\ streamTask = TaskOf("handler"))
    /\ rec = "on" =>
          \/ recTask \in active \cup raced \cup shared
          \/ th["sdk"].pc \in {"stopRec", "joinRec"}
          \/ th["main"].pc \in {"stopSnap", "stopRec", "joinRec"}
    /\ stream = "on" =>
          \/ streamTask \in active \cup raced
          \/ th["sdk"].pc \in Joining \cup {"failStream"} /\ "stream" \in th["sdk"].had
          \/ th["main"].pc \in Joining
    /\ At("streamer", "find") => TaskOf("streamer") \in active \cup raced \/ sock = "down"

\* Who may still send a message for a task: a command, the callback of its
\* sink, an SDK error
MayCommand(t) == t \in active \/ TaskOf("handler") = t
MayCall(t) ==
    \/ TaskOf("coordinator") = t \/ (rec = "on" /\ recTask = t)
    \/ TaskOf("streamer") = t \/ (stream = "on" /\ streamTask = t)
    \/ (Fresh \/ At("handler", "begin")) /\ TaskOf("handler") = t
MayFail(t) == t \in active \/ (Fresh /\ TaskOf("handler") = t)

\* Somebody who has not met an SDK error may.
MayReport(t) ==
    \/ t \in active \/ \E x \in Holders : TaskOf(x) = t
    \/ rec = "on" /\ recTask = t /\ ~(th["sdk"].pc \in {"stopRec", "joinRec"})
    \/ /\ stream = "on" /\ streamTask = t
       /\ ~(th["sdk"].pc \in Joining \cup {"failStream"} /\ "stream" \in th["sdk"].had)

\* Somebody ends the task, and somebody will report it.
Ended(t) == \E x \in Holders : TaskOf(x) = t /\ ~(th[x].pc \in {"find", "send"})
Owed(t) ==
    \E x \in Holders : TaskOf(x) = t /\ ~(x = "streamer" /\ At(x, "find")) /\ ~At(x, "begin")

One(b) == IF b THEN 1 ELSE 0

\* Each of the three sends one message at most, and none before the task has
\* left; one is sent if nobody meets another, and no task is forgotten.
BoundInv(t) == sent[t] + One(MayCommand(t)) + One(MayCall(t)) + One(errors = 0 \/ MayFail(t)) <= 3
OnlyInv(t) ==
    /\ MayFail(t) => sent[t] = 0
    /\ Ended(t) /\ t \notin met => sent[t] = 0
    /\ t \notin met \cup shared => sent[t] + One(MayReport(t)) <= 1
HeardInv(t) == sock = "open" => t \in active \cup refused \/ sent[t] > 0 \/ Owed(t)

CountInv(t) == BoundInv(t) /\ OnlyInv(t) /\ HeardInv(t)

TaskInv ==
    /\ \A t \in Tasks \ Begun : sent[t] = 0
    /\ \A t \in Begun : CountInv(t)

-----------------------------------------------------------------------------
(* Channels and sinks while no two threads have met                        *)

\* What is at work is on one channel.
Live(t) == t \in active \/ \E x \in Holders : TaskOf(x) = t /\ th[x].pc \notin {"find", "send"}

SameChannel == \A t, u \in Begun : Live(t) /\ Live(u) => chan[t] = chan[u]

\* A task's channel has an entry, which is gone once it is being taken down.
EntryInv ==
    /\ \A t \in active : conn[chan[t]] = "connected"
    /\ At("handler", "register") => conn[chan[TaskOf("handler")]] = "connected"
    /\ \A c \in Channels : conn[c] # "listed"
    /\ \A x \in Holders : Removing(x) => conn[chan[TaskOf(x)]] = "none" /\ th[x].was
    /\ sock = "down" => \A c \in Channels : conn[c] = "none"

\* An entry has a task, or a thread that enters one or takes it down.
UsedInv ==
    \A c \in Channels : conn[c] # "none" =>
        \/ \E t \in active : chan[t] = c
        \/ \E x \in Holders : At(x, "cleanup") /\ chan[TaskOf(x)] = c
        \/ /\ th["handler"].pc \in {"register", "release", "stopSnap"}
           /\ chan[TaskOf("handler")] = c

\* The client is in the channel of the entry until the thread that removed
\* it, or stop(), leaves.
ClientInv ==
    ~broken =>
        /\ \A c \in Channels : conn[c] = "connected" => rtc = c
        /\ \A x \in Holders : Removing(x) => rtc \in {None, chan[TaskOf(x)]}
        /\ rtc # None => \/ conn[rtc] = "connected" \/ sock = "down"
                         \/ \E x \in Holders : Removing(x)

\* The sinks run while they have tasks.  Who takes the last task of a kind out
\* has stopped the sink before, or does so next.
RecInv ==
    /\ rec = "on" =>
          \/ \E u \in active :
                kind[u] = "record" /\ ~(At("handler", "release") /\ TaskOf("handler") = u)
          \/ th["sdk"].pc \in {"stopRec", "joinRec"}
          \/ th["main"].pc \in {"stopSnap", "stopRec", "joinRec"}
    /\ At("handler", "begin") /\ kind[TaskOf("handler")] = "record" =>
           rec # "on" /\ OfKind("record") = {TaskOf("handler")}
    /\ th["handler"].pc \in {"stopRec", "joinRec"} /\ th["handler"].then = "release" =>
           OfKind("record") = {TaskOf("handler")}
    /\ rec = "off" /\ OfKind("record") # {} =>
           th["handler"].pc \in {"begin", "release"} /\ OfKind("record") = {TaskOf("handler")}

SnapInv ==
    /\ snap # "off" =>
          \/ \E u \in active :
                kind[u] = "snapshot" /\ ~(At("handler", "release") /\ TaskOf("handler") = u)
          \/ \E x \in Threads : At(x, "stopSnap")
          \/ th["sdk"].pc \in {"stopRec", "joinRec"} /\ "snapshot" \in th["sdk"].had
    /\ At("handler", "stopSnap") /\ th["handler"].then = "release" => OfKind("snapshot") = {}
    /\ snap = "off" /\ OfKind("snapshot") # {} =>
           th["handler"].pc \in {"begin", "release"} /\ OfKind("snapshot") = {TaskOf("handler")}

StreamInv ==
    /\ \A t \in active : kind[t] = "stream" =>
          \/ stream = "on"
          \/ th["streamer"].pc \in {"find", "release"} /\ TaskOf("streamer") = t
          \/ th["handler"].pc \in {"begin", "release"} /\ TaskOf("handler") = t
    /\ th["handler"].pc \in {"stopStream", "joinStream"} /\ th["handler"].then = "release" =>
          TaskOf("handler") \in active

Calm == SameChannel /\ EntryInv /\ UsedInv /\ ClientInv /\ RecInv /\ SnapInv /\ StreamInv

CalmInv == raced = {} => Calm

Inv == TypeOK /\ Control /\ OnceInv /\ LeftInv /\ FailInv /\ RunInv /\ TaskInv /\ CalmInv

-----------------------------------------------------------------------------
(* How threads move                                                        *)

\* What every step adds to the tasks that were met and raced
Marks == met' = met \cup Meeting' /\ raced' = raced \cup Racing'
USE DEF Marks

\* Thread x is now there, with these locals, and no other thread has moved.
Sets(x, pc, task, then, send, was, had) ==
    /\ th' \in [Threads -> Thread]
    /\ \A y \in Threads \ {x} : th'[y] = th[y]
    /\ th'[x].pc = pc /\ th'[x].task = task /\ th'[x].then = then
    /\ th'[x].send = send /\ th'[x].was = was /\ th'[x].had = had

Moves(x, pc) == Sets(x, pc, th[x].task, th[x].then, th[x].send, th[x].was, th[x].had)
Frees(x) == Sets(x, "idle", None, "idle", FALSE, FALSE, {})

\* An idle thread is a thread.
LEMMA IdleThread ==
    /\ Idle \in Thread /\ Idle.pc = "idle" /\ Idle.task = None /\ Idle.then = "idle"
    /\ Idle.send = FALSE /\ Idle.was = FALSE /\ Idle.had = {}
  BY DEF Idle, Thread, Pcs, Thens

\* What setting some fields of a thread does to the others
LEMMA SetThread ==
    ASSUME th \in [Threads -> Thread], NEW x \in Threads, NEW r \in Thread,
           th' = [th EXCEPT ![x] = r]
    PROVE  Sets(x, r.pc, r.task, r.then, r.send, r.was, r.had)
<1>1. th' \in [Threads -> Thread] /\ th'[x] = r /\ \A y \in Threads \ {x} : th'[y] = th[y]
  OBVIOUS
<1>2. QED BY <1>1 DEF Sets

\* A new record for one thread, by field
LEMMA NewThread ==
    ASSUME th \in [Threads -> Thread], NEW x \in Threads, NEW r \in Thread,
           th' = [th EXCEPT ![x] = r],
           NEW pc, NEW t, NEW then, NEW send, NEW was, NEW had,
           /\ r.pc = pc /\ r.task = t /\ r.then = then /\ r.send = send /\ r.was = was
           /\ r.had = had
    PROVE  Sets(x, pc, t, then, send, was, had)
<1>1. Sets(x, r.pc, r.task, r.then, r.send, r.was, r.had)
  BY SetThread
<1>2. QED BY <1>1, Zenon

\* Go() moves a thread, or frees it.
LEMMA GoMoves ==
    ASSUME th \in [Threads -> Thread], NEW x \in Threads, NEW pc \in Pcs, Go(x, pc)
    PROVE  IF pc = "idle" THEN Frees(x) ELSE Moves(x, pc)
<1>1. CASE pc = "idle"
  <2>1. th' = [th EXCEPT ![x] = Idle]
    BY <1>1 DEF Go
  <2>2. Sets(x, Idle.pc, Idle.task, Idle.then, Idle.send, Idle.was, Idle.had)
    BY <2>1, IdleThread, SetThread
  <2>3. QED BY <1>1, <2>2, IdleThread, Zenon DEF Frees
<1>2. CASE pc # "idle"
  <2> DEFINE r == [th[x] EXCEPT !.pc = pc]
  <2>1. th' = [th EXCEPT ![x] = r]
    BY <1>2 DEF Go
  <2>2. /\ r \in Thread /\ r.pc = pc /\ r.task = th[x].task /\ r.then = th[x].then
        /\ r.send = th[x].send /\ r.was = th[x].was /\ r.had = th[x].had
    BY DEF Thread
  <2> HIDE DEF r
  <2>3. Sets(x, r.pc, r.task, r.then, r.send, r.was, r.had)
    BY <2>1, <2>2, SetThread
  <2>4. QED BY <1>2, <2>2, <2>3, Zenon DEF Moves
<1>3. QED BY <1>1, <1>2

-----------------------------------------------------------------------------
(* Where each step takes its thread                                        *)

\* A start command: the new task, and where the handler goes
LEMMA StartMoves ==
    ASSUME TypeOK, NEW k \in Kinds, NEW c \in Channels, Start(k, c)
    PROVE  /\ begun + 1 \in Tasks \ Begun /\ Begun' = Begun \cup {begun + 1}
           /\ kind' \in [Tasks -> Kinds \cup {"none"}]
           /\ chan' \in [Tasks -> Channels \cup {None}]
           /\ kind'[begun + 1] = k /\ chan'[begun + 1] = c
           /\ \A u \in Begun : kind'[u] = kind[u] /\ chan'[u] = chan[u]
           /\ \/ k = "stream" /\ OfKind("stream") # {} /\ Send({begun + 1}) /\ UNCHANGED th
              \/ /\ k = "stream" /\ OfKind("stream") = {} /\ UNCHANGED sent
                 /\ Sets("handler", "stopStream", begun + 1, "ready", TRUE, FALSE, {})
              \/ /\ k # "stream" /\ UNCHANGED sent
                 /\ Sets("handler", "connect", begun + 1, "idle", k = "record", FALSE, {})
<1> USE PipeAssumption
<1>1. begun + 1 \in Tasks /\ begun \in Nat /\ begun' = begun + 1
  BY DEF Start, ManagerSends, TypeOK, JobsType, Tasks
<1>2. begun + 1 \notin Begun /\ Begun' = Begun \cup {begun + 1} /\ Begun \subseteq Tasks
  BY <1>1 DEF Begun, Tasks
<1>3. /\ kind' \in [Tasks -> Kinds \cup {"none"}] /\ chan' \in [Tasks -> Channels \cup {None}]
      /\ kind'[begun + 1] = k /\ chan'[begun + 1] = c
      /\ \A u \in Begun : kind'[u] = kind[u] /\ chan'[u] = chan[u]
  BY <1>1, <1>2 DEF Start, TypeOK, JobsType
<1>4. th \in [Threads -> Thread] /\ "handler" \in Threads
  BY DEF TypeOK, ThreadsType, Threads
<1>5. ASSUME k = "stream", OfKind("stream") = {},
             th' = [th EXCEPT !["handler"] = [Idle EXCEPT !.pc = "stopStream", !.task = begun + 1,
                                                          !.then = "ready", !.send = TRUE]]
      PROVE Sets("handler", "stopStream", begun + 1, "ready", TRUE, FALSE, {})
  <2> DEFINE r == [Idle EXCEPT !.pc = "stopStream", !.task = begun + 1, !.then = "ready", !.send = TRUE]
  <2>1. th' = [th EXCEPT !["handler"] = r]
    BY <1>5
  <2>2. /\ r \in Thread /\ r.pc = "stopStream" /\ r.task = begun + 1 /\ r.then = "ready"
        /\ r.send = TRUE /\ r.was = FALSE /\ r.had = {}
    BY <1>1 DEF Idle, Thread, Pcs, Thens
  <2> HIDE DEF r
  <2>3. QED BY <1>4, <2>1, <2>2, NewThread
<1>6. ASSUME k # "stream",
             th' = [th EXCEPT !["handler"] = [Idle EXCEPT !.pc = "connect", !.task = begun + 1,
                                                          !.send = (k = "record")]]
      PROVE Sets("handler", "connect", begun + 1, "idle", k = "record", FALSE, {})
  <2> DEFINE b == (k = "record")
             r == [Idle EXCEPT !.pc = "connect", !.task = begun + 1, !.send = b]
  <2>1. th' = [th EXCEPT !["handler"] = r]
    BY <1>6
  <2>2. b \in BOOLEAN
    OBVIOUS
  <2> HIDE DEF b
  <2>3. /\ r \in Thread /\ r.pc = "connect" /\ r.task = begun + 1 /\ r.then = "idle"
        /\ r.send = b /\ r.was = FALSE /\ r.had = {}
    BY <1>1, <2>2 DEF Idle, Thread, Pcs, Thens
  <2> HIDE DEF r
  <2>4. Sets("handler", "connect", begun + 1, "idle", b, FALSE, {})
    BY <1>4, <2>1, <2>3, NewThread
  <2>5. QED BY <2>4 DEF b
<1>7. QED BY <1>1, <1>2, <1>3, <1>5, <1>6 DEF Start

\* A recording for whose channel there is one already
Shares(t) == \E u \in OnChannel(chan[t]) : kind[u] = "record"

\* The outcomes of ensureConnected()
Connected(t) ==
    /\ UNCHANGED <<sent, stream, refused>>
    /\ \/ conn[chan[t]] = "connected" /\ UNCHANGED <<conn, rtc>>
       \/ /\ conn[chan[t]] # "connected" /\ rtc' = IF rtc = None THEN chan[t] ELSE rtc
          /\ conn' = [conn EXCEPT ![chan[t]] = "connected"]

Refuses(t) ==
    /\ UNCHANGED <<conn, rtc>>
    /\ \/ kind[t] = "stream" /\ Send({t}) /\ stream' = "off" /\ UNCHANGED refused
       \/ kind[t] # "stream" /\ refused' = refused \cup {t} /\ UNCHANGED <<sent, stream>>

\* The steps of a start command
LEMMA HandleMoves ==
    ASSUME TypeOK
    PROVE  /\ Ready => \/ Moves("handler", "connect") /\ UNCHANGED sent /\ stream' = "ready"
                       \/ Frees("handler") /\ Send({th["handler"].task}) /\ UNCHANGED stream
           /\ Connect => \/ Moves("handler", "register") /\ Connected(th["handler"].task)
                         \/ Frees("handler") /\ Refuses(th["handler"].task)
           /\ Register => \/ /\ Moves("handler", "begin") /\ UNCHANGED shared
                             /\ ~(kind[th["handler"].task] = "record" /\ Shares(th["handler"].task))
                          \/ /\ Frees("handler") /\ Shares(th["handler"].task)
                             /\ kind[th["handler"].task] = "record"
                             /\ shared' = shared \cup OnChannel(chan[th["handler"].task]) \cup {th["handler"].task}
           /\ Begin => Frees("handler")
           /\ BeginFails => Moves("handler", "release")
<1>1. th \in [Threads -> Thread] /\ "handler" \in Threads
  BY DEF TypeOK, ThreadsType, Threads
<1>2. ASSUME NEW pc \in Pcs, Go("handler", pc)
      PROVE  IF pc = "idle" THEN Frees("handler") ELSE Moves("handler", pc)
  BY <1>1, <1>2, GoMoves
<1>3. Done("handler") => Frees("handler")
  BY <1>2 DEF Done, Pcs
<1>4. \A pc \in {"connect", "register", "begin"} : Go("handler", pc) => Moves("handler", pc)
  BY <1>2 DEF Pcs
<1>5. BeginFails => Go("handler", "release")
  BY <1>1 DEF BeginFails, Go
<1>6. BeginFails => Moves("handler", "release")
  BY <1>2, <1>5 DEF Pcs
<1>7. Register => \/ /\ Moves("handler", "begin") /\ UNCHANGED shared
                     /\ ~(kind[th["handler"].task] = "record" /\ Shares(th["handler"].task))
                  \/ /\ Frees("handler") /\ Shares(th["handler"].task)
                     /\ kind[th["handler"].task] = "record"
                     /\ shared' = shared \cup OnChannel(chan[th["handler"].task]) \cup {th["handler"].task}
  BY <1>3, <1>4, Zenon DEF Register, Shares
<1>8. (Ready => \/ Moves("handler", "connect") /\ UNCHANGED sent /\ stream' = "ready"
                \/ Frees("handler") /\ Send({th["handler"].task}) /\ UNCHANGED stream)
  BY <1>3, <1>4, Zenon DEF Ready
<1>9. Connect => \/ Moves("handler", "register") /\ Connected(th["handler"].task)
                 \/ Frees("handler") /\ Refuses(th["handler"].task)
  BY <1>3, <1>4 DEF Connect, Connected, Refuses
<1>10. QED BY <1>3, <1>6, <1>7, <1>8, <1>9, Zenon DEF Begin

\* What a stop command does next
StopAt(t) ==
    CASE kind[t] = "record" /\ (\A u \in active \ {t} : ~(kind[u] = "record" /\ chan[u] = chan[t])) -> "stopRec"
      [] kind[t] = "stream" -> "stopStream"
      [] kind[t] = "snapshot" /\ snap # "off" /\ ~(\E u \in active \ {t} : kind[u] = "snapshot") -> "stopSnap"
      [] OTHER -> "release"

\* A stop command
LEMMA StopMoves ==
    ASSUME TypeOK, NEW t \in Tasks, Stop(t)
    PROVE  Sets("handler", StopAt(t), t, "release", TRUE, FALSE, {}) /\ StopAt(t) \in Pcs
<1>1. th \in [Threads -> Thread] /\ "handler" \in Threads
  BY DEF TypeOK, ThreadsType, Threads
<1>2. StopAt(t) \in Pcs
  BY DEF StopAt, Pcs
<1>3. th' = [th EXCEPT !["handler"] = [Idle EXCEPT !.pc = StopAt(t), !.task = t, !.then = "release",
                                                   !.send = TRUE]]
  BY DEF Stop, StopAt
<1> DEFINE r == [Idle EXCEPT !.pc = StopAt(t), !.task = t, !.then = "release", !.send = TRUE]
<1>4. /\ r \in Thread /\ r.pc = StopAt(t) /\ r.task = t /\ r.then = "release"
      /\ r.send = TRUE /\ r.was = FALSE /\ r.had = {}
  BY <1>2 DEF Idle, Thread, Thens
<1> HIDE DEF r
<1>5. th' = [th EXCEPT !["handler"] = r]
  BY <1>3 DEF r
<1>6. QED BY <1>1, <1>2, <1>4, <1>5, NewThread

\* The callbacks of the sinks
LEMMA CallbackMoves ==
    ASSUME TypeOK
    PROVE  /\ Expire => Sets("coordinator", "find", recTask, "idle", TRUE, FALSE, {})
           /\ StreamEnds => Sets("streamer", "find", streamTask, "idle", TRUE, FALSE, {})
<1>1. th \in [Threads -> Thread] /\ "coordinator" \in Threads /\ "streamer" \in Threads
  BY DEF TypeOK, ThreadsType, Threads
<1>2. recTask \in Tasks \cup {None} /\ streamTask \in Tasks \cup {None}
  BY PipeAssumption DEF TypeOK, SinksType, JobsType, Begun, Tasks
<1>3. ASSUME Expire PROVE Sets("coordinator", "find", recTask, "idle", TRUE, FALSE, {})
  <2> DEFINE r == [Idle EXCEPT !.pc = "find", !.task = recTask, !.send = TRUE]
  <2>1. th' = [th EXCEPT !["coordinator"] = r]
    BY <1>3 DEF Expire
  <2>2. /\ r \in Thread /\ r.pc = "find" /\ r.task = recTask /\ r.then = "idle"
        /\ r.send = TRUE /\ r.was = FALSE /\ r.had = {}
    BY <1>2 DEF Idle, Thread, Pcs, Thens
  <2> HIDE DEF r
  <2>3. QED BY <1>1, <2>1, <2>2, NewThread
<1>4. ASSUME StreamEnds PROVE Sets("streamer", "find", streamTask, "idle", TRUE, FALSE, {})
  <2> DEFINE r == [Idle EXCEPT !.pc = "find", !.task = streamTask, !.send = TRUE]
  <2>1. th' = [th EXCEPT !["streamer"] = r]
    BY <1>4 DEF StreamEnds
  <2>2. /\ r \in Thread /\ r.pc = "find" /\ r.task = streamTask /\ r.then = "idle"
        /\ r.send = TRUE /\ r.was = FALSE /\ r.had = {}
    BY <1>2 DEF Idle, Thread, Pcs, Thens
  <2> HIDE DEF r
  <2>3. QED BY <1>1, <2>1, <2>2, NewThread
<1>5. QED BY <1>3, <1>4

\* Where a thread goes that has left a sink's stop()
Leaves(x, pc) == IF pc = "idle" THEN Frees(x) ELSE Moves(x, pc)

\* The steps that end a task
LEMMA EndMoves ==
    ASSUME TypeOK, NEW x \in Threads
    PROVE  /\ Find(x) => IF th[x].task \in active THEN Moves(x, "release")
                         ELSE IF x = "coordinator" THEN Moves(x, "send") ELSE Frees(x)
           /\ Release(x) => Moves(x, IF conn[chan[th[x].task]] # "none" /\ OnChannel(chan[th[x].task]) \subseteq {th[x].task}
                                     THEN "cleanup" ELSE "send")
           /\ Cleanup(x) => IF conn[chan[th[x].task]] = "none" THEN Moves(x, "send")
                            ELSE Sets(x, "stopSnap", th[x].task, "stopStream", th[x].send,
                                      conn[chan[th[x].task]] = "connected", th[x].had)
           /\ StopSnap(x) => Leaves(x, AfterSnap(x))
           /\ StopRec(x) => \/ (x = "coordinator" \/ rec = "off") /\ Leaves(x, th[x].then)
                            \/ Moves(x, "joinRec")
           /\ JoinRec(x) => Leaves(x, th[x].then)
           /\ StopStream(x) => IF x = "streamer" THEN Leaves(x, AfterStream(x)) ELSE Moves(x, "joinStream")
           /\ JoinStream(x) => Leaves(x, AfterStream(x))
           /\ Disconnect(x) => Moves(x, "send")
           /\ Report(x) => Frees(x)
<1>1. th \in [Threads -> Thread]
  BY DEF TypeOK, ThreadsType
<1>2. ASSUME NEW pc \in Pcs, Go(x, pc) PROVE Leaves(x, pc)
  BY <1>1, <1>2, GoMoves DEF Leaves
<1>3. \A pc \in Pcs \ {"idle"} : Go(x, pc) => Moves(x, pc)
  BY <1>2 DEF Leaves
<1>4. Done(x) => Frees(x)
  BY <1>2 DEF Leaves, Done, Pcs
<1>5. {"release", "send", "cleanup", "joinRec", "joinStream"} \subseteq Pcs \ {"idle"}
  BY DEF Pcs
<1>6. th[x].then \in Pcs /\ AfterStream(x) \in Pcs /\ AfterSnap(x) \in Pcs
  BY <1>1 DEF Thread, Thens, Pcs, AfterStream, AfterSnap
<1>7. Find(x) => IF th[x].task \in active THEN Moves(x, "release")
                 ELSE IF x = "coordinator" THEN Moves(x, "send") ELSE Frees(x)
  BY <1>3, <1>4, <1>5 DEF Find
<1>8. Release(x) => Moves(x, IF conn[chan[th[x].task]] # "none" /\ OnChannel(chan[th[x].task]) \subseteq {th[x].task}
                             THEN "cleanup" ELSE "send")
  BY <1>3, <1>5 DEF Release
<1>9. ASSUME Cleanup(x), conn[chan[th[x].task]] = "none" PROVE Moves(x, "send")
  BY <1>3, <1>5, <1>9 DEF Cleanup
<1>10. ASSUME Cleanup(x), conn[chan[th[x].task]] # "none"
       PROVE Sets(x, "stopSnap", th[x].task, "stopStream", th[x].send,
                  conn[chan[th[x].task]] = "connected", th[x].had)
  <2> DEFINE b == (conn[chan[th[x].task]] = "connected")
             r == [th[x] EXCEPT !.pc = "stopSnap", !.then = "stopStream", !.was = b]
  <2>1. b \in BOOLEAN
    OBVIOUS
  <2>2. th' = [th EXCEPT ![x].pc = "stopSnap", ![x].then = "stopStream", ![x].was = b]
    BY <1>10 DEF Cleanup
  <2> HIDE DEF b
  <2>3. /\ r \in Thread /\ r.pc = "stopSnap" /\ r.task = th[x].task /\ r.then = "stopStream"
        /\ r.send = th[x].send /\ r.was = b /\ r.had = th[x].had
    BY <1>1, <2>1 DEF Thread, Pcs, Thens
  <2>4. th' = [th EXCEPT ![x] = r]
    BY <1>1, <2>2
  <2> HIDE DEF r
  <2>5. Sets(x, "stopSnap", th[x].task, "stopStream", th[x].send, b, th[x].had)
    BY <1>1, <2>3, <2>4, NewThread
  <2>6. QED BY <2>5 DEF b
<1>11. StopRec(x) => \/ (x = "coordinator" \/ rec = "off") /\ Leaves(x, th[x].then)
                     \/ Moves(x, "joinRec")
  BY <1>2, <1>3, <1>5, <1>6 DEF StopRec
<1>12. JoinRec(x) => Leaves(x, th[x].then)
  BY <1>2, <1>6 DEF JoinRec
<1>13. StopStream(x) => IF x = "streamer" THEN Leaves(x, AfterStream(x)) ELSE Moves(x, "joinStream")
  BY <1>2, <1>3, <1>5, <1>6 DEF StopStream
<1>14. JoinStream(x) => Leaves(x, AfterStream(x))
  BY <1>2, <1>6 DEF JoinStream
<1>15. (Disconnect(x) => Moves(x, "send")) /\ (Report(x) => Frees(x))
  BY <1>3, <1>4, <1>5 DEF Disconnect, Report
<1>16. StopSnap(x) => Leaves(x, AfterSnap(x))
  BY <1>2, <1>6 DEF StopSnap
<1>17. QED BY <1>7, <1>8, <1>9, <1>10, <1>11, <1>12, <1>13, <1>14, <1>15, <1>16

\* Which sink an SDK error stops after the recording, and which one first
NextSink == IF "snapshot" \in th["sdk"].had THEN "stopSnap" ELSE "failStream"
FirstSink == IF "record" \in th["sdk"].had THEN "stopRec" ELSE NextSink

\* The steps of an SDK error, and of stop()
LEMMA FailMoves ==
    ASSUME TypeOK
    PROVE  /\ SdkError => Sets("sdk", "fail", None, "idle", FALSE, FALSE, {kind[t] : t \in active})
           /\ FailAll => Sets("sdk", FirstSink, th["sdk"].task, NextSink, th["sdk"].send,
                              th["sdk"].was, th["sdk"].had)
           /\ FailStream => IF "stream" \in th["sdk"].had
                            THEN Sets("sdk", "stopStream", th["sdk"].task, "idle", th["sdk"].send,
                                      th["sdk"].was, th["sdk"].had)
                            ELSE Frees("sdk")
           /\ Shutdown => Sets("main", "stopSnap", None, "stopStream", FALSE, TRUE, {})
<1>1. th \in [Threads -> Thread] /\ "sdk" \in Threads /\ "main" \in Threads
  BY DEF TypeOK, ThreadsType, Threads
<1>2. ASSUME SdkError PROVE Sets("sdk", "fail", None, "idle", FALSE, FALSE, {kind[t] : t \in active})
  <2> DEFINE H == {kind[t] : t \in active}
  <2>1. H \in SUBSET (Kinds \cup {"none"})
    BY PipeAssumption DEF TypeOK, JobsType, StateType, Begun, Tasks
  <2>2. th' = [th EXCEPT !["sdk"] = [Idle EXCEPT !.pc = "fail", !.had = H]]
    BY <1>2 DEF SdkError
  <2> HIDE DEF H
  <2> DEFINE r == [Idle EXCEPT !.pc = "fail", !.had = H]
  <2>3. /\ r \in Thread /\ r.pc = "fail" /\ r.task = None /\ r.then = "idle"
        /\ r.send = FALSE /\ r.was = FALSE /\ r.had = H
    BY <2>1 DEF Idle, Thread, Pcs, Thens
  <2> HIDE DEF r
  <2>4. Sets("sdk", "fail", None, "idle", FALSE, FALSE, H)
    BY <1>1, <2>2, <2>3, NewThread DEF r
  <2>5. QED BY <2>4 DEF H
<1>3. ASSUME FailAll
      PROVE  Sets("sdk", FirstSink, th["sdk"].task, NextSink, th["sdk"].send, th["sdk"].was, th["sdk"].had)
  <2>1. th' = [th EXCEPT !["sdk"].pc = FirstSink, !["sdk"].then = NextSink]
    BY <1>3 DEF FailAll, FirstSink, NextSink
  <2>2. FirstSink \in Pcs /\ NextSink \in Thens
    BY DEF FirstSink, NextSink, Pcs, Thens
  <2> HIDE DEF FirstSink, NextSink
  <2> DEFINE r == [th["sdk"] EXCEPT !.pc = FirstSink, !.then = NextSink]
  <2>3. /\ r \in Thread /\ r.pc = FirstSink /\ r.task = th["sdk"].task /\ r.then = NextSink
        /\ r.send = th["sdk"].send /\ r.was = th["sdk"].was /\ r.had = th["sdk"].had
    BY <1>1, <2>2 DEF Thread
  <2>4. th' = [th EXCEPT !["sdk"] = r]
    BY <1>1, <2>1
  <2> HIDE DEF r
  <2>5. QED BY <1>1, <2>3, <2>4, NewThread
<1>4. ASSUME FailStream, "stream" \in th["sdk"].had
      PROVE Sets("sdk", "stopStream", th["sdk"].task, "idle", th["sdk"].send, th["sdk"].was, th["sdk"].had)
  <2>1. th' = [th EXCEPT !["sdk"].pc = "stopStream", !["sdk"].then = "idle"]
    BY <1>4 DEF FailStream
  <2> DEFINE r == [th["sdk"] EXCEPT !.pc = "stopStream", !.then = "idle"]
  <2>2. /\ r \in Thread /\ r.pc = "stopStream" /\ r.task = th["sdk"].task /\ r.then = "idle"
        /\ r.send = th["sdk"].send /\ r.was = th["sdk"].was /\ r.had = th["sdk"].had
    BY <1>1 DEF Thread, Pcs, Thens
  <2>3. th' = [th EXCEPT !["sdk"] = r]
    BY <1>1, <2>1
  <2> HIDE DEF r
  <2>4. QED BY <1>1, <2>2, <2>3, NewThread
<1>5. ASSUME FailStream, "stream" \notin th["sdk"].had PROVE Frees("sdk")
  <2>1. Go("sdk", "idle")
    BY <1>5 DEF FailStream, Done
  <2>2. QED BY <1>1, <2>1, GoMoves DEF Pcs
<1>6. ASSUME Shutdown PROVE Sets("main", "stopSnap", None, "stopStream", FALSE, TRUE, {})
  <2> DEFINE r == [Idle EXCEPT !.pc = "stopSnap", !.then = "stopStream", !.was = TRUE]
  <2>1. th' = [th EXCEPT !["main"] = r]
    BY <1>6 DEF Shutdown
  <2>2. /\ r \in Thread /\ r.pc = "stopSnap" /\ r.task = None /\ r.then = "stopStream"
        /\ r.send = FALSE /\ r.was = TRUE /\ r.had = {}
    BY IdleThread DEF Idle, Thread, Pcs, Thens
  <2> HIDE DEF r
  <2>3. QED BY <1>1, <2>1, <2>2, NewThread
<1>7. QED BY <1>2, <1>3, <1>4, <1>5, <1>6

-----------------------------------------------------------------------------
(* Types                                                                   *)

\* The places, thread by thread
LEMMA PlaceFacts ==
    /\ Places["handler"] = Ending \cup {"ready", "connect", "register", "begin"}
    /\ Places["coordinator"] = Ending \cup {"find"} /\ Places["streamer"] = Ending \cup {"find"}
    /\ Places["sdk"] = Joining \cup {"idle", "fail", "failStream"}
    /\ Places["main"] = Joining \cup {"idle", "disconnect", "send"}
  BY DEF Places, Threads

\* A task that was begun is a task.
LEMMA BegunTasks == ASSUME JobsType PROVE Begun \subseteq Tasks /\ None \notin Tasks
  BY PipeAssumption DEF JobsType, Begun, Tasks, None

\* A thread that is set to one of its places keeps the type.
LEMMA TypeOfThreads ==
    ASSUME ThreadsType, NEW x \in Threads, NEW pc \in Places[x], NEW t \in Begun' \cup {None},
           NEW then, NEW send, NEW was, NEW had,
           Sets(x, pc, t, then, send, was, had), Begun \subseteq Begun'
    PROVE  ThreadsType'
  BY DEF ThreadsType, Sets

\* So does one that moves.
LEMMA TypeOfMove ==
    ASSUME ThreadsType, NEW x \in Threads, UNCHANGED begun, NEW pc \in Places[x]
    PROVE  Leaves(x, pc) \/ Moves(x, pc) => ThreadsType'
<1>1. Begun' = Begun /\ th[x].task \in Begun \cup {None}
  BY DEF Begun, ThreadsType
<1>2. Moves(x, pc) => ThreadsType'
  BY <1>1, TypeOfThreads DEF Moves
<1>3. Frees(x) /\ pc = "idle" => ThreadsType'
  BY <1>1, TypeOfThreads DEF Frees
<1>4. QED BY <1>2, <1>3 DEF Leaves

\* The rest of the type follows from it.
LEMMA TypeOfRest ==
    ASSUME TypeOK, ThreadsType', JobsType', StateType', SinksType', Begun \subseteq Begun',
           sock' \in {"open", "closed", "down"}, errors' \in Nat, sent' \in [Tasks -> Nat],
           shared' \subseteq Begun', refused' \subseteq Begun', broken' \in BOOLEAN,
           Marks
    PROVE  TypeOK'
<1>1. Meeting' \subseteq Begun' /\ Racing' \subseteq Begun'
  <2> SUFFICES ASSUME NEW t \in Meeting' \cup Racing' PROVE t \in Begun'
    OBVIOUS
  <2>1. t \in Tasks /\ \E x \in Threads : th'[x].task = t
    BY DEF Meeting, Racing, Threads
  <2>2. t # None
    BY <2>1, PipeAssumption DEF Tasks, None
  <2>3. QED BY <2>1, <2>2 DEF ThreadsType
<1>2. met \subseteq Begun' /\ raced \subseteq Begun'
  BY DEF TypeOK, NotesType
<1>3. NotesType'
  BY <1>1, <1>2 DEF NotesType
<1>4. QED BY <1>3 DEF TypeOK

\* Send() counts one message for each of the tasks.
LEMMA SendType ==
    ASSUME TypeOK, NEW T, Send(T)
    PROVE  /\ sent' \in [Tasks -> Nat]
           /\ \A t \in Tasks : sent'[t] = IF sock = "open" /\ t \in T THEN sent[t] + 1 ELSE sent[t]
<1>1. \A t \in Tasks : sent[t] \in Nat /\ sent[t] + 1 \in Nat
  BY DEF TypeOK, NotesType
<1>2. QED BY <1>1 DEF Send

\* Types over a start command
LEMMA TypeOfStart ==
    ASSUME TypeOK, NEW k \in Kinds, NEW c \in Channels, Start(k, c), Marks
    PROVE  TypeOK'
<1>1. /\ begun + 1 \in Tasks \ Begun /\ Begun' = Begun \cup {begun + 1} /\ begun' = begun + 1
      /\ kind' \in [Tasks -> Kinds \cup {"none"}] /\ chan' \in [Tasks -> Channels \cup {None}]
      /\ kind'[begun + 1] = k /\ chan'[begun + 1] = c
      /\ \A u \in Begun : kind'[u] = kind[u] /\ chan'[u] = chan[u]
  BY StartMoves DEF Start
<1>2. JobsType'
  <2>1. begun' \in 0..MaxTasks
    BY <1>1, PipeAssumption DEF TypeOK, JobsType, Tasks
  <2>2. \A t \in Begun' : kind'[t] \in Kinds /\ chan'[t] \in Channels
    BY <1>1 DEF TypeOK, JobsType
  <2>3. QED BY <1>1, <2>1, <2>2 DEF JobsType
<1>3. ThreadsType'
  <2>1. "stopStream" \in Places["handler"] /\ "connect" \in Places["handler"] /\ "handler" \in Threads
    BY PlaceFacts DEF Ending, Joining, Threads
  <2>2. CASE UNCHANGED th
    BY <1>1, <2>2 DEF TypeOK, ThreadsType
  <2>3. CASE Sets("handler", "stopStream", begun + 1, "ready", TRUE, FALSE, {})
    BY <1>1, <2>1, <2>3, TypeOfThreads DEF TypeOK
  <2>4. CASE Sets("handler", "connect", begun + 1, "idle", k = "record", FALSE, {})
    BY <1>1, <2>1, <2>4, TypeOfThreads DEF TypeOK
  <2>5. QED BY <2>2, <2>3, <2>4, StartMoves
<1>4. sent' \in [Tasks -> Nat]
  BY StartMoves, SendType DEF TypeOK, NotesType
<1>5. StateType' /\ SinksType'
  BY <1>1 DEF Start, TypeOK, StateType, SinksType, state, sinks
<1>6. /\ sock' \in {"open", "closed", "down"} /\ errors' \in Nat
      /\ shared' \subseteq Begun' /\ refused' \subseteq Begun'
  BY <1>1 DEF Start, TypeOK, NotesType
<1>7. broken' \in BOOLEAN
  BY Zenon DEF Start, TypeOK, NotesType
<1>8. QED BY <1>1, <1>2, <1>3, <1>4, <1>5, <1>6, <1>7, TypeOfRest

\* Types over the steps of a start command
LEMMA TypeOfHandle ==
    ASSUME TypeOK, HolderInv, Handle, Marks
    PROVE  TypeOK'
<1> DEFINE t == th["handler"].task
<1>1. UNCHANGED jobs /\ UNCHANGED begun /\ Begun' = Begun /\ UNCHANGED <<sock, errors>>
  BY DEF Handle, Ready, Connect, Register, Begin, BeginFails, jobs, Begun
<1>2. t \in Begun /\ chan[t] \in Channels
  <2>1. t \in Begun \cup {None} /\ ~At("handler", "idle")
    BY DEF TypeOK, ThreadsType, Handle, Ready, Connect, Register, Begin, BeginFails, At, Threads
  <2>2. t \in Begun
    BY <2>1 DEF HolderInv, TaskOf, Holders
  <2>3. QED BY <2>2 DEF TypeOK, JobsType
<1>3. {"connect", "register", "begin", "release", "idle"} \subseteq Places["handler"] /\ "handler" \in Threads
  BY PlaceFacts DEF Ending, Joining, Threads
<1>4. ThreadsType'
  <2>1. \A pc \in {"connect", "register", "begin", "release", "idle"} : Moves("handler", pc) => ThreadsType'
    BY <1>1, <1>3, TypeOfMove DEF TypeOK
  <2>2. Frees("handler") => ThreadsType'
    BY <1>1, <1>3, TypeOfMove DEF TypeOK, Leaves
  <2>3. QED BY <2>1, <2>2, HandleMoves DEF Handle
<1>5. JobsType'
  BY <1>1 DEF TypeOK, JobsType, jobs
<1>6. sent' \in [Tasks -> Nat]
  <2>1. UNCHANGED sent \/ Send({t})
    BY DEF Handle, Ready, Connect, Register, Begin, BeginFails
  <2>2. QED BY <2>1, SendType DEF TypeOK, NotesType
<1>7. StateType'
  <2>1. active' \subseteq Begun
    BY <1>2 DEF Handle, Ready, Connect, Register, Begin, BeginFails, TypeOK, StateType, state
  <2>2. conn' \in [Channels -> {"none", "listed", "connected"}]
    <3>1. CASE Connect
      BY <1>2, <3>1 DEF Connect, TypeOK, StateType
    <3>2. CASE Register
      BY <1>2, <3>2 DEF Register, TypeOK, StateType
    <3>3. CASE Ready \/ Begin \/ BeginFails
      BY <3>3 DEF Ready, Begin, BeginFails, TypeOK, StateType, state
    <3>4. QED BY <3>1, <3>2, <3>3 DEF Handle
  <2>3. rtc' \in Channels \cup {None}
    BY <1>2 DEF Handle, Ready, Connect, Register, Begin, BeginFails, TypeOK, StateType
  <2>4. QED BY <1>1, <2>1, <2>2, <2>3 DEF StateType
<1>8. SinksType'
  BY <1>1, <1>2 DEF Handle, Ready, Connect, Register, Begin, BeginFails, TypeOK, SinksType, sinks
<1>9. shared' \subseteq Begun' /\ refused' \subseteq Begun'
  <2>1. OnChannel(chan[t]) \subseteq Begun
    BY DEF OnChannel, TypeOK, StateType
  <2>2. /\ UNCHANGED shared \/ shared' = shared \cup OnChannel(chan[t]) \cup {t}
        /\ UNCHANGED refused \/ refused' = refused \cup {t}
    BY DEF Handle, Ready, Connect, Register, Begin, BeginFails
  <2>3. QED BY <1>1, <1>2, <2>1, <2>2 DEF TypeOK, NotesType
<1>10. broken' \in BOOLEAN
  BY Zenon DEF Handle, Ready, Connect, Register, Begin, BeginFails, TypeOK, NotesType
<1>11. sock' \in {"open", "closed", "down"} /\ errors' \in Nat
  BY <1>1 DEF TypeOK, NotesType
<1>12. QED BY <1>1, <1>4, <1>5, <1>6, <1>7, <1>8, <1>9, <1>10, <1>11, TypeOfRest

\* Steps that change no jobs
LEMMA TypeOfQuiet ==
    ASSUME TypeOK, UNCHANGED jobs, ThreadsType', StateType', SinksType',
           Marks,
           sock' \in {"open", "closed", "down"}, errors' \in Nat, sent' \in [Tasks -> Nat],
           UNCHANGED shared, refused' \subseteq Begun, broken' \in BOOLEAN
    PROVE  TypeOK'
<1>1. Begun' = Begun /\ JobsType'
  BY DEF TypeOK, JobsType, jobs, Begun
<1>2. shared' \subseteq Begun' /\ refused' \subseteq Begun'
  BY <1>1 DEF TypeOK, NotesType
<1>3. QED BY <1>1, <1>2, TypeOfRest

\* Types over a stop command
LEMMA TypeOfStop ==
    ASSUME TypeOK, NEW t \in Tasks, Stop(t), Marks
    PROVE  TypeOK'
<1>1. /\ UNCHANGED jobs /\ UNCHANGED begun /\ Begun' = Begun /\ UNCHANGED <<sock, errors, sent>>
      /\ UNCHANGED shared /\ refused' \subseteq Begun
  BY DEF Stop, jobs, Begun, notes, TypeOK, NotesType
<1>2. t \in Begun /\ active' \subseteq active
  BY DEF Stop, TypeOK, StateType
<1>3. StateType' /\ SinksType'
  <2>1. StateType'
    BY <1>1, <1>2 DEF Stop, TypeOK, StateType
  <2>2. SinksType'
    BY <1>1 DEF Stop, TypeOK, SinksType, sinks
  <2>3. QED BY <2>1, <2>2
<1>4. ThreadsType'
  <2>1. StopAt(t) \in Places["handler"] /\ "handler" \in Threads
    BY PlaceFacts DEF StopAt, Ending, Joining, Threads
  <2>2. QED BY <1>1, <1>2, <2>1, StopMoves, TypeOfThreads DEF TypeOK
<1>5. /\ sock' \in {"open", "closed", "down"} /\ errors' \in Nat /\ sent' \in [Tasks -> Nat]
  BY <1>1 DEF TypeOK, NotesType
<1>6. broken' \in BOOLEAN
  BY Zenon DEF Stop, TypeOK, NotesType, notes
<1>7. QED BY <1>1, <1>3, <1>4, <1>5, <1>6, TypeOfQuiet

\* Types over the callbacks
LEMMA TypeOfCallback ==
    ASSUME TypeOK, Expire \/ StreamEnds, Marks
    PROVE  TypeOK'
<1>1. /\ UNCHANGED jobs /\ UNCHANGED begun /\ Begun' = Begun /\ UNCHANGED <<sock, errors, sent>>
      /\ UNCHANGED <<shared, state, rtc>> /\ refused' \subseteq Begun
  BY DEF Expire, StreamEnds, jobs, Begun, TypeOK, NotesType
<1>2. StateType' /\ SinksType'
  BY <1>1 DEF Expire, StreamEnds, TypeOK, StateType, SinksType, state
<1>3. ThreadsType'
  <2>1. "find" \in Places["coordinator"] /\ "find" \in Places["streamer"]
        /\ "coordinator" \in Threads /\ "streamer" \in Threads
    BY PlaceFacts DEF Threads
  <2>2. recTask \in Begun' \cup {None} /\ streamTask \in Begun' \cup {None}
    BY <1>1 DEF TypeOK, SinksType
  <2>3. CASE Expire
    BY <1>1, <2>1, <2>2, <2>3, CallbackMoves, TypeOfThreads DEF TypeOK
  <2>4. CASE StreamEnds
    BY <1>1, <2>1, <2>2, <2>4, CallbackMoves, TypeOfThreads DEF TypeOK
  <2>5. QED BY <2>3, <2>4
<1>4. /\ sock' \in {"open", "closed", "down"} /\ errors' \in Nat /\ sent' \in [Tasks -> Nat]
  BY <1>1 DEF TypeOK, NotesType
<1>5. broken' \in BOOLEAN
  BY Zenon DEF Expire, StreamEnds, TypeOK, NotesType
<1>6. QED BY <1>1, <1>2, <1>3, <1>4, <1>5, TypeOfQuiet

\* Where a thread may be sent on from the sinks
LEMMA ThenPlaces ==
    ASSUME TypeOK, ThenInv, NEW x \in Threads, th[x].pc \in Joining
    PROVE  /\ th[x].pc = "stopSnap" => AfterSnap(x) \in Places[x] /\ AfterSnap(x) # "idle"
           /\ th[x].pc \in {"stopRec", "joinRec"} => th[x].then \in Places[x] /\ th[x].then # "idle"
           /\ th[x].pc \in {"stopStream", "joinStream"} => AfterStream(x) \in Places[x]
           /\ "joinRec" \in Places[x] /\ "joinStream" \in Places[x]
<1> USE PlaceFacts DEF Ending, Joining, ThenInv, AfterStream, AfterSnap, At
<1>1. CASE x = "handler"
  BY <1>1
<1>2. CASE x \in {"coordinator", "streamer"}
  BY <1>2
<1>3. CASE x = "sdk"
  BY <1>3
<1>4. CASE x = "main"
  BY <1>4
<1>5. QED BY <1>1, <1>2, <1>3, <1>4 DEF Threads

\* Types over the steps that end a task
LEMMA TypeOfEnd ==
    ASSUME TypeOK, HolderInv, ThenInv, NEW x \in Threads, EndStep(x), Marks
    PROVE  TypeOK'
<1> USE DEF EndStep, Find, Release, Cleanup, StopSnap, StopRec, JoinRec, StopStream, JoinStream,
        Disconnect, Report
<1>1. /\ UNCHANGED jobs /\ UNCHANGED begun /\ Begun' = Begun /\ UNCHANGED <<sock, errors>>
      /\ UNCHANGED shared
  BY DEF jobs, Begun, notes
<1>a. refused' \subseteq Begun
  <2>1. UNCHANGED refused \/ refused' = refused \cup OnChannel(chan[th[x].task])
    BY DEF notes
  <2>2. QED BY <2>1 DEF OnChannel, TypeOK, StateType, NotesType
<1>2. StateType'
  <2>1. active' \subseteq active
    BY DEF state
  <2>2. conn' \in [Channels -> {"none", "listed", "connected"}]
    BY DEF TypeOK, StateType, state
  <2>3. rtc' \in Channels \cup {None}
    BY DEF TypeOK, StateType
  <2>4. QED BY <1>1, <2>1, <2>2, <2>3 DEF TypeOK, StateType
<1>3. SinksType'
  BY <1>1 DEF TypeOK, SinksType, sinks
<1>4. sent' \in [Tasks -> Nat]
  <2>1. UNCHANGED sent \/ Send({th[x].task})
    OBVIOUS
  <2>2. QED BY <2>1, SendType DEF TypeOK, NotesType
<1>5. sock' \in {"open", "closed", "down"} /\ errors' \in Nat
  BY <1>1 DEF TypeOK, NotesType
<1>6. broken' \in BOOLEAN
  <2>1. UNCHANGED broken \/ Disconnect(x)
    BY DEF notes
  <2>2. Disconnect(x) => broken' \in BOOLEAN
    OBVIOUS
  <2>3. QED BY <2>1, <2>2, Zenon DEF TypeOK, NotesType
<1>7. ThreadsType'
  <2>1. \A pc \in Places[x] : Leaves(x, pc) \/ Moves(x, pc) => ThreadsType'
    BY <1>1, TypeOfMove DEF TypeOK
  <2>2. "idle" \in Places[x]
    BY PlaceFacts DEF Threads, Ending, Joining
  <2>3. Frees(x) => ThreadsType'
    BY <2>1, <2>2 DEF Leaves
  <2>4. CASE Find(x)
    <3>1. "release" \in Places[x] /\ "send" \in Places[x]
      BY <2>4, PlaceFacts DEF Ending
    <3>2. QED BY <2>1, <2>3, <2>4, <3>1, EndMoves, Zenon
  <2>5. CASE Release(x) \/ Cleanup(x)
    <3>1. x \in Holders
      <4>1. th[x].pc \in {"release", "cleanup"} /\ th[x].pc \in Places[x]
        BY <2>5 DEF At, TypeOK, ThreadsType
      <4>2. QED BY <4>1, PlaceFacts DEF Threads, Holders, Joining
    <3>2. {"cleanup", "send", "stopSnap"} \subseteq Places[x] /\ th[x].task \in Begun' \cup {None}
      BY <1>1, <3>1, PlaceFacts DEF Holders, Ending, Joining, TypeOK, ThreadsType
    <3>3. Release(x) => Moves(x, "cleanup") \/ Moves(x, "send")
      BY EndMoves
    <3>4. Cleanup(x) => \/ Moves(x, "send")
                        \/ Sets(x, "stopSnap", th[x].task, "stopStream", th[x].send,
                                conn[chan[th[x].task]] = "connected", th[x].had)
      BY EndMoves
    <3>5. QED BY <1>1, <2>1, <2>5, <3>2, <3>3, <3>4, TypeOfThreads DEF TypeOK
  <2>6. CASE StopRec(x) \/ JoinRec(x)
    <3>1. th[x].pc \in {"stopRec", "joinRec"}
      BY <2>6 DEF At
    <3>2. th[x].then \in Places[x] /\ "joinRec" \in Places[x]
      BY <3>1, ThenPlaces DEF Joining
    <3>3. Leaves(x, th[x].then) \/ Moves(x, "joinRec")
      BY <2>6, EndMoves, Zenon
    <3>4. QED BY <2>1, <3>2, <3>3
  <2>7. CASE StopStream(x) \/ JoinStream(x)
    <3>1. th[x].pc \in {"stopStream", "joinStream"}
      BY <2>7 DEF At
    <3>2. AfterStream(x) \in Places[x] /\ "joinStream" \in Places[x]
      BY <3>1, ThenPlaces DEF Joining
    <3>3. Leaves(x, AfterStream(x)) \/ Moves(x, "joinStream")
      BY <2>7, EndMoves, Zenon
    <3>4. QED BY <2>1, <3>2, <3>3
  <2>8. CASE Disconnect(x)
    <3>1. th[x].pc = "disconnect" /\ th[x].pc \in Places[x]
      BY <2>8 DEF At, TypeOK, ThreadsType
    <3>2. "send" \in Places[x]
      BY <3>1, PlaceFacts DEF Threads, Ending, Joining
    <3>3. QED BY <2>1, <2>8, <3>2, EndMoves
  <2>9. CASE Report(x)
    BY <2>3, <2>9, EndMoves
  <2>10. CASE StopSnap(x)
    <3>1. th[x].pc = "stopSnap"
      BY <2>10 DEF At
    <3>2. AfterSnap(x) \in Places[x]
      BY <3>1, ThenPlaces DEF Joining
    <3>3. QED BY <2>1, <2>10, <3>2, EndMoves, Zenon
  <2>11. QED BY <2>4, <2>5, <2>6, <2>7, <2>8, <2>9, <2>10
<1>8. QED BY <1>1, <1>a, <1>2, <1>3, <1>4, <1>5, <1>6, <1>7, TypeOfQuiet

\* Types over an SDK error, and over the end of the worker
LEMMA TypeOfSdk ==
    ASSUME TypeOK, CaptureHangs \/ SdkError \/ FailAll \/ FailStream \/ Hangup \/ Shutdown,
           Marks
    PROVE  TypeOK'
<1> USE DEF CaptureHangs, SdkError, FailAll, FailStream, Hangup, Shutdown
<1>1. /\ UNCHANGED jobs /\ UNCHANGED begun /\ Begun' = Begun /\ UNCHANGED shared
      /\ refused' \subseteq Begun
  BY DEF jobs, Begun, notes, TypeOK, NotesType
<1>2. StateType' /\ SinksType'
  BY <1>1 DEF TypeOK, StateType, SinksType, state, sinks
<1>3. sock' \in {"open", "closed", "down"} /\ errors' \in Nat
  BY DEF TypeOK, NotesType
<1>4. sent' \in [Tasks -> Nat]
  <2>1. UNCHANGED sent \/ Send(active)
    OBVIOUS
  <2>2. QED BY <2>1, SendType DEF TypeOK, NotesType
<1>5. broken' \in BOOLEAN
  BY Zenon DEF notes, TypeOK, NotesType
<1>6. ThreadsType'
  <2>1. /\ {"idle", "fail", "stopSnap", "stopRec", "failStream", "stopStream"} \subseteq Places["sdk"]
        /\ "stopSnap" \in Places["main"] /\ "sdk" \in Threads /\ "main" \in Threads
    BY PlaceFacts DEF Joining, Threads
  <2>2. th["sdk"].task \in Begun' \cup {None} /\ None \in Begun' \cup {None} /\ Begun \subseteq Begun'
    BY <1>1, <2>1 DEF TypeOK, ThreadsType
  <2>3. CASE SdkError
    BY <2>1, <2>2, <2>3, FailMoves, TypeOfThreads DEF TypeOK
  <2>4. CASE FailAll
    <3>1. FirstSink \in Places["sdk"]
      BY <2>1 DEF FirstSink, NextSink
    <3>2. QED BY <2>1, <2>2, <2>4, <3>1, FailMoves, TypeOfThreads DEF TypeOK
  <2>5. CASE FailStream
    <3>1. \/ Sets("sdk", "stopStream", th["sdk"].task, "idle", th["sdk"].send, th["sdk"].was, th["sdk"].had)
          \/ Frees("sdk")
      BY <2>5, FailMoves
    <3>2. Frees("sdk") => ThreadsType'
      BY <1>1, <2>1, TypeOfMove DEF TypeOK, Leaves
    <3>3. QED BY <2>1, <2>2, <3>1, <3>2, TypeOfThreads DEF TypeOK
  <2>6. CASE Hangup \/ CaptureHangs
    BY <1>1, <2>6 DEF TypeOK, ThreadsType
  <2>7. CASE Shutdown
    BY <2>1, <2>2, <2>7, FailMoves, TypeOfThreads DEF TypeOK
  <2>8. QED BY <2>3, <2>4, <2>5, <2>6, <2>7
<1>7. QED BY <1>1, <1>2, <1>3, <1>4, <1>5, <1>6, TypeOfQuiet

\* Every step keeps the types.
LEMMA TypeStep == TypeOK /\ HolderInv /\ ThenInv /\ [Next]_vars => TypeOK'
<1> SUFFICES ASSUME TypeOK, HolderInv, ThenInv, [Next]_vars PROVE TypeOK'
  OBVIOUS
<1>1. CASE UNCHANGED vars
  BY <1>1 DEF vars, TypeOK, JobsType, StateType, SinksType, ThreadsType, NotesType, jobs, state,
         sinks, notes, Begun
<1>2. CASE Next
  <2>1. Marks /\ Step
    BY <1>2 DEF Next
  <2>2. QED BY <2>1, TypeOfStart, TypeOfStop, TypeOfHandle, TypeOfCallback, TypeOfEnd,
                   TypeOfSdk DEF Step, Fail
<1>3. QED BY <1>1, <1>2

-----------------------------------------------------------------------------
(* What each step changes *)

\* Two threads that meet over a task are seen, and so is a start beside
\* another thread.
LEMMA Met ==
    ASSUME TypeOK, RaceInv, NEW x \in Threads, NEW y \in Threads \ {x}, th[x].task # None,
           Busy(y)
    PROVE  /\ th[y].task = th[x].task \/ y = "sdk" => th[x].task \in met
           /\ th[y].task = th[x].task \/ y = "sdk" \/ (x = "handler" /\ Starting)
                => th[x].task \in raced
<1>1. th[x].task \in Tasks
  BY BegunTasks DEF TypeOK, ThreadsType
<1>2. th[y].task = th[x].task \/ y = "sdk" => th[x].task \in Meeting
  BY <1>1 DEF Meeting
<1>3. x = "handler" /\ Starting => th[x].task \in Racing
  BY <1>1 DEF Racing
<1>4. QED BY <1>2, <1>3 DEF RaceInv

\* What was met stays met.
LEMMA MarksKept == RaceInv /\ Marks => RaceInv'
  BY DEF RaceInv, Racing

\* Which threads run cleanupConnection() for a task
LEMMA PlaceOf ==
    ASSUME TypeOK, NEW x \in Threads
    PROVE  /\ th[x].pc \in {"release", "cleanup"} => x \in Holders
           /\ th[x].pc \in {"disconnect", "send"} => x \in Holders \cup {"main"}
           /\ th[x].pc = "find" => x \in {"coordinator", "streamer"}
  BY PlaceFacts DEF TypeOK, ThreadsType, Threads, Holders, Ending, Joining

\* Only the thread of a step moves.
LEMMA Stays ==
    ASSUME TypeOK, NEW x \in Threads, EndStep(x)
    PROVE  \A y \in Threads \ {x} : th'[y] = th[y]
<1>1. ASSUME NEW pc, Moves(x, pc) \/ Frees(x) \/ Leaves(x, pc) PROVE \A y \in Threads \ {x} : th'[y] = th[y]
  BY <1>1 DEF Moves, Frees, Leaves, Sets
<1>2. (\E pc : Moves(x, pc) \/ Leaves(x, pc)) \/ Frees(x) \/ Cleanup(x)
  BY EndMoves, Zenon DEF EndStep
<1>3. Cleanup(x) => \A y \in Threads \ {x} : th'[y] = th[y]
  BY EndMoves DEF Moves, Sets
<1>4. QED BY <1>1, <1>2, <1>3, Zenon

\* A task that is being started by itself is not met by other threads.
LEMMA Alone ==
    ASSUME TypeOK, Control, NEW y \in Threads \ {"handler"}, Busy(y),
           th["handler"].pc \in {"ready", "connect", "register", "begin"} \/ Fresh
    PROVE  th["handler"].task \in raced
<1>1. Starting /\ ~At("handler", "idle")
  BY DEF Starting, Fresh, At
<1>2. "handler" \in Threads /\ th["handler"].task # None
  BY <1>1 DEF Threads, Control, HolderInv, Holders, TaskOf
<1>3. QED BY <1>1, <1>2, Met DEF Control

\* What Ready changes
LEMMA ReadyEffect ==
    ASSUME TypeOK, Ready
    PROVE  /\ th'["coordinator"] = th["coordinator"] /\ th'["streamer"] = th["streamer"]
           /\ th'["sdk"] = th["sdk"] /\ th'["main"] = th["main"]
           /\ \/ /\ UNCHANGED sent /\ stream' = "ready" /\ th'["handler"].pc = "connect"
                 /\ th'["handler"].task = th["handler"].task
                 /\ th'["handler"].then = th["handler"].then
                 /\ th'["handler"].send = th["handler"].send
                 /\ th'["handler"].had = th["handler"].had
              \/ /\ Send({th["handler"].task}) /\ UNCHANGED stream /\ th'["handler"].pc = "idle"
                 /\ th'["handler"].task = None /\ th'["handler"].then = "idle"
           /\ UNCHANGED <<kind, chan, active, conn, rtc, rec, recTask, snap, streamTask, sock,
                          shared, refused, broken, begun>>
<1>1. \A y \in Threads \ {"handler"} : th'[y] = th[y]
  BY HandleMoves DEF Moves, Frees, Sets
<1>2. \/ /\ UNCHANGED sent /\ stream' = "ready" /\ th'["handler"].pc = "connect"
         /\ th'["handler"].task = th["handler"].task /\ th'["handler"].then = th["handler"].then
         /\ th'["handler"].send = th["handler"].send /\ th'["handler"].had = th["handler"].had
      \/ /\ Send({th["handler"].task}) /\ UNCHANGED stream /\ th'["handler"].pc = "idle"
         /\ th'["handler"].task = None /\ th'["handler"].then = "idle"
  BY HandleMoves DEF Leaves, Moves, Frees, Sets
<1>3. UNCHANGED <<kind, chan, active, conn, rtc, rec, recTask, snap, streamTask, sock,
                 shared, refused, broken, begun>>
  BY DEF Ready, jobs, state, sinks, notes
<1>4. QED BY <1>1, <1>2, <1>3 DEF Threads

\* What Connect changes
LEMMA ConnectEffect ==
    ASSUME TypeOK, Connect
    PROVE  /\ th'["coordinator"] = th["coordinator"] /\ th'["streamer"] = th["streamer"]
           /\ th'["sdk"] = th["sdk"] /\ th'["main"] = th["main"]
           /\ \/ /\ Connected(th["handler"].task) /\ th'["handler"].pc = "register"
                 /\ th'["handler"].task = th["handler"].task
                 /\ th'["handler"].then = th["handler"].then
                 /\ th'["handler"].send = th["handler"].send
                 /\ th'["handler"].had = th["handler"].had
              \/ /\ Refuses(th["handler"].task) /\ th'["handler"].pc = "idle"
                 /\ th'["handler"].task = None /\ th'["handler"].then = "idle"
           /\ UNCHANGED <<kind, chan, active, rec, recTask, snap, streamTask, sock, shared,
                          broken, begun>>
<1>1. \A y \in Threads \ {"handler"} : th'[y] = th[y]
  BY HandleMoves DEF Moves, Frees, Sets
<1>2. \/ /\ Connected(th["handler"].task) /\ th'["handler"].pc = "register"
         /\ th'["handler"].task = th["handler"].task /\ th'["handler"].then = th["handler"].then
         /\ th'["handler"].send = th["handler"].send /\ th'["handler"].had = th["handler"].had
      \/ /\ Refuses(th["handler"].task) /\ th'["handler"].pc = "idle"
         /\ th'["handler"].task = None /\ th'["handler"].then = "idle"
  BY HandleMoves DEF Leaves, Moves, Frees, Sets
<1>3. UNCHANGED <<kind, chan, active, rec, recTask, snap, streamTask, sock, shared,
                 broken, begun>>
  BY DEF Connect, jobs, state, sinks, notes
<1>4. QED BY <1>1, <1>2, <1>3 DEF Threads

\* What Register changes
LEMMA RegisterEffect ==
    ASSUME TypeOK, Register
    PROVE  /\ th'["coordinator"] = th["coordinator"] /\ th'["streamer"] = th["streamer"]
           /\ th'["sdk"] = th["sdk"] /\ th'["main"] = th["main"]
           /\ \/ /\ UNCHANGED shared
                 /\ ~(kind[th["handler"].task] = "record" /\ Shares(th["handler"].task))
                 /\ th'["handler"].pc = "begin" /\ th'["handler"].task = th["handler"].task
                 /\ th'["handler"].then = th["handler"].then
                 /\ th'["handler"].send = th["handler"].send
                 /\ th'["handler"].had = th["handler"].had
              \/ /\ kind[th["handler"].task] = "record" /\ Shares(th["handler"].task)
                 /\ shared' = shared \cup OnChannel(chan[th["handler"].task]) \cup {th["handler"].task}
                 /\ th'["handler"].pc = "idle" /\ th'["handler"].task = None
                 /\ th'["handler"].then = "idle"
           /\ UNCHANGED <<kind, chan, rtc, rec, recTask, snap, stream, streamTask, sock, sent,
                          refused, broken, begun>>
<1>1. \A y \in Threads \ {"handler"} : th'[y] = th[y]
  BY HandleMoves DEF Moves, Frees, Sets
<1>2. \/ /\ UNCHANGED shared
         /\ ~(kind[th["handler"].task] = "record" /\ Shares(th["handler"].task))
         /\ th'["handler"].pc = "begin" /\ th'["handler"].task = th["handler"].task
         /\ th'["handler"].then = th["handler"].then
         /\ th'["handler"].send = th["handler"].send /\ th'["handler"].had = th["handler"].had
      \/ /\ kind[th["handler"].task] = "record" /\ Shares(th["handler"].task)
         /\ shared' = shared \cup OnChannel(chan[th["handler"].task]) \cup {th["handler"].task}
         /\ th'["handler"].pc = "idle" /\ th'["handler"].task = None
         /\ th'["handler"].then = "idle"
  BY HandleMoves DEF Leaves, Moves, Frees, Sets
<1>3. UNCHANGED <<kind, chan, rtc, rec, recTask, snap, stream, streamTask, sock, sent,
                 refused, broken, begun>>
  BY DEF Register, jobs, state, sinks, notes
<1>4. QED BY <1>1, <1>2, <1>3 DEF Threads

\* What Begin changes
LEMMA BeginEffect ==
    ASSUME TypeOK, Begin
    PROVE  /\ th'["coordinator"] = th["coordinator"] /\ th'["streamer"] = th["streamer"]
           /\ th'["sdk"] = th["sdk"] /\ th'["main"] = th["main"]
           /\ th'["handler"].pc = "idle" /\ th'["handler"].task = None
           /\ th'["handler"].then = "idle"
           /\ UNCHANGED <<kind, chan, active, conn, rtc, sock, sent, shared, refused, broken,
                          begun>>
<1>1. \A y \in Threads \ {"handler"} : th'[y] = th[y]
  BY HandleMoves DEF Moves, Frees, Sets
<1>2. \/ /\ th'["handler"].pc = "idle" /\ th'["handler"].task = None
         /\ th'["handler"].then = "idle"
  BY HandleMoves DEF Leaves, Moves, Frees, Sets
<1>3. UNCHANGED <<kind, chan, active, conn, rtc, sock, sent, shared, refused, broken,
                 begun>>
  BY DEF Begin, jobs, state, sinks, notes
<1>4. QED BY <1>1, <1>2, <1>3 DEF Threads

\* What BeginFails changes
LEMMA BeginFailsEffect ==
    ASSUME TypeOK, BeginFails
    PROVE  /\ th'["coordinator"] = th["coordinator"] /\ th'["streamer"] = th["streamer"]
           /\ th'["sdk"] = th["sdk"] /\ th'["main"] = th["main"]
           /\ th'["handler"].pc = "release" /\ th'["handler"].task = th["handler"].task
           /\ th'["handler"].then = th["handler"].then
           /\ th'["handler"].send = th["handler"].send /\ th'["handler"].had = th["handler"].had
           /\ UNCHANGED <<kind, chan, active, conn, rtc, rec, recTask, snap, stream, streamTask,
                          sock, sent, shared, broken, begun>>
<1>1. \A y \in Threads \ {"handler"} : th'[y] = th[y]
  BY HandleMoves DEF Moves, Frees, Sets
<1>2. \/ /\ th'["handler"].pc = "release" /\ th'["handler"].task = th["handler"].task
         /\ th'["handler"].then = th["handler"].then
         /\ th'["handler"].send = th["handler"].send /\ th'["handler"].had = th["handler"].had
  BY HandleMoves DEF Leaves, Moves, Frees, Sets
<1>3. UNCHANGED <<kind, chan, active, conn, rtc, rec, recTask, snap, stream, streamTask,
                 sock, sent, shared, broken, begun>>
  BY DEF BeginFails, jobs, state, sinks, notes
<1>4. QED BY <1>1, <1>2, <1>3 DEF Threads

\* What Stop changes
LEMMA StopEffect ==
    ASSUME TypeOK, NEW t \in Tasks, Stop(t)
    PROVE  /\ th'["coordinator"] = th["coordinator"] /\ th'["streamer"] = th["streamer"]
           /\ th'["sdk"] = th["sdk"] /\ th'["main"] = th["main"]
           /\ th'["handler"].pc = StopAt(t) /\ th'["handler"].task = t
           /\ th'["handler"].then = "release"
           /\ th'["handler"].send = TRUE /\ th'["handler"].had = {}
           /\ UNCHANGED <<kind, chan, conn, rtc, rec, recTask, snap, stream, streamTask, sock,
                          sent, shared, refused, broken, begun>>
<1>1. \A y \in Threads \ {"handler"} : th'[y] = th[y]
  BY StopMoves DEF Moves, Frees, Sets
<1>2. \/ /\ th'["handler"].pc = StopAt(t) /\ th'["handler"].task = t
         /\ th'["handler"].then = "release"
         /\ th'["handler"].send = TRUE /\ th'["handler"].had = {}
  BY StopMoves DEF Leaves, Moves, Frees, Sets
<1>3. UNCHANGED <<kind, chan, conn, rtc, rec, recTask, snap, stream, streamTask, sock, sent,
                 shared, refused, broken, begun>>
  BY DEF Stop, jobs, state, sinks, notes
<1>4. QED BY <1>1, <1>2, <1>3 DEF Threads

\* What Expire changes
LEMMA ExpireEffect ==
    ASSUME TypeOK, Expire
    PROVE  /\ th'["handler"] = th["handler"] /\ th'["streamer"] = th["streamer"]
           /\ th'["sdk"] = th["sdk"] /\ th'["main"] = th["main"]
           /\ th'["coordinator"].pc = "find" /\ th'["coordinator"].task = recTask
           /\ th'["coordinator"].then = "idle"
           /\ th'["coordinator"].send = TRUE /\ th'["coordinator"].had = {}
           /\ UNCHANGED <<kind, chan, active, conn, rtc, recTask, snap, stream, streamTask,
                          sock, sent, shared, refused, broken, begun>>
<1>1. \A y \in Threads \ {"coordinator"} : th'[y] = th[y]
  BY CallbackMoves DEF Moves, Frees, Sets
<1>2. \/ /\ th'["coordinator"].pc = "find" /\ th'["coordinator"].task = recTask
         /\ th'["coordinator"].then = "idle"
         /\ th'["coordinator"].send = TRUE /\ th'["coordinator"].had = {}
  BY CallbackMoves DEF Leaves, Moves, Frees, Sets
<1>3. UNCHANGED <<kind, chan, active, conn, rtc, recTask, snap, stream, streamTask,
                 sock, sent, shared, refused, broken, begun>>
  BY DEF Expire, jobs, state, sinks, notes
<1>4. QED BY <1>1, <1>2, <1>3 DEF Threads

\* What StreamEnds changes
LEMMA StreamEndsEffect ==
    ASSUME TypeOK, StreamEnds
    PROVE  /\ th'["handler"] = th["handler"] /\ th'["coordinator"] = th["coordinator"]
           /\ th'["sdk"] = th["sdk"] /\ th'["main"] = th["main"]
           /\ th'["streamer"].pc = "find" /\ th'["streamer"].task = streamTask
           /\ th'["streamer"].then = "idle"
           /\ th'["streamer"].send = TRUE /\ th'["streamer"].had = {}
           /\ UNCHANGED <<kind, chan, active, conn, rtc, rec, recTask, snap, streamTask, sock,
                          sent, shared, refused, broken, begun>>
<1>1. \A y \in Threads \ {"streamer"} : th'[y] = th[y]
  BY CallbackMoves DEF Moves, Frees, Sets
<1>2. \/ /\ th'["streamer"].pc = "find" /\ th'["streamer"].task = streamTask
         /\ th'["streamer"].then = "idle"
         /\ th'["streamer"].send = TRUE /\ th'["streamer"].had = {}
  BY CallbackMoves DEF Leaves, Moves, Frees, Sets
<1>3. UNCHANGED <<kind, chan, active, conn, rtc, rec, recTask, snap, streamTask, sock,
                 sent, shared, refused, broken, begun>>
  BY DEF StreamEnds, jobs, state, sinks, notes
<1>4. QED BY <1>1, <1>2, <1>3 DEF Threads

\* What SdkError changes
LEMMA SdkErrorEffect ==
    ASSUME TypeOK, SdkError
    PROVE  /\ th'["handler"] = th["handler"] /\ th'["coordinator"] = th["coordinator"]
           /\ th'["streamer"] = th["streamer"] /\ th'["main"] = th["main"]
           /\ th'["sdk"].pc = "fail" /\ th'["sdk"].task = None /\ th'["sdk"].then = "idle"
           /\ th'["sdk"].send = FALSE /\ th'["sdk"].had = {kind[t] : t \in active}
           /\ UNCHANGED <<kind, chan, active, conn, rtc, rec, recTask, snap, stream, streamTask,
                          sock, sent, shared, refused, broken, begun>>
<1>1. \A y \in Threads \ {"sdk"} : th'[y] = th[y]
  BY FailMoves DEF Moves, Frees, Sets
<1>2. \/ /\ th'["sdk"].pc = "fail" /\ th'["sdk"].task = None /\ th'["sdk"].then = "idle"
         /\ th'["sdk"].send = FALSE /\ th'["sdk"].had = {kind[t] : t \in active}
  BY FailMoves DEF Leaves, Moves, Frees, Sets
<1>3. UNCHANGED <<kind, chan, active, conn, rtc, rec, recTask, snap, stream, streamTask,
                 sock, sent, shared, refused, broken, begun>>
  BY DEF SdkError, jobs, state, sinks, notes
<1>4. QED BY <1>1, <1>2, <1>3 DEF Threads

\* What FailAll changes
LEMMA FailAllEffect ==
    ASSUME TypeOK, FailAll
    PROVE  /\ th'["handler"] = th["handler"] /\ th'["coordinator"] = th["coordinator"]
           /\ th'["streamer"] = th["streamer"] /\ th'["main"] = th["main"]
           /\ th'["sdk"].task = th["sdk"].task /\ th'["sdk"].then = NextSink
           /\ th'["sdk"].send = th["sdk"].send /\ th'["sdk"].had = th["sdk"].had
           /\ \/ th'["sdk"].pc = "stopRec" /\ "record" \in th["sdk"].had
              \/ /\ th'["sdk"].pc = "stopSnap" /\ "record" \notin th["sdk"].had
                 /\ "snapshot" \in th["sdk"].had
              \/ /\ th'["sdk"].pc = "failStream" /\ "record" \notin th["sdk"].had
                 /\ "snapshot" \notin th["sdk"].had
           /\ UNCHANGED <<kind, chan, rtc, rec, recTask, snap, stream, streamTask, sock, shared,
                          refused, begun>>
<1>1. \A y \in Threads \ {"sdk"} : th'[y] = th[y]
  BY FailMoves DEF Sets
<1>2. /\ th'["sdk"].task = th["sdk"].task /\ th'["sdk"].then = NextSink
      /\ th'["sdk"].send = th["sdk"].send /\ th'["sdk"].had = th["sdk"].had
      /\ th'["sdk"].pc = FirstSink
  BY FailMoves DEF Sets
<1>3. UNCHANGED <<kind, chan, rtc, rec, recTask, snap, stream, streamTask, sock, shared,
                 refused, begun>>
  BY DEF FailAll, jobs, state, sinks, notes
<1>4. QED BY <1>1, <1>2, <1>3 DEF Threads, FirstSink, NextSink

\* What FailStream changes
LEMMA FailStreamEffect ==
    ASSUME TypeOK, FailStream
    PROVE  /\ th'["handler"] = th["handler"] /\ th'["coordinator"] = th["coordinator"]
           /\ th'["streamer"] = th["streamer"] /\ th'["main"] = th["main"]
           /\ \/ /\ "stream" \in th["sdk"].had /\ th'["sdk"].pc = "stopStream"
                 /\ th'["sdk"].task = th["sdk"].task /\ th'["sdk"].then = "idle"
                 /\ th'["sdk"].send = th["sdk"].send /\ th'["sdk"].had = th["sdk"].had
              \/ /\ "stream" \notin th["sdk"].had /\ th'["sdk"].pc = "idle"
                 /\ th'["sdk"].task = None /\ th'["sdk"].then = "idle"
           /\ UNCHANGED <<kind, chan, active, conn, rtc, rec, recTask, snap, stream, streamTask,
                          sock, sent, shared, refused, broken, begun>>
<1>1. \A y \in Threads \ {"sdk"} : th'[y] = th[y]
  BY FailMoves DEF Moves, Frees, Sets
<1>2. \/ /\ "stream" \in th["sdk"].had /\ th'["sdk"].pc = "stopStream"
         /\ th'["sdk"].task = th["sdk"].task /\ th'["sdk"].then = "idle"
         /\ th'["sdk"].send = th["sdk"].send /\ th'["sdk"].had = th["sdk"].had
      \/ /\ "stream" \notin th["sdk"].had /\ th'["sdk"].pc = "idle" /\ th'["sdk"].task = None
         /\ th'["sdk"].then = "idle"
  BY FailMoves DEF Leaves, Moves, Frees, Sets
<1>3. UNCHANGED <<kind, chan, active, conn, rtc, rec, recTask, snap, stream, streamTask, sock,
                 sent, shared, refused, broken, begun>>
  BY DEF FailStream, jobs, state, sinks, notes
<1>4. QED BY <1>1, <1>2, <1>3 DEF Threads

\* What Shutdown changes
LEMMA ShutdownEffect ==
    ASSUME TypeOK, Shutdown
    PROVE  /\ th'["handler"] = th["handler"] /\ th'["coordinator"] = th["coordinator"]
           /\ th'["streamer"] = th["streamer"] /\ th'["sdk"] = th["sdk"]
           /\ th'["main"].pc = "stopSnap" /\ th'["main"].task = None
           /\ th'["main"].then = "stopStream"
           /\ th'["main"].send = FALSE /\ th'["main"].had = {} /\ th'["main"].was
           /\ UNCHANGED <<kind, chan, rtc, rec, recTask, snap, stream, streamTask, sent, shared,
                          refused, broken, begun>>
<1>1. \A y \in Threads \ {"main"} : th'[y] = th[y]
  BY FailMoves DEF Moves, Frees, Sets
<1>2. \/ /\ th'["main"].pc = "stopSnap" /\ th'["main"].task = None
         /\ th'["main"].then = "stopStream"
         /\ th'["main"].send = FALSE /\ th'["main"].had = {} /\ th'["main"].was
  BY FailMoves DEF Leaves, Moves, Frees, Sets
<1>3. UNCHANGED <<kind, chan, rtc, rec, recTask, snap, stream, streamTask, sent, shared,
                 refused, broken, begun>>
  BY DEF Shutdown, jobs, state, sinks, notes
<1>4. QED BY <1>1, <1>2, <1>3 DEF Threads

\* What Find changes
LEMMA FindEffect ==
    ASSUME TypeOK, NEW x \in Threads, Find(x)
    PROVE  /\ \A y \in {"handler", "coordinator", "streamer", "sdk", "main"} : y # x => th'[y] = th[y]
           /\ \/ /\ th[x].task \in active /\ th'[x].pc = "release" /\ th'[x].task = th[x].task
                 /\ th'[x].then = th[x].then
                 /\ th'[x].send = th[x].send /\ th'[x].had = th[x].had
              \/ /\ x = "coordinator" /\ th[x].task \notin active /\ th'[x].pc = "send"
                 /\ th'[x].task = th[x].task /\ th'[x].then = th[x].then
                 /\ th'[x].send = th[x].send /\ th'[x].had = th[x].had
              \/ /\ x = "streamer" /\ th[x].task \notin active /\ th'[x].pc = "idle"
                 /\ th'[x].task = None /\ th'[x].then = "idle"
           /\ UNCHANGED <<kind, chan, sock, shared, refused, begun, active, conn, rtc, snap,
                          sent, broken, rec, recTask, stream, streamTask>>
<1>1. \A y \in Threads \ {x} : th'[y] = th[y]
  BY Stays DEF EndStep
<1>2. \/ /\ th[x].task \in active /\ th'[x].pc = "release" /\ th'[x].task = th[x].task
         /\ th'[x].then = th[x].then
         /\ th'[x].send = th[x].send /\ th'[x].had = th[x].had
      \/ /\ x = "coordinator" /\ th[x].task \notin active /\ th'[x].pc = "send"
         /\ th'[x].task = th[x].task /\ th'[x].then = th[x].then
         /\ th'[x].send = th[x].send /\ th'[x].had = th[x].had
      \/ /\ x = "streamer" /\ th[x].task \notin active /\ th'[x].pc = "idle" /\ th'[x].task = None
         /\ th'[x].then = "idle"
  BY EndMoves DEF Find, Leaves, Moves, Frees, Sets
<1>3. UNCHANGED <<kind, chan, sock, shared, refused, begun, active, conn, rtc, snap,
                 sent, broken, rec, recTask, stream, streamTask>>
  BY DEF Find, jobs, state, sinks, notes
<1>4. QED BY <1>1, <1>2, <1>3 DEF Threads

\* What Release changes
LEMMA ReleaseEffect ==
    ASSUME TypeOK, NEW x \in Threads, Release(x)
    PROVE  /\ \A y \in {"handler", "coordinator", "streamer", "sdk", "main"} : y # x => th'[y] = th[y]
           /\ \/ /\ conn[chan[th[x].task]] # "none"
                 /\ OnChannel(chan[th[x].task]) \subseteq {th[x].task} /\ th'[x].pc = "cleanup"
                 /\ th'[x].task = th[x].task /\ th'[x].then = th[x].then
                 /\ th'[x].send = th[x].send /\ th'[x].had = th[x].had
              \/ /\ ~(conn[chan[th[x].task]] # "none" /\ OnChannel(chan[th[x].task]) \subseteq {th[x].task})
                 /\ th'[x].pc = "send" /\ th'[x].task = th[x].task /\ th'[x].then = th[x].then
                 /\ th'[x].send = th[x].send /\ th'[x].had = th[x].had
           /\ UNCHANGED <<kind, chan, sock, shared, refused, begun, conn, rtc, snap, sent,
                          broken, rec, recTask, stream, streamTask>>
<1>1. \A y \in Threads \ {x} : th'[y] = th[y]
  BY Stays DEF EndStep
<1>2. \/ /\ conn[chan[th[x].task]] # "none" /\ OnChannel(chan[th[x].task]) \subseteq {th[x].task}
         /\ th'[x].pc = "cleanup" /\ th'[x].task = th[x].task /\ th'[x].then = th[x].then
         /\ th'[x].send = th[x].send /\ th'[x].had = th[x].had
      \/ /\ ~(conn[chan[th[x].task]] # "none" /\ OnChannel(chan[th[x].task]) \subseteq {th[x].task})
         /\ th'[x].pc = "send" /\ th'[x].task = th[x].task /\ th'[x].then = th[x].then
         /\ th'[x].send = th[x].send /\ th'[x].had = th[x].had
  BY EndMoves DEF Leaves, Moves, Frees, Sets
<1>3. UNCHANGED <<kind, chan, sock, shared, refused, begun, conn, rtc, snap, sent,
                 broken, rec, recTask, stream, streamTask>>
  BY DEF Release, jobs, state, sinks, notes
<1>4. QED BY <1>1, <1>2, <1>3 DEF Threads

\* What Cleanup changes
LEMMA CleanupEffect ==
    ASSUME TypeOK, NEW x \in Threads, Cleanup(x)
    PROVE  /\ \A y \in {"handler", "coordinator", "streamer", "sdk", "main"} : y # x => th'[y] = th[y]
           /\ \/ /\ conn[chan[th[x].task]] = "none" /\ th'[x].pc = "send"
                 /\ th'[x].task = th[x].task /\ th'[x].then = th[x].then
                 /\ th'[x].send = th[x].send /\ th'[x].had = th[x].had
              \/ /\ conn[chan[th[x].task]] # "none"
                 /\ th'[x].was = (conn[chan[th[x].task]] = "connected") /\ th'[x].pc = "stopSnap"
                 /\ th'[x].task = th[x].task /\ th'[x].then = "stopStream"
                 /\ th'[x].send = th[x].send /\ th'[x].had = th[x].had
           /\ UNCHANGED <<kind, chan, sock, shared, begun, rtc, sent, broken, rec, recTask, snap,
                          stream, streamTask>>
<1>1. \A y \in Threads \ {x} : th'[y] = th[y]
  BY Stays DEF EndStep
<1>2. \/ /\ conn[chan[th[x].task]] = "none" /\ th'[x].pc = "send" /\ th'[x].task = th[x].task
         /\ th'[x].then = th[x].then
         /\ th'[x].send = th[x].send /\ th'[x].had = th[x].had
      \/ /\ conn[chan[th[x].task]] # "none" /\ th'[x].was = (conn[chan[th[x].task]] = "connected")
         /\ th'[x].pc = "stopSnap" /\ th'[x].task = th[x].task /\ th'[x].then = "stopStream"
         /\ th'[x].send = th[x].send /\ th'[x].had = th[x].had
  BY EndMoves DEF Leaves, Moves, Frees, Sets
<1>3. UNCHANGED <<kind, chan, sock, shared, begun, rtc, sent, broken, rec, recTask, snap,
                 stream, streamTask>>
  BY DEF Cleanup, jobs, state, sinks, notes
<1>4. QED BY <1>1, <1>2, <1>3 DEF Threads

\* What StopSnap changes
LEMMA StopSnapEffect ==
    ASSUME TypeOK, ThenInv, NEW x \in Threads, StopSnap(x)
    PROVE  /\ \A y \in {"handler", "coordinator", "streamer", "sdk", "main"} : y # x => th'[y] = th[y]
           /\ AfterSnap(x) # "idle" /\ th'[x].pc = AfterSnap(x) /\ th'[x].task = th[x].task
           /\ th'[x].then = th[x].then
           /\ th'[x].send = th[x].send /\ th'[x].had = th[x].had /\ th'[x].was = th[x].was
           /\ UNCHANGED <<kind, chan, sock, shared, refused, begun, active, conn, rtc, sent,
                          broken, rec, recTask, stream, streamTask>>
<1>1. \A y \in Threads \ {x} : th'[y] = th[y]
  BY Stays DEF EndStep
<1>2. /\ AfterSnap(x) # "idle" /\ th'[x].pc = AfterSnap(x) /\ th'[x].task = th[x].task
      /\ th'[x].then = th[x].then
      /\ th'[x].send = th[x].send /\ th'[x].had = th[x].had /\ th'[x].was = th[x].was
  <2>1. AfterSnap(x) # "idle"
    BY ThenPlaces DEF StopSnap, At, Joining
  <2>2. Moves(x, AfterSnap(x))
    BY <2>1, EndMoves DEF Leaves
  <2>3. QED BY <2>1, <2>2 DEF Moves, Sets
<1>3. UNCHANGED <<kind, chan, sock, shared, refused, begun, active, conn, rtc, sent,
                 broken, rec, recTask, stream, streamTask>>
  BY DEF StopSnap, jobs, state, sinks, notes
<1>4. QED BY <1>1, <1>2, <1>3 DEF Threads

\* What StopRec changes
LEMMA StopRecEffect ==
    ASSUME TypeOK, ThenInv, NEW x \in Threads, StopRec(x)
    PROVE  /\ \A y \in {"handler", "coordinator", "streamer", "sdk", "main"} : y # x => th'[y] = th[y]
           /\ \/ /\ (x = "coordinator" \/ rec = "off") /\ th[x].then # "idle"
                 /\ th'[x].pc = th[x].then /\ th'[x].task = th[x].task /\ th'[x].then = th[x].then
                 /\ th'[x].send = th[x].send /\ th'[x].had = th[x].had /\ th'[x].was = th[x].was
              \/ /\ th'[x].pc = "joinRec" /\ th'[x].task = th[x].task /\ th'[x].then = th[x].then
                 /\ th'[x].send = th[x].send /\ th'[x].had = th[x].had /\ th'[x].was = th[x].was
           /\ UNCHANGED <<kind, chan, sock, shared, refused, begun, active, conn, rtc, snap,
                          sent, broken, rec, recTask, stream, streamTask>>
<1>1. \A y \in Threads \ {x} : th'[y] = th[y]
  BY Stays DEF EndStep
<1>2. \/ /\ (x = "coordinator" \/ rec = "off") /\ th[x].then # "idle" /\ th'[x].pc = th[x].then
         /\ th'[x].task = th[x].task /\ th'[x].then = th[x].then
         /\ th'[x].send = th[x].send /\ th'[x].had = th[x].had /\ th'[x].was = th[x].was
      \/ /\ th'[x].pc = "joinRec" /\ th'[x].task = th[x].task /\ th'[x].then = th[x].then
         /\ th'[x].send = th[x].send /\ th'[x].had = th[x].had /\ th'[x].was = th[x].was
  <2>1. th[x].then # "idle"
    BY ThenPlaces DEF StopRec, At, Joining
  <2>2. ((x = "coordinator" \/ rec = "off") /\ Moves(x, th[x].then)) \/ Moves(x, "joinRec")
    BY <2>1, EndMoves DEF Leaves
  <2>3. QED BY <2>1, <2>2 DEF Moves, Sets
<1>3. UNCHANGED <<kind, chan, sock, shared, refused, begun, active, conn, rtc, snap,
                 sent, broken, rec, recTask, stream, streamTask>>
  BY DEF StopRec, jobs, state, sinks, notes
<1>4. QED BY <1>1, <1>2, <1>3 DEF Threads

\* What JoinRec changes
LEMMA JoinRecEffect ==
    ASSUME TypeOK, ThenInv, NEW x \in Threads, JoinRec(x)
    PROVE  /\ \A y \in {"handler", "coordinator", "streamer", "sdk", "main"} : y # x => th'[y] = th[y]
           /\ th[x].then # "idle" /\ th'[x].pc = th[x].then /\ th'[x].task = th[x].task
           /\ th'[x].then = th[x].then
           /\ th'[x].send = th[x].send /\ th'[x].had = th[x].had /\ th'[x].was = th[x].was
           /\ UNCHANGED <<kind, chan, sock, shared, refused, begun, active, conn, rtc, snap,
                          stream, streamTask, sent, broken>>
<1>1. \A y \in Threads \ {x} : th'[y] = th[y]
  BY Stays DEF EndStep
<1>2. \/ /\ th[x].then # "idle" /\ th'[x].pc = th[x].then /\ th'[x].task = th[x].task
         /\ th'[x].then = th[x].then
         /\ th'[x].send = th[x].send /\ th'[x].had = th[x].had /\ th'[x].was = th[x].was
  <2>1. th[x].then # "idle"
    BY ThenPlaces DEF JoinRec, At, Joining
  <2>2. Moves(x, th[x].then)
    BY <2>1, EndMoves DEF Leaves
  <2>3. QED BY <2>1, <2>2 DEF Moves, Sets
<1>3. UNCHANGED <<kind, chan, sock, shared, refused, begun, active, conn, rtc, snap,
                 stream, streamTask, sent, broken>>
  BY DEF JoinRec, jobs, state, sinks, notes
<1>4. QED BY <1>1, <1>2, <1>3 DEF Threads

\* What StopStream changes
LEMMA StopStreamEffect ==
    ASSUME TypeOK, NEW x \in Threads, StopStream(x)
    PROVE  /\ \A y \in {"handler", "coordinator", "streamer", "sdk", "main"} : y # x => th'[y] = th[y]
           /\ \/ /\ x = "streamer" /\ AfterStream(x) # "idle" /\ th'[x].pc = AfterStream(x)
                 /\ th'[x].task = th[x].task /\ th'[x].then = th[x].then
                 /\ th'[x].send = th[x].send /\ th'[x].had = th[x].had /\ th'[x].was = th[x].was
              \/ /\ x = "streamer" /\ AfterStream(x) = "idle" /\ th'[x].pc = "idle"
                 /\ th'[x].task = None /\ th'[x].then = "idle"
              \/ /\ x # "streamer" /\ th'[x].pc = "joinStream" /\ th'[x].task = th[x].task
                 /\ th'[x].then = th[x].then
                 /\ th'[x].send = th[x].send /\ th'[x].had = th[x].had /\ th'[x].was = th[x].was
           /\ UNCHANGED <<kind, chan, sock, shared, refused, begun, active, conn, rtc, snap,
                          sent, broken, rec, recTask, stream, streamTask>>
<1>1. \A y \in Threads \ {x} : th'[y] = th[y]
  BY Stays DEF EndStep
<1>2. \/ /\ x = "streamer" /\ AfterStream(x) # "idle" /\ th'[x].pc = AfterStream(x)
         /\ th'[x].task = th[x].task /\ th'[x].then = th[x].then
         /\ th'[x].send = th[x].send /\ th'[x].had = th[x].had /\ th'[x].was = th[x].was
      \/ /\ x = "streamer" /\ AfterStream(x) = "idle" /\ th'[x].pc = "idle" /\ th'[x].task = None
         /\ th'[x].then = "idle"
      \/ /\ x # "streamer" /\ th'[x].pc = "joinStream" /\ th'[x].task = th[x].task
         /\ th'[x].then = th[x].then
         /\ th'[x].send = th[x].send /\ th'[x].had = th[x].had /\ th'[x].was = th[x].was
  BY EndMoves DEF Leaves, Moves, Frees, Sets
<1>3. UNCHANGED <<kind, chan, sock, shared, refused, begun, active, conn, rtc, snap,
                 sent, broken, rec, recTask, stream, streamTask>>
  BY DEF StopStream, jobs, state, sinks, notes
<1>4. QED BY <1>1, <1>2, <1>3 DEF Threads

\* What JoinStream changes
LEMMA JoinStreamEffect ==
    ASSUME TypeOK, NEW x \in Threads, JoinStream(x)
    PROVE  /\ \A y \in {"handler", "coordinator", "streamer", "sdk", "main"} : y # x => th'[y] = th[y]
           /\ \/ /\ AfterStream(x) # "idle" /\ th'[x].pc = AfterStream(x)
                 /\ th'[x].task = th[x].task /\ th'[x].then = th[x].then
                 /\ th'[x].send = th[x].send /\ th'[x].had = th[x].had /\ th'[x].was = th[x].was
              \/ /\ AfterStream(x) = "idle" /\ th'[x].pc = "idle" /\ th'[x].task = None
                 /\ th'[x].then = "idle"
           /\ UNCHANGED <<kind, chan, sock, shared, refused, begun, active, conn, rtc, snap,
                          rec, recTask, sent, broken>>
<1>1. \A y \in Threads \ {x} : th'[y] = th[y]
  BY Stays DEF EndStep
<1>2. \/ /\ AfterStream(x) # "idle" /\ th'[x].pc = AfterStream(x) /\ th'[x].task = th[x].task
         /\ th'[x].then = th[x].then
         /\ th'[x].send = th[x].send /\ th'[x].had = th[x].had /\ th'[x].was = th[x].was
      \/ /\ AfterStream(x) = "idle" /\ th'[x].pc = "idle" /\ th'[x].task = None
         /\ th'[x].then = "idle"
  BY EndMoves DEF Leaves, Moves, Frees, Sets
<1>3. UNCHANGED <<kind, chan, sock, shared, refused, begun, active, conn, rtc, snap,
                 rec, recTask, sent, broken>>
  BY DEF JoinStream, jobs, state, sinks, notes
<1>4. QED BY <1>1, <1>2, <1>3 DEF Threads

\* What Disconnect changes
LEMMA DisconnectEffect ==
    ASSUME TypeOK, NEW x \in Threads, Disconnect(x)
    PROVE  /\ \A y \in {"handler", "coordinator", "streamer", "sdk", "main"} : y # x => th'[y] = th[y]
           /\ th'[x].pc = "send" /\ th'[x].task = th[x].task /\ th'[x].then = th[x].then
           /\ th'[x].send = th[x].send /\ th'[x].had = th[x].had
           /\ UNCHANGED <<kind, chan, sock, shared, refused, begun, active, conn, snap, sent,
                          rec, recTask, stream, streamTask>>
<1>1. \A y \in Threads \ {x} : th'[y] = th[y]
  BY Stays DEF EndStep
<1>2. \/ /\ th'[x].pc = "send" /\ th'[x].task = th[x].task /\ th'[x].then = th[x].then
         /\ th'[x].send = th[x].send /\ th'[x].had = th[x].had
  BY EndMoves DEF Leaves, Moves, Frees, Sets
<1>3. UNCHANGED <<kind, chan, sock, shared, refused, begun, active, conn, snap, sent,
                 rec, recTask, stream, streamTask>>
  BY DEF Disconnect, jobs, state, sinks, notes
<1>4. QED BY <1>1, <1>2, <1>3 DEF Threads

\* What Report changes
LEMMA ReportEffect ==
    ASSUME TypeOK, NEW x \in Threads, Report(x)
    PROVE  /\ \A y \in {"handler", "coordinator", "streamer", "sdk", "main"} : y # x => th'[y] = th[y]
           /\ th'[x].pc = "idle" /\ th'[x].task = None /\ th'[x].then = "idle"
           /\ UNCHANGED <<kind, chan, sock, shared, refused, begun, active, conn, rtc, snap,
                          broken, rec, recTask, stream, streamTask>>
<1>1. \A y \in Threads \ {x} : th'[y] = th[y]
  BY Stays DEF EndStep
<1>2. \/ /\ th'[x].pc = "idle" /\ th'[x].task = None /\ th'[x].then = "idle"
  BY EndMoves DEF Leaves, Moves, Frees, Sets
<1>3. UNCHANGED <<kind, chan, sock, shared, refused, begun, active, conn, rtc, snap,
                 broken, rec, recTask, stream, streamTask>>
  BY DEF Report, jobs, state, sinks, notes
<1>4. QED BY <1>1, <1>2, <1>3 DEF Threads

-----------------------------------------------------------------------------
(* The threads keep to their places *)

\* The threads keep to their places: Ready
LEMMA ControlOfReady ==
    ASSUME TypeOK, Control, Ready, Marks
    PROVE  Control'
<1> USE ReadyEffect DEF Control, At, Busy, TaskOf, Holders, Joining, Fresh, OfKind
<1>1. HolderInv'
  BY DEF HolderInv, Ready
<1>2. ThenInv'
  BY DEF ThenInv, Ready
<1>3. SendInv'
  BY DEF SendInv, Ready
<1>4. SockInv'
  BY DEF SockInv, Ready
<1>5. CallbackInv'
  BY DEF CallbackInv, Ready, StartInv, HolderInv, ThenInv
<1>6. StartInv'
  BY DEF StartInv, Ready
<1>7. RaceInv'
  BY MarksKept
<1>8. QED BY <1>1, <1>2, <1>3, <1>4, <1>5, <1>6, <1>7

\* The threads keep to their places: Connect
LEMMA ControlOfConnect ==
    ASSUME TypeOK, Control, Connect, Marks
    PROVE  Control'
<1> USE ConnectEffect DEF Control, At, Busy, TaskOf, Holders, Joining, Fresh, OfKind
<1>1. HolderInv'
  BY DEF HolderInv, Connect, Refuses, Connected, StartInv
<1>2. ThenInv'
  BY DEF ThenInv, Connect, Refuses, Connected, StartInv, HolderInv
<1>3. SendInv'
  BY DEF SendInv, Connect, Refuses, Connected, StartInv, HolderInv
<1>4. SockInv'
  BY DEF SockInv, Connect, Refuses, Connected, StartInv, HolderInv
<1>5. CallbackInv'
  BY DEF CallbackInv, Connect, Refuses, Connected, StartInv, HolderInv
<1>6. StartInv'
  BY DEF StartInv, Connect, Refuses, Connected, HolderInv
<1>7. RaceInv'
  BY MarksKept
<1>8. QED BY <1>1, <1>2, <1>3, <1>4, <1>5, <1>6, <1>7

\* The threads keep to their places: Register
LEMMA ControlOfRegister ==
    ASSUME TypeOK, Control, Register, Marks
    PROVE  Control'
<1> USE RegisterEffect DEF Control, At, Busy, TaskOf, Holders, Joining, Fresh, OfKind
<1>1. HolderInv'
  BY DEF HolderInv, Register
<1>2. ThenInv'
  BY DEF ThenInv, Register
<1>3. SendInv'
  BY DEF SendInv, Register
<1>4. SockInv'
  BY DEF SockInv, Register
<1>5. CallbackInv'
  BY DEF CallbackInv, Register
<1>6. StartInv'
  BY DEF StartInv, Register
<1>7. RaceInv'
  BY MarksKept
<1>8. QED BY <1>1, <1>2, <1>3, <1>4, <1>5, <1>6, <1>7

\* The threads keep to their places: Begin
LEMMA ControlOfBegin ==
    ASSUME TypeOK, Control, Begin, Marks
    PROVE  Control'
<1> USE BeginEffect DEF Control, At, Busy, TaskOf, Holders, Joining, Fresh, OfKind
<1>1. HolderInv'
  BY DEF HolderInv, Begin
<1>2. ThenInv'
  BY DEF ThenInv, Begin
<1>3. SendInv'
  BY DEF SendInv, Begin
<1>4. SockInv'
  BY DEF SockInv, Begin
<1>5. CallbackInv'
  BY DEF CallbackInv, Begin, StartInv, HolderInv
<1>6. StartInv'
  BY DEF StartInv, Begin
<1>7. RaceInv'
  BY MarksKept
<1>8. QED BY <1>1, <1>2, <1>3, <1>4, <1>5, <1>6, <1>7

\* The threads keep to their places: BeginFails
LEMMA ControlOfBeginFails ==
    ASSUME TypeOK, Control, BeginFails, Marks
    PROVE  Control'
<1> USE BeginFailsEffect DEF Control, At, Busy, TaskOf, Holders, Joining, Fresh, OfKind
<1>1. HolderInv'
  BY DEF HolderInv, BeginFails
<1>2. ThenInv'
  BY DEF ThenInv, BeginFails
<1>3. SendInv'
  BY DEF SendInv, BeginFails
<1>4. SockInv'
  BY DEF SockInv, BeginFails
<1>5. CallbackInv'
  BY DEF CallbackInv, BeginFails
<1>6. StartInv'
  BY DEF StartInv, BeginFails
<1>7. RaceInv'
  BY MarksKept
<1>8. QED BY <1>1, <1>2, <1>3, <1>4, <1>5, <1>6, <1>7

\* The threads keep to their places: Stop
LEMMA ControlOfStop ==
    ASSUME TypeOK, Control, NEW t \in Tasks, Stop(t), Marks
    PROVE  Control'
<1> USE DEF Control, At, Busy, TaskOf, Holders, Joining, Fresh, OfKind
<1>1. /\ th'["coordinator"] = th["coordinator"] /\ th'["streamer"] = th["streamer"]
      /\ th'["sdk"] = th["sdk"] /\ th'["main"] = th["main"]
      /\ th'["handler"].pc = StopAt(t) /\ th'["handler"].task = t
      /\ th'["handler"].then = "release"
      /\ th'["handler"].send = TRUE /\ th'["handler"].had = {}
      /\ UNCHANGED <<kind, chan, conn, rtc, rec, recTask, snap, stream, streamTask, sock, sent,
                     shared, refused, broken, begun>>
  BY StopEffect
<1>2. HolderInv'
  BY <1>1, BegunTasks DEF HolderInv, Stop, StopAt, TypeOK, StateType
<1>3. ThenInv'
  BY <1>1, BegunTasks DEF ThenInv, Stop, StopAt, TypeOK, StateType
<1>4. SendInv'
  BY <1>1, BegunTasks DEF SendInv, Stop, StopAt, TypeOK, StateType
<1>5. SockInv'
  BY <1>1, BegunTasks DEF SockInv, Stop, StopAt, TypeOK, StateType
<1>6. CallbackInv'
  BY <1>1, BegunTasks DEF CallbackInv, Stop, StopAt, TypeOK, StateType
<1>7. StartInv'
  BY <1>1, BegunTasks DEF StartInv, Stop, StopAt, TypeOK, StateType
<1>8. RaceInv'
  BY MarksKept
<1>9. QED BY <1>2, <1>3, <1>4, <1>5, <1>6, <1>7, <1>8

\* The threads keep to their places: Expire
LEMMA ControlOfExpire ==
    ASSUME TypeOK, Control, Expire, Marks
    PROVE  Control'
<1> USE ExpireEffect DEF Control, At, Busy, TaskOf, Holders, Joining, Fresh, OfKind
<1>1. HolderInv'
  BY DEF HolderInv, Expire, CallbackInv
<1>2. ThenInv'
  BY DEF ThenInv, Expire
<1>3. SendInv'
  BY DEF SendInv, Expire
<1>4. SockInv'
  BY DEF SockInv, Expire
<1>5. CallbackInv'
  BY DEF CallbackInv, Expire
<1>6. StartInv'
  BY DEF StartInv, Expire
<1>7. RaceInv'
  BY MarksKept
<1>8. QED BY <1>1, <1>2, <1>3, <1>4, <1>5, <1>6, <1>7

\* The threads keep to their places: StreamEnds
LEMMA ControlOfStreamEnds ==
    ASSUME TypeOK, Control, StreamEnds, Marks
    PROVE  Control'
<1> USE StreamEndsEffect DEF Control, At, Busy, TaskOf, Holders, Joining, Fresh, OfKind
<1>1. HolderInv'
  BY DEF HolderInv, StreamEnds, CallbackInv
<1>2. ThenInv'
  BY DEF ThenInv, StreamEnds
<1>3. SendInv'
  BY DEF SendInv, StreamEnds
<1>4. SockInv'
  BY DEF SockInv, StreamEnds
<1>5. CallbackInv'
  BY DEF CallbackInv, StreamEnds, HolderInv
<1>6. StartInv'
  BY DEF StartInv, StreamEnds
<1>7. RaceInv'
  BY MarksKept
<1>8. QED BY <1>1, <1>2, <1>3, <1>4, <1>5, <1>6, <1>7

\* The threads keep to their places: SdkError
LEMMA ControlOfSdkError ==
    ASSUME TypeOK, Control, SdkError, Marks
    PROVE  Control'
<1> USE SdkErrorEffect DEF Control, At, Busy, TaskOf, Holders, Joining, Fresh, OfKind
<1>1. HolderInv'
  BY DEF HolderInv, SdkError
<1>2. ThenInv'
  BY DEF ThenInv, SdkError
<1>3. SendInv'
  BY DEF SendInv, SdkError
<1>4. SockInv'
  <2>1. errors' > 0
    BY DEF SdkError, TypeOK, NotesType
  <2>2. QED BY <2>1 DEF SockInv, SdkError
<1>5. CallbackInv'
  BY DEF CallbackInv, SdkError
<1>6. StartInv'
  BY DEF StartInv, SdkError
<1>7. RaceInv'
  BY MarksKept
<1>8. QED BY <1>1, <1>2, <1>3, <1>4, <1>5, <1>6, <1>7

\* The threads keep to their places: FailAll
LEMMA ControlOfFailAll ==
    ASSUME TypeOK, Control, FailAll, Marks
    PROVE  Control'
<1> USE FailAllEffect DEF Control, At, Busy, TaskOf, Holders, Joining, Fresh, OfKind
<1>1. HolderInv'
  BY DEF HolderInv, FailAll
<1>2. ThenInv'
  BY DEF ThenInv, FailAll, FirstSink, NextSink
<1>3. SendInv'
  BY DEF SendInv, FailAll
<1>4. SockInv'
  BY DEF SockInv, FailAll
<1>5. CallbackInv'
  BY DEF CallbackInv, FailAll
<1>6. StartInv'
  BY Alone DEF StartInv, FailAll, Threads
<1>7. RaceInv'
  BY MarksKept
<1>8. QED BY <1>1, <1>2, <1>3, <1>4, <1>5, <1>6, <1>7

\* The threads keep to their places: FailStream
LEMMA ControlOfFailStream ==
    ASSUME TypeOK, Control, FailStream, Marks
    PROVE  Control'
<1> USE FailStreamEffect DEF Control, At, Busy, TaskOf, Holders, Joining, Fresh, OfKind
<1>1. HolderInv'
  BY DEF HolderInv, FailStream
<1>2. ThenInv'
  BY DEF ThenInv, FailStream
<1>3. SendInv'
  BY DEF SendInv, FailStream
<1>4. SockInv'
  BY DEF SockInv, FailStream
<1>5. CallbackInv'
  BY DEF CallbackInv, FailStream
<1>6. StartInv'
  BY DEF StartInv, FailStream
<1>7. RaceInv'
  BY MarksKept
<1>8. QED BY <1>1, <1>2, <1>3, <1>4, <1>5, <1>6, <1>7

\* The threads keep to their places: Shutdown
LEMMA ControlOfShutdown ==
    ASSUME TypeOK, Control, Shutdown, Marks
    PROVE  Control'
<1> USE ShutdownEffect DEF Control, At, Busy, TaskOf, Holders, Joining, Fresh, OfKind
<1>1. HolderInv'
  BY DEF HolderInv, Shutdown
<1>2. ThenInv'
  BY DEF ThenInv, Shutdown
<1>3. SendInv'
  BY DEF SendInv, Shutdown
<1>4. SockInv'
  BY DEF SockInv, Shutdown
<1>5. CallbackInv'
  BY DEF CallbackInv, Shutdown
<1>6. StartInv'
  BY DEF StartInv, Shutdown, SockInv
<1>7. RaceInv'
  BY MarksKept
<1>8. QED BY <1>1, <1>2, <1>3, <1>4, <1>5, <1>6, <1>7

\* The threads keep to their places: Find
LEMMA ControlOfFind ==
    ASSUME TypeOK, Control, NEW x \in Threads, Find(x), Marks
    PROVE  Control'
<1> USE FindEffect DEF Control, At, Busy, TaskOf, Holders, Joining, Fresh, OfKind
<1>1. HolderInv'
  BY DEF HolderInv, Find
<1>2. ThenInv'
  BY DEF ThenInv, Find
<1>3. SendInv'
  BY DEF SendInv, Find
<1>4. SockInv'
  BY DEF SockInv, Find
<1>5. CallbackInv'
  BY DEF CallbackInv, Find
<1>6. StartInv'
  BY DEF StartInv, Find, HolderInv
<1>7. RaceInv'
  BY MarksKept
<1>8. QED BY <1>1, <1>2, <1>3, <1>4, <1>5, <1>6, <1>7

\* The threads keep to their places: Release
LEMMA ControlOfRelease ==
    ASSUME TypeOK, Control, NEW x \in Threads, Release(x), Marks
    PROVE  Control'
<1> USE ReleaseEffect DEF Control, At, Busy, TaskOf, Holders, Joining, Fresh, OfKind
<1>1. HolderInv'
  BY DEF HolderInv, Release
<1>2. ThenInv'
  BY DEF ThenInv, Release
<1>3. SendInv'
  BY DEF SendInv, Release
<1>4. SockInv'
  BY DEF SockInv, Release
<1>5. CallbackInv'
  BY DEF CallbackInv, Release
<1>6. StartInv'
  BY Met, Alone DEF StartInv, Release, Threads, HolderInv
<1>7. RaceInv'
  BY MarksKept
<1>8. QED BY <1>1, <1>2, <1>3, <1>4, <1>5, <1>6, <1>7

\* The threads keep to their places: Cleanup
LEMMA ControlOfCleanup ==
    ASSUME TypeOK, Control, NEW x \in Threads, Cleanup(x), Marks
    PROVE  Control'
<1> USE DEF Control, At, Busy, TaskOf, Holders, Joining, Fresh, OfKind
<1>1. /\ \A y \in {"handler", "coordinator", "streamer", "sdk", "main"} : y # x => th'[y] = th[y]
      /\ \/ /\ conn[chan[th[x].task]] = "none" /\ th'[x].pc = "send" /\ th'[x].task = th[x].task
            /\ th'[x].then = th[x].then
            /\ th'[x].send = th[x].send /\ th'[x].had = th[x].had
         \/ /\ conn[chan[th[x].task]] # "none"
            /\ th'[x].was = (conn[chan[th[x].task]] = "connected") /\ th'[x].pc = "stopSnap"
            /\ th'[x].task = th[x].task /\ th'[x].then = "stopStream"
            /\ th'[x].send = th[x].send /\ th'[x].had = th[x].had
      /\ UNCHANGED <<kind, chan, sock, shared, begun, rtc, sent, broken, rec, recTask, snap,
                     stream, streamTask>>
  BY CleanupEffect
<1>2. HolderInv'
  BY <1>1 DEF HolderInv, Cleanup
<1>3. ThenInv'
  BY <1>1, PlaceOf DEF ThenInv, Cleanup
<1>4. SendInv'
  BY <1>1 DEF SendInv, Cleanup
<1>5. SockInv'
  BY <1>1 DEF SockInv, Cleanup
<1>6. CallbackInv'
  BY <1>1 DEF CallbackInv, Cleanup
<1>7. StartInv'
  BY <1>1, Alone DEF StartInv, Cleanup, Threads
<1>8. RaceInv'
  BY MarksKept
<1>9. QED BY <1>2, <1>3, <1>4, <1>5, <1>6, <1>7, <1>8

\* The threads keep to their places: StopSnap
LEMMA ControlOfStopSnap ==
    ASSUME TypeOK, Control, NEW x \in Threads, StopSnap(x), Marks
    PROVE  Control'
<1> USE StopSnapEffect DEF Control, At, Busy, TaskOf, Holders, Joining, Fresh, OfKind
<1>1. HolderInv'
  BY DEF HolderInv, StopSnap
<1>2. ThenInv'
  BY PlaceOf DEF ThenInv, StopSnap, HolderInv, AfterSnap
<1>3. SendInv'
  BY DEF SendInv, StopSnap
<1>4. SockInv'
  BY DEF SockInv, StopSnap
<1>5. CallbackInv'
  BY DEF CallbackInv, StopSnap
<1>6. StartInv'
  BY DEF StartInv, StopSnap, HolderInv, ThenInv, AfterSnap
<1>7. RaceInv'
  BY MarksKept
<1>8. QED BY <1>1, <1>2, <1>3, <1>4, <1>5, <1>6, <1>7

\* The threads keep to their places: StopRec
LEMMA ControlOfStopRec ==
    ASSUME TypeOK, Control, NEW x \in Threads, StopRec(x), Marks
    PROVE  Control'
<1> USE StopRecEffect DEF Control, At, Busy, TaskOf, Holders, Joining, Fresh, OfKind
<1>1. HolderInv'
  BY DEF HolderInv, StopRec
<1>2. ThenInv'
  BY DEF ThenInv, StopRec, HolderInv
<1>3. SendInv'
  BY DEF SendInv, StopRec
<1>4. SockInv'
  BY DEF SockInv, StopRec
<1>5. CallbackInv'
  BY DEF CallbackInv, StopRec
<1>6. StartInv'
  BY DEF StartInv, StopRec, HolderInv, ThenInv
<1>7. RaceInv'
  BY MarksKept
<1>8. QED BY <1>1, <1>2, <1>3, <1>4, <1>5, <1>6, <1>7

\* The threads keep to their places: JoinRec
LEMMA ControlOfJoinRec ==
    ASSUME TypeOK, Control, NEW x \in Threads, JoinRec(x), Marks
    PROVE  Control'
<1> USE JoinRecEffect DEF Control, At, Busy, TaskOf, Holders, Joining, Fresh, OfKind
<1>1. HolderInv'
  BY DEF HolderInv, JoinRec
<1>2. ThenInv'
  BY DEF ThenInv, JoinRec, HolderInv
<1>3. SendInv'
  BY DEF SendInv, JoinRec
<1>4. SockInv'
  BY DEF SockInv, JoinRec
<1>5. CallbackInv'
  BY DEF CallbackInv, JoinRec
<1>6. StartInv'
  BY DEF StartInv, JoinRec, HolderInv, ThenInv
<1>7. RaceInv'
  BY MarksKept
<1>8. QED BY <1>1, <1>2, <1>3, <1>4, <1>5, <1>6, <1>7

\* The threads keep to their places: StopStream
LEMMA ControlOfStopStream ==
    ASSUME TypeOK, Control, NEW x \in Threads, StopStream(x), Marks
    PROVE  Control'
<1> USE StopStreamEffect DEF Control, At, Busy, TaskOf, Holders, Joining, Fresh, OfKind
<1>1. HolderInv'
  BY DEF HolderInv, StopStream, AfterStream, ThenInv
<1>2. ThenInv'
  BY DEF ThenInv, StopStream, AfterStream
<1>3. SendInv'
  BY DEF SendInv, StopStream, AfterStream, ThenInv
<1>4. SockInv'
  BY DEF SockInv, StopStream, AfterStream, ThenInv
<1>5. CallbackInv'
  BY DEF CallbackInv, StopStream, AfterStream, ThenInv
<1>6. StartInv'
  BY DEF StartInv, StopStream, AfterStream, ThenInv
<1>7. RaceInv'
  BY MarksKept
<1>8. QED BY <1>1, <1>2, <1>3, <1>4, <1>5, <1>6, <1>7

\* The threads keep to their places: JoinStream
LEMMA ControlOfJoinStream ==
    ASSUME TypeOK, Control, NEW x \in Threads, JoinStream(x), Marks
    PROVE  Control'
<1> USE JoinStreamEffect DEF Control, At, Busy, TaskOf, Holders, Joining, Fresh, OfKind
<1>1. HolderInv'
  BY DEF HolderInv, JoinStream, AfterStream, ThenInv
<1>2. ThenInv'
  BY DEF ThenInv, JoinStream, AfterStream, HolderInv
<1>3. SendInv'
  BY DEF SendInv, JoinStream, AfterStream, ThenInv, HolderInv
<1>4. SockInv'
  BY DEF SockInv, JoinStream, AfterStream, ThenInv, HolderInv
<1>5. CallbackInv'
  BY DEF CallbackInv, JoinStream, AfterStream, ThenInv, HolderInv
<1>6. StartInv'
  BY DEF StartInv, JoinStream, AfterStream, ThenInv, HolderInv
<1>7. RaceInv'
  BY MarksKept
<1>8. QED BY <1>1, <1>2, <1>3, <1>4, <1>5, <1>6, <1>7

\* The threads keep to their places: Disconnect
LEMMA ControlOfDisconnect ==
    ASSUME TypeOK, Control, NEW x \in Threads, Disconnect(x), Marks
    PROVE  Control'
<1> USE DisconnectEffect DEF Control, At, Busy, TaskOf, Holders, Joining, Fresh, OfKind
<1>1. HolderInv'
  BY DEF HolderInv, Disconnect
<1>2. ThenInv'
  BY DEF ThenInv, Disconnect
<1>3. SendInv'
  BY DEF SendInv, Disconnect
<1>4. SockInv'
  BY DEF SockInv, Disconnect
<1>5. CallbackInv'
  BY DEF CallbackInv, Disconnect
<1>6. StartInv'
  BY DEF StartInv, Disconnect
<1>7. RaceInv'
  BY MarksKept
<1>8. QED BY <1>1, <1>2, <1>3, <1>4, <1>5, <1>6, <1>7

\* The threads keep to their places: Report
LEMMA ControlOfReport ==
    ASSUME TypeOK, Control, NEW x \in Threads, Report(x), Marks
    PROVE  Control'
<1> USE ReportEffect DEF Control, At, Busy, TaskOf, Holders, Joining, Fresh, OfKind
<1>1. HolderInv'
  BY DEF HolderInv, Report
<1>2. ThenInv'
  BY DEF ThenInv, Report
<1>3. SendInv'
  BY DEF SendInv, Report
<1>4. SockInv'
  BY DEF SockInv, Report
<1>5. CallbackInv'
  BY DEF CallbackInv, Report
<1>6. StartInv'
  BY DEF StartInv, Report, HolderInv
<1>7. RaceInv'
  BY MarksKept
<1>8. QED BY <1>1, <1>2, <1>3, <1>4, <1>5, <1>6, <1>7

-----------------------------------------------------------------------------
(* Tasks leave once *)

\* The same after a step
LEMMA MetNext ==
    ASSUME TypeOK', Marks, NEW x \in Threads, NEW y \in Threads \ {x},
           th'[x].task # None, th'[y].pc # "idle", th'[y].task = th'[x].task \/ y = "sdk"
    PROVE  th'[x].task \in met' /\ th'[x].task \in raced'
<1>1. th'[x].task \in Begun'
  BY DEF TypeOK, ThreadsType
<1>2. th'[x].task \in Tasks
  BY <1>1, PipeAssumption DEF TypeOK, JobsType, Begun, Tasks
<1>3. th'[x].task \in Meeting'
  BY <1>2 DEF Meeting, Busy, At
<1>4. QED BY <1>3 DEF Racing

\* Tasks leave once: Ready
LEMMA EndsOfReady ==
    ASSUME TypeOK, Control, TypeOK', OnceInv, LeftInv, FailInv, RunInv, Ready,
           Marks
    PROVE  OnceInv' /\ LeftInv' /\ FailInv' /\ RunInv'
<1> USE ReadyEffect DEF Control, At, Busy, TaskOf, Holders, Joining, Fresh, OfKind, OnChannel,
        Removing, Released
<1>1. OnceInv'
  BY DEF OnceInv, Ready
<1>2. LeftInv'
  BY DEF LeftInv, Ready
<1>3. FailInv'
  BY DEF FailInv, Ready
<1>4. RunInv'
  BY DEF RunInv, Ready
<1>5. QED BY <1>1, <1>2, <1>3, <1>4

\* Tasks leave once: Connect
LEMMA EndsOfConnect ==
    ASSUME TypeOK, Control, TypeOK', OnceInv, LeftInv, FailInv, RunInv, Connect,
           Marks
    PROVE  OnceInv' /\ LeftInv' /\ FailInv' /\ RunInv'
<1> USE ConnectEffect DEF Control, At, Busy, TaskOf, Holders, Joining, Fresh, OfKind, OnChannel,
        Removing, Released
<1>1. OnceInv'
  BY DEF OnceInv, Connect
<1>2. LeftInv'
  BY DEF LeftInv, Connect
<1>3. FailInv'
  BY DEF FailInv, Connect
<1>4. RunInv'
  BY DEF RunInv, Connect
<1>5. QED BY <1>1, <1>2, <1>3, <1>4

\* Tasks leave once: Register
LEMMA EndsOfRegister ==
    ASSUME TypeOK, Control, TypeOK', OnceInv, LeftInv, FailInv, RunInv, Register,
           Marks
    PROVE  OnceInv' /\ LeftInv' /\ FailInv' /\ RunInv'
<1> USE RegisterEffect DEF Control, At, Busy, TaskOf, Holders, Joining, Fresh, OfKind, OnChannel,
        Removing, Released
<1>1. OnceInv'
  BY DEF OnceInv, Register, StartInv
<1>2. LeftInv'
  BY Alone DEF LeftInv, Register, Threads, HolderInv, StartInv
<1>3. FailInv'
  BY Met, Alone DEF FailInv, Register, Threads, HolderInv
<1>4. RunInv'
  BY DEF RunInv, Register
<1>5. QED BY <1>1, <1>2, <1>3, <1>4

\* Tasks leave once: Begin
LEMMA EndsOfBegin ==
    ASSUME TypeOK, Control, TypeOK', OnceInv, LeftInv, FailInv, RunInv, Begin,
           Marks
    PROVE  OnceInv' /\ LeftInv' /\ FailInv' /\ RunInv'
<1> USE BeginEffect DEF Control, At, Busy, TaskOf, Holders, Joining, Fresh, OfKind, OnChannel,
        Removing, Released
<1>1. OnceInv'
  BY DEF OnceInv, Begin
<1>2. LeftInv'
  BY DEF LeftInv, Begin
<1>3. FailInv'
  BY DEF FailInv, Begin
<1>4. RunInv'
  BY DEF RunInv, Begin, StartInv
<1>5. QED BY <1>1, <1>2, <1>3, <1>4

\* Tasks leave once: BeginFails
LEMMA EndsOfBeginFails ==
    ASSUME TypeOK, Control, TypeOK', OnceInv, LeftInv, FailInv, RunInv, BeginFails,
           Marks
    PROVE  OnceInv' /\ LeftInv' /\ FailInv' /\ RunInv'
<1> USE BeginFailsEffect DEF Control, At, Busy, TaskOf, Holders, Joining, Fresh, OfKind, OnChannel,
        Removing, Released
<1>1. OnceInv'
  BY DEF OnceInv, BeginFails
<1>2. LeftInv'
  BY DEF LeftInv, BeginFails
<1>3. FailInv'
  BY DEF FailInv, BeginFails
<1>4. RunInv'
  BY DEF RunInv, BeginFails, StartInv
<1>5. QED BY <1>1, <1>2, <1>3, <1>4

\* Tasks leave once: Stop
LEMMA EndsOfStop ==
    ASSUME TypeOK, Control, TypeOK', OnceInv, LeftInv, FailInv, RunInv, NEW t \in Tasks, Stop(t),
           Marks
    PROVE  OnceInv' /\ LeftInv' /\ FailInv' /\ RunInv'
<1> USE DEF Control, At, Busy, TaskOf, Holders, Joining, Fresh, OfKind, OnChannel, Removing,
        Released
<1>1. /\ th'["coordinator"] = th["coordinator"] /\ th'["streamer"] = th["streamer"]
      /\ th'["sdk"] = th["sdk"] /\ th'["main"] = th["main"]
      /\ th'["handler"].pc = StopAt(t) /\ th'["handler"].task = t
      /\ th'["handler"].then = "release"
      /\ th'["handler"].send = TRUE /\ th'["handler"].had = {}
      /\ UNCHANGED <<kind, chan, conn, rtc, rec, recTask, snap, stream, streamTask, sock, sent,
                     shared, refused, broken, begun>>
  BY StopEffect
<1>2. OnceInv'
  BY <1>1 DEF OnceInv, Stop
<1>3. LeftInv'
  BY <1>1 DEF LeftInv, Stop, StopAt
<1>4. FailInv'
  BY <1>1 DEF FailInv, Stop
<1>5. RunInv'
  BY <1>1 DEF RunInv, Stop, StopAt, CallbackInv, OnceInv, HolderInv, Starting
<1>6. QED BY <1>2, <1>3, <1>4, <1>5

\* Tasks leave once: Expire
LEMMA EndsOfExpire ==
    ASSUME TypeOK, Control, TypeOK', OnceInv, LeftInv, FailInv, RunInv, Expire,
           Marks
    PROVE  OnceInv' /\ LeftInv' /\ FailInv' /\ RunInv'
<1> USE ExpireEffect DEF Control, At, Busy, TaskOf, Holders, Joining, Fresh, OfKind, OnChannel,
        Removing, Released
<1>1. OnceInv'
  BY DEF OnceInv, Expire
<1>2. LeftInv'
  BY DEF LeftInv, Expire
<1>3. FailInv'
  BY DEF FailInv, Expire
<1>4. RunInv'
  BY DEF RunInv, Expire
<1>5. QED BY <1>1, <1>2, <1>3, <1>4

\* Tasks leave once: StreamEnds
LEMMA EndsOfStreamEnds ==
    ASSUME TypeOK, Control, TypeOK', OnceInv, LeftInv, FailInv, RunInv, StreamEnds,
           Marks
    PROVE  OnceInv' /\ LeftInv' /\ FailInv' /\ RunInv'
<1> USE StreamEndsEffect DEF Control, At, Busy, TaskOf, Holders, Joining, Fresh, OfKind, OnChannel,
        Removing, Released
<1>1. OnceInv'
  BY DEF OnceInv, StreamEnds
<1>2. LeftInv'
  BY DEF LeftInv, StreamEnds
<1>3. FailInv'
  BY DEF FailInv, StreamEnds
<1>4. RunInv'
  BY MetNext DEF RunInv, StreamEnds, Threads, SockInv, CallbackInv
<1>5. QED BY <1>1, <1>2, <1>3, <1>4

\* Tasks leave once: SdkError
LEMMA EndsOfSdkError ==
    ASSUME TypeOK, Control, TypeOK', OnceInv, LeftInv, FailInv, RunInv, SdkError,
           Marks
    PROVE  OnceInv' /\ LeftInv' /\ FailInv' /\ RunInv'
<1> USE SdkErrorEffect DEF Control, At, Busy, TaskOf, Holders, Joining, Fresh, OfKind, OnChannel,
        Removing, Released
<1>1. OnceInv'
  BY DEF OnceInv, SdkError
<1>2. LeftInv'
  BY DEF LeftInv, SdkError
<1>3. FailInv'
  BY DEF FailInv, SdkError
<1>4. RunInv'
  BY DEF RunInv, SdkError
<1>5. QED BY <1>1, <1>2, <1>3, <1>4

\* Tasks leave once: FailAll
LEMMA EndsOfFailAll ==
    ASSUME TypeOK, Control, TypeOK', OnceInv, LeftInv, FailInv, RunInv, FailAll,
           Marks
    PROVE  OnceInv' /\ LeftInv' /\ FailInv' /\ RunInv'
<1> USE FailAllEffect DEF Control, At, Busy, TaskOf, Holders, Joining, Fresh, OfKind, OnChannel,
        Removing, Released
<1>1. OnceInv'
  BY DEF OnceInv, FailAll
<1>2. LeftInv'
  BY DEF LeftInv, FailAll
<1>3. FailInv'
  BY DEF FailInv, FailAll
<1>4. RunInv'
  BY Met DEF RunInv, FailAll, Threads, FailInv, HolderInv, CallbackInv, RaceInv
<1>5. QED BY <1>1, <1>2, <1>3, <1>4

\* Tasks leave once: FailStream
LEMMA EndsOfFailStream ==
    ASSUME TypeOK, Control, TypeOK', OnceInv, LeftInv, FailInv, RunInv, FailStream,
           Marks
    PROVE  OnceInv' /\ LeftInv' /\ FailInv' /\ RunInv'
<1> USE FailStreamEffect DEF Control, At, Busy, TaskOf, Holders, Joining, Fresh, OfKind, OnChannel,
        Removing, Released
<1>1. OnceInv'
  BY DEF OnceInv, FailStream
<1>2. LeftInv'
  BY DEF LeftInv, FailStream
<1>3. FailInv'
  BY DEF FailInv, FailStream
<1>4. RunInv'
  BY DEF RunInv, FailStream
<1>5. QED BY <1>1, <1>2, <1>3, <1>4

\* Tasks leave once: Shutdown
LEMMA EndsOfShutdown ==
    ASSUME TypeOK, Control, TypeOK', OnceInv, LeftInv, FailInv, RunInv, Shutdown,
           Marks
    PROVE  OnceInv' /\ LeftInv' /\ FailInv' /\ RunInv'
<1> USE ShutdownEffect DEF Control, At, Busy, TaskOf, Holders, Joining, Fresh, OfKind, OnChannel,
        Removing, Released
<1>1. OnceInv'
  BY DEF OnceInv, Shutdown
<1>2. LeftInv'
  BY DEF LeftInv, Shutdown
<1>3. FailInv'
  BY DEF FailInv, Shutdown
<1>4. RunInv'
  BY DEF RunInv, Shutdown, SockInv
<1>5. QED BY <1>1, <1>2, <1>3, <1>4

\* Tasks leave once: Find
LEMMA EndsOfFind ==
    ASSUME TypeOK, Control, TypeOK', OnceInv, LeftInv, FailInv, RunInv, NEW x \in Threads, Find(x),
           Marks
    PROVE  OnceInv' /\ LeftInv' /\ FailInv' /\ RunInv'
<1> USE FindEffect DEF Control, At, Busy, TaskOf, Holders, Joining, Fresh, OfKind, OnChannel,
        Removing, Released
<1>1. OnceInv'
  BY DEF OnceInv, Find
<1>2. LeftInv'
  BY DEF LeftInv, Find
<1>3. FailInv'
  BY DEF FailInv, Find
<1>4. RunInv'
  BY DEF RunInv, Find
<1>5. QED BY <1>1, <1>2, <1>3, <1>4

\* Tasks leave once: Release
LEMMA EndsOfRelease ==
    ASSUME TypeOK, Control, TypeOK', OnceInv, LeftInv, FailInv, RunInv, NEW x \in Threads,
           Release(x), Marks
    PROVE  OnceInv' /\ LeftInv' /\ FailInv' /\ RunInv'
<1> USE ReleaseEffect DEF Control, At, Busy, TaskOf, Holders, Joining, Fresh, OfKind, OnChannel,
        Removing, Released
<1>1. OnceInv'
  BY DEF OnceInv, Release
<1>2. LeftInv'
  BY DEF LeftInv, Release
<1>3. FailInv'
  BY DEF FailInv, Release
<1>4. RunInv'
  BY Met, PlaceOf DEF RunInv, Release, Threads, CallbackInv, HolderInv
<1>5. QED BY <1>1, <1>2, <1>3, <1>4

\* Tasks leave once: Cleanup
LEMMA EndsOfCleanup ==
    ASSUME TypeOK, Control, TypeOK', OnceInv, LeftInv, FailInv, RunInv, NEW x \in Threads,
           Cleanup(x), Marks
    PROVE  OnceInv' /\ LeftInv' /\ FailInv' /\ RunInv'
<1> USE DEF Control, At, Busy, TaskOf, Holders, Joining, Fresh, OfKind, OnChannel, Removing,
        Released
<1>1. /\ \A y \in {"handler", "coordinator", "streamer", "sdk", "main"} : y # x => th'[y] = th[y]
      /\ \/ /\ conn[chan[th[x].task]] = "none" /\ th'[x].pc = "send" /\ th'[x].task = th[x].task
            /\ th'[x].then = th[x].then
            /\ th'[x].send = th[x].send /\ th'[x].had = th[x].had
         \/ /\ conn[chan[th[x].task]] # "none"
            /\ th'[x].was = (conn[chan[th[x].task]] = "connected") /\ th'[x].pc = "stopSnap"
            /\ th'[x].task = th[x].task /\ th'[x].then = "stopStream"
            /\ th'[x].send = th[x].send /\ th'[x].had = th[x].had
      /\ UNCHANGED <<kind, chan, sock, shared, begun, rtc, sent, broken, rec, recTask, snap,
                     stream, streamTask>>
  BY CleanupEffect
<1>2. OnceInv'
  BY <1>1 DEF OnceInv, Cleanup
<1>3. LeftInv'
  BY <1>1 DEF LeftInv, Cleanup
<1>4. FailInv'
  BY <1>1, PlaceOf DEF FailInv, Cleanup
<1>5. RunInv'
  BY <1>1, PlaceOf DEF RunInv, Cleanup, LeftInv, HolderInv
<1>6. QED BY <1>2, <1>3, <1>4, <1>5

\* Tasks leave once: StopSnap
LEMMA EndsOfStopSnap ==
    ASSUME TypeOK, Control, TypeOK', OnceInv, LeftInv, FailInv, RunInv, NEW x \in Threads,
           StopSnap(x), Marks
    PROVE  OnceInv' /\ LeftInv' /\ FailInv' /\ RunInv'
<1> USE StopSnapEffect DEF Control, At, Busy, TaskOf, Holders, Joining, Fresh, OfKind, OnChannel,
        Removing, Released
<1>1. OnceInv'
  BY DEF OnceInv, StopSnap
<1>2. LeftInv'
  BY DEF LeftInv, StopSnap, AfterSnap, ThenInv
<1>3. FailInv'
  BY DEF FailInv, StopSnap, AfterSnap, ThenInv
<1>4. RunInv'
  BY DEF RunInv, StopSnap, AfterSnap, ThenInv, CallbackInv
<1>5. QED BY <1>1, <1>2, <1>3, <1>4

\* Tasks leave once: StopRec
LEMMA EndsOfStopRec ==
    ASSUME TypeOK, Control, TypeOK', OnceInv, LeftInv, FailInv, RunInv, NEW x \in Threads,
           StopRec(x), Marks
    PROVE  OnceInv' /\ LeftInv' /\ FailInv' /\ RunInv'
<1> USE StopRecEffect DEF Control, At, Busy, TaskOf, Holders, Joining, Fresh, OfKind, OnChannel,
        Removing, Released
<1>1. OnceInv'
  BY DEF OnceInv, StopRec
<1>2. LeftInv'
  BY DEF LeftInv, StopRec, ThenInv
<1>3. FailInv'
  BY DEF FailInv, StopRec, ThenInv
<1>4. RunInv'
  BY DEF RunInv, StopRec, ThenInv, CallbackInv
<1>5. QED BY <1>1, <1>2, <1>3, <1>4

\* Tasks leave once: JoinRec
LEMMA EndsOfJoinRec ==
    ASSUME TypeOK, Control, TypeOK', OnceInv, LeftInv, FailInv, RunInv, NEW x \in Threads,
           JoinRec(x), Marks
    PROVE  OnceInv' /\ LeftInv' /\ FailInv' /\ RunInv'
<1> USE JoinRecEffect DEF Control, At, Busy, TaskOf, Holders, Joining, Fresh, OfKind, OnChannel,
        Removing, Released
<1>1. OnceInv'
  BY DEF OnceInv, JoinRec
<1>2. LeftInv'
  BY DEF LeftInv, JoinRec, ThenInv
<1>3. FailInv'
  BY DEF FailInv, JoinRec, ThenInv
<1>4. RunInv'
  BY DEF RunInv, JoinRec, ThenInv, CallbackInv
<1>5. QED BY <1>1, <1>2, <1>3, <1>4

\* Tasks leave once: StopStream
LEMMA EndsOfStopStream ==
    ASSUME TypeOK, Control, TypeOK', OnceInv, LeftInv, FailInv, RunInv, NEW x \in Threads,
           StopStream(x), Marks
    PROVE  OnceInv' /\ LeftInv' /\ FailInv' /\ RunInv'
<1> USE StopStreamEffect DEF Control, At, Busy, TaskOf, Holders, Joining, Fresh, OfKind, OnChannel,
        Removing, Released
<1>1. OnceInv'
  BY DEF OnceInv, StopStream
<1>2. LeftInv'
  BY DEF LeftInv, StopStream, AfterStream, ThenInv
<1>3. FailInv'
  BY DEF FailInv, StopStream, AfterStream, ThenInv
<1>4. RunInv'
  BY DEF RunInv, StopStream, AfterStream, ThenInv, CallbackInv
<1>5. QED BY <1>1, <1>2, <1>3, <1>4

\* Tasks leave once: JoinStream
LEMMA EndsOfJoinStream ==
    ASSUME TypeOK, Control, TypeOK', OnceInv, LeftInv, FailInv, RunInv, NEW x \in Threads,
           JoinStream(x), Marks
    PROVE  OnceInv' /\ LeftInv' /\ FailInv' /\ RunInv'
<1> USE JoinStreamEffect DEF Control, At, Busy, TaskOf, Holders, Joining, Fresh, OfKind, OnChannel,
        Removing, Released
<1>1. OnceInv'
  BY DEF OnceInv, JoinStream
<1>2. LeftInv'
  BY DEF LeftInv, JoinStream, AfterStream, ThenInv
<1>3. FailInv'
  BY DEF FailInv, JoinStream, AfterStream, ThenInv
<1>4. RunInv'
  BY DEF RunInv, JoinStream, AfterStream, ThenInv, CallbackInv
<1>5. QED BY <1>1, <1>2, <1>3, <1>4

\* Tasks leave once: Disconnect
LEMMA EndsOfDisconnect ==
    ASSUME TypeOK, Control, TypeOK', OnceInv, LeftInv, FailInv, RunInv, NEW x \in Threads,
           Disconnect(x), Marks
    PROVE  OnceInv' /\ LeftInv' /\ FailInv' /\ RunInv'
<1> USE DisconnectEffect DEF Control, At, Busy, TaskOf, Holders, Joining, Fresh, OfKind, OnChannel,
        Removing, Released
<1>1. OnceInv'
  BY DEF OnceInv, Disconnect
<1>2. LeftInv'
  BY DEF LeftInv, Disconnect
<1>3. FailInv'
  BY DEF FailInv, Disconnect
<1>4. RunInv'
  BY DEF RunInv, Disconnect
<1>5. QED BY <1>1, <1>2, <1>3, <1>4

\* Tasks leave once: Report
LEMMA EndsOfReport ==
    ASSUME TypeOK, Control, TypeOK', OnceInv, LeftInv, FailInv, RunInv, NEW x \in Threads,
           Report(x), Marks
    PROVE  OnceInv' /\ LeftInv' /\ FailInv' /\ RunInv'
<1> USE ReportEffect DEF Control, At, Busy, TaskOf, Holders, Joining, Fresh, OfKind, OnChannel,
        Removing, Released
<1>1. OnceInv'
  BY DEF OnceInv, Report
<1>2. LeftInv'
  BY DEF LeftInv, Report
<1>3. FailInv'
  BY DEF FailInv, Report
<1>4. RunInv'
  BY DEF RunInv, Report
<1>5. QED BY <1>1, <1>2, <1>3, <1>4

-----------------------------------------------------------------------------
(* Messages *)

\* Nobody may send a message for a task who could not before, unless the task
\* is met.
NoMore(u) ==
    /\ MayCommand(u)' => MayCommand(u)
    /\ MayCall(u)' => MayCall(u)
    /\ MayFail(u)' => MayFail(u)
    /\ MayReport(u)' => MayReport(u) \/ u \in met' \cup shared'
    /\ Ended(u)' => Ended(u) \/ MayFail(u) \/ u \in met'

\* A step that sends nothing for a task
LEMMA CountKept ==
    ASSUME TypeOK, TypeOK', NEW u \in Begun, CountInv(u), sent'[u] = sent[u], NoMore(u),
           errors' = 0 => errors = 0, met \subseteq met', shared \subseteq shared', HeardInv(u)'
    PROVE  CountInv(u)'
<1>1. sent[u] \in Nat /\ sent'[u] = sent[u] /\ errors \in Nat /\ errors' \in Nat
  BY BegunTasks DEF TypeOK, NotesType
<1>2. BoundInv(u)'
  BY <1>1 DEF CountInv, BoundInv, NoMore, One
<1>3. OnlyInv(u)'
  BY <1>1 DEF CountInv, OnlyInv, NoMore, One
<1>4. QED BY <1>2, <1>3 DEF CountInv

\* A step that sends a message: who sent it sends no other, and if nobody met
\* anybody there is no one else.
LEMMA CountSent ==
    ASSUME TypeOK, TypeOK', NEW u \in Begun, CountInv(u), sent'[u] = sent[u] + 1, NoMore(u),
           errors' = errors, met \subseteq met', shared \subseteq shared',
           \/ MayCommand(u) /\ ~MayCommand(u)'
           \/ MayCall(u) /\ ~MayCall(u)'
           \/ MayFail(u) /\ errors > 0,
           ~MayFail(u)', Ended(u)' => u \in met',
           u \notin met' \cup shared' => MayReport(u) /\ ~MayReport(u)'
    PROVE  CountInv(u)'
<1>1. sent[u] \in Nat /\ sent'[u] = sent[u] + 1 /\ errors \in Nat
  BY BegunTasks DEF TypeOK, NotesType
<1>2. BoundInv(u)'
  BY <1>1 DEF CountInv, BoundInv, NoMore, One
<1>3. OnlyInv(u)'
  BY <1>1 DEF CountInv, OnlyInv, NoMore, One
<1>4. HeardInv(u)'
  BY <1>1 DEF HeardInv
<1>5. QED BY <1>2, <1>3, <1>4 DEF CountInv

\* Messages: Ready
LEMMA CountOfReady ==
    ASSUME TypeOK, Control, TypeOK', LeftInv, RunInv, FailInv, NEW u \in Begun, CountInv(u),
           Ready, Marks
    PROVE  CountInv(u)'
<1> USE DEF Control, At, Busy, TaskOf, Holders, Joining, Fresh
<1>1. u \in Tasks /\ u # None
  BY BegunTasks DEF TypeOK
<1> DEFINE t == th["handler"].task
<1>2. t # None /\ sock = "open" /\ t \notin active
  BY DEF Ready, HolderInv, SockInv, StartInv
<1>3. /\ met \subseteq met' /\ shared \subseteq shared' /\ errors' = errors
      /\ u = t => MayCommand(u) /\ MayReport(u)
  BY ReadyEffect DEF Ready, MayCommand, MayReport
<1>4. NoMore(u)
  BY <1>1, ReadyEffect DEF NoMore, MayCommand, MayCall, MayFail, MayReport, Ended, Ready
<1>5. CASE sent'[u] = sent[u]
  <2>1. HeardInv(u)'
    BY <1>1, <1>2, <1>5, SendType, ReadyEffect DEF CountInv, HeardInv, Owed, Ready, TypeOK, NotesType
  <2>2. QED BY <1>3, <1>4, <1>5, <2>1, CountKept
<1>6. CASE sent'[u] # sent[u]
  <2>1. u = t /\ sent'[u] = sent[u] + 1 /\ th'["handler"].task = None /\ th'["handler"].pc = "idle"
    BY <1>1, <1>2, <1>6, SendType, ReadyEffect DEF Ready
  <2>2. ~MayCommand(u)' /\ ~MayFail(u)' /\ ~Ended(u)' /\ ~MayReport(u)'
    BY <1>1, <1>2, <2>1, ReadyEffect DEF MayCommand, MayFail, MayReport, Ended, StartInv, Ready
  <2>3. MayCommand(u) /\ MayReport(u) /\ sent'[u] = sent[u] + 1
    BY <1>3, <2>1
  <2>4. QED BY <1>3, <1>4, <2>2, <2>3, CountSent
<1>7. QED BY <1>5, <1>6

\* Messages: Connect
LEMMA CountOfConnect ==
    ASSUME TypeOK, Control, TypeOK', LeftInv, RunInv, FailInv, NEW u \in Begun, CountInv(u),
           Connect, Marks
    PROVE  CountInv(u)'
<1> USE DEF Control, At, Busy, TaskOf, Holders, Joining, Fresh
<1>1. u \in Tasks /\ u # None
  BY BegunTasks DEF TypeOK
<1> DEFINE t == th["handler"].task
<1>2. t # None /\ sock = "open" /\ t \notin active
  BY DEF Connect, HolderInv, SockInv, StartInv
<1>3. /\ met \subseteq met' /\ shared \subseteq shared' /\ errors' = errors
      /\ u = t => MayCommand(u) /\ MayReport(u)
  BY ConnectEffect DEF Connect, MayCommand, MayReport
<1>4. NoMore(u)
  BY <1>1, ConnectEffect DEF NoMore, MayCommand, MayCall, MayFail, MayReport, Ended, Connect, Connected, Refuses
<1>5. CASE sent'[u] = sent[u]
  <2>1. HeardInv(u)'
    BY <1>1, <1>2, <1>5, SendType, ConnectEffect DEF CountInv, HeardInv, Owed, Connect, Connected, Refuses, TypeOK, NotesType
  <2>2. QED BY <1>3, <1>4, <1>5, <2>1, CountKept
<1>6. CASE sent'[u] # sent[u]
  <2>1. u = t /\ sent'[u] = sent[u] + 1 /\ th'["handler"].task = None /\ th'["handler"].pc = "idle"
    BY <1>1, <1>2, <1>6, SendType, ConnectEffect DEF Connect, Connected, Refuses
  <2>2. ~MayCommand(u)' /\ ~MayFail(u)' /\ ~Ended(u)' /\ ~MayReport(u)'
    BY <1>1, <1>2, <2>1, ConnectEffect DEF MayCommand, MayFail, MayReport, Ended, StartInv, Connect, Connected, Refuses
  <2>3. MayCommand(u) /\ MayReport(u) /\ sent'[u] = sent[u] + 1
    BY <1>3, <2>1
  <2>4. QED BY <1>3, <1>4, <2>2, <2>3, CountSent
<1>7. QED BY <1>5, <1>6

\* Messages: Register
LEMMA CountOfRegister ==
    ASSUME TypeOK, Control, TypeOK', LeftInv, RunInv, FailInv, NEW u \in Begun, CountInv(u),
           Register, Marks
    PROVE  CountInv(u)'
<1> USE DEF Control, At, Busy, TaskOf, Holders, Joining, Fresh
<1>1. u \in Tasks /\ u # None
  BY BegunTasks DEF TypeOK
<1>2. NoMore(u)
  BY <1>1, RegisterEffect DEF NoMore, MayCommand, MayCall, MayFail, MayReport, Ended, Register
<1>3. HeardInv(u)'
  BY <1>1, RegisterEffect DEF CountInv, HeardInv, Owed, Register
<1>4. /\ sent'[u] = sent[u] /\ (errors' = 0 => errors = 0)
      /\ met \subseteq met' /\ shared \subseteq shared'
  BY RegisterEffect DEF Register, notes
<1>5. QED BY <1>2, <1>3, <1>4, CountKept

\* Messages: Begin
LEMMA CountOfBegin ==
    ASSUME TypeOK, Control, TypeOK', LeftInv, RunInv, FailInv, NEW u \in Begun, CountInv(u),
           Begin, Marks
    PROVE  CountInv(u)'
<1> USE DEF Control, At, Busy, TaskOf, Holders, Joining, Fresh
<1>1. u \in Tasks /\ u # None
  BY BegunTasks DEF TypeOK
<1>2. NoMore(u)
  BY <1>1, BeginEffect DEF NoMore, MayCommand, MayCall, MayFail, MayReport, Ended, Begin
<1>3. HeardInv(u)'
  BY <1>1, BeginEffect DEF CountInv, HeardInv, Owed, Begin
<1>4. /\ sent'[u] = sent[u] /\ (errors' = 0 => errors = 0)
      /\ met \subseteq met' /\ shared \subseteq shared'
  BY BeginEffect DEF Begin, notes
<1>5. QED BY <1>2, <1>3, <1>4, CountKept

\* Messages: BeginFails
LEMMA CountOfBeginFails ==
    ASSUME TypeOK, Control, TypeOK', LeftInv, RunInv, FailInv, NEW u \in Begun, CountInv(u),
           BeginFails, Marks
    PROVE  CountInv(u)'
<1> USE DEF Control, At, Busy, TaskOf, Holders, Joining, Fresh
<1>1. u \in Tasks /\ u # None
  BY BegunTasks DEF TypeOK
<1>2. NoMore(u)
  BY <1>1, BeginFailsEffect DEF NoMore, MayCommand, MayCall, MayFail, MayReport, Ended, BeginFails
<1>3. HeardInv(u)'
  BY <1>1, BeginFailsEffect DEF CountInv, HeardInv, Owed, BeginFails
<1>4. /\ sent'[u] = sent[u] /\ (errors' = 0 => errors = 0)
      /\ met \subseteq met' /\ shared \subseteq shared'
  BY BeginFailsEffect DEF BeginFails, notes
<1>5. QED BY <1>2, <1>3, <1>4, CountKept

\* Messages: Stop
LEMMA CountOfStop ==
    ASSUME TypeOK, Control, TypeOK', LeftInv, RunInv, FailInv, NEW u \in Begun, CountInv(u),
           NEW t \in Tasks, Stop(t), Marks
    PROVE  CountInv(u)'
<1> USE DEF Control, At, Busy, TaskOf, Holders, Joining, Fresh
<1>1. u \in Tasks /\ u # None
  BY BegunTasks DEF TypeOK
<1>2. /\ th'["coordinator"] = th["coordinator"] /\ th'["streamer"] = th["streamer"]
      /\ th'["sdk"] = th["sdk"] /\ th'["main"] = th["main"]
      /\ th'["handler"].pc = StopAt(t) /\ th'["handler"].task = t
      /\ th'["handler"].then = "release"
      /\ th'["handler"].send = TRUE /\ th'["handler"].had = {}
      /\ UNCHANGED <<kind, chan, conn, rtc, rec, recTask, snap, stream, streamTask, sock, sent,
                     shared, refused, broken, begun>>
  BY StopEffect
<1>3. NoMore(u)
  BY <1>1, <1>2 DEF NoMore, MayCommand, MayCall, MayFail, MayReport, Ended, Stop, StopAt, HolderInv
<1>4. HeardInv(u)'
  BY <1>1, <1>2 DEF CountInv, HeardInv, Owed, Stop, StopAt, HolderInv
<1>5. /\ sent'[u] = sent[u] /\ (errors' = 0 => errors = 0)
      /\ met \subseteq met' /\ shared \subseteq shared'
  BY <1>2 DEF Stop, notes
<1>6. QED BY <1>3, <1>4, <1>5, CountKept

\* Messages: Expire
LEMMA CountOfExpire ==
    ASSUME TypeOK, Control, TypeOK', LeftInv, RunInv, FailInv, NEW u \in Begun, CountInv(u),
           Expire, Marks
    PROVE  CountInv(u)'
<1> USE DEF Control, At, Busy, TaskOf, Holders, Joining, Fresh
<1>1. u \in Tasks /\ u # None
  BY BegunTasks DEF TypeOK
<1>2. NoMore(u)
  BY <1>1, ExpireEffect, MetNext DEF NoMore, MayCommand, MayCall, MayFail, MayReport, Ended, Expire, Threads
<1>3. HeardInv(u)'
  BY <1>1, ExpireEffect DEF HolderInv, CountInv, HeardInv, Owed, Expire
<1>4. /\ sent'[u] = sent[u] /\ (errors' = 0 => errors = 0)
      /\ met \subseteq met' /\ shared \subseteq shared'
  BY ExpireEffect DEF Expire, notes
<1>5. QED BY <1>2, <1>3, <1>4, CountKept

\* Messages: StreamEnds
LEMMA CountOfStreamEnds ==
    ASSUME TypeOK, Control, TypeOK', LeftInv, RunInv, FailInv, NEW u \in Begun, CountInv(u),
           StreamEnds, Marks
    PROVE  CountInv(u)'
<1> USE DEF Control, At, Busy, TaskOf, Holders, Joining, Fresh
<1>1. u \in Tasks /\ u # None
  BY BegunTasks DEF TypeOK
<1>2. NoMore(u)
  BY <1>1, StreamEndsEffect, MetNext DEF NoMore, MayCommand, MayCall, MayFail, MayReport, Ended, StreamEnds, Threads
<1>3. HeardInv(u)'
  BY <1>1, StreamEndsEffect DEF HolderInv, CallbackInv, CountInv, HeardInv, Owed, StreamEnds
<1>4. /\ sent'[u] = sent[u] /\ (errors' = 0 => errors = 0)
      /\ met \subseteq met' /\ shared \subseteq shared'
  BY StreamEndsEffect DEF StreamEnds, notes
<1>5. QED BY <1>2, <1>3, <1>4, CountKept

\* Messages: SdkError
LEMMA CountOfSdkError ==
    ASSUME TypeOK, Control, TypeOK', LeftInv, RunInv, FailInv, NEW u \in Begun, CountInv(u),
           SdkError, Marks
    PROVE  CountInv(u)'
<1> USE DEF Control, At, Busy, TaskOf, Holders, Joining, Fresh
<1>1. u \in Tasks /\ u # None
  BY BegunTasks DEF TypeOK
<1>2. NoMore(u)
  BY <1>1, SdkErrorEffect DEF NoMore, MayCommand, MayCall, MayFail, MayReport, Ended, SdkError
<1>3. HeardInv(u)'
  BY <1>1, SdkErrorEffect DEF CountInv, HeardInv, Owed, SdkError
<1>4. /\ sent'[u] = sent[u] /\ (errors' = 0 => errors = 0)
      /\ met \subseteq met' /\ shared \subseteq shared'
  BY SdkErrorEffect DEF SdkError, notes, TypeOK, NotesType
<1>5. QED BY <1>2, <1>3, <1>4, CountKept

\* Messages: FailAll
LEMMA CountOfFailAll ==
    ASSUME TypeOK, Control, TypeOK', LeftInv, RunInv, FailInv, NEW u \in Begun, CountInv(u),
           FailAll, Marks
    PROVE  CountInv(u)'
<1> USE DEF Control, At, Busy, TaskOf, Holders, Joining, Fresh
<1>1. u \in Tasks /\ u # None
  BY BegunTasks DEF TypeOK
<1>2. met \subseteq met' /\ shared \subseteq shared' /\ errors' = errors /\ errors > 0
  BY FailAllEffect DEF FailAll, SockInv
<1>3. NoMore(u)
  BY <1>1, FailAllEffect DEF NoMore, MayCommand, MayCall, MayFail, MayReport, Ended, FailAll
<1>4. CASE sock = "open" /\ u \in active
  <2>1. sent'[u] = sent[u] + 1
    BY <1>1, <1>4, SendType, BegunTasks DEF FailAll, TypeOK, StateType
  <2>2. MayFail(u) /\ ~MayFail(u)'
    BY <1>4, FailAllEffect DEF MayFail, FailAll, StartInv
  <2>3. (\E x \in Holders : TaskOf(x) = u) => u \in met
    BY <1>1, Met DEF FailAll, Threads
  <2>4. Ended(u)' => u \in met'
    BY <1>2, <2>3, FailAllEffect DEF Ended
  <2>5. u \notin met => kind[u] \in th["sdk"].had
    BY <1>4 DEF FailInv, FailAll
  <2>6. u \notin met' => MayReport(u) /\ ~MayReport(u)'
    BY <1>2, <1>4, <2>3, <2>5, FailAllEffect DEF MayReport, FailAll, CallbackInv
  <2>7. QED BY <1>2, <1>3, <2>1, <2>2, <2>4, <2>6, CountSent
<1>5. CASE ~(sock = "open" /\ u \in active)
  <2>1. sent'[u] = sent[u]
    BY <1>1, <1>5, SendType, BegunTasks DEF FailAll, TypeOK, StateType
  <2>2. HeardInv(u)'
    BY <1>1, <1>5, <2>1, FailAllEffect DEF CountInv, HeardInv, Owed, FailAll
  <2>3. QED BY <1>2, <1>3, <2>1, <2>2, CountKept
<1>6. QED BY <1>4, <1>5

\* Messages: FailStream
LEMMA CountOfFailStream ==
    ASSUME TypeOK, Control, TypeOK', LeftInv, RunInv, FailInv, NEW u \in Begun, CountInv(u),
           FailStream, Marks
    PROVE  CountInv(u)'
<1> USE DEF Control, At, Busy, TaskOf, Holders, Joining, Fresh
<1>1. u \in Tasks /\ u # None
  BY BegunTasks DEF TypeOK
<1>2. NoMore(u)
  BY <1>1, FailStreamEffect DEF NoMore, MayCommand, MayCall, MayFail, MayReport, Ended, FailStream
<1>3. HeardInv(u)'
  BY <1>1, FailStreamEffect DEF CountInv, HeardInv, Owed, FailStream
<1>4. /\ sent'[u] = sent[u] /\ (errors' = 0 => errors = 0)
      /\ met \subseteq met' /\ shared \subseteq shared'
  BY FailStreamEffect DEF FailStream, notes
<1>5. QED BY <1>2, <1>3, <1>4, CountKept

\* Messages: Shutdown
LEMMA CountOfShutdown ==
    ASSUME TypeOK, Control, TypeOK', LeftInv, RunInv, FailInv, NEW u \in Begun, CountInv(u),
           Shutdown, Marks
    PROVE  CountInv(u)'
<1> USE DEF Control, At, Busy, TaskOf, Holders, Joining, Fresh
<1>1. u \in Tasks /\ u # None
  BY BegunTasks DEF TypeOK
<1>2. NoMore(u)
  BY <1>1, ShutdownEffect DEF NoMore, MayCommand, MayCall, MayFail, MayReport, Ended, Shutdown
<1>3. HeardInv(u)'
  BY <1>1, ShutdownEffect DEF CountInv, HeardInv, Owed, Shutdown
<1>4. /\ sent'[u] = sent[u] /\ (errors' = 0 => errors = 0)
      /\ met \subseteq met' /\ shared \subseteq shared'
  BY ShutdownEffect DEF Shutdown, notes
<1>5. QED BY <1>2, <1>3, <1>4, CountKept

\* Messages: Find
LEMMA CountOfFind ==
    ASSUME TypeOK, Control, TypeOK', LeftInv, RunInv, FailInv, NEW u \in Begun, CountInv(u),
           NEW x \in Threads, Find(x), Marks
    PROVE  CountInv(u)'
<1> USE DEF Control, At, Busy, TaskOf, Holders, Joining, Fresh
<1>1. u \in Tasks /\ u # None
  BY BegunTasks DEF TypeOK
<1>2. NoMore(u)
  BY <1>1, FindEffect DEF NoMore, MayCommand, MayCall, MayFail, MayReport, Ended, Find
<1>3. HeardInv(u)'
  BY <1>1, FindEffect DEF CountInv, HeardInv, Owed, Find
<1>4. /\ sent'[u] = sent[u] /\ (errors' = 0 => errors = 0)
      /\ met \subseteq met' /\ shared \subseteq shared'
  BY FindEffect DEF Find, notes
<1>5. QED BY <1>2, <1>3, <1>4, CountKept

\* Messages: Release
LEMMA CountOfRelease ==
    ASSUME TypeOK, Control, TypeOK', LeftInv, RunInv, FailInv, NEW u \in Begun, CountInv(u),
           NEW x \in Threads, Release(x), Marks
    PROVE  CountInv(u)'
<1> USE DEF Control, At, Busy, TaskOf, Holders, Joining, Fresh
<1>1. u \in Tasks /\ u # None
  BY BegunTasks DEF TypeOK
<1>2. NoMore(u)
  BY <1>1, ReleaseEffect DEF NoMore, MayCommand, MayCall, MayFail, MayReport, Ended, Release
<1>3. HeardInv(u)'
  BY <1>1, ReleaseEffect, PlaceOf DEF CountInv, HeardInv, Owed, Release
<1>4. /\ sent'[u] = sent[u] /\ (errors' = 0 => errors = 0)
      /\ met \subseteq met' /\ shared \subseteq shared'
  BY ReleaseEffect DEF Release, notes
<1>5. QED BY <1>2, <1>3, <1>4, CountKept

\* Messages: Cleanup
LEMMA CountOfCleanup ==
    ASSUME TypeOK, Control, TypeOK', LeftInv, RunInv, FailInv, NEW u \in Begun, CountInv(u),
           NEW x \in Threads, Cleanup(x), Marks
    PROVE  CountInv(u)'
<1> USE DEF Control, At, Busy, TaskOf, Holders, Joining, Fresh
<1>1. u \in Tasks /\ u # None
  BY BegunTasks DEF TypeOK
<1>2. /\ \A y \in {"handler", "coordinator", "streamer", "sdk", "main"} : y # x => th'[y] = th[y]
      /\ \/ /\ conn[chan[th[x].task]] = "none" /\ th'[x].pc = "send" /\ th'[x].task = th[x].task
            /\ th'[x].then = th[x].then
            /\ th'[x].send = th[x].send /\ th'[x].had = th[x].had
         \/ /\ conn[chan[th[x].task]] # "none"
            /\ th'[x].was = (conn[chan[th[x].task]] = "connected") /\ th'[x].pc = "stopSnap"
            /\ th'[x].task = th[x].task /\ th'[x].then = "stopStream"
            /\ th'[x].send = th[x].send /\ th'[x].had = th[x].had
      /\ UNCHANGED <<kind, chan, sock, shared, begun, rtc, sent, broken, rec, recTask, snap,
                     stream, streamTask>>
  BY CleanupEffect
<1>3. NoMore(u)
  BY <1>1, <1>2, PlaceOf DEF NoMore, MayCommand, MayCall, MayFail, MayReport, Ended, Cleanup, OnChannel
<1>4. HeardInv(u)'
  BY <1>1, <1>2, PlaceOf DEF CountInv, HeardInv, Owed, Cleanup, OnChannel
<1>5. /\ sent'[u] = sent[u] /\ (errors' = 0 => errors = 0)
      /\ met \subseteq met' /\ shared \subseteq shared'
  BY <1>2 DEF Cleanup, notes
<1>6. QED BY <1>3, <1>4, <1>5, CountKept

\* Messages: StopSnap
LEMMA CountOfStopSnap ==
    ASSUME TypeOK, Control, TypeOK', LeftInv, RunInv, FailInv, NEW u \in Begun, CountInv(u),
           NEW x \in Threads, StopSnap(x), Marks
    PROVE  CountInv(u)'
<1> USE DEF Control, At, Busy, TaskOf, Holders, Joining, Fresh
<1>1. u \in Tasks /\ u # None
  BY BegunTasks DEF TypeOK
<1>2. NoMore(u)
  BY <1>1, StopSnapEffect DEF NoMore, MayCommand, MayCall, MayFail, MayReport, Ended, StopSnap, AfterSnap, ThenInv
<1>3. HeardInv(u)'
  BY <1>1, StopSnapEffect DEF CountInv, HeardInv, Owed, StopSnap, AfterSnap, ThenInv
<1>4. /\ sent'[u] = sent[u] /\ (errors' = 0 => errors = 0)
      /\ met \subseteq met' /\ shared \subseteq shared'
  BY StopSnapEffect DEF StopSnap, notes
<1>5. QED BY <1>2, <1>3, <1>4, CountKept

\* Messages: StopRec
LEMMA CountOfStopRec ==
    ASSUME TypeOK, Control, TypeOK', LeftInv, RunInv, FailInv, NEW u \in Begun, CountInv(u),
           NEW x \in Threads, StopRec(x), Marks
    PROVE  CountInv(u)'
<1> USE DEF Control, At, Busy, TaskOf, Holders, Joining, Fresh
<1>1. u \in Tasks /\ u # None
  BY BegunTasks DEF TypeOK
<1>2. NoMore(u)
  BY <1>1, StopRecEffect DEF NoMore, MayCommand, MayCall, MayFail, MayReport, Ended, StopRec, ThenInv
<1>3. HeardInv(u)'
  BY <1>1, StopRecEffect DEF CountInv, HeardInv, Owed, StopRec, ThenInv
<1>4. /\ sent'[u] = sent[u] /\ (errors' = 0 => errors = 0)
      /\ met \subseteq met' /\ shared \subseteq shared'
  BY StopRecEffect DEF StopRec, notes
<1>5. QED BY <1>2, <1>3, <1>4, CountKept

\* Messages: JoinRec
LEMMA CountOfJoinRec ==
    ASSUME TypeOK, Control, TypeOK', LeftInv, RunInv, FailInv, NEW u \in Begun, CountInv(u),
           NEW x \in Threads, JoinRec(x), Marks
    PROVE  CountInv(u)'
<1> USE DEF Control, At, Busy, TaskOf, Holders, Joining, Fresh
<1>1. u \in Tasks /\ u # None
  BY BegunTasks DEF TypeOK
<1>2. NoMore(u)
  BY <1>1, JoinRecEffect DEF NoMore, MayCommand, MayCall, MayFail, MayReport, Ended, JoinRec, ThenInv
<1>3. HeardInv(u)'
  BY <1>1, JoinRecEffect DEF CountInv, HeardInv, Owed, JoinRec, ThenInv
<1>4. /\ sent'[u] = sent[u] /\ (errors' = 0 => errors = 0)
      /\ met \subseteq met' /\ shared \subseteq shared'
  BY JoinRecEffect DEF JoinRec, notes
<1>5. QED BY <1>2, <1>3, <1>4, CountKept

\* Messages: StopStream
LEMMA CountOfStopStream ==
    ASSUME TypeOK, Control, TypeOK', LeftInv, RunInv, FailInv, NEW u \in Begun, CountInv(u),
           NEW x \in Threads, StopStream(x), Marks
    PROVE  CountInv(u)'
<1> USE DEF Control, At, Busy, TaskOf, Holders, Joining, Fresh
<1>1. u \in Tasks /\ u # None
  BY BegunTasks DEF TypeOK
<1>2. NoMore(u)
  BY <1>1, StopStreamEffect DEF NoMore, MayCommand, MayCall, MayFail, MayReport, Ended, StopStream, AfterStream, ThenInv, HolderInv
<1>3. HeardInv(u)'
  BY <1>1, StopStreamEffect DEF CountInv, HeardInv, Owed, StopStream, AfterStream, ThenInv, HolderInv
<1>4. /\ sent'[u] = sent[u] /\ (errors' = 0 => errors = 0)
      /\ met \subseteq met' /\ shared \subseteq shared'
  BY StopStreamEffect DEF StopStream, notes
<1>5. QED BY <1>2, <1>3, <1>4, CountKept

\* Messages: JoinStream
LEMMA CountOfJoinStream ==
    ASSUME TypeOK, Control, TypeOK', LeftInv, RunInv, FailInv, NEW u \in Begun, CountInv(u),
           NEW x \in Threads, JoinStream(x), Marks
    PROVE  CountInv(u)'
<1> USE DEF Control, At, Busy, TaskOf, Holders, Joining, Fresh
<1>1. u \in Tasks /\ u # None
  BY BegunTasks DEF TypeOK
<1>2. NoMore(u)
  BY <1>1, JoinStreamEffect DEF NoMore, MayCommand, MayCall, MayFail, MayReport, Ended, JoinStream, AfterStream, ThenInv, HolderInv
<1>3. HeardInv(u)'
  BY <1>1, JoinStreamEffect DEF CountInv, HeardInv, Owed, JoinStream, AfterStream, ThenInv, HolderInv
<1>4. /\ sent'[u] = sent[u] /\ (errors' = 0 => errors = 0)
      /\ met \subseteq met' /\ shared \subseteq shared'
  BY JoinStreamEffect DEF JoinStream, notes
<1>5. QED BY <1>2, <1>3, <1>4, CountKept

\* Messages: Disconnect
LEMMA CountOfDisconnect ==
    ASSUME TypeOK, Control, TypeOK', LeftInv, RunInv, FailInv, NEW u \in Begun, CountInv(u),
           NEW x \in Threads, Disconnect(x), Marks
    PROVE  CountInv(u)'
<1> USE DEF Control, At, Busy, TaskOf, Holders, Joining, Fresh
<1>1. u \in Tasks /\ u # None
  BY BegunTasks DEF TypeOK
<1>2. NoMore(u)
  BY <1>1, DisconnectEffect DEF NoMore, MayCommand, MayCall, MayFail, MayReport, Ended, Disconnect
<1>3. HeardInv(u)'
  BY <1>1, DisconnectEffect DEF CountInv, HeardInv, Owed, Disconnect
<1>4. /\ sent'[u] = sent[u] /\ (errors' = 0 => errors = 0)
      /\ met \subseteq met' /\ shared \subseteq shared'
  BY DisconnectEffect DEF Disconnect, notes
<1>5. QED BY <1>2, <1>3, <1>4, CountKept

\* Messages: Report
LEMMA CountOfReport ==
    ASSUME TypeOK, Control, TypeOK', LeftInv, RunInv, FailInv, NEW u \in Begun, CountInv(u),
           NEW x \in Threads, Report(x), Marks
    PROVE  CountInv(u)'
<1> USE DEF Control, At, Busy, TaskOf, Holders, Joining, Fresh
<1>1. u \in Tasks /\ u # None
  BY BegunTasks DEF TypeOK
<1>2. met \subseteq met' /\ shared \subseteq shared' /\ errors' = errors
  BY ReportEffect DEF Report
<1>3. NoMore(u)
  BY <1>1, ReportEffect DEF NoMore, MayCommand, MayCall, MayFail, MayReport, Ended, Report
<1>4. CASE th[x].send /\ sock = "open" /\ th[x].task = u
  <2>1. sent'[u] = sent[u] + 1
    BY <1>1, <1>4, SendType DEF Report
  <2>2. x \in Holders /\ u \notin active
    BY <1>1, <1>4, PlaceOf DEF Report, LeftInv, Released, HolderInv
  <2>3. ~MayFail(u)'
    BY <1>1, <1>4, <2>2, ReportEffect DEF MayFail, Report, StartInv
  <2>4. (\E y \in Holders \ {x} : TaskOf(y) = u) => u \in met
    BY <1>1, <1>4, <2>2, Met DEF Threads, HolderInv
  <2>5. Ended(u)' => u \in met'
    BY <1>1, <1>2, <2>4, ReportEffect DEF Ended
  <2>6. (MayCommand(u) /\ ~MayCommand(u)') \/ (MayCall(u) /\ ~MayCall(u)')
    <3>1. CASE x = "handler"
      <4>1. th["handler"].task = u /\ th'["handler"].task = None /\ active' = active
        BY <1>4, <3>1, ReportEffect
      <4>2. MayCommand(u)
        BY <4>1 DEF MayCommand
      <4>3. ~MayCommand(u)'
        BY <1>1, <2>2, <4>1 DEF MayCommand
      <4>4. QED BY <4>2, <4>3
    <3>2. CASE x # "handler"
      BY <1>1, <1>4, <2>2, <3>2, ReportEffect DEF MayCall, Report, CallbackInv, HolderInv, StartInv
    <3>3. QED BY <3>1, <3>2
  <2>7. u \notin met' \cup shared' => MayReport(u) /\ ~MayReport(u)'
    <3>1. MayReport(u)
      BY <1>4, <2>2 DEF MayReport
    <3>2. ~(rec = "on" /\ recTask = u /\ u \notin shared) /\ ~(stream = "on" /\ streamTask = u)
      BY <1>4, <2>2 DEF Report, RunInv, Released, CallbackInv, HolderInv
    <3>3. QED BY <1>1, <1>2, <1>4, <2>2, <2>4, <3>1, <3>2, ReportEffect DEF MayReport, Report
  <2>8. QED BY <1>2, <1>3, <2>1, <2>3, <2>5, <2>6, <2>7, CountSent
<1>5. CASE ~(th[x].send /\ sock = "open" /\ th[x].task = u)
  <2>1. sent'[u] = sent[u]
    BY <1>1, <1>5, SendType DEF Report
  <2>2. HeardInv(u)'
    BY <1>1, <1>5, <2>1, PlaceOf, ReportEffect DEF CountInv, HeardInv, Owed, Report, HolderInv, SendInv
  <2>3. QED BY <1>2, <1>3, <2>1, <2>2, CountKept
<1>6. QED BY <1>4, <1>5

-----------------------------------------------------------------------------
(* Channels and sinks *)

\* While no two threads have met, a start is alone, the SDK's thread finds the
\* others idle, no two threads have the same task, and a channel is empty when
\* it is taken down.
Apart ==
    /\ Fresh \/ At("handler", "begin") => \A y \in Threads \ {"handler"} : At(y, "idle")
    /\ Busy("sdk") => \A x \in Holders : At(x, "idle")
    /\ \A x \in Holders, y \in Holders : x # y /\ Busy(x) => TaskOf(x) # TaskOf(y)
    /\ \A x \in Holders : Removing(x) \/ At(x, "cleanup") => active = {}

\* It follows from the invariant.
LEMMA ApartHolds ==
    ASSUME TypeOK, Control, LeftInv, SameChannel, EntryInv, raced = {}
    PROVE  Apart
<1>1. ASSUME Fresh \/ At("handler", "begin"), NEW y \in Threads \ {"handler"} PROVE At(y, "idle")
  BY <1>1, Alone DEF At, Busy
<1>2. ASSUME Busy("sdk"), NEW x \in Holders PROVE At(x, "idle")
  BY <1>2, Met DEF Control, HolderInv, TaskOf, Threads, Holders
<1>3. ASSUME NEW x \in Holders, NEW y \in Holders, x # y, Busy(x), TaskOf(x) = TaskOf(y) PROVE FALSE
  <2>1. TaskOf(x) # None /\ Busy(y)
    BY <1>3 DEF Control, HolderInv, Busy
  <2>2. x \in Threads /\ y \in Threads \ {x}
    BY <1>3 DEF Threads, Holders
  <2>3. RaceInv
    BY DEF Control
  <2>4. QED BY <1>3, <2>1, <2>2, <2>3, Met DEF TaskOf
<1>4. ASSUME NEW x \in Holders, Removing(x) \/ At(x, "cleanup") PROVE active = {}
  <2> SUFFICES ASSUME NEW u \in active PROVE FALSE
    OBVIOUS
  <2>1. TaskOf(x) \in Begun /\ u \in Begun
    BY <1>4 DEF TypeOK, ThreadsType, StateType, Control, HolderInv, Holders, Threads, TaskOf, At,
           Removing, Joining
  <2>2. Live(TaskOf(x)) /\ Live(u)
    BY <1>4 DEF Live, Removing, Joining, At
  <2>3. chan[TaskOf(x)] = chan[u]
    BY <2>1, <2>2 DEF SameChannel
  <2>4. QED BY <1>4, <2>3 DEF LeftInv, EntryInv
<1>5. QED BY <1>1, <1>2, <1>3, <1>4 DEF Apart

\* Types, by field
LEMMA Facts ==
    ASSUME TypeOK
    PROVE  /\ None \notin Begun /\ active \subseteq Begun /\ None \notin Channels
           /\ \A t \in Begun : chan[t] \in Channels
           /\ \A x \in Threads : th[x].task \in Begun \cup {None}
           /\ conn \in [Channels -> {"none", "listed", "connected"}]
           /\ rtc \in Channels \cup {None}
<1>1. None \notin Channels
  BY PipeAssumption DEF Channels, None
<1>2. QED BY <1>1, BegunTasks DEF TypeOK, JobsType, StateType, ThreadsType

\* Tasks stay on their channel.
LEMMA ChannelsKept ==
    ASSUME SameChannel, UNCHANGED <<begun, chan>>, \A u \in Begun : Live(u)' => Live(u)
    PROVE  SameChannel'
  BY DEF SameChannel, Begun

\* Active tasks are on one channel, with the tasks the threads have.
LEMMA OneChannel ==
    ASSUME TypeOK, Control, SameChannel
    PROVE  /\ \A t, u \in active : chan[t] = chan[u]
           /\ \A x \in Holders : th[x].pc \notin {"idle", "find", "send"} =>
                 /\ \A u \in active : chan[th[x].task] = chan[u]
                 /\ \A y \in Holders : th[y].pc \notin {"idle", "find", "send"} => chan[th[x].task] = chan[th[y].task]
<1>1. ASSUME NEW x \in Holders, th[x].pc \notin {"idle", "find", "send"}
      PROVE  th[x].task \in Begun /\ Live(th[x].task)
  BY <1>1, Facts DEF Control, HolderInv, Live, TaskOf, At, Holders, Threads
<1>2. \A u \in active : u \in Begun /\ Live(u)
  BY Facts DEF Live
<1>3. QED BY <1>1, <1>2 DEF SameChannel

\* Channels and sinks match the tasks: Ready
LEMMA CalmOfReady ==
    ASSUME TypeOK, Control, TypeOK', OnceInv, LeftInv, FailInv, RunInv, TaskInv, Apart, Calm,
           raced = {}, raced' = {}, Ready, Marks
    PROVE  Calm'
<1> USE ReadyEffect DEF Control, Calm, At, Busy, TaskOf, Threads, Holders, Joining, Fresh, OfKind,
        OnChannel, Removing
<1>1. SameChannel'
  <2>1. ASSUME NEW u \in Begun, Live(u)' PROVE Live(u)
    BY <2>1, Facts DEF Live, Ready, At, TaskOf, Holders, Threads
  <2>2. QED BY <2>1, ChannelsKept
<1>2. EntryInv'
  BY DEF EntryInv, Ready
<1>3. UsedInv'
  BY DEF UsedInv, Ready
<1>4. ClientInv'
  BY DEF ClientInv, Ready
<1>5. RecInv'
  BY DEF RecInv, Ready
<1>6. SnapInv'
  BY DEF SnapInv, Ready
<1>7. StreamInv'
  BY DEF StreamInv, Ready, StartInv, ThenInv
<1>8. QED BY <1>1, <1>2, <1>3, <1>4, <1>5, <1>6, <1>7

\* Channels and sinks match the tasks: Connect
LEMMA CalmOfConnect ==
    ASSUME TypeOK, Control, TypeOK', OnceInv, LeftInv, FailInv, RunInv, TaskInv, Apart, Calm,
           raced = {}, raced' = {}, Connect, Marks
    PROVE  Calm'
<1> USE ConnectEffect DEF Control, Calm
<1>1. SameChannel'
  <2>1. ASSUME NEW u \in Begun, Live(u)' PROVE Live(u)
    BY <2>1, Facts DEF Live, Connect, At, TaskOf, Holders, Threads
  <2>2. QED BY <2>1, ChannelsKept
<1>2. EntryInv'
  <2> DEFINE t == th["handler"].task
  <2>1. t \in Begun /\ chan[t] \in Channels /\ sock = "open"
    BY Facts DEF Connect, HolderInv, SockInv, At, Holders, Threads, TaskOf
  <2>2. \A y \in Holders : ~Removing(y) /\ ~Removing(y)' /\ ~At(y, "cleanup")
    BY DEF Apart, Fresh, Removing, Connect, At, Holders, Threads, Joining
  <2>3. /\ \A c \in Channels : conn'[c] = conn[c] \/ conn'[c] = "connected"
        /\ th'["handler"].pc = "register" => conn'[chan[t]] = "connected"
    BY <2>1, Facts DEF Connected, Refuses
  <2>4. \A u \in active : chan[u] \in Channels
    BY Facts
  <2>5. QED BY <2>1, <2>2, <2>3, <2>4 DEF EntryInv, At, TaskOf
<1>3. UsedInv'
  BY Facts, OneChannel DEF UsedInv, Connect, At, Busy, TaskOf, Threads, Holders, Joining, Fresh,
         OfKind, OnChannel, Removing, Connected, Refuses, Apart
<1>4. ClientInv'
  <2> DEFINE t == th["handler"].task
  <2>1. t \in Begun /\ chan[t] \in Channels /\ sock = "open"
    BY Facts DEF Connect, HolderInv, SockInv, At, Holders, Threads, TaskOf
  <2>2. \A y \in Holders : ~Removing(y) /\ ~Removing(y)' /\ ~At(y, "cleanup")
    BY DEF Apart, Fresh, Removing, Connect, At, Holders, Threads, Joining
  <2>3. ASSUME ~broken, rtc # None, conn[chan[t]] # "connected" PROVE FALSE
    <3>1. rtc \in Channels /\ conn[rtc] = "connected"
      BY <2>1, <2>2, <2>3, Facts DEF ClientInv
    <3>2. \E u \in active : chan[u] = rtc
      BY <2>2, <3>1 DEF UsedInv, Connect, At
    <3>3. chan[t] = rtc
      BY <3>2, OneChannel DEF Connect, At, Holders
    <3>4. QED BY <2>3, <3>1, <3>3
  <2>4. \/ UNCHANGED <<conn, rtc>>
        \/ rtc' = chan[t] /\ rtc = None /\ conn' = [conn EXCEPT ![chan[t]] = "connected"]
        \/ broken
    BY <2>3 DEF Connected, Refuses
  <2>5. rtc = None /\ ~broken => \A c \in Channels : conn[c] # "connected"
    BY Facts DEF ClientInv
  <2>6. QED BY <2>1, <2>2, <2>4, <2>5, Facts DEF ClientInv
<1>5. RecInv'
  BY DEF RecInv, Connect, At, Busy, TaskOf, Threads, Holders, Joining, Fresh, OfKind, OnChannel,
         Removing
<1>6. SnapInv'
  BY DEF SnapInv, Connect, At, Busy, TaskOf, Threads, Holders, Joining, Fresh, OfKind, OnChannel,
         Removing
<1>7. StreamInv'
  BY Facts, OneChannel DEF StreamInv, Connect, At, Busy, TaskOf, Threads, Holders, Joining, Fresh,
         OfKind, OnChannel, Removing, Connected, Refuses, Apart, StartInv
<1>8. QED BY <1>1, <1>2, <1>3, <1>4, <1>5, <1>6, <1>7

\* Channels and sinks match the tasks: Register
LEMMA CalmOfRegister ==
    ASSUME TypeOK, Control, TypeOK', OnceInv, LeftInv, FailInv, RunInv, TaskInv, Apart, Calm,
           raced = {}, raced' = {}, Register, Marks
    PROVE  Calm'
<1> USE RegisterEffect DEF Control, Calm, At, Busy, TaskOf, Threads, Holders, Joining, Fresh,
        OfKind, OnChannel, Removing
<1>1. SameChannel'
  <2>1. ASSUME NEW u \in Begun, Live(u)' PROVE Live(u)
    BY <2>1, Facts DEF Live, Register, At, TaskOf, Holders, Threads
  <2>2. QED BY <2>1, ChannelsKept
<1>2. EntryInv'
  BY DEF EntryInv, Register
<1>3. UsedInv'
  BY DEF UsedInv, Register
<1>4. ClientInv'
  BY DEF ClientInv, Register
<1>5. RecInv'
  BY OneChannel, Facts DEF RecInv, Register, Shares, Apart, HolderInv
<1>6. SnapInv'
  BY DEF SnapInv, Register
<1>7. StreamInv'
  BY DEF StreamInv, Register
<1>8. QED BY <1>1, <1>2, <1>3, <1>4, <1>5, <1>6, <1>7

\* Channels and sinks match the tasks: Begin
LEMMA CalmOfBegin ==
    ASSUME TypeOK, Control, TypeOK', OnceInv, LeftInv, FailInv, RunInv, TaskInv, Apart, Calm,
           raced = {}, raced' = {}, Begin, Marks
    PROVE  Calm'
<1> USE BeginEffect DEF Control, Calm, At, Busy, TaskOf, Threads, Holders, Joining, Fresh, OfKind,
        OnChannel, Removing
<1>1. SameChannel'
  <2>1. ASSUME NEW u \in Begun, Live(u)' PROVE Live(u)
    BY <2>1, Facts DEF Live, Begin, At, TaskOf, Holders, Threads
  <2>2. QED BY <2>1, ChannelsKept
<1>2. EntryInv'
  BY DEF EntryInv, Begin
<1>3. UsedInv'
  BY DEF UsedInv, Begin
<1>4. ClientInv'
  BY DEF ClientInv, Begin
<1>5. RecInv'
  BY DEF RecInv, Begin
<1>6. SnapInv'
  BY DEF SnapInv, Begin, StartInv
<1>7. StreamInv'
  BY DEF StreamInv, Begin
<1>8. QED BY <1>1, <1>2, <1>3, <1>4, <1>5, <1>6, <1>7

\* Channels and sinks match the tasks: BeginFails
LEMMA CalmOfBeginFails ==
    ASSUME TypeOK, Control, TypeOK', OnceInv, LeftInv, FailInv, RunInv, TaskInv, Apart, Calm,
           raced = {}, raced' = {}, BeginFails, Marks
    PROVE  Calm'
<1> USE BeginFailsEffect DEF Control, Calm, At, Busy, TaskOf, Threads, Holders, Joining, Fresh,
        OfKind, OnChannel, Removing
<1>1. SameChannel'
  <2>1. ASSUME NEW u \in Begun, Live(u)' PROVE Live(u)
    BY <2>1, Facts DEF Live, BeginFails, At, TaskOf, Holders, Threads
  <2>2. QED BY <2>1, ChannelsKept
<1>2. EntryInv'
  BY DEF EntryInv, BeginFails
<1>3. UsedInv'
  BY DEF UsedInv, BeginFails
<1>4. ClientInv'
  BY DEF ClientInv, BeginFails
<1>5. RecInv'
  BY DEF RecInv, BeginFails
<1>6. SnapInv'
  BY DEF SnapInv, BeginFails
<1>7. StreamInv'
  BY DEF StreamInv, BeginFails
<1>8. QED BY <1>1, <1>2, <1>3, <1>4, <1>5, <1>6, <1>7

\* Channels and sinks match the tasks: Stop
LEMMA CalmOfStop ==
    ASSUME TypeOK, Control, TypeOK', OnceInv, LeftInv, FailInv, RunInv, TaskInv, Apart, Calm,
           raced = {}, raced' = {}, NEW t \in Tasks, Stop(t), Marks
    PROVE  Calm'
<1> USE DEF Control, Calm, At, Busy, TaskOf, Threads, Holders, Joining, Fresh, OfKind, OnChannel,
        Removing
<1>1. /\ th'["coordinator"] = th["coordinator"] /\ th'["streamer"] = th["streamer"]
      /\ th'["sdk"] = th["sdk"] /\ th'["main"] = th["main"]
      /\ th'["handler"].pc = StopAt(t) /\ th'["handler"].task = t
      /\ th'["handler"].then = "release"
      /\ th'["handler"].send = TRUE /\ th'["handler"].had = {}
      /\ UNCHANGED <<kind, chan, conn, rtc, rec, recTask, snap, stream, streamTask, sock, sent,
                     shared, refused, broken, begun>>
  BY StopEffect
<1>2. SameChannel'
  <2>1. ASSUME NEW u \in Begun, Live(u)' PROVE Live(u)
    BY <1>1, <2>1, Facts DEF Live, Stop, At, TaskOf, Holders, Threads, StopAt
  <2>2. QED BY <1>1, <2>1, ChannelsKept
<1>3. EntryInv'
  BY <1>1 DEF EntryInv, Stop
<1>4. UsedInv'
  BY <1>1, OneChannel DEF UsedInv, Stop, StopAt
<1>5. ClientInv'
  BY <1>1 DEF ClientInv, Stop
<1>6. RecInv'
  BY <1>1, OneChannel DEF RecInv, Stop, StopAt
<1>7. SnapInv'
  BY <1>1 DEF SnapInv, Stop, StopAt
<1>8. StreamInv'
  BY <1>1 DEF StreamInv, Stop
<1>9. QED BY <1>2, <1>3, <1>4, <1>5, <1>6, <1>7, <1>8

\* Channels and sinks match the tasks: Expire
LEMMA CalmOfExpire ==
    ASSUME TypeOK, Control, TypeOK', OnceInv, LeftInv, FailInv, RunInv, TaskInv, Apart, Calm,
           raced = {}, raced' = {}, Expire, Marks
    PROVE  Calm'
<1> USE ExpireEffect DEF Control, Calm, At, Busy, TaskOf, Threads, Holders, Joining, Fresh, OfKind,
        OnChannel, Removing
<1>1. SameChannel'
  <2>1. ASSUME NEW u \in Begun, Live(u)' PROVE Live(u)
    BY <2>1, Facts DEF Live, Expire, At, TaskOf, Holders, Threads
  <2>2. QED BY <2>1, ChannelsKept
<1>2. EntryInv'
  BY DEF EntryInv, Expire
<1>3. UsedInv'
  BY DEF UsedInv, Expire
<1>4. ClientInv'
  BY DEF ClientInv, Expire
<1>5. RecInv'
  BY DEF RecInv, Expire
<1>6. SnapInv'
  BY DEF SnapInv, Expire
<1>7. StreamInv'
  BY DEF StreamInv, Expire
<1>8. QED BY <1>1, <1>2, <1>3, <1>4, <1>5, <1>6, <1>7

\* Channels and sinks match the tasks: StreamEnds
LEMMA CalmOfStreamEnds ==
    ASSUME TypeOK, Control, TypeOK', OnceInv, LeftInv, FailInv, RunInv, TaskInv, Apart, Calm,
           raced = {}, raced' = {}, StreamEnds, Marks
    PROVE  Calm'
<1> USE StreamEndsEffect DEF Control, Calm, At, Busy, TaskOf, Threads, Holders, Joining, Fresh,
        OfKind, OnChannel, Removing
<1>1. SameChannel'
  <2>1. ASSUME NEW u \in Begun, Live(u)' PROVE Live(u)
    BY <2>1, Facts DEF Live, StreamEnds, At, TaskOf, Holders, Threads
  <2>2. QED BY <2>1, ChannelsKept
<1>2. EntryInv'
  BY DEF EntryInv, StreamEnds
<1>3. UsedInv'
  BY DEF UsedInv, StreamEnds, CallbackInv
<1>4. ClientInv'
  BY DEF ClientInv, StreamEnds, CallbackInv
<1>5. RecInv'
  BY DEF RecInv, StreamEnds
<1>6. SnapInv'
  BY DEF SnapInv, StreamEnds, CallbackInv
<1>7. StreamInv'
  BY DEF StreamInv, StreamEnds, CallbackInv, RunInv, OnceInv, FailInv, SockInv
<1>8. QED BY <1>1, <1>2, <1>3, <1>4, <1>5, <1>6, <1>7

\* Channels and sinks match the tasks: SdkError
LEMMA CalmOfSdkError ==
    ASSUME TypeOK, Control, TypeOK', OnceInv, LeftInv, FailInv, RunInv, TaskInv, Apart, Calm,
           raced = {}, raced' = {}, SdkError, Marks
    PROVE  Calm'
<1> USE SdkErrorEffect DEF Control, Calm, At, Busy, TaskOf, Threads, Holders, Joining, Fresh,
        OfKind, OnChannel, Removing
<1>1. SameChannel'
  <2>1. ASSUME NEW u \in Begun, Live(u)' PROVE Live(u)
    BY <2>1, Facts DEF Live, SdkError, At, TaskOf, Holders, Threads
  <2>2. QED BY <2>1, ChannelsKept
<1>2. EntryInv'
  BY DEF EntryInv, SdkError
<1>3. UsedInv'
  BY DEF UsedInv, SdkError
<1>4. ClientInv'
  BY DEF ClientInv, SdkError
<1>5. RecInv'
  BY DEF RecInv, SdkError
<1>6. SnapInv'
  BY DEF SnapInv, SdkError
<1>7. StreamInv'
  BY DEF StreamInv, SdkError
<1>8. QED BY <1>1, <1>2, <1>3, <1>4, <1>5, <1>6, <1>7

\* Channels and sinks match the tasks: FailAll
LEMMA CalmOfFailAll ==
    ASSUME TypeOK, Control, TypeOK', OnceInv, LeftInv, FailInv, RunInv, TaskInv, Apart, Calm,
           raced = {}, raced' = {}, FailAll, Marks
    PROVE  Calm'
<1> USE FailAllEffect DEF Control, Calm, At, Busy, TaskOf, Threads, Holders, Joining, Fresh,
        OfKind, OnChannel, Removing
<1>1. SameChannel'
  <2>1. ASSUME NEW u \in Begun, Live(u)' PROVE Live(u)
    BY <2>1, Facts DEF Live, FailAll, At, TaskOf, Holders, Threads
  <2>2. QED BY <2>1, ChannelsKept
<1>2. EntryInv'
  BY Facts DEF EntryInv, FailAll, Apart
<1>3. UsedInv'
  BY DEF UsedInv, FailAll
<1>4. ClientInv'
  BY DEF ClientInv, FailAll
<1>5. RecInv'
  BY DEF RecInv, FailAll, Apart, FailInv, RaceInv
<1>6. SnapInv'
  BY DEF SnapInv, FailAll, Apart, FailInv, RaceInv
<1>7. StreamInv'
  BY DEF StreamInv, FailAll, Apart, FailInv
<1>8. QED BY <1>1, <1>2, <1>3, <1>4, <1>5, <1>6, <1>7

\* Channels and sinks match the tasks: FailStream
LEMMA CalmOfFailStream ==
    ASSUME TypeOK, Control, TypeOK', OnceInv, LeftInv, FailInv, RunInv, TaskInv, Apart, Calm,
           raced = {}, raced' = {}, FailStream, Marks
    PROVE  Calm'
<1> USE FailStreamEffect DEF Control, Calm, At, Busy, TaskOf, Threads, Holders, Joining, Fresh,
        OfKind, OnChannel, Removing
<1>1. SameChannel'
  <2>1. ASSUME NEW u \in Begun, Live(u)' PROVE Live(u)
    BY <2>1, Facts DEF Live, FailStream, At, TaskOf, Holders, Threads
  <2>2. QED BY <2>1, ChannelsKept
<1>2. EntryInv'
  BY DEF EntryInv, FailStream
<1>3. UsedInv'
  BY DEF UsedInv, FailStream
<1>4. ClientInv'
  BY DEF ClientInv, FailStream
<1>5. RecInv'
  BY DEF RecInv, FailStream
<1>6. SnapInv'
  BY DEF SnapInv, FailStream, FailInv
<1>7. StreamInv'
  BY DEF StreamInv, FailStream
<1>8. QED BY <1>1, <1>2, <1>3, <1>4, <1>5, <1>6, <1>7

\* Channels and sinks match the tasks: Shutdown
LEMMA CalmOfShutdown ==
    ASSUME TypeOK, Control, TypeOK', OnceInv, LeftInv, FailInv, RunInv, TaskInv, Apart, Calm,
           raced = {}, raced' = {}, Shutdown, Marks
    PROVE  Calm'
<1> USE ShutdownEffect DEF Control, Calm
<1>1. SameChannel'
  <2>1. ASSUME NEW u \in Begun, Live(u)' PROVE Live(u)
    BY <2>1, Facts DEF Live, Shutdown, At, TaskOf, Holders, Threads
  <2>2. QED BY <2>1, ChannelsKept
<1>2. EntryInv'
  <2>1. /\ active' = {} /\ \A c \in Channels : conn'[c] = "none"
    BY DEF Shutdown
  <2>2. \A y \in Holders : th'[y] = th[y]
    BY DEF Holders
  <2>3. \A y \in Holders : Removing(y) => chan[th[y].task] \in Channels
    BY Facts DEF Removing, HolderInv, Holders, Threads, TaskOf, At, Joining
  <2>4. At("handler", "idle")
    BY DEF Shutdown, SockInv
  <2>5. QED BY <2>1, <2>2, <2>3, <2>4 DEF EntryInv, Removing, At, TaskOf, Holders
<1>3. UsedInv'
  BY DEF UsedInv, Shutdown, At, Busy, TaskOf, Threads, Holders, Joining, Fresh, OfKind, OnChannel,
         Removing
<1>4. ClientInv'
  BY DEF ClientInv, Shutdown, At, Busy, TaskOf, Threads, Holders, Joining, Fresh, OfKind,
         OnChannel, Removing
<1>5. RecInv'
  BY DEF RecInv, Shutdown, At, Busy, TaskOf, Threads, Holders, Joining, Fresh, OfKind, OnChannel,
         Removing, SockInv
<1>6. SnapInv'
  BY DEF SnapInv, Shutdown, At, Busy, TaskOf, Threads, Holders, Joining, Fresh, OfKind, OnChannel,
         Removing
<1>7. StreamInv'
  BY DEF StreamInv, Shutdown, At, Busy, TaskOf, Threads, Holders, Joining, Fresh, OfKind,
         OnChannel, Removing, SockInv
<1>8. QED BY <1>1, <1>2, <1>3, <1>4, <1>5, <1>6, <1>7

\* Channels and sinks match the tasks: Find
LEMMA CalmOfFind ==
    ASSUME TypeOK, Control, TypeOK', OnceInv, LeftInv, FailInv, RunInv, TaskInv, Apart, Calm,
           raced = {}, raced' = {}, NEW x \in Threads, Find(x), Marks
    PROVE  Calm'
<1> USE FindEffect DEF Control, Calm, At, Busy, TaskOf, Threads, Holders, Joining, Fresh, OfKind,
        OnChannel, Removing
<1>1. SameChannel'
  <2>1. ASSUME NEW u \in Begun, Live(u)' PROVE Live(u)
    BY <2>1, Facts DEF Live, Find, At, TaskOf, Holders, Threads
  <2>2. QED BY <2>1, ChannelsKept
<1>2. EntryInv'
  BY DEF EntryInv, Find
<1>3. UsedInv'
  BY DEF UsedInv, Find
<1>4. ClientInv'
  BY DEF ClientInv, Find
<1>5. RecInv'
  BY DEF RecInv, Find
<1>6. SnapInv'
  BY DEF SnapInv, Find
<1>7. StreamInv'
  BY DEF StreamInv, Find
<1>8. QED BY <1>1, <1>2, <1>3, <1>4, <1>5, <1>6, <1>7

\* Channels and sinks match the tasks: Release
LEMMA CalmOfRelease ==
    ASSUME TypeOK, Control, TypeOK', OnceInv, LeftInv, FailInv, RunInv, TaskInv, Apart, Calm,
           raced = {}, raced' = {}, NEW x \in Threads, Release(x), Marks
    PROVE  Calm'
<1> USE ReleaseEffect DEF Control, Calm, At, Busy, TaskOf, Threads, Holders, Joining, Fresh,
        OfKind, OnChannel, Removing
<1>1. SameChannel'
  <2>1. ASSUME NEW u \in Begun, Live(u)' PROVE Live(u)
    BY <2>1, Facts DEF Live, Release, At, TaskOf, Holders, Threads
  <2>2. QED BY <2>1, ChannelsKept
<1>2. EntryInv'
  BY DEF EntryInv, Release
<1>3. UsedInv'
  BY PlaceOf DEF UsedInv, Release, Apart, HolderInv, CallbackInv
<1>4. ClientInv'
  BY DEF ClientInv, Release
<1>5. RecInv'
  BY PlaceOf DEF RecInv, Release, Apart, HolderInv, CallbackInv
<1>6. SnapInv'
  BY PlaceOf DEF SnapInv, Release, Apart, HolderInv, CallbackInv
<1>7. StreamInv'
  BY PlaceOf DEF StreamInv, Release, Apart, HolderInv, CallbackInv
<1>8. QED BY <1>1, <1>2, <1>3, <1>4, <1>5, <1>6, <1>7

\* Channels and sinks match the tasks: Cleanup
LEMMA CalmOfCleanup ==
    ASSUME TypeOK, Control, TypeOK', OnceInv, LeftInv, FailInv, RunInv, TaskInv, Apart, Calm,
           raced = {}, raced' = {}, NEW x \in Threads, Cleanup(x), Marks
    PROVE  Calm'
<1> USE DEF Control, Calm
<1>1. /\ \A y \in {"handler", "coordinator", "streamer", "sdk", "main"} : y # x => th'[y] = th[y]
      /\ \/ /\ conn[chan[th[x].task]] = "none" /\ th'[x].pc = "send" /\ th'[x].task = th[x].task
            /\ th'[x].then = th[x].then
            /\ th'[x].send = th[x].send /\ th'[x].had = th[x].had
         \/ /\ conn[chan[th[x].task]] # "none"
            /\ th'[x].was = (conn[chan[th[x].task]] = "connected") /\ th'[x].pc = "stopSnap"
            /\ th'[x].task = th[x].task /\ th'[x].then = "stopStream"
            /\ th'[x].send = th[x].send /\ th'[x].had = th[x].had
      /\ UNCHANGED <<kind, chan, sock, shared, begun, rtc, sent, broken, rec, recTask, snap,
                     stream, streamTask>>
  BY CleanupEffect
<1>2. SameChannel'
  <2>1. ASSUME NEW u \in Begun, Live(u)' PROVE Live(u)
    BY <1>1, <2>1, Facts DEF Live, Cleanup, At, TaskOf, Holders, Threads
  <2>2. QED BY <1>1, <2>1, ChannelsKept
<1>3. EntryInv'
  <2>a. x \in Holders /\ active = {} /\ active' = {} /\ At(x, "cleanup")
    BY PlaceOf DEF Cleanup, Apart, At
  <2>b. th[x].task \in Begun /\ chan[th[x].task] \in Channels
    BY <2>a, Facts DEF HolderInv, Holders, Threads, TaskOf, At
  <2>c. \/ conn[chan[th[x].task]] = "none" /\ conn' = conn /\ ~Removing(x)'
        \/ conn[chan[th[x].task]] = "connected" /\ conn' = [conn EXCEPT ![chan[th[x].task]] = "none"]
    BY <1>1, <2>a, <2>b, Facts DEF Cleanup, Removing, At, EntryInv, Joining
  <2>d. \A y \in Holders : y # x => th'[y] = th[y]
    BY <1>1 DEF Holders
  <2>1. \A y \in Holders : Removing(y)' => conn'[chan[th[y].task]] = "none" /\ th'[y].was
    <3> SUFFICES ASSUME NEW y \in Holders, Removing(y)' PROVE conn'[chan[th[y].task]] = "none" /\ th'[y].was
      OBVIOUS
    <3>1. CASE y = x
      BY <1>1, <2>a, <2>b, <2>c, <3>1, Facts
    <3>2. CASE y # x
      <4>1. Removing(y) /\ th'[y] = th[y]
        BY <2>d, <3>2 DEF Removing, At
      <4>2. chan[th[y].task] = chan[th[x].task]
        BY <2>a, <4>1, OneChannel DEF Removing, At, Joining
      <4>3. QED BY <2>b, <2>c, <4>1, <4>2, Facts DEF EntryInv, TaskOf
    <3>3. QED BY <3>1, <3>2
  <2>2. th'[x].task = th[x].task /\ UNCHANGED chan /\ UNCHANGED sock
    BY <1>1
  <2>3. ~At("handler", "register")'
    BY <1>1, <2>a, <2>d DEF Apart, Fresh, Holders, At, Threads
  <2>4. \A c \in Channels : conn'[c] # "listed" /\ (conn[c] = "none" => conn'[c] = "none")
    BY <2>b, <2>c, Facts DEF EntryInv
  <2>5. \A y \in Holders : th'[y].task = th[y].task
    BY <2>2, <2>d
  <2>6. QED BY <2>a, <2>1, <2>2, <2>3, <2>4, <2>5 DEF EntryInv, At, TaskOf
<1>4. UsedInv'
  BY <1>1, PlaceOf, Facts, OneChannel DEF UsedInv, Cleanup, At, Busy, TaskOf, Threads, Holders,
         Joining, Fresh, OfKind, OnChannel, Removing, Apart
<1>5. ClientInv'
  <2>a. x \in Holders /\ active = {} /\ active' = {} /\ At(x, "cleanup")
    BY PlaceOf DEF Cleanup, Apart, At
  <2>b. th[x].task \in Begun /\ chan[th[x].task] \in Channels
    BY <2>a, Facts DEF HolderInv, Holders, Threads, TaskOf, At
  <2>c. \/ conn[chan[th[x].task]] = "none" /\ conn' = conn /\ ~Removing(x)'
        \/ conn[chan[th[x].task]] = "connected" /\ conn' = [conn EXCEPT ![chan[th[x].task]] = "none"]
    BY <1>1, <2>a, <2>b, Facts DEF Cleanup, Removing, At, EntryInv, Joining
  <2>d. \A y \in Holders : y # x => th'[y] = th[y]
    BY <1>1 DEF Holders
  <2>1. \A y \in Holders : Removing(y) => Removing(y)' /\ y # x
    BY <2>a, <2>d DEF Removing, At, Joining
  <2>2. \A y \in Holders : th'[y].task = th[y].task /\ UNCHANGED <<chan, rtc, sock, broken>>
    BY <1>1, <2>d
  <2>3. \A c \in Channels : conn'[c] = "connected" => conn[c] = "connected"
    BY <2>b, <2>c, Facts
  <2>4. conn' # conn => Removing(x)'
    BY <1>1, <2>c DEF Removing, At, Joining
  <2>5. \A y \in Holders : Removing(y)' => Removing(y) \/ (y = x /\ conn[chan[th[x].task]] = "connected")
    BY <2>c, <2>d DEF Removing, At
  <2>6. QED BY <2>a, <2>b, <2>1, <2>2, <2>3, <2>4, <2>5 DEF ClientInv, TaskOf
<1>6. RecInv'
  BY <1>1, PlaceOf, Facts, OneChannel DEF RecInv, Cleanup, At, Busy, TaskOf, Threads, Holders,
         Joining, Fresh, OfKind, OnChannel, Removing, Apart
<1>7. SnapInv'
  BY <1>1, PlaceOf, Facts, OneChannel DEF SnapInv, Cleanup, At, Busy, TaskOf, Threads, Holders,
         Joining, Fresh, OfKind, OnChannel, Removing, Apart
<1>8. StreamInv'
  BY <1>1, PlaceOf, Facts, OneChannel DEF StreamInv, Cleanup, At, Busy, TaskOf, Threads, Holders,
         Joining, Fresh, OfKind, OnChannel, Removing, Apart
<1>9. QED BY <1>2, <1>3, <1>4, <1>5, <1>6, <1>7, <1>8

\* Channels and sinks match the tasks: StopSnap
LEMMA CalmOfStopSnap ==
    ASSUME TypeOK, Control, TypeOK', OnceInv, LeftInv, FailInv, RunInv, TaskInv, Apart, Calm,
           raced = {}, raced' = {}, NEW x \in Threads, StopSnap(x), Marks
    PROVE  Calm'
<1> USE StopSnapEffect DEF Control, Calm, At, Busy, TaskOf, Threads, Holders, Joining, Fresh,
        OfKind, OnChannel, Removing
<1>1. SameChannel'
  <2>1. ASSUME NEW u \in Begun, Live(u)' PROVE Live(u)
    BY <2>1, Facts DEF Live, StopSnap, At, TaskOf, Holders, Threads, AfterSnap, ThenInv, Joining
  <2>2. QED BY <2>1, ChannelsKept
<1>2. EntryInv'
  BY DEF EntryInv, StopSnap, AfterSnap, ThenInv, HolderInv
<1>3. UsedInv'
  BY DEF UsedInv, StopSnap, AfterSnap, ThenInv, EntryInv
<1>4. ClientInv'
  BY DEF ClientInv, StopSnap, AfterSnap, ThenInv, HolderInv
<1>5. RecInv'
  BY DEF RecInv, StopSnap, AfterSnap, ThenInv, HolderInv, Apart, FailInv, SockInv
<1>6. SnapInv'
  BY PlaceOf DEF SnapInv, StopSnap, AfterSnap, ThenInv, HolderInv, Apart, FailInv, SockInv
<1>7. StreamInv'
  BY DEF StreamInv, StopSnap, AfterSnap, ThenInv
<1>8. QED BY <1>1, <1>2, <1>3, <1>4, <1>5, <1>6, <1>7

\* Channels and sinks match the tasks: StopRec
LEMMA CalmOfStopRec ==
    ASSUME TypeOK, Control, TypeOK', OnceInv, LeftInv, FailInv, RunInv, TaskInv, Apart, Calm,
           raced = {}, raced' = {}, NEW x \in Threads, StopRec(x), Marks
    PROVE  Calm'
<1> USE StopRecEffect DEF Control, Calm, At, Busy, TaskOf, Threads, Holders, Joining, Fresh,
        OfKind, OnChannel, Removing
<1>1. SameChannel'
  <2>1. ASSUME NEW u \in Begun, Live(u)' PROVE Live(u)
    BY <2>1, Facts DEF Live, StopRec, At, TaskOf, Holders, Threads, AfterStream, ThenInv, Joining
  <2>2. QED BY <2>1, ChannelsKept
<1>2. EntryInv'
  BY DEF EntryInv, StopRec, ThenInv, HolderInv, AfterStream
<1>3. UsedInv'
  BY DEF UsedInv, StopRec
<1>4. ClientInv'
  BY DEF ClientInv, StopRec, ThenInv, HolderInv, AfterStream
<1>5. RecInv'
  BY DEF RecInv, StopRec, ThenInv, HolderInv, AfterStream, CallbackInv
<1>6. SnapInv'
  BY DEF SnapInv, StopRec, ThenInv, HolderInv, AfterStream
<1>7. StreamInv'
  BY DEF StreamInv, StopRec
<1>8. QED BY <1>1, <1>2, <1>3, <1>4, <1>5, <1>6, <1>7

\* Channels and sinks match the tasks: JoinRec
LEMMA CalmOfJoinRec ==
    ASSUME TypeOK, Control, TypeOK', OnceInv, LeftInv, FailInv, RunInv, TaskInv, Apart, Calm,
           raced = {}, raced' = {}, NEW x \in Threads, JoinRec(x), Marks
    PROVE  Calm'
<1> USE JoinRecEffect DEF Control, Calm, At, Busy, TaskOf, Threads, Holders, Joining, Fresh,
        OfKind, OnChannel, Removing
<1>1. SameChannel'
  <2>1. ASSUME NEW u \in Begun, Live(u)' PROVE Live(u)
    BY <2>1, Facts DEF Live, JoinRec, At, TaskOf, Holders, Threads, AfterStream, ThenInv, Joining
  <2>2. QED BY <2>1, ChannelsKept
<1>2. EntryInv'
  BY DEF EntryInv, JoinRec, ThenInv, HolderInv, AfterStream
<1>3. UsedInv'
  BY DEF UsedInv, JoinRec
<1>4. ClientInv'
  BY DEF ClientInv, JoinRec, ThenInv, HolderInv, AfterStream
<1>5. RecInv'
  BY DEF RecInv, JoinRec, ThenInv, HolderInv, Apart, FailInv, SockInv
<1>6. SnapInv'
  BY DEF SnapInv, JoinRec, ThenInv, HolderInv, AfterStream
<1>7. StreamInv'
  BY DEF StreamInv, JoinRec
<1>8. QED BY <1>1, <1>2, <1>3, <1>4, <1>5, <1>6, <1>7

\* Channels and sinks match the tasks: StopStream
LEMMA CalmOfStopStream ==
    ASSUME TypeOK, Control, TypeOK', OnceInv, LeftInv, FailInv, RunInv, TaskInv, Apart, Calm,
           raced = {}, raced' = {}, NEW x \in Threads, StopStream(x), Marks
    PROVE  Calm'
<1> USE StopStreamEffect DEF Control, Calm, At, Busy, TaskOf, Threads, Holders, Joining, Fresh,
        OfKind, OnChannel, Removing
<1>1. SameChannel'
  <2>1. ASSUME NEW u \in Begun, Live(u)' PROVE Live(u)
    BY <2>1, Facts DEF Live, StopStream, At, TaskOf, Holders, Threads, AfterStream, ThenInv,
           Joining
  <2>2. QED BY <2>1, ChannelsKept
<1>2. EntryInv'
  BY DEF EntryInv, StopStream, ThenInv, HolderInv, AfterStream
<1>3. UsedInv'
  BY DEF UsedInv, StopStream
<1>4. ClientInv'
  BY DEF ClientInv, StopStream, ThenInv, HolderInv, AfterStream
<1>5. RecInv'
  BY DEF RecInv, StopStream, ThenInv, HolderInv, AfterStream, CallbackInv
<1>6. SnapInv'
  BY DEF SnapInv, StopStream, ThenInv, HolderInv, AfterStream
<1>7. StreamInv'
  BY DEF StreamInv, StopStream
<1>8. QED BY <1>1, <1>2, <1>3, <1>4, <1>5, <1>6, <1>7

\* Channels and sinks match the tasks: JoinStream
LEMMA CalmOfJoinStream ==
    ASSUME TypeOK, Control, TypeOK', OnceInv, LeftInv, FailInv, RunInv, TaskInv, Apart, Calm,
           raced = {}, raced' = {}, NEW x \in Threads, JoinStream(x), Marks
    PROVE  Calm'
<1> USE JoinStreamEffect DEF Control, Calm, At, Busy, TaskOf, Threads, Holders, Joining, Fresh,
        OfKind, OnChannel, Removing
<1>1. SameChannel'
  <2>1. ASSUME NEW u \in Begun, Live(u)' PROVE Live(u)
    BY <2>1, Facts DEF Live, JoinStream, At, TaskOf, Holders, Threads, AfterStream, ThenInv,
           Joining
  <2>2. QED BY <2>1, ChannelsKept
<1>2. EntryInv'
  BY DEF EntryInv, JoinStream, ThenInv, HolderInv, AfterStream
<1>3. UsedInv'
  BY DEF UsedInv, JoinStream
<1>4. ClientInv'
  BY DEF ClientInv, JoinStream, ThenInv, HolderInv, AfterStream
<1>5. RecInv'
  BY DEF RecInv, JoinStream, ThenInv, HolderInv, AfterStream, CallbackInv
<1>6. SnapInv'
  BY DEF SnapInv, JoinStream, ThenInv, HolderInv, AfterStream
<1>7. StreamInv'
  BY DEF StreamInv, JoinStream, ThenInv, HolderInv, Apart, FailInv, SockInv, StartInv, OnceInv,
         AfterStream
<1>8. QED BY <1>1, <1>2, <1>3, <1>4, <1>5, <1>6, <1>7

\* Channels and sinks match the tasks: Disconnect
LEMMA CalmOfDisconnect ==
    ASSUME TypeOK, Control, TypeOK', OnceInv, LeftInv, FailInv, RunInv, TaskInv, Apart, Calm,
           raced = {}, raced' = {}, NEW x \in Threads, Disconnect(x), Marks
    PROVE  Calm'
<1> USE DisconnectEffect DEF Control, Calm
<1>1. SameChannel'
  <2>1. ASSUME NEW u \in Begun, Live(u)' PROVE Live(u)
    BY <2>1, Facts DEF Live, Disconnect, At, TaskOf, Holders, Threads
  <2>2. QED BY <2>1, ChannelsKept
<1>2. EntryInv'
  BY DEF EntryInv, Disconnect, At, Busy, TaskOf, Threads, Holders, Joining, Fresh, OfKind,
         OnChannel, Removing
<1>3. UsedInv'
  BY DEF UsedInv, Disconnect, At, Busy, TaskOf, Threads, Holders, Joining, Fresh, OfKind,
         OnChannel, Removing
<1>4. ClientInv'
  <2>1. x \in Holders \cup {"main"} /\ At(x, "disconnect") /\ Removing(x)
    BY PlaceOf DEF Disconnect, At, Removing
  <2>2. \A c \in Channels : conn[c] = "none"
    <3>1. CASE x = "main"
      BY <2>1, <3>1 DEF SockInv, EntryInv, Busy, At
    <3>2. CASE x \in Holders
      <4>1. active = {} /\ conn[chan[th[x].task]] = "none"
        BY <2>1, <3>2 DEF Apart, EntryInv, TaskOf
      <4>2. \A y \in Holders : th[y].pc \in {"cleanup", "register", "release", "stopSnap"} => chan[th[y].task] = chan[th[x].task]
        BY <2>1, <3>2, OneChannel DEF At
      <4>3. QED BY <4>1, <4>2 DEF UsedInv, TaskOf, Holders, At
    <3>3. QED BY <2>1, <3>1, <3>2
  <2>3. /\ rtc' = IF th[x].was THEN None ELSE rtc
        /\ broken' = (broken /\ rtc' # None)
    BY DEF Disconnect
  <2>4. x = "main" => sock = "down"
    BY <2>1 DEF SockInv, Busy, At
  <2>5. x \in Holders => th[x].was
    BY <2>1 DEF EntryInv
  <2>6. x = "main" => \A y \in Holders : th'[y] = th[y]
    BY DEF Holders
  <2>7. CASE x \in Holders
    BY <2>2, <2>3, <2>5, <2>7 DEF ClientInv
  <2>8. CASE x = "main"
    <3>1. rtc' = None \/ (rtc' = rtc /\ (broken' <=> broken))
      BY <2>3
    <3>2. \A y \in Holders : Removing(y)' => Removing(y) /\ TaskOf(y)' = TaskOf(y)
      BY <2>6, <2>8 DEF Removing, At, TaskOf
    <3>3. QED BY <2>2, <2>4, <2>8, <3>1, <3>2 DEF ClientInv
  <2>9. QED BY <2>1, <2>7, <2>8
<1>5. RecInv'
  BY DEF RecInv, Disconnect, At, Busy, TaskOf, Threads, Holders, Joining, Fresh, OfKind, OnChannel,
         Removing
<1>6. SnapInv'
  BY DEF SnapInv, Disconnect, At, Busy, TaskOf, Threads, Holders, Joining, Fresh, OfKind,
         OnChannel, Removing
<1>7. StreamInv'
  BY DEF StreamInv, Disconnect, At, Busy, TaskOf, Threads, Holders, Joining, Fresh, OfKind,
         OnChannel, Removing
<1>8. QED BY <1>1, <1>2, <1>3, <1>4, <1>5, <1>6, <1>7

\* Channels and sinks match the tasks: Report
LEMMA CalmOfReport ==
    ASSUME TypeOK, Control, TypeOK', OnceInv, LeftInv, FailInv, RunInv, TaskInv, Apart, Calm,
           raced = {}, raced' = {}, NEW x \in Threads, Report(x), Marks
    PROVE  Calm'
<1> USE DEF Control, Calm, At, Busy, TaskOf, Threads, Holders, Joining, Fresh, OfKind, OnChannel,
        Removing
<1>1. /\ \A y \in {"handler", "coordinator", "streamer", "sdk", "main"} : y # x => th'[y] = th[y]
      /\ th'[x].pc = "idle" /\ th'[x].task = None /\ th'[x].then = "idle"
      /\ UNCHANGED <<kind, chan, sock, shared, refused, begun, active, conn, rtc, snap,
                     broken, rec, recTask, stream, streamTask>>
  BY ReportEffect
<1>2. SameChannel'
  <2>1. ASSUME NEW u \in Begun, Live(u)' PROVE Live(u)
    BY <1>1, <2>1, Facts DEF Live, Report, At, TaskOf, Holders, Threads
  <2>2. QED BY <1>1, <2>1, ChannelsKept
<1>3. EntryInv'
  BY <1>1 DEF EntryInv, Report
<1>4. UsedInv'
  BY <1>1 DEF UsedInv, Report
<1>5. ClientInv'
  BY <1>1 DEF ClientInv, Report
<1>6. RecInv'
  BY <1>1 DEF RecInv, Report
<1>7. SnapInv'
  BY <1>1 DEF SnapInv, Report
<1>8. StreamInv'
  BY <1>1 DEF StreamInv, Report
<1>9. QED BY <1>2, <1>3, <1>4, <1>5, <1>6, <1>7, <1>8

-----------------------------------------------------------------------------
(* A start command, and the end of the loop *)

\* What a start command changes: there is a new task n, which is refused or
\* which the handler has with it.
Starts(n, k, c) ==
    /\ sock = "open" /\ th["handler"].pc = "idle"
    /\ n # None /\ Begun' = Begun \cup {n} /\ n \notin active
    /\ kind'[n] = k /\ chan'[n] = c
    /\ \A u \in Begun : kind'[u] = kind[u] /\ chan'[u] = chan[u]
    /\ th'["coordinator"] = th["coordinator"] /\ th'["streamer"] = th["streamer"]
    /\ th'["sdk"] = th["sdk"] /\ th'["main"] = th["main"]
    /\ \/ k = "stream" /\ Send({n}) /\ th'["handler"] = th["handler"]
       \/ /\ k = "stream" /\ OfKind("stream") = {} /\ UNCHANGED sent
          /\ th'["handler"].pc = "stopStream" /\ th'["handler"].task = n
          /\ th'["handler"].then = "ready" /\ th'["handler"].send = TRUE
       \/ /\ k # "stream" /\ UNCHANGED sent
          /\ th'["handler"].pc = "connect" /\ th'["handler"].task = n
          /\ th'["handler"].then = "idle" /\ th'["handler"].send = (k = "record")
    /\ UNCHANGED <<active, conn, rtc, rec, recTask, snap, stream, streamTask, sock, shared,
                   refused, broken>>

\* A start command does that.
LEMMA StartEffect ==
    ASSUME TypeOK, NEW k \in Kinds, NEW c \in Channels, Start(k, c)
    PROVE  \E n \in Tasks \ Begun : Starts(n, k, c)
<1>1. \A y \in Threads \ {"handler"} : th'[y] = th[y]
  BY StartMoves DEF Sets
<1>2. UNCHANGED <<active, conn, rtc, rec, recTask, snap, stream, streamTask, sock, shared,
                  refused, broken>> /\ sock = "open" /\ th["handler"].pc = "idle"
  BY DEF Start, state, sinks, At
<1>3. active \subseteq Begun /\ None \notin Tasks
  BY BegunTasks DEF TypeOK, StateType
<1>4. /\ begun + 1 \in Tasks \ Begun /\ Begun' = Begun \cup {begun + 1}
      /\ kind'[begun + 1] = k /\ chan'[begun + 1] = c
      /\ \A u \in Begun : kind'[u] = kind[u] /\ chan'[u] = chan[u]
  BY StartMoves
<1>5. \/ k = "stream" /\ Send({begun + 1}) /\ th'["handler"] = th["handler"]
      \/ /\ k = "stream" /\ OfKind("stream") = {} /\ UNCHANGED sent
         /\ th'["handler"].pc = "stopStream" /\ th'["handler"].task = begun + 1
         /\ th'["handler"].then = "ready" /\ th'["handler"].send = TRUE
      \/ /\ k # "stream" /\ UNCHANGED sent
         /\ th'["handler"].pc = "connect" /\ th'["handler"].task = begun + 1
         /\ th'["handler"].then = "idle" /\ th'["handler"].send = (k = "record")
  BY StartMoves DEF Sets
<1>6. Starts(begun + 1, k, c)
  BY <1>1, <1>2, <1>3, <1>4, <1>5 DEF Threads, Starts
<1>7. QED BY <1>4, <1>6

\* The thread of a start command is in its place.
LEMMA ControlOfStart ==
    ASSUME TypeOK, Control, NEW k \in Kinds, NEW c \in Channels, Start(k, c),
           Marks
    PROVE  Control'
<1> USE DEF Control
<1>0. PICK n \in Tasks \ Begun : Starts(n, k, c)
  BY StartEffect
<1>a. /\ th["handler"].task = None /\ active \subseteq Begun
      /\ recTask \in Begun \cup {None} /\ streamTask \in Begun \cup {None}
      /\ raced \subseteq raced' /\ (recTask # None => kind'[recTask] = kind[recTask])
      /\ (streamTask # None => kind'[streamTask] = kind[streamTask])
      /\ th["coordinator"].task \in Begun \cup {None} /\ th["streamer"].task \in Begun \cup {None}
      /\ th["sdk"].task = None /\ th["main"].task = None
  BY <1>0, Facts DEF Starts, At, Threads, TaskOf, HolderInv, Holders, TypeOK, StateType, SinksType
<1>b. /\ \A y \in Threads : th'[y].task = n => y = "handler"
      /\ \A y \in Threads : y # "handler" => th'[y] = th[y]
      /\ th'["handler"] = th["handler"] \/ th'["handler"].task = n
      /\ \A y \in Threads : th[y].task \in Begun =>
            kind'[th[y].task] = kind[th[y].task] /\ chan'[th[y].task] = chan[th[y].task]
      /\ \A u \in active : kind'[u] = kind[u] /\ chan'[u] = chan[u]
  BY <1>0, <1>a DEF Threads, Starts
<1>1. HolderInv'
  BY <1>0, <1>a, <1>b DEF HolderInv, At, Busy, TaskOf, Holders, Threads, Joining, Fresh, OfKind,
         Starts
<1>2. ThenInv'
  BY <1>0, <1>a, <1>b DEF ThenInv, At, Busy, TaskOf, Holders, Threads, Joining, Fresh, OfKind,
         Starts, HolderInv
<1>3. SendInv'
  BY <1>0, <1>a, <1>b DEF SendInv, At, Busy, TaskOf, Holders, Threads, Joining, Fresh, OfKind,
         Starts, Kinds
<1>4. SockInv'
  <2>1. UNCHANGED errors
    BY DEF Start
  <2>2. QED BY <1>0, <1>a, <1>b, <2>1 DEF SockInv, At, Busy, TaskOf, Holders, Threads, Starts
<1>5. CallbackInv'
  BY <1>0, <1>a, <1>b DEF CallbackInv, At, Busy, TaskOf, Holders, Threads, Joining, Fresh, OfKind,
         Starts
<1>6. StartInv'
  BY <1>0, <1>a, <1>b DEF StartInv, At, Busy, TaskOf, Holders, Threads, Joining, Fresh, OfKind,
         Starts
<1>7. RaceInv'
  BY MarksKept
<1>8. QED BY <1>1, <1>2, <1>3, <1>4, <1>5, <1>6, <1>7

\* It ends no task.
LEMMA EndsOfStart ==
    ASSUME TypeOK, Control, TypeOK', OnceInv, LeftInv, FailInv, RunInv, NEW k \in Kinds,
           NEW c \in Channels, Start(k, c),
           Marks
    PROVE  OnceInv' /\ LeftInv' /\ FailInv' /\ RunInv'
<1> USE DEF Control
<1>0. PICK n \in Tasks \ Begun : Starts(n, k, c)
  BY StartEffect
<1>a. /\ th["handler"].task = None /\ active \subseteq Begun
      /\ recTask \in Begun \cup {None} /\ streamTask \in Begun \cup {None}
      /\ raced \subseteq raced' /\ (recTask # None => kind'[recTask] = kind[recTask])
      /\ (streamTask # None => kind'[streamTask] = kind[streamTask])
      /\ th["coordinator"].task \in Begun \cup {None} /\ th["streamer"].task \in Begun \cup {None}
      /\ th["sdk"].task = None /\ th["main"].task = None
  BY <1>0, Facts DEF Starts, At, Threads, TaskOf, HolderInv, Holders, TypeOK, StateType, SinksType
<1>b. /\ \A y \in Threads : th'[y].task = n => y = "handler"
      /\ \A y \in Threads : y # "handler" => th'[y] = th[y]
      /\ th'["handler"] = th["handler"] \/ th'["handler"].task = n
      /\ \A y \in Threads : th[y].task \in Begun =>
            kind'[th[y].task] = kind[th[y].task] /\ chan'[th[y].task] = chan[th[y].task]
      /\ \A u \in active : kind'[u] = kind[u] /\ chan'[u] = chan[u]
  BY <1>0, <1>a DEF Threads, Starts
<1>1. OnceInv'
  BY <1>0, <1>a, <1>b DEF OnceInv, At, Busy, TaskOf, Holders, Threads, Joining, OfKind, OnChannel,
         Removing, Released, Starts
<1>2. LeftInv'
  BY <1>0, <1>a, <1>b DEF LeftInv, At, Busy, TaskOf, Holders, Threads, Joining, OfKind, OnChannel,
         Removing, Released, Starts, HolderInv
<1>3. FailInv'
  BY <1>0, <1>a, <1>b DEF FailInv, At, Busy, TaskOf, Holders, Threads, Joining, OfKind, OnChannel,
         Removing, Released, Starts
<1>4. RunInv'
  BY <1>0, <1>a, <1>b DEF RunInv, At, Busy, TaskOf, Holders, Threads, Joining, OfKind, OnChannel,
         Removing, Released, Starts
<1>5. QED BY <1>1, <1>2, <1>3, <1>4

\* A new task has no message yet, or the one that refuses it.
LEMMA TasksOfStart ==
    ASSUME TypeOK, Control, TypeOK', TaskInv, NEW k \in Kinds, NEW c \in Channels, Start(k, c),
           Marks
    PROVE  TaskInv'
<1> USE DEF Control
<1>0. PICK n \in Tasks \ Begun : Starts(n, k, c)
  BY StartEffect
<1>a. /\ th["handler"].task = None /\ active \subseteq Begun
      /\ recTask \in Begun \cup {None} /\ streamTask \in Begun \cup {None}
      /\ raced \subseteq raced' /\ (recTask # None => kind'[recTask] = kind[recTask])
      /\ (streamTask # None => kind'[streamTask] = kind[streamTask])
      /\ th["coordinator"].task \in Begun \cup {None} /\ th["streamer"].task \in Begun \cup {None}
      /\ th["sdk"].task = None /\ th["main"].task = None
  BY <1>0, Facts DEF Starts, At, Threads, TaskOf, HolderInv, Holders, TypeOK, StateType, SinksType
<1>b. /\ \A y \in Threads : th'[y].task = n => y = "handler"
      /\ \A y \in Threads : y # "handler" => th'[y] = th[y]
      /\ th'["handler"] = th["handler"] \/ th'["handler"].task = n
      /\ \A y \in Threads : th[y].task \in Begun =>
            kind'[th[y].task] = kind[th[y].task] /\ chan'[th[y].task] = chan[th[y].task]
      /\ \A u \in active : kind'[u] = kind[u] /\ chan'[u] = chan[u]
  BY <1>0, <1>a DEF Threads, Starts
<1>1. TaskInv'
  <2>1. \A t \in Tasks : t # n => sent'[t] = sent[t]
    BY <1>0, SendType DEF Starts
  <2>2. \A t \in Tasks \ Begun' : sent'[t] = 0
    BY <1>0, <2>1 DEF TaskInv, Starts
  <2>3. sent[n] = 0 /\ n \notin active /\ n # None
    BY <1>0 DEF TaskInv, Starts
  <2>4. Send({n}) => sent'[n] = 1
    BY <1>0, <2>3, SendType DEF Starts
  <2>5. CountInv(n)'
    <3> USE DEF TaskOf, Holders, Threads, At, Fresh
    <3>1. recTask # n /\ streamTask # n /\ th["coordinator"].task # n /\ th["streamer"].task # n
      BY <1>0, <1>a, <2>3
    <3>2. CASE Send({n}) /\ th'["handler"] = th["handler"]
      <4>1. ~MayCommand(n)' /\ ~MayCall(n)' /\ ~MayFail(n)' /\ ~MayReport(n)' /\ ~Ended(n)'
        BY <1>0, <1>a, <2>3, <3>1, <3>2 DEF MayCommand, MayCall, MayFail, MayReport, Ended, Starts
      <4>2. QED BY <2>4, <3>2, <4>1 DEF CountInv, BoundInv, OnlyInv, HeardInv, One
    <3>3. CASE UNCHANGED sent /\ th'["handler"].task = n /\ th'["handler"].pc \in {"stopStream", "connect"}
      <4>1. Owed(n)'
        BY <3>3 DEF Owed
      <4>2. QED BY <2>3, <3>3, <4>1 DEF CountInv, BoundInv, OnlyInv, HeardInv, One
    <3>4. QED BY <1>0, <3>2, <3>3 DEF Starts
  <2>6. ASSUME NEW u \in Begun PROVE CountInv(u)'
    <3>1. sent'[u] = sent[u] /\ CountInv(u)
      BY <1>0, <2>1, BegunTasks DEF TaskInv, TypeOK
    <3>2. u # n /\ u # None
      BY <1>0, Facts
    <3>3. th'["handler"].task # u
      BY <1>a, <1>b, <3>2
    <3>4. /\ UNCHANGED <<active, shared, refused, sock, rec, recTask, stream, streamTask>>
          /\ th'["coordinator"] = th["coordinator"] /\ th'["streamer"] = th["streamer"]
          /\ th'["sdk"] = th["sdk"] /\ th["handler"].task # u
      BY <1>0, <1>a, <3>2 DEF Starts
    <3>5. NoMore(u)
      BY <3>3, <3>4 DEF NoMore, MayCommand, MayCall, MayFail, MayReport, Ended, TaskOf, Holders
    <3>6. HeardInv(u)'
      BY <3>1, <3>3, <3>4 DEF CountInv, HeardInv, Owed, TaskOf, Holders, At
    <3>7. UNCHANGED errors /\ met \subseteq met'
      BY DEF Start
    <3>8. QED BY <3>1, <3>4, <3>5, <3>6, <3>7, CountKept
  <2>7. QED BY <1>0, <2>2, <2>5, <2>6 DEF TaskInv, Starts
<1>2. QED BY <1>1

\* The manager sends a start only for the channel at work.
LEMMA CalmOfStart ==
    ASSUME TypeOK, Control, TypeOK', TaskInv, Calm, raced = {}, raced' = {}, NEW k \in Kinds,
           NEW c \in Channels, Start(k, c),
           Marks
    PROVE  Calm'
<1> USE DEF Control, Calm
<1>0. PICK n \in Tasks \ Begun : Starts(n, k, c)
  BY StartEffect
<1>a. /\ th["handler"].task = None /\ active \subseteq Begun
      /\ recTask \in Begun \cup {None} /\ streamTask \in Begun \cup {None}
      /\ raced \subseteq raced' /\ (recTask # None => kind'[recTask] = kind[recTask])
      /\ (streamTask # None => kind'[streamTask] = kind[streamTask])
      /\ th["coordinator"].task \in Begun \cup {None} /\ th["streamer"].task \in Begun \cup {None}
      /\ th["sdk"].task = None /\ th["main"].task = None
  BY <1>0, Facts DEF Starts, At, Threads, TaskOf, HolderInv, Holders, TypeOK, StateType, SinksType
<1>b. /\ \A y \in Threads : th'[y].task = n => y = "handler"
      /\ \A y \in Threads : y # "handler" => th'[y] = th[y]
      /\ th'["handler"] = th["handler"] \/ th'["handler"].task = n
      /\ \A y \in Threads : th[y].task \in Begun =>
            kind'[th[y].task] = kind[th[y].task] /\ chan'[th[y].task] = chan[th[y].task]
      /\ \A u \in active : kind'[u] = kind[u] /\ chan'[u] = chan[u]
  BY <1>0, <1>a DEF Threads, Starts
<1>1. SameChannel'
  <2>1. ASSUME NEW u \in Begun, Live(u) PROVE sent[u] = 0
    <3>1. CountInv(u) /\ u \notin met
      BY <2>1 DEF TaskInv, RaceInv
    <3>2. MayFail(u) \/ Ended(u)
      BY <2>1 DEF Live, MayFail, Ended
    <3>3. QED BY <3>1, <3>2 DEF CountInv, OnlyInv
  <2>2. \A u \in Begun : Live(u) => chan[u] = c
    <3>1. \A u \in Begun : chan[u] = c \/ sent[u] > 0
      BY DEF Start, ManagerSends
    <3>2. QED BY <2>1, <3>1
  <2>3. \A u \in Begun : Live(u)' => Live(u)
    BY <1>0, <1>b DEF Live, TaskOf, Holders, At, Threads, Starts
  <2>4. \A u \in Begun' : Live(u)' => chan'[u] = c
    BY <1>0, <2>2, <2>3 DEF Starts
  <2>5. QED BY <2>4 DEF SameChannel
<1>2. EntryInv'
  BY <1>0, <1>a, <1>b DEF EntryInv, At, Busy, TaskOf, Holders, Threads, Joining, Fresh, OfKind,
         OnChannel, Removing, Starts, HolderInv
<1>3. UsedInv'
  BY <1>0, <1>a, <1>b DEF UsedInv, At, Busy, TaskOf, Holders, Threads, Joining, Fresh, OfKind,
         OnChannel, Removing, Starts, HolderInv
<1>4. ClientInv'
  BY <1>0, <1>a, <1>b DEF ClientInv, At, Busy, TaskOf, Holders, Threads, Joining, Fresh, OfKind,
         OnChannel, Removing, Starts, HolderInv
<1>5. RecInv'
  BY <1>0, <1>a, <1>b DEF RecInv, At, Busy, TaskOf, Holders, Threads, Joining, Fresh, OfKind,
         OnChannel, Removing, Starts
<1>6. SnapInv'
  BY <1>0, <1>a, <1>b DEF SnapInv, At, Busy, TaskOf, Holders, Threads, Joining, Fresh, OfKind,
         OnChannel, Removing, Starts
<1>7. StreamInv'
  BY <1>0, <1>a, <1>b DEF StreamInv, At, Busy, TaskOf, Holders, Threads, Joining, Fresh, OfKind,
         OnChannel, Removing, Starts
<1>8. QED BY <1>1, <1>2, <1>3, <1>4, <1>5, <1>6, <1>7

\* The socket is closed while the handler is idle, the capture thread hangs, or
\* nothing happens at all.
LEMMA Hangs ==
    ASSUME Inv, \/ sock' = sock
                \/ sock = "open" /\ sock' = "closed" /\ At("handler", "idle"),
           snap' = snap \/ (snap = "on" /\ snap' = "stuck"),
           UNCHANGED <<jobs, state, rtc, rec, recTask, recStopper, stream, streamTask,
                       streamStopper, th, errors, sent, notes, met, raced>>
    PROVE  Inv'
<1> USE DEF jobs, state, notes
<1>1. TypeOK'
  BY DEF Inv, TypeOK, JobsType, StateType, SinksType, ThreadsType, NotesType, Begun
<1>2. Control'
  <2>1. HolderInv' /\ ThenInv' /\ SendInv'
    BY DEF Inv, Control, HolderInv, ThenInv, SendInv, TaskOf, At, Busy
  <2>2. SockInv' /\ CallbackInv'
    BY DEF Inv, Control, SockInv, CallbackInv, At, Busy
  <2>3. RaceInv'
    BY DEF Inv, Control, RaceInv, Racing, Meeting, Busy, At, Starting
  <2>4. StartInv'
    BY DEF Inv, Control, StartInv, Fresh, TaskOf, At, OfKind
  <2>5. QED BY <2>1, <2>2, <2>3, <2>4 DEF Control
<1>3. OnceInv' /\ LeftInv' /\ FailInv' /\ RunInv'
  BY DEF Inv, OnceInv, LeftInv, FailInv, RunInv, Released, Removing, TaskOf, At, Inv, Control,
         SockInv
<1>4. TaskInv'
  <2>1. \A t \in Begun : CountInv(t) => CountInv(t)'
    BY DEF CountInv, BoundInv, OnlyInv, HeardInv, MayCommand, MayCall, MayFail, MayReport, Ended,
           Owed, One, Fresh, TaskOf, At
  <2>2. QED BY <2>1 DEF Inv, TaskInv, Begun
<1>5. Calm => Calm'
  <2>1. SameChannel => SameChannel'
    BY DEF SameChannel, Live, TaskOf, Begun
  <2>2. (EntryInv => EntryInv') /\ (UsedInv => UsedInv') /\ (ClientInv => ClientInv')
    BY DEF EntryInv, UsedInv, ClientInv, Removing, TaskOf, At
  <2>3. (RecInv => RecInv') /\ (SnapInv => SnapInv') /\ (StreamInv => StreamInv')
    BY DEF RecInv, SnapInv, StreamInv, OfKind, TaskOf, At
  <2>4. QED BY <2>1, <2>2, <2>3 DEF Calm
<1>6. QED BY <1>1, <1>2, <1>3, <1>4, <1>5 DEF Inv, CalmInv

-----------------------------------------------------------------------------
(* Every step keeps the invariant *)

\* A task that was not begun gets no message.
LEMMA NotSent ==
    ASSUME TypeOK, NEW t \in Tasks \ Begun,
           \/ Handle \/ Expire \/ StreamEnds \/ SdkError \/ Fail \/ Shutdown
           \/ \E u \in Tasks : Stop(u)
           \/ \E x \in Threads : EndStep(x)
    PROVE  sent'[t] = sent[t]
<1>1. \A x \in Threads : t # th[x].task
  BY Facts, BegunTasks DEF TypeOK
<1>2. t \notin active
  BY Facts
<1>3. ASSUME NEW T, t \notin T, Send(T) PROVE sent'[t] = sent[t]
  BY <1>3, SendType
<1>4. Handle => sent'[t] = sent[t]
  BY <1>1, <1>3 DEF Handle, Ready, Connect, Register, Begin, BeginFails, Threads
<1>5. Expire \/ StreamEnds \/ SdkError \/ Shutdown \/ (\E u \in Tasks : Stop(u)) => sent'[t] = sent[t]
  BY DEF Expire, StreamEnds, SdkError, Shutdown, Stop
<1>6. Fail => sent'[t] = sent[t]
  BY <1>2, <1>3 DEF Fail, FailAll, FailStream
<1>7. ASSUME NEW x \in Threads, EndStep(x) PROVE sent'[t] = sent[t]
  <2>1. Report(x) => sent'[t] = sent[t]
    BY <1>1, <1>3 DEF Report
  <2>2. QED BY <1>7, <2>1
        DEF EndStep, Find, Release, Cleanup, StopSnap, StopRec, JoinRec, StopStream, JoinStream,
            Disconnect
<1>8. QED BY <1>4, <1>5, <1>6, <1>7

\* What a step has to keep, once it keeps the types
Keeps ==
    /\ Control' /\ OnceInv' /\ LeftInv' /\ FailInv' /\ RunInv' /\ UNCHANGED begun
    /\ \A u \in Begun : CountInv(u) => CountInv(u)'
    /\ raced = {} /\ raced' = {} => Calm'

\* A step of the handler in a start command
LEMMA KeptByHandle ==
    ASSUME TypeOK, Control, TypeOK', OnceInv, LeftInv, FailInv, RunInv, TaskInv, CalmInv,
           raced = {} => Apart, Marks,
           Handle
    PROVE  Keeps
<1>1. ASSUME Ready PROVE Keeps
  <2>1. Control' /\ OnceInv' /\ LeftInv' /\ FailInv' /\ RunInv' /\ UNCHANGED begun
    BY <1>1, ControlOfReady, EndsOfReady, ReadyEffect DEF Control
  <2>2. \A u \in Begun : CountInv(u) => CountInv(u)'
    BY <1>1, CountOfReady
  <2>3. raced = {} /\ raced' = {} => Calm'
    BY <1>1, CalmOfReady DEF CalmInv
  <2>4. QED BY <2>1, <2>2, <2>3 DEF Keeps
<1>2. ASSUME Connect PROVE Keeps
  <2>1. Control' /\ OnceInv' /\ LeftInv' /\ FailInv' /\ RunInv' /\ UNCHANGED begun
    BY <1>2, ControlOfConnect, EndsOfConnect, ConnectEffect DEF Control
  <2>2. \A u \in Begun : CountInv(u) => CountInv(u)'
    BY <1>2, CountOfConnect
  <2>3. raced = {} /\ raced' = {} => Calm'
    BY <1>2, CalmOfConnect DEF CalmInv
  <2>4. QED BY <2>1, <2>2, <2>3 DEF Keeps
<1>3. ASSUME Register PROVE Keeps
  <2>1. Control' /\ OnceInv' /\ LeftInv' /\ FailInv' /\ RunInv' /\ UNCHANGED begun
    BY <1>3, ControlOfRegister, EndsOfRegister, RegisterEffect DEF Control
  <2>2. \A u \in Begun : CountInv(u) => CountInv(u)'
    BY <1>3, CountOfRegister
  <2>3. raced = {} /\ raced' = {} => Calm'
    BY <1>3, CalmOfRegister DEF CalmInv
  <2>4. QED BY <2>1, <2>2, <2>3 DEF Keeps
<1>4. ASSUME Begin PROVE Keeps
  <2>1. Control' /\ OnceInv' /\ LeftInv' /\ FailInv' /\ RunInv' /\ UNCHANGED begun
    BY <1>4, ControlOfBegin, EndsOfBegin, BeginEffect DEF Control
  <2>2. \A u \in Begun : CountInv(u) => CountInv(u)'
    BY <1>4, CountOfBegin
  <2>3. raced = {} /\ raced' = {} => Calm'
    BY <1>4, CalmOfBegin DEF CalmInv
  <2>4. QED BY <2>1, <2>2, <2>3 DEF Keeps
<1>5. ASSUME BeginFails PROVE Keeps
  <2>1. Control' /\ OnceInv' /\ LeftInv' /\ FailInv' /\ RunInv' /\ UNCHANGED begun
    BY <1>5, ControlOfBeginFails, EndsOfBeginFails, BeginFailsEffect DEF Control
  <2>2. \A u \in Begun : CountInv(u) => CountInv(u)'
    BY <1>5, CountOfBeginFails
  <2>3. raced = {} /\ raced' = {} => Calm'
    BY <1>5, CalmOfBeginFails DEF CalmInv
  <2>4. QED BY <2>1, <2>2, <2>3 DEF Keeps
<1>6. QED BY <1>1, <1>2, <1>3, <1>4, <1>5 DEF Handle

\* A stop command, a callback, an error and the end of the worker
LEMMA KeptByOthers ==
    ASSUME TypeOK, Control, TypeOK', OnceInv, LeftInv, FailInv, RunInv, TaskInv, CalmInv,
           raced = {} => Apart, Marks,
           (\E t \in Tasks : Stop(t)) \/ Expire \/ StreamEnds \/ SdkError \/ FailAll \/ FailStream \/ Shutdown
    PROVE  Keeps
<1>1. ASSUME NEW t \in Tasks, Stop(t) PROVE Keeps
  <2>1. Control' /\ OnceInv' /\ LeftInv' /\ FailInv' /\ RunInv' /\ UNCHANGED begun
    BY <1>1, ControlOfStop, EndsOfStop, StopEffect DEF Control
  <2>2. \A u \in Begun : CountInv(u) => CountInv(u)'
    BY <1>1, CountOfStop
  <2>3. raced = {} /\ raced' = {} => Calm'
    BY <1>1, CalmOfStop DEF CalmInv
  <2>4. QED BY <2>1, <2>2, <2>3 DEF Keeps
<1>2. ASSUME Expire PROVE Keeps
  <2>1. Control' /\ OnceInv' /\ LeftInv' /\ FailInv' /\ RunInv' /\ UNCHANGED begun
    BY <1>2, ControlOfExpire, EndsOfExpire, ExpireEffect DEF Control
  <2>2. \A u \in Begun : CountInv(u) => CountInv(u)'
    BY <1>2, CountOfExpire
  <2>3. raced = {} /\ raced' = {} => Calm'
    BY <1>2, CalmOfExpire DEF CalmInv
  <2>4. QED BY <2>1, <2>2, <2>3 DEF Keeps
<1>3. ASSUME StreamEnds PROVE Keeps
  <2>1. Control' /\ OnceInv' /\ LeftInv' /\ FailInv' /\ RunInv' /\ UNCHANGED begun
    BY <1>3, ControlOfStreamEnds, EndsOfStreamEnds, StreamEndsEffect DEF Control
  <2>2. \A u \in Begun : CountInv(u) => CountInv(u)'
    BY <1>3, CountOfStreamEnds
  <2>3. raced = {} /\ raced' = {} => Calm'
    BY <1>3, CalmOfStreamEnds DEF CalmInv
  <2>4. QED BY <2>1, <2>2, <2>3 DEF Keeps
<1>4. ASSUME SdkError PROVE Keeps
  <2>1. Control' /\ OnceInv' /\ LeftInv' /\ FailInv' /\ RunInv' /\ UNCHANGED begun
    BY <1>4, ControlOfSdkError, EndsOfSdkError, SdkErrorEffect DEF Control
  <2>2. \A u \in Begun : CountInv(u) => CountInv(u)'
    BY <1>4, CountOfSdkError
  <2>3. raced = {} /\ raced' = {} => Calm'
    BY <1>4, CalmOfSdkError DEF CalmInv
  <2>4. QED BY <2>1, <2>2, <2>3 DEF Keeps
<1>5. ASSUME FailAll PROVE Keeps
  <2>1. Control' /\ OnceInv' /\ LeftInv' /\ FailInv' /\ RunInv' /\ UNCHANGED begun
    BY <1>5, ControlOfFailAll, EndsOfFailAll, FailAllEffect DEF Control
  <2>2. \A u \in Begun : CountInv(u) => CountInv(u)'
    BY <1>5, CountOfFailAll
  <2>3. raced = {} /\ raced' = {} => Calm'
    BY <1>5, CalmOfFailAll DEF CalmInv
  <2>4. QED BY <2>1, <2>2, <2>3 DEF Keeps
<1>6. ASSUME FailStream PROVE Keeps
  <2>1. Control' /\ OnceInv' /\ LeftInv' /\ FailInv' /\ RunInv' /\ UNCHANGED begun
    BY <1>6, ControlOfFailStream, EndsOfFailStream, FailStreamEffect DEF Control
  <2>2. \A u \in Begun : CountInv(u) => CountInv(u)'
    BY <1>6, CountOfFailStream
  <2>3. raced = {} /\ raced' = {} => Calm'
    BY <1>6, CalmOfFailStream DEF CalmInv
  <2>4. QED BY <2>1, <2>2, <2>3 DEF Keeps
<1>7. ASSUME Shutdown PROVE Keeps
  <2>1. Control' /\ OnceInv' /\ LeftInv' /\ FailInv' /\ RunInv' /\ UNCHANGED begun
    BY <1>7, ControlOfShutdown, EndsOfShutdown, ShutdownEffect DEF Control
  <2>2. \A u \in Begun : CountInv(u) => CountInv(u)'
    BY <1>7, CountOfShutdown
  <2>3. raced = {} /\ raced' = {} => Calm'
    BY <1>7, CalmOfShutdown DEF CalmInv
  <2>4. QED BY <2>1, <2>2, <2>3 DEF Keeps
<1>8. QED BY <1>1, <1>2, <1>3, <1>4, <1>5, <1>6, <1>7

\* A step of a thread that ends a task
LEMMA KeptByEndStep ==
    ASSUME TypeOK, Control, TypeOK', OnceInv, LeftInv, FailInv, RunInv, TaskInv, CalmInv,
           raced = {} => Apart, Marks,
           NEW x \in Threads, EndStep(x)
    PROVE  Keeps
<1>1. ASSUME Find(x) PROVE Keeps
  <2>1. Control' /\ OnceInv' /\ LeftInv' /\ FailInv' /\ RunInv' /\ UNCHANGED begun
    BY <1>1, ControlOfFind, EndsOfFind, FindEffect DEF Control
  <2>2. \A u \in Begun : CountInv(u) => CountInv(u)'
    BY <1>1, CountOfFind
  <2>3. raced = {} /\ raced' = {} => Calm'
    BY <1>1, CalmOfFind DEF CalmInv
  <2>4. QED BY <2>1, <2>2, <2>3 DEF Keeps
<1>2. ASSUME Release(x) PROVE Keeps
  <2>1. Control' /\ OnceInv' /\ LeftInv' /\ FailInv' /\ RunInv' /\ UNCHANGED begun
    BY <1>2, ControlOfRelease, EndsOfRelease, ReleaseEffect DEF Control
  <2>2. \A u \in Begun : CountInv(u) => CountInv(u)'
    BY <1>2, CountOfRelease
  <2>3. raced = {} /\ raced' = {} => Calm'
    BY <1>2, CalmOfRelease DEF CalmInv
  <2>4. QED BY <2>1, <2>2, <2>3 DEF Keeps
<1>3. ASSUME Cleanup(x) PROVE Keeps
  <2>1. Control' /\ OnceInv' /\ LeftInv' /\ FailInv' /\ RunInv' /\ UNCHANGED begun
    BY <1>3, ControlOfCleanup, EndsOfCleanup, CleanupEffect DEF Control
  <2>2. \A u \in Begun : CountInv(u) => CountInv(u)'
    BY <1>3, CountOfCleanup
  <2>3. raced = {} /\ raced' = {} => Calm'
    BY <1>3, CalmOfCleanup DEF CalmInv
  <2>4. QED BY <2>1, <2>2, <2>3 DEF Keeps
<1>4. ASSUME StopRec(x) PROVE Keeps
  <2>1. Control' /\ OnceInv' /\ LeftInv' /\ FailInv' /\ RunInv' /\ UNCHANGED begun
    BY <1>4, ControlOfStopRec, EndsOfStopRec, StopRecEffect DEF Control
  <2>2. \A u \in Begun : CountInv(u) => CountInv(u)'
    BY <1>4, CountOfStopRec
  <2>3. raced = {} /\ raced' = {} => Calm'
    BY <1>4, CalmOfStopRec DEF CalmInv
  <2>4. QED BY <2>1, <2>2, <2>3 DEF Keeps
<1>5. ASSUME JoinRec(x) PROVE Keeps
  <2>1. Control' /\ OnceInv' /\ LeftInv' /\ FailInv' /\ RunInv' /\ UNCHANGED begun
    BY <1>5, ControlOfJoinRec, EndsOfJoinRec, JoinRecEffect DEF Control
  <2>2. \A u \in Begun : CountInv(u) => CountInv(u)'
    BY <1>5, CountOfJoinRec
  <2>3. raced = {} /\ raced' = {} => Calm'
    BY <1>5, CalmOfJoinRec DEF CalmInv
  <2>4. QED BY <2>1, <2>2, <2>3 DEF Keeps
<1>6. ASSUME StopStream(x) PROVE Keeps
  <2>1. Control' /\ OnceInv' /\ LeftInv' /\ FailInv' /\ RunInv' /\ UNCHANGED begun
    BY <1>6, ControlOfStopStream, EndsOfStopStream, StopStreamEffect DEF Control
  <2>2. \A u \in Begun : CountInv(u) => CountInv(u)'
    BY <1>6, CountOfStopStream
  <2>3. raced = {} /\ raced' = {} => Calm'
    BY <1>6, CalmOfStopStream DEF CalmInv
  <2>4. QED BY <2>1, <2>2, <2>3 DEF Keeps
<1>7. ASSUME JoinStream(x) PROVE Keeps
  <2>1. Control' /\ OnceInv' /\ LeftInv' /\ FailInv' /\ RunInv' /\ UNCHANGED begun
    BY <1>7, ControlOfJoinStream, EndsOfJoinStream, JoinStreamEffect DEF Control
  <2>2. \A u \in Begun : CountInv(u) => CountInv(u)'
    BY <1>7, CountOfJoinStream
  <2>3. raced = {} /\ raced' = {} => Calm'
    BY <1>7, CalmOfJoinStream DEF CalmInv
  <2>4. QED BY <2>1, <2>2, <2>3 DEF Keeps
<1>8. ASSUME Disconnect(x) PROVE Keeps
  <2>1. Control' /\ OnceInv' /\ LeftInv' /\ FailInv' /\ RunInv' /\ UNCHANGED begun
    BY <1>8, ControlOfDisconnect, EndsOfDisconnect, DisconnectEffect DEF Control
  <2>2. \A u \in Begun : CountInv(u) => CountInv(u)'
    BY <1>8, CountOfDisconnect
  <2>3. raced = {} /\ raced' = {} => Calm'
    BY <1>8, CalmOfDisconnect DEF CalmInv
  <2>4. QED BY <2>1, <2>2, <2>3 DEF Keeps
<1>9. ASSUME Report(x) PROVE Keeps
  <2>1. Control' /\ OnceInv' /\ LeftInv' /\ FailInv' /\ RunInv' /\ UNCHANGED begun
    BY <1>9, ControlOfReport, EndsOfReport, ReportEffect DEF Control
  <2>2. \A u \in Begun : CountInv(u) => CountInv(u)'
    BY <1>9, CountOfReport
  <2>3. raced = {} /\ raced' = {} => Calm'
    BY <1>9, CalmOfReport DEF CalmInv
  <2>4. QED BY <2>1, <2>2, <2>3 DEF Keeps
<1>10. ASSUME StopSnap(x) PROVE Keeps
  <2>1. Control' /\ OnceInv' /\ LeftInv' /\ FailInv' /\ RunInv' /\ UNCHANGED begun
    BY <1>10, ControlOfStopSnap, EndsOfStopSnap, StopSnapEffect DEF Control
  <2>2. \A u \in Begun : CountInv(u) => CountInv(u)'
    BY <1>10, CountOfStopSnap
  <2>3. raced = {} /\ raced' = {} => Calm'
    BY <1>10, CalmOfStopSnap DEF CalmInv
  <2>4. QED BY <2>1, <2>2, <2>3 DEF Keeps
<1>11. QED BY <1>1, <1>2, <1>3, <1>4, <1>5, <1>6, <1>7, <1>8, <1>9, <1>10 DEF EndStep

\* The invariant is inductive.
LEMMA InvStep == Inv /\ [Next]_vars => Inv'
<1> SUFFICES ASSUME Inv, [Next]_vars PROVE Inv'
  OBVIOUS
<1>1. CASE UNCHANGED vars
  BY <1>1, Hangs DEF vars, sinks
<1>2. CASE Next
  <2>1. /\ TypeOK /\ Control /\ OnceInv /\ LeftInv /\ FailInv /\ RunInv /\ TaskInv /\ CalmInv
        /\ Marks
    BY <1>2 DEF Inv, Next
  <2>2. TypeOK'
    BY <1>2, <2>1, TypeStep DEF Control
  <2>3. raced = {} => Apart
    BY <2>1, ApartHolds DEF CalmInv, Calm
  <2>4. raced \subseteq raced'
    BY <2>1
  <2>5. CASE Hangup \/ CaptureHangs
    <3>1. Meeting' = Meeting /\ Racing' = Racing
      BY <2>5 DEF Hangup, CaptureHangs, Meeting, Racing, Busy, At, Starting
    <3>2. met' = met /\ raced' = raced
      BY <2>1, <3>1 DEF Control, RaceInv
    <3>3. QED BY <2>5, <3>2, Hangs DEF Hangup, CaptureHangs, sinks
  <2>6. ASSUME NEW k \in Kinds, NEW c \in Channels, Start(k, c) PROVE Inv'
    <3>1. Control' /\ OnceInv' /\ LeftInv' /\ FailInv' /\ RunInv'
      BY <2>1, <2>2, <2>6, ControlOfStart, EndsOfStart
    <3>2. TaskInv'
      BY <2>1, <2>2, <2>6, TasksOfStart
    <3>3. raced' = {} => Calm'
      BY <2>1, <2>2, <2>4, <2>6, CalmOfStart DEF CalmInv
    <3>4. QED BY <2>2, <3>1, <3>2, <3>3 DEF Inv, CalmInv
  <2>7. CASE \/ Handle \/ Expire \/ StreamEnds \/ SdkError \/ Fail \/ Shutdown
             \/ \E t \in Tasks : Stop(t)
             \/ \E x \in Threads : EndStep(x)
    <3>1. Keeps
      <4>1. CASE Handle
        BY <2>1, <2>2, <2>3, <4>1, KeptByHandle
      <4>2. CASE (\E t \in Tasks : Stop(t)) \/ Expire \/ StreamEnds \/ SdkError \/ FailAll \/ FailStream \/ Shutdown
        BY <2>1, <2>2, <2>3, <4>2, KeptByOthers
      <4>3. ASSUME NEW x \in Threads, EndStep(x) PROVE Keeps
        BY <2>1, <2>2, <2>3, <4>3, KeptByEndStep
      <4>4. QED BY <2>7, <4>1, <4>2, <4>3 DEF Fail
    <3>2. Begun' = Begun
      BY <3>1 DEF Keeps, Begun
    <3>3. \A t \in Tasks \ Begun : sent'[t] = 0
      BY <2>1, <2>7, NotSent DEF TaskInv
    <3>4. TaskInv'
      BY <2>1, <2>4, <3>1, <3>2, <3>3 DEF Keeps, TaskInv
    <3>5. CalmInv'
      BY <2>4, <3>1 DEF Keeps, CalmInv
    <3>6. QED BY <2>2, <3>1, <3>4, <3>5 DEF Inv, Keeps
  <2>8. QED BY <1>2, <2>5, <2>6, <2>7 DEF Next, Step
<1>3. QED BY <1>1, <1>2

\* It holds in the initial state.
LEMMA InvInit == Init => Inv
<1> SUFFICES ASSUME Init PROVE Inv
  OBVIOUS
<1>1. Begun = {} /\ active = {} /\ met = {} /\ raced = {}
  BY DEF Init, Begun
<1>2. \A x \in Threads : th[x] = Idle
  BY DEF Init
<1>3. \A x \in Threads : th[x].pc = "idle" /\ th[x].task = None /\ th[x].then = "idle"
  BY <1>2 DEF Idle
<1>4. TypeOK
  <2>a. JobsType
    BY <1>1, PipeAssumption DEF Init, JobsType
  <2>b. StateType /\ SinksType
    BY <1>1 DEF Init, StateType, SinksType
  <2>c. NotesType
    BY <1>1 DEF Init, NotesType
  <2>1. JobsType /\ StateType /\ SinksType /\ NotesType
    BY <2>a, <2>b, <2>c
  <2>2. Idle \in Thread
    BY DEF Idle, Thread, Pcs, Thens
  <2>3. \A x \in Threads : "idle" \in Places[x]
    BY PlaceFacts DEF Threads, Ending
  <2>4. ThreadsType
    BY <1>3, <2>2, <2>3 DEF Init, ThreadsType
  <2>5. QED BY <2>1, <2>4 DEF TypeOK
<1>5. Control
  <2>1. HolderInv /\ ThenInv /\ SendInv
    BY <1>3 DEF HolderInv, ThenInv, SendInv, TaskOf, At, Busy, Holders, Threads, Joining
  <2>2. SockInv /\ CallbackInv /\ StartInv
    BY <1>1, <1>3 DEF Init, SockInv, CallbackInv, StartInv, Fresh, TaskOf, At, Busy, Holders,
           Threads
  <2>3. RaceInv
    BY <1>1, <1>3 DEF RaceInv, Meeting, Racing, Busy, At
  <2>4. QED BY <2>1, <2>2, <2>3 DEF Control
<1>6. OnceInv /\ LeftInv /\ FailInv /\ RunInv
  BY <1>1, <1>3 DEF Init, OnceInv, LeftInv, FailInv, RunInv, TaskOf, At, Holders, Threads, Joining
<1>7. TaskInv
  BY <1>1 DEF Init, TaskInv
<1>8. Calm
  <2>1. SameChannel /\ EntryInv /\ UsedInv /\ ClientInv
    BY <1>1, <1>3 DEF Init, SameChannel, EntryInv, UsedInv, ClientInv, Removing, Joining, At,
           Holders, Threads
  <2>2. RecInv /\ SnapInv /\ StreamInv
    BY <1>1, <1>3 DEF Init, RecInv, SnapInv, StreamInv, OfKind, At, Holders, Threads
  <2>3. QED BY <2>1, <2>2 DEF Calm
<1>9. QED BY <1>4, <1>5, <1>6, <1>7, <1>8 DEF Inv, CalmInv

\* The worker keeps the whole invariant, whatever commands, callbacks and
\* errors come in which order.
THEOREM InvAlways == Spec => []Inv
<1>1. QED BY InvInit, InvStep, PTL DEF Spec

\* The variables of the worker keep their types, and each thread to the steps
\* of the functions that it calls.
THEOREM TypeCorrect == Spec => []TypeOK
<1>1. Inv => TypeOK
  BY DEF Inv
<1>2. QED BY <1>1, InvAlways, PTL

\* The end of a task is reported when nobody works on it any more, never while
\* it is active, once if no two threads met over it, and otherwise twice, or
\* three times with an SDK error, at most.
THEOREM AlwaysReportedOnce == Spec => []ReportedOnce
<1>1. Inv => ReportedOnce
  <2> SUFFICES ASSUME Inv, NEW t \in Begun
               PROVE  /\ t \in active => sent[t] = 0
                      /\ sent[t] <= IF errors = 0 THEN 2 ELSE 3
                      /\ t \notin met \cup shared => sent[t] <= 1
                      /\ t \notin active \cup refused /\ sock = "open" /\ (\A x \in Threads : th[x].task # t)
                            => sent[t] >= 1
    BY DEF ReportedOnce
  <2>1. CountInv(t) /\ sent[t] \in Nat
    BY BegunTasks DEF Inv, TaskInv, TypeOK, NotesType
  <2>2. t \in active => sent[t] = 0
    BY <2>1 DEF CountInv, OnlyInv, MayFail
  <2>3. sent[t] <= IF errors = 0 THEN 2 ELSE 3
    BY <2>1 DEF CountInv, BoundInv, One
  <2>4. t \notin met \cup shared => sent[t] <= 1
    BY <2>1 DEF CountInv, OnlyInv, One
  <2>5. t \notin active \cup refused /\ sock = "open" /\ (\A x \in Threads : th[x].task # t)
           => sent[t] >= 1
    BY <2>1 DEF CountInv, HeardInv, Owed, TaskOf, Holders, Threads
  <2>6. QED BY <2>2, <2>3, <2>4, <2>5
<1>2. QED BY <1>1, InvAlways, PTL

\* When all threads are idle and no two have met over a task, the sinks that
\* run are the ones with tasks.
THEOREM SinksAlwaysMatch == Spec => []SinksMatchTasks
<1>1. Inv => SinksMatchTasks
  <2> SUFFICES ASSUME Inv, Quiet, raced = {}
               PROVE  /\ rec = "on" => OfKind("record") # {}
                      /\ OfKind("record") # {} => rec # "off"
                      /\ snap # "off" <=> OfKind("snapshot") # {}
                      /\ stream = "on" <=> OfKind("stream") # {}
    BY DEF SinksMatchTasks
  <2>1. \A x \in Threads : th[x].pc = "idle"
    BY DEF Quiet, At
  <2>2. RecInv /\ SnapInv /\ StreamInv /\ RunInv /\ CallbackInv
    BY DEF Inv, CalmInv, Calm, Control
  <2>3. (rec = "on" => OfKind("record") # {}) /\ (OfKind("record") # {} => rec # "off")
    BY <2>1, <2>2 DEF RecInv, OfKind, Threads
  <2>4. snap # "off" => OfKind("snapshot") # {}
    <3>1. \A x \in Threads : ~At(x, "stopSnap")
      BY <2>1 DEF At
    <3>2. th["sdk"].pc \notin {"stopRec", "joinRec"}
      BY <2>1 DEF Threads
    <3>3. QED BY <2>2, <3>1, <3>2 DEF SnapInv, OfKind
  <2>7. OfKind("snapshot") # {} => snap # "off"
    <3>1. th["handler"].pc \notin {"begin", "release"}
      BY <2>1 DEF Threads
    <3>2. QED BY <2>2, <3>1 DEF SnapInv
  <2>5. stream = "on" <=> OfKind("stream") # {}
    BY <2>1, <2>2 DEF StreamInv, RunInv, CallbackInv, OfKind, Threads, Joining
  <2>6. QED BY <2>3, <2>4, <2>5, <2>7
<1>2. QED BY <1>1, InvAlways, PTL

\* Until an SDK error leaves the client behind or two threads meet over a
\* task, the client is in the channel of every active task.
THEOREM AlwaysOnItsChannel == Spec => []OnItsChannel
<1>1. Inv => OnItsChannel
  BY Facts DEF Inv, CalmInv, Calm, EntryInv, ClientInv, OnItsChannel
<1>2. QED BY <1>1, InvAlways, PTL

\* What is at work in the worker is on one channel, until two threads meet
\* over a task: the manager's choice of the worker is enough for that.
THEOREM AlwaysOneChannel == Spec => [](raced = {} => SameChannel)
<1>1. Inv => (raced = {} => SameChannel)
  BY DEF Inv, CalmInv, Calm
<1>2. QED BY <1>1, InvAlways, PTL

-----------------------------------------------------------------------------
(* Threads that wait for each other *)

\* stop() of a sink lets one thread join at a time, and the streaming thread
\* never joins itself.
StopperInv ==
    /\ \A x \in Threads : recStopper = x <=> At(x, "joinRec")
    /\ \A x \in Threads : streamStopper = x <=> At(x, "joinStream")
    /\ ~At("streamer", "joinStream")

\* Two threads that emptied the channel do not both take it down: the second
\* finds no entry.
OneRemoves == raced = {} => \A x, y \in Holders : Removing(x) /\ Removing(y) => x = y

WaitInv == StopperInv /\ OneRemoves

\* Thread x, one of the worker's or the capture thread, cannot go on before y
\* does: it joins y, or y holds the mutex of the sink or state_mutex_.
WaitsFor(x, y) ==
    IF x = "capture" THEN snap = "stuck" /\ y = "capture"
    ELSE \/ At(x, "stopSnap") /\ snap # "off" /\ y = "capture"
         \/ At(x, "stopRec") /\ x # "coordinator" /\ recStopper = y
         \/ At(x, "joinRec") /\ x # "coordinator" /\ y = "coordinator" /\ Busy(y)
         \/ At(x, "stopStream") /\ x # "streamer" /\ streamStopper = y
         \/ At(x, "joinStream") /\ y = "streamer" /\ Busy(y)
         \/ At(x, "begin") /\ (y \in {recStopper, streamStopper} \/ (y = "coordinator" /\ Busy(y)))
         \/ th[x].pc \in {"find", "release", "cleanup", "fail"} /\ y = "handler" /\ ~StateFree

\* No threads wait in a circle, unless the capture thread hangs or the
\* coordinator and the streaming thread take a channel down together.
NoCircle ==
    snap # "stuck" /\ ~(Removing("coordinator") /\ Removing("streamer")) =>
        \A C \in (SUBSET (Threads \cup {"capture"})) \ {{}} :
            \E x \in C : \A y \in C : ~WaitsFor(x, y)

\* A step that joins nothing and takes no channel down
LEMMA MovesOutside ==
    ASSUME WaitInv, raced \subseteq raced', NEW x \in Threads,
           \A y \in Threads : y # x => th'[y] = th[y],
           UNCHANGED <<recStopper, streamStopper>>,
           {th[x].pc, th'[x].pc} \cap {"joinRec", "joinStream"} = {},
           x \in Holders /\ Removing(x)' => Removing(x)
    PROVE  WaitInv'
<1>1. StopperInv'
  BY DEF WaitInv, StopperInv, At, Threads
<1>2. \A y \in Holders : Removing(y)' => Removing(y)
  BY DEF Removing, Holders, Threads, At
<1>3. OneRemoves'
  BY <1>2 DEF WaitInv, OneRemoves
<1>4. QED BY <1>1, <1>3 DEF WaitInv

\* A step within stop() of a sink, which keeps what it was called for
LEMMA MovesInside ==
    ASSUME WaitInv, raced \subseteq raced', NEW x \in Threads,
           \A y \in Threads : y # x => th'[y] = th[y],
           x \in Holders /\ Removing(x)' => Removing(x)
    PROVE  OneRemoves'
<1>1. \A y \in Holders : Removing(y)' => Removing(y)
  BY DEF Removing, Holders, Threads, At
<1>2. QED BY <1>1 DEF WaitInv, OneRemoves

\* Steps of the handler in its commands, and of the callbacks, errors and stop()
LEMMA WaitOfCommands ==
    ASSUME Inv, WaitInv, raced \subseteq raced',
           \/ Handle \/ Expire \/ StreamEnds \/ SdkError \/ Fail \/ Shutdown \/ Hangup
           \/ CaptureHangs
           \/ \E t \in Tasks : Stop(t)
           \/ \E k \in Kinds, c \in Channels : Start(k, c)
    PROVE  WaitInv'
<1> USE DEF At, Busy, Removing, Joining, Holders, Threads, jobs, state, sinks, notes
<1>1. TypeOK /\ Control
  BY DEF Inv
<1>2. CASE Handle
  <2>1. UNCHANGED <<recStopper, streamStopper>> /\ th["handler"].pc \in {"ready", "connect", "register", "begin"}
    BY <1>2 DEF Handle, Ready, Connect, Register, Begin, BeginFails
  <2>2. /\ \A y \in Threads : y # "handler" => th'[y] = th[y]
        /\ th'["handler"].pc \in {"connect", "register", "begin", "idle", "release"}
    BY <1>1, <1>2, ReadyEffect, ConnectEffect, RegisterEffect, BeginEffect, BeginFailsEffect DEF Handle
  <2>3. QED BY <2>1, <2>2, MovesOutside
<1>3. CASE Expire
  <2>1. UNCHANGED <<recStopper, streamStopper>> /\ th["coordinator"].pc = "idle"
    BY <1>3 DEF Expire
  <2>2. (\A y \in Threads : y # "coordinator" => th'[y] = th[y]) /\ th'["coordinator"].pc = "find"
    BY <1>1, <1>3, ExpireEffect
  <2>3. QED BY <2>1, <2>2, MovesOutside
<1>4. CASE StreamEnds
  <2>1. UNCHANGED <<recStopper, streamStopper>> /\ th["streamer"].pc = "idle"
    BY <1>1, <1>4 DEF StreamEnds, Control, CallbackInv
  <2>2. (\A y \in Threads : y # "streamer" => th'[y] = th[y]) /\ th'["streamer"].pc = "find"
    BY <1>1, <1>4, StreamEndsEffect
  <2>3. QED BY <2>1, <2>2, MovesOutside
<1>5. CASE SdkError \/ Fail
  <2>1. UNCHANGED <<recStopper, streamStopper>> /\ th["sdk"].pc \in {"idle", "fail", "failStream"}
    BY <1>5 DEF SdkError, Fail, FailAll, FailStream
  <2>2. /\ \A y \in Threads : y # "sdk" => th'[y] = th[y]
        /\ th'["sdk"].pc \in {"fail", "stopRec", "stopSnap", "failStream", "stopStream", "idle"}
    BY <1>1, <1>5, SdkErrorEffect, FailAllEffect, FailStreamEffect DEF Fail
  <2>3. QED BY <2>1, <2>2, MovesOutside
<1>6. CASE Shutdown
  <2>1. UNCHANGED <<recStopper, streamStopper>> /\ th["main"].pc = "idle"
    BY <1>1, <1>6 DEF Shutdown, Control, SockInv
  <2>2. (\A y \in Threads : y # "main" => th'[y] = th[y]) /\ th'["main"].pc = "stopSnap"
    BY <1>1, <1>6, ShutdownEffect
  <2>3. QED BY <2>1, <2>2, MovesOutside
<1>7. CASE Hangup \/ CaptureHangs
  <2>1. UNCHANGED <<recStopper, streamStopper, th>>
    BY <1>7 DEF Hangup, CaptureHangs
  <2>2. QED BY <2>1 DEF WaitInv, StopperInv, OneRemoves
<1>8. ASSUME NEW t \in Tasks, Stop(t) PROVE WaitInv'
  <2>1. UNCHANGED <<recStopper, streamStopper>> /\ th["handler"].pc = "idle"
    BY <1>8, Zenon DEF Stop
  <2>2. /\ \A y \in Threads : y # "handler" => th'[y] = th[y]
        /\ th'["handler"].pc \in {"stopSnap", "stopRec", "stopStream", "release"} /\ th'["handler"].then = "release"
    BY <1>1, <1>8, StopEffect DEF StopAt
  <2>3. QED BY <2>1, <2>2, MovesOutside
<1>9. ASSUME NEW k \in Kinds, NEW c \in Channels, Start(k, c) PROVE WaitInv'
  <2>1. UNCHANGED <<recStopper, streamStopper>> /\ th["handler"].pc = "idle"
    BY <1>9, Zenon DEF Start
  <2>2. /\ \A y \in Threads : y # "handler" => th'[y] = th[y]
        /\ th'["handler"].pc \in {"idle", "stopStream", "connect"}
        /\ th'["handler"].pc = "idle" \/ th'["handler"].then # "stopStream"
    BY <1>1, <1>9, <2>1, StartEffect DEF Starts
  <2>3. QED BY <2>1, <2>2, MovesOutside
<1>10. QED BY <1>2, <1>3, <1>4, <1>5, <1>6, <1>7, <1>8, <1>9

\* Of two threads in cleanupConnection(), the second finds the entry gone.
LEMMA WaitOfCleanup ==
    ASSUME Inv, WaitInv, raced \subseteq raced', NEW x \in Threads, Cleanup(x)
    PROVE  WaitInv'
<1> USE DEF At, Holders, Threads
<1>1. TypeOK /\ Control /\ x \in Holders /\ th[x].pc = "cleanup"
  BY PlaceOf DEF Inv, Cleanup
<1>2. (\A y \in Threads : y # x => th'[y] = th[y]) /\ UNCHANGED <<recStopper, streamStopper>>
      /\ th'[x].pc \in {"send", "stopSnap"}
  <2>1. UNCHANGED <<recStopper, streamStopper>>
    BY Zenon DEF Cleanup, sinks
  <2>2. (\A y \in Threads : y # x => th'[y] = th[y]) /\ th'[x].pc \in {"send", "stopSnap"}
    BY <1>1, CleanupEffect
  <2>3. QED BY <2>1, <2>2
<1>3. CASE conn[chan[th[x].task]] = "none"
  <2>1. th'[x].pc = "send"
    BY <1>1, <1>3, CleanupEffect
  <2>2. QED BY <1>1, <1>2, <2>1, MovesOutside DEF Removing, Joining
<1>4. CASE conn[chan[th[x].task]] # "none"
  <2>1. StopperInv'
    BY <1>1, <1>2 DEF WaitInv, StopperInv
  <2>2. ASSUME raced' = {}, NEW y \in Holders, Removing(y) PROVE FALSE
    <3>1. SameChannel /\ EntryInv
      BY <2>2 DEF Inv, CalmInv, Calm
    <3>2. th[y].pc \notin {"idle", "find", "send"} /\ conn[chan[th[y].task]] = "none"
      BY <2>2, <3>1 DEF EntryInv, Removing, Joining, TaskOf
    <3>3. chan[th[x].task] = chan[th[y].task]
      BY <1>1, <3>1, <3>2, OneChannel
    <3>4. QED BY <1>4, <3>2, <3>3
  <2>3. \A y \in Holders : Removing(y)' => y = x \/ Removing(y)
    BY <1>2 DEF Removing
  <2>4. OneRemoves'
    BY <2>2, <2>3 DEF OneRemoves
  <2>5. QED BY <2>1, <2>4 DEF WaitInv
<1>5. QED BY <1>3, <1>4

\* Steps of a thread that ends a task
LEMMA WaitOfEndStep ==
    ASSUME Inv, WaitInv, raced \subseteq raced', NEW x \in Threads, EndStep(x)
    PROVE  WaitInv'
<1> USE DEF At
<1>1. TypeOK /\ Control /\ ThenInv
  BY DEF Inv, Control
<1>2. \A y \in Threads : y # x => th'[y] = th[y]
  BY <1>1, Stays
<1>3. ASSUME Find(x) \/ Release(x) \/ Disconnect(x) \/ Report(x) PROVE WaitInv'
  <2>1. UNCHANGED <<recStopper, streamStopper>> /\ th[x].pc \in {"find", "release", "disconnect", "send"}
    BY <1>3 DEF Find, Release, Disconnect, Report, sinks
  <2>2. th'[x].pc \in {"release", "send", "idle", "cleanup"}
    BY <1>1, <1>3, FindEffect, ReleaseEffect, DisconnectEffect, ReportEffect
  <2>3. QED BY <1>2, <2>1, <2>2, MovesOutside DEF Removing, Joining
<1>4. ASSUME StopRec(x) PROVE WaitInv'
  <2>1. /\ th[x].pc = "stopRec" /\ th'[x].then = th[x].then /\ th[x].then \in Thens \ {"idle"}
        /\ th'[x].pc \in {th[x].then, "joinRec"} /\ UNCHANGED streamStopper
    <3>1. th[x].then \in Thens
      BY <1>1 DEF TypeOK, ThreadsType, Thread
    <3>2. th[x].pc = "stopRec" /\ UNCHANGED streamStopper
      BY <1>4 DEF StopRec
    <3>3. th[x].then # "idle"
      BY <1>1, <3>2, ThenPlaces DEF Joining
    <3>4. th'[x].then = th[x].then /\ th'[x].pc \in {th[x].then, "joinRec"}
      BY <1>1, <1>4, StopRecEffect
    <3>5. QED BY <3>1, <3>2, <3>3, <3>4
  <2>2. \/ th'[x].pc = th[x].then /\ UNCHANGED recStopper
        \/ th'[x].pc = "joinRec" /\ recStopper = "none" /\ recStopper' = x
    <3>1. th \in [Threads -> Thread] /\ th[x].then \in Pcs \ {"idle"}
      BY <1>1, <2>1 DEF TypeOK, ThreadsType, Thens, Pcs
    <3>2. \A pc \in Pcs \ {"idle"} : Go(x, pc) => th'[x].pc = pc
      BY <3>1, GoMoves DEF Moves, Sets
    <3>3. QED BY <1>4, <3>1, <3>2 DEF StopRec, Pcs
  <2>3. OneRemoves'
    BY <1>2, <2>1, MovesInside DEF Removing, Joining, Thens
  <2>4. StopperInv'
    BY <1>2, <2>1, <2>2 DEF WaitInv, StopperInv, Thens, Threads
  <2>5. QED BY <2>3, <2>4 DEF WaitInv
<1>5. ASSUME JoinRec(x) PROVE WaitInv'
  <2>1. /\ th[x].pc = "joinRec" /\ th'[x].then = th[x].then /\ th[x].then \in Thens \ {"idle"}
        /\ th'[x].pc = th[x].then /\ UNCHANGED streamStopper /\ recStopper' = "none"
    BY <1>1, <1>5, JoinRecEffect DEF JoinRec, TypeOK, ThreadsType, Thread
  <2>2. OneRemoves'
    BY <1>2, <2>1, MovesInside DEF Removing, Joining, Thens
  <2>3. StopperInv'
    BY <1>2, <2>1 DEF WaitInv, StopperInv, Thens, Threads
  <2>4. QED BY <2>2, <2>3 DEF WaitInv
<1>6. ASSUME StopStream(x) PROVE WaitInv'
  <2>1. th[x].pc = "stopStream" /\ UNCHANGED recStopper
    BY <1>6 DEF StopStream
  <2>2. CASE x = "streamer"
    <3>1. UNCHANGED streamStopper /\ th[x].then = "stopStream"
      BY <1>1, <1>6, <2>1, <2>2 DEF StopStream, ThenInv, Joining
    <3>2. AfterStream(x) = "disconnect"
      BY <3>1 DEF AfterStream
    <3>3. th'[x].pc = "disconnect"
      BY <1>1, <1>6, <2>2, <3>2, StopStreamEffect
    <3>4. QED BY <1>2, <2>1, <3>1, <3>3, MovesOutside DEF Removing, Joining
  <2>3. CASE x # "streamer"
    <3>1. th'[x].pc = "joinStream" /\ th'[x].then = th[x].then /\ streamStopper = "none" /\ streamStopper' = x
      BY <1>1, <1>6, <2>3, StopStreamEffect DEF StopStream
    <3>2. OneRemoves'
      BY <1>2, <2>1, <3>1, MovesInside DEF Removing, Joining
    <3>3. StopperInv'
      BY <1>2, <2>1, <2>3, <3>1 DEF WaitInv, StopperInv, Threads
    <3>4. QED BY <3>2, <3>3 DEF WaitInv
  <2>4. QED BY <2>2, <2>3
<1>7. ASSUME JoinStream(x) PROVE WaitInv'
  <2>1. th[x].pc = "joinStream" /\ UNCHANGED recStopper /\ streamStopper' = "none"
    BY <1>7 DEF JoinStream
  <2>2. /\ th'[x].pc \in {"disconnect", "idle", "ready", "release", "failStream", "stopSnap"}
        /\ th'[x].pc = "disconnect" => th[x].then = "stopStream"
        /\ th'[x].pc = "stopSnap" => th'[x].then = "stopSnap"
    <3>1. th[x].then \in Thens
      BY <1>1 DEF TypeOK, ThreadsType, Thread
    <3>2. QED BY <1>1, <1>7, <3>1, JoinStreamEffect DEF AfterStream, Thens
  <2>3. OneRemoves'
    BY <1>2, <2>1, <2>2, MovesInside DEF Removing, Joining
  <2>4. StopperInv'
    BY <1>2, <2>1, <2>2 DEF WaitInv, StopperInv, Threads
  <2>5. QED BY <2>3, <2>4 DEF WaitInv
<1>8. ASSUME StopSnap(x) PROVE WaitInv'
  <2>1. th[x].pc = "stopSnap" /\ UNCHANGED <<recStopper, streamStopper>>
    BY <1>8 DEF StopSnap
  <2>2. /\ th'[x].pc \in {"stopRec", "failStream", "idle", "ready", "release"}
        /\ th'[x].pc = "stopRec" => th[x].then = "stopStream"
    <3>1. th[x].then \in Thens
      BY <1>1 DEF TypeOK, ThreadsType, Thread
    <3>2. QED BY <1>1, <1>8, <3>1, StopSnapEffect DEF AfterSnap, Thens
  <2>3. QED BY <1>2, <2>1, <2>2, MovesOutside DEF Removing, Joining
<1>9. QED BY <1>3, <1>4, <1>5, <1>6, <1>7, <1>8, WaitOfCleanup DEF EndStep

\* Who waits for the capture thread, or for state_mutex_, is in no circle: the
\* capture thread runs, and the handler with the mutex waits for it alone.
\* Whoever waits for another sink waits, in the end, for its thread, and that
\* thread waits only while it takes the channel down itself.
LEMMA NoneWaitInCircle == Inv /\ WaitInv => NoCircle
<1> SUFFICES ASSUME Inv, WaitInv, snap # "stuck",
                    ~(Removing("coordinator") /\ Removing("streamer")),
                    NEW C \in SUBSET (Threads \cup {"capture"}), C # {},
                    \A x \in C : \E y \in C : WaitsFor(x, y)
             PROVE  FALSE
  BY DEF NoCircle
<1> USE DEF At
<1>1. StopperInv /\ ThenInv /\ TypeOK
  BY DEF WaitInv, Inv, Control
<1>2. "capture" \notin C /\ C \subseteq Threads
  BY DEF WaitsFor
<1>3. \A x \in C : th[x].pc # "stopSnap"
  BY <1>2 DEF WaitsFor
<1>4. \A x \in C : \/ th[x].pc \in {"stopRec", "joinRec"} /\ x # "coordinator"
                   \/ th[x].pc \in {"stopStream", "joinStream"}
                   \/ th[x].pc = "begin" /\ x = "handler"
  <2> SUFFICES ASSUME NEW x \in C
               PROVE  \/ th[x].pc \in {"stopRec", "joinRec"} /\ x # "coordinator"
                      \/ th[x].pc \in {"stopStream", "joinStream"}
                      \/ th[x].pc = "begin" /\ x = "handler"
    OBVIOUS
  <2>1. PICK y \in C : WaitsFor(x, y)
    OBVIOUS
  <2>2. ~(y = "handler" /\ ~StateFree)
    BY <1>3 DEF StateFree
  <2>3. th[x].pc = "begin" => x = "handler"
    BY <1>1, <1>2, PlaceFacts DEF TypeOK, ThreadsType, Ending, Joining, Threads
  <2>4. QED BY <1>2, <1>3, <2>1, <2>2, <2>3 DEF WaitsFor
<1>5. ASSUME NEW y \in C, recStopper = y PROVE "coordinator" \in C
  <2>1. th[y].pc = "joinRec"
    BY <1>1, <1>2, <1>5 DEF StopperInv
  <2>2. QED BY <1>2, <2>1 DEF WaitsFor
<1>6. ASSUME NEW y \in C, streamStopper = y PROVE "streamer" \in C
  <2>1. th[y].pc = "joinStream"
    BY <1>1, <1>2, <1>6 DEF StopperInv
  <2>2. QED BY <1>2, <2>1 DEF WaitsFor
<1>7. ASSUME NEW x \in C, th[x].pc \in {"stopRec", "joinRec"}, x # "coordinator"
      PROVE  "coordinator" \in C
  BY <1>2, <1>5, <1>7 DEF WaitsFor
<1>8. ASSUME NEW x \in C, th[x].pc \in {"stopStream", "joinStream"}
      PROVE  "streamer" \in C
  BY <1>2, <1>6, <1>8 DEF WaitsFor
<1>9. ASSUME NEW x \in C, th[x].pc = "begin" PROVE "coordinator" \in C \/ "streamer" \in C
  BY <1>2, <1>5, <1>6, <1>9 DEF WaitsFor
<1>10. "streamer" \in C => th["streamer"].pc \in {"stopRec", "joinRec"}
  BY <1>1, <1>2, <1>4 DEF WaitsFor, StopperInv
<1>11. "coordinator" \in C => th["coordinator"].pc \in {"stopStream", "joinStream"}
  BY <1>4
<1>12. "coordinator" \in C /\ "streamer" \in C
  BY <1>4, <1>7, <1>8, <1>9, <1>10, <1>11
<1>13. QED BY <1>1, <1>10, <1>11, <1>12 DEF ThenInv, Removing, Joining

\* The threads of a worker never wait in a circle, whatever they join, hold or
\* wait for: the capture thread, state_mutex_, and the threads and locks of
\* RecordingSink::stop() and StreamingSink::stop().  There are two exceptions,
\* and the second needs a start that falls into the end of another task: a
\* capture thread that hangs, and a coordinator and a streaming thread that
\* both take a channel down.
THEOREM NeverWaitInCircle == Spec => [](NoCircle /\ OneRemoves)
<1>1. Init => Inv /\ WaitInv
  <2>1. ASSUME Init PROVE WaitInv
    <3>1. \A x \in Threads : th[x].pc = "idle" /\ x # "none"
      BY <2>1 DEF Init, Idle, Threads
    <3>2. recStopper = "none" /\ streamStopper = "none" /\ Holders \subseteq Threads /\ "streamer" \in Threads
      BY <2>1 DEF Init, Holders, Threads
    <3>3. QED BY <3>1, <3>2 DEF WaitInv, StopperInv, OneRemoves, Removing, Joining, At
  <2>2. QED BY <2>1, InvInit
<1>2. Inv /\ WaitInv /\ [Next]_vars => Inv' /\ WaitInv'
  <2> SUFFICES ASSUME Inv, WaitInv, [Next]_vars PROVE WaitInv'
    BY InvStep
  <2>1. CASE UNCHANGED vars
    BY <2>1 DEF vars, sinks, WaitInv, StopperInv, OneRemoves, Removing, At
  <2>2. CASE Next
    <3>1. raced \subseteq raced'
      BY <2>2 DEF Next
    <3>2. QED BY <2>2, <3>1, WaitOfCommands, WaitOfEndStep DEF Next, Step
  <2>3. QED BY <2>1, <2>2
<1>3. Inv /\ WaitInv => NoCircle /\ OneRemoves
  BY NoneWaitInCircle DEF WaitInv
<1>4. QED BY <1>1, <1>2, <1>3, PTL DEF Spec
=============================================================================
