----------------------- MODULE WorkerManagerProofs -----------------------
(***************************************************************************)
(* The maps of the WorkerManager stay consistent, for every number of      *)
(* workers, channels and tasks, whatever worker processes do.              *)
(***************************************************************************)
EXTENDS WorkerManager, TLAPS

-----------------------------------------------------------------------------
(* Types of the helpers                                                    *)

(* A command appended to the socket of a worker is a command.              *)
LEMMA SendType ==
  ASSUME TypeOK, NEW w \in Workers, NEW act \in {"start", "stop"}, NEW t \in Tasks, Send(w, act, t)
  PROVE  inbox' \in [Workers -> Seq(Commands)]
<1>1. [act |-> act, task |-> t] \in Commands
  BY DEF Commands
<1>2. Append(inbox[w], [act |-> act, task |-> t]) \in Seq(Commands)
  BY <1>1 DEF TypeOK
<1> QED BY <1>2 DEF TypeOK, Send

(* A message appended to the socket of a worker is a completion message.   *)
LEMMA ReplyType ==
  ASSUME TypeOK, NEW w \in Workers, NEW t \in Tasks,
         NEW out \in {"success", "failed", "unrecoverable"}, Reply(w, t, out)
  PROVE  outbox' \in [Workers -> Seq(Completions)]
<1>1. [task |-> t, out |-> out] \in Completions
  BY DEF Completions
<1>2. Append(outbox[w], [task |-> t, out |-> out]) \in Seq(Completions)
  BY <1>1 DEF TypeOK
<1> QED BY <1>2 DEF TypeOK, Reply

(* removeTaskFromChannel keeps the types of the three maps.                *)
LEMMA RemoveType ==
  ASSUME TypeOK, NEW c \in Channels, NEW t \in Tasks, RemoveTask(c, t)
  PROVE  /\ chWorker' \in [Channels -> Workers \cup {NoWorker}]
         /\ wChannel' \in [Workers -> Channels \cup {NoChannel}]
         /\ chTasks' \in [Channels -> SUBSET Tasks]
BY DEF TypeOK, RemoveTask

(* A listener that moves on, or that is done, is a listener.               *)
LEMMA LisGotoType ==
  ASSUME TypeOK, NEW w \in Workers,
         NEW pc \in {"read", "inspect", "find", "remove", "state", "failRemove"}, LisGoto(w, pc)
  PROVE  lis' \in [Workers -> Lis]
<1> DEFINE l == lis[w]
<1>1. l \in Lis
  BY DEF TypeOK
<1>2. [l EXCEPT !.pc = pc] \in Lis
  <2> HIDE DEF l
  <2> QED BY <1>1 DEF Lis
<1> QED BY <1>2 DEF TypeOK, LisGoto

(* LisDone returns a listener to its read loop and frees its mutex.        *)
LEMMA LisDoneType ==
  ASSUME TypeOK, NEW w \in Workers, LisDone(w)
  PROVE  lis' \in [Workers -> Lis] /\ wmutex' \in [Workers -> {"free", "lis"}]
<1>1. IdleLis \in Lis
  BY DEF IdleLis, Lis
<1> QED BY <1>1 DEF TypeOK, LisDone

(* The mappings findWorkerForChannel leaves have the types of the maps,    *)
(* and it offers workers only.                                             *)
LEMMA LiveType ==
  ASSUME TypeOK, NEW c \in Channels
  PROVE  /\ LiveWorker(c) \in Workers \cup {NoWorker}
         /\ LiveTasks(c) \in SUBSET Tasks
         /\ LiveChannels(c) \in [Workers -> Channels \cup {NoChannel}]
         /\ FreeWorkers(c) \subseteq Workers
<1>1. Dead(c) => chWorker[c] \in Workers
  BY DEF TypeOK, Dead
<1> QED BY <1>1 DEF TypeOK, LiveWorker, LiveTasks, LiveChannels, FreeWorkers

-----------------------------------------------------------------------------
(* Every variable keeps its type.                                          *)
LEMMA TypeStep == ASSUME TypeOK, LockInv, [Next]_vars PROVE TypeOK'
<1> USE WorkerManagerAssumption
<1>1. ASSUME NEW t \in Tasks, StartRefused(t) PROVE TypeOK'
  <2> ChanOf[t] \in Channels
    OBVIOUS
  <2>1. CASE Occupied(t)
    BY <1>1, <2>1 DEF TypeOK, StartRefused, procs, maps
  <2>2. CASE ~Occupied(t)
    <3>1. /\ chWorker' = [chWorker EXCEPT ![ChanOf[t]] = LiveWorker(ChanOf[t])]
          /\ wChannel' = LiveChannels(ChanOf[t])
          /\ chTasks' = [chTasks EXCEPT ![ChanOf[t]] = LiveTasks(ChanOf[t])]
      BY <1>1, <2>2 DEF StartRefused
    <3>2. /\ chWorker' \in [Channels -> Workers \cup {NoWorker}]
          /\ wChannel' \in [Workers -> Channels \cup {NoChannel}]
          /\ chTasks' \in [Channels -> SUBSET Tasks]
      BY <3>1, LiveType DEF TypeOK
    <3> QED BY <1>1, <3>2 DEF TypeOK, StartRefused, procs
  <2> QED BY <2>1, <2>2
<1>2. ASSUME NEW t \in Tasks, StartAssign(t) PROVE TypeOK'
  <2> ChanOf[t] \in Channels
    OBVIOUS
  <2>1. PICK w \in FreeWorkers(ChanOf[t]) :
          /\ chWorker' = [chWorker EXCEPT ![ChanOf[t]] = w]
          /\ wChannel' = [LiveChannels(ChanOf[t]) EXCEPT ![w] = ChanOf[t]]
          /\ sub' = [pc |-> "send", task |-> t, worker |-> w, tries |-> 0]
    BY <1>2 DEF StartAssign
  <2>2. w \in Workers
    BY LiveType
  <2>3. sub' \in Sub
    BY <2>1, <2>2 DEF Sub, MaxRetries
  <2>4. chWorker' \in [Channels -> Workers \cup {NoWorker}]
    BY <2>1, <2>2 DEF TypeOK
  <2>5. wChannel' \in [Workers -> Channels \cup {NoChannel}]
    BY <2>1, <2>2, LiveType DEF TypeOK
  <2> QED BY <1>2, LiveType, <2>3, <2>4, <2>5 DEF TypeOK, StartAssign, procs
<1>3. ASSUME NEW t \in Tasks, StopFind(t) PROVE TypeOK'
  <2>1. sub' \in Sub
    BY <1>3 DEF TypeOK, StopFind, Tracked, Sub, MaxRetries
  <2> QED BY <1>3, <2>1 DEF TypeOK, StopFind, procs, maps
<1>4. CASE StartSend
  <2>1. sub.worker \in Workers /\ sub.task \in Tasks
    BY <1>4 DEF StartSend, LockInv
  <2>2. inbox' \in [Workers -> Seq(Commands)]
    BY <1>4, <2>1, SendType DEF StartSend
  <2>3. sub' \in Sub
    BY <1>4 DEF TypeOK, StartSend, Sub
  <2> QED BY <1>4, <2>2, <2>3 DEF TypeOK, StartSend, maps, reqs
<1>5. CASE StartSendFails
  <2>1. sub' \in Sub
    BY <1>5 DEF TypeOK, StartSendFails, Sub
  <2> QED BY <1>5, <2>1 DEF TypeOK, StartSendFails, procs, maps, reqs
<1>6. CASE StartRecord
  <2>1. sub' \in Sub
    BY <1>6 DEF StartRecord, IdleSub, Sub, MaxRetries
  <2>2. sub.task \in Tasks
    BY <1>6 DEF StartRecord, LockInv
  <2> QED BY <1>6, <2>1, <2>2 DEF TypeOK, StartRecord, procs, maps
<1>7. CASE StopSend
  <2>1. sub.worker \in Workers /\ sub.task \in Tasks
    BY <1>7 DEF StopSend, LockInv
  <2>2. inbox' \in [Workers -> Seq(Commands)]
    BY <1>7, <2>1, SendType DEF StopSend
  <2>3. sub' \in Sub
    BY <1>7 DEF TypeOK, StopSend, Sub
  <2> QED BY <1>7, <2>2, <2>3 DEF TypeOK, StopSend, maps, reqs
<1>8. CASE StopSendFails
  <2>1. sub' \in Sub
    <3>1. CASE sub.tries + 1 < MaxRetries
      <4>1. sub' = [sub EXCEPT !.tries = @ + 1] /\ sub.tries \in 0..3 /\ sub.tries + 1 < 3
        BY <1>8, <3>1 DEF TypeOK, StopSendFails, Sub, MaxRetries
      <4>2. sub.tries + 1 \in 0..3
        BY <4>1
      <4> QED BY <4>1, <4>2 DEF TypeOK, Sub, MaxRetries
    <3>2. CASE ~(sub.tries + 1 < MaxRetries)
      <4>1. sub' = [sub EXCEPT !.pc = "stuck"]
        BY <1>8, <3>2 DEF StopSendFails
      <4> QED BY <4>1 DEF TypeOK, Sub
    <3> QED BY <3>1, <3>2
  <2> QED BY <1>8, <2>1 DEF TypeOK, StopSendFails, procs, maps, reqs
<1>9. CASE StopUntrack
  <2>1. sub' \in Sub
    BY <1>9 DEF StopUntrack, IdleSub, Sub, MaxRetries
  <2>2. sub.task \in Tasks
    BY <1>9 DEF StopUntrack, LockInv
  <2> QED BY <1>9, <2>1, <2>2, RemoveType DEF TypeOK, StopUntrack, procs, reqs
<1>10. ASSUME NEW w \in Workers, LisRead(w) PROVE TypeOK'
  <2>1. Head(outbox[w]) \in Completions /\ Tail(outbox[w]) \in Seq(Completions)
    BY <1>10 DEF TypeOK, LisRead
  <2>2. [pc |-> IF Head(outbox[w]).out = "unrecoverable" THEN "inspect" ELSE "find",
         task |-> Head(outbox[w]).task] \in Lis
    BY <2>1 DEF Completions, Lis
  <2> QED BY <1>10, <2>1, <2>2 DEF TypeOK, LisRead, maps, reqs
<1>11. ASSUME NEW w \in Workers, LisFind(w) PROVE TypeOK'
  BY <1>11, LisGotoType DEF TypeOK, LisFind, procs, maps, reqs
<1>12. ASSUME NEW w \in Workers, LisRemove(w) PROVE TypeOK'
  <2>1. lis[w].task \in Tasks
    BY <1>12 DEF LisRemove, LisStep, LockInv
  <2> QED BY <1>12, <2>1, LisGotoType, RemoveType DEF TypeOK, LisRemove, procs, reqs
<1>13. ASSUME NEW w \in Workers, LisState(w) PROVE TypeOK'
  BY <1>13, LisDoneType DEF TypeOK, LisState, procs, maps, reqs
<1>14. ASSUME NEW w \in Workers, FailLookupError(w) PROVE TypeOK'
  BY <1>14, LisGotoType DEF TypeOK, FailLookupError, procs, maps, reqs
<1>15. ASSUME NEW w \in Workers, FailUnassigned(w) PROVE TypeOK'
  BY <1>15, LisDoneType DEF TypeOK, FailUnassigned, procs, maps, reqs
<1>16. ASSUME NEW w \in Workers, FailSendStop(w) PROVE TypeOK'
  <2>1. lis[w].task \in Tasks
    BY <1>16 DEF FailSendStop, LisStep, LockInv
  <2>2. inbox' \in [Workers -> Seq(Commands)]
    BY <1>16, <2>1, SendType DEF TypeOK, FailSendStop
  <2> QED BY <1>16, <2>2, LisGotoType DEF TypeOK, FailSendStop, maps, reqs
<1>17. ASSUME NEW w \in Workers, FailRemove(w) PROVE TypeOK'
  <2>1. lis[w].task \in Tasks
    BY <1>17 DEF FailRemove, LisStep, LockInv
  <2> QED BY <1>17, <2>1, LisDoneType, RemoveType DEF TypeOK, FailRemove, procs, reqs
<1>18. ASSUME NEW w \in Workers, MonitorStart(w) PROVE TypeOK'
  <2>1. process' \in [Workers -> {"none", "up", "dead"}]
    BY <1>18 DEF TypeOK, MonitorStart
  <2>2. wstate' \in [Workers -> {"IDLE", "RUNNING", "NOT_AVAILABLE"}]
    BY <1>18 DEF TypeOK, MonitorStart
  <2>3. restarts' \in [Workers -> Nat]
    BY <1>18 DEF TypeOK, MonitorStart
  <2> QED BY <1>18, <2>1, <2>2, <2>3 DEF TypeOK, MonitorStart, maps, reqs
<1>19. ASSUME NEW w \in Workers, WorkerStart(w) PROVE TypeOK'
  <2>1. Head(inbox[w]) \in Commands /\ Tail(inbox[w]) \in Seq(Commands)
    BY <1>19 DEF TypeOK, WorkerStart, Command
  <2>2. Head(inbox[w]).task \in Tasks
    BY <2>1 DEF Commands
  <2>3. outbox' \in [Workers -> Seq(Completions)]
    BY <1>19, <2>2, ReplyType DEF TypeOK, WorkerStart
  <2>4. exec' \in [Workers -> SUBSET Tasks]
    BY <1>19, <2>2 DEF TypeOK, WorkerStart
  <2> QED BY <1>19, <2>1, <2>3, <2>4 DEF TypeOK, WorkerStart, Take, maps, reqs
<1>20. ASSUME NEW w \in Workers, WorkerStop(w) PROVE TypeOK'
  <2>1. Head(inbox[w]) \in Commands /\ Tail(inbox[w]) \in Seq(Commands)
    BY <1>20 DEF TypeOK, WorkerStop, Command
  <2>2. Head(inbox[w]).task \in Tasks
    BY <2>1 DEF Commands
  <2>3. outbox' \in [Workers -> Seq(Completions)]
    BY <1>20, <2>2, ReplyType DEF TypeOK, WorkerStop
  <2> QED BY <1>20, <2>1, <2>3 DEF TypeOK, WorkerStop, Take, maps, reqs
<1>21. ASSUME NEW w \in Workers, NEW t \in Tasks, WorkerEnd(w, t) PROVE TypeOK'
  <2>0. PICK out \in Endings : Reply(w, t, out)
    BY <1>21 DEF WorkerEnd
  <2>1. outbox' \in [Workers -> Seq(Completions)]
    BY <2>0, ReplyType
  <2> QED BY <1>21, <2>1 DEF TypeOK, WorkerEnd, maps, reqs
<1>22. ASSUME NEW w \in Workers, WorkerDies(w) PROVE TypeOK'
  BY <1>22 DEF TypeOK, WorkerDies, maps, reqs
<1>23. CASE UNCHANGED vars
  BY <1>23 DEF TypeOK, vars, procs, maps, reqs
<1> QED
  BY <1>1, <1>2, <1>3, <1>4, <1>5, <1>6, <1>7, <1>8, <1>9, <1>10, <1>11, <1>12, <1>13, <1>14,
     <1>15, <1>16, <1>17, <1>18, <1>19, <1>20, <1>21, <1>22, <1>23
  DEF Next, SubNext, LisNext, WorkerNext

-----------------------------------------------------------------------------
(* wm.Mutex is with the subscriber exactly between the choice of a worker  *)
(* and the end of the start, and a goroutine at work has a task.           *)
LEMMA LockStep == ASSUME TypeOK, LockInv, [Next]_vars PROVE LockInv'
<1> USE WorkerManagerAssumption
<1>1. ASSUME NEW t \in Tasks, StartRefused(t) PROVE LockInv'
  BY <1>1 DEF LockInv, StartRefused
<1>2. ASSUME NEW t \in Tasks, StartAssign(t) PROVE LockInv'
  <2> ChanOf[t] \in Channels
    OBVIOUS
  <2>1. PICK w \in FreeWorkers(ChanOf[t]) :
          sub' = [pc |-> "send", task |-> t, worker |-> w, tries |-> 0]
    BY <1>2 DEF StartAssign
  <2>2. w \in Workers
    BY LiveType
  <2> QED BY <1>2, <2>1, <2>2 DEF LockInv, StartAssign
<1>3. ASSUME NEW t \in Tasks, StopFind(t) PROVE LockInv'
  <2>1. CASE Tracked(t)
    <3>1. chWorker[ChanOf[t]] \in Workers
      BY <2>1 DEF Tracked, TypeOK
    <3> QED BY <1>3, <2>1, <3>1 DEF LockInv, StopFind
  <2>2. CASE ~Tracked(t)
    BY <1>3, <2>2 DEF LockInv, StopFind
  <2> QED BY <2>1, <2>2
<1>4. CASE StartSend
  BY <1>4 DEF TypeOK, LockInv, StartSend, Sub
<1>5. CASE StartSendFails
  BY <1>5 DEF TypeOK, LockInv, StartSendFails, Sub
<1>6. CASE StartRecord
  BY <1>6 DEF LockInv, StartRecord, IdleSub
<1>7. CASE StopSend
  BY <1>7 DEF TypeOK, LockInv, StopSend, Sub
<1>8. CASE StopSendFails
  <2>1. CASE sub.tries + 1 < MaxRetries
    <3>1. sub' = [sub EXCEPT !.tries = @ + 1] /\ UNCHANGED <<mutex, lis>>
      BY <1>8, <2>1 DEF StopSendFails
    <3> QED BY <3>1 DEF TypeOK, LockInv, Sub
  <2>2. CASE ~(sub.tries + 1 < MaxRetries)
    <3>1. sub' = [sub EXCEPT !.pc = "stuck"] /\ mutex' = "sub" /\ UNCHANGED lis /\ sub.pc = "stop"
      BY <1>8, <2>2 DEF StopSendFails
    <3> QED BY <3>1 DEF TypeOK, LockInv, Sub
  <2> QED BY <2>1, <2>2
<1>9. CASE StopUntrack
  BY <1>9 DEF LockInv, StopUntrack, IdleSub
<1>10. ASSUME NEW w \in Workers, LisRead(w) PROVE LockInv'
  <2>1. Head(outbox[w]) \in Completions
    BY <1>10 DEF TypeOK, LisRead
  <2>2. Head(outbox[w]).task \in Tasks
    BY <2>1 DEF Completions
  <2> QED BY <1>10, <2>2 DEF TypeOK, LockInv, LisRead
<1>11. ASSUME NEW w \in Workers, LisFind(w) PROVE LockInv'
  BY <1>11 DEF TypeOK, Lis, LockInv, LisFind, LisStep, LisGoto
<1>12. ASSUME NEW w \in Workers, LisRemove(w) PROVE LockInv'
  BY <1>12 DEF TypeOK, Lis, LockInv, LisRemove, LisStep, LisGoto
<1>13. ASSUME NEW w \in Workers, LisState(w) PROVE LockInv'
  BY <1>13 DEF TypeOK, LockInv, LisState, LisDone, IdleLis
<1>14. ASSUME NEW w \in Workers, FailLookupError(w) PROVE LockInv'
  BY <1>14 DEF TypeOK, Lis, LockInv, FailLookupError, LisStep, LisGoto
<1>15. ASSUME NEW w \in Workers, FailUnassigned(w) PROVE LockInv'
  BY <1>15 DEF TypeOK, LockInv, FailUnassigned, LisDone, IdleLis
<1>16. ASSUME NEW w \in Workers, FailSendStop(w) PROVE LockInv'
  BY <1>16 DEF TypeOK, Lis, LockInv, FailSendStop, LisStep, LisGoto
<1>17. ASSUME NEW w \in Workers, FailRemove(w) PROVE LockInv'
  BY <1>17 DEF TypeOK, LockInv, FailRemove, LisDone, IdleLis
<1>18. ASSUME NEW w \in Workers, MonitorStart(w) PROVE LockInv'
  BY <1>18 DEF LockInv, MonitorStart
<1>19. ASSUME NEW w \in Workers, WorkerStart(w) \/ WorkerStop(w) PROVE LockInv'
  BY <1>19 DEF LockInv, WorkerStart, WorkerStop
<1>20. ASSUME NEW w \in Workers, NEW t \in Tasks, WorkerEnd(w, t) PROVE LockInv'
  BY <1>20 DEF LockInv, WorkerEnd
<1>21. ASSUME NEW w \in Workers, WorkerDies(w) PROVE LockInv'
  BY <1>21 DEF LockInv, WorkerDies
<1>22. CASE UNCHANGED vars
  BY <1>22 DEF LockInv, vars
<1> QED
  BY <1>1, <1>2, <1>3, <1>4, <1>5, <1>6, <1>7, <1>8, <1>9, <1>10, <1>11, <1>12, <1>13, <1>14,
     <1>15, <1>16, <1>17, <1>18, <1>19, <1>20, <1>21, <1>22
  DEF Next, SubNext, LisNext, WorkerNext

-----------------------------------------------------------------------------
(* With consistent maps no channel has a worker that is not available: the *)
(* branch of findWorkerForChannel that cleans up after a dead worker is    *)
(* never taken, and the worker of a channel is the only candidate.         *)
LEMMA NeverDead ==
  ASSUME IndInv, NEW c \in Channels
  PROVE  ~Dead(c) /\ LiveWorker(c) = chWorker[c] /\ LiveTasks(c) = chTasks[c] /\ LiveChannels(c) = wChannel
<1>1. ~Dead(c)
  <2> SUFFICES ASSUME Dead(c) PROVE FALSE
    OBVIOUS
  <2>1. chWorker[c] \in Workers /\ wstate[chWorker[c]] = "NOT_AVAILABLE"
    BY DEF Dead, IndInv, TypeOK
  <2>2. wChannel[chWorker[c]] = c
    BY <2>1 DEF IndInv, MapInv, MapsAgree
  <2> QED BY <2>1, <2>2, WorkerManagerAssumption DEF IndInv, ProcessInv
<1> QED BY <1>1 DEF LiveWorker, LiveTasks, LiveChannels

(* A worker offered to a start has a process; it has the channel of the    *)
(* task, or it is idle and has none.                                       *)
LEMMA OfferedWorker ==
  ASSUME IndInv, sub.pc = "idle", NEW c \in Channels, NEW w \in FreeWorkers(c)
  PROVE  /\ w \in Workers /\ wstate[w] # "NOT_AVAILABLE"
         /\ \/ chWorker[c] = w
            \/ chWorker[c] = NoWorker /\ wChannel[w] = NoChannel
<1>1. CASE chWorker[c] # NoWorker
  BY <1>1, NeverDead DEF FreeWorkers, IndInv, TypeOK, Dead
<1>2. CASE chWorker[c] = NoWorker
  BY <1>2, NeverDead DEF FreeWorkers, IndInv, MapInv, IdleIsFree
<1> QED BY <1>1, <1>2

-----------------------------------------------------------------------------
(* A worker has no process exactly when it is not available, and then it   *)
(* has no channel and no listener.                                         *)
LEMMA ProcessStep == ASSUME IndInv, [Next]_vars PROVE ProcessInv'
<1> USE WorkerManagerAssumption
<1> TypeOK /\ LockInv /\ ProcessInv
  BY DEF IndInv
<1>1. ASSUME NEW t \in Tasks, StartRefused(t) PROVE ProcessInv'
  <2> ChanOf[t] \in Channels
    OBVIOUS
  <2> QED BY <1>1, NeverDead DEF ProcessInv, StartRefused, procs, maps
<1>2. ASSUME NEW t \in Tasks, StartAssign(t) PROVE ProcessInv'
  <2> ChanOf[t] \in Channels
    OBVIOUS
  <2>1. PICK w \in FreeWorkers(ChanOf[t]) : wChannel' = [wChannel EXCEPT ![w] = ChanOf[t]]
    BY <1>2, NeverDead DEF StartAssign
  <2>2. w \in Workers /\ wstate[w] # "NOT_AVAILABLE"
    BY <1>2, OfferedWorker DEF StartAssign
  <2> QED BY <1>2, <2>1, <2>2 DEF TypeOK, ProcessInv, StartAssign, procs
<1>3. ASSUME NEW t \in Tasks, StopFind(t) PROVE ProcessInv'
  BY <1>3 DEF ProcessInv, StopFind, procs, maps
<1>4. CASE StartSend
  <2>1. sub.worker \in Workers
    BY <1>4 DEF StartSend, LockInv
  <2> QED BY <1>4, <2>1 DEF TypeOK, ProcessInv, StartSend, maps
<1>5. CASE StartSendFails \/ StartRecord \/ StopSendFails
  BY <1>5 DEF ProcessInv, StartSendFails, StartRecord, StopSendFails, procs, maps
<1>6. CASE StopSend
  BY <1>6 DEF ProcessInv, StopSend, maps
<1>7. CASE StopUntrack
  BY <1>7 DEF TypeOK, ProcessInv, StopUntrack, RemoveTask, procs
<1>8. ASSUME NEW w \in Workers, LisRead(w) PROVE ProcessInv'
  BY <1>8 DEF TypeOK, ProcessInv, LisRead, maps
<1>9. ASSUME NEW w \in Workers, LisFind(w) \/ FailLookupError(w) PROVE ProcessInv'
  BY <1>9 DEF TypeOK, ProcessInv, LisFind, FailLookupError, LisStep, LisGoto, procs, maps
<1>10. ASSUME NEW w \in Workers, LisRemove(w) PROVE ProcessInv'
  BY <1>10 DEF TypeOK, ProcessInv, LisRemove, LisStep, LisGoto, RemoveTask, procs
<1>11. ASSUME NEW w \in Workers, LisState(w) PROVE ProcessInv'
  BY <1>11 DEF TypeOK, ProcessInv, LisState, LisStep, LisDone, IdleLis, procs, maps
<1>12. ASSUME NEW w \in Workers, FailUnassigned(w) PROVE ProcessInv'
  BY <1>12 DEF TypeOK, ProcessInv, FailUnassigned, LisDone, IdleLis, procs, maps
<1>13. ASSUME NEW w \in Workers, FailSendStop(w) PROVE ProcessInv'
  BY <1>13 DEF TypeOK, ProcessInv, FailSendStop, LisStep, LisGoto, maps
<1>14. ASSUME NEW w \in Workers, FailRemove(w) PROVE ProcessInv'
  BY <1>14 DEF TypeOK, ProcessInv, FailRemove, LisDone, IdleLis, RemoveTask, procs
<1>15. ASSUME NEW w \in Workers, MonitorStart(w) PROVE ProcessInv'
  <2>1. UNCHANGED <<wChannel, lis, outbox>> /\ process[w] = "none"
    BY <1>15 DEF MonitorStart, maps
  <2>2. CASE process' = [process EXCEPT ![w] = "up"] /\ wstate' = [wstate EXCEPT ![w] = "IDLE"]
    BY <2>1, <2>2 DEF TypeOK, ProcessInv
  <2>3. CASE process' = process /\ wstate' = [wstate EXCEPT ![w] = "NOT_AVAILABLE"]
    BY <2>1, <2>3 DEF TypeOK, ProcessInv
  <2> QED BY <1>15, <2>2, <2>3 DEF MonitorStart
<1>16. ASSUME NEW w \in Workers, WorkerStart(w) PROVE ProcessInv'
  BY <1>16 DEF TypeOK, ProcessInv, WorkerStart, Command, Reply, maps
<1>17. ASSUME NEW w \in Workers, WorkerStop(w) PROVE ProcessInv'
  BY <1>17 DEF TypeOK, ProcessInv, WorkerStop, Command, Reply, maps
<1>18. ASSUME NEW w \in Workers, NEW t \in Tasks, WorkerEnd(w, t) PROVE ProcessInv'
  BY <1>18 DEF TypeOK, ProcessInv, WorkerEnd, Reply, maps
<1>19. ASSUME NEW w \in Workers, WorkerDies(w) PROVE ProcessInv'
  BY <1>19 DEF TypeOK, ProcessInv, WorkerDies, maps
<1>20. CASE UNCHANGED vars
  BY <1>20 DEF ProcessInv, vars, procs, maps
<1> QED
  BY <1>1, <1>2, <1>3, <1>4, <1>5, <1>6, <1>7, <1>8, <1>9, <1>10, <1>11, <1>12, <1>13, <1>14,
     <1>15, <1>16, <1>17, <1>18, <1>19, <1>20
  DEF Next, SubNext, LisNext, WorkerNext

-----------------------------------------------------------------------------
(* removeTaskFromChannel keeps the maps consistent, and takes a channel    *)
(* from at most the worker it had.                                         *)
LEMMA RemoveKeepsMaps ==
  ASSUME IndInv, NEW c \in Channels, NEW t \in Tasks, RemoveTask(c, t)
  PROVE  /\ MapsAgree' /\ OnePerCommand'
         /\ \A w \in Workers : wChannel'[w] = wChannel[w] \/ wChannel'[w] = NoChannel
<1> USE WorkerManagerAssumption DEF IndInv, TypeOK, MapInv
<1>1. CASE chTasks[c] = {t}
  <2>1. /\ chTasks' = [chTasks EXCEPT ![c] = {}]
        /\ chWorker' = [chWorker EXCEPT ![c] = NoWorker]
        /\ wChannel' = [w \in Workers |-> IF wChannel[w] = c THEN NoChannel ELSE wChannel[w]]
    BY <1>1 DEF RemoveTask
  <2>2. MapsAgree'
    BY <2>1 DEF MapsAgree
  <2>3. OnePerCommand'
    BY <2>1 DEF OnePerCommand
  <2> QED BY <2>1, <2>2, <2>3
<1>2. CASE chTasks[c] # {t}
  <2>1. /\ chTasks' = [chTasks EXCEPT ![c] = @ \ {t}]
        /\ chWorker' = chWorker /\ wChannel' = wChannel
    BY <1>2 DEF RemoveTask
  <2>2. (chTasks[c] \ {t} = {}) <=> (chTasks[c] = {})
    BY <1>2
  <2>3. MapsAgree'
    BY <2>1, <2>2 DEF MapsAgree
  <2>4. OnePerCommand'
    BY <2>1 DEF OnePerCommand
  <2> QED BY <2>1, <2>3, <2>4
<1> QED BY <1>1, <1>2

(* A start gives the task to the worker of its channel, or gives an idle   *)
(* worker without a channel to a channel without a worker.                 *)
LEMMA AssignKeepsMaps ==
  ASSUME IndInv, NEW t \in Tasks, StartAssign(t) PROVE MapInv'
<1> USE WorkerManagerAssumption
<1> DEFINE c == ChanOf[t]
<1> c \in Channels
  OBVIOUS
<1>1. PICK w \in FreeWorkers(c) :
        /\ chWorker' = [chWorker EXCEPT ![c] = w]
        /\ wChannel' = [wChannel EXCEPT ![w] = c]
        /\ sub' = [pc |-> "send", task |-> t, worker |-> w, tries |-> 0]
  BY NeverDead DEF StartAssign
<1>2. /\ w \in Workers
      /\ chWorker[c] = w \/ (chWorker[c] = NoWorker /\ wChannel[w] = NoChannel)
  BY OfferedWorker DEF StartAssign
<1>3. chTasks' = [chTasks EXCEPT ![c] = @ \cup {t}]
  BY NeverDead DEF StartAssign
<1>4. wstate' = wstate /\ sub.pc = "idle" /\ ~Occupied(t)
  BY DEF StartAssign
<1> HIDE DEF c
<1>5. MapsAgree'
  <2>1. ASSUME NEW d \in Channels, NEW v \in Workers PROVE chWorker'[d] = v <=> wChannel'[v] = d
    BY <1>1, <1>2 DEF IndInv, TypeOK, MapInv, MapsAgree
  <2>2. ASSUME NEW d \in Channels PROVE chWorker'[d] # NoWorker <=> chTasks'[d] # {}
    <3>1. CASE d = c
      <4>1. chWorker'[d] = w /\ w # NoWorker
        BY <1>1, <1>2, <3>1 DEF IndInv, TypeOK
      <4>2. t \in chTasks'[d]
        BY <1>3, <3>1 DEF IndInv, TypeOK
      <4> QED BY <4>1, <4>2
    <3>2. CASE d # c
      <4>1. chWorker'[d] = chWorker[d] /\ chTasks'[d] = chTasks[d]
        BY <1>1, <1>3, <3>2 DEF IndInv, TypeOK
      <4> QED BY <4>1 DEF IndInv, MapInv, MapsAgree
    <3> QED BY <3>1, <3>2
  <2> QED BY <2>1, <2>2 DEF MapsAgree
<1>6. IdleIsFree'
  BY <1>1, <1>2, <1>4 DEF IndInv, TypeOK, MapInv, IdleIsFree
<1>7. OnePerCommand'
  BY <1>3, <1>4 DEF IndInv, TypeOK, MapInv, OnePerCommand, Occupied, c
<1> QED BY <1>5, <1>6, <1>7 DEF MapInv

(* A step that leaves the maps, the subscriber and the states of the       *)
(* workers alone keeps what is said of them.                               *)
LEMMA MapFrame == ASSUME MapInv, UNCHANGED <<maps, wstate, sub>> PROVE MapInv'
BY DEF MapInv, MapsAgree, IdleIsFree, OnePerCommand, maps

(* Every step of every goroutine keeps the maps consistent.                *)
LEMMA MapStep == ASSUME IndInv, [Next]_vars PROVE MapInv'
<1> USE WorkerManagerAssumption
<1> TypeOK /\ LockInv /\ ProcessInv /\ MapInv
  BY DEF IndInv
<1>1. ASSUME NEW t \in Tasks, StartRefused(t) PROVE MapInv'
  <2> ChanOf[t] \in Channels
    OBVIOUS
  <2>1. UNCHANGED maps
    BY <1>1, NeverDead DEF StartRefused, maps, TypeOK
  <2> QED BY <1>1, <2>1, MapFrame DEF StartRefused
<1>2. ASSUME NEW t \in Tasks, StartAssign(t) PROVE MapInv'
  BY <1>2, AssignKeepsMaps
<1>3. ASSUME NEW t \in Tasks, StopFind(t) PROVE MapInv'
  BY <1>3 DEF StopFind, MapInv, MapsAgree, IdleIsFree, OnePerCommand, maps
<1>4. CASE StartSend
  <2>1. sub.worker \in Workers
    BY <1>4 DEF StartSend, LockInv
  <2> QED BY <1>4, <2>1 DEF TypeOK, StartSend, MapInv, MapsAgree, IdleIsFree, OnePerCommand, maps
<1>5. CASE StartSendFails
  BY <1>5 DEF TypeOK, Sub, StartSendFails, MapInv, MapsAgree, IdleIsFree, OnePerCommand, maps
<1>6. CASE StartRecord
  BY <1>6 DEF StartRecord, MapInv, MapsAgree, IdleIsFree, OnePerCommand, maps
<1>7. CASE StopSend
  BY <1>7 DEF StopSend, MapInv, MapsAgree, IdleIsFree, OnePerCommand, maps
<1>8. CASE StopSendFails
  BY <1>8 DEF StopSendFails, MapInv, MapsAgree, IdleIsFree, OnePerCommand, maps
<1>9. CASE StopUntrack
  <2>1. sub.task \in Tasks /\ ChanOf[sub.task] \in Channels
    BY <1>9 DEF StopUntrack, LockInv
  <2>2. /\ MapsAgree' /\ OnePerCommand'
        /\ \A w \in Workers : wChannel'[w] = wChannel[w] \/ wChannel'[w] = NoChannel
    BY <1>9, <2>1, RemoveKeepsMaps DEF StopUntrack
  <2> QED BY <1>9, <2>2 DEF StopUntrack, MapInv, IdleIsFree
<1>10. ASSUME NEW w \in Workers, LisRead(w) PROVE MapInv'
  BY <1>10, MapFrame DEF LisRead
<1>11. ASSUME NEW w \in Workers, LisFind(w) \/ FailLookupError(w) \/ FailUnassigned(w) \/ FailSendStop(w)
       PROVE  MapInv'
  BY <1>11, MapFrame DEF LisFind, FailLookupError, FailUnassigned, FailSendStop
<1>12. ASSUME NEW w \in Workers, LisRemove(w) \/ FailRemove(w) PROVE MapInv'
  <2>1. lis[w].task \in Tasks /\ ChanOf[lis[w].task] \in Channels
    BY <1>12 DEF LisRemove, FailRemove, LisStep, LockInv
  <2>2. /\ MapsAgree' /\ OnePerCommand'
        /\ \A v \in Workers : wChannel'[v] = wChannel[v] \/ wChannel'[v] = NoChannel
    BY <1>12, <2>1, RemoveKeepsMaps DEF LisRemove, FailRemove
  <2>3. UNCHANGED <<wstate, sub>>
    BY <1>12 DEF LisRemove, FailRemove
  <2> QED BY <2>2, <2>3 DEF MapInv, IdleIsFree
<1>13. ASSUME NEW w \in Workers, LisState(w) PROVE MapInv'
  <2>1. wChannel[w] # NoChannel => Remaining(w) # {}
    <3> SUFFICES ASSUME wChannel[w] # NoChannel PROVE chTasks[wChannel[w]] # {}
      BY DEF Remaining
    <3>1. wChannel[w] \in Channels
      BY DEF TypeOK
    <3> QED BY <3>1 DEF MapInv, MapsAgree
  <2>2. UNCHANGED <<maps, sub>>
    BY <1>13 DEF LisState
  <2>3. wstate' = [wstate EXCEPT ![w] = IF Remaining(w) # {} THEN "RUNNING" ELSE "IDLE"]
    BY <1>13 DEF LisState
  <2> QED BY <2>1, <2>2, <2>3 DEF TypeOK, MapInv, MapsAgree, IdleIsFree, OnePerCommand, maps
<1>14. ASSUME NEW w \in Workers, MonitorStart(w) PROVE MapInv'
  <2>1. wChannel[w] = NoChannel
    BY <1>14 DEF MonitorStart, ProcessInv
  <2>2. ASSUME NEW v \in Workers, v # w PROVE wstate'[v] = wstate[v]
    BY <1>14, <2>2 DEF MonitorStart, TypeOK
  <2> QED BY <1>14, <2>1, <2>2 DEF MonitorStart, MapInv, MapsAgree, IdleIsFree, OnePerCommand, maps
<1>15. ASSUME NEW w \in Workers, WorkerStart(w) \/ WorkerStop(w) \/ WorkerDies(w) PROVE MapInv'
  BY <1>15, MapFrame DEF WorkerStart, WorkerStop, WorkerDies
<1>16. ASSUME NEW w \in Workers, NEW t \in Tasks, WorkerEnd(w, t) PROVE MapInv'
  BY <1>16, MapFrame DEF WorkerEnd
<1>17. CASE UNCHANGED vars
  BY <1>17, MapFrame DEF vars
<1> QED
  BY <1>1, <1>2, <1>3, <1>4, <1>5, <1>6, <1>7, <1>8, <1>9, <1>10, <1>11, <1>12, <1>13, <1>14,
     <1>15, <1>16, <1>17
  DEF Next, SubNext, LisNext, WorkerNext

-----------------------------------------------------------------------------
(* The inductive invariant holds from the start of the manager on.         *)
LEMMA IndInvInit == Init => IndInv
<1> SUFFICES ASSUME Init PROVE IndInv
  OBVIOUS
<1> USE WorkerManagerAssumption
<1>1. IdleSub \in Sub /\ IdleLis \in Lis
  BY DEF IdleSub, IdleLis, Sub, Lis, MaxRetries
<1>2. TypeOK
  BY <1>1 DEF Init, TypeOK
<1>3. LockInv
  BY DEF Init, LockInv, IdleSub, IdleLis
<1>4. ProcessInv
  BY DEF Init, ProcessInv, IdleLis
<1>5. MapInv
  BY DEF Init, MapInv, MapsAgree, IdleIsFree, OnePerCommand
<1> QED BY <1>2, <1>3, <1>4, <1>5 DEF IndInv

(* The inductive invariant holds in every reachable state of a manager,    *)
(* whatever its workers, channels and tasks: it rests on wm.Mutex staying  *)
(* with the subscriber while it hands a task to a worker.                  *)
THEOREM IndInvHolds == Spec => []IndInv
<1>1. IndInv /\ [Next]_vars => IndInv'
  <2> SUFFICES ASSUME IndInv, [Next]_vars PROVE IndInv'
    OBVIOUS
  <2>1. TypeOK' /\ LockInv'
    BY TypeStep, LockStep DEF IndInv
  <2> QED BY <2>1, ProcessStep, MapStep DEF IndInv
<1> QED BY IndInvInit, <1>1, PTL DEF Spec

(* Every variable of the manager keeps its type.                           *)
THEOREM TypeCorrect == Spec => []TypeOK
<1>1. IndInv => TypeOK
  BY DEF IndInv
<1> QED BY IndInvHolds, <1>1, PTL

(* ChannelWorkers, WorkerChannels and ChannelTasks always agree.           *)
THEOREM MapsAlwaysAgree == Spec => []MapsAgree
<1>1. IndInv => MapsAgree
  BY DEF IndInv, MapInv
<1> QED BY IndInvHolds, <1>1, PTL

(* findFreeWorker never offers a worker that has a channel.                *)
THEOREM IdleAlwaysFree == Spec => []IdleIsFree
<1>1. IndInv => IdleIsFree
  BY DEF IndInv, MapInv
<1> QED BY IndInvHolds, <1>1, PTL

(* The concurrency guard admits one task per command on a channel.         *)
THEOREM AlwaysOnePerCommand == Spec => []OnePerCommand
<1>1. IndInv => OnePerCommand
  BY DEF IndInv, MapInv
<1> QED BY IndInvHolds, <1>1, PTL
-----------------------------------------------------------------------------
(* What workers execute.  A task was started at position i of worker w     *)
(* when the worker executes it (0) or its start command is the i-th one on *)
(* the socket; the stops behind it are those of later positions.           *)
Started(w, i, t) ==
  \/ i = 0 /\ t \in exec[w]
  \/ i \in 1..Len(inbox[w]) /\ inbox[w][i].act = "start" /\ inbox[w][i].task = t

StopAt(w, j, t) == j \in 1..Len(inbox[w]) /\ inbox[w][j].act = "stop" /\ inbox[w][j].task = t

StopAfter(w, i, t) == \E j \in Nat : i < j /\ StopAt(w, j, t)

StopBetween(w, k, i, t) == \E j \in Nat : k < j /\ j < i /\ StopAt(w, j, t)

(* A task that no worker was told of, and one a worker has answered for.   *)
Unsent(t) == t \in todo \/ (sub.pc = "send" /\ sub.task = t)

Answered(w, t) ==
  \/ lis[w].pc # "read" /\ lis[w].task = t
  \/ \E i \in 1..Len(outbox[w]) : outbox[w][i].task = t

Done(t) == \E w \in Workers : Answered(w, t)

OnWorker(w, t) == t \in chTasks[ChanOf[t]] /\ chWorker[ChanOf[t]] = w

(* What was started is in the maps, or a stop comes after it.              *)
TrackInv ==
  \A w \in Workers, t \in Tasks, i \in Nat :
    Started(w, i, t) => OnWorker(w, t) \/ StopAfter(w, i, t)

(* Before a start of another channel comes the stop of what was started.   *)
ChannelInv ==
  \A w \in Workers, t, u \in Tasks, i, k \in Nat :
    Started(w, i, t) /\ Started(w, k, u) /\ k < i /\ ChanOf[t] # ChanOf[u] => StopBetween(w, k, i, u)

(* A task is started at one place, after it was sent and before an answer. *)
OnceInv ==
  /\ \A v, w \in Workers, t \in Tasks, i, k \in Nat :
       Started(v, i, t) /\ Started(w, k, t) => v = w /\ i = k
  /\ \A w \in Workers, t \in Tasks, i \in Nat : Started(w, i, t) => ~Unsent(t) /\ ~Done(t)
  /\ \A t \in Tasks : Unsent(t) => ~Done(t)
  /\ sub.pc = "send" => sub.task \notin todo

(* The task being handed over is in the maps; the channel of a task being  *)
(* stopped moves to no other worker; and once the stop was sent nothing    *)
(* that was started of the task is without a stop.                         *)
SubInv ==
  /\ sub.pc = "send" => OnWorker(sub.worker, sub.task)
  /\ sub.pc = "stop" => chWorker[ChanOf[sub.task]] \in {sub.worker, NoWorker}
  /\ sub.pc = "untrack" =>
       \A w \in Workers, i \in Nat : Started(w, i, sub.task) => StopAfter(w, i, sub.task)

ExecInv == TrackInv /\ ChannelInv /\ OneChannelPerWorker /\ OnceInv /\ SubInv

-----------------------------------------------------------------------------
(* The commands on a socket                                                *)

(* A stop sent to a worker stands after everything that was started there. *)
LEMMA SendStopEffect ==
  ASSUME TypeOK, NEW w \in Workers, NEW t \in Tasks, Send(w, "stop", t), UNCHANGED exec
  PROVE  /\ \A v \in Workers, u \in Tasks, i \in Nat :
              /\ Started(v, i, u)' <=> Started(v, i, u)
              /\ StopAfter(v, i, u) => StopAfter(v, i, u)'
              /\ \A k \in Nat : StopBetween(v, k, i, u) => StopBetween(v, k, i, u)'
         /\ \A i \in Nat : Started(w, i, t) => StopAfter(w, i, t)'
<1> DEFINE s == inbox[w]
           r == Append(s, [act |-> "stop", task |-> t])
<1>1. s \in Seq(Commands)
  BY DEF TypeOK
<1>2. /\ Len(s) \in Nat /\ Len(r) = Len(s) + 1
      /\ \A j \in 1..Len(s) : r[j] = s[j]
      /\ r[Len(s) + 1].act = "stop" /\ r[Len(s) + 1].task = t
  BY <1>1
<1>3. inbox'[w] = r /\ \A v \in Workers : v # w => inbox'[v] = inbox[v]
  BY DEF TypeOK, Send
<1>4. ASSUME NEW v \in Workers, NEW u \in Tasks, NEW j \in Nat, StopAt(v, j, u) PROVE StopAt(v, j, u)'
  <2> HIDE DEF r
  <2> QED BY <1>2, <1>3, <1>4 DEF StopAt
<1>5. ASSUME NEW v \in Workers, NEW u \in Tasks, NEW i \in Nat PROVE Started(v, i, u)' <=> Started(v, i, u)
  <2> HIDE DEF r
  <2>1. Started(v, i, u) => Started(v, i, u)'
    BY <1>2, <1>3 DEF Started
  <2>2. Started(v, i, u)' => Started(v, i, u)
    <3>1. CASE v = w
      BY <1>2, <1>3, <3>1 DEF Started
    <3>2. CASE v # w
      BY <1>3, <3>2 DEF Started
    <3> QED BY <3>1, <3>2
  <2> QED BY <2>1, <2>2
<1>6. PICK n \in Nat : n = Len(s) + 1
  BY <1>2
<1>7. ASSUME NEW i \in Nat, Started(w, i, t) PROVE StopAfter(w, i, t)'
  <2>1. i < n
    BY <1>2, <1>6, <1>7 DEF Started
  <2>2. StopAt(w, n, t)'
    <3> HIDE DEF r
    <3> QED BY <1>2, <1>3, <1>6 DEF StopAt
  <2> QED BY <2>1, <2>2 DEF StopAfter
<1>8. ASSUME NEW v \in Workers, NEW u \in Tasks, NEW i \in Nat, StopAfter(v, i, u) PROVE StopAfter(v, i, u)'
  BY <1>4, <1>8 DEF StopAfter
<1>9. ASSUME NEW v \in Workers, NEW u \in Tasks, NEW i \in Nat, NEW k \in Nat, StopBetween(v, k, i, u)
      PROVE  StopBetween(v, k, i, u)'
  BY <1>4, <1>9 DEF StopBetween
<1> QED BY <1>5, <1>7, <1>8, <1>9

(* A start sent to a worker is the only new one, and stands after every    *)
(* stop.                                                                   *)
LEMMA SendStartEffect ==
  ASSUME TypeOK, NEW w \in Workers, NEW t \in Tasks, Send(w, "start", t), UNCHANGED exec,
         NEW n \in Nat, n = Len(inbox[w])
  PROVE  /\ \A v \in Workers, u \in Tasks, i \in Nat :
              /\ Started(v, i, u)' => Started(v, i, u) \/ (v = w /\ u = t /\ i = n + 1)
              /\ StopAfter(v, i, u) => StopAfter(v, i, u)'
              /\ \A k \in Nat : StopBetween(v, k, i, u) => StopBetween(v, k, i, u)'
         /\ \A u \in Tasks, i \in Nat : Started(w, i, u) => i < n + 1
         /\ \A u \in Tasks, k \in Nat : StopAfter(w, k, u) => StopBetween(w, k, n + 1, u)'
<1> DEFINE s == inbox[w]
           r == Append(s, [act |-> "start", task |-> t])
<1>1. s \in Seq(Commands)
  BY DEF TypeOK
<1>2. /\ Len(s) \in Nat /\ Len(r) = Len(s) + 1
      /\ \A j \in 1..Len(s) : r[j] = s[j]
      /\ r[Len(s) + 1].act = "start" /\ r[Len(s) + 1].task = t
  BY <1>1
<1>3. inbox'[w] = r /\ \A v \in Workers : v # w => inbox'[v] = inbox[v]
  BY DEF TypeOK, Send
<1>4. ASSUME NEW v \in Workers, NEW u \in Tasks, NEW j \in Nat, StopAt(v, j, u) PROVE StopAt(v, j, u)'
  <2> HIDE DEF r
  <2> QED BY <1>2, <1>3, <1>4 DEF StopAt
<1>5. ASSUME NEW v \in Workers, NEW u \in Tasks, NEW i \in Nat, Started(v, i, u)'
      PROVE  Started(v, i, u) \/ (v = w /\ u = t /\ i = n + 1)
  <2> HIDE DEF r
  <2> QED BY <1>2, <1>3, <1>5 DEF Started
<1>6. ASSUME NEW u \in Tasks, NEW i \in Nat, Started(w, i, u) PROVE i < n + 1
  BY <1>2, <1>6 DEF Started
<1>7. ASSUME NEW u \in Tasks, NEW k \in Nat, StopAfter(w, k, u) PROVE StopBetween(w, k, n + 1, u)'
  <2>1. PICK j \in Nat : k < j /\ StopAt(w, j, u)
    BY <1>7 DEF StopAfter
  <2>2. j < n + 1
    BY <1>2, <2>1 DEF StopAt
  <2>3. StopAt(w, j, u)'
    BY <1>4, <2>1
  <2> QED BY <2>1, <2>2, <2>3 DEF StopBetween
<1>8. ASSUME NEW v \in Workers, NEW u \in Tasks, NEW i \in Nat, StopAfter(v, i, u) PROVE StopAfter(v, i, u)'
  BY <1>4, <1>8 DEF StopAfter
<1>9. ASSUME NEW v \in Workers, NEW u \in Tasks, NEW i \in Nat, NEW k \in Nat, StopBetween(v, k, i, u)
      PROVE  StopBetween(v, k, i, u)'
  BY <1>4, <1>9 DEF StopBetween
<1> QED BY <1>5, <1>6, <1>7, <1>8, <1>9

(* A worker that takes a command from its socket: every other one moves    *)
(* one place towards it.                                                   *)
LEMMA TakeEffect ==
  ASSUME TypeOK, NEW w \in Workers, inbox[w] # <<>>, Take(w)
  PROVE  /\ \A v \in Workers : v # w => inbox'[v] = inbox[v]
         /\ \A u \in Tasks, j \in Nat : j > 0 =>
              /\ StopAt(w, j, u)' <=> StopAt(w, j + 1, u)
              /\ Started(w, j, u)' <=> Started(w, j + 1, u)
<1> DEFINE s == inbox[w]
           r == Tail(s)
<1>1. s \in Seq(Commands) /\ s # <<>>
  BY DEF TypeOK
<1>2. /\ Len(s) \in Nat /\ Len(s) > 0 /\ Len(r) = Len(s) - 1
      /\ \A j \in 1..(Len(s) - 1) : r[j] = s[j + 1]
  BY <1>1
<1>3. inbox'[w] = r /\ \A v \in Workers : v # w => inbox'[v] = inbox[v]
  BY DEF TypeOK, Take
<1>4. ASSUME NEW j \in Nat, j > 0
      PROVE  /\ j \in 1..Len(r) <=> j + 1 \in 1..Len(s)
             /\ j \in 1..Len(r) => r[j] = s[j + 1]
  <2> HIDE DEF s, r
  <2> QED BY <1>2, <1>4
<1>5. ASSUME NEW u \in Tasks, NEW j \in Nat, j > 0 PROVE StopAt(w, j, u)' <=> StopAt(w, j + 1, u)
  <2> HIDE DEF r
  <2> QED BY <1>3, <1>4, <1>5 DEF StopAt
<1>6. ASSUME NEW u \in Tasks, NEW j \in Nat, j > 0 PROVE Started(w, j, u)' <=> Started(w, j + 1, u)
  <2> HIDE DEF r
  <2> QED BY <1>3, <1>4, <1>6 DEF Started
<1> QED BY <1>3, <1>5, <1>6

(* Stops behind a command that was not taken stay behind it, and so do the *)
(* stops between two of them.                                              *)
LEMMA TakeKeepsStops ==
  ASSUME TypeOK, NEW w \in Workers, inbox[w] # <<>>, Take(w), NEW u \in Tasks, NEW i \in Nat
  PROVE  /\ StopAfter(w, i + 1, u) => StopAfter(w, i, u)'
         /\ \A k \in Nat : StopBetween(w, k + 1, i + 1, u) => StopBetween(w, k, i, u)'
         /\ ~StopAt(w, 1, u) =>
              /\ StopAfter(w, 0, u) => StopAfter(w, 0, u)'
              /\ StopBetween(w, 0, i + 1, u) => StopBetween(w, 0, i, u)'
<1>1. ASSUME NEW j \in Nat, StopAt(w, j, u), j > 1
      PROVE  \E m \in Nat : m = j - 1 /\ StopAt(w, m, u)'
  <2>1. PICK m \in Nat : m = j - 1 /\ m > 0 /\ m + 1 = j
    BY <1>1
  <2> QED BY <1>1, <2>1, TakeEffect
<1>2. ASSUME StopAfter(w, i + 1, u) PROVE StopAfter(w, i, u)'
  <2>1. PICK j \in Nat : i + 1 < j /\ StopAt(w, j, u)
    BY <1>2 DEF StopAfter
  <2>2. PICK m \in Nat : m = j - 1 /\ StopAt(w, m, u)'
    BY <1>1, <2>1
  <2>3. i < m
    BY <2>1, <2>2
  <2> QED BY <2>2, <2>3 DEF StopAfter
<1>3. ASSUME NEW k \in Nat, StopBetween(w, k + 1, i + 1, u) PROVE StopBetween(w, k, i, u)'
  <2>1. PICK j \in Nat : k + 1 < j /\ j < i + 1 /\ StopAt(w, j, u)
    BY <1>3 DEF StopBetween
  <2>2. PICK m \in Nat : m = j - 1 /\ StopAt(w, m, u)'
    BY <1>1, <2>1
  <2>3. k < m /\ m < i
    BY <2>1, <2>2
  <2> QED BY <2>2, <2>3 DEF StopBetween
<1>4. ASSUME ~StopAt(w, 1, u), StopAfter(w, 0, u) PROVE StopAfter(w, 0, u)'
  <2>1. PICK j \in Nat : 0 < j /\ StopAt(w, j, u)
    BY <1>4 DEF StopAfter
  <2>2. j > 1
    BY <1>4, <2>1
  <2>3. PICK m \in Nat : m = j - 1 /\ StopAt(w, m, u)'
    BY <1>1, <2>1, <2>2
  <2>4. 0 < m
    BY <2>2, <2>3
  <2> QED BY <2>3, <2>4 DEF StopAfter
<1>5. ASSUME ~StopAt(w, 1, u), StopBetween(w, 0, i + 1, u) PROVE StopBetween(w, 0, i, u)'
  <2>1. PICK j \in Nat : 0 < j /\ j < i + 1 /\ StopAt(w, j, u)
    BY <1>5 DEF StopBetween
  <2>2. j > 1
    BY <1>5, <2>1
  <2>3. PICK m \in Nat : m = j - 1 /\ StopAt(w, m, u)'
    BY <1>1, <2>1, <2>2
  <2>4. 0 < m /\ m < i
    BY <2>1, <2>2, <2>3
  <2> QED BY <2>3, <2>4 DEF StopBetween
<1> QED BY <1>2, <1>3, <1>4, <1>5

(* A step that starts nothing: what is started after it was started before *)
(* it, and a stop behind it is still behind it.                            *)
Keeps ==
  \A v \in Workers, u \in Tasks, i \in Nat :
    Started(v, i, u)' =>
      \E k \in Nat : Started(v, k, u) /\ (StopAfter(v, k, u) => StopAfter(v, i, u)')

(* What is not started again stays in the maps or keeps its stop.          *)
LEMMA KeepsTrack ==
  ASSUME TrackInv, Keeps, UNCHANGED <<chTasks, chWorker>> PROVE TrackInv'
<1> SUFFICES ASSUME NEW w \in Workers, NEW t \in Tasks, NEW i \in Nat, Started(w, i, t)'
             PROVE  OnWorker(w, t)' \/ StopAfter(w, i, t)'
  BY DEF TrackInv
<1>1. PICK k \in Nat : Started(w, k, t) /\ (StopAfter(w, k, t) => StopAfter(w, i, t)')
  BY DEF Keeps
<1>2. OnWorker(w, t) \/ StopAfter(w, k, t)
  BY <1>1 DEF TrackInv
<1>3. OnWorker(w, t) => OnWorker(w, t)'
  BY DEF OnWorker
<1> QED BY <1>1, <1>2, <1>3

(* And the stop the subscriber has sent is still behind its task.          *)
LEMMA KeepsSub ==
  ASSUME LockInv, SubInv, Keeps, UNCHANGED <<chTasks, chWorker, sub>> PROVE SubInv'
<1>1. ASSUME sub.pc = "untrack", NEW w \in Workers, NEW i \in Nat, Started(w, i, sub.task)'
      PROVE  StopAfter(w, i, sub.task)'
  <2>1. PICK t \in Tasks : t = sub.task /\ t = sub'.task
    BY <1>1 DEF LockInv
  <2>2. Started(w, i, t)'
    BY <1>1, <2>1
  <2>3. PICK k \in Nat : Started(w, k, t) /\ (StopAfter(w, k, t) => StopAfter(w, i, t)')
    BY <2>2 DEF Keeps
  <2>4. StopAfter(w, k, t)
    BY <1>1, <2>1, <2>3 DEF SubInv
  <2> QED BY <2>1, <2>3, <2>4
<1> QED BY <1>1 DEF SubInv, OnWorker

(* A step that leaves the sockets and what is executed alone keeps what is *)
(* said of them.                                                           *)
LEMMA QuietKeeps ==
  ASSUME ExecInv, UNCHANGED <<inbox, exec>>
  PROVE  /\ Keeps /\ ChannelInv' /\ OneChannelPerWorker'
         /\ \A v \in Workers, u \in Tasks, i \in Nat : Started(v, i, u)' <=> Started(v, i, u)
<1>1. \A v \in Workers, u \in Tasks, i \in Nat : Started(v, i, u)' <=> Started(v, i, u)
  BY DEF Started
<1>2. \A v \in Workers, u \in Tasks, j \in Nat : StopAt(v, j, u)' <=> StopAt(v, j, u)
  BY DEF StopAt
<1>3. Keeps
  BY <1>1, <1>2 DEF Keeps, StopAfter
<1>4. ChannelInv'
  BY <1>1, <1>2 DEF ExecInv, ChannelInv, StopBetween
<1>5. OneChannelPerWorker'
  BY DEF ExecInv, OneChannelPerWorker
<1> QED BY <1>1, <1>3, <1>4, <1>5

(* So does a step that sends a stop.                                       *)
LEMMA StopKeeps ==
  ASSUME TypeOK, ExecInv, NEW w \in Workers, NEW t \in Tasks, Send(w, "stop", t), UNCHANGED exec
  PROVE  /\ Keeps /\ ChannelInv' /\ OneChannelPerWorker'
         /\ \A v \in Workers, u \in Tasks, i \in Nat : Started(v, i, u)' <=> Started(v, i, u)
<1>1. Keeps
  BY SendStopEffect DEF Keeps
<1>2. ChannelInv'
  BY SendStopEffect DEF ExecInv, ChannelInv
<1>3. OneChannelPerWorker'
  BY DEF ExecInv, OneChannelPerWorker
<1> QED BY <1>1, <1>2, <1>3, SendStopEffect

(* A worker that takes a command: what it executes then it executed before *)
(* and was not told to stop, or was told to start.                         *)
Shifts(w) ==
  /\ \A v \in Workers : v # w => exec'[v] = exec[v]
  /\ \A u \in exec'[w] : \/ u \in exec[w] /\ ~StopAt(w, 1, u)
                         \/ Started(w, 1, u)

(* Where what is started after such a step was before it.                  *)
LEMMA ShiftPlaces ==
  ASSUME TypeOK, NEW w \in Workers, inbox[w] # <<>>, Take(w), Shifts(w)
  PROVE  /\ \A v \in Workers, u \in Tasks, i \in Nat : v # w =>
              /\ Started(v, i, u)' <=> Started(v, i, u)
              /\ StopAfter(v, i, u)' <=> StopAfter(v, i, u)
              /\ \A k \in Nat : StopBetween(v, k, i, u)' <=> StopBetween(v, k, i, u)
         /\ \A u \in Tasks, i \in Nat : i > 0 /\ Started(w, i, u)' => Started(w, i + 1, u)
         /\ \A u \in Tasks : Started(w, 0, u)' =>
              \/ Started(w, 0, u) /\ ~StopAt(w, 1, u)
              \/ Started(w, 1, u)
<1>1. ASSUME NEW v \in Workers, v # w
      PROVE  inbox'[v] = inbox[v] /\ exec'[v] = exec[v]
  BY <1>1, TakeEffect DEF Shifts
<1>2. ASSUME NEW v \in Workers, NEW u \in Tasks, NEW i \in Nat, v # w
      PROVE  /\ Started(v, i, u)' <=> Started(v, i, u)
             /\ StopAt(v, i, u)' <=> StopAt(v, i, u)
  BY <1>1, <1>2 DEF Started, StopAt
<1>3. ASSUME NEW v \in Workers, NEW u \in Tasks, NEW i \in Nat, v # w
      PROVE  StopAfter(v, i, u)' <=> StopAfter(v, i, u)
  BY <1>2, <1>3 DEF StopAfter
<1>4. ASSUME NEW v \in Workers, NEW u \in Tasks, NEW i \in Nat, NEW k \in Nat, v # w
      PROVE  StopBetween(v, k, i, u)' <=> StopBetween(v, k, i, u)
  BY <1>2, <1>4 DEF StopBetween
<1>5. ASSUME NEW u \in Tasks, Started(w, 0, u)'
      PROVE  (Started(w, 0, u) /\ ~StopAt(w, 1, u)) \/ Started(w, 1, u)
  <2>1. u \in exec'[w]
    BY <1>5 DEF Started
  <2> QED BY <2>1 DEF Shifts, Started
<1> QED BY <1>2, <1>3, <1>4, <1>5, TakeEffect

(* It starts nothing, leaves the stops in order, and executes tasks of one *)
(* channel.                                                                *)
LEMMA ShiftKeeps ==
  ASSUME TypeOK, ExecInv, NEW w \in Workers, inbox[w] # <<>>, Take(w), Shifts(w)
  PROVE  Keeps /\ ChannelInv' /\ OneChannelPerWorker'
<1> USE DEF ExecInv
<1>1. Keeps
  <2> SUFFICES ASSUME NEW v \in Workers, NEW u \in Tasks, NEW i \in Nat, Started(v, i, u)'
               PROVE  \E k \in Nat : Started(v, k, u) /\ (StopAfter(v, k, u) => StopAfter(v, i, u)')
    BY DEF Keeps
  <2>1. CASE v # w
    BY <2>1, ShiftPlaces
  <2>2. CASE v = w /\ i > 0
    <3>1. Started(w, i + 1, u) /\ i + 1 \in Nat
      BY <2>2, ShiftPlaces
    <3> QED BY <2>2, <3>1, TakeKeepsStops
  <2>3. CASE v = w /\ i = 0 /\ Started(w, 1, u)
    <3>1. StopAfter(w, 0 + 1, u) => StopAfter(w, 0, u)'
      BY TakeKeepsStops
    <3>2. StopAfter(w, 1, u) => StopAfter(w, i, u)'
      BY <2>3, <3>1
    <3> QED BY <2>3, <3>2
  <2>4. CASE v = w /\ i = 0 /\ Started(w, 0, u) /\ ~StopAt(w, 1, u)
    <3>1. StopAfter(w, 0, u) => StopAfter(w, 0, u)'
      BY <2>4, TakeKeepsStops
    <3> QED BY <2>4, <3>1
  <2> QED BY <2>1, <2>2, <2>3, <2>4, ShiftPlaces
<1>2. ChannelInv'
  <2> SUFFICES ASSUME NEW v \in Workers, NEW t \in Tasks, NEW u \in Tasks, NEW i \in Nat, NEW k \in Nat,
                      Started(v, i, t)', Started(v, k, u)', k < i, ChanOf[t] # ChanOf[u]
               PROVE  StopBetween(v, k, i, u)'
    BY DEF ChannelInv
  <2>1. CASE v # w
    BY <2>1, ShiftPlaces DEF ChannelInv
  <2>2. CASE v = w
    <3>1. Started(w, i + 1, t) /\ i + 1 \in Nat
      BY <2>2, ShiftPlaces
    <3>2. CASE k > 0
      <4>1. Started(w, k + 1, u) /\ k + 1 \in Nat /\ k + 1 < i + 1
        BY <2>2, <3>2, ShiftPlaces
      <4>2. StopBetween(w, k + 1, i + 1, u)
        BY <3>1, <4>1 DEF ChannelInv
      <4> QED BY <2>2, <4>2, TakeKeepsStops
    <3>3. CASE k = 0 /\ Started(w, 1, u)
      <4>1. StopBetween(w, 0 + 1, i + 1, u)
        <5>1. 1 < i + 1 /\ 1 \in Nat /\ 0 + 1 = 1
          BY <3>3
        <5> QED BY <3>1, <3>3, <5>1 DEF ChannelInv
      <4>2. StopBetween(w, 0, i, u)'
        BY <4>1, TakeKeepsStops
      <4> QED BY <2>2, <3>3, <4>2
    <3>4. CASE k = 0 /\ Started(w, 0, u) /\ ~StopAt(w, 1, u)
      <4>1. StopBetween(w, 0, i + 1, u)
        BY <3>1, <3>4 DEF ChannelInv
      <4>2. StopBetween(w, 0, i, u)'
        BY <3>4, <4>1, TakeKeepsStops
      <4> QED BY <2>2, <3>4, <4>2
    <3> QED BY <2>2, <3>2, <3>3, <3>4, ShiftPlaces
  <2> QED BY <2>1, <2>2
<1>3. OneChannelPerWorker'
  <2> SUFFICES ASSUME NEW v \in Workers, NEW t \in exec'[v], NEW u \in exec'[v], ChanOf[t] # ChanOf[u]
               PROVE  FALSE
    BY DEF OneChannelPerWorker
  <2>1. CASE v # w
    BY <2>1 DEF Shifts, OneChannelPerWorker
  <2>2. CASE v = w
    <3>1. ASSUME NEW a \in Tasks, NEW b \in Tasks, Started(w, 1, a), Started(w, 0, b), ChanOf[a] # ChanOf[b]
          PROVE  FALSE
      <4>1. StopBetween(w, 0, 1, b)
        BY <3>1 DEF ChannelInv
      <4> QED BY <4>1 DEF StopBetween
    <3>2. ASSUME NEW a \in Tasks, NEW b \in Tasks, Started(w, 1, a), Started(w, 1, b)
          PROVE  a = b
      BY <3>2 DEF Started
    <3>3. (t \in exec[w] \/ Started(w, 1, t)) /\ (u \in exec[w] \/ Started(w, 1, u))
      BY <2>2 DEF Shifts
    <3>4. /\ t \in exec[w] => t \in Tasks /\ Started(w, 0, t)
          /\ u \in exec[w] => u \in Tasks /\ Started(w, 0, u)
      BY DEF TypeOK, Started
    <3>5. /\ Started(w, 1, t) => t \in Tasks
          /\ Started(w, 1, u) => u \in Tasks
      <4>1. \A i \in 1..Len(inbox[w]) : inbox[w][i] \in Commands
        BY DEF TypeOK
      <4> QED BY <4>1 DEF Started, Commands
    <3>6. ~(t \in exec[w] /\ u \in exec[w])
      BY DEF OneChannelPerWorker
    <3> QED BY <3>1, <3>2, <3>3, <3>4, <3>5, <3>6
  <2> QED BY <2>1, <2>2
<1> QED BY <1>1, <1>2, <1>3

-----------------------------------------------------------------------------
(* A task is started once                                                  *)

(* A step that starts nothing, sends nothing and answers nothing.          *)
LEMMA OnceFrame ==
  ASSUME OnceInv,
         \A v \in Workers, u \in Tasks, i \in Nat : Started(v, i, u)' => Started(v, i, u),
         \A u \in Tasks : (Unsent(u)' => Unsent(u)) /\ (Done(u)' => Done(u)),
         sub'.pc = "send" => sub'.task \notin todo'
  PROVE  OnceInv'
<1>1. \A v, w \in Workers, t \in Tasks, i, k \in Nat :
        Started(v, i, t)' /\ Started(w, k, t)' => v = w /\ i = k
  BY DEF OnceInv
<1>2. \A w \in Workers, t \in Tasks, i \in Nat : Started(w, i, t)' => ~Unsent(t)' /\ ~Done(t)'
  BY DEF OnceInv
<1>3. \A t \in Tasks : Unsent(t)' => ~Done(t)'
  BY DEF OnceInv
<1> QED BY <1>1, <1>2, <1>3 DEF OnceInv

(* A step of a worker process: it answers only for what it started, and    *)
(* then it executes it no more.                                            *)
LEMMA OnceAnswer ==
  ASSUME OnceInv, UNCHANGED <<todo, sub>>,
         \A v, w \in Workers, t \in Tasks, i, k \in Nat :
           Started(v, i, t)' /\ Started(w, k, t)' => v = w /\ i = k,
         \A v \in Workers, t \in Tasks, i \in Nat : Started(v, i, t)' =>
           (\E k \in Nat : Started(v, k, t)) /\ (Done(t)' => Done(t)),
         \A t \in Tasks : Done(t)' => Done(t) \/ \E v \in Workers, k \in Nat : Started(v, k, t)
  PROVE  OnceInv'
<1>1. \A t \in Tasks : Unsent(t)' <=> Unsent(t)
  BY DEF Unsent
<1>2. ASSUME NEW w \in Workers, NEW t \in Tasks, NEW i \in Nat, Started(w, i, t)'
      PROVE  ~Unsent(t)' /\ ~Done(t)'
  BY <1>1, <1>2 DEF OnceInv
<1>3. ASSUME NEW t \in Tasks, Unsent(t)' PROVE ~Done(t)'
  BY <1>1, <1>3 DEF OnceInv
<1>4. sub'.pc = "send" => sub'.task \notin todo'
  BY DEF OnceInv
<1> QED BY <1>2, <1>3, <1>4 DEF OnceInv

(* An answer adds the task it is for.                                      *)
LEMMA ReplyDone ==
  ASSUME TypeOK, NEW w \in Workers, NEW t \in Tasks, NEW out, Reply(w, t, out), UNCHANGED lis
  PROVE  \A u \in Tasks : Done(u)' => Done(u) \/ u = t
<1> DEFINE s == outbox[w]
           r == Append(s, [task |-> t, out |-> out])
<1>1. s \in Seq(Completions)
  BY DEF TypeOK
<1>2. /\ Len(s) \in Nat /\ Len(r) = Len(s) + 1
      /\ \A j \in 1..Len(s) : r[j] = s[j]
      /\ r[Len(s) + 1].task = t
  BY <1>1
<1>3. outbox'[w] = r /\ \A v \in Workers : v # w => outbox'[v] = outbox[v]
  BY DEF TypeOK, Reply
<1> SUFFICES ASSUME NEW u \in Tasks, NEW v \in Workers, Answered(v, u)' PROVE Answered(v, u) \/ u = t
  BY DEF Done
<1>4. CASE v # w
  BY <1>3, <1>4 DEF Answered
<1>5. CASE v = w
  <2> HIDE DEF r
  <2>1. CASE lis[w].pc # "read" /\ lis[w].task = u
    BY <1>5, <2>1 DEF Answered
  <2>2. ASSUME NEW i \in 1..Len(outbox'[w]), outbox'[w][i].task = u PROVE Answered(w, u) \/ u = t
    <3>1. i = Len(s) + 1 \/ (i \in 1..Len(s) /\ r[i] = s[i])
      BY <1>2, <1>3, <2>2
    <3> QED BY <1>2, <1>3, <2>2, <3>1 DEF Answered
  <2> QED BY <1>5, <2>1, <2>2 DEF Answered
<1> QED BY <1>4, <1>5

(* The steps of a listener answer nothing new: a message goes from the     *)
(* socket to the listener, which drops it when it is done.                 *)
LEMMA ReadDone ==
  ASSUME TypeOK, NEW w \in Workers, LisRead(w)
  PROVE  \A u \in Tasks : Done(u)' => Done(u)
<1> DEFINE s == outbox[w]
           r == Tail(s)
<1>1. s \in Seq(Completions) /\ s # <<>>
  BY DEF TypeOK, LisRead
<1>2. /\ Len(s) \in Nat /\ Len(s) > 0 /\ Len(r) = Len(s) - 1
      /\ \A j \in 1..(Len(s) - 1) : r[j] = s[j + 1]
      /\ Head(s) = s[1]
  BY <1>1
<1>3. outbox'[w] = r /\ \A v \in Workers : v # w => outbox'[v] = outbox[v] /\ lis'[v] = lis[v]
  BY DEF TypeOK, LisRead
<1>4. lis'[w].task = Head(s).task
  BY DEF TypeOK, LisRead
<1> SUFFICES ASSUME NEW u \in Tasks, NEW v \in Workers, Answered(v, u)' PROVE Answered(v, u)
  BY DEF Done
<1>5. CASE v # w
  BY <1>3, <1>5 DEF Answered
<1>6. CASE v = w
  <2> HIDE DEF r
  <2>1. ASSUME lis'[w].task = u PROVE Answered(w, u)
    <3>1. 1 \in 1..Len(s) /\ s[1].task = u
      BY <1>2, <1>4, <2>1
    <3> QED BY <3>1 DEF Answered
  <2>2. ASSUME NEW i \in 1..Len(outbox'[w]), outbox'[w][i].task = u PROVE Answered(w, u)
    <3>1. i + 1 \in 1..Len(s) /\ s[i + 1].task = u
      BY <1>2, <1>3, <2>2
    <3> QED BY <3>1 DEF Answered
  <2> QED BY <1>6, <2>1, <2>2 DEF Answered
<1> QED BY <1>5, <1>6

LEMMA LisKeepsDone ==
  ASSUME TypeOK, NEW w \in Workers, UNCHANGED outbox, lis[w].pc # "read",
         LisDone(w) \/ \E pc \in {"find", "remove", "state", "failRemove"} : LisGoto(w, pc)
  PROVE  \A u \in Tasks : Done(u)' => Done(u)
<1>1. lis'[w].pc = "read" \/ lis'[w].task = lis[w].task
  BY DEF TypeOK, Lis, LisDone, LisGoto, IdleLis
<1>2. \A v \in Workers : v # w => lis'[v] = lis[v]
  BY DEF TypeOK, LisDone, LisGoto
<1> QED BY <1>1, <1>2 DEF Done, Answered

(* Nothing answered changes while no message and no listener moves.        *)
LEMMA QuietDone == ASSUME UNCHANGED <<outbox, lis>> PROVE \A u \in Tasks : Done(u)' => Done(u)
BY DEF Done, Answered

-----------------------------------------------------------------------------
(* removeTaskFromChannel may forget a task whose every start has a stop    *)
(* behind it.                                                              *)
LEMMA RemoveKeepsTrack ==
  ASSUME IndInv, ExecInv, NEW t \in Tasks, RemoveTask(ChanOf[t], t), UNCHANGED <<inbox, exec>>,
         \A w \in Workers, i \in Nat : Started(w, i, t) => StopAfter(w, i, t)
  PROVE  /\ TrackInv'
         /\ \A c \in Channels : chWorker'[c] \in {chWorker[c], NoWorker}
<1> USE WorkerManagerAssumption
<1> DEFINE c == ChanOf[t]
<1>0. c \in Channels
  OBVIOUS
<1>1. ASSUME NEW w \in Workers, NEW u \in Tasks, u # t, OnWorker(w, u) PROVE OnWorker(w, u)'
  <2>1. chTasks' = [chTasks EXCEPT ![c] = @ \ {t}]
    BY DEF RemoveTask
  <2>2. ChanOf[u] \in Channels /\ u \in chTasks[ChanOf[u]]
    BY <1>1 DEF OnWorker
  <2>3. u \in chTasks'[ChanOf[u]]
    BY <1>1, <2>1, <2>2 DEF IndInv, TypeOK
  <2>4. chWorker'[ChanOf[u]] = chWorker[ChanOf[u]]
    <3>1. CASE chTasks[c] = {t}
      <4>1. ChanOf[u] # c
        BY <1>1, <2>2, <3>1
      <4>2. chWorker' = [chWorker EXCEPT ![c] = NoWorker]
        BY <3>1 DEF RemoveTask
      <4> HIDE DEF c
      <4> QED BY <2>2, <4>1, <4>2 DEF IndInv, TypeOK
    <3>2. CASE chTasks[c] # {t}
      BY <3>2 DEF RemoveTask
    <3> QED BY <3>1, <3>2
  <2> QED BY <1>1, <2>3, <2>4 DEF OnWorker
<1>2. /\ \A v \in Workers, u \in Tasks, i \in Nat : Started(v, i, u)' <=> Started(v, i, u)
      /\ \A v \in Workers, u \in Tasks, i \in Nat : StopAfter(v, i, u)' <=> StopAfter(v, i, u)
  BY DEF Started, StopAfter, StopAt
<1>3. TrackInv'
  <2> SUFFICES ASSUME NEW w \in Workers, NEW u \in Tasks, NEW i \in Nat, Started(w, i, u)'
               PROVE  OnWorker(w, u)' \/ StopAfter(w, i, u)'
    BY DEF TrackInv
  <2>1. Started(w, i, u)
    BY <1>2
  <2>2. CASE u = t
    BY <1>2, <2>1, <2>2
  <2>3. CASE u # t
    BY <1>1, <1>2, <2>1, <2>3 DEF ExecInv, TrackInv
  <2> QED BY <2>2, <2>3
<1>4. \A d \in Channels : chWorker'[d] \in {chWorker[d], NoWorker}
  BY <1>0 DEF RemoveTask, IndInv, TypeOK
<1> QED BY <1>3, <1>4

(* A task that a listener removes was answered for: nothing of it is       *)
(* started.                                                                *)
LEMMA ListenerRemoves ==
  ASSUME IndInv, ExecInv, NEW w \in Workers, lis[w].pc # "read", mutex = "free",
         RemoveTask(ChanOf[lis[w].task], lis[w].task), UNCHANGED <<inbox, exec, sub>>
  PROVE  TrackInv' /\ SubInv'
<1> USE WorkerManagerAssumption
<1>1. PICK t \in Tasks : t = lis[w].task
  BY DEF IndInv, LockInv
<1>2. Done(t)
  BY <1>1 DEF Done, Answered
<1>3. \A v \in Workers, i \in Nat : ~Started(v, i, t)
  BY <1>2 DEF ExecInv, OnceInv
<1>4. TrackInv' /\ \A c \in Channels : chWorker'[c] \in {chWorker[c], NoWorker}
  BY <1>1, <1>3, RemoveKeepsTrack
<1>5. sub.pc # "send" /\ (sub.pc # "idle" => sub.task \in Tasks /\ ChanOf[sub.task] \in Channels)
  BY DEF IndInv, LockInv
<1>6. sub.pc = "stop" => chWorker'[ChanOf[sub.task]] \in {sub.worker, NoWorker}
  BY <1>4, <1>5 DEF ExecInv, SubInv
<1>7. sub.pc = "untrack" =>
        \A v \in Workers, i \in Nat : Started(v, i, sub.task)' => StopAfter(v, i, sub.task)'
  <2> SUFFICES ASSUME sub.pc = "untrack", NEW v \in Workers, NEW i \in Nat, Started(v, i, sub.task)'
               PROVE  StopAfter(v, i, sub.task)'
    OBVIOUS
  <2>1. Started(v, i, sub.task)
    BY DEF Started
  <2>2. StopAfter(v, i, sub.task)
    BY <2>1 DEF ExecInv, SubInv
  <2> QED BY <2>2 DEF StopAfter, StopAt
<1> QED BY <1>4, <1>5, <1>6, <1>7 DEF SubInv

(* A step that changes neither the maps nor the subscriber, and starts and *)
(* answers nothing.                                                        *)
LEMMA ExecFrame ==
  ASSUME IndInv, ExecInv, UNCHANGED <<inbox, exec, maps, sub, todo>>,
         \A u \in Tasks : Done(u)' => Done(u)
  PROVE  ExecInv'
<1>1. Keeps /\ ChannelInv' /\ OneChannelPerWorker'
  BY QuietKeeps
<1>2. TrackInv' /\ SubInv'
  BY <1>1, KeepsTrack, KeepsSub DEF IndInv, ExecInv, maps
<1>3. OnceInv'
  <2>1. \A u \in Tasks : Unsent(u)' => Unsent(u)
    BY DEF Unsent
  <2>2. sub'.pc = "send" => sub'.task \notin todo'
    BY DEF ExecInv, OnceInv
  <2>3. \A v \in Workers, u \in Tasks, i \in Nat : Started(v, i, u)' => Started(v, i, u)
    BY QuietKeeps
  <2> QED BY <2>1, <2>2, <2>3, OnceFrame DEF ExecInv
<1> QED BY <1>1, <1>2, <1>3 DEF ExecInv

(* A step of the subscriber that leaves the sockets, the maps and the      *)
(* answers alone and hands over no task.                                   *)
LEMMA SubFrame ==
  ASSUME IndInv, ExecInv, UNCHANGED <<inbox, exec, maps, outbox, lis>>, todo' \subseteq todo,
         sub' = sub \/ sub'.pc \notin {"send", "stop", "untrack"} \/ (sub'.pc = "stop" /\ SubInv'),
         sub' = sub => sub.pc = "idle"
  PROVE  ExecInv'
<1>1. Keeps /\ ChannelInv' /\ OneChannelPerWorker'
  BY QuietKeeps
<1>2. TrackInv'
  BY <1>1, KeepsTrack DEF ExecInv, maps
<1>3. SubInv' /\ sub'.pc # "send"
  BY DEF SubInv
<1>4. OnceInv'
  <2>1. \A u \in Tasks : Unsent(u)' => Unsent(u)
    BY <1>3 DEF Unsent
  <2>2. \A v \in Workers, u \in Tasks, i \in Nat : Started(v, i, u)' => Started(v, i, u)
    BY QuietKeeps
  <2> QED BY <1>3, <2>1, <2>2, OnceFrame, QuietDone DEF ExecInv
<1> QED BY <1>1, <1>2, <1>3, <1>4 DEF ExecInv

(* The worker a task is assigned to keeps what it was started with.        *)
LEMMA AssignExec == ASSUME IndInv, ExecInv, NEW t \in Tasks, StartAssign(t) PROVE ExecInv'
<1> USE WorkerManagerAssumption
<1> DEFINE c == ChanOf[t]
<1>0. c \in Channels
  OBVIOUS
<1>1. PICK w \in FreeWorkers(c) :
        /\ chWorker' = [chWorker EXCEPT ![c] = w]
        /\ sub' = [pc |-> "send", task |-> t, worker |-> w, tries |-> 0]
  BY DEF StartAssign
<1>2. w \in Workers /\ (chWorker[c] = w \/ chWorker[c] = NoWorker)
  BY <1>0, OfferedWorker DEF StartAssign
<1>3. chTasks' = [chTasks EXCEPT ![c] = @ \cup {t}]
  BY <1>0, NeverDead DEF StartAssign
<1>4. UNCHANGED <<inbox, exec, outbox, lis>> /\ t \in todo /\ todo' = todo \ {t}
  BY DEF StartAssign, procs
<1>5. Keeps /\ ChannelInv' /\ OneChannelPerWorker'
      /\ \A v \in Workers, u \in Tasks, i \in Nat : Started(v, i, u)' <=> Started(v, i, u)
  BY <1>4, QuietKeeps
<1>6. ASSUME NEW v \in Workers, NEW u \in Tasks, OnWorker(v, u) PROVE OnWorker(v, u)'
  <2> HIDE DEF c
  <2>1. ChanOf[u] \in Channels /\ u \in chTasks'[ChanOf[u]]
    BY <1>0, <1>3, <1>6 DEF OnWorker, IndInv, TypeOK
  <2>2. chWorker'[ChanOf[u]] = v
    BY <1>0, <1>1, <1>2, <1>6, <2>1 DEF OnWorker, IndInv, TypeOK
  <2> QED BY <2>1, <2>2 DEF OnWorker
<1>7. TrackInv'
  <2> SUFFICES ASSUME NEW v \in Workers, NEW u \in Tasks, NEW i \in Nat, Started(v, i, u)'
               PROVE  OnWorker(v, u)' \/ StopAfter(v, i, u)'
    BY DEF TrackInv
  <2>1. PICK k \in Nat : Started(v, k, u) /\ (StopAfter(v, k, u) => StopAfter(v, i, u)')
    BY <1>5 DEF Keeps
  <2> QED BY <1>6, <2>1 DEF ExecInv, TrackInv
<1>8. SubInv'
  <2>1. t \in chTasks'[c] /\ chWorker'[c] = w
    BY <1>0, <1>1, <1>3 DEF IndInv, TypeOK
  <2> QED BY <1>1, <2>1 DEF SubInv, OnWorker
<1>9. OnceInv'
  <2>1. \A u \in Tasks : Unsent(u)' => Unsent(u)
    BY <1>1, <1>4 DEF Unsent
  <2>2. sub'.pc = "send" => sub'.task \notin todo'
    BY <1>1, <1>4
  <2> QED BY <1>4, <1>5, <2>1, <2>2, OnceFrame, QuietDone DEF ExecInv
<1> QED BY <1>5, <1>7, <1>8, <1>9 DEF ExecInv

(* The start that is sent is for a task in the maps that was never sent    *)
(* before; a stop of every other channel is before it.                     *)
LEMMA SendExec == ASSUME IndInv, ExecInv, StartSend PROVE ExecInv'
<1> USE WorkerManagerAssumption
<1>1. PICK w \in Workers, t \in Tasks : w = sub.worker /\ t = sub.task
  BY DEF StartSend, IndInv, LockInv
<1>2. /\ Send(w, "start", t) /\ UNCHANGED <<exec, chTasks, chWorker, todo, outbox, lis>>
      /\ sub.pc = "send" /\ sub'.pc = "record"
  BY <1>1 DEF StartSend, maps, reqs, IndInv, TypeOK, Sub
<1>3. PICK n \in Nat : n = Len(inbox[w])
  BY DEF IndInv, TypeOK
<1>4. TypeOK
  BY DEF IndInv
<1>5. OnWorker(w, t) /\ Unsent(t) /\ t \notin todo
  BY <1>1, <1>2 DEF ExecInv, SubInv, OnceInv, Unsent
<1>6. \A v \in Workers, i \in Nat : ~Started(v, i, t)
  BY <1>5 DEF ExecInv, OnceInv
<1>7. ASSUME NEW v \in Workers, NEW u \in Tasks, NEW i \in Nat, Started(v, i, u)'
      PROVE  Started(v, i, u) \/ (v = w /\ u = t /\ i = n + 1)
  BY <1>2, <1>3, <1>4, <1>7, SendStartEffect
<1>8. TrackInv'
  <2> SUFFICES ASSUME NEW v \in Workers, NEW u \in Tasks, NEW i \in Nat, Started(v, i, u)'
               PROVE  OnWorker(v, u)' \/ StopAfter(v, i, u)'
    BY DEF TrackInv
  <2>1. OnWorker(v, u) => OnWorker(v, u)'
    BY <1>2 DEF OnWorker
  <2>2. StopAfter(v, i, u) => StopAfter(v, i, u)'
    BY <1>2, <1>3, <1>4, SendStartEffect
  <2> QED BY <1>5, <1>7, <2>1, <2>2 DEF ExecInv, TrackInv
<1>9. ChannelInv'
  <2> SUFFICES ASSUME NEW v \in Workers, NEW a \in Tasks, NEW b \in Tasks, NEW i \in Nat, NEW k \in Nat,
                      Started(v, i, a)', Started(v, k, b)', k < i, ChanOf[a] # ChanOf[b]
               PROVE  StopBetween(v, k, i, b)'
    BY DEF ChannelInv
  <2>1. CASE Started(v, i, a) /\ Started(v, k, b)
    <3>1. StopBetween(v, k, i, b)
      BY <2>1 DEF ExecInv, ChannelInv
    <3> QED BY <1>2, <1>3, <1>4, <3>1, SendStartEffect
  <2>2. CASE v = w /\ a = t /\ i = n + 1 /\ Started(v, k, b)
    <3>1. ~OnWorker(w, b)
      <4>1. wChannel[w] = ChanOf[t] /\ (chWorker[ChanOf[b]] = w => wChannel[w] = ChanOf[b])
        BY <1>5 DEF OnWorker, IndInv, MapInv, MapsAgree
      <4> QED BY <2>2, <4>1 DEF OnWorker
    <3>2. StopAfter(w, k, b)
      BY <2>2, <3>1 DEF ExecInv, TrackInv
    <3>3. StopBetween(w, k, n + 1, b)'
      BY <1>2, <1>3, <1>4, <3>2, SendStartEffect
    <3> QED BY <2>2, <3>3
  <2>3. CASE v = w /\ b = t /\ k = n + 1
    <3>1. Started(w, i, a)
      BY <1>7, <2>3
    <3>2. i < n + 1
      BY <1>2, <1>3, <1>4, <3>1, SendStartEffect
    <3> QED BY <2>3, <3>2
  <2> QED BY <1>7, <2>1, <2>2, <2>3
<1>10. OneChannelPerWorker'
  BY <1>2 DEF ExecInv, OneChannelPerWorker
<1>11. OnceInv'
  <2>1. \A u \in Tasks : (Unsent(u)' => Unsent(u) /\ u # t) /\ (Done(u)' => Done(u))
    BY <1>2, <1>5, QuietDone DEF Unsent
  <2>2. \A v, x \in Workers, u \in Tasks, i, k \in Nat : Started(v, i, u)' /\ Started(x, k, u)' => v = x /\ i = k
    BY <1>6, <1>7 DEF ExecInv, OnceInv
  <2>3. ASSUME NEW v \in Workers, NEW u \in Tasks, NEW i \in Nat, Started(v, i, u)' PROVE ~Unsent(u)' /\ ~Done(u)'
    <3>1. Started(v, i, u) \/ u = t
      BY <1>7, <2>3
    <3> QED BY <1>5, <2>1, <3>1 DEF ExecInv, OnceInv
  <2>4. \A u \in Tasks : Unsent(u)' => ~Done(u)'
    BY <2>1 DEF ExecInv, OnceInv
  <2>5. sub'.pc # "send"
    BY <1>2
  <2> QED BY <2>2, <2>3, <2>4, <2>5 DEF OnceInv
<1>12. SubInv'
  BY <1>2 DEF SubInv
<1> QED BY <1>8, <1>9, <1>10, <1>11, <1>12 DEF ExecInv

(* After the stop was sent, whatever is started of its task has a stop     *)
(* behind it: no other worker can have the channel.                        *)
LEMMA StopSendExec == ASSUME IndInv, ExecInv, StopSend PROVE ExecInv'
<1> USE WorkerManagerAssumption
<1>1. PICK w \in Workers, t \in Tasks : w = sub.worker /\ t = sub.task
  BY DEF StopSend, IndInv, LockInv
<1>2. /\ Send(w, "stop", t) /\ UNCHANGED <<exec, chTasks, chWorker, todo, outbox, lis>>
      /\ sub.pc = "stop" /\ sub'.pc = "untrack" /\ sub'.task = t
  BY <1>1 DEF StopSend, maps, reqs, IndInv, TypeOK, Sub
<1>3. TypeOK
  BY DEF IndInv
<1>4. Keeps /\ ChannelInv' /\ OneChannelPerWorker'
      /\ \A v \in Workers, u \in Tasks, i \in Nat : Started(v, i, u)' <=> Started(v, i, u)
  BY <1>2, <1>3, StopKeeps
<1>5. TrackInv'
  BY <1>2, <1>4, KeepsTrack DEF ExecInv
<1>6. SubInv'
  <2>1. ASSUME NEW v \in Workers, NEW i \in Nat, Started(v, i, t)' PROVE StopAfter(v, i, t)'
    <3>1. Started(v, i, t)
      BY <1>4, <2>1
    <3>2. CASE StopAfter(v, i, t)
      BY <1>2, <1>3, <3>2, SendStopEffect
    <3>3. CASE OnWorker(v, t)
      <4>1. v = w
        BY <1>1, <1>2, <3>3 DEF OnWorker, ExecInv, SubInv
      <4> QED BY <1>2, <1>3, <3>1, <4>1, SendStopEffect
    <3> QED BY <3>1, <3>2, <3>3 DEF ExecInv, TrackInv
  <2>2. \A v \in Workers, i \in Nat : Started(v, i, sub.task)' => StopAfter(v, i, sub.task)'
    <3> SUFFICES ASSUME NEW v \in Workers, NEW i \in Nat, Started(v, i, sub.task)' PROVE StopAfter(v, i, sub.task)'
      OBVIOUS
    <3>1. Started(v, i, t)'
      BY <1>2
    <3>2. StopAfter(v, i, t)'
      BY <2>1, <3>1
    <3> QED BY <1>2, <3>2
  <2> QED BY <1>2, <2>2 DEF SubInv
<1>7. OnceInv'
  <2>1. \A u \in Tasks : Unsent(u)' => Unsent(u)
    BY <1>2 DEF Unsent
  <2> QED BY <1>2, <1>4, <2>1, OnceFrame, QuietDone DEF ExecInv
<1> QED BY <1>4, <1>5, <1>6, <1>7 DEF ExecInv

(* The steps of the subscriber.                                            *)
LEMMA SubExec == ASSUME IndInv, ExecInv, SubNext PROVE ExecInv'
<1> USE WorkerManagerAssumption
<1>1. ASSUME NEW t \in Tasks, StartRefused(t) PROVE ExecInv'
  <2> ChanOf[t] \in Channels
    OBVIOUS
  <2>1. UNCHANGED maps
    BY <1>1, NeverDead DEF StartRefused, maps, IndInv, TypeOK
  <2>2. UNCHANGED <<inbox, exec, outbox, lis, sub>> /\ todo' \subseteq todo /\ sub.pc = "idle"
    BY <1>1 DEF StartRefused, procs
  <2> QED BY <2>1, <2>2, SubFrame
<1>2. ASSUME NEW t \in Tasks, StartAssign(t) PROVE ExecInv'
  BY <1>2, AssignExec
<1>3. ASSUME NEW t \in Tasks, StopFind(t) PROVE ExecInv'
  <2>1. UNCHANGED <<inbox, exec, outbox, lis, maps>> /\ todo' \subseteq todo /\ sub.pc = "idle"
    BY <1>3 DEF StopFind, procs
  <2>2. CASE Tracked(t)
    <3>1. sub'.pc = "stop" /\ sub'.task = t /\ sub'.worker = chWorker[ChanOf[t]]
      BY <1>3, <2>2 DEF StopFind
    <3>2. SubInv'
      BY <2>1, <3>1 DEF SubInv, maps
    <3>3. sub' # sub
      BY <2>1, <3>1
    <3> QED BY <2>1, <3>1, <3>2, <3>3, SubFrame
  <2>3. CASE ~Tracked(t)
    <3>1. sub' = sub
      BY <1>3, <2>3 DEF StopFind
    <3> QED BY <2>1, <3>1, SubFrame
  <2> QED BY <2>2, <2>3
<1>4. CASE StartSend
  BY <1>4, SendExec
<1>5. CASE StartSendFails
  <2>1. /\ UNCHANGED <<inbox, exec, outbox, lis, maps>> /\ todo' \subseteq todo
        /\ sub.pc = "send" /\ sub'.pc = "stuck"
    BY <1>5 DEF StartSendFails, procs, reqs, IndInv, TypeOK, Sub
  <2>2. sub' # sub
    BY <2>1
  <2> QED BY <2>1, <2>2, SubFrame
<1>6. CASE StartRecord
  <2>1. /\ UNCHANGED <<inbox, exec, outbox, lis, maps>> /\ todo' \subseteq todo
        /\ sub.pc = "record" /\ sub'.pc = "idle"
    BY <1>6 DEF StartRecord, procs, IdleSub
  <2>2. sub' # sub
    BY <2>1
  <2> QED BY <2>1, <2>2, SubFrame
<1>7. CASE StopSend
  BY <1>7, StopSendExec
<1>8. CASE StopSendFails
  <2>1. UNCHANGED <<inbox, exec, outbox, lis, maps>> /\ todo' \subseteq todo /\ sub.pc = "stop"
    BY <1>8 DEF StopSendFails, procs, reqs
  <2>2. CASE sub.tries + 1 < MaxRetries
    <3>1. sub' = [sub EXCEPT !.tries = @ + 1] /\ sub \in Sub
      BY <1>8, <2>2 DEF StopSendFails, IndInv, TypeOK
    <3>2. /\ sub'.pc = "stop" /\ sub'.task = sub.task /\ sub'.worker = sub.worker
          /\ sub'.tries = sub.tries + 1 /\ sub.tries \in Nat
      BY <2>1, <3>1 DEF Sub
    <3>3. SubInv'
      BY <2>1, <3>2 DEF ExecInv, SubInv, maps
    <3>4. sub' # sub
      BY <3>2
    <3> QED BY <2>1, <3>2, <3>3, <3>4, SubFrame
  <2>3. CASE ~(sub.tries + 1 < MaxRetries)
    <3>1. sub'.pc = "stuck"
      BY <1>8, <2>3 DEF StopSendFails, IndInv, TypeOK, Sub
    <3>2. sub' # sub
      BY <2>1, <3>1
    <3> QED BY <2>1, <3>1, <3>2, SubFrame
  <2> QED BY <2>2, <2>3
<1>9. CASE StopUntrack
  <2>1. PICK t \in Tasks : t = sub.task
    BY <1>9 DEF StopUntrack, IndInv, LockInv
  <2>2. /\ RemoveTask(ChanOf[t], t) /\ UNCHANGED <<inbox, exec, outbox, lis, todo>>
        /\ sub.pc = "untrack" /\ sub'.pc = "idle"
    BY <1>9, <2>1 DEF StopUntrack, procs, reqs, IdleSub
  <2>3. \A w \in Workers, i \in Nat : Started(w, i, t) => StopAfter(w, i, t)
    BY <2>1, <2>2 DEF ExecInv, SubInv
  <2>4. TrackInv'
    BY <2>2, <2>3, RemoveKeepsTrack
  <2>5. ChannelInv' /\ OneChannelPerWorker'
        /\ \A v \in Workers, u \in Tasks, i \in Nat : Started(v, i, u)' <=> Started(v, i, u)
    BY <2>2, QuietKeeps
  <2>6. SubInv'
    BY <2>2 DEF SubInv
  <2>7. \A u \in Tasks : Unsent(u)' => Unsent(u)
    BY <2>2 DEF Unsent
  <2>8. OnceInv'
    BY <2>2, <2>5, <2>7, OnceFrame, QuietDone DEF ExecInv
  <2> QED BY <2>4, <2>5, <2>6, <2>8 DEF ExecInv
<1> QED BY <1>1, <1>2, <1>3, <1>4, <1>5, <1>6, <1>7, <1>8, <1>9 DEF SubNext

(* The steps of a listener.                                                *)
LEMMA LisExec == ASSUME IndInv, ExecInv, NEW w \in Workers, LisNext(w) PROVE ExecInv'
<1> USE WorkerManagerAssumption
<1> TypeOK
  BY DEF IndInv
<1>1. CASE LisRead(w)
  BY <1>1, ReadDone, ExecFrame DEF LisRead, reqs
<1>2. CASE LisFind(w)
  <2>1. lis[w].pc # "read" /\ UNCHANGED outbox
        /\ \E pc \in {"find", "remove", "state", "failRemove"} : LisGoto(w, pc)
    BY <1>2 DEF LisFind, LisStep, procs
  <2>2. UNCHANGED <<inbox, exec, maps, sub, todo>>
    BY <1>2 DEF LisFind, procs, reqs
  <2> QED BY <2>1, <2>2, LisKeepsDone, ExecFrame
<1>3. CASE FailLookupError(w) \/ FailUnassigned(w) \/ LisState(w)
  <2>1. lis[w].pc # "read" /\ UNCHANGED outbox
        /\ (LisDone(w) \/ \E pc \in {"find", "remove", "state", "failRemove"} : LisGoto(w, pc))
    BY <1>3 DEF FailLookupError, FailUnassigned, LisState, LisStep, procs
  <2>2. UNCHANGED <<inbox, exec, maps, sub, todo>>
    BY <1>3 DEF FailLookupError, FailUnassigned, LisState, procs, reqs
  <2> QED BY <2>1, <2>2, LisKeepsDone, ExecFrame
<1>4. CASE LisRemove(w) \/ FailRemove(w)
  <2>1. lis[w].pc # "read" /\ UNCHANGED outbox /\ mutex = "free"
        /\ (LisDone(w) \/ \E pc \in {"find", "remove", "state", "failRemove"} : LisGoto(w, pc))
    BY <1>4 DEF LisRemove, FailRemove, LisStep, procs
  <2>2. RemoveTask(ChanOf[lis[w].task], lis[w].task) /\ UNCHANGED <<inbox, exec, sub, todo>>
    BY <1>4 DEF LisRemove, FailRemove, procs, reqs
  <2>3. TrackInv' /\ SubInv'
    BY <2>1, <2>2, ListenerRemoves
  <2>4. ChannelInv' /\ OneChannelPerWorker'
        /\ \A v \in Workers, u \in Tasks, i \in Nat : Started(v, i, u)' <=> Started(v, i, u)
    BY <2>2, QuietKeeps
  <2>5. \A u \in Tasks : Unsent(u)' => Unsent(u)
    BY <2>2 DEF Unsent
  <2>6. sub'.pc = "send" => sub'.task \notin todo'
    BY <2>2 DEF ExecInv, OnceInv
  <2>7. OnceInv'
    BY <2>1, <2>4, <2>5, <2>6, OnceFrame, LisKeepsDone DEF ExecInv
  <2> QED BY <2>3, <2>4, <2>7 DEF ExecInv
<1>5. CASE FailSendStop(w)
  <2>1. PICK t \in Tasks : t = lis[w].task
    BY <1>5 DEF FailSendStop, LisStep, IndInv, LockInv
  <2>2. lis[w].pc # "read" /\ UNCHANGED outbox
        /\ \E pc \in {"find", "remove", "state", "failRemove"} : LisGoto(w, pc)
    BY <1>5 DEF FailSendStop, LisStep
  <2>3. UNCHANGED <<exec, maps, sub, todo>>
    BY <1>5 DEF FailSendStop, reqs
  <2>4. \A u \in Tasks : Done(u)' => Done(u)
    BY <2>2, LisKeepsDone
  <2>5. CASE process[w] = "up"
    <3>1. Send(w, "stop", t)
      BY <1>5, <2>1, <2>5 DEF FailSendStop
    <3>2. Keeps /\ ChannelInv' /\ OneChannelPerWorker'
          /\ \A v \in Workers, u \in Tasks, i \in Nat : Started(v, i, u)' <=> Started(v, i, u)
      BY <2>3, <3>1, StopKeeps
    <3>3. TrackInv' /\ SubInv'
      BY <2>3, <3>2, KeepsTrack, KeepsSub DEF IndInv, ExecInv, maps
    <3>4. \A u \in Tasks : Unsent(u)' => Unsent(u)
      BY <2>3 DEF Unsent
    <3>5. sub'.pc = "send" => sub'.task \notin todo'
      BY <2>3 DEF ExecInv, OnceInv
    <3>6. OnceInv'
      BY <2>4, <3>2, <3>4, <3>5, OnceFrame DEF ExecInv
    <3> QED BY <3>2, <3>3, <3>6 DEF ExecInv
  <2>6. CASE process[w] # "up"
    <3>1. UNCHANGED inbox
      BY <1>5, <2>6 DEF FailSendStop
    <3> QED BY <2>3, <2>4, <3>1, ExecFrame
  <2> QED BY <2>5, <2>6
<1> QED BY <1>1, <1>2, <1>3, <1>4, <1>5 DEF LisNext

(* A worker that takes a command still starts every task once, when it     *)
(* answers only for what it has taken or executed and no longer executes.  *)
LEMMA ShiftOnce ==
  ASSUME TypeOK, OnceInv, NEW w \in Workers, inbox[w] # <<>>, Take(w), Shifts(w), UNCHANGED <<todo, sub>>,
         \A u \in Tasks : Done(u)' =>
           Done(u) \/ (u \notin exec'[w] /\ (Started(w, 0, u) \/ Started(w, 1, u)))
  PROVE  OnceInv'
<1>1. ASSUME NEW v \in Workers, NEW u \in Tasks, NEW i \in Nat, Started(v, i, u)'
      PROVE  \/ v # w /\ Started(v, i, u)
             \/ v = w /\ i > 0 /\ Started(v, i + 1, u)
             \/ v = w /\ i = 0 /\ u \in exec'[w] /\ (Started(v, 0, u) \/ Started(v, 1, u))
  <2>1. CASE v # w
    BY <1>1, <2>1, ShiftPlaces
  <2>2. CASE v = w /\ i > 0
    BY <1>1, <2>2, ShiftPlaces
  <2>3. CASE v = w /\ i = 0
    <3>1. u \in exec'[w]
      BY <1>1, <2>3 DEF Started
    <3> QED BY <1>1, <2>3, <3>1, ShiftPlaces
  <2> QED BY <2>1, <2>2, <2>3
<1>2. ASSUME NEW v \in Workers, NEW u \in Tasks, NEW i \in Nat, Started(v, i, u)'
      PROVE  \E k \in Nat : Started(v, k, u)
  BY <1>1, <1>2
<1>3. ASSUME NEW v \in Workers, NEW x \in Workers, NEW u \in Tasks, NEW i \in Nat, NEW k \in Nat,
             Started(v, i, u)', Started(x, k, u)'
      PROVE  v = x /\ i = k
  <2>1. v = x
    BY <1>2, <1>3 DEF OnceInv
  <2>2. CASE v # w
    BY <1>1, <1>3, <2>1, <2>2 DEF OnceInv
  <2>3. CASE v = w
    <3>1. ASSUME NEW a \in Nat, a > 0, Started(w, a + 1, u), Started(w, 0, u) \/ Started(w, 1, u) PROVE FALSE
      <4>1. a + 1 \in Nat /\ a + 1 # 0 /\ a + 1 # 1
        BY <3>1
      <4> QED BY <3>1, <4>1 DEF OnceInv
    <3>2. CASE i > 0 /\ k > 0
      <4>1. Started(w, i + 1, u) /\ Started(w, k + 1, u) /\ i + 1 \in Nat /\ k + 1 \in Nat
        BY <1>1, <1>3, <2>1, <2>3, <3>2
      <4>2. i + 1 = k + 1
        BY <4>1 DEF OnceInv
      <4> QED BY <2>1, <4>2
    <3>3. CASE i = 0 /\ k > 0
      BY <1>1, <1>3, <2>1, <2>3, <3>1, <3>3
    <3>4. CASE k = 0 /\ i > 0
      BY <1>1, <1>3, <2>1, <2>3, <3>1, <3>4
    <3> QED BY <2>1, <3>2, <3>3, <3>4
  <2> QED BY <2>2, <2>3
<1>4. ASSUME NEW v \in Workers, NEW u \in Tasks, NEW i \in Nat, Started(v, i, u)', Done(u)', ~Done(u)
      PROVE  FALSE
  <2>1. u \notin exec'[w] /\ (Started(w, 0, u) \/ Started(w, 1, u))
    BY <1>4
  <2>2. v = w /\ i > 0 /\ Started(w, i + 1, u)
    <3>1. PICK k \in Nat : Started(v, k, u)
      BY <1>2, <1>4
    <3>2. v = w
      BY <2>1, <3>1 DEF OnceInv
    <3> QED BY <1>1, <1>4, <2>1, <3>2
  <2>3. i + 1 \in Nat /\ i + 1 # 0 /\ i + 1 # 1
    BY <2>2
  <2> QED BY <2>1, <2>2, <2>3 DEF OnceInv
<1>5. ASSUME NEW u \in Tasks, Done(u)'
      PROVE  Done(u) \/ \E v \in Workers, k \in Nat : Started(v, k, u)
  <2>1. CASE Done(u)
    BY <2>1
  <2>2. CASE ~Done(u)
    BY <1>5, <2>2
  <2> QED BY <2>1, <2>2
<1> QED BY <1>2, <1>3, <1>4, <1>5, OnceAnswer

(* A worker that takes a command from its socket.                          *)
LEMMA TakeExec == ASSUME IndInv, ExecInv, NEW w \in Workers, WorkerNext(w) PROVE ExecInv'
<1> TypeOK
  BY DEF IndInv
<1>1. PICK t \in Tasks : t = Head(inbox[w]).task
  <2>1. Head(inbox[w]) \in Commands
    BY DEF WorkerNext, WorkerStart, WorkerStop, Command, TypeOK
  <2> QED BY <2>1 DEF Commands
<1>2. /\ inbox[w] # <<>> /\ Take(w)
      /\ UNCHANGED <<todo, sub, lis, chTasks, chWorker>>
  BY DEF WorkerNext, WorkerStart, WorkerStop, Command, maps, reqs
<1>3. Len(inbox[w]) \in Nat /\ Len(inbox[w]) > 0 /\ Head(inbox[w]) = inbox[w][1]
  BY <1>2 DEF TypeOK
<1>4. CASE WorkerStart(w)
  <2>1. Started(w, 1, t) /\ \A u \in Tasks : ~StopAt(w, 1, u)
    BY <1>1, <1>3, <1>4 DEF WorkerStart, Command, Started, StopAt
  <2>2. CASE exec' = [exec EXCEPT ![w] = @ \cup {t}] /\ UNCHANGED outbox
    <3>1. Shifts(w)
      BY <2>1, <2>2 DEF Shifts, TypeOK
    <3>2. \A u \in Tasks : Done(u)' => Done(u)
      BY <1>2, <2>2, QuietDone
    <3> QED BY <1>2, <3>1, <3>2, ShiftOnce, ShiftKeeps, KeepsTrack, KeepsSub DEF IndInv, ExecInv
  <2>3. CASE UNCHANGED exec /\ (Reply(w, t, "failed") \/ UNCHANGED outbox)
    <3>1. Shifts(w)
      BY <2>1, <2>3 DEF Shifts, TypeOK
    <3>2. \A u \in Tasks : Done(u)' => Done(u) \/ u = t
      BY <1>2, <2>3, QuietDone, ReplyDone
    <3>3. t \notin exec'[w]
      <4>1. ~Started(w, 0, t)
        BY <2>1 DEF ExecInv, OnceInv
      <4> QED BY <2>3, <4>1 DEF Started
    <3>4. \A u \in Tasks : Done(u)' =>
            Done(u) \/ (u \notin exec'[w] /\ (Started(w, 0, u) \/ Started(w, 1, u)))
      BY <2>1, <3>2, <3>3
    <3> QED BY <1>2, <3>1, <3>4, ShiftOnce, ShiftKeeps, KeepsTrack, KeepsSub DEF IndInv, ExecInv
  <2> QED BY <1>1, <1>4, <2>2, <2>3 DEF WorkerStart
<1>5. CASE WorkerStop(w)
  <2>1. /\ exec' = [exec EXCEPT ![w] = @ \ {t}]
        /\ IF t \in exec[w] THEN Reply(w, t, "success") ELSE UNCHANGED outbox
    BY <1>1, <1>5 DEF WorkerStop
  <2>2. \A u \in Tasks : StopAt(w, 1, u) => u = t
    BY <1>1, <1>3 DEF StopAt
  <2>3. Shifts(w)
    BY <2>1, <2>2 DEF Shifts, TypeOK
  <2>4. \A u \in Tasks : Done(u)' => Done(u) \/ (u = t /\ t \in exec[w])
    BY <1>2, <2>1, QuietDone, ReplyDone
  <2>5. t \notin exec'[w] /\ (t \in exec[w] => Started(w, 0, t))
    BY <2>1 DEF TypeOK, Started
  <2>6. \A u \in Tasks : Done(u)' =>
          Done(u) \/ (u \notin exec'[w] /\ (Started(w, 0, u) \/ Started(w, 1, u)))
    BY <2>4, <2>5
  <2> QED BY <1>2, <2>3, <2>6, ShiftOnce, ShiftKeeps, KeepsTrack, KeepsSub DEF IndInv, ExecInv
<1> QED BY <1>4, <1>5 DEF WorkerNext

(* A task that ends by itself, and a process that dies: less is executed.  *)
LEMMA EndExec ==
  ASSUME IndInv, ExecInv, NEW w \in Workers, (\E t \in Tasks : WorkerEnd(w, t)) \/ WorkerDies(w)
  PROVE  ExecInv'
<1> TypeOK
  BY DEF IndInv
<1>1. CASE WorkerDies(w)
  <2>1. /\ \A v \in Workers : v # w => inbox'[v] = inbox[v] /\ exec'[v] = exec[v]
        /\ inbox'[w] = <<>> /\ exec'[w] = {}
        /\ UNCHANGED <<outbox, lis, todo, sub, chTasks, chWorker>>
    BY <1>1 DEF WorkerDies, TypeOK, maps, reqs
  <2>2. ASSUME NEW v \in Workers, NEW u \in Tasks, NEW i \in Nat, Started(v, i, u)' PROVE v # w /\ Started(v, i, u)
    BY <2>1, <2>2 DEF Started
  <2>3. ASSUME NEW v \in Workers, NEW u \in Tasks, NEW j \in Nat, v # w PROVE StopAt(v, j, u) => StopAt(v, j, u)'
    BY <2>1, <2>3 DEF StopAt
  <2>4. Keeps
    BY <2>2, <2>3 DEF Keeps, StopAfter
  <2>5. ChannelInv'
    BY <2>2, <2>3 DEF ExecInv, ChannelInv, StopBetween
  <2>6. OneChannelPerWorker'
    BY <2>1 DEF ExecInv, OneChannelPerWorker
  <2>7. OnceInv'
    <3>1. \A u \in Tasks : (Unsent(u)' => Unsent(u)) /\ (Done(u)' => Done(u))
      BY <2>1, QuietDone DEF Unsent
    <3>2. sub'.pc = "send" => sub'.task \notin todo'
      BY <2>1 DEF ExecInv, OnceInv
    <3> QED BY <2>2, <3>1, <3>2, OnceFrame DEF ExecInv
  <2> QED BY <2>1, <2>4, <2>5, <2>6, <2>7, KeepsTrack, KeepsSub DEF IndInv, ExecInv
<1>2. ASSUME NEW t \in Tasks, WorkerEnd(w, t) PROVE ExecInv'
  <2>1. /\ exec' = [exec EXCEPT ![w] = @ \ {t}] /\ t \in exec[w]
        /\ UNCHANGED <<inbox, lis, todo, sub, chTasks, chWorker>>
    BY <1>2 DEF WorkerEnd, maps, reqs
  <2>2. PICK out \in Endings : Reply(w, t, out)
    BY <1>2 DEF WorkerEnd
  <2>3. Started(w, 0, t)
    BY <2>1 DEF Started
  <2>4. ASSUME NEW v \in Workers, NEW u \in Tasks, NEW i \in Nat, Started(v, i, u)'
        PROVE  Started(v, i, u) /\ (v = w /\ i = 0 => u # t)
    BY <2>1, <2>4 DEF Started, TypeOK
  <2>5. \A v \in Workers, u \in Tasks, j \in Nat : StopAt(v, j, u)' <=> StopAt(v, j, u)
    BY <2>1 DEF StopAt
  <2>6. Keeps
    BY <2>4, <2>5 DEF Keeps, StopAfter
  <2>7. ChannelInv'
    BY <2>4, <2>5 DEF ExecInv, ChannelInv, StopBetween
  <2>8. OneChannelPerWorker'
    BY <2>1 DEF ExecInv, OneChannelPerWorker, TypeOK
  <2>9. OnceInv'
    <3>1. \A u \in Tasks : Done(u)' => Done(u) \/ u = t
      BY <2>1, <2>2, ReplyDone
    <3>2. ASSUME NEW v \in Workers, NEW i \in Nat, Started(v, i, t)' PROVE FALSE
      BY <2>3, <2>4, <3>2 DEF ExecInv, OnceInv
    <3>3. \A v \in Workers, u \in Tasks, i \in Nat : Started(v, i, u)' =>
            (\E k \in Nat : Started(v, k, u)) /\ (Done(u)' => Done(u))
      BY <2>4, <3>1, <3>2
    <3>4. \A u \in Tasks : Done(u)' => Done(u) \/ \E v \in Workers, k \in Nat : Started(v, k, u)
      BY <2>3, <3>1
    <3>5. \A v, x \in Workers, u \in Tasks, i, k \in Nat :
            Started(v, i, u)' /\ Started(x, k, u)' => v = x /\ i = k
      BY <2>4 DEF ExecInv, OnceInv
    <3> QED BY <2>1, <3>3, <3>4, <3>5, OnceAnswer DEF ExecInv
  <2> QED BY <2>1, <2>6, <2>7, <2>8, <2>9, KeepsTrack, KeepsSub DEF IndInv, ExecInv
<1> QED BY <1>1, <1>2

-----------------------------------------------------------------------------
(* Nothing is executed at the start of the manager.                        *)
LEMMA ExecInit == ASSUME Init PROVE ExecInv
<1>1. \A w \in Workers, t \in Tasks, i \in Nat : ~Started(w, i, t)
  BY DEF Init, Started
<1>2. \A t \in Tasks : ~Done(t)
  BY DEF Init, Done, Answered, IdleLis
<1>3. sub.pc = "idle"
  BY DEF Init, IdleSub
<1>4. OneChannelPerWorker
  BY DEF Init, OneChannelPerWorker
<1> QED BY <1>1, <1>2, <1>3, <1>4 DEF ExecInv, TrackInv, ChannelInv, OnceInv, SubInv

(* Every step of every process keeps what is said of the tasks executed.   *)
LEMMA ExecStep == ASSUME IndInv, ExecInv, [Next]_vars PROVE ExecInv'
<1>1. CASE SubNext
  BY <1>1, SubExec
<1>2. ASSUME NEW w \in Workers, LisNext(w) PROVE ExecInv'
  BY <1>2, LisExec
<1>3. ASSUME NEW w \in Workers, MonitorStart(w) PROVE ExecInv'
  <2>1. UNCHANGED <<inbox, exec, maps, sub, todo, outbox, lis>>
    BY <1>3 DEF MonitorStart, reqs
  <2> QED BY <2>1, ExecFrame, QuietDone
<1>4. ASSUME NEW w \in Workers, WorkerNext(w) PROVE ExecInv'
  BY <1>4, TakeExec
<1>5. ASSUME NEW w \in Workers, (\E t \in Tasks : WorkerEnd(w, t)) \/ WorkerDies(w) PROVE ExecInv'
  BY <1>5, EndExec
<1>6. CASE UNCHANGED vars
  <2>1. UNCHANGED <<inbox, exec, maps, sub, todo, outbox, lis>>
    BY <1>6 DEF vars, procs, reqs
  <2> QED BY <2>1, ExecFrame, QuietDone
<1> QED BY <1>1, <1>2, <1>3, <1>4, <1>5, <1>6 DEF Next

(* What workers were told to execute stays within what the maps and the    *)
(* stops on the sockets account for.                                       *)
THEOREM ExecInvHolds == Spec => []ExecInv
<1>1. Init => IndInv /\ ExecInv
  BY IndInvInit, ExecInit
<1>2. IndInv /\ ExecInv /\ [Next]_vars => ExecInv'
  BY ExecStep
<1> QED BY IndInvHolds, <1>1, <1>2, PTL DEF Spec

(* No worker ever executes tasks of two channels, although the manager     *)
(* takes it for idle, and assigns it again, while stops are under way.     *)
THEOREM AlwaysOneChannelPerWorker == Spec => []OneChannelPerWorker
<1>1. ExecInv => OneChannelPerWorker
  BY DEF ExecInv
<1> QED BY ExecInvHolds, <1>1, PTL

(* A task that a worker executes is always found by a stop request, or a   *)
(* stop is on its way to the worker: none is left running for ever.        *)
THEOREM NeverOrphan == Spec => []NoOrphan
<1>1. IndInv /\ ExecInv => NoOrphan
  <2> SUFFICES ASSUME IndInv, ExecInv, NEW w \in Workers, NEW t \in exec[w]
               PROVE  \/ t \in chTasks[ChanOf[t]] /\ chWorker[ChanOf[t]] = w
                      \/ \E i \in DOMAIN inbox[w] : inbox[w][i] = [act |-> "stop", task |-> t]
    BY DEF NoOrphan
  <2>1. t \in Tasks /\ Started(w, 0, t)
    BY DEF IndInv, TypeOK, Started
  <2>2. OnWorker(w, t) \/ StopAfter(w, 0, t)
    BY <2>1 DEF ExecInv, TrackInv
  <2>3. ASSUME StopAfter(w, 0, t)
        PROVE  \E i \in DOMAIN inbox[w] : inbox[w][i] = [act |-> "stop", task |-> t]
    <3>1. PICK j \in Nat : StopAt(w, j, t)
      BY <2>3 DEF StopAfter
    <3>2. j \in DOMAIN inbox[w] /\ inbox[w][j] \in Commands
      BY <3>1 DEF StopAt, IndInv, TypeOK
    <3>3. inbox[w][j].act = "stop" /\ inbox[w][j].task = t
      BY <3>1 DEF StopAt
    <3>4. inbox[w][j] = [act |-> "stop", task |-> t]
      BY <3>2, <3>3 DEF Commands
    <3> QED BY <3>2, <3>4
  <2> QED BY <2>2, <2>3 DEF OnWorker
<1> QED BY IndInvHolds, ExecInvHolds, <1>1, PTL
=============================================================================
