-------------------------- MODULE TaskQueueProofs --------------------------
(***************************************************************************)
(* What the leases of the task store guarantee, for any number of pods,    *)
(* start and stop requests, channels and crashes: the Unraced properties   *)
(* of TaskQueue hold in every reachable state.                             *)
(***************************************************************************)
EXTENDS TaskQueue, FiniteSetTheorems, TLAPS

-----------------------------------------------------------------------------
(* The state                                                               *)

States == {"NONE", "ENQUEUED", "PROCESSING", "STOPPING"} \cup Terminal
Owner  == Pods \cup {NoPod}
Record == [state : States, pod : Owner, worker : BOOLEAN]

SubPcs == SubRmw \cup {"idle", "popped", "retarget", "start", "track", "lookup", "find"}
LisPcs == LisRmw \cup {"idle", "untrack", "inspect", "drop", "unlease"}

RedisType ==
  /\ task \in [Ids -> Record]
  /\ queue \in [Channels -> Seq(Ids)]
  /\ stopQ \in [Pods -> Seq(Ids)]
  /\ proc \in [Pods -> [Ids -> Nat]]
  /\ lease \in [Ids -> Owner]

ApiType == api \in [Ids -> [pc : {"new", "checked", "done"}, pod : Owner, worker : BOOLEAN]]

LocalType ==
  /\ alive \subseteq Pods
  /\ tracked \in [Pods -> SUBSET Starts]
  /\ active \in [Pods -> SUBSET Ids]
  /\ running \in [Pods -> SUBSET Starts]
  /\ halting \in [Pods -> SUBSET Starts]
  /\ raced \subseteq Ids

(* A goroutine is at a step of the kind of its ID: a start is never        *)
(* stopped in the place of another task, and a stop never started.         *)
SubType ==
  /\ sub \in [Pods -> [pc : SubPcs, id : Ids, got : BOOLEAN, copy : Record]]
  /\ \A p \in Pods : sub[p].pc \in {"start", "work", "ack", "track", "fail"} => sub[p].id \in Starts
  /\ \A p \in Pods : sub[p].pc \in {"mark", "lookup", "find", "final", "sack"} => sub[p].id \in Stops
  /\ \A p \in Pods : sub[p].pc = "retarget" /\ sub[p].id \in Starts => ~sub[p].got

LisType == lis \in [Pods -> [Starts -> [pc : LisPcs, out : {"success", "failed", "unrecoverable"},
                                        got : BOOLEAN, copy : Record]]]
RenType == ren \in [Pods -> [pc : {"scan", "get", "set"}, id : Ids, snap : SUBSET Ids, copy : Record]]
ClnType == cln \in [Pods -> [pc : {"idle", "get", "decide"}, id : Ids, from : Pods, copy : Record]]

TypeOK == RedisType /\ ApiType /\ LocalType /\ SubType /\ LisType /\ RenType /\ ClnType

(* A dead pod does nothing.                                                *)
DeadInv ==
  \A p \in Pods \ alive :
    /\ running[p] = {} /\ halting[p] = {} /\ tracked[p] = {} /\ active[p] = {}
    /\ sub[p].pc = "idle" /\ ren[p].pc = "scan" /\ cln[p].pc = "idle"
    /\ \A t \in Starts : lis[p][t].pc = "idle"

-----------------------------------------------------------------------------
(* What is known of an ID                                                  *)

Queued(id) == \E c \in Channels : \E i \in DOMAIN queue[c] : queue[c][i] = id

(* Pod p works on the start t: its subscriber from the claim on, a worker, *)
(* or the listener that handles its completion.                            *)
Handling(p, t) == sub[p].id = t /\ sub[p].pc \in {"start", "work", "ack", "track", "fail"}
Owns(p, t) == Handling(p, t) \/ t \in running[p] \/ lis[p][t].pc # "idle"

Finished(t) == task[t].state \in Terminal

(* The pod renews the lease, is about to, or is about to end the task.     *)
Keeps(p, t) ==
  \/ t \in active[p] \/ Handling(p, t)
  \/ sub[p].pc = "final" /\ Orig[sub[p].id] = t

(* Nothing is known of an ID before its request was published, and no stop *)
(* is accepted for a task that was never published.                        *)
IdleAt(p, id) ==
  /\ sub[p].id = id => sub[p].pc = "idle"
  /\ cln[p].id = id => cln[p].pc = "idle"
  /\ id \in Starts => id \notin running[p] /\ lis[p][id].pc = "idle"

Absent(id) ==
  /\ ~Queued(id) /\ lease[id] = NoPod
  /\ \A p \in Pods : /\ \A i \in DOMAIN stopQ[p] : stopQ[p][i] # id
                     /\ proc[p][id] = 0 /\ IdleAt(p, id)

PublishInv ==
  /\ \A id \in Ids : api[id].pc # "done" => Absent(id)
  /\ \A s \in Stops : api[s].pc # "new" /\ Orig[s] \notin raced => task[Orig[s]].state # "NONE"

(* One entry: in a queue, or in one processing list.                       *)
OnceQueued(t) ==
  \A c, d \in Channels : \A i \in DOMAIN queue[c], j \in DOMAIN queue[d] :
    queue[c][i] = t /\ queue[d][j] = t => c = d /\ i = j
NotStopQueued(t) == \A p \in Pods : \A i \in DOMAIN stopQ[p] : stopQ[p][i] # t

EntryInv(t) ==
  /\ OnceQueued(t) /\ NotStopQueued(t)
  /\ \A p \in Pods : proc[p][t] <= 1
  /\ \A p, q \in Pods : proc[p][t] > 0 /\ proc[q][t] > 0 => p = q
  /\ Queued(t) => \A p \in Pods : proc[p][t] = 0
  /\ Unfinished(t) => Queued(t) \/ \E p \in Pods : proc[p][t] > 0

(* A waiting task, and one that was popped and not claimed, belongs to     *)
(* nobody.                                                                 *)
Free(t) == lease[t] = NoPod /\ task[t].pod = NoPod /\ \A p \in Pods : ~Owns(p, t)

FreeInv(t) ==
  /\ Queued(t) => Free(t)
  /\ \A p \in Pods : Unclaimed(p, t) =>
       /\ Free(t) /\ sub[p].pc # "retarget"
       /\ ~Finished(t) => proc[p][t] > 0

(* A task belongs to one pod; until it is finished that pod has its lease  *)
(* and its entry.                                                          *)
OwnerInv(t) ==
  /\ \A p, q \in Pods : Owns(p, t) /\ Owns(q, t) => p = q
  /\ \A p \in Pods : Owns(p, t) /\ ~Finished(t) => lease[t] = p /\ proc[p][t] > 0 /\ Keeps(p, t)

(* A worker that nobody told to stop has the lease even of a task that was *)
(* finished by the stop of another pod, and so has who is to start it.     *)
Working(p, t) == t \in running[p] \ halting[p] \/ (sub[p].id = t /\ sub[p].pc = "start")
LeasedAt(p, t) == Working(p, t) => lease[t] = p /\ (t \in active[p] \/ Handling(p, t))

(* The stages of a task in its pod.                                        *)
StageAt(p, t) ==
  /\ lis[p][t].pc # "idle" => t \notin running[p]
  /\ sub[p].id = t /\ sub[p].pc \in {"start", "fail"} => lis[p][t].pc = "idle" /\ t \notin running[p]
  /\ lis[p][t].pc \in {"untrack", "drop", "unlease"} => Finished(t)
  /\ t \in running[p] => t \in tracked[p] \cup halting[p]

TaskOK(t) ==
  /\ EntryInv(t) /\ FreeInv(t) /\ OwnerInv(t)
  /\ \A p \in Pods : LeasedAt(p, t) /\ StageAt(p, t)

TaskInv == \A t \in Starts \ raced : TaskOK(t)

Inv == TypeOK /\ DeadInv /\ PublishInv /\ TaskInv

-----------------------------------------------------------------------------
(* Constants and sequences                                                 *)

(* The place holder of an idle goroutine is an ID.                         *)
LEMMA AnIdIsId == AnId \in Ids
BY TaskQueueAssumption DEF AnId, Ids

(* LPUSH puts an element before the others.                                *)
LEMMA PushSeq ==
  ASSUME NEW S, NEW s \in Seq(S), NEW x \in S
  PROVE  /\ <<x>> \o s \in Seq(S)
         /\ Len(<<x>> \o s) = Len(s) + 1
         /\ (<<x>> \o s)[1] = x
         /\ \A i \in 1..Len(s) : (<<x>> \o s)[i + 1] = s[i]
         /\ \A i \in 1..(Len(s) + 1) : i # 1 => i - 1 \in 1..Len(s) /\ (<<x>> \o s)[i] = s[i - 1]
OBVIOUS

(* A prefix has the length it was cut to.                                  *)
LEMMA PrefixLen ==
  ASSUME NEW S, NEW s \in Seq(S), NEW n \in Nat, n <= Len(s)
  PROVE  Len(SubSeq(s, 1, n)) = n
OBVIOUS

(* The pop of BRPOPLPUSH takes the last element.                           *)
LEMMA PopSeq ==
  ASSUME NEW S, NEW s \in Seq(S), s # <<>>
  PROVE  /\ Front(s) \in Seq(S)
         /\ Len(s) \in Nat \ {0}
         /\ Len(Front(s)) = Len(s) - 1
         /\ Last(s) = s[Len(s)] /\ Last(s) \in S
         /\ \A i \in 1..(Len(s) - 1) : Front(s)[i] = s[i]
<1>1. Len(s) \in Nat \ {0} /\ \A i \in 1..Len(s) : s[i] \in S
  OBVIOUS
<1>2. SubSeq(s, 1, Len(s) - 1) \in Seq(S)
  BY <1>1
<1>3. Len(SubSeq(s, 1, Len(s) - 1)) = Len(s) - 1
  <2> DEFINE n == Len(s) - 1
  <2>1. n \in Nat /\ n <= Len(s)
    BY <1>1
  <2> HIDE DEF n
  <2>2. Len(SubSeq(s, 1, n)) = n
    BY <2>1, PrefixLen
  <2> QED BY <2>2 DEF n
<1>4. \A i \in 1..(Len(s) - 1) : SubSeq(s, 1, Len(s) - 1)[i] = s[i]
  BY <1>1
<1> QED BY <1>1, <1>2, <1>3, <1>4 DEF Front, Last

(* RPUSH puts an element after the others.                                 *)
LEMMA AppendSeq ==
  ASSUME NEW S, NEW s \in Seq(S), NEW x \in S
  PROVE  /\ Append(s, x) \in Seq(S)
         /\ Len(Append(s, x)) = Len(s) + 1
         /\ Append(s, x)[Len(s) + 1] = x
         /\ \A i \in 1..Len(s) : Append(s, x)[i] = s[i]
OBVIOUS

-----------------------------------------------------------------------------
(* Steps of the subscriber and of LREM                                     *)

StartPcs == {"start", "work", "ack", "track", "fail"}
StopPcs  == {"mark", "lookup", "find", "final", "sack"}

(* A subscriber that gets a record as its own keeps its type.              *)
LEMMA SubUpdate ==
  ASSUME SubType, NEW p \in Pods, NEW r \in [pc : SubPcs, id : Ids, got : BOOLEAN, copy : Record],
         sub' = [sub EXCEPT ![p] = r],
         r.pc \in StartPcs => r.id \in Starts,
         r.pc \in StopPcs => r.id \in Stops,
         r.pc = "retarget" /\ r.id \in Starts => ~r.got
  PROVE  SubType'
<1>1. sub' \in [Pods -> [pc : SubPcs, id : Ids, got : BOOLEAN, copy : Record]]
  BY DEF SubType
<1>2. sub'[p] = r /\ \A q \in Pods \ {p} : sub'[q] = sub[q]
  BY DEF SubType
<1> QED BY <1>1, <1>2 DEF SubType, StartPcs, StopPcs

(* The next step of the subscriber.                                        *)
LEMMA GotoEffect ==
  ASSUME SubType, NEW p \in Pods, NEW pc \in SubPcs, SubGoto(p, pc),
         pc # "retarget",
         pc \in StartPcs => sub[p].id \in Starts,
         pc \in StopPcs => sub[p].id \in Stops
  PROVE  /\ SubType'
         /\ sub'[p].pc = pc /\ sub'[p].id = sub[p].id
         /\ \A q \in Pods \ {p} : sub'[q] = sub[q]
<1> DEFINE r == [sub[p] EXCEPT !.pc = pc, !.got = FALSE, !.copy = NoTask]
<1>1. sub' = [sub EXCEPT ![p] = r]
  BY DEF SubGoto
<1>2. NoTask \in Record
  BY DEF NoTask, Record, States, Owner
<1>3. sub[p] \in [pc : SubPcs, id : Ids, got : BOOLEAN, copy : Record]
  BY DEF SubType
<1>4. r \in [pc : SubPcs, id : Ids, got : BOOLEAN, copy : Record]
  BY <1>2, <1>3
<1>5. r.pc = pc /\ r.id = sub[p].id
  BY <1>3
<1>6. sub'[p] = r /\ \A q \in Pods \ {p} : sub'[q] = sub[q]
  BY <1>1 DEF SubType
<1> HIDE DEF r
<1>7. SubType'
  BY <1>1, <1>4, <1>5, SubUpdate
<1> QED BY <1>5, <1>6, <1>7

(* The end of what the subscriber does, and the state of one that popped.  *)
LEMMA IdleEffect ==
  ASSUME SubType, NEW p \in Pods, SubIdle(p)
  PROVE  /\ SubType'
         /\ sub'[p].pc = "idle"
         /\ \A q \in Pods \ {p} : sub'[q] = sub[q]
<1>1. NoTask \in Record
  BY DEF NoTask, Record, States, Owner
<1>2. IdleSub \in [pc : SubPcs, id : Ids, got : BOOLEAN, copy : Record] /\ IdleSub.pc = "idle"
  BY <1>1, AnIdIsId DEF IdleSub, SubPcs
<1>3. sub' = [sub EXCEPT ![p] = IdleSub]
  BY DEF SubIdle
<1>4. sub'[p] = IdleSub /\ \A q \in Pods \ {p} : sub'[q] = sub[q]
  BY <1>3 DEF SubType
<1>5. SubType'
  BY <1>2, <1>3, SubUpdate DEF StartPcs, StopPcs
<1> QED BY <1>2, <1>4, <1>5

(* LREM takes an entry away if there is one.                               *)
LEMMA LRemEffect ==
  ASSUME proc \in [Pods -> [Ids -> Nat]], NEW p \in Pods, NEW id \in Ids, proc' = LRem(p, id)
  PROVE  /\ proc' \in [Pods -> [Ids -> Nat]]
         /\ \A q \in Pods, x \in Ids : q # p \/ x # id => proc'[q][x] = proc[q][x]
         /\ proc'[p][id] = IF proc[p][id] > 0 THEN proc[p][id] - 1 ELSE 0
<1> DEFINE n == IF proc[p][id] > 0 THEN proc[p][id] - 1 ELSE 0
<1>1. proc' = [proc EXCEPT ![p] = [proc[p] EXCEPT ![id] = n]]
  BY DEF LRem
<1>2. n \in Nat
  OBVIOUS
<1> HIDE DEF n
<1>3. proc' \in [Pods -> [Ids -> Nat]]
  BY <1>1, <1>2
<1>4. \A q \in Pods, x \in Ids : q # p \/ x # id => proc'[q][x] = proc[q][x]
  BY <1>1
<1>5. proc'[p][id] = n
  BY <1>1
<1> QED BY <1>3, <1>4, <1>5 DEF n

(* BRPOPLPUSH: the entry moves to the processing list.                     *)
LEMMA PoppedEffect ==
  ASSUME TypeOK, NEW p \in Pods, NEW id \in Ids, Popped(p, id)
  PROVE  /\ SubType' /\ sub'[p].pc = "popped" /\ sub'[p].id = id
         /\ \A q \in Pods \ {p} : sub'[q] = sub[q]
         /\ proc' \in [Pods -> [Ids -> Nat]]
         /\ \A q \in Pods, x \in Ids : q # p \/ x # id => proc'[q][x] = proc[q][x]
         /\ proc'[p][id] = proc[p][id] + 1
<1>0. NoTask \in Record
  BY DEF NoTask, Record, States, Owner
<1> DEFINE r == [IdleSub EXCEPT !.pc = "popped", !.id = id]
<1>1. r \in [pc : SubPcs, id : Ids, got : BOOLEAN, copy : Record] /\ r.pc = "popped" /\ r.id = id
  BY <1>0 DEF IdleSub, SubPcs
<1>2. sub' = [sub EXCEPT ![p] = r]
  BY DEF Popped
<1> HIDE DEF r
<1>3. sub'[p] = r /\ \A q \in Pods \ {p} : sub'[q] = sub[q]
  BY <1>2 DEF TypeOK, SubType
<1>4. SubType'
  BY <1>1, <1>2, SubUpdate DEF TypeOK, StartPcs, StopPcs
<1> DEFINE n == proc[p][id] + 1
<1>5. n \in Nat /\ proc \in [Pods -> [Ids -> Nat]]
  BY DEF TypeOK, RedisType
<1>6. proc' = [proc EXCEPT ![p] = [proc[p] EXCEPT ![id] = n]]
  BY DEF Popped
<1> HIDE DEF n
<1>7. proc' \in [Pods -> [Ids -> Nat]]
  BY <1>5, <1>6
<1>8. \A q \in Pods, x \in Ids : q # p \/ x # id => proc'[q][x] = proc[q][x]
  BY <1>5, <1>6
<1>9. proc'[p][id] = n
  BY <1>5, <1>6
<1> QED BY <1>1, <1>3, <1>4, <1>7, <1>8, <1>9 DEF n

-----------------------------------------------------------------------------
(* Types                                                                   *)

(* The initial state has its types.                                        *)
LEMMA InitType == Init => TypeOK
<1> SUFFICES ASSUME Init PROVE TypeOK
  OBVIOUS
<1> USE AnIdIsId, TaskQueueAssumption DEF Init
<1>1. NoTask \in Record
  BY DEF NoTask, Record, States, Owner
<1>2. RedisType
  BY <1>1 DEF RedisType, Owner
<1>3. LocalType /\ ApiType
  BY DEF LocalType, ApiType, Owner
<1>4. SubType
  BY <1>1 DEF IdleSub, SubPcs, SubType
<1>5. LisType
  BY <1>1 DEF IdleLis, LisPcs, LisType
<1>6. RenType
  BY <1>1 DEF IdleRen, RenType
<1>7. ClnType
  BY <1>1 DEF IdleCln, ClnType
<1> QED BY <1>2, <1>3, <1>4, <1>5, <1>6, <1>7 DEF TypeOK

(* What an action leaves alone keeps its type.                             *)
LEMMA TypeFrame ==
  ASSUME TypeOK
  PROVE  /\ UNCHANGED redis => RedisType'
         /\ UNCHANGED api => ApiType'
         /\ UNCHANGED <<alive, local, raced>> => LocalType'
         /\ UNCHANGED sub => SubType'
         /\ UNCHANGED lis => LisType'
         /\ UNCHANGED ren => RenType'
         /\ UNCHANGED cln => ClnType'
<1> USE DEF TypeOK
<1>1. UNCHANGED redis => RedisType'
  BY DEF redis, RedisType
<1>2. UNCHANGED api => ApiType'
  BY DEF ApiType
<1>3. UNCHANGED <<alive, local, raced>> => LocalType'
  BY DEF local, LocalType
<1>4. UNCHANGED sub => SubType'
  BY DEF SubType
<1>5. UNCHANGED lis => LisType'
  BY DEF LisType
<1>6. UNCHANGED ren => RenType'
  BY DEF RenType
<1>7. UNCHANGED cln => ClnType'
  BY DEF ClnType
<1> QED BY <1>1, <1>2, <1>3, <1>4, <1>5, <1>6, <1>7

(* The requests of the API server.                                         *)
LEMMA TypeOfApi ==
  ASSUME TypeOK, ApiNext
  PROVE  TypeOK'
<1> USE TaskQueueAssumption DEF Ids
<1>1. ASSUME NEW t \in Starts, PublishCheck(t) PROVE TypeOK'
  <2>1. ApiType'
    BY <1>1 DEF PublishCheck, TypeOK, ApiType
  <2> QED BY <1>1, <2>1, TypeFrame DEF PublishCheck, TypeOK
<1>2. ASSUME NEW t \in Starts, PublishWrite(t) PROVE TypeOK'
  <2>1. queue' \in [Channels -> Seq(Ids)]
    BY <1>2, PushSeq DEF PublishWrite, TypeOK, RedisType, LPush
  <2>2. RedisType'
    BY <1>2, <2>1 DEF PublishWrite, TypeOK, RedisType, NoTask, Record, States, Owner
  <2>3. ApiType'
    BY <1>2 DEF PublishWrite, TypeOK, ApiType
  <2> QED BY <1>2, <2>2, <2>3, TypeFrame DEF PublishWrite, TypeOK
<1>3. ASSUME NEW s \in Stops, StopCheck(s) PROVE TypeOK'
  <2>1. ApiType'
    BY <1>3 DEF StopCheck, TypeOK, RedisType, ApiType, Record, Owner
  <2> QED BY <1>3, <2>1, TypeFrame DEF StopCheck, TypeOK
<1>4. ASSUME NEW s \in Stops, StopPublish(s) PROVE TypeOK'
  <2>1. ApiType' /\ api[s].pod \in Owner /\ api[s].worker \in BOOLEAN
    BY <1>4 DEF StopPublish, TypeOK, ApiType, Owner
  <2>2. queue' \in [Channels -> Seq(Ids)]
    <3>1. ChannelOf(s) \in Channels
      BY DEF ChannelOf
    <3>2. LPush(ChannelOf(s), s) \in [Channels -> Seq(Ids)]
      BY <3>1, PushSeq DEF TypeOK, RedisType, LPush
    <3> QED BY <1>4, <3>2 DEF StopPublish, TypeOK, RedisType
  <2>3. stopQ' \in [Pods -> Seq(Ids)]
    <3>1. CASE api[s].pod = NoPod
      BY <1>4, <3>1 DEF StopPublish, TypeOK, RedisType
    <3>2. CASE api[s].pod # NoPod
      <4>1. stopQ' = [stopQ EXCEPT ![api[s].pod] = <<s>> \o @] /\ api[s].pod \in Pods
        BY <1>4, <2>1, <3>2 DEF StopPublish, Owner
      <4> QED BY <4>1, PushSeq DEF TypeOK, RedisType
    <3> QED BY <3>1, <3>2
  <2>4. RedisType'
    BY <1>4, <2>1, <2>2, <2>3 DEF StopPublish, TypeOK, RedisType, Record, States
  <2> QED BY <1>4, <2>1, <2>4, TypeFrame DEF StopPublish, TypeOK
<1> QED BY <1>1, <1>2, <1>3, <1>4 DEF ApiNext

(* The subscriber, up to the claim.                                        *)
LEMMA TypeOfFetch ==
  ASSUME TypeOK, NEW p \in Pods
  PROVE  /\ PopStop(p) => TypeOK'
         /\ \A c \in Channels : PopQueue(p, c) => TypeOK'
         /\ Inspect(p) => TypeOK'
         /\ Retarget(p) => TypeOK'
         /\ SubGet(p) => TypeOK'
         /\ Claim(p) => TypeOK'
<1> USE TaskQueueAssumption DEF Ids
<1>1. ASSUME NEW id \in Ids, Popped(p, id), stopQ' \in [Pods -> Seq(Ids)], queue' \in [Channels -> Seq(Ids)]
      PROVE  TypeOK'
  <2>1. RedisType'
    BY <1>1, PoppedEffect DEF Popped, TypeOK, RedisType
  <2> QED BY <1>1, <2>1, PoppedEffect, TypeFrame DEF Popped, TypeOK
<1>2. ASSUME PopStop(p) PROVE TypeOK'
  <2>1. stopQ[p] \in Seq(Ids) /\ stopQ[p] # <<>>
    BY <1>2 DEF PopStop, TypeOK, RedisType
  <2>2. stopQ' \in [Pods -> Seq(Ids)] /\ queue' \in [Channels -> Seq(Ids)]
    BY <1>2, <2>1, PopSeq DEF PopStop, TypeOK, RedisType
  <2>3. Last(stopQ[p]) \in Ids
    BY <2>1, PopSeq
  <2> QED BY <1>1, <1>2, <2>2, <2>3 DEF PopStop
<1>3. ASSUME NEW c \in Channels, PopQueue(p, c) PROVE TypeOK'
  <2>1. queue[c] \in Seq(Ids) /\ queue[c] # <<>>
    BY <1>3 DEF PopQueue, TypeOK, RedisType
  <2>2. stopQ' \in [Pods -> Seq(Ids)] /\ queue' \in [Channels -> Seq(Ids)]
    BY <1>3, <2>1, PopSeq DEF PopQueue, TypeOK, RedisType
  <2>3. Last(queue[c]) \in Ids
    BY <2>1, PopSeq
  <2> QED BY <1>1, <1>3, <2>2, <2>3 DEF PopQueue
<1>4. ASSUME Inspect(p) PROVE TypeOK'
  <2> DEFINE id == sub[p].id
             r == [sub[p] EXCEPT !.pc = "retarget", !.got = (Deferred(id) # task[id]), !.copy = Deferred(id)]
  <2>1. id \in Ids /\ task[id] \in Record /\ (id \in Starts => Deferred(id) = task[id])
    BY DEF TypeOK, RedisType, SubType, Deferred
  <2>2. Deferred(id) \in Record
    BY <2>1 DEF TypeOK, RedisType, Record, Deferred
  <2>3. CASE SubGoto(p, "claim")
    BY <1>4, <2>3, GotoEffect, TypeFrame DEF Inspect, TypeOK, SubPcs, SubRmw, StartPcs, StopPcs
  <2>4. CASE sub' = [sub EXCEPT ![p] = r]
    <3>1. r \in [pc : SubPcs, id : Ids, got : BOOLEAN, copy : Record]
      <4>1. ASSUME NEW g \in BOOLEAN, NEW c \in Record
            PROVE  [sub[p] EXCEPT !.pc = "retarget", !.got = g, !.copy = c]
                     \in [pc : SubPcs, id : Ids, got : BOOLEAN, copy : Record]
        BY DEF TypeOK, SubType, SubPcs
      <4>2. (Deferred(id) # task[id]) \in BOOLEAN
        OBVIOUS
      <4> QED BY <2>2, <4>1, <4>2, Zenon
    <3>2. r.pc = "retarget" /\ r.id = id /\ r.got = (Deferred(id) # task[id])
      BY DEF TypeOK, SubType
    <3>3. SubType'
      BY <2>1, <2>4, <3>1, <3>2, SubUpdate DEF TypeOK, StartPcs, StopPcs
    <3> QED BY <1>4, <3>3, TypeFrame DEF Inspect, TypeOK
  <2> QED BY <1>4, <2>3, <2>4 DEF Inspect
<1>5. ASSUME Retarget(p) PROVE TypeOK'
  <2> DEFINE id == sub[p].id
             copy == sub[p].copy
  <2>1. id \in Ids /\ copy \in Record /\ copy.pod \in Owner
    BY DEF TypeOK, SubType, Record
  <2>2. task' \in [Ids -> Record]
    BY <1>5, <2>1 DEF Retarget, TypeOK, RedisType
  <2>3. CASE copy.pod \in {NoPod, p}
    <3>1. SubGoto(p, "claim") /\ UNCHANGED <<stopQ, proc>>
      BY <1>5, <2>3 DEF Retarget
    <3>2. SubType'
      BY <3>1, GotoEffect DEF TypeOK, SubPcs, SubRmw, StartPcs, StopPcs
    <3> QED BY <1>5, <2>2, <3>1, <3>2, TypeFrame DEF Retarget, TypeOK, RedisType
  <2>4. CASE copy.pod \notin {NoPod, p}
    <3>1. /\ proc' = LRem(p, id)
          /\ stopQ' = [stopQ EXCEPT ![copy.pod] = Append(@, id)]
          /\ SubIdle(p)
      BY <1>5, <2>4 DEF Retarget
    <3>2. SubType'
      BY <3>1, IdleEffect DEF TypeOK
    <3>3. stopQ' \in [Pods -> Seq(Ids)]
      BY <2>1, <2>4, <3>1, AppendSeq DEF TypeOK, RedisType, Owner
    <3>4. proc' \in [Pods -> [Ids -> Nat]]
      BY <2>1, <3>1, LRemEffect DEF TypeOK, RedisType
    <3> QED BY <1>5, <2>2, <3>2, <3>3, <3>4, TypeFrame DEF Retarget, TypeOK, RedisType
  <2> QED BY <2>3, <2>4
<1>6. ASSUME SubGet(p) PROVE TypeOK'
  <2> DEFINE r == [sub[p] EXCEPT !.got = TRUE, !.copy = task[Subject(p)]]
  <2>1. Subject(p) \in Ids
    BY DEF TypeOK, SubType, Subject
  <2>2. r \in [pc : SubPcs, id : Ids, got : BOOLEAN, copy : Record]
    BY <2>1 DEF TypeOK, RedisType, SubType
  <2>3. r.pc = sub[p].pc /\ r.id = sub[p].id /\ sub[p].pc # "retarget"
    BY <1>6 DEF SubGet, TypeOK, SubType, SubRmw
  <2>4. sub' = [sub EXCEPT ![p] = r]
    BY <1>6 DEF SubGet
  <2> HIDE DEF r
  <2>5. SubType'
    BY <2>2, <2>3, <2>4, SubUpdate DEF TypeOK, SubType, StartPcs, StopPcs
  <2> QED BY <1>6, <2>5, TypeFrame DEF SubGet, TypeOK
<1>7. ASSUME Claim(p) PROVE TypeOK'
  <2>1. RedisType'
    BY <1>7 DEF Claim, TypeOK, RedisType, SubType, Record, States, Owner
  <2>2. SubType'
    <3>1. sub[p].id \in Starts \/ (sub[p].id \in Stops /\ sub[p].id \notin Starts)
      BY DEF TypeOK, SubType
    <3> QED BY <1>7, <3>1, GotoEffect DEF Claim, TypeOK, SubPcs, SubRmw, StartPcs, StopPcs
  <2>3. LocalType'
    BY <1>7 DEF Claim, TypeOK, SubType, LocalType, local, Race
  <2> QED BY <1>7, <2>1, <2>2, <2>3, TypeFrame DEF Claim, TypeOK
<1> QED BY <1>2, <1>3, <1>4, <1>5, <1>6, <1>7

(* UpdateTaskResult writes one record: a copy with another state.          *)
LEMMA ResultEffect ==
  ASSUME TypeOK, NEW id \in Ids, NEW copy \in Record, NEW state \in States, Result(id, copy, state),
         UNCHANGED <<queue, stopQ, proc, lease>>
  PROVE  /\ RedisType'
         /\ \A x \in Ids \ {id} : task'[x] = task[x]
         /\ task'[id].state = state /\ task'[id].pod = copy.pod
<1>1. [copy EXCEPT !.state = state] \in Record
  BY DEF Record
<1>2. [copy EXCEPT !.state = state].state = state /\ [copy EXCEPT !.state = state].pod = copy.pod
  BY DEF Record
<1>3. task' = [task EXCEPT ![id] = [copy EXCEPT !.state = state]]
  BY DEF Result
<1>4. task'[id] = [copy EXCEPT !.state = state] /\ \A x \in Ids \ {id} : task'[x] = task[x]
  BY <1>3 DEF TypeOK, RedisType
<1>5. RedisType'
  BY <1>1, <1>3 DEF TypeOK, RedisType
<1> QED BY <1>2, <1>4, <1>5

(* A write that is not a race is a write of the record as it is, and does  *)
(* not take it out of a final state.                                       *)
LEMMA RaceEffect ==
  ASSUME TypeOK, NEW id \in Ids, NEW copy, NEW state, Race(id, copy, state)
  PROVE  /\ raced' \subseteq Ids /\ raced \subseteq raced'
         /\ id \notin raced' => /\ copy = task[id]
                                /\ task[id].state \in Terminal => state = task[id].state
BY DEF TypeOK, LocalType, Race

(* The subscriber: start.                                                  *)
LEMMA TypeOfStart ==
  ASSUME TypeOK, NEW p \in Pods
  PROVE  /\ StartNative(p) => TypeOK'
         /\ StartRefused(p) => TypeOK'
         /\ UpdateTaskWorker(p) => TypeOK'
         /\ AckStart(p) => TypeOK'
         /\ TrackStart(p) => TypeOK'
         /\ FailStart(p) => TypeOK'
<1> USE TaskQueueAssumption DEF Ids, SubStep, StartPcs, StopPcs, SubPcs, SubRmw
<1>0. /\ sub[p].id \in Ids /\ sub[p].copy \in Record
      /\ sub[p].pc \in StartPcs => sub[p].id \in Starts
  BY DEF TypeOK, SubType
<1>1. ASSUME StartNative(p) PROVE TypeOK'
  <2>1. SubType'
    BY <1>0, <1>1, GotoEffect DEF StartNative, TypeOK
  <2>2. LocalType'
    BY <1>0, <1>1 DEF StartNative, TypeOK, LocalType
  <2> QED BY <1>1, <2>1, <2>2, TypeFrame DEF StartNative, TypeOK
<1>2. ASSUME StartRefused(p) PROVE TypeOK'
  BY <1>0, <1>2, GotoEffect, TypeFrame DEF StartRefused, TypeOK
<1>3. ASSUME UpdateTaskWorker(p) PROVE TypeOK'
  <2>1. SubType'
    BY <1>0, <1>3, GotoEffect DEF UpdateTaskWorker, TypeOK
  <2>2. RedisType'
    BY <1>0, <1>3 DEF UpdateTaskWorker, TypeOK, RedisType, Record
  <2>3. LocalType'
    BY <1>0, <1>3, RaceEffect DEF UpdateTaskWorker, TypeOK, LocalType, local
  <2> QED BY <1>3, <2>1, <2>2, <2>3, TypeFrame DEF UpdateTaskWorker, TypeOK
<1>4. ASSUME AckStart(p) PROVE TypeOK'
  <2>1. SubType'
    BY <1>0, <1>4, GotoEffect DEF AckStart, TypeOK
  <2>2. RedisType'
    BY <1>0, <1>4, ResultEffect DEF AckStart, States
  <2>3. LocalType'
    BY <1>0, <1>4, RaceEffect DEF AckStart, TypeOK, LocalType, local
  <2> QED BY <1>4, <2>1, <2>2, <2>3, TypeFrame DEF AckStart, TypeOK
<1>5. ASSUME TrackStart(p) PROVE TypeOK'
  <2>1. SubType'
    BY <1>5, IdleEffect DEF TrackStart, TypeOK
  <2>2. LocalType'
    BY <1>0, <1>5 DEF TrackStart, TypeOK, LocalType
  <2> QED BY <1>5, <2>1, <2>2, TypeFrame DEF TrackStart, TypeOK
<1>6. ASSUME FailStart(p) PROVE TypeOK'
  <2>1. SubType'
    BY <1>6, IdleEffect DEF FailStart, TypeOK
  <2>2. RedisType'
    BY <1>0, <1>6, ResultEffect DEF FailStart, States, Terminal
  <2>3. LocalType'
    BY <1>0, <1>6, RaceEffect DEF FailStart, TypeOK, LocalType, local
  <2> QED BY <1>6, <2>1, <2>2, <2>3, TypeFrame DEF FailStart, TypeOK
<1> QED BY <1>1, <1>2, <1>3, <1>4, <1>5, <1>6

(* The subscriber: stop.                                                   *)
LEMMA TypeOfStop ==
  ASSUME TypeOK, NEW p \in Pods
  PROVE  /\ StopMark(p) => TypeOK'
         /\ StopLookup(p) => TypeOK'
         /\ StopSend(p) => TypeOK'
         /\ StopFinal(p) => TypeOK'
         /\ StopAck(p) => TypeOK'
<1> USE TaskQueueAssumption DEF Ids, SubStep, StartPcs, StopPcs, SubPcs, SubRmw
<1>0. /\ sub[p].id \in Ids /\ sub[p].copy \in Record
      /\ sub[p].pc \in StopPcs => sub[p].id \in Stops /\ Orig[sub[p].id] \in Starts
  BY DEF TypeOK, SubType
<1>1. ASSUME StopMark(p) PROVE TypeOK'
  <2>1. SubType'
    BY <1>0, <1>1, GotoEffect DEF StopMark, TypeOK
  <2>2. RedisType'
    BY <1>0, <1>1, ResultEffect DEF StopMark, States
  <2>3. LocalType'
    BY <1>0, <1>1, RaceEffect DEF StopMark, TypeOK, LocalType, local
  <2> QED BY <1>1, <2>1, <2>2, <2>3, TypeFrame DEF StopMark, TypeOK
<1>2. ASSUME StopLookup(p) PROVE TypeOK'
  <2>1. PICK pc \in {"final", "find"} : SubGoto(p, pc)
    BY <1>2 DEF StopLookup
  <2>2. SubType'
    BY <1>0, <1>2, <2>1, GotoEffect DEF StopLookup, TypeOK
  <2> QED BY <1>2, <2>2, TypeFrame DEF StopLookup, TypeOK
<1>3. ASSUME StopSend(p) PROVE TypeOK'
  <2>1. SubType'
    BY <1>0, <1>3, GotoEffect DEF StopSend, TypeOK
  <2>2. LocalType'
    BY <1>0, <1>3 DEF StopSend, TypeOK, LocalType
  <2> QED BY <1>3, <2>1, <2>2, TypeFrame DEF StopSend, TypeOK
<1>4. ASSUME StopFinal(p) PROVE TypeOK'
  <2>1. SubType'
    BY <1>0, <1>4, GotoEffect DEF StopFinal, TypeOK
  <2>2. RedisType'
    BY <1>0, <1>4, ResultEffect DEF StopFinal, States, Terminal
  <2>3. LocalType'
    BY <1>0, <1>4, RaceEffect DEF StopFinal, TypeOK, LocalType, local
  <2> QED BY <1>4, <2>1, <2>2, <2>3, TypeFrame DEF StopFinal, TypeOK
<1>5. ASSUME StopAck(p) PROVE TypeOK'
  <2>1. SubType'
    BY <1>5, IdleEffect DEF StopAck, TypeOK
  <2>2. RedisType'
    BY <1>0, <1>5, ResultEffect DEF StopAck, States, Terminal
  <2>3. LocalType'
    BY <1>0, <1>5, RaceEffect DEF StopAck, TypeOK, LocalType
  <2> QED BY <1>5, <2>1, <2>2, <2>3, TypeFrame DEF StopAck, TypeOK
<1> QED BY <1>1, <1>2, <1>3, <1>4, <1>5

LisRecord == [pc : LisPcs, out : {"success", "failed", "unrecoverable"}, got : BOOLEAN, copy : Record]

(* A listener at another step.                                             *)
LEMMA LisUpdate ==
  ASSUME LisType, NEW p \in Pods, NEW t \in Starts, NEW r \in LisRecord,
         lis' = [lis EXCEPT ![p][t] = r]
  PROVE  /\ LisType' /\ lis'[p][t] = r
         /\ \A q \in Pods, u \in Starts : q # p \/ u # t => lis'[q][u] = lis[q][u]
<1>1. lis' = [lis EXCEPT ![p] = [lis[p] EXCEPT ![t] = r]]
  OBVIOUS
<1>2. lis \in [Pods -> [Starts -> LisRecord]]
  BY DEF LisType, LisRecord
<1>3. lis' \in [Pods -> [Starts -> LisRecord]]
  BY <1>1, <1>2
<1>4. lis'[p][t] = r /\ \A q \in Pods, u \in Starts : q # p \/ u # t => lis'[q][u] = lis[q][u]
  BY <1>1, <1>2
<1> QED BY <1>3, <1>4 DEF LisType, LisRecord

(* The next step of a listener.                                            *)
LEMMA LisGotoEffect ==
  ASSUME LisType, NEW p \in Pods, NEW t \in Starts, NEW pc \in LisPcs, LisGoto(p, t, pc)
  PROVE  /\ LisType' /\ lis'[p][t].pc = pc
         /\ \A q \in Pods, u \in Starts : q # p \/ u # t => lis'[q][u] = lis[q][u]
<1>1. NoTask \in Record
  BY DEF NoTask, Record, States, Owner
<1>2. CASE pc = "idle"
  <2>1. lis' = [lis EXCEPT ![p][t] = IdleLis]
    BY <1>2 DEF LisGoto
  <2>2. IdleLis \in LisRecord /\ IdleLis.pc = "idle"
    BY <1>1 DEF IdleLis, LisRecord, LisPcs
  <2>3. LisType'
    BY <2>1, <2>2, LisUpdate
  <2>4. lis'[p][t] = IdleLis
    BY <2>1 DEF LisType
  <2>5. \A q \in Pods, u \in Starts : q # p \/ u # t => lis'[q][u] = lis[q][u]
    BY <2>1 DEF LisType
  <2> QED BY <1>2, <2>2, <2>3, <2>4, <2>5
<1>3. CASE pc # "idle"
  <2>1. lis[p][t] \in LisRecord
    BY DEF LisType, LisRecord
  <2>2. [lis[p][t] EXCEPT !.pc = pc, !.got = FALSE, !.copy = NoTask] \in LisRecord
    BY <1>1, <2>1 DEF LisRecord
  <2>3. PICK r \in LisRecord : r = [lis[p][t] EXCEPT !.pc = pc, !.got = FALSE, !.copy = NoTask]
    BY <2>2
  <2>4. r.pc = pc
    BY <2>1, <2>3 DEF LisRecord
  <2>5. lis' = [lis EXCEPT ![p][t] = r]
    BY <1>3, <2>3 DEF LisGoto
  <2>6. LisType'
    BY <2>5, LisUpdate
  <2>7. lis'[p][t] = r
    BY <2>5 DEF LisType
  <2>8. \A q \in Pods, u \in Starts : q # p \/ u # t => lis'[q][u] = lis[q][u]
    BY <2>5 DEF LisType
  <2> QED BY <2>4, <2>6, <2>7, <2>8
<1> QED BY <1>2, <1>3

(* The worker and the completion listener.                                 *)
LEMMA TypeOfListener ==
  ASSUME TypeOK, NEW p \in Pods, NEW t \in Starts
  PROVE  /\ WorkerDone(p, t) => TypeOK'
         /\ LisGet(p, t) => TypeOK'
         /\ Complete(p, t) => TypeOK'
         /\ Untrack(p, t) => TypeOK'
         /\ FailInspect(p, t) => TypeOK'
         /\ FailFree(p, t) => TypeOK'
         /\ FailHeld(p, t) => TypeOK'
         /\ FailDrop(p, t) => TypeOK'
         /\ FailUnlease(p, t) => TypeOK'
<1> USE TaskQueueAssumption DEF Ids, LisStep, LisPcs, LisRmw
<1>0. lis[p][t] \in LisRecord /\ lis[p][t].copy \in Record
  BY DEF TypeOK, LisType, LisRecord
<1>1. ASSUME WorkerDone(p, t) PROVE TypeOK'
  <2>1. PICK out \in {"success", "failed", "unrecoverable"} :
          lis' = [lis EXCEPT ![p][t] = [IdleLis EXCEPT
                    !.pc = IF out = "unrecoverable" THEN "inspect" ELSE "result", !.out = out]]
    BY <1>1 DEF WorkerDone
  <2>2. NoTask \in Record
    BY DEF NoTask, Record, States, Owner
  <2>3. [IdleLis EXCEPT !.pc = IF out = "unrecoverable" THEN "inspect" ELSE "result", !.out = out] \in LisRecord
    BY <2>2 DEF IdleLis, LisRecord
  <2>4. LisType'
    BY <2>1, <2>3, LisUpdate DEF TypeOK
  <2>5. LocalType'
    BY <1>1 DEF WorkerDone, TypeOK, LocalType
  <2> QED BY <1>1, <2>4, <2>5, TypeFrame DEF WorkerDone, TypeOK
<1>2. ASSUME LisGet(p, t) PROVE TypeOK'
  <2>1. lis' = [lis EXCEPT ![p][t] = [lis[p][t] EXCEPT !.got = TRUE, !.copy = task[t]]]
    BY <1>2 DEF LisGet
  <2>2. [lis[p][t] EXCEPT !.got = TRUE, !.copy = task[t]] \in LisRecord
    BY <1>0 DEF TypeOK, RedisType, LisRecord
  <2>3. LisType'
    BY <2>1, <2>2, LisUpdate DEF TypeOK
  <2> QED BY <1>2, <2>3, TypeFrame DEF LisGet, TypeOK
<1>3. ASSUME Complete(p, t) PROVE TypeOK'
  <2> DEFINE state == IF lis[p][t].out = "success" THEN "STOPPED" ELSE "FAILED"
  <2>1. Result(t, lis[p][t].copy, state) /\ Race(t, lis[p][t].copy, state) /\ state \in States
    BY <1>3 DEF Complete, States, Terminal
  <2> HIDE DEF state
  <2>2. LisType'
    BY <1>3, LisGotoEffect DEF Complete, TypeOK
  <2>3. RedisType'
    BY <1>0, <1>3, <2>1, ResultEffect DEF Complete
  <2>4. LocalType'
    BY <1>3, <2>1, RaceEffect DEF Complete, TypeOK, LocalType, local
  <2> QED BY <1>3, <2>2, <2>3, <2>4, TypeFrame DEF Complete, TypeOK
<1>4. ASSUME Untrack(p, t) PROVE TypeOK'
  <2>1. LisType'
    BY <1>4, LisGotoEffect DEF Untrack, TypeOK
  <2>2. LocalType'
    BY <1>4 DEF Untrack, TypeOK, LocalType
  <2> QED BY <1>4, <2>1, <2>2, TypeFrame DEF Untrack, TypeOK
<1>5. ASSUME FailInspect(p, t) PROVE TypeOK'
  <2>1. PICK pc \in {"failHeld", "failFree"} : LisGoto(p, t, pc)
    BY <1>5 DEF FailInspect
  <2>2. LisType'
    BY <2>1, LisGotoEffect DEF TypeOK
  <2>3. LocalType'
    BY <1>5 DEF FailInspect, TypeOK, LocalType
  <2> QED BY <1>5, <2>2, <2>3, TypeFrame DEF FailInspect, TypeOK
<1>6. ASSUME FailFree(p, t) PROVE TypeOK'
  <2>1. LisType'
    BY <1>6, LisGotoEffect DEF FailFree, TypeOK
  <2>2. RedisType'
    BY <1>0, <1>6, ResultEffect DEF FailFree, States, Terminal
  <2>3. LocalType'
    BY <1>6, RaceEffect DEF FailFree, TypeOK, LocalType
  <2> QED BY <1>6, <2>1, <2>2, <2>3, TypeFrame DEF FailFree, TypeOK
<1>7. ASSUME FailHeld(p, t) PROVE TypeOK'
  <2>1. LisType'
    BY <1>7, LisGotoEffect DEF FailHeld, TypeOK
  <2>2. RedisType'
    BY <1>0, <1>7, ResultEffect DEF FailHeld, States, Terminal
  <2>3. LocalType'
    BY <1>7, RaceEffect DEF FailHeld, TypeOK, LocalType, local
  <2> QED BY <1>7, <2>1, <2>2, <2>3, TypeFrame DEF FailHeld, TypeOK
<1>8. ASSUME FailDrop(p, t) PROVE TypeOK'
  <2>1. LisType'
    BY <1>8, LisGotoEffect DEF FailDrop, TypeOK
  <2>2. RedisType'
    BY <1>8, LRemEffect DEF FailDrop, TypeOK, RedisType
  <2> QED BY <1>8, <2>1, <2>2, TypeFrame DEF FailDrop, TypeOK
<1>9. ASSUME FailUnlease(p, t) PROVE TypeOK'
  <2>1. LisType'
    BY <1>9, LisGotoEffect DEF FailUnlease, TypeOK
  <2>2. RedisType'
    BY <1>9 DEF FailUnlease, TypeOK, RedisType, Owner
  <2>3. LocalType'
    BY <1>9 DEF FailUnlease, TypeOK, LocalType
  <2> QED BY <1>9, <2>1, <2>2, <2>3, TypeFrame DEF FailUnlease, TypeOK
<1> QED BY <1>1, <1>2, <1>3, <1>4, <1>5, <1>6, <1>7, <1>8, <1>9

(* Renewal of leases.                                                      *)
LEMMA TypeOfRenewal ==
  ASSUME TypeOK, NEW p \in Pods
  PROVE  /\ RenewAllLeases(p) => TypeOK'
         /\ \A t \in Ids : RenewCheck(p, t) => TypeOK'
         /\ RenewGet(p) => TypeOK'
         /\ RenewSet(p) => TypeOK'
<1>0. NoTask \in Record
  BY DEF NoTask, Record, States, Owner
<1>1. ASSUME RenewAllLeases(p) PROVE TypeOK'
  <2>1. RenType'
    BY <1>1 DEF RenewAllLeases, TypeOK, RenType, LocalType
  <2> QED BY <1>1, <2>1, TypeFrame DEF RenewAllLeases, TypeOK
<1>2. ASSUME NEW t \in Ids, RenewCheck(p, t) PROVE TypeOK'
  <2>1. RenType'
    <3>1. CASE lease[t] = p
      BY <1>2, <3>1 DEF RenewCheck, TypeOK, RenType
    <3>2. CASE lease[t] # p
      BY <1>2, <3>2 DEF RenewCheck, TypeOK, RenType
    <3> QED BY <3>1, <3>2
  <2>2. LocalType'
    BY <1>2 DEF RenewCheck, TypeOK, LocalType
  <2> QED BY <1>2, <2>1, <2>2, TypeFrame DEF RenewCheck, TypeOK
<1>3. ASSUME RenewGet(p) PROVE TypeOK'
  <2>1. RenType'
    BY <1>3 DEF RenewGet, TypeOK, RenType, RedisType
  <2> QED BY <1>3, <2>1, TypeFrame DEF RenewGet, TypeOK
<1>4. ASSUME RenewSet(p) PROVE TypeOK'
  <2>0. ren[p].id \in Ids /\ ren[p].copy \in Record /\ ren[p].snap \subseteq Ids
    BY DEF TypeOK, RenType
  <2>1. RenType'
    BY <1>0, <1>4, <2>0, AnIdIsId DEF RenewSet, IdleRen, TypeOK, RenType
  <2>2. RedisType'
    BY <1>4, <2>0 DEF RenewSet, TypeOK, RedisType
  <2>3. LocalType'
    BY <1>4, <2>0, RaceEffect DEF RenewSet, TypeOK, LocalType, local
  <2> QED BY <1>4, <2>1, <2>2, <2>3, TypeFrame DEF RenewSet, TypeOK
<1> QED BY <1>1, <1>2, <1>3, <1>4

(* The cleanup process.                                                    *)
LEMMA TypeOfCleanup ==
  ASSUME TypeOK, NEW p \in Pods
  PROVE  /\ \A q \in Pods, t \in Ids : CleanCheck(p, q, t) => TypeOK'
         /\ CleanGet(p) => TypeOK'
         /\ CleanDrop(p) => TypeOK'
         /\ CleanRecover(p) => TypeOK'
<1>0. /\ cln[p].id \in Ids /\ cln[p].copy \in Record /\ cln[p].from \in Pods
      /\ ChannelOf(cln[p].id) \in Channels
  BY TaskQueueAssumption DEF TypeOK, ClnType, ChannelOf, Ids
<1>1. NoTask \in Record
  BY DEF NoTask, Record, States, Owner
<1>2. IdleCln(p) \in [pc : {"idle", "get", "decide"}, id : Ids, from : Pods, copy : Record]
  BY <1>1, AnIdIsId DEF IdleCln
<1>3. ASSUME NEW q \in Pods, NEW t \in Ids, CleanCheck(p, q, t) PROVE TypeOK'
  <2>1. ClnType'
    BY <1>1, <1>3 DEF CleanCheck, TypeOK, ClnType
  <2> QED BY <1>3, <2>1, TypeFrame DEF CleanCheck, TypeOK
<1>4. ASSUME CleanGet(p) PROVE TypeOK'
  <2>1. ClnType'
    BY <1>4 DEF CleanGet, TypeOK, ClnType, RedisType
  <2> QED BY <1>4, <2>1, TypeFrame DEF CleanGet, TypeOK
<1>5. ASSUME CleanDrop(p) PROVE TypeOK'
  <2>1. ClnType'
    BY <1>2, <1>5 DEF CleanDrop, TypeOK, ClnType
  <2>2. RedisType'
    BY <1>0, <1>5, LRemEffect DEF CleanDrop, TypeOK, RedisType
  <2>3. LocalType'
    BY <1>0, <1>5, RaceEffect DEF CleanDrop, TypeOK, LocalType, local
  <2> QED BY <1>5, <2>1, <2>2, <2>3, TypeFrame DEF CleanDrop, TypeOK
<1>6. ASSUME CleanRecover(p) PROVE TypeOK'
  <2>1. ClnType'
    BY <1>2, <1>6 DEF CleanRecover, TypeOK, ClnType
  <2>2. queue' \in [Channels -> Seq(Ids)]
    BY <1>0, <1>6, PushSeq DEF CleanRecover, Requeue, LPush, TypeOK, RedisType
  <2>3. proc' \in [Pods -> [Ids -> Nat]]
    BY <1>0, <1>6, LRemEffect DEF CleanRecover, Requeue, TypeOK, RedisType
  <2>4. [NoTask EXCEPT !.state = "ENQUEUED"] \in Record
    BY <1>1 DEF NoTask, Record, States
  <2>5. RedisType'
    BY <1>0, <1>6, <2>2, <2>3, <2>4 DEF CleanRecover, TypeOK, RedisType, Owner
  <2>6. LocalType'
    BY <1>0, <1>6 DEF CleanRecover, TypeOK, LocalType, local
  <2> QED BY <1>6, <2>1, <2>5, <2>6, TypeFrame DEF CleanRecover, TypeOK
<1> QED BY <1>3, <1>4, <1>5, <1>6

(* The environment.                                                        *)
LEMMA TypeOfEnvironment ==
  ASSUME TypeOK
  PROVE  /\ \A p \in Pods : Crash(p) => TypeOK'
         /\ \A t \in Ids : LeaseExpire(t) => TypeOK'
<1>0. NoTask \in Record
  BY DEF NoTask, Record, States, Owner
<1>1. ASSUME NEW p \in Pods, Crash(p) PROVE TypeOK'
  <2>1. SubType'
    BY <1>1, IdleEffect DEF Crash, SubIdle, TypeOK
  <2>2. [t \in Starts |-> IdleLis] \in [Starts -> LisRecord]
    BY <1>0 DEF IdleLis, LisRecord, LisPcs
  <2>3. LisType'
    BY <1>1, <2>2 DEF Crash, TypeOK, LisType, LisRecord
  <2>4. RenType'
    BY <1>0, <1>1, AnIdIsId DEF Crash, IdleRen, TypeOK, RenType
  <2>5. ClnType'
    BY <1>0, <1>1, AnIdIsId DEF Crash, IdleCln, TypeOK, ClnType
  <2>6. LocalType'
    BY <1>1 DEF Crash, TypeOK, LocalType
  <2> QED BY <1>1, <2>1, <2>3, <2>4, <2>5, <2>6, TypeFrame DEF Crash, TypeOK
<1>2. ASSUME NEW t \in Ids, LeaseExpire(t) PROVE TypeOK'
  <2>1. RedisType'
    BY <1>2 DEF LeaseExpire, TypeOK, RedisType, Owner
  <2> QED BY <1>2, <2>1, TypeFrame DEF LeaseExpire, TypeOK
<1> QED BY <1>1, <1>2

(* Every step keeps the types.                                             *)
LEMMA TypeStep ==
  ASSUME TypeOK, [Next]_vars
  PROVE  TypeOK'
<1>1. CASE UNCHANGED vars
  BY <1>1, TypeFrame DEF vars, TypeOK
<1>2. CASE ApiNext
  BY <1>2, TypeOfApi
<1>3. ASSUME NEW p \in Pods, SubNext(p) PROVE TypeOK'
  BY <1>3, TypeOfFetch, TypeOfStart, TypeOfStop DEF SubNext
<1>4. ASSUME NEW p \in Pods, RenNext(p) PROVE TypeOK'
  BY <1>4, TypeOfRenewal DEF RenNext
<1>5. ASSUME NEW p \in Pods, ClnNext(p) PROVE TypeOK'
  BY <1>5, TypeOfCleanup DEF ClnNext
<1>6. ASSUME NEW p \in Pods, NEW t \in Starts, LisNext(p, t) PROVE TypeOK'
  BY <1>6, TypeOfListener DEF LisNext
<1> QED BY <1>1, <1>2, <1>3, <1>4, <1>5, <1>6, TypeOfEnvironment DEF Next

-----------------------------------------------------------------------------
(* A step of one pod                                                       *)

(* The goroutines, the workers and the maps of the other pods stay.        *)
Elsewhere(p) ==
  \A q \in Pods \ {p} :
    /\ running'[q] = running[q] /\ halting'[q] = halting[q]
    /\ tracked'[q] = tracked[q] /\ active'[q] = active[q]
    /\ sub'[q] = sub[q] /\ lis'[q] = lis[q] /\ ren'[q] = ren[q] /\ cln'[q] = cln[q]

(* A step of the subscriber is a step of one live pod.                     *)
LEMMA SubElsewhere ==
  ASSUME TypeOK, NEW p \in Pods, SubNext(p)
  PROVE  p \in alive /\ UNCHANGED <<alive, api>> /\ Elsewhere(p)
<1> USE DEF Elsewhere, local, redis, SubStep
<1>0. /\ DOMAIN sub = Pods /\ DOMAIN tracked = Pods /\ DOMAIN active = Pods
      /\ DOMAIN running = Pods /\ DOMAIN halting = Pods
  BY DEF TypeOK, SubType, LocalType
<1>1. CASE PopStop(p)
  BY <1>0, <1>1 DEF PopStop, Popped
<1>2. CASE \E c \in Channels : PopQueue(p, c)
  BY <1>0, <1>2 DEF PopQueue, Popped
<1>3. CASE Inspect(p)
  BY <1>0, <1>3 DEF Inspect, SubGoto
<1>4. CASE Retarget(p)
  BY <1>0, <1>4 DEF Retarget, SubGoto, SubIdle
<1>5. CASE SubGet(p)
  BY <1>0, <1>5 DEF SubGet
<1>6. CASE Claim(p)
  BY <1>0, <1>6 DEF Claim, SubGoto
<1>7. CASE StartNative(p)
  BY <1>0, <1>7 DEF StartNative, SubGoto
<1>8. CASE StartRefused(p)
  BY <1>0, <1>8 DEF StartRefused, SubGoto
<1>9. CASE UpdateTaskWorker(p)
  BY <1>0, <1>9 DEF UpdateTaskWorker, SubGoto
<1>10. CASE AckStart(p)
  BY <1>0, <1>10 DEF AckStart, SubGoto
<1>11. CASE TrackStart(p)
  BY <1>0, <1>11 DEF TrackStart, SubIdle
<1>12. CASE FailStart(p)
  BY <1>0, <1>12 DEF FailStart, SubIdle
<1>13. CASE StopMark(p)
  BY <1>0, <1>13 DEF StopMark, SubGoto
<1>14. CASE StopLookup(p)
  BY <1>0, <1>14 DEF StopLookup, SubGoto
<1>15. CASE StopSend(p)
  BY <1>0, <1>15 DEF StopSend, SubGoto
<1>16. CASE StopFinal(p)
  BY <1>0, <1>16 DEF StopFinal, SubGoto
<1>17. CASE StopAck(p)
  BY <1>0, <1>17 DEF StopAck, SubIdle
<1> QED
  BY <1>1, <1>2, <1>3, <1>4, <1>5, <1>6, <1>7, <1>8, <1>9, <1>10, <1>11, <1>12, <1>13, <1>14, <1>15, <1>16, <1>17
     DEF SubNext

(* So is one of the listener, the renewal or the cleanup process.          *)
LEMMA OthersElsewhere ==
  ASSUME TypeOK, NEW p \in Pods, RenNext(p) \/ ClnNext(p) \/ \E t \in Starts : LisNext(p, t)
  PROVE  p \in alive /\ UNCHANGED <<alive, api>> /\ Elsewhere(p)
<1> USE DEF Elsewhere, local, redis, LisStep
<1>0. /\ DOMAIN lis = Pods /\ DOMAIN ren = Pods /\ DOMAIN cln = Pods
      /\ DOMAIN tracked = Pods /\ DOMAIN active = Pods
      /\ DOMAIN running = Pods /\ DOMAIN halting = Pods
  BY DEF TypeOK, LisType, RenType, ClnType, LocalType
<1>1. CASE RenewAllLeases(p)
  BY <1>0, <1>1 DEF RenewAllLeases
<1>2. CASE \E t \in Ids : RenewCheck(p, t)
  BY <1>0, <1>2 DEF RenewCheck
<1>3. CASE RenewGet(p)
  BY <1>0, <1>3 DEF RenewGet
<1>4. CASE RenewSet(p)
  BY <1>0, <1>4 DEF RenewSet
<1>5. CASE \E q \in Pods, t \in Ids : CleanCheck(p, q, t)
  BY <1>0, <1>5 DEF CleanCheck
<1>6. CASE CleanGet(p)
  BY <1>0, <1>6 DEF CleanGet
<1>7. CASE CleanDrop(p)
  BY <1>0, <1>7 DEF CleanDrop
<1>8. CASE CleanRecover(p)
  BY <1>0, <1>8 DEF CleanRecover
<1>9. ASSUME NEW t \in Starts, LisNext(p, t) PROVE p \in alive /\ UNCHANGED <<alive, api>> /\ Elsewhere(p)
  <2>1. CASE WorkerDone(p, t)
    BY <1>0, <2>1 DEF WorkerDone
  <2>2. CASE LisGet(p, t)
    BY <1>0, <2>2 DEF LisGet
  <2>3. CASE Complete(p, t)
    BY <1>0, <2>3 DEF Complete, LisGoto
  <2>4. CASE Untrack(p, t)
    BY <1>0, <2>4 DEF Untrack, LisGoto
  <2>5. CASE FailInspect(p, t)
    BY <1>0, <2>5 DEF FailInspect, LisGoto
  <2>6. CASE FailFree(p, t)
    BY <1>0, <2>6 DEF FailFree, LisGoto
  <2>7. CASE FailHeld(p, t)
    BY <1>0, <2>7 DEF FailHeld, LisGoto
  <2>8. CASE FailDrop(p, t)
    BY <1>0, <2>8 DEF FailDrop, LisGoto
  <2>9. CASE FailUnlease(p, t)
    BY <1>0, <2>9 DEF FailUnlease, LisGoto
  <2> QED BY <1>9, <2>1, <2>2, <2>3, <2>4, <2>5, <2>6, <2>7, <2>8, <2>9 DEF LisNext
<1> QED BY <1>1, <1>2, <1>3, <1>4, <1>5, <1>6, <1>7, <1>8, <1>9 DEF RenNext, ClnNext

(* The dead do nothing.                                                    *)
LEMMA DeadStep ==
  ASSUME TypeOK, DeadInv, [Next]_vars
  PROVE  DeadInv'
<1>1. CASE UNCHANGED vars
  BY <1>1 DEF vars, local, DeadInv
<1>2. CASE ApiNext
  <2>1. UNCHANGED <<alive, local, sub, lis, ren, cln>>
    BY <1>2 DEF ApiNext, PublishCheck, PublishWrite, StopCheck, StopPublish
  <2> QED BY <2>1 DEF local, DeadInv
<1>3. ASSUME NEW p \in Pods, p \in alive, UNCHANGED alive, Elsewhere(p) PROVE DeadInv'
  BY <1>3 DEF DeadInv, Elsewhere
<1>4. ASSUME NEW p \in Pods, SubNext(p) \/ RenNext(p) \/ ClnNext(p) \/ \E t \in Starts : LisNext(p, t)
      PROVE  DeadInv'
  BY <1>3, <1>4, SubElsewhere, OthersElsewhere
<1>5. ASSUME NEW p \in Pods, Crash(p) PROVE DeadInv'
  <2>1. /\ running'[p] = {} /\ halting'[p] = {} /\ tracked'[p] = {} /\ active'[p] = {}
        /\ sub'[p].pc = "idle" /\ ren'[p].pc = "scan" /\ cln'[p].pc = "idle"
        /\ \A t \in Starts : lis'[p][t].pc = "idle"
    BY <1>5 DEF Crash, TypeOK, LocalType, SubType, LisType, RenType, ClnType, IdleSub, IdleLis, IdleRen, IdleCln
  <2>2. Elsewhere(p) /\ alive' = alive \ {p}
    BY <1>5 DEF Crash, TypeOK, LocalType, SubType, LisType, RenType, ClnType, Elsewhere
  <2> QED BY <2>1, <2>2 DEF DeadInv, Elsewhere
<1>6. ASSUME NEW t \in Ids, LeaseExpire(t) PROVE DeadInv'
  BY <1>6 DEF LeaseExpire, local, DeadInv
<1> QED BY <1>1, <1>2, <1>4, <1>5, <1>6 DEF Next

-----------------------------------------------------------------------------
(* Steps that take nothing from a task                                     *)

(* The entries of t in the queues stay, the record keeps its pod and does  *)
(* not leave a final state, and an entry is removed only of a finished     *)
(* task.                                                                   *)
StoreKept(t) ==
  /\ OnceQueued(t)' /\ NotStopQueued(t)' /\ (Queued(t)' <=> Queued(t))
  /\ \A q \in Pods : proc'[q][t] <= proc[q][t] /\ (~Finished(t)' => proc'[q][t] = proc[q][t])
  /\ task'[t].pod = task[t].pod
  /\ Finished(t) => Finished(t)'
  /\ task[t].state # "NONE" => task'[t].state # "NONE"
  /\ Unfinished(t)' => Unfinished(t) \/ \E q \in Pods : proc[q][t] > 0

(* Pod p does not get the task, and keeps the lease of one it has.         *)
PodKept(p, t) ==
  /\ Owns(p, t)' => Owns(p, t)
  /\ Owns(p, t)' /\ ~Finished(t)' /\ Keeps(p, t) => Keeps(p, t)'
  /\ Unclaimed(p, t)' => Unclaimed(p, t) /\ sub'[p].pc # "retarget"
  /\ LeasedAt(p, t)' /\ StageAt(p, t)'

(* The lease stays, or nobody needs it any more.                           *)
LeaseKept(t) ==
  \/ lease'[t] = lease[t]
  \/ /\ lease'[t] = NoPod
     /\ \A q \in Pods : (Owns(q, t) => Finished(t)) /\ ~Working(q, t)'

(* Such a step of pod p, or of no pod, keeps the invariant of t.           *)
LEMMA Frame ==
  ASSUME TypeOK, TypeOK', NEW p \in Owner, NEW t \in Starts, TaskOK(t),
         Elsewhere(p), alive' \subseteq alive, StoreKept(t), LeaseKept(t), p \in Pods => PodKept(p, t)
  PROVE  TaskOK(t)'
<1>0. t \in Ids
  BY DEF Ids
<1>1. \A q \in Pods : Owns(q, t)' => Owns(q, t)
  BY DEF PodKept, Elsewhere, Owns, Handling
<1>2. \A q \in Pods : Owns(q, t)' /\ ~Finished(t)' /\ Keeps(q, t) => Keeps(q, t)'
  BY DEF PodKept, Elsewhere, Keeps, Handling
<1>3. \A q \in Pods : Unclaimed(q, t)' => Unclaimed(q, t) /\ (sub[q].pc # "retarget" => sub'[q].pc # "retarget")
  BY DEF PodKept, Elsewhere, Unclaimed
<1>4. \A q \in Pods \ {p} : LeasedAt(q, t)' /\ StageAt(q, t)'
  BY DEF TaskOK, LeasedAt, StageAt, Elsewhere, StoreKept, LeaseKept, Working, Handling
<1>5. \A q \in Pods : proc[q][t] \in Nat /\ proc'[q][t] \in Nat
  BY <1>0 DEF TypeOK, RedisType
<1>6. EntryInv(t)'
  <2>1. Unfinished(t)' => ~Finished(t)'
    BY DEF Unfinished, Finished, Terminal
  <2> QED BY <1>5, <2>1 DEF TaskOK, EntryInv, StoreKept
<1>7. Free(t) => Free(t)'
  BY <1>1 DEF Free, StoreKept, LeaseKept
<1>8. FreeInv(t)'
  BY <1>3, <1>7 DEF TaskOK, FreeInv, StoreKept
<1>9. OwnerInv(t)'
  BY <1>1, <1>2, <1>5 DEF TaskOK, OwnerInv, StoreKept, LeaseKept
<1> QED BY <1>4, <1>6, <1>8, <1>9 DEF TaskOK, PodKept

-----------------------------------------------------------------------------
(* The lists                                                               *)

(* LPUSH adds one entry of id, and moves the others.                       *)
LEMMA PushEffect ==
  ASSUME queue \in [Channels -> Seq(Ids)], NEW c \in Channels, NEW id \in Ids, queue' = LPush(c, id)
  PROVE  /\ Queued(id)'
         /\ \A x \in Ids \ {id} : (Queued(x)' <=> Queued(x)) /\ (OnceQueued(x) => OnceQueued(x)')
         /\ ~Queued(id) => OnceQueued(id)'
<1>1. /\ queue'[c] = <<id>> \o queue[c]
      /\ \A d \in Channels \ {c} : queue'[d] = queue[d]
      /\ queue[c] \in Seq(Ids)
  BY DEF LPush
<1> DEFINE s == queue[c]
           r == <<id>> \o s
<1>2. /\ DOMAIN r = 1..(Len(s) + 1) /\ DOMAIN s = 1..Len(s) /\ Len(s) \in Nat /\ r[1] = id
      /\ \A i \in 1..Len(s) : r[i + 1] = s[i]
      /\ \A i \in 1..(Len(s) + 1) : i # 1 => i - 1 \in 1..Len(s) /\ r[i] = s[i - 1]
  <2>1. r \in Seq(Ids) /\ Len(r) = Len(s) + 1
    BY <1>1, PushSeq
  <2>2. DOMAIN r = 1..Len(r) /\ DOMAIN s = 1..Len(s) /\ Len(s) \in Nat
    BY <1>1, <2>1
  <2>3. r[1] = id
    BY <1>1, PushSeq
  <2>4. \A i \in 1..Len(s) : r[i + 1] = s[i]
    BY <1>1, PushSeq
  <2>5. \A i \in 1..(Len(s) + 1) : i # 1 => i - 1 \in 1..Len(s) /\ r[i] = s[i - 1]
    BY <1>1, PushSeq
  <2> QED BY <2>1, <2>2, <2>3, <2>4, <2>5
<1>3. queue'[c] = r /\ queue[c] = s
  BY <1>1
<1> HIDE DEF r, s
<1>4. Queued(id)'
  <2>1. 1 \in DOMAIN queue'[c] /\ queue'[c][1] = id
    BY <1>2, <1>3
  <2> QED BY <2>1 DEF Queued
<1>5. ASSUME NEW x \in Ids \ {id} PROVE Queued(x)' <=> Queued(x)
  <2>1. ASSUME NEW d \in Channels, NEW i \in DOMAIN queue[d], queue[d][i] = x PROVE Queued(x)'
    <3>1. CASE d = c
      <4>1. i + 1 \in DOMAIN r /\ r[i + 1] = x
        BY <1>2, <1>3, <2>1, <3>1
      <4> QED BY <1>3, <4>1 DEF Queued
    <3>2. CASE d # c
      BY <1>1, <2>1, <3>2 DEF Queued
    <3> QED BY <3>1, <3>2
  <2>2. ASSUME NEW d \in Channels, NEW i \in DOMAIN queue'[d], queue'[d][i] = x PROVE Queued(x)
    <3>1. CASE d = c
      <4>1. i - 1 \in DOMAIN s /\ s[i - 1] = x
        BY <1>2, <1>3, <2>2, <3>1
      <4> QED BY <1>3, <4>1 DEF Queued
    <3>2. CASE d # c
      BY <1>1, <2>2, <3>2 DEF Queued
    <3> QED BY <3>1, <3>2
  <2> QED BY <2>1, <2>2 DEF Queued
<1>6. ASSUME NEW x \in Ids \ {id}, OnceQueued(x) PROVE OnceQueued(x)'
  <2> SUFFICES ASSUME NEW d \in Channels, NEW e \in Channels, NEW i \in DOMAIN queue'[d], NEW j \in DOMAIN queue'[e],
                      queue'[d][i] = x, queue'[e][j] = x
               PROVE  d = e /\ i = j
    BY DEF OnceQueued
  <2>1. d = c => i - 1 \in DOMAIN queue[d] /\ queue[d][i - 1] = x /\ i \in Nat
    BY <1>2, <1>3
  <2>2. e = c => j - 1 \in DOMAIN queue[e] /\ queue[e][j - 1] = x /\ j \in Nat
    BY <1>2, <1>3
  <2>3. (d # c => queue'[d] = queue[d]) /\ (e # c => queue'[e] = queue[e])
    BY <1>1
  <2>4. \A i1 \in DOMAIN queue[d], j1 \in DOMAIN queue[e] : queue[d][i1] = x /\ queue[e][j1] = x => d = e /\ i1 = j1
    BY <1>6 DEF OnceQueued
  <2>5. CASE d = c /\ e = c
    <3>1. i - 1 = j - 1
      BY <2>1, <2>2, <2>4, <2>5
    <3> QED BY <2>1, <2>2, <2>5, <3>1
  <2>6. CASE d = c /\ e # c
    BY <2>1, <2>3, <2>4, <2>6
  <2>7. CASE d # c /\ e = c
    BY <2>2, <2>3, <2>4, <2>7
  <2>8. CASE d # c /\ e # c
    BY <2>3, <2>4, <2>8
  <2> QED BY <2>5, <2>6, <2>7, <2>8
<1>7. ASSUME ~Queued(id) PROVE OnceQueued(id)'
  <2>1. \A d \in Channels : \A i \in DOMAIN queue'[d] : queue'[d][i] = id => d = c /\ i = 1
    <3>1. \A i \in DOMAIN s : s[i] # id
      BY <1>3, <1>7 DEF Queued
    <3>2. \A i \in DOMAIN r : r[i] = id => i = 1
      BY <1>2, <3>1
    <3>3. \A d \in Channels \ {c} : \A i \in DOMAIN queue'[d] : queue'[d][i] # id
      BY <1>1, <1>7 DEF Queued
    <3> QED BY <1>3, <3>2, <3>3
  <2> QED BY <2>1 DEF OnceQueued
<1> QED BY <1>4, <1>5, <1>6, <1>7

(* A pop takes the last entry of a queue.                                  *)
LEMMA PopEffect ==
  ASSUME queue \in [Channels -> Seq(Ids)], NEW c \in Channels, queue[c] # <<>>,
         queue' = [queue EXCEPT ![c] = Front(@)], NEW x0, x0 = Last(queue[c])
  PROVE  /\ x0 \in Ids /\ Queued(x0)
         /\ \A x \in Ids : (Queued(x)' => Queued(x)) /\ (OnceQueued(x) => OnceQueued(x)')
         /\ \A x \in Ids \ {x0} : Queued(x) => Queued(x)'
         /\ OnceQueued(x0) => ~Queued(x0)'
<1> DEFINE s == queue[c]
           r == Front(s)
           n == Len(s)
<1>1. queue'[c] = r /\ queue[c] = s /\ \A d \in Channels \ {c} : queue'[d] = queue[d]
  OBVIOUS
<1>2. /\ DOMAIN r = 1..(n - 1) /\ DOMAIN s = 1..n /\ n \in Nat \ {0}
      /\ x0 = s[n] /\ x0 \in Ids
      /\ \A i \in 1..(n - 1) : r[i] = s[i]
  <2>1. s \in Seq(Ids) /\ s # <<>>
    OBVIOUS
  <2>2. r \in Seq(Ids) /\ Len(r) = n - 1 /\ n \in Nat \ {0}
    BY <2>1, PopSeq
  <2>3. x0 = s[n] /\ x0 \in Ids
    BY <2>1, PopSeq
  <2>4. \A i \in 1..(n - 1) : r[i] = s[i]
    BY <2>1, PopSeq
  <2>5. DOMAIN r = 1..Len(r) /\ DOMAIN s = 1..n
    BY <2>1, <2>2
  <2> QED BY <2>2, <2>3, <2>4, <2>5
<1> HIDE DEF r, s, n
<1>3. x0 \in Ids /\ Queued(x0)
  BY <1>1, <1>2 DEF Queued
<1>4. \A d \in Channels : \A i \in DOMAIN queue'[d] : i \in DOMAIN queue[d] /\ queue'[d][i] = queue[d][i]
  BY <1>1, <1>2
<1>5. \A x : (Queued(x)' => Queued(x)) /\ (OnceQueued(x) => OnceQueued(x)')
  BY <1>4 DEF Queued, OnceQueued
<1>6. ASSUME NEW x \in Ids \ {x0}, NEW d \in Channels, NEW i \in DOMAIN queue[d], queue[d][i] = x
      PROVE  Queued(x)'
  <2>1. CASE d = c
    <3>1. i \in DOMAIN r /\ r[i] = x
      BY <1>1, <1>2, <1>6, <2>1
    <3> QED BY <1>1, <3>1 DEF Queued
  <2>2. CASE d # c
    BY <1>1, <1>6, <2>2 DEF Queued
  <2> QED BY <2>1, <2>2
<1>7. ASSUME OnceQueued(x0), NEW d \in Channels, NEW i \in DOMAIN queue'[d], queue'[d][i] = x0 PROVE FALSE
  <2>1. n \in DOMAIN queue[c] /\ queue[c][n] = x0
    BY <1>1, <1>2
  <2>2. i \in DOMAIN queue[d] /\ queue[d][i] = x0
    BY <1>4, <1>7
  <2>3. d = c /\ i = n
    BY <1>7, <2>1, <2>2 DEF OnceQueued
  <2> QED BY <1>1, <1>2, <1>7, <2>3
<1>8. \A x \in Ids \ {x0} : Queued(x) => Queued(x)'
  BY <1>6 DEF Queued
<1>9. OnceQueued(x0) => ~Queued(x0)'
  BY <1>7 DEF Queued
<1> QED BY <1>3, <1>5, <1>8, <1>9

(* What happens to a stop queue concerns the ID that is moved.             *)
LEMMA StopPushEffect ==
  ASSUME stopQ \in [Pods -> Seq(Ids)], NEW p \in Pods, NEW id \in Ids,
         stopQ' = [stopQ EXCEPT ![p] = <<id>> \o @] \/ stopQ' = [stopQ EXCEPT ![p] = Append(@, id)]
  PROVE  \A x \in Ids \ {id} : NotStopQueued(x) => NotStopQueued(x)'
<1> DEFINE s == stopQ[p]
<1>0. s \in Seq(Ids) /\ DOMAIN s = 1..Len(s) /\ Len(s) \in Nat
  OBVIOUS
<1>1. \A i \in DOMAIN stopQ'[p] : stopQ'[p][i] = id \/ \E j \in DOMAIN s : stopQ'[p][i] = s[j]
  <2>1. CASE stopQ' = [stopQ EXCEPT ![p] = <<id>> \o @]
    <3> DEFINE r == <<id>> \o s
    <3>1. stopQ'[p] = r
      BY <2>1
    <3>2. r \in Seq(Ids) /\ Len(r) = Len(s) + 1
      BY <1>0, PushSeq
    <3>3. r[1] = id
      BY <1>0, PushSeq
    <3>4. \A i \in 1..(Len(s) + 1) : i # 1 => i - 1 \in 1..Len(s) /\ r[i] = s[i - 1]
      BY <1>0, PushSeq
    <3>5. DOMAIN r = 1..(Len(s) + 1)
      BY <3>2
    <3> HIDE DEF r
    <3> QED BY <1>0, <3>1, <3>3, <3>4, <3>5
  <2>2. CASE stopQ' = [stopQ EXCEPT ![p] = Append(@, id)]
    <3> DEFINE r == Append(s, id)
    <3>1. stopQ'[p] = r
      BY <2>2
    <3>2. r \in Seq(Ids) /\ Len(r) = Len(s) + 1
      BY <1>0, AppendSeq
    <3>3. r[Len(s) + 1] = id /\ \A i \in 1..Len(s) : r[i] = s[i]
      BY <1>0, AppendSeq
    <3>4. DOMAIN r = 1..(Len(s) + 1)
      BY <3>2
    <3> HIDE DEF r
    <3> QED BY <1>0, <3>1, <3>3, <3>4
  <2> QED BY <2>1, <2>2
<1>2. \A q \in Pods \ {p} : stopQ'[q] = stopQ[q]
  OBVIOUS
<1> QED BY <1>1, <1>2 DEF NotStopQueued

(* A pop from a stop queue adds nothing to any.                            *)
LEMMA StopPopEffect ==
  ASSUME stopQ \in [Pods -> Seq(Ids)], NEW p \in Pods, stopQ[p] # <<>>,
         stopQ' = [stopQ EXCEPT ![p] = Front(@)], NEW x0, x0 = Last(stopQ[p])
  PROVE  /\ x0 \in Ids /\ ~NotStopQueued(x0)
         /\ \A x \in Ids : NotStopQueued(x) => NotStopQueued(x)'
<1> DEFINE s == stopQ[p]
           r == Front(s)
           n == Len(s)
<1>s. s \in Seq(Ids) /\ s # <<>>
  OBVIOUS
<1>0. stopQ'[p] = r /\ \A q \in Pods \ {p} : stopQ'[q] = stopQ[q]
  OBVIOUS
<1>1. r \in Seq(Ids) /\ Len(r) = n - 1 /\ n \in Nat \ {0}
  BY <1>s, PopSeq
<1>2. x0 = s[n] /\ x0 \in Ids
  BY <1>s, PopSeq
<1>3. \A i \in 1..(n - 1) : r[i] = s[i]
  BY <1>s, PopSeq
<1>4. DOMAIN r = 1..(n - 1) /\ DOMAIN s = 1..n
  BY <1>s, <1>1
<1>5. stopQ[p] = s
  OBVIOUS
<1> HIDE DEF r, s, n
<1>6. ~NotStopQueued(x0)
  BY <1>1, <1>2, <1>4, <1>5 DEF NotStopQueued
<1>7. \A i \in DOMAIN stopQ'[p] : i \in DOMAIN s /\ stopQ'[p][i] = s[i]
  BY <1>0, <1>1, <1>3, <1>4
<1> QED BY <1>0, <1>2, <1>5, <1>6, <1>7 DEF NotStopQueued

-----------------------------------------------------------------------------
(* What a step leaves of a task                                            *)

(* A step that moves no list of t and keeps its record.                    *)
LEMMA SameStore ==
  ASSUME NEW t \in Starts, TaskOK(t), UNCHANGED <<queue, stopQ>>, task'[t] = task[t],
         \A q \in Pods : proc'[q][t] = proc[q][t], \A q \in Pods : proc[q][t] \in Nat
  PROVE  StoreKept(t)
BY DEF TaskOK, EntryInv, StoreKept, OnceQueued, NotStopQueued, Queued, Finished, Unfinished

(* A step that writes the record of t.                                     *)
LEMMA WriteStore ==
  ASSUME NEW t \in Starts, TaskOK(t), UNCHANGED <<queue, stopQ, proc>>, \A q \in Pods : proc[q][t] \in Nat,
         task'[t].pod = task[t].pod, task'[t].state # "NONE",
         Finished(t) => Finished(t)',
         Unfinished(t)' => Unfinished(t) \/ \E q \in Pods : proc[q][t] > 0
  PROVE  StoreKept(t)
BY DEF TaskOK, EntryInv, StoreKept, OnceQueued, NotStopQueued, Queued

(* What p has of t in its maps, its workers and its listener stays.        *)
LocalKept(p, t) ==
  /\ t \in running'[p] <=> t \in running[p]
  /\ t \in halting'[p] <=> t \in halting[p]
  /\ t \in tracked[p] => t \in tracked'[p]
  /\ t \in active[p] => t \in active'[p]
  /\ lis'[p][t].pc = lis[p][t].pc

(* The subscriber of p works on something else, before and after.          *)
Away(p, t) ==
  /\ sub[p].id = t => sub[p].pc = "idle"
  /\ sub'[p].id = t => sub'[p].pc = "idle"
  /\ sub[p].pc = "final" => Orig[sub[p].id] # t

(* Then nothing changes for t in pod p.                                    *)
LEMMA AwayKept ==
  ASSUME NEW p \in Pods, NEW t \in Starts, TaskOK(t), LocalKept(p, t), Away(p, t),
         Finished(t) => Finished(t)', lease'[t] = lease[t]
  PROVE  PodKept(p, t)
<1>1. ~Handling(p, t) /\ ~Handling(p, t)' /\ ~Unclaimed(p, t)'
  BY DEF Away, Handling, Unclaimed
<1>2. (Owns(p, t)' => Owns(p, t)) /\ (Keeps(p, t) => Keeps(p, t)')
  BY <1>1 DEF LocalKept, Away, Owns, Keeps
<1>3. Working(p, t)' => Working(p, t)
  BY DEF LocalKept, Away, Working
<1>4. LeasedAt(p, t)'
  BY <1>1, <1>3 DEF TaskOK, LeasedAt, LocalKept
<1>5. StageAt(p, t)'
  BY DEF TaskOK, StageAt, LocalKept, Away
<1> QED BY <1>1, <1>2, <1>4, <1>5 DEF PodKept

(* The subscriber of p stays at its step.                                  *)
LEMMA StayKept ==
  ASSUME NEW p \in Pods, NEW t \in Starts, TaskOK(t), LocalKept(p, t), alive' = alive,
         sub'[p].pc = sub[p].pc, sub'[p].id = sub[p].id,
         Finished(t) => Finished(t)', lease'[t] = lease[t]
  PROVE  PodKept(p, t)
<1>1. (Handling(p, t)' <=> Handling(p, t)) /\ (Unclaimed(p, t)' <=> Unclaimed(p, t))
  BY DEF Handling, Unclaimed
<1>2. (Owns(p, t)' => Owns(p, t)) /\ (Keeps(p, t) => Keeps(p, t)')
  BY <1>1 DEF LocalKept, Owns, Keeps
<1>3. Working(p, t)' => Working(p, t)
  BY DEF LocalKept, Working
<1>4. LeasedAt(p, t)'
  BY <1>1, <1>3 DEF TaskOK, LeasedAt, LocalKept
<1>5. StageAt(p, t)'
  BY DEF TaskOK, StageAt, LocalKept
<1>6. Unclaimed(p, t)' => sub'[p].pc # "retarget"
  BY <1>1 DEF TaskOK, FreeInv
<1> QED BY <1>1, <1>2, <1>4, <1>5, <1>6 DEF PodKept

(* The steps of a pod that make no new task known to anybody.              *)
LEMMA AbsentKept ==
  ASSUME NEW p \in Owner, NEW id \in Ids, Elsewhere(p), Absent(id),
         ~Queued(id)', NotStopQueued(id)', lease'[id] = NoPod,
         \A q \in Pods : proc'[q][id] = 0, p \in Pods => IdleAt(p, id)'
  PROVE  Absent(id)'
<1>1. \A q \in Pods \ {p} : IdleAt(q, id)'
  BY DEF Absent, IdleAt, Elsewhere, Ids
<1> QED BY <1>1 DEF Absent, NotStopQueued

(* What a step has to keep.                                                *)
Unknown == {id \in Ids : api[id].pc # "done"}

StepKept ==
  /\ \A id \in Unknown : Absent(id)'
  /\ \A t \in Starts \ raced' : TaskOK(t)' /\ (task[t].state # "NONE" => task'[t].state # "NONE")

(* A step that keeps that much keeps the invariant.                        *)
LEMMA KeptStep ==
  ASSUME Inv, UNCHANGED api, raced \subseteq raced', StepKept
  PROVE  PublishInv' /\ TaskInv'
<1>1. \A s \in Stops : Orig[s] \in Starts
  BY TaskQueueAssumption
<1> QED BY <1>1 DEF Inv, PublishInv, TaskInv, StepKept, Unknown

(* What the invariant says of one pod.                                     *)
LEMMA InvFacts ==
  ASSUME Inv
  PROVE  /\ TypeOK /\ DeadInv
         /\ \A q \in Pods, x \in Ids : proc[q][x] \in Nat
         /\ \A t \in Starts \ raced : TaskOK(t)
         /\ \A id \in Unknown : Absent(id) /\ \A q \in Pods : IdleAt(q, id)
BY DEF Inv, TypeOK, RedisType, TaskInv, PublishInv, Unknown, Absent

(* A step that takes nothing from any task.                                *)
LEMMA CalmStep ==
  ASSUME Inv, TypeOK', NEW p \in Owner, Elsewhere(p), alive' \subseteq alive, raced \subseteq raced',
         \A t \in Starts \ raced' : StoreKept(t) /\ LeaseKept(t) /\ (p \in Pods => PodKept(p, t)),
         \A id \in Unknown : /\ ~Queued(id)' /\ NotStopQueued(id)' /\ lease'[id] = NoPod
                             /\ \A q \in Pods : proc'[q][id] = 0
                             /\ p \in Pods => IdleAt(p, id)'
  PROVE  StepKept
<1>1. \A id \in Unknown : Absent(id)'
  BY InvFacts, AbsentKept DEF Unknown
<1>2. ASSUME NEW t \in Starts \ raced' PROVE TaskOK(t)'
  BY <1>2, InvFacts, Frame
<1> QED BY <1>1, <1>2 DEF StepKept, StoreKept

(* One that leaves the lists and the leases alone.                         *)
LEMMA LocalStep ==
  ASSUME Inv, TypeOK', NEW p \in Pods, Elsewhere(p), alive' \subseteq alive, raced \subseteq raced',
         UNCHANGED <<queue, stopQ, proc, lease>>,
         \A t \in Starts \ raced' : StoreKept(t) /\ PodKept(p, t),
         \A id \in Unknown : IdleAt(p, id)'
  PROVE  StepKept
<1>1. \A id \in Unknown : /\ ~Queued(id)' /\ NotStopQueued(id)' /\ lease'[id] = NoPod
                          /\ \A q \in Pods : proc'[q][id] = 0
  BY InvFacts DEF Absent, Queued, NotStopQueued
<1>2. \A t \in Starts : LeaseKept(t)
  BY DEF LeaseKept
<1>3. p \in Owner
  BY DEF Owner
<1> QED BY <1>1, <1>2, <1>3, CalmStep

(* A subscriber that is not idle works on a published ID.                  *)
LEMMA SubKnown ==
  ASSUME Inv, NEW p \in Pods, sub[p].pc # "idle"
  PROVE  /\ sub[p].id \in Ids \ Unknown
         /\ sub[p].id \in Stops => api[sub[p].id].pc # "new"
BY InvFacts DEF TypeOK, SubType, Unknown, IdleAt

(* The subscriber moves on with the same ID, or is done.                   *)
LEMMA SubIdleAt ==
  ASSUME Inv, NEW p \in Pods, sub[p].pc # "idle",
         sub'[p].id = sub[p].id \/ sub'[p].pc = "idle",
         \A t \in Starts : t # sub[p].id => LocalKept(p, t), UNCHANGED cln
  PROVE  \A id \in Unknown : IdleAt(p, id)'
BY SubKnown, InvFacts DEF IdleAt, LocalKept, Unknown

-----------------------------------------------------------------------------
(* The subscriber: start                                                   *)

(* The worker gets the task under the lease of the claim.                  *)
LEMMA StepOfStartNative ==
  ASSUME Inv, TypeOK', NEW p \in Pods, Elsewhere(p), StartNative(p)
  PROVE  raced \subseteq raced' /\ StepKept
<1> USE TaskQueueAssumption DEF SubStep
<1>1. sub[p].pc = "start" /\ sub[p].id \in Starts
  BY InvFacts DEF StartNative, TypeOK, SubType
<1>2. PICK u \in Starts : u = sub[p].id
  BY <1>1
<1>3. sub'[p].pc = "work" /\ sub'[p].id = u
  BY <1>1, <1>2, InvFacts, GotoEffect DEF StartNative, TypeOK, StartPcs, StopPcs, SubPcs, SubRmw, Ids
<1>4. UNCHANGED <<task, queue, stopQ, proc, lease, alive, active, halting, lis, cln, raced>>
  BY DEF StartNative, redis
<1>5. tracked'[p] = tracked[p] \cup {u} /\ running'[p] = running[p] \cup {u}
  BY <1>2, InvFacts DEF StartNative, TypeOK, LocalType
<1>6. \A t \in Starts \ {u} : LocalKept(p, t)
  BY <1>4, <1>5 DEF LocalKept
<1>7. ASSUME NEW t \in Starts \ raced' PROVE StoreKept(t) /\ PodKept(p, t)
  <2>1. TaskOK(t) /\ (\A q \in Pods : proc[q][t] \in Nat)
    BY <1>4, <1>7, InvFacts DEF Ids
  <2>2. StoreKept(t)
    BY <1>4, <2>1, SameStore
  <2>3. PodKept(p, t)
    <3>1. CASE t = u
      <4>1. Handling(p, t) /\ Handling(p, t)' /\ ~Unclaimed(p, t)'
        BY <1>1, <1>2, <1>3, <3>1 DEF Handling, Unclaimed
      <4>2. lease[t] = p /\ lis[p][t].pc = "idle"
        BY <1>1, <1>2, <2>1, <3>1 DEF TaskOK, LeasedAt, Working, StageAt
      <4>3. LeasedAt(p, t)'
        BY <1>4, <4>1, <4>2 DEF LeasedAt
      <4>4. StageAt(p, t)'
        BY <1>3, <1>4, <1>5, <3>1, <4>2 DEF StageAt
      <4> QED BY <4>1, <4>3, <4>4 DEF PodKept, Owns, Keeps
    <3>2. CASE t # u
      <4>1. Away(p, t)
        BY <1>1, <1>2, <1>3, <3>2 DEF Away
      <4> QED BY <1>4, <1>6, <2>1, <3>2, <4>1, AwayKept DEF Finished
    <3> QED BY <3>1, <3>2
  <2> QED BY <2>2, <2>3
<1>8. \A id \in Unknown : IdleAt(p, id)'
  BY <1>1, <1>2, <1>3, <1>4, <1>6, SubIdleAt
<1> QED BY <1>4, <1>7, <1>8, LocalStep

(* A refused start was never running.                                      *)
LEMMA StepOfStartRefused ==
  ASSUME Inv, TypeOK', NEW p \in Pods, Elsewhere(p), StartRefused(p)
  PROVE  raced \subseteq raced' /\ StepKept
<1> USE TaskQueueAssumption DEF SubStep
<1>1. sub[p].pc = "start" /\ sub[p].id \in Starts
  BY InvFacts DEF StartRefused, TypeOK, SubType
<1>2. PICK u \in Starts : u = sub[p].id
  BY <1>1
<1>3. sub'[p].pc = "fail" /\ sub'[p].id = u
  BY <1>1, <1>2, InvFacts, GotoEffect DEF StartRefused, TypeOK, StartPcs, StopPcs, SubPcs, SubRmw, Ids
<1>4. UNCHANGED <<task, queue, stopQ, proc, lease, alive, tracked, active, running, halting, lis, cln, raced>>
  BY DEF StartRefused, redis, local
<1>5. \A t \in Starts : LocalKept(p, t)
  BY <1>4 DEF LocalKept
<1>6. ASSUME NEW t \in Starts \ raced' PROVE StoreKept(t) /\ PodKept(p, t)
  <2>1. TaskOK(t) /\ (\A q \in Pods : proc[q][t] \in Nat)
    BY <1>4, <1>6, InvFacts DEF Ids
  <2>2. StoreKept(t)
    BY <1>4, <2>1, SameStore
  <2>3. PodKept(p, t)
    <3>1. CASE t = u
      <4>1. Handling(p, t) /\ Handling(p, t)' /\ ~Unclaimed(p, t)'
        BY <1>1, <1>2, <1>3, <3>1 DEF Handling, Unclaimed
      <4>2. lis[p][t].pc = "idle" /\ t \notin running[p]
        BY <1>1, <1>2, <2>1, <3>1 DEF TaskOK, StageAt
      <4>3. LeasedAt(p, t)'
        BY <1>3, <1>4, <4>2 DEF LeasedAt, Working
      <4>4. StageAt(p, t)'
        BY <1>3, <1>4, <3>1, <4>2 DEF StageAt
      <4> QED BY <4>1, <4>3, <4>4 DEF PodKept, Owns, Keeps
    <3>2. CASE t # u
      <4>1. Away(p, t)
        BY <1>1, <1>2, <1>3, <3>2 DEF Away
      <4> QED BY <1>4, <1>5, <2>1, <3>2, <4>1, AwayKept DEF Finished
    <3> QED BY <3>1, <3>2
  <2> QED BY <2>2, <2>3
<1>7. \A id \in Unknown : IdleAt(p, id)'
  BY <1>1, <1>2, <1>3, <1>4, <1>5, SubIdleAt
<1> QED BY <1>4, <1>6, <1>7, LocalStep

(* The renewal takes the task over from the subscriber.                    *)
LEMMA StepOfTrackStart ==
  ASSUME Inv, TypeOK', NEW p \in Pods, Elsewhere(p), TrackStart(p)
  PROVE  raced \subseteq raced' /\ StepKept
<1> USE TaskQueueAssumption DEF SubStep
<1>1. sub[p].pc = "track" /\ sub[p].id \in Starts
  BY InvFacts DEF TrackStart, TypeOK, SubType
<1>2. PICK u \in Starts : u = sub[p].id
  BY <1>1
<1>3. sub'[p].pc = "idle"
  BY InvFacts, IdleEffect DEF TrackStart, TypeOK
<1>4. UNCHANGED <<task, queue, stopQ, proc, lease, alive, tracked, running, halting, lis, cln, raced>>
  BY DEF TrackStart, redis
<1>5. active'[p] = active[p] \cup {u}
  BY <1>2, InvFacts DEF TrackStart, TypeOK, LocalType
<1>6. \A t \in Starts : LocalKept(p, t)
  BY <1>4, <1>5 DEF LocalKept
<1>7. ASSUME NEW t \in Starts \ raced' PROVE StoreKept(t) /\ PodKept(p, t)
  <2>1. TaskOK(t) /\ (\A q \in Pods : proc[q][t] \in Nat)
    BY <1>4, <1>7, InvFacts DEF Ids
  <2>2. StoreKept(t)
    BY <1>4, <2>1, SameStore
  <2>3. PodKept(p, t)
    <3>1. CASE t = u
      <4>1. Handling(p, t) /\ ~Handling(p, t)' /\ ~Unclaimed(p, t)' /\ t \in active'[p]
        BY <1>1, <1>2, <1>3, <1>5, <3>1 DEF Handling, Unclaimed
      <4>2. Working(p, t)' => Working(p, t)
        BY <1>3, <1>4 DEF Working
      <4>3. LeasedAt(p, t)'
        BY <1>4, <2>1, <4>1, <4>2 DEF TaskOK, LeasedAt
      <4>4. StageAt(p, t)'
        BY <1>3, <1>4, <2>1 DEF TaskOK, StageAt, Finished
      <4> QED BY <4>1, <4>3, <4>4 DEF PodKept, Owns, Keeps
    <3>2. CASE t # u
      <4>1. Away(p, t)
        BY <1>1, <1>2, <1>3, <3>2 DEF Away
      <4> QED BY <1>4, <1>6, <2>1, <3>2, <4>1, AwayKept DEF Finished
    <3> QED BY <3>1, <3>2
  <2> QED BY <2>2, <2>3
<1>8. \A id \in Unknown : IdleAt(p, id)'
  BY <1>1, <1>2, <1>3, <1>4, <1>6, SubIdleAt
<1> QED BY <1>4, <1>7, <1>8, LocalStep

(* The subscriber moves on with t itself.                                  *)
LEMMA OnTaskKept ==
  ASSUME NEW p \in Pods, NEW t \in Starts, TaskOK(t), LocalKept(p, t),
         sub[p].id = t, sub'[p].id = t, sub[p].pc \in {"work", "ack"}, sub'[p].pc \in {"ack", "track"},
         Finished(t) => Finished(t)', lease'[t] = lease[t]
  PROVE  PodKept(p, t)
<1>1. Handling(p, t) /\ Handling(p, t)' /\ ~Unclaimed(p, t)'
  BY DEF Handling, Unclaimed
<1>2. Working(p, t)' => Working(p, t)
  BY DEF Working, LocalKept
<1>3. LeasedAt(p, t)'
  BY <1>1, <1>2 DEF TaskOK, LeasedAt
<1>4. StageAt(p, t)'
  BY DEF TaskOK, StageAt, LocalKept
<1> QED BY <1>1, <1>3, <1>4 DEF PodKept, Owns, Keeps

(* The worker ID is written into the record as it is.                      *)
LEMMA StepOfUpdateTaskWorker ==
  ASSUME Inv, TypeOK', NEW p \in Pods, Elsewhere(p), UpdateTaskWorker(p)
  PROVE  raced \subseteq raced' /\ StepKept
<1> USE TaskQueueAssumption DEF SubStep
<1>1. sub[p].pc = "work" /\ sub[p].id \in Starts /\ sub[p].copy \in Record
  BY InvFacts DEF UpdateTaskWorker, TypeOK, SubType
<1>2. PICK u \in Starts : u = sub[p].id
  BY <1>1
<1>3. sub'[p].pc = "ack" /\ sub'[p].id = u
  BY <1>1, <1>2, InvFacts, GotoEffect DEF UpdateTaskWorker, TypeOK, StartPcs, StopPcs, SubPcs, SubRmw, Ids
<1>4. UNCHANGED <<queue, stopQ, proc, lease, alive, tracked, active, running, halting, lis, cln>>
  BY DEF UpdateTaskWorker, local
<1>5. \A t \in Starts : LocalKept(p, t)
  BY <1>4 DEF LocalKept
<1>6. raced \subseteq raced' /\ (u \notin raced' => sub[p].copy = task[u])
  BY <1>2, InvFacts, RaceEffect DEF UpdateTaskWorker, Ids
<1>7. /\ \A x \in Ids \ {u} : task'[x] = task[x]
      /\ task'[u].state = sub[p].copy.state /\ task'[u].pod = sub[p].copy.pod
  BY <1>1, <1>2, InvFacts DEF UpdateTaskWorker, TypeOK, RedisType, Record, Ids
<1>8. ASSUME NEW t \in Starts \ raced' PROVE StoreKept(t) /\ PodKept(p, t)
  <2>1. TaskOK(t) /\ (\A q \in Pods : proc[q][t] \in Nat)
    BY <1>6, <1>8, InvFacts DEF Ids
  <2>2. task'[t].pod = task[t].pod /\ task'[t].state = task[t].state
    BY <1>6, <1>7, <1>8 DEF Ids
  <2>3. StoreKept(t)
    BY <1>4, <2>1, <2>2 DEF TaskOK, EntryInv, StoreKept, OnceQueued, NotStopQueued, Queued, Finished, Unfinished
  <2>4. Finished(t)' = Finished(t)
    BY <2>2 DEF Finished
  <2>5. CASE t = u
    BY <1>1, <1>2, <1>3, <1>4, <1>5, <2>1, <2>3, <2>4, <2>5, OnTaskKept
  <2>6. CASE t # u
    <3>1. Away(p, t)
      BY <1>1, <1>2, <1>3, <2>6 DEF Away
    <3> QED BY <1>4, <1>5, <2>1, <2>3, <2>4, <3>1, AwayKept
  <2> QED BY <2>5, <2>6
<1>9. \A id \in Unknown : IdleAt(p, id)'
  BY <1>1, <1>2, <1>3, <1>4, <1>5, SubIdleAt
<1> QED BY <1>4, <1>6, <1>8, <1>9, LocalStep

(* A record written PROCESSING was not finished: its pod has the entry.     *)
LEMMA StepOfAckStart ==
  ASSUME Inv, TypeOK', NEW p \in Pods, Elsewhere(p), AckStart(p)
  PROVE  raced \subseteq raced' /\ StepKept
<1> USE TaskQueueAssumption DEF SubStep
<1>1. sub[p].pc = "ack" /\ sub[p].id \in Starts /\ sub[p].copy \in Record
  BY InvFacts DEF AckStart, TypeOK, SubType
<1>2. PICK u \in Starts : u = sub[p].id
  BY <1>1
<1>3. sub'[p].pc = "track" /\ sub'[p].id = u
  BY <1>1, <1>2, InvFacts, GotoEffect DEF AckStart, TypeOK, StartPcs, StopPcs, SubPcs, SubRmw, Ids
<1>4. UNCHANGED <<queue, stopQ, proc, lease, alive, tracked, active, running, halting, lis, cln>>
  BY DEF AckStart, local
<1>5. \A t \in Starts : LocalKept(p, t)
  BY <1>4 DEF LocalKept
<1>6. raced \subseteq raced' /\ (u \notin raced' => sub[p].copy = task[u] /\ ~Finished(u))
  BY <1>2, InvFacts, RaceEffect DEF AckStart, Ids, Finished, Terminal
<1>7. /\ \A x \in Ids \ {u} : task'[x] = task[x]
      /\ task'[u].state = "PROCESSING" /\ task'[u].pod = sub[p].copy.pod
  BY <1>1, <1>2, InvFacts, ResultEffect DEF AckStart, Ids, States
<1>8. ASSUME NEW t \in Starts \ raced' PROVE StoreKept(t) /\ PodKept(p, t)
  <2>1. TaskOK(t) /\ (\A q \in Pods : proc[q][t] \in Nat)
    BY <1>6, <1>8, InvFacts DEF Ids
  <2>2. CASE t = u
    <3>1. ~Finished(t) /\ task'[t].pod = task[t].pod /\ task'[t].state = "PROCESSING"
      BY <1>6, <1>7, <1>8, <2>2
    <3>2. proc[p][t] > 0
      BY <1>1, <1>2, <2>1, <2>2, <3>1 DEF TaskOK, OwnerInv, Owns, Handling
    <3>3. StoreKept(t)
      BY <1>4, <2>1, <3>1, <3>2, WriteStore
    <3> QED BY <1>1, <1>2, <1>3, <1>4, <1>5, <2>1, <2>2, <3>1, <3>3, OnTaskKept
  <2>3. CASE t # u
    <3>1. Away(p, t)
      BY <1>1, <1>2, <1>3, <2>3 DEF Away
    <3>2. task'[t] = task[t]
      BY <1>7, <2>3 DEF Ids
    <3>3. StoreKept(t)
      BY <1>4, <2>1, <3>2, SameStore
    <3> QED BY <1>4, <1>5, <2>1, <3>1, <3>2, <3>3, AwayKept DEF Finished
  <2> QED BY <2>2, <2>3
<1>9. \A id \in Unknown : IdleAt(p, id)'
  BY <1>1, <1>2, <1>3, <1>4, <1>5, SubIdleAt
<1> QED BY <1>4, <1>6, <1>8, <1>9, LocalStep

(* A start that failed is finished.                                        *)
LEMMA StepOfFailStart ==
  ASSUME Inv, TypeOK', NEW p \in Pods, Elsewhere(p), FailStart(p)
  PROVE  raced \subseteq raced' /\ StepKept
<1> USE TaskQueueAssumption DEF SubStep
<1>1. sub[p].pc = "fail" /\ sub[p].id \in Starts /\ sub[p].copy \in Record
  BY InvFacts DEF FailStart, TypeOK, SubType
<1>2. PICK u \in Starts : u = sub[p].id
  BY <1>1
<1>3. sub'[p].pc = "idle"
  BY InvFacts, IdleEffect DEF FailStart, TypeOK
<1>4. UNCHANGED <<queue, stopQ, proc, lease, alive, tracked, active, running, halting, lis, cln>>
  BY DEF FailStart, local
<1>5. \A t \in Starts : LocalKept(p, t)
  BY <1>4 DEF LocalKept
<1>6. raced \subseteq raced' /\ (u \notin raced' => sub[p].copy = task[u])
  BY <1>2, InvFacts, RaceEffect DEF FailStart, Ids
<1>7. /\ \A x \in Ids \ {u} : task'[x] = task[x]
      /\ task'[u].state = "FAILED" /\ task'[u].pod = sub[p].copy.pod
  BY <1>1, <1>2, InvFacts, ResultEffect DEF FailStart, Ids, States, Terminal
<1>8. ASSUME NEW t \in Starts \ raced' PROVE StoreKept(t) /\ PodKept(p, t)
  <2>1. TaskOK(t) /\ (\A q \in Pods : proc[q][t] \in Nat)
    BY <1>6, <1>8, InvFacts DEF Ids
  <2>2. CASE t = u
    <3>1. task'[t].pod = task[t].pod /\ task'[t].state = "FAILED" /\ Finished(t)' /\ ~Unfinished(t)'
      BY <1>6, <1>7, <1>8, <2>2 DEF Finished, Unfinished, Terminal
    <3>2. StoreKept(t)
      BY <1>4, <2>1, <3>1, WriteStore
    <3>3. Handling(p, t) /\ ~Handling(p, t)' /\ ~Unclaimed(p, t)'
      BY <1>1, <1>2, <1>3, <2>2 DEF Handling, Unclaimed
    <3>4. lis[p][t].pc = "idle" /\ t \notin running[p]
      BY <1>1, <1>2, <2>1, <2>2 DEF TaskOK, StageAt
    <3>5. LeasedAt(p, t)' /\ StageAt(p, t)'
      BY <1>3, <1>4, <3>4 DEF LeasedAt, Working, StageAt
    <3> QED BY <3>1, <3>2, <3>3, <3>5 DEF PodKept, Owns
  <2>3. CASE t # u
    <3>1. Away(p, t)
      BY <1>1, <1>2, <1>3, <2>3 DEF Away
    <3>2. task'[t] = task[t]
      BY <1>7, <2>3 DEF Ids
    <3>3. StoreKept(t)
      BY <1>4, <2>1, <3>2, SameStore
    <3> QED BY <1>4, <1>5, <2>1, <3>1, <3>2, <3>3, AwayKept DEF Finished
  <2> QED BY <2>2, <2>3
<1>9. \A id \in Unknown : IdleAt(p, id)'
  BY <1>1, <1>2, <1>3, <1>4, <1>5, SubIdleAt
<1> QED BY <1>4, <1>6, <1>8, <1>9, LocalStep

-----------------------------------------------------------------------------
(* The subscriber: stop                                                    *)

(* A task that is marked STOPPING was published and not finished.          *)
LEMMA StepOfStopMark ==
  ASSUME Inv, TypeOK', NEW p \in Pods, Elsewhere(p), StopMark(p)
  PROVE  raced \subseteq raced' /\ StepKept
<1> USE TaskQueueAssumption DEF SubStep
<1>1. sub[p].pc = "mark" /\ sub[p].id \in Stops /\ sub[p].copy \in Record
  BY InvFacts DEF StopMark, TypeOK, SubType
<1>2. PICK s \in Stops : s = sub[p].id
  BY <1>1
<1>3. PICK u \in Starts : u = Orig[s]
  OBVIOUS
<1>4. sub'[p].pc = "lookup" /\ sub'[p].id = s
  BY <1>1, <1>2, InvFacts, GotoEffect DEF StopMark, TypeOK, StartPcs, StopPcs, SubPcs, SubRmw, Ids
<1>5. UNCHANGED <<queue, stopQ, proc, lease, alive, tracked, active, running, halting, lis, cln>>
  BY DEF StopMark, local
<1>6. \A t \in Starts : LocalKept(p, t) /\ Away(p, t)
  BY <1>1, <1>2, <1>4, <1>5 DEF LocalKept, Away
<1>7. raced \subseteq raced' /\ (u \notin raced' => sub[p].copy = task[u] /\ ~Finished(u))
  BY <1>2, <1>3, InvFacts, RaceEffect DEF StopMark, Ids, Finished, Terminal
<1>8. /\ \A x \in Ids \ {u} : task'[x] = task[x]
      /\ task'[u].state = "STOPPING" /\ task'[u].pod = sub[p].copy.pod
  BY <1>1, <1>2, <1>3, InvFacts, ResultEffect DEF StopMark, Ids, States
<1>9. u \notin raced' => Unfinished(u)
  <2>1. u \notin raced' => task[u].state # "NONE"
    BY <1>1, <1>2, <1>3, <1>7, SubKnown DEF Inv, PublishInv
  <2>2. task[u].state \in States
    BY InvFacts DEF TypeOK, RedisType, Record, Ids
  <2> QED BY <1>7, <2>1, <2>2 DEF States, Finished, Unfinished
<1>10. ASSUME NEW t \in Starts \ raced' PROVE StoreKept(t) /\ PodKept(p, t)
  <2>1. TaskOK(t) /\ (\A q \in Pods : proc[q][t] \in Nat)
    BY <1>7, <1>10, InvFacts DEF Ids
  <2>2. StoreKept(t) /\ (Finished(t) => Finished(t)')
    <3>1. CASE t = u
      <4>1. Unfinished(t) /\ task'[t].pod = task[t].pod /\ task'[t].state = "STOPPING" /\ ~Finished(t)
        BY <1>7, <1>8, <1>9, <1>10, <3>1
      <4> QED BY <1>5, <2>1, <4>1, WriteStore
    <3>2. CASE t # u
      <4>1. task'[t] = task[t]
        BY <1>8, <3>2 DEF Ids
      <4> QED BY <1>5, <2>1, <4>1, SameStore DEF Finished
    <3> QED BY <3>1, <3>2
  <2> QED BY <1>5, <1>6, <2>1, <2>2, AwayKept
<1>11. \A id \in Unknown : IdleAt(p, id)'
  BY <1>1, <1>2, <1>4, <1>5, <1>6, SubIdleAt
<1> QED BY <1>5, <1>7, <1>10, <1>11, LocalStep

(* The lookup of the worker changes nothing.                               *)
LEMMA StepOfStopLookup ==
  ASSUME Inv, TypeOK', NEW p \in Pods, Elsewhere(p), StopLookup(p)
  PROVE  raced \subseteq raced' /\ StepKept
<1> USE TaskQueueAssumption DEF SubStep
<1>1. sub[p].pc = "lookup" /\ sub[p].id \in Stops
  BY InvFacts DEF StopLookup, TypeOK, SubType
<1>2. PICK s \in Stops : s = sub[p].id
  BY <1>1
<1>3. PICK pc \in {"final", "find"} : SubGoto(p, pc)
  BY DEF StopLookup
<1>4. sub'[p].pc \in {"final", "find"} /\ sub'[p].id = s
  BY <1>1, <1>2, <1>3, InvFacts, GotoEffect DEF TypeOK, StartPcs, StopPcs, SubPcs, SubRmw, Ids
<1>5. UNCHANGED <<task, queue, stopQ, proc, lease, alive, tracked, active, running, halting, lis, cln, raced>>
  BY DEF StopLookup, redis, local
<1>6. \A t \in Starts : LocalKept(p, t) /\ Away(p, t)
  BY <1>1, <1>2, <1>4, <1>5 DEF LocalKept, Away
<1>7. ASSUME NEW t \in Starts \ raced' PROVE StoreKept(t) /\ PodKept(p, t)
  <2>1. TaskOK(t) /\ (\A q \in Pods : proc[q][t] \in Nat)
    BY <1>5, <1>7, InvFacts DEF Ids
  <2>2. StoreKept(t)
    BY <1>5, <2>1, SameStore
  <2> QED BY <1>5, <1>6, <2>1, <2>2, AwayKept DEF Finished
<1>8. \A id \in Unknown : IdleAt(p, id)'
  BY <1>1, <1>2, <1>4, <1>5, <1>6, SubIdleAt
<1> QED BY <1>5, <1>7, <1>8, LocalStep

(* The stop of a task that runs here leaves its worker halting, and the    *)
(* task kept until its end is written.                                     *)
LEMMA StepOfStopSend ==
  ASSUME Inv, TypeOK', NEW p \in Pods, Elsewhere(p), StopSend(p)
  PROVE  raced \subseteq raced' /\ StepKept
<1> USE TaskQueueAssumption DEF SubStep
<1>1. sub[p].pc = "find" /\ sub[p].id \in Stops
  BY InvFacts DEF StopSend, TypeOK, SubType
<1>2. PICK s \in Stops : s = sub[p].id
  BY <1>1
<1>3. PICK u \in Starts : u = Orig[s]
  OBVIOUS
<1>4. sub'[p].pc = "final" /\ sub'[p].id = s
  BY <1>1, <1>2, InvFacts, GotoEffect DEF StopSend, TypeOK, StartPcs, StopPcs, SubPcs, SubRmw, Ids
<1>5. UNCHANGED <<task, queue, stopQ, proc, lease, alive, running, lis, cln, raced>>
  BY DEF StopSend, redis
<1>6. /\ tracked'[p] = tracked[p] \ {u} /\ active'[p] = active[p] \ {u}
      /\ halting'[p] = halting[p] \cup ({u} \cap tracked[p] \cap running[p])
  <2>1. tracked'[p] = tracked[p] \ {u} /\ active'[p] = active[p] \ {u}
    BY <1>2, <1>3, InvFacts DEF StopSend, TypeOK, LocalType
  <2>2. halting' = IF u \in tracked[p] \cap running[p] THEN [halting EXCEPT ![p] = @ \cup {u}] ELSE halting
    BY <1>2, <1>3 DEF StopSend
  <2>3. halting'[p] = halting[p] \cup ({u} \cap tracked[p] \cap running[p])
    BY <2>2, InvFacts DEF TypeOK, LocalType
  <2> QED BY <2>1, <2>3
<1>7. \A t \in Starts : Away(p, t)
  BY <1>1, <1>2, <1>4 DEF Away
<1>8. \A t \in Starts \ {u} : LocalKept(p, t)
  BY <1>5, <1>6 DEF LocalKept
<1>9. ASSUME NEW t \in Starts \ raced' PROVE StoreKept(t) /\ PodKept(p, t)
  <2>1. TaskOK(t) /\ (\A q \in Pods : proc[q][t] \in Nat)
    BY <1>5, <1>9, InvFacts DEF Ids
  <2>2. StoreKept(t)
    BY <1>5, <2>1, SameStore
  <2>3. CASE t = u
    <3>1. ~Handling(p, t) /\ ~Handling(p, t)' /\ ~Unclaimed(p, t)' /\ Keeps(p, t)'
      BY <1>1, <1>2, <1>3, <1>4, <2>3 DEF Handling, Unclaimed, Keeps
    <3>2. t \in running[p] => t \in halting'[p]
      BY <1>6, <2>1, <2>3 DEF TaskOK, StageAt
    <3>3. LeasedAt(p, t)'
      BY <1>4, <1>5, <3>2 DEF LeasedAt, Working
    <3>4. StageAt(p, t)'
      BY <1>4, <1>5, <2>1, <3>2 DEF TaskOK, StageAt, Finished
    <3>5. Owns(p, t)' => Owns(p, t)
      BY <1>5, <3>1 DEF Owns
    <3> QED BY <2>2, <3>1, <3>3, <3>4, <3>5 DEF PodKept
  <2>4. CASE t # u
    BY <1>5, <1>7, <1>8, <2>1, <2>2, <2>4, AwayKept DEF Finished
  <2> QED BY <2>3, <2>4
<1>10. \A id \in Unknown : IdleAt(p, id)'
  BY <1>1, <1>2, <1>4, <1>5, SubKnown, InvFacts DEF IdleAt
<1> QED BY <1>5, <1>9, <1>10, LocalStep

(* A stopped task is finished, and needs its lease no more.                *)
LEMMA StepOfStopFinal ==
  ASSUME Inv, TypeOK', NEW p \in Pods, Elsewhere(p), StopFinal(p)
  PROVE  raced \subseteq raced' /\ StepKept
<1> USE TaskQueueAssumption DEF SubStep
<1>1. sub[p].pc = "final" /\ sub[p].id \in Stops /\ sub[p].copy \in Record
  BY InvFacts DEF StopFinal, TypeOK, SubType
<1>2. PICK s \in Stops : s = sub[p].id
  BY <1>1
<1>3. PICK u \in Starts : u = Orig[s]
  OBVIOUS
<1>4. sub'[p].pc = "sack" /\ sub'[p].id = s
  BY <1>1, <1>2, InvFacts, GotoEffect DEF StopFinal, TypeOK, StartPcs, StopPcs, SubPcs, SubRmw, Ids
<1>5. UNCHANGED <<queue, stopQ, proc, lease, alive, tracked, active, running, halting, lis, cln>>
  BY DEF StopFinal, local
<1>6. \A t \in Starts : LocalKept(p, t)
  BY <1>5 DEF LocalKept
<1>7. raced \subseteq raced' /\ (u \notin raced' => sub[p].copy = task[u])
  BY <1>2, <1>3, InvFacts, RaceEffect DEF StopFinal, Ids
<1>8. /\ \A x \in Ids \ {u} : task'[x] = task[x]
      /\ task'[u].state = "STOPPED" /\ task'[u].pod = sub[p].copy.pod
  BY <1>1, <1>2, <1>3, InvFacts, ResultEffect DEF StopFinal, Ids, States, Terminal
<1>9. ASSUME NEW t \in Starts \ raced' PROVE StoreKept(t) /\ PodKept(p, t)
  <2>1. TaskOK(t) /\ (\A q \in Pods : proc[q][t] \in Nat)
    BY <1>7, <1>9, InvFacts DEF Ids
  <2>2. CASE t = u
    <3>1. task'[t].pod = task[t].pod /\ task'[t].state = "STOPPED" /\ Finished(t)' /\ ~Unfinished(t)'
      BY <1>7, <1>8, <1>9, <2>2 DEF Finished, Unfinished, Terminal
    <3>2. StoreKept(t)
      BY <1>5, <2>1, <3>1, WriteStore
    <3>3. ~Handling(p, t) /\ ~Handling(p, t)' /\ ~Unclaimed(p, t)'
      BY <1>1, <1>2, <1>4 DEF Handling, Unclaimed
    <3>4. Owns(p, t)' => Owns(p, t)
      BY <1>5, <3>3 DEF Owns
    <3>5. Working(p, t)' => Working(p, t)
      BY <1>4, <1>5 DEF Working
    <3>6. LeasedAt(p, t)'
      BY <1>5, <2>1, <3>3, <3>5 DEF TaskOK, LeasedAt
    <3>7. StageAt(p, t)'
      BY <1>4, <1>5, <2>1, <3>1 DEF TaskOK, StageAt
    <3> QED BY <3>1, <3>2, <3>3, <3>4, <3>6, <3>7 DEF PodKept
  <2>3. CASE t # u
    <3>1. Away(p, t)
      BY <1>1, <1>2, <1>3, <1>4, <2>3 DEF Away
    <3>2. task'[t] = task[t]
      BY <1>8, <2>3 DEF Ids
    <3>3. StoreKept(t)
      BY <1>5, <2>1, <3>2, SameStore
    <3> QED BY <1>5, <1>6, <2>1, <3>1, <3>2, <3>3, AwayKept DEF Finished
  <2> QED BY <2>2, <2>3
<1>10. \A id \in Unknown : IdleAt(p, id)'
  BY <1>1, <1>2, <1>4, <1>5, <1>6, SubIdleAt
<1> QED BY <1>5, <1>7, <1>9, <1>10, LocalStep

(* The record of the stop request itself.                                  *)
LEMMA StepOfStopAck ==
  ASSUME Inv, TypeOK', NEW p \in Pods, Elsewhere(p), StopAck(p)
  PROVE  raced \subseteq raced' /\ StepKept
<1> USE TaskQueueAssumption DEF SubStep
<1>1. sub[p].pc = "sack" /\ sub[p].id \in Stops /\ sub[p].copy \in Record
  BY InvFacts DEF StopAck, TypeOK, SubType
<1>2. PICK s \in Stops : s = sub[p].id
  BY <1>1
<1>3. sub'[p].pc = "idle"
  BY InvFacts, IdleEffect DEF StopAck, TypeOK
<1>4. UNCHANGED <<queue, stopQ, proc, lease, alive, tracked, running, halting, lis, cln>>
  BY DEF StopAck
<1>5. active'[p] = active[p] \ {s}
  BY <1>2, InvFacts DEF StopAck, TypeOK, LocalType
<1>6. \A t \in Starts : LocalKept(p, t) /\ Away(p, t)
  BY <1>1, <1>2, <1>3, <1>4, <1>5 DEF LocalKept, Away
<1>7. raced \subseteq raced'
  BY <1>2, InvFacts, RaceEffect DEF StopAck, Ids
<1>8. \A t \in Starts : task'[t] = task[t]
  BY <1>1, <1>2, InvFacts, ResultEffect DEF StopAck, Ids, States, Terminal
<1>9. ASSUME NEW t \in Starts \ raced' PROVE StoreKept(t) /\ PodKept(p, t)
  <2>1. TaskOK(t) /\ (\A q \in Pods : proc[q][t] \in Nat)
    BY <1>7, <1>9, InvFacts DEF Ids
  <2>2. StoreKept(t)
    BY <1>4, <1>8, <2>1, SameStore
  <2> QED BY <1>4, <1>6, <1>8, <2>1, <2>2, AwayKept DEF Finished
<1>10. \A id \in Unknown : IdleAt(p, id)'
  BY <1>1, <1>2, <1>3, <1>4, <1>6, SubIdleAt
<1> QED BY <1>4, <1>7, <1>9, <1>10, LocalStep

-----------------------------------------------------------------------------
(* The subscriber: fetch                                                   *)

(* A popped ID is a published one.                                         *)
LEMMA StepOfPopStop ==
  ASSUME Inv, TypeOK', NEW p \in Pods, Elsewhere(p), PopStop(p)
  PROVE  raced \subseteq raced' /\ StepKept
<1> USE TaskQueueAssumption DEF SubStep
<1>1. PICK s : s = Last(stopQ[p])
  OBVIOUS
<1>2. stopQ \in [Pods -> Seq(Ids)] /\ stopQ[p] # <<>> /\ stopQ' = [stopQ EXCEPT ![p] = Front(@)]
  BY InvFacts DEF PopStop, TypeOK, RedisType
<1>3. s \in Ids /\ ~NotStopQueued(s)
  BY <1>1, <1>2, StopPopEffect
<1>4. \A x \in Ids : NotStopQueued(x) => NotStopQueued(x)'
  BY <1>1, <1>2, StopPopEffect
<1>5. Popped(p, s) /\ sub[p].pc = "idle" /\ UNCHANGED queue
  BY <1>1 DEF PopStop
<1>6. /\ sub'[p].pc = "popped" /\ sub'[p].id = s
      /\ \A q \in Pods, x \in Ids \ {s} : proc'[q][x] = proc[q][x]
  BY <1>3, <1>5, InvFacts, PoppedEffect
<1>7. UNCHANGED <<task, lease, alive, tracked, active, running, halting, lis, cln, raced>>
  BY <1>5 DEF Popped, local
<1>8. ASSUME NEW t \in Starts \ raced' PROVE StoreKept(t) /\ LeaseKept(t) /\ PodKept(p, t)
  <2>1. TaskOK(t) /\ t \in Ids
    BY <1>7, <1>8, InvFacts DEF Ids
  <2>2. NotStopQueued(t) /\ t # s
    BY <1>3, <2>1 DEF TaskOK, EntryInv
  <2>3. LocalKept(p, t) /\ Away(p, t)
    BY <1>5, <1>6, <1>7, <2>2 DEF LocalKept, Away
  <2>4. StoreKept(t)
    <3>1. NotStopQueued(t)' /\ \A q \in Pods : proc'[q][t] = proc[q][t] /\ proc[q][t] \in Nat
      BY <1>4, <1>6, <2>1, <2>2, InvFacts
    <3> QED BY <1>5, <1>7, <2>1, <3>1 DEF TaskOK, EntryInv, StoreKept, OnceQueued, Queued, Finished, Unfinished
  <2> QED BY <1>7, <2>1, <2>3, <2>4, AwayKept DEF LeaseKept, Finished
<1>9. ASSUME NEW id \in Unknown
      PROVE  /\ ~Queued(id)' /\ NotStopQueued(id)' /\ lease'[id] = NoPod
             /\ \A q \in Pods : proc'[q][id] = 0
             /\ IdleAt(p, id)'
  <2>1. Absent(id) /\ NotStopQueued(id) /\ id \in Ids
    BY InvFacts DEF Absent, NotStopQueued, Unknown
  <2>2. id # s
    BY <1>3, <2>1
  <2> QED BY <1>4, <1>5, <1>6, <1>7, <2>1, <2>2 DEF Absent, Queued, IdleAt
<1>10. p \in Owner
  BY DEF Owner
<1> QED BY <1>7, <1>8, <1>9, <1>10, CalmStep

(* A popped task belongs to nobody.                                        *)
LEMMA PopOwn ==
  ASSUME Inv, TypeOK', NEW p \in Pods, Elsewhere(p), NEW t \in Starts, TaskOK(t),
         Queued(t), ~Queued(t)', OnceQueued(t)', UNCHANGED stopQ,
         sub'[p].pc = "popped", sub'[p].id = t,
         \A q \in Pods \ {p} : proc'[q][t] = proc[q][t], proc'[p][t] = proc[p][t] + 1,
         UNCHANGED <<task, lease, alive, tracked, active, running, halting, lis, cln>>
  PROVE  TaskOK(t)'
<1>1. Free(t) /\ \A q \in Pods : proc[q][t] = 0
  BY DEF TaskOK, FreeInv, EntryInv
<1>2. proc'[p][t] = 1 /\ \A q \in Pods \ {p} : proc'[q][t] = 0
  BY <1>1
<1>3. \A q \in Pods : ~Owns(q, t)'
  BY <1>1 DEF Free, Owns, Handling, Elsewhere
<1>4. EntryInv(t)'
  <2>1. NotStopQueued(t)'
    BY DEF TaskOK, EntryInv, NotStopQueued
  <2> QED BY <1>2, <2>1 DEF EntryInv
<1>5. Free(t)'
  BY <1>1, <1>3 DEF Free
<1>6. FreeInv(t)'
  <2>1. \A q \in Pods \ {p} : Unclaimed(q, t)' => Unclaimed(q, t) /\ sub'[q].pc = sub[q].pc
    BY DEF Unclaimed, Elsewhere
  <2>2. \A q \in Pods : Unclaimed(q, t) => Finished(t) /\ sub[q].pc # "retarget"
    BY <1>1 DEF TaskOK, FreeInv
  <2>3. Finished(t)' = Finished(t)
    BY DEF Finished
  <2> QED BY <1>2, <1>5, <2>1, <2>2, <2>3 DEF FreeInv
<1>7. OwnerInv(t)'
  BY <1>3 DEF OwnerInv
<1>8. \A q \in Pods : LeasedAt(q, t)' /\ StageAt(q, t)'
  BY <1>3 DEF Owns, Handling, LeasedAt, Working, StageAt
<1> QED BY <1>4, <1>6, <1>7, <1>8 DEF TaskOK

(* BRPOPLPUSH moves the only entry of a task.                              *)
LEMMA StepOfPopQueue ==
  ASSUME Inv, TypeOK', NEW p \in Pods, Elsewhere(p), NEW c \in Channels, PopQueue(p, c)
  PROVE  raced \subseteq raced' /\ StepKept
<1> USE TaskQueueAssumption DEF SubStep
<1>1. PICK u : u = Last(queue[c])
  OBVIOUS
<1>2. queue \in [Channels -> Seq(Ids)] /\ queue[c] # <<>> /\ queue' = [queue EXCEPT ![c] = Front(@)]
  BY InvFacts DEF PopQueue, TypeOK, RedisType
<1>3. u \in Ids /\ Queued(u)
  BY <1>1, <1>2, PopEffect
<1>4. \A x \in Ids : (Queued(x)' => Queued(x)) /\ (OnceQueued(x) => OnceQueued(x)')
  BY <1>1, <1>2, PopEffect
<1>5. \A x \in Ids \ {u} : Queued(x) => Queued(x)'
  BY <1>1, <1>2, PopEffect
<1>6. OnceQueued(u) => ~Queued(u)'
  BY <1>1, <1>2, PopEffect
<1>7. Popped(p, u) /\ sub[p].pc = "idle" /\ UNCHANGED stopQ
  BY <1>1 DEF PopQueue
<1>8. /\ sub'[p].pc = "popped" /\ sub'[p].id = u
      /\ \A q \in Pods, x \in Ids : q # p \/ x # u => proc'[q][x] = proc[q][x]
      /\ proc'[p][u] = proc[p][u] + 1
  BY <1>3, <1>7, InvFacts, PoppedEffect
<1>9. UNCHANGED <<task, lease, alive, tracked, active, running, halting, lis, cln, raced>>
  BY <1>7 DEF Popped, local
<1>10. ASSUME NEW t \in Starts \ raced' PROVE TaskOK(t)'
  <2>1. TaskOK(t) /\ t \in Ids /\ OnceQueued(t)
    BY <1>9, <1>10, InvFacts DEF Ids, TaskOK, EntryInv
  <2>2. CASE t = u
    BY <1>3, <1>4, <1>6, <1>7, <1>8, <1>9, <2>1, <2>2, PopOwn
  <2>3. CASE t # u
    <3>1. LocalKept(p, t) /\ Away(p, t)
      BY <1>7, <1>8, <1>9, <2>3 DEF LocalKept, Away
    <3>2. StoreKept(t)
      <4>1. \A q \in Pods : proc'[q][t] = proc[q][t] /\ proc[q][t] \in Nat
        BY <1>8, <2>1, <2>3, InvFacts
      <4>2. OnceQueued(t)' /\ (Queued(t)' <=> Queued(t))
        BY <1>4, <1>5, <2>1, <2>3
      <4> QED BY <1>7, <1>9, <2>1, <4>1, <4>2 DEF TaskOK, EntryInv, StoreKept, NotStopQueued, Finished, Unfinished
    <3>3. PodKept(p, t)
      BY <1>9, <2>1, <3>1, AwayKept DEF Finished
    <3>4. LeaseKept(t)
      BY <1>9 DEF LeaseKept
    <3> QED BY <1>9, <2>1, <3>2, <3>3, <3>4, InvFacts, Frame DEF Owner
  <2> QED BY <2>2, <2>3
<1>11. ASSUME NEW id \in Unknown PROVE Absent(id)'
  <2>1. Absent(id) /\ NotStopQueued(id) /\ id \in Ids /\ id # u
    BY <1>3, InvFacts DEF Absent, NotStopQueued, Unknown
  <2>2. ~Queued(id)' /\ NotStopQueued(id)' /\ lease'[id] = NoPod
    BY <1>4, <1>7, <1>9, <2>1 DEF Absent, NotStopQueued
  <2>3. \A q \in Pods : proc'[q][id] = 0
    BY <1>8, <2>1 DEF Absent
  <2>4. IdleAt(p, id)'
    BY <1>8, <1>9, <2>1 DEF Absent, IdleAt
  <2> QED BY <2>1, <2>2, <2>3, <2>4, AbsentKept DEF Owner
<1> QED BY <1>9, <1>10, <1>11 DEF StepKept

(* A waiting task names no pod: it is claimed, not retargeted.             *)
LEMMA StepOfInspect ==
  ASSUME Inv, TypeOK', NEW p \in Pods, Elsewhere(p), Inspect(p)
  PROVE  raced \subseteq raced' /\ StepKept
<1> USE TaskQueueAssumption DEF SubStep
<1>1. sub[p].pc = "popped" /\ sub[p].id \in Ids
  BY InvFacts DEF Inspect, TypeOK, SubType
<1>2. PICK u \in Ids : u = sub[p].id
  BY <1>1
<1>3. UNCHANGED <<task, queue, stopQ, proc, lease, alive, tracked, active, running, halting, lis, cln, raced>>
  BY DEF Inspect, redis, local
<1>4. sub[p] \in [pc : SubPcs, id : Ids, got : BOOLEAN, copy : Record] /\ sub \in [Pods -> [pc : SubPcs, id : Ids, got : BOOLEAN, copy : Record]]
  BY InvFacts DEF TypeOK, SubType
<1>5. sub'[p].pc \in {"claim", "retarget"} /\ sub'[p].id = u
  <2>1. CASE SubGoto(p, "claim")
    BY <1>2, <1>4, <2>1 DEF SubGoto
  <2>2. CASE sub' = [sub EXCEPT ![p].pc = "retarget", ![p].got = (Deferred(sub[p].id) # task[sub[p].id]), ![p].copy = Deferred(sub[p].id)]
    BY <1>2, <1>4, <2>2
  <2> QED BY <2>1, <2>2 DEF Inspect
<1>6. Deferred(u) = task[u] /\ task[u].pod = NoPod => sub'[p].pc = "claim"
  <2>1. Deferred(u) = task[u] /\ task[u].pod = NoPod => SubGoto(p, "claim")
    BY <1>2 DEF Inspect
  <2> QED BY <1>4, <2>1 DEF SubGoto
<1>7. \A t \in Starts : LocalKept(p, t)
  BY <1>3 DEF LocalKept
<1>8. ASSUME NEW t \in Starts \ raced' PROVE StoreKept(t) /\ PodKept(p, t)
  <2>1. TaskOK(t) /\ (\A q \in Pods : proc[q][t] \in Nat)
    BY <1>3, <1>8, InvFacts DEF Ids
  <2>2. StoreKept(t)
    BY <1>3, <2>1, SameStore
  <2>3. CASE t = u
    <3>1. p \in alive
      BY DEF Inspect
    <3>2. Unclaimed(p, t) /\ ~Handling(p, t)
      BY <1>1, <1>2, <2>3, <3>1 DEF Unclaimed, Handling
    <3>3. Free(t)
      BY <2>1, <3>2 DEF TaskOK, FreeInv
    <3>4. sub'[p].pc = "claim"
      BY <1>6, <2>3, <3>3 DEF Free, Deferred
    <3>5. ~Handling(p, t)' /\ ~Owns(p, t)'
      BY <1>3, <3>3, <3>4 DEF Free, Owns, Handling
    <3>6. LeasedAt(p, t)' /\ StageAt(p, t)'
      BY <3>4, <3>5 DEF LeasedAt, Working, StageAt, Owns
    <3> QED BY <2>2, <3>2, <3>4, <3>5, <3>6 DEF PodKept
  <2>4. CASE t # u
    <3>1. Away(p, t)
      BY <1>1, <1>2, <1>5, <2>4 DEF Away
    <3> QED BY <1>3, <1>7, <2>1, <2>2, <3>1, AwayKept DEF Finished
  <2> QED BY <2>3, <2>4
<1>9. \A id \in Unknown : IdleAt(p, id)'
  BY <1>1, <1>2, <1>3, <1>5, <1>7, SubIdleAt
<1> QED BY <1>3, <1>8, <1>9, LocalStep

(* A GET of the subscriber.                                                *)
LEMMA StepOfSubGet ==
  ASSUME Inv, TypeOK', NEW p \in Pods, Elsewhere(p), SubGet(p)
  PROVE  raced \subseteq raced' /\ StepKept
<1>1. sub'[p].pc = sub[p].pc /\ sub'[p].id = sub[p].id /\ sub[p].pc # "idle"
  BY InvFacts DEF SubGet, SubRmw, TypeOK, SubType
<1>2. UNCHANGED <<task, queue, stopQ, proc, lease, alive, tracked, active, running, halting, lis, cln, raced>>
  BY DEF SubGet, redis, local
<1>3. \A t \in Starts : LocalKept(p, t)
  BY <1>2 DEF LocalKept
<1>4. ASSUME NEW t \in Starts \ raced' PROVE StoreKept(t) /\ PodKept(p, t)
  <2>1. TaskOK(t) /\ (\A q \in Pods : proc[q][t] \in Nat)
    BY <1>2, <1>4, InvFacts DEF Ids
  <2>2. StoreKept(t)
    BY <1>2, <2>1, SameStore
  <2> QED BY <1>1, <1>2, <1>3, <2>1, <2>2, StayKept DEF Finished
<1>5. \A id \in Unknown : IdleAt(p, id)'
  BY <1>1, <1>2, <1>3, SubIdleAt
<1> QED BY <1>2, <1>4, <1>5, LocalStep

(* Only stop requests, and tasks that were hit already, are retargeted.    *)
LEMMA StepOfRetarget ==
  ASSUME Inv, TypeOK', NEW p \in Pods, Elsewhere(p), Retarget(p)
  PROVE  raced \subseteq raced' /\ StepKept
<1> USE TaskQueueAssumption DEF SubStep
<1>1. sub[p].pc = "retarget" /\ sub[p].id \in Ids /\ sub[p].copy \in Record /\ p \in alive
  BY InvFacts DEF Retarget, TypeOK, SubType
<1>2. PICK u \in Ids : u = sub[p].id
  BY <1>1
<1>3. UNCHANGED <<queue, lease, alive, tracked, active, running, halting, lis, cln, raced>>
  BY DEF Retarget, local
<1>4. \A x \in Ids \ {u} : task'[x] = task[x]
  BY <1>1, <1>2, InvFacts DEF Retarget, TypeOK, RedisType
<1>5. /\ sub'[p].id = u \/ sub'[p].pc = "idle"
      /\ \A q \in Pods, x \in Ids \ {u} : proc'[q][x] = proc[q][x]
      /\ \A x \in Ids \ {u} : NotStopQueued(x) => NotStopQueued(x)'
  <2>1. CASE sub[p].copy.pod \in {NoPod, p}
    <3>1. SubGoto(p, "claim") /\ UNCHANGED <<stopQ, proc>>
      BY <2>1 DEF Retarget
    <3>2. sub'[p].id = u
      BY <1>2, <3>1, InvFacts, GotoEffect DEF TypeOK, StartPcs, StopPcs, SubPcs, SubRmw
    <3> QED BY <3>1, <3>2 DEF NotStopQueued
  <2>2. CASE sub[p].copy.pod \notin {NoPod, p}
    <3>1. PICK r \in Pods : r = sub[p].copy.pod
      BY <1>1, <2>2 DEF Record, Owner
    <3>2. SubIdle(p) /\ proc' = LRem(p, u) /\ stopQ' = [stopQ EXCEPT ![r] = Append(@, u)]
      BY <1>2, <2>2, <3>1 DEF Retarget
    <3>3. sub'[p].pc = "idle"
      BY <3>2, InvFacts, IdleEffect DEF TypeOK
    <3>4. proc \in [Pods -> [Ids -> Nat]] /\ stopQ \in [Pods -> Seq(Ids)]
      BY InvFacts DEF TypeOK, RedisType
    <3>5. \A q \in Pods, x \in Ids \ {u} : proc'[q][x] = proc[q][x]
      BY <3>2, <3>4, LRemEffect
    <3>6. \A x \in Ids \ {u} : NotStopQueued(x) => NotStopQueued(x)'
      BY <3>2, <3>4, StopPushEffect
    <3> QED BY <3>3, <3>5, <3>6
  <2> QED BY <2>1, <2>2
<1>6. \A t \in Starts : LocalKept(p, t)
  BY <1>3 DEF LocalKept
<1>7. ASSUME NEW t \in Starts \ raced' PROVE StoreKept(t) /\ LeaseKept(t) /\ PodKept(p, t)
  <2>1. TaskOK(t) /\ t \in Ids
    BY <1>3, <1>7, InvFacts DEF Ids
  <2>2. t # u
    BY <1>1, <1>2, <2>1 DEF TaskOK, FreeInv, Unclaimed
  <2>3. Away(p, t)
    BY <1>1, <1>2, <1>5, <2>2 DEF Away
  <2>4. task'[t] = task[t] /\ NotStopQueued(t)' /\ \A q \in Pods : proc'[q][t] = proc[q][t] /\ proc[q][t] \in Nat
    BY <1>4, <1>5, <2>1, <2>2, InvFacts DEF TaskOK, EntryInv
  <2>5. StoreKept(t)
    BY <1>3, <2>1, <2>4 DEF TaskOK, EntryInv, StoreKept, OnceQueued, Queued, Finished, Unfinished
  <2> QED BY <1>3, <1>6, <2>1, <2>3, <2>4, <2>5, AwayKept DEF LeaseKept, Finished
<1>8. ASSUME NEW id \in Unknown
      PROVE  /\ ~Queued(id)' /\ NotStopQueued(id)' /\ lease'[id] = NoPod
             /\ \A q \in Pods : proc'[q][id] = 0
             /\ IdleAt(p, id)'
  <2>1. Absent(id) /\ NotStopQueued(id) /\ id \in Ids /\ id # u
    BY <1>1, <1>2, InvFacts, SubKnown DEF Absent, NotStopQueued, Unknown
  <2>2. IdleAt(p, id)'
    BY <1>1, <1>2, <1>3, <1>5, <1>6, SubIdleAt
  <2> QED BY <1>3, <1>5, <2>1, <2>2 DEF Absent, Queued
<1>9. p \in Owner
  BY DEF Owner
<1> QED BY <1>3, <1>7, <1>8, <1>9, CalmStep

(* A claim that is not a race gives the task to one pod.                   *)
LEMMA ClaimOwn ==
  ASSUME Inv, TypeOK', NEW p \in Pods, Elsewhere(p), NEW t \in Starts, TaskOK(t), ~Finished(t),
         p \in alive, sub[p].pc = "claim", sub[p].id = t, sub'[p].pc = "start", sub'[p].id = t,
         task'[t].state = "PROCESSING", lease'[t] = p,
         UNCHANGED <<queue, stopQ, proc, alive, tracked, active, running, halting, lis, cln>>
  PROVE  TaskOK(t)'
<1>1. Unclaimed(p, t)
  BY DEF Unclaimed
<1>2. Free(t) /\ proc[p][t] > 0
  BY <1>1 DEF TaskOK, FreeInv
<1>3. \A q \in Pods : proc[q][t] \in Nat
  BY InvFacts DEF Ids
<1>4. ~Queued(t)
  BY <1>2, <1>3 DEF TaskOK, EntryInv
<1>5. \A q \in Pods \ {p} : ~Unclaimed(q, t)'
  BY <1>2 DEF TaskOK, FreeInv, EntryInv, Unclaimed, Elsewhere
<1>6. \A q \in Pods \ {p} : ~Owns(q, t)'
  BY <1>2 DEF Free, Owns, Handling, Elsewhere
<1>7. lis'[p][t].pc = "idle" /\ t \notin running'[p] /\ Handling(p, t)' /\ ~Unclaimed(p, t)'
  BY <1>2 DEF Free, Owns, Handling, Unclaimed
<1>8. EntryInv(t)'
  BY <1>2 DEF TaskOK, EntryInv, OnceQueued, NotStopQueued, Queued
<1>9. FreeInv(t)'
  BY <1>4, <1>5, <1>7 DEF FreeInv, Queued
<1>10. OwnerInv(t)'
  BY <1>2, <1>6, <1>7 DEF OwnerInv, Keeps
<1>11. \A q \in Pods \ {p} : LeasedAt(q, t)' /\ StageAt(q, t)'
  BY <1>6 DEF Owns, Handling, LeasedAt, Working, StageAt
<1>12. LeasedAt(p, t)' /\ StageAt(p, t)'
  BY <1>7 DEF LeasedAt, StageAt
<1> QED BY <1>8, <1>9, <1>10, <1>11, <1>12 DEF TaskOK

(* ClaimTaskWithLease.                                                     *)
LEMMA StepOfClaim ==
  ASSUME Inv, TypeOK', NEW p \in Pods, Elsewhere(p), Claim(p)
  PROVE  raced \subseteq raced' /\ StepKept
<1> USE TaskQueueAssumption DEF SubStep
<1>1. sub[p].pc = "claim" /\ sub[p].id \in Ids /\ p \in alive
  BY InvFacts DEF Claim, TypeOK, SubType
<1>2. PICK u \in Ids : u = sub[p].id
  BY <1>1
<1>3. UNCHANGED <<queue, stopQ, proc, alive, tracked, active, running, halting, lis, cln>>
  BY DEF Claim, local
<1>4. sub'[p].id = u /\ sub'[p].pc = IF u \in Starts THEN "start" ELSE "mark"
  <2>1. CASE u \in Starts
    <3>1. SubGoto(p, "start")
      BY <1>2, <2>1 DEF Claim
    <3> QED BY <1>2, <2>1, <3>1, InvFacts, GotoEffect DEF TypeOK, StartPcs, StopPcs, SubPcs, SubRmw
  <2>2. CASE u \notin Starts
    <3>1. SubGoto(p, "mark") /\ u \in Stops
      BY <1>2, <2>2 DEF Claim, Ids
    <3> QED BY <1>2, <2>2, <3>1, InvFacts, GotoEffect DEF TypeOK, StartPcs, StopPcs, SubPcs, SubRmw
  <2> QED BY <2>1, <2>2
<1>5. raced \subseteq raced' /\ (u \notin raced' => ~Finished(u))
  BY <1>2, InvFacts, RaceEffect DEF Claim, Finished, Terminal
<1>6. /\ \A x \in Ids \ {u} : task'[x] = task[x] /\ lease'[x] = lease[x]
      /\ task'[u].state = "PROCESSING" /\ lease'[u] = p
  BY <1>2, InvFacts DEF Claim, TypeOK, RedisType
<1>7. \A t \in Starts : LocalKept(p, t)
  BY <1>3 DEF LocalKept
<1>8. ASSUME NEW t \in Starts \ raced' PROVE TaskOK(t)' /\ (task[t].state # "NONE" => task'[t].state # "NONE")
  <2>1. TaskOK(t) /\ t \in Ids /\ (\A q \in Pods : proc[q][t] \in Nat)
    BY <1>5, <1>8, InvFacts DEF Ids
  <2>2. CASE t = u
    BY <1>1, <1>2, <1>3, <1>4, <1>5, <1>6, <1>8, <2>1, <2>2, ClaimOwn
  <2>3. CASE t # u
    <3>1. Away(p, t)
      BY <1>1, <1>2, <1>4, <2>3 DEF Away
    <3>2. task'[t] = task[t] /\ lease'[t] = lease[t]
      BY <1>6, <2>1, <2>3
    <3>3. StoreKept(t)
      BY <1>3, <2>1, <3>2, SameStore
    <3>4. PodKept(p, t)
      BY <1>7, <2>1, <3>1, <3>2, AwayKept DEF Finished
    <3>5. LeaseKept(t)
      BY <3>2 DEF LeaseKept
    <3> QED BY <1>3, <2>1, <3>2, <3>3, <3>4, <3>5, InvFacts, Frame DEF Owner
  <2> QED BY <2>2, <2>3
<1>9. ASSUME NEW id \in Unknown PROVE Absent(id)'
  <2>1. Absent(id) /\ NotStopQueued(id) /\ id \in Ids /\ id # u
    BY <1>1, <1>2, InvFacts, SubKnown DEF Absent, NotStopQueued, Unknown
  <2>2. ~Queued(id)' /\ NotStopQueued(id)' /\ lease'[id] = NoPod /\ \A q \in Pods : proc'[q][id] = 0
    BY <1>3, <1>6, <2>1 DEF Absent, NotStopQueued, Queued
  <2>3. IdleAt(p, id)'
    BY <1>1, <1>2, <1>3, <1>4, <1>7, SubIdleAt
  <2> QED BY <2>1, <2>2, <2>3, AbsentKept DEF Owner
<1> QED BY <1>5, <1>8, <1>9 DEF StepKept

-----------------------------------------------------------------------------
(* The worker and the completion listener                                  *)

(* A listener works on a published ID.                                     *)
LEMMA LisIdleAt ==
  ASSUME Inv, NEW p \in Pods, NEW u \in Starts, u \in running[p] \/ lis[p][u].pc # "idle",
         UNCHANGED <<sub, cln>>, \A t \in Starts \ {u} : LocalKept(p, t)
  PROVE  u \notin Unknown /\ \A id \in Unknown : IdleAt(p, id)'
<1>1. u \notin Unknown
  BY InvFacts DEF IdleAt
<1> QED BY <1>1, InvFacts DEF IdleAt, LocalKept

(* The listener of a task whose end is written.                            *)
LEMMA EndKept ==
  ASSUME NEW p \in Pods, NEW t \in Starts, TaskOK(t), lis[p][t].pc # "idle",
         UNCHANGED <<sub, alive, running>>, Finished(t)'
  PROVE  PodKept(p, t) /\ ~Working(p, t)'
<1>1. t \notin running[p] /\ ~(sub[p].id = t /\ sub[p].pc \in {"start", "fail"})
  BY DEF TaskOK, StageAt
<1>2. ~Working(p, t)'
  BY <1>1 DEF Working
<1>3. StageAt(p, t)' /\ LeasedAt(p, t)'
  BY <1>1, <1>2 DEF StageAt, LeasedAt
<1>4. Unclaimed(p, t)' => Unclaimed(p, t) /\ sub'[p].pc # "retarget"
  BY DEF TaskOK, FreeInv, Unclaimed
<1> QED BY <1>2, <1>3, <1>4 DEF PodKept, Owns

(* The listener takes a task over from its worker.                         *)
LEMMA StepOfWorkerDone ==
  ASSUME Inv, TypeOK', NEW p \in Pods, Elsewhere(p), NEW u \in Starts, WorkerDone(p, u)
  PROVE  raced \subseteq raced' /\ StepKept
<1>1. u \in running[p]
  BY DEF WorkerDone
<1>2. UNCHANGED <<task, queue, stopQ, proc, lease, alive, tracked, active, sub, cln, raced>>
  BY DEF WorkerDone, redis
<1>3. running'[p] = running[p] \ {u} /\ halting'[p] = halting[p] \ {u}
  BY InvFacts DEF WorkerDone, TypeOK, LocalType
<1>4. lis'[p][u].pc \in {"inspect", "result"} /\ \A t \in Starts \ {u} : lis'[p][t] = lis[p][t]
  BY InvFacts DEF WorkerDone, TypeOK, LisType, IdleLis
<1>5. \A t \in Starts \ {u} : LocalKept(p, t)
  BY <1>2, <1>3, <1>4 DEF LocalKept
<1>6. ASSUME NEW t \in Starts \ raced' PROVE StoreKept(t) /\ PodKept(p, t)
  <2>1. TaskOK(t) /\ (\A q \in Pods : proc[q][t] \in Nat)
    BY <1>2, <1>6, InvFacts DEF Ids
  <2>2. StoreKept(t)
    BY <1>2, <2>1, SameStore
  <2>3. CASE t = u
    <3>1. (Handling(p, t)' <=> Handling(p, t)) /\ (Unclaimed(p, t)' <=> Unclaimed(p, t)) /\ (Keeps(p, t)' <=> Keeps(p, t))
      BY <1>2 DEF Handling, Unclaimed, Keeps
    <3>2. Owns(p, t)
      BY <1>1, <2>3 DEF Owns
    <3>3. ~(sub[p].id = t /\ sub[p].pc \in {"start", "fail"})
      BY <1>1, <2>1, <2>3 DEF TaskOK, StageAt
    <3>4. LeasedAt(p, t)'
      BY <1>2, <1>3, <2>3, <3>3 DEF LeasedAt, Working
    <3>5. StageAt(p, t)'
      BY <1>2, <1>3, <1>4, <2>3, <3>3 DEF StageAt
    <3>6. Unclaimed(p, t)' => sub'[p].pc # "retarget"
      BY <1>2, <2>1, <3>1 DEF TaskOK, FreeInv
    <3> QED BY <2>2, <3>1, <3>2, <3>4, <3>5, <3>6 DEF PodKept
  <2>4. CASE t # u
    BY <1>2, <1>5, <2>1, <2>2, <2>4, StayKept DEF Finished
  <2> QED BY <2>3, <2>4
<1>7. \A id \in Unknown : IdleAt(p, id)'
  BY <1>1, <1>2, <1>5, LisIdleAt
<1> QED BY <1>2, <1>6, <1>7, LocalStep

(* A GET of the listener.                                                  *)
LEMMA StepOfLisGet ==
  ASSUME Inv, TypeOK', NEW p \in Pods, Elsewhere(p), NEW u \in Starts, LisGet(p, u)
  PROVE  raced \subseteq raced' /\ StepKept
<1>1. lis[p][u].pc # "idle"
  BY DEF LisGet, LisRmw
<1>2. UNCHANGED <<task, queue, stopQ, proc, lease, alive, tracked, active, running, halting, sub, cln, raced>>
  BY DEF LisGet, redis, local
<1>3. lis' = [lis EXCEPT ![p][u] = [lis[p][u] EXCEPT !.got = TRUE, !.copy = task[u]]]
  BY DEF LisGet
<1>4. lis \in [Pods -> [Starts -> LisRecord]] /\ lis[p][u] \in LisRecord
  BY InvFacts DEF TypeOK, LisType, LisRecord
<1>5. lis'[p][u] = [lis[p][u] EXCEPT !.got = TRUE, !.copy = task[u]] /\ \A t \in Starts \ {u} : lis'[p][t] = lis[p][t]
  BY <1>3, <1>4
<1>6. lis'[p][u].pc = lis[p][u].pc
  BY <1>4, <1>5 DEF LisRecord
<1>7. \A t \in Starts : LocalKept(p, t)
  BY <1>2, <1>5, <1>6 DEF LocalKept
<1>8. ASSUME NEW t \in Starts \ raced' PROVE StoreKept(t) /\ PodKept(p, t)
  <2>1. TaskOK(t) /\ (\A q \in Pods : proc[q][t] \in Nat)
    BY <1>2, <1>8, InvFacts DEF Ids
  <2>2. StoreKept(t)
    BY <1>2, <2>1, SameStore
  <2> QED BY <1>2, <1>7, <2>1, <2>2, StayKept DEF Finished
<1>9. \A id \in Unknown : IdleAt(p, id)'
  BY <1>1, <1>2, <1>7, LisIdleAt
<1> QED BY <1>2, <1>8, <1>9, LocalStep

(* The write of the end of a task: the result, or the failure.             *)
LEMMA StepOfEnd ==
  ASSUME Inv, TypeOK', NEW p \in Pods, Elsewhere(p), NEW u \in Starts, NEW state \in Terminal,
         lis[p][u].pc # "idle", Result(u, lis[p][u].copy, state), Race(u, lis[p][u].copy, state),
         NEW pc \in LisPcs, LisGoto(p, u, pc), active'[p] \in {active[p], active[p] \ {u}},
         UNCHANGED <<queue, stopQ, proc, lease, alive, tracked, running, halting, sub, cln>>
  PROVE  raced \subseteq raced' /\ StepKept
<1>1. lis[p][u].copy \in Record /\ u \in Ids /\ state \in States
  BY InvFacts DEF TypeOK, LisType, Ids, States
<1>2. \A t \in Starts \ {u} : lis'[p][t] = lis[p][t]
  BY InvFacts, LisGotoEffect DEF TypeOK
<1>3. raced \subseteq raced' /\ (u \notin raced' => lis[p][u].copy = task[u])
  BY <1>1, InvFacts, RaceEffect
<1>4. /\ \A x \in Ids \ {u} : task'[x] = task[x]
      /\ task'[u].state = state /\ task'[u].pod = lis[p][u].copy.pod
  BY <1>1, InvFacts, ResultEffect
<1>5. \A t \in Starts \ {u} : LocalKept(p, t)
  BY <1>2 DEF LocalKept
<1>6. ASSUME NEW t \in Starts \ raced' PROVE StoreKept(t) /\ PodKept(p, t)
  <2>1. TaskOK(t) /\ (\A q \in Pods : proc[q][t] \in Nat)
    BY <1>3, <1>6, InvFacts DEF Ids
  <2>2. CASE t = u
    <3>1. task'[t].pod = task[t].pod /\ task'[t].state # "NONE" /\ Finished(t)' /\ ~Unfinished(t)'
      BY <1>3, <1>4, <1>6, <2>2 DEF Finished, Unfinished, Terminal
    <3>2. StoreKept(t)
      BY <2>1, <3>1, WriteStore
    <3> QED BY <2>1, <2>2, <3>1, <3>2, EndKept
  <2>3. CASE t # u
    <3>1. task'[t] = task[t]
      BY <1>4, <2>3 DEF Ids
    <3>2. StoreKept(t)
      BY <2>1, <3>1, SameStore
    <3> QED BY <1>5, <2>1, <2>3, <3>1, <3>2, StayKept DEF Finished
  <2> QED BY <2>2, <2>3
<1>7. \A id \in Unknown : IdleAt(p, id)'
  BY <1>5, LisIdleAt
<1> QED BY <1>3, <1>6, <1>7, LocalStep

(* Its three callers.                                                      *)
LEMMA StepOfWrites ==
  ASSUME Inv, TypeOK', NEW p \in Pods, Elsewhere(p), NEW u \in Starts,
         Complete(p, u) \/ FailFree(p, u) \/ FailHeld(p, u)
  PROVE  raced \subseteq raced' /\ StepKept
<1> USE DEF LisStep, local
<1>1. active \in [Pods -> SUBSET Ids]
  BY InvFacts DEF TypeOK, LocalType
<1>2. CASE Complete(p, u)
  <2>1. PICK state \in Terminal : state = IF lis[p][u].out = "success" THEN "STOPPED" ELSE "FAILED"
    BY DEF Terminal
  <2>2. Result(u, lis[p][u].copy, state) /\ Race(u, lis[p][u].copy, state) /\ LisGoto(p, u, "untrack")
    BY <1>2, <2>1 DEF Complete
  <2>3. UNCHANGED <<queue, stopQ, proc, lease, alive, tracked, active, running, halting, sub, cln>> /\ lis[p][u].pc # "idle"
    BY <1>2 DEF Complete
  <2>4. "untrack" \in LisPcs /\ active'[p] \in {active[p], active[p] \ {u}}
    BY <2>3 DEF LisPcs
  <2> QED BY <2>2, <2>3, <2>4, StepOfEnd
<1>3. CASE FailFree(p, u)
  <2>1. Result(u, lis[p][u].copy, "FAILED") /\ Race(u, lis[p][u].copy, "FAILED") /\ LisGoto(p, u, "idle")
    BY <1>3 DEF FailFree
  <2>2. UNCHANGED <<queue, stopQ, proc, lease, alive, tracked, running, halting, sub, cln>> /\ lis[p][u].pc # "idle"
    BY <1>3 DEF FailFree
  <2>3. "idle" \in LisPcs /\ "FAILED" \in Terminal /\ active'[p] \in {active[p], active[p] \ {u}}
    BY <1>1, <1>3 DEF FailFree, LisPcs, Terminal
  <2> QED BY <2>1, <2>2, <2>3, StepOfEnd
<1>4. CASE FailHeld(p, u)
  <2>1. Result(u, lis[p][u].copy, "FAILED") /\ Race(u, lis[p][u].copy, "FAILED") /\ LisGoto(p, u, "drop")
    BY <1>4 DEF FailHeld
  <2>2. UNCHANGED <<queue, stopQ, proc, lease, alive, tracked, active, running, halting, sub, cln>> /\ lis[p][u].pc # "idle"
    BY <1>4 DEF FailHeld
  <2>3. "drop" \in LisPcs /\ "FAILED" \in Terminal /\ active'[p] \in {active[p], active[p] \ {u}}
    BY <2>2 DEF LisPcs, Terminal
  <2> QED BY <2>1, <2>2, <2>3, StepOfEnd
<1> QED BY <1>2, <1>3, <1>4

(* A completed task leaves the maps.                                       *)
LEMMA StepOfUntrack ==
  ASSUME Inv, TypeOK', NEW p \in Pods, Elsewhere(p), NEW u \in Starts, Untrack(p, u)
  PROVE  raced \subseteq raced' /\ StepKept
<1>1. lis[p][u].pc = "untrack"
  BY DEF Untrack, LisStep
<1>2. UNCHANGED <<task, queue, stopQ, proc, lease, alive, running, halting, sub, cln, raced>>
  BY DEF Untrack, redis
<1>3. tracked'[p] = tracked[p] \ {u} /\ active'[p] = active[p] \ {u}
  BY InvFacts DEF Untrack, TypeOK, LocalType
<1>4. \A t \in Starts \ {u} : lis'[p][t] = lis[p][t]
  BY InvFacts, LisGotoEffect DEF Untrack, LisPcs, TypeOK
<1>5. \A t \in Starts \ {u} : LocalKept(p, t)
  BY <1>2, <1>3, <1>4 DEF LocalKept
<1>6. ASSUME NEW t \in Starts \ raced' PROVE StoreKept(t) /\ PodKept(p, t)
  <2>1. TaskOK(t) /\ (\A q \in Pods : proc[q][t] \in Nat)
    BY <1>2, <1>6, InvFacts DEF Ids
  <2>2. StoreKept(t)
    BY <1>2, <2>1, SameStore
  <2>3. CASE t = u
    <3>1. Finished(t)'
      BY <1>1, <1>2, <2>1, <2>3 DEF TaskOK, StageAt, Finished
    <3> QED BY <1>1, <1>2, <2>1, <2>2, <2>3, <3>1, EndKept
  <2>4. CASE t # u
    BY <1>2, <1>5, <2>1, <2>2, <2>4, StayKept DEF Finished
  <2> QED BY <2>3, <2>4
<1>7. \A id \in Unknown : IdleAt(p, id)'
  BY <1>1, <1>2, <1>5, LisIdleAt
<1> QED BY <1>2, <1>6, <1>7, LocalStep

(* A failed task leaves the map that a stop request looks in.              *)
LEMMA StepOfFailInspect ==
  ASSUME Inv, TypeOK', NEW p \in Pods, Elsewhere(p), NEW u \in Starts, FailInspect(p, u)
  PROVE  raced \subseteq raced' /\ StepKept
<1>1. lis[p][u].pc = "inspect"
  BY DEF FailInspect, LisStep
<1>2. UNCHANGED <<task, queue, stopQ, proc, lease, alive, active, running, halting, sub, cln, raced>>
  BY DEF FailInspect, redis
<1>3. tracked[p] \ {u} \subseteq tracked'[p]
  BY InvFacts DEF FailInspect, TypeOK, LocalType
<1>4. PICK pc \in {"failHeld", "failFree"} : LisGoto(p, u, pc)
  BY DEF FailInspect
<1>5. lis'[p][u].pc \in {"failHeld", "failFree"} /\ \A t \in Starts \ {u} : lis'[p][t] = lis[p][t]
  BY <1>4, InvFacts, LisGotoEffect DEF LisPcs, LisRmw, TypeOK
<1>6. \A t \in Starts \ {u} : LocalKept(p, t)
  BY <1>2, <1>3, <1>5 DEF LocalKept
<1>7. ASSUME NEW t \in Starts \ raced' PROVE StoreKept(t) /\ PodKept(p, t)
  <2>1. TaskOK(t) /\ (\A q \in Pods : proc[q][t] \in Nat)
    BY <1>2, <1>7, InvFacts DEF Ids
  <2>2. StoreKept(t)
    BY <1>2, <2>1, SameStore
  <2>3. CASE t = u
    <3>1. (Handling(p, t)' <=> Handling(p, t)) /\ (Unclaimed(p, t)' <=> Unclaimed(p, t)) /\ (Keeps(p, t)' <=> Keeps(p, t))
      BY <1>2 DEF Handling, Unclaimed, Keeps
    <3>2. t \notin running[p] /\ ~(sub[p].id = t /\ sub[p].pc \in {"start", "fail"})
      BY <1>1, <2>1, <2>3 DEF TaskOK, StageAt
    <3>3. LeasedAt(p, t)'
      BY <1>2, <3>2 DEF LeasedAt, Working
    <3>4. StageAt(p, t)'
      BY <1>2, <1>5, <2>3, <3>2 DEF StageAt
    <3>5. Unclaimed(p, t)' => sub'[p].pc # "retarget"
      BY <1>2, <2>1, <3>1 DEF TaskOK, FreeInv
    <3> QED BY <1>1, <2>2, <2>3, <3>1, <3>3, <3>4, <3>5 DEF PodKept, Owns
  <2>4. CASE t # u
    BY <1>2, <1>6, <2>1, <2>2, <2>4, StayKept DEF Finished
  <2> QED BY <2>3, <2>4
<1>8. \A id \in Unknown : IdleAt(p, id)'
  BY <1>1, <1>2, <1>6, LisIdleAt
<1> QED BY <1>2, <1>7, <1>8, LocalStep

(* LREM of a finished task.                                                *)
LEMMA DropStore ==
  ASSUME Inv, NEW t \in Starts, TaskOK(t), NEW f \in Pods, NEW id \in Ids, proc' = LRem(f, id),
         t = id => Finished(t), UNCHANGED <<task, queue, stopQ>>
  PROVE  StoreKept(t)
<1>1. t \in Ids /\ proc \in [Pods -> [Ids -> Nat]]
  BY InvFacts DEF TypeOK, RedisType, Ids
<1>2. \A q \in Pods : proc[q][t] \in Nat /\ proc'[q][t] <= proc[q][t] /\ (t # id => proc'[q][t] = proc[q][t])
  <2>1. \A q \in Pods, x \in Ids : q # f \/ x # id => proc'[q][x] = proc[q][x]
    BY <1>1, LRemEffect
  <2>2. proc'[f][id] = IF proc[f][id] > 0 THEN proc[f][id] - 1 ELSE 0
    BY <1>1, LRemEffect
  <2>3. \A q \in Pods, x \in Ids : proc[q][x] \in Nat
    BY <1>1
  <2>4. proc'[f][id] <= proc[f][id]
    BY <2>2, <2>3
  <2> QED BY <1>1, <2>1, <2>3, <2>4
<1>3. Finished(t)' = Finished(t)
  BY DEF Finished
<1> QED BY <1>2, <1>3 DEF TaskOK, EntryInv, StoreKept, OnceQueued, NotStopQueued, Queued, Finished, Unfinished

(* LREM makes nothing known of an ID that was not published.               *)
LEMMA DropUnknown ==
  ASSUME Inv, NEW f \in Pods, NEW id \in Ids, proc' = LRem(f, id)
  PROVE  \A x \in Unknown : \A q \in Pods : proc'[q][x] = 0
<1>1. proc \in [Pods -> [Ids -> Nat]]
  BY InvFacts DEF TypeOK, RedisType
<1>2. \A q \in Pods, x \in Ids : q # f \/ x # id => proc'[q][x] = proc[q][x]
  BY <1>1, LRemEffect
<1>3. proc'[f][id] = IF proc[f][id] > 0 THEN proc[f][id] - 1 ELSE 0
  BY <1>1, LRemEffect
<1>4. \A x \in Unknown : x \in Ids /\ \A q \in Pods : proc[q][x] = 0
  BY InvFacts DEF Absent, Unknown
<1> QED BY <1>2, <1>3, <1>4

(* The entry of a failed task is removed.                                  *)
LEMMA StepOfFailDrop ==
  ASSUME Inv, TypeOK', NEW p \in Pods, Elsewhere(p), NEW u \in Starts, FailDrop(p, u)
  PROVE  raced \subseteq raced' /\ StepKept
<1>1. lis[p][u].pc = "drop" /\ proc' = LRem(p, u) /\ u \in Ids
  BY DEF FailDrop, LisStep, Ids
<1>2. UNCHANGED <<task, queue, stopQ, lease, alive, tracked, active, running, halting, sub, cln, raced>>
  BY DEF FailDrop, local
<1>3. \A t \in Starts \ {u} : lis'[p][t] = lis[p][t]
  BY InvFacts, LisGotoEffect DEF FailDrop, LisPcs, TypeOK
<1>4. \A t \in Starts \ {u} : LocalKept(p, t)
  BY <1>2, <1>3 DEF LocalKept
<1>5. ASSUME NEW t \in Starts \ raced' PROVE StoreKept(t) /\ LeaseKept(t) /\ PodKept(p, t)
  <2>1. TaskOK(t)
    BY <1>2, <1>5, InvFacts
  <2>2. t = u => Finished(t)
    BY <1>1, <2>1 DEF TaskOK, StageAt
  <2>3. StoreKept(t)
    BY <1>1, <1>2, <2>1, <2>2, DropStore
  <2>4. Finished(t)' = Finished(t)
    BY <1>2 DEF Finished
  <2>5. PodKept(p, t)
    <3>1. CASE t = u
      BY <1>1, <1>2, <2>1, <2>2, <2>4, <3>1, EndKept
    <3>2. CASE t # u
      BY <1>2, <1>4, <2>1, <2>4, <3>2, StayKept
    <3> QED BY <3>1, <3>2
  <2> QED BY <1>2, <2>3, <2>5 DEF LeaseKept
<1>6. \A id \in Unknown : IdleAt(p, id)'
  BY <1>1, <1>2, <1>4, LisIdleAt
<1>7. \A id \in Unknown : /\ ~Queued(id)' /\ NotStopQueued(id)' /\ lease'[id] = NoPod
                          /\ \A q \in Pods : proc'[q][id] = 0
  BY <1>1, <1>2, InvFacts, DropUnknown DEF Absent, Queued, NotStopQueued
<1> QED BY <1>2, <1>5, <1>6, <1>7, CalmStep DEF Owner

(* The lease of a failed task is given up: nobody works on it.             *)
LEMMA StepOfFailUnlease ==
  ASSUME Inv, TypeOK', NEW p \in Pods, Elsewhere(p), NEW u \in Starts, FailUnlease(p, u)
  PROVE  raced \subseteq raced' /\ StepKept
<1>1. lis[p][u].pc = "unlease" /\ u \in Ids
  BY DEF FailUnlease, LisStep, Ids
<1>2. UNCHANGED <<task, queue, stopQ, proc, alive, tracked, running, halting, sub, cln, raced>>
  BY DEF FailUnlease
<1>3. lease'[u] = NoPod /\ \A x \in Ids \ {u} : lease'[x] = lease[x]
  BY <1>1, InvFacts DEF FailUnlease, TypeOK, RedisType
<1>4. active'[p] = active[p] \ {u} /\ \A t \in Starts \ {u} : lis'[p][t] = lis[p][t]
  <2>1. active'[p] = active[p] \ {u}
    BY InvFacts DEF FailUnlease, TypeOK, LocalType
  <2> QED BY <2>1, InvFacts, LisGotoEffect DEF FailUnlease, LisPcs, TypeOK
<1>5. \A t \in Starts \ {u} : LocalKept(p, t)
  BY <1>2, <1>4 DEF LocalKept
<1>6. ASSUME NEW t \in Starts \ raced' PROVE StoreKept(t) /\ LeaseKept(t) /\ PodKept(p, t)
  <2>1. TaskOK(t) /\ (\A q \in Pods : proc[q][t] \in Nat) /\ t \in Ids
    BY <1>2, <1>6, InvFacts DEF Ids
  <2>2. StoreKept(t)
    BY <1>2, <2>1, SameStore
  <2>3. Finished(t)' = Finished(t)
    BY <1>2 DEF Finished
  <2>4. CASE t = u
    <3>1. Finished(t)
      BY <1>1, <2>1, <2>4 DEF TaskOK, StageAt
    <3>2. PodKept(p, t) /\ ~Working(p, t)'
      BY <1>1, <1>2, <2>1, <2>3, <2>4, <3>1, EndKept
    <3>3. \A q \in Pods \ {p} : ~Owns(q, t)
      BY <1>1, <2>1, <2>4 DEF TaskOK, OwnerInv, Owns
    <3>4. \A q \in Pods \ {p} : ~Working(q, t)'
      BY <3>3 DEF Owns, Handling, Working, Elsewhere
    <3> QED BY <1>3, <2>2, <2>4, <3>1, <3>2, <3>4 DEF LeaseKept
  <2>5. CASE t # u
    <3>1. lease'[t] = lease[t]
      BY <1>3, <2>1, <2>5
    <3>2. PodKept(p, t)
      BY <1>2, <1>5, <2>1, <2>3, <2>5, <3>1, StayKept
    <3> QED BY <2>2, <3>1, <3>2 DEF LeaseKept
  <2> QED BY <2>4, <2>5
<1>7. \A id \in Unknown : IdleAt(p, id)'
  BY <1>1, <1>2, <1>5, LisIdleAt
<1>8. \A id \in Unknown : /\ ~Queued(id)' /\ NotStopQueued(id)' /\ lease'[id] = NoPod
                          /\ \A q \in Pods : proc'[q][id] = 0
  BY <1>2, <1>3, InvFacts DEF Absent, Queued, NotStopQueued, Unknown
<1> QED BY <1>2, <1>6, <1>7, <1>8, CalmStep DEF Owner

-----------------------------------------------------------------------------
(* Renewal of leases                                                       *)

(* Only a pod without the lease forgets a task.                            *)
LEMMA StepOfRenewCheck ==
  ASSUME Inv, TypeOK', NEW p \in Pods, Elsewhere(p), NEW u \in Ids, RenewCheck(p, u)
  PROVE  raced \subseteq raced' /\ StepKept
<1>1. UNCHANGED <<task, queue, stopQ, proc, lease, alive, tracked, running, halting, sub, lis, cln, raced>>
  BY DEF RenewCheck, redis
<1>2. active'[p] = active[p] \/ (lease[u] # p /\ active'[p] = active[p] \ {u})
  <2>1. active \in [Pods -> SUBSET Ids]
    BY InvFacts DEF TypeOK, LocalType
  <2>2. CASE lease[u] = p
    BY <2>2 DEF RenewCheck
  <2>3. CASE lease[u] # p
    <3>1. active' = [active EXCEPT ![p] = @ \ {u}]
      BY <2>3 DEF RenewCheck
    <3> QED BY <2>1, <2>3, <3>1
  <2> QED BY <2>2, <2>3
<1>3. ASSUME NEW t \in Starts \ raced' PROVE StoreKept(t) /\ PodKept(p, t)
  <2>1. TaskOK(t) /\ (\A q \in Pods : proc[q][t] \in Nat)
    BY <1>1, <1>3, InvFacts DEF Ids
  <2>2. StoreKept(t)
    BY <1>1, <2>1, SameStore
  <2>3. CASE t \in active[p] => t \in active'[p]
    <3>1. LocalKept(p, t)
      BY <1>1, <2>3 DEF LocalKept
    <3> QED BY <1>1, <2>1, <2>2, <3>1, StayKept DEF Finished
  <2>4. CASE lease[t] # p
    <3>1. (Owns(p, t)' <=> Owns(p, t)) /\ (Unclaimed(p, t)' <=> Unclaimed(p, t)) /\ (Working(p, t)' <=> Working(p, t))
      BY <1>1 DEF Owns, Handling, Unclaimed, Working
    <3>2. Finished(t)' = Finished(t)
      BY <1>1 DEF Finished
    <3>3. ~Working(p, t) /\ (Owns(p, t) => Finished(t))
      BY <2>1, <2>4 DEF TaskOK, LeasedAt, OwnerInv
    <3>4. StageAt(p, t)'
      BY <1>1, <2>1 DEF TaskOK, StageAt, Finished
    <3>5. Unclaimed(p, t)' => sub'[p].pc # "retarget"
      BY <1>1, <2>1, <3>1 DEF TaskOK, FreeInv
    <3> QED BY <2>2, <3>1, <3>2, <3>3, <3>4, <3>5 DEF PodKept, LeasedAt
  <2> QED BY <1>2, <2>3, <2>4
<1>4. \A id \in Unknown : IdleAt(p, id)'
  BY <1>1, InvFacts DEF IdleAt
<1> QED BY <1>1, <1>3, <1>4, LocalStep

(* The renewal reads and writes the record as it is.                       *)
LEMMA StepOfRenewal ==
  ASSUME Inv, TypeOK', NEW p \in Pods, Elsewhere(p), RenewAllLeases(p) \/ RenewGet(p) \/ RenewSet(p)
  PROVE  raced \subseteq raced' /\ StepKept
<1>1. UNCHANGED <<queue, stopQ, proc, lease, alive, tracked, active, running, halting, sub, lis, cln>>
  BY DEF RenewAllLeases, RenewGet, RenewSet, redis, local
<1>2. raced \subseteq raced' /\ \A t \in Starts \ raced' : task'[t] = task[t]
  <2>1. CASE RenewAllLeases(p) \/ RenewGet(p)
    BY <2>1 DEF RenewAllLeases, RenewGet, redis
  <2>2. CASE RenewSet(p)
    <3>1. PICK u \in Ids : u = ren[p].id
      BY InvFacts DEF TypeOK, RenType
    <3>2. Race(u, ren[p].copy, ren[p].copy.state) /\ task' = [task EXCEPT ![u] = ren[p].copy]
      BY <2>2, <3>1 DEF RenewSet
    <3>3. raced \subseteq raced' /\ (u \notin raced' => ren[p].copy = task[u])
      BY <3>2, InvFacts, RaceEffect
    <3>4. task'[u] = ren[p].copy /\ \A x \in Ids \ {u} : task'[x] = task[x]
      BY <3>2, InvFacts DEF TypeOK, RedisType
    <3> QED BY <3>3, <3>4 DEF Ids
  <2> QED BY <2>1, <2>2
<1>3. \A t \in Starts : LocalKept(p, t)
  BY <1>1 DEF LocalKept
<1>4. ASSUME NEW t \in Starts \ raced' PROVE StoreKept(t) /\ PodKept(p, t)
  <2>1. TaskOK(t) /\ (\A q \in Pods : proc[q][t] \in Nat)
    BY <1>2, <1>4, InvFacts DEF Ids
  <2>2. StoreKept(t)
    BY <1>1, <1>2, <1>4, <2>1, SameStore
  <2> QED BY <1>1, <1>2, <1>3, <1>4, <2>1, <2>2, StayKept DEF Finished
<1>5. \A id \in Unknown : IdleAt(p, id)'
  BY <1>1, InvFacts DEF IdleAt
<1> QED BY <1>1, <1>2, <1>4, <1>5, LocalStep

-----------------------------------------------------------------------------
(* The cleanup process                                                     *)

(* It looks at a published ID.                                             *)
LEMMA StepOfCleanReads ==
  ASSUME Inv, TypeOK', NEW p \in Pods, Elsewhere(p),
         CleanGet(p) \/ \E q \in Pods, x \in Ids : CleanCheck(p, q, x)
  PROVE  raced \subseteq raced' /\ StepKept
<1>1. UNCHANGED <<task, queue, stopQ, proc, lease, alive, tracked, active, running, halting, sub, lis, raced>>
  BY DEF CleanGet, CleanCheck, redis, local
<1>2. cln'[p].id \in Ids \ Unknown
  <2>1. CASE CleanGet(p)
    <3>1. cln[p].pc # "idle" /\ cln'[p].id = cln[p].id /\ cln[p].id \in Ids
      BY <2>1, InvFacts DEF CleanGet, TypeOK, ClnType
    <3> QED BY <3>1, InvFacts DEF IdleAt
  <2>2. ASSUME NEW q \in Pods, NEW x \in Ids, CleanCheck(p, q, x) PROVE cln'[p].id \in Ids \ Unknown
    <3>1. proc[q][x] > 0 /\ cln'[p].id = x
      BY <2>2, InvFacts DEF CleanCheck, TypeOK, ClnType
    <3> QED BY <3>1, InvFacts DEF Absent
  <2> QED BY <2>1, <2>2
<1>3. \A t \in Starts : LocalKept(p, t)
  BY <1>1 DEF LocalKept
<1>4. ASSUME NEW t \in Starts \ raced' PROVE StoreKept(t) /\ PodKept(p, t)
  <2>1. TaskOK(t) /\ (\A q \in Pods : proc[q][t] \in Nat)
    BY <1>1, <1>4, InvFacts DEF Ids
  <2>2. StoreKept(t)
    BY <1>1, <2>1, SameStore
  <2> QED BY <1>1, <1>3, <2>1, <2>2, StayKept DEF Finished
<1>5. \A id \in Unknown : IdleAt(p, id)'
  BY <1>1, <1>2, InvFacts DEF IdleAt
<1> QED BY <1>1, <1>4, <1>5, LocalStep

(* The entry of a finished task is removed.                                *)
LEMMA StepOfCleanDrop ==
  ASSUME Inv, TypeOK', NEW p \in Pods, Elsewhere(p), CleanDrop(p)
  PROVE  raced \subseteq raced' /\ StepKept
<1>1. /\ cln[p].id \in Ids /\ cln[p].from \in Pods /\ cln'[p].pc = "idle"
      /\ cln[p].copy.state \in Terminal
  BY InvFacts DEF CleanDrop, TypeOK, ClnType, IdleCln
<1>2. PICK u \in Ids, f \in Pods : u = cln[p].id /\ f = cln[p].from
  BY <1>1
<1>3. UNCHANGED <<task, queue, stopQ, lease, alive, tracked, active, running, halting, sub, lis>> /\ proc' = LRem(f, u)
  BY <1>2 DEF CleanDrop, local
<1>4. raced \subseteq raced' /\ (u \notin raced' => Finished(u))
  BY <1>1, <1>2, InvFacts, RaceEffect DEF CleanDrop, Finished
<1>5. \A t \in Starts : LocalKept(p, t)
  BY <1>3 DEF LocalKept
<1>6. ASSUME NEW t \in Starts \ raced' PROVE StoreKept(t) /\ LeaseKept(t) /\ PodKept(p, t)
  <2>1. TaskOK(t)
    BY <1>4, <1>6, InvFacts
  <2>2. t = u => Finished(t)
    BY <1>4, <1>6
  <2>3. StoreKept(t)
    BY <1>3, <2>1, <2>2, DropStore
  <2> QED BY <1>3, <1>5, <2>1, <2>3, StayKept DEF LeaseKept, Finished
<1>7. \A id \in Unknown : IdleAt(p, id)'
  BY <1>1, <1>3, InvFacts DEF IdleAt
<1>8. \A id \in Unknown : /\ ~Queued(id)' /\ NotStopQueued(id)' /\ lease'[id] = NoPod
                          /\ \A q \in Pods : proc'[q][id] = 0
  BY <1>3, InvFacts, DropUnknown DEF Absent, Queued, NotStopQueued
<1> QED BY <1>3, <1>4, <1>6, <1>7, <1>8, CalmStep DEF Owner

(* A recovery that is not a race moves the one entry of a task that nobody *)
(* works on.                                                               *)
LEMMA RecoverOwn ==
  ASSUME Inv, TypeOK', NEW p \in Pods, Elsewhere(p), NEW t \in Starts, TaskOK(t), ~Finished(t),
         lease[t] = NoPod, NEW f \in Pods, proc[f][t] > 0, ~Unclaimed(f, t),
         ~Queued(t) => OnceQueued(t)', proc'[f][t] = proc[f][t] - 1,
         \A q \in Pods \ {f} : proc'[q][t] = proc[q][t],
         Queued(t)', task'[t].pod = NoPod, lease'[t] = NoPod,
         UNCHANGED <<stopQ, alive, tracked, active, running, halting, sub, lis>>
  PROVE  TaskOK(t)'
<1>1. \A q \in Pods : proc[q][t] \in Nat
  BY InvFacts DEF Ids
<1>2. ~Queued(t)
  BY <1>1 DEF TaskOK, EntryInv
<1>3. \A q \in Pods : proc'[q][t] = 0
  <2>1. proc[f][t] = 1 /\ \A q \in Pods \ {f} : proc[q][t] = 0
    BY <1>1 DEF TaskOK, EntryInv
  <2> QED BY <2>1
<1>4. \A q \in Pods : ~Owns(q, t)
  BY TaskQueueAssumption DEF TaskOK, OwnerInv
<1>5. \A q \in Pods : ~Owns(q, t)'
  BY <1>4 DEF Owns, Handling
<1>6. \A q \in Pods : ~Unclaimed(q, t)'
  <2>1. \A q \in Pods : Unclaimed(q, t) => q = f
    BY DEF TaskOK, FreeInv, EntryInv
  <2> QED BY <2>1 DEF Unclaimed
<1>7. EntryInv(t)'
  <2>1. OnceQueued(t)' /\ NotStopQueued(t)'
    BY <1>2 DEF TaskOK, EntryInv, NotStopQueued
  <2> QED BY <1>3, <2>1 DEF EntryInv
<1>8. FreeInv(t)'
  BY <1>5, <1>6 DEF FreeInv, Free
<1>9. OwnerInv(t)'
  BY <1>5 DEF OwnerInv
<1>10. \A q \in Pods : LeasedAt(q, t)' /\ StageAt(q, t)'
  BY <1>5 DEF Owns, Handling, LeasedAt, Working, StageAt
<1> QED BY <1>7, <1>8, <1>9, <1>10 DEF TaskOK

(* checkAndRecoverTask.                                                    *)
LEMMA StepOfCleanRecover ==
  ASSUME Inv, TypeOK', NEW p \in Pods, Elsewhere(p), CleanRecover(p)
  PROVE  raced \subseteq raced' /\ StepKept
<1>1. /\ cln[p].id \in Ids /\ cln[p].from \in Pods /\ cln'[p].pc = "idle" /\ cln[p].pc # "idle"
      /\ cln[p].copy.state \notin Terminal
  BY InvFacts DEF CleanRecover, TypeOK, ClnType, IdleCln
<1>2. PICK u \in Ids, f \in Pods : u = cln[p].id /\ f = cln[p].from
  BY <1>1
<1>3. PICK c \in Channels : c = ChannelOf(u)
  BY TaskQueueAssumption DEF ChannelOf, Ids
<1>4. UNCHANGED <<stopQ, alive, tracked, active, running, halting, sub, lis>> /\ proc' = LRem(f, u) /\ queue' = LPush(c, u)
  BY <1>2, <1>3 DEF CleanRecover, Requeue, local
<1>5. /\ raced \subseteq raced'
      /\ u \notin raced' => ~Finished(u) /\ lease[u] = NoPod /\ proc[f][u] # 0 /\ ~Unclaimed(f, u)
  BY <1>1, <1>2 DEF CleanRecover, RecoveryRace, Finished
<1>6. /\ \A x \in Ids \ {u} : task'[x] = task[x] /\ lease'[x] = lease[x]
      /\ task'[u].state = "ENQUEUED" /\ task'[u].pod = NoPod /\ lease'[u] = NoPod
  BY <1>2, InvFacts DEF CleanRecover, NoTask, TypeOK, RedisType
<1>7. queue \in [Channels -> Seq(Ids)] /\ proc \in [Pods -> [Ids -> Nat]]
  BY InvFacts DEF TypeOK, RedisType
<1>8. /\ \A q \in Pods, x \in Ids : q # f \/ x # u => proc'[q][x] = proc[q][x]
      /\ proc'[f][u] = IF proc[f][u] > 0 THEN proc[f][u] - 1 ELSE 0
  BY <1>4, <1>7, LRemEffect
<1>9. Queued(u)' /\ (~Queued(u) => OnceQueued(u)')
  BY <1>4, <1>7, PushEffect
<1>10. \A x \in Ids \ {u} : (Queued(x)' <=> Queued(x)) /\ (OnceQueued(x) => OnceQueued(x)')
  BY <1>4, <1>7, PushEffect
<1>11. ASSUME NEW t \in Starts \ raced' PROVE TaskOK(t)' /\ (task[t].state # "NONE" => task'[t].state # "NONE")
  <2>1. TaskOK(t) /\ t \in Ids /\ \A q \in Pods : proc[q][t] \in Nat
    BY <1>5, <1>11, InvFacts DEF Ids
  <2>2. CASE t = u
    <3>1. ~Finished(t) /\ lease[t] = NoPod /\ proc[f][t] > 0 /\ ~Unclaimed(f, t)
      BY <1>5, <1>11, <2>1, <2>2
    <3>2. proc'[f][t] = proc[f][t] - 1 /\ \A q \in Pods \ {f} : proc'[q][t] = proc[q][t]
      BY <1>8, <2>1, <2>2, <3>1
    <3>3. TaskOK(t)'
      BY <1>4, <1>6, <1>9, <2>1, <2>2, <3>1, <3>2, RecoverOwn
    <3> QED BY <1>6, <2>2, <3>3
  <2>3. CASE t # u
    <3>1. LocalKept(p, t)
      BY <1>4 DEF LocalKept
    <3>2. task'[t] = task[t] /\ lease'[t] = lease[t]
      BY <1>6, <2>1, <2>3
    <3>3. StoreKept(t)
      <4>1. OnceQueued(t)' /\ (Queued(t)' <=> Queued(t))
        BY <1>10, <2>1, <2>3 DEF TaskOK, EntryInv
      <4>2. \A q \in Pods : proc'[q][t] = proc[q][t]
        BY <1>8, <2>1, <2>3
      <4> QED BY <1>4, <2>1, <3>2, <4>1, <4>2 DEF TaskOK, EntryInv, StoreKept, NotStopQueued, Finished, Unfinished
    <3>4. PodKept(p, t)
      BY <1>4, <2>1, <3>1, <3>2, StayKept DEF Finished
    <3>5. LeaseKept(t)
      BY <3>2 DEF LeaseKept
    <3> QED BY <1>4, <2>1, <3>2, <3>3, <3>4, <3>5, InvFacts, Frame DEF Owner
  <2> QED BY <2>2, <2>3
<1>12. ASSUME NEW id \in Unknown PROVE Absent(id)'
  <2>1. Absent(id) /\ NotStopQueued(id) /\ id \in Ids /\ IdleAt(p, id)
    BY InvFacts DEF Absent, NotStopQueued, Unknown
  <2>2. id # u
    BY <1>1, <1>2, <2>1 DEF IdleAt
  <2>3. ~Queued(id)' /\ NotStopQueued(id)' /\ lease'[id] = NoPod
    BY <1>4, <1>6, <1>10, <2>1, <2>2 DEF Absent, NotStopQueued
  <2>4. \A q \in Pods : proc'[q][id] = 0
    BY <1>8, <2>1, <2>2 DEF Absent
  <2>5. IdleAt(p, id)'
    BY <1>1, <1>4, <2>1 DEF IdleAt
  <2> QED BY <2>1, <2>3, <2>4, <2>5, AbsentKept DEF Owner
<1> QED BY <1>5, <1>11, <1>12 DEF StepKept

-----------------------------------------------------------------------------
(* The environment                                                         *)

(* A pod that dies leaves its entries and its leases.                      *)
LEMMA StepOfCrash ==
  ASSUME Inv, TypeOK', NEW p \in Pods, Elsewhere(p), Crash(p)
  PROVE  raced \subseteq raced' /\ StepKept
<1>1. UNCHANGED <<task, queue, stopQ, proc, lease, raced>> /\ alive' = alive \ {p}
  BY DEF Crash, redis
<1>2. /\ running'[p] = {} /\ sub'[p].pc = "idle" /\ cln'[p].pc = "idle"
      /\ \A t \in Starts : lis'[p][t].pc = "idle"
  BY InvFacts DEF Crash, TypeOK, LocalType, SubType, LisType, ClnType, IdleSub, IdleLis, IdleCln
<1>3. ASSUME NEW t \in Starts \ raced' PROVE StoreKept(t) /\ PodKept(p, t)
  <2>1. TaskOK(t) /\ (\A q \in Pods : proc[q][t] \in Nat)
    BY <1>1, <1>3, InvFacts DEF Ids
  <2>2. StoreKept(t)
    BY <1>1, <2>1, SameStore
  <2>3. ~Owns(p, t)' /\ ~Unclaimed(p, t)' /\ ~Working(p, t)'
    BY <1>2 DEF Owns, Handling, Unclaimed, Working
  <2>4. StageAt(p, t)' /\ LeasedAt(p, t)'
    BY <1>2, <2>3 DEF StageAt, LeasedAt
  <2> QED BY <2>2, <2>3, <2>4 DEF PodKept
<1>4. \A id \in Unknown : IdleAt(p, id)'
  BY <1>2 DEF IdleAt
<1> QED BY <1>1, <1>3, <1>4, LocalStep

(* A lease that expires is not needed any more, or its pod is dead.        *)
LEMMA StepOfLeaseExpire ==
  ASSUME Inv, TypeOK', NEW u \in Ids, LeaseExpire(u)
  PROVE  raced \subseteq raced' /\ StepKept
<1>1. UNCHANGED <<task, queue, stopQ, proc, alive, tracked, active, running, halting, sub, lis, ren, cln, raced>>
  BY DEF LeaseExpire, local
<1>2. lease'[u] = NoPod /\ \A x \in Ids \ {u} : lease'[x] = lease[x]
  BY InvFacts DEF LeaseExpire, TypeOK, RedisType
<1>3. Elsewhere(NoPod) /\ NoPod \in Owner /\ NoPod \notin Pods
  BY <1>1, TaskQueueAssumption DEF Elsewhere, Owner
<1>4. ASSUME NEW t \in Starts \ raced' PROVE StoreKept(t) /\ LeaseKept(t)
  <2>1. TaskOK(t) /\ (\A q \in Pods : proc[q][t] \in Nat) /\ t \in Ids
    BY <1>1, <1>4, InvFacts DEF Ids
  <2>2. StoreKept(t)
    BY <1>1, <2>1, SameStore
  <2>3. CASE t = u
    <3>1. ASSUME NEW q \in Pods, lease[t] = q, t \in active[q] \/ Handling(q, t) \/ Keeps(q, t) PROVE FALSE
      <4>1. q \in alive
        BY <3>1, InvFacts DEF DeadInv, Handling, Keeps
      <4>2. sub[q].pc = "final" => sub[q].id \in Stops
        BY InvFacts DEF TypeOK, SubType
      <4>3. Kept(t)
        BY <3>1, <4>1, <4>2 DEF Kept, Keeps, Handling
      <4> QED BY <2>3, <4>3 DEF LeaseExpire
    <3>2. \A q \in Pods : Owns(q, t) => Finished(t)
      BY <2>1, <3>1 DEF TaskOK, OwnerInv
    <3>3. \A q \in Pods : ~Working(q, t)
      BY <2>1, <3>1 DEF TaskOK, LeasedAt
    <3>4. \A q \in Pods : ~Working(q, t)'
      BY <1>1, <3>3 DEF Working
    <3> QED BY <1>2, <2>2, <2>3, <3>2, <3>4 DEF LeaseKept
  <2>4. CASE t # u
    BY <1>2, <2>1, <2>2, <2>4 DEF LeaseKept
  <2> QED BY <2>3, <2>4
<1>5. \A id \in Unknown : /\ ~Queued(id)' /\ NotStopQueued(id)' /\ lease'[id] = NoPod
                          /\ \A q \in Pods : proc'[q][id] = 0
  BY <1>1, <1>2, InvFacts DEF Absent, Queued, NotStopQueued, Unknown
<1> QED BY <1>1, <1>3, <1>4, <1>5, CalmStep

-----------------------------------------------------------------------------
(* The API server                                                          *)

(* A request that is checked writes nothing.                               *)
LEMMA StepOfCheck ==
  ASSUME Inv, TypeOK', NEW u \in Ids, PublishCheck(u) \/ StopCheck(u)
  PROVE  PublishInv' /\ TaskInv'
<1> USE TaskQueueAssumption
<1>1. UNCHANGED <<task, queue, stopQ, proc, lease, alive, tracked, active, running, halting, sub, lis, ren, cln, raced>>
  BY DEF PublishCheck, StopCheck, redis, local
<1>2. /\ api[u].pc = "new" /\ \A x \in Ids \ {u} : api'[x] = api[x]
      /\ u \in Stops => task[Orig[u]].state # "NONE"
  BY InvFacts DEF PublishCheck, StopCheck, TypeOK, ApiType
<1>3. Elsewhere(NoPod) /\ NoPod \in Owner /\ NoPod \notin Pods
  BY <1>1 DEF Elsewhere, Owner
<1>4. ASSUME NEW t \in Starts \ raced' PROVE StoreKept(t) /\ LeaseKept(t)
  <2>1. TaskOK(t) /\ (\A q \in Pods : proc[q][t] \in Nat)
    BY <1>1, <1>4, InvFacts DEF Ids
  <2> QED BY <1>1, <2>1, SameStore DEF LeaseKept
<1>5. \A id \in Unknown : /\ ~Queued(id)' /\ NotStopQueued(id)' /\ lease'[id] = NoPod
                          /\ \A q \in Pods : proc'[q][id] = 0
  BY <1>1, InvFacts DEF Absent, Queued, NotStopQueued
<1>6. StepKept
  BY <1>1, <1>3, <1>4, <1>5, CalmStep
<1>7. TaskInv'
  BY <1>6 DEF StepKept, TaskInv
<1>8. \A id \in Ids : api'[id].pc # "done" => Absent(id)'
  BY <1>2, <1>6 DEF StepKept, Unknown
<1>9. \A s \in Stops : api'[s].pc # "new" /\ Orig[s] \notin raced' => task'[Orig[s]].state # "NONE"
  BY <1>1, <1>2 DEF Inv, PublishInv, Ids
<1> QED BY <1>7, <1>8, <1>9 DEF PublishInv

(* A task that is published is new to everybody.                           *)
LEMMA PublishOwn ==
  ASSUME NEW t \in Starts, Absent(t), Queued(t)', OnceQueued(t)', task'[t].pod = NoPod,
         UNCHANGED <<stopQ, proc, lease, alive, tracked, active, running, halting, sub, lis>>
  PROVE  TaskOK(t)'
<1>1. \A q \in Pods : proc'[q][t] = 0 /\ IdleAt(q, t)
  BY DEF Absent
<1>2. \A q \in Pods : ~Owns(q, t)' /\ ~Unclaimed(q, t)'
  BY <1>1 DEF IdleAt, Owns, Handling, Unclaimed
<1>3. EntryInv(t)'
  <2>1. NotStopQueued(t)'
    BY DEF Absent, NotStopQueued
  <2> QED BY <1>1, <2>1 DEF EntryInv
<1>4. FreeInv(t)'
  BY <1>2 DEF FreeInv, Free, Absent
<1>5. OwnerInv(t)'
  BY <1>2 DEF OwnerInv
<1>6. \A q \in Pods : LeasedAt(q, t)' /\ StageAt(q, t)'
  BY <1>2 DEF Owns, Handling, LeasedAt, Working, StageAt
<1> QED BY <1>3, <1>4, <1>5, <1>6 DEF TaskOK

(* PublishTaskToRegion, the write.                                         *)
LEMMA StepOfPublish ==
  ASSUME Inv, TypeOK', NEW u \in Starts, PublishWrite(u)
  PROVE  PublishInv' /\ TaskInv'
<1> USE TaskQueueAssumption
<1>1. UNCHANGED <<stopQ, proc, lease, alive, tracked, active, running, halting, sub, lis, ren, cln, raced>>
  BY DEF PublishWrite, local
<1>2. u \in Ids /\ api[u].pc = "checked" /\ api'[u].pc = "done" /\ \A x \in Ids \ {u} : api'[x] = api[x]
  BY InvFacts DEF PublishWrite, TypeOK, ApiType, Ids
<1>3. /\ \A x \in Ids \ {u} : task'[x] = task[x]
      /\ task'[u].state = "ENQUEUED" /\ task'[u].pod = NoPod
  BY <1>2, InvFacts DEF PublishWrite, NoTask, TypeOK, RedisType
<1>4. PICK c \in Channels : c = ChannelOf(u)
  BY DEF ChannelOf
<1>5. queue' = LPush(c, u) /\ queue \in [Channels -> Seq(Ids)]
  BY <1>4, InvFacts DEF PublishWrite, TypeOK, RedisType
<1>6. Queued(u)' /\ (~Queued(u) => OnceQueued(u)')
  BY <1>2, <1>5, PushEffect
<1>7. \A x \in Ids \ {u} : (Queued(x)' <=> Queued(x)) /\ (OnceQueued(x) => OnceQueued(x)')
  BY <1>2, <1>5, PushEffect
<1>8. Elsewhere(NoPod) /\ NoPod \in Owner /\ NoPod \notin Pods
  BY <1>1 DEF Elsewhere, Owner
<1>9. ASSUME NEW t \in Starts \ raced' PROVE TaskOK(t)'
  <2>1. CASE t = u
    <3>1. Absent(t)
      BY <1>2, <2>1, InvFacts DEF Unknown
    <3>2. Queued(t)' /\ OnceQueued(t)' /\ task'[t].pod = NoPod
      BY <1>3, <1>6, <2>1, <3>1 DEF Absent
    <3> QED BY <1>1, <3>1, <3>2, PublishOwn
  <2>2. CASE t # u
    <3>1. TaskOK(t) /\ t \in Ids /\ \A q \in Pods : proc[q][t] \in Nat
      BY <1>1, <1>9, InvFacts DEF Ids
    <3>2. task'[t] = task[t] /\ OnceQueued(t)' /\ (Queued(t)' <=> Queued(t))
      BY <1>3, <1>7, <2>2, <3>1 DEF TaskOK, EntryInv
    <3>3. StoreKept(t)
      BY <1>1, <3>1, <3>2 DEF TaskOK, EntryInv, StoreKept, NotStopQueued, Finished, Unfinished
    <3>4. LeaseKept(t)
      BY <1>1 DEF LeaseKept
    <3> QED BY <1>1, <1>8, <3>1, <3>3, <3>4, InvFacts, Frame
  <2> QED BY <2>1, <2>2
<1>10. ASSUME NEW id \in Ids, api'[id].pc # "done" PROVE Absent(id)'
  <2>1. id # u /\ id \in Unknown
    BY <1>2, <1>10 DEF Unknown
  <2>2. Absent(id)
    BY <2>1, InvFacts
  <2>3. ~Queued(id)' /\ NotStopQueued(id)' /\ lease'[id] = NoPod /\ \A q \in Pods : proc'[q][id] = 0
    BY <1>1, <1>7, <2>1, <2>2 DEF Absent, NotStopQueued
  <2> QED BY <1>8, <2>2, <2>3, AbsentKept
<1>11. \A s \in Stops : api'[s].pc # "new" /\ Orig[s] \notin raced' => task'[Orig[s]].state # "NONE"
  BY <1>1, <1>2, <1>3 DEF Inv, PublishInv, Ids
<1> QED BY <1>9, <1>10, <1>11 DEF PublishInv, TaskInv

(* PublishStopTaskFor, the write.                                          *)
LEMMA StepOfStopPublish ==
  ASSUME Inv, TypeOK', NEW s \in Stops, StopPublish(s)
  PROVE  PublishInv' /\ TaskInv'
<1> USE TaskQueueAssumption
<1>1. UNCHANGED <<proc, lease, alive, tracked, active, running, halting, sub, lis, ren, cln, raced>>
  BY DEF StopPublish, local
<1>2. s \in Ids /\ api[s].pc = "checked" /\ api'[s].pc = "done" /\ \A x \in Ids \ {s} : api'[x] = api[x]
  BY InvFacts DEF StopPublish, TypeOK, ApiType, Ids
<1>3. \A x \in Ids \ {s} : task'[x] = task[x]
  BY InvFacts DEF StopPublish, TypeOK, RedisType
<1>4. /\ \A x \in Ids \ {s} : (Queued(x)' <=> Queued(x)) /\ (OnceQueued(x) => OnceQueued(x)')
      /\ \A x \in Ids \ {s} : NotStopQueued(x) => NotStopQueued(x)'
  <2>1. queue \in [Channels -> Seq(Ids)] /\ stopQ \in [Pods -> Seq(Ids)] /\ api[s].pod \in Owner
    BY <1>2, InvFacts DEF TypeOK, RedisType, ApiType
  <2>2. CASE api[s].pod = NoPod
    <3>1. PICK c \in Channels : c = ChannelOf(s)
      BY DEF ChannelOf
    <3>2. queue' = LPush(c, s) /\ UNCHANGED stopQ
      BY <2>2, <3>1 DEF StopPublish
    <3>3. \A x \in Ids \ {s} : (Queued(x)' <=> Queued(x)) /\ (OnceQueued(x) => OnceQueued(x)')
      BY <1>2, <2>1, <3>2, PushEffect
    <3> QED BY <3>2, <3>3 DEF NotStopQueued
  <2>3. CASE api[s].pod # NoPod
    <3>1. PICK r \in Pods : r = api[s].pod
      BY <2>1, <2>3 DEF Owner
    <3>2. stopQ' = [stopQ EXCEPT ![r] = <<s>> \o @] /\ UNCHANGED queue
      BY <2>3, <3>1 DEF StopPublish
    <3>3. \A x \in Ids \ {s} : NotStopQueued(x) => NotStopQueued(x)'
      BY <1>2, <2>1, <3>2, StopPushEffect
    <3> QED BY <3>2, <3>3 DEF Queued, OnceQueued
  <2> QED BY <2>2, <2>3
<1>5. Elsewhere(NoPod) /\ NoPod \in Owner /\ NoPod \notin Pods
  BY <1>1 DEF Elsewhere, Owner
<1>6. ASSUME NEW t \in Starts \ raced' PROVE TaskOK(t)'
  <2>1. TaskOK(t) /\ t \in Ids \ {s} /\ \A q \in Pods : proc[q][t] \in Nat
    BY <1>1, <1>6, InvFacts DEF Ids
  <2>2. task'[t] = task[t] /\ OnceQueued(t)' /\ (Queued(t)' <=> Queued(t)) /\ NotStopQueued(t)'
    BY <1>3, <1>4, <2>1 DEF TaskOK, EntryInv
  <2>3. StoreKept(t)
    BY <1>1, <2>1, <2>2 DEF TaskOK, EntryInv, StoreKept, Finished, Unfinished
  <2>4. LeaseKept(t)
    BY <1>1 DEF LeaseKept
  <2> QED BY <1>1, <1>5, <2>1, <2>3, <2>4, InvFacts, Frame
<1>7. ASSUME NEW id \in Ids, api'[id].pc # "done" PROVE Absent(id)'
  <2>1. id # s /\ id \in Unknown
    BY <1>2, <1>7 DEF Unknown
  <2>2. Absent(id)
    BY <2>1, InvFacts
  <2>3. ~Queued(id)' /\ NotStopQueued(id)' /\ lease'[id] = NoPod /\ \A q \in Pods : proc'[q][id] = 0
    BY <1>1, <1>4, <2>1, <2>2 DEF Absent, NotStopQueued
  <2> QED BY <1>5, <2>2, <2>3, AbsentKept
<1>8. \A x \in Stops : api'[x].pc # "new" /\ Orig[x] \notin raced' => task'[Orig[x]].state # "NONE"
  BY <1>1, <1>2, <1>3 DEF Inv, PublishInv, Ids
<1> QED BY <1>6, <1>7, <1>8 DEF PublishInv, TaskInv

-----------------------------------------------------------------------------
(* The invariant                                                           *)

(* Nothing is published initially.                                         *)
LEMMA InvInit == Init => Inv
<1> SUFFICES ASSUME Init PROVE Inv
  OBVIOUS
<1>1. TypeOK
  BY InitType
<1>2. DeadInv
  BY DEF Init, DeadInv
<1>3. ASSUME NEW id \in Ids PROVE Absent(id)
  BY <1>3 DEF Init, Absent, Queued, IdleAt, IdleSub, IdleLis, IdleCln
<1>4. \A s \in Stops : api[s].pc = "new"
  BY DEF Init, Ids
<1>5. PublishInv
  BY <1>3, <1>4 DEF PublishInv
<1>6. ASSUME NEW t \in Starts PROVE TaskOK(t)
  <2>1. Absent(t) /\ t \in Ids
    BY <1>3 DEF Ids
  <2>2. task[t].state = "NONE"
    BY <2>1 DEF Init, NoTask
  <2>3. \A q \in Pods : IdleAt(q, t) /\ proc[q][t] = 0
    BY <2>1 DEF Absent
  <2>4. \A q \in Pods : ~Owns(q, t) /\ ~Unclaimed(q, t)
    BY <2>3 DEF IdleAt, Owns, Handling, Unclaimed
  <2>5. EntryInv(t)
    BY <2>1, <2>2, <2>3 DEF EntryInv, Absent, OnceQueued, NotStopQueued, Queued, Unfinished
  <2>6. FreeInv(t) /\ OwnerInv(t)
    BY <2>1, <2>4 DEF FreeInv, OwnerInv, Absent
  <2>7. \A q \in Pods : LeasedAt(q, t) /\ StageAt(q, t)
    BY <2>4 DEF Owns, Handling, LeasedAt, Working, StageAt
  <2> QED BY <2>5, <2>6, <2>7 DEF TaskOK
<1> QED BY <1>1, <1>2, <1>5, <1>6 DEF Inv, TaskInv

(* Every step keeps the invariant.                                         *)
LEMMA InvStep ==
  ASSUME Inv, [Next]_vars
  PROVE  Inv'
<1>1. TypeOK' /\ DeadInv'
  BY TypeStep, DeadStep DEF Inv
<1>2. TypeOK
  BY DEF Inv
<1>3. CASE UNCHANGED vars
  <2>1. UNCHANGED <<api, raced>>
    BY <1>3 DEF vars
  <2>2. PublishInv'
    BY <1>3 DEF vars, redis, local, Inv, PublishInv, Absent, IdleAt, Queued
  <2>3. TaskInv'
    BY <1>3 DEF vars, redis, local, Inv, TaskInv, TaskOK, EntryInv, FreeInv, OwnerInv, LeasedAt, StageAt,
                OnceQueued, NotStopQueued, Queued, Unfinished, Finished, Free, Owns, Handling, Unclaimed, Keeps, Working
  <2> QED BY <1>1, <2>2, <2>3 DEF Inv
<1>4. CASE ApiNext
  <2>1. PublishInv' /\ TaskInv'
    BY <1>1, <1>4, StepOfCheck, StepOfPublish, StepOfStopPublish DEF ApiNext, Ids
  <2> QED BY <1>1, <2>1 DEF Inv
<1>5. ASSUME NEW p \in Pods, SubNext(p) PROVE Inv'
  <2>1. Elsewhere(p) /\ UNCHANGED api
    BY <1>2, <1>5, SubElsewhere
  <2>2. raced \subseteq raced' /\ StepKept
    BY <1>1, <1>5, <2>1, StepOfPopStop, StepOfPopQueue, StepOfInspect, StepOfRetarget, StepOfSubGet, StepOfClaim,
       StepOfStartNative, StepOfStartRefused, StepOfUpdateTaskWorker, StepOfAckStart, StepOfTrackStart, StepOfFailStart,
       StepOfStopMark, StepOfStopLookup, StepOfStopSend, StepOfStopFinal, StepOfStopAck
       DEF SubNext
  <2> QED BY <1>1, <2>1, <2>2, KeptStep DEF Inv
<1>6. ASSUME NEW p \in Pods, RenNext(p) \/ ClnNext(p) \/ \E t \in Starts : LisNext(p, t) PROVE Inv'
  <2>1. Elsewhere(p) /\ UNCHANGED api
    BY <1>2, <1>6, OthersElsewhere
  <2>2. raced \subseteq raced' /\ StepKept
    <3>1. CASE RenNext(p)
      BY <1>1, <2>1, <3>1, StepOfRenewCheck, StepOfRenewal DEF RenNext
    <3>2. CASE ClnNext(p)
      BY <1>1, <2>1, <3>2, StepOfCleanReads, StepOfCleanDrop, StepOfCleanRecover DEF ClnNext
    <3>3. ASSUME NEW t \in Starts, LisNext(p, t) PROVE raced \subseteq raced' /\ StepKept
      BY <1>1, <2>1, <3>3, StepOfWorkerDone, StepOfLisGet, StepOfWrites, StepOfUntrack, StepOfFailInspect,
         StepOfFailDrop, StepOfFailUnlease DEF LisNext
    <3> QED BY <1>6, <3>1, <3>2, <3>3
  <2> QED BY <1>1, <2>1, <2>2, KeptStep DEF Inv
<1>7. ASSUME NEW p \in Pods, Crash(p) PROVE Inv'
  <2>1. Elsewhere(p) /\ UNCHANGED api
    BY <1>2, <1>7 DEF Crash, TypeOK, LocalType, SubType, LisType, RenType, ClnType, Elsewhere
  <2>2. raced \subseteq raced' /\ StepKept
    BY <1>1, <1>7, <2>1, StepOfCrash
  <2> QED BY <1>1, <2>1, <2>2, KeptStep DEF Inv
<1>8. ASSUME NEW t \in Ids, LeaseExpire(t) PROVE Inv'
  <2>1. UNCHANGED api
    BY <1>8 DEF LeaseExpire
  <2>2. raced \subseteq raced' /\ StepKept
    BY <1>1, <1>8, StepOfLeaseExpire
  <2> QED BY <1>1, <2>1, <2>2, KeptStep DEF Inv
<1> QED BY <1>3, <1>4, <1>5, <1>6, <1>7, <1>8 DEF Next

-----------------------------------------------------------------------------
(* Theorems                                                                *)

(* A set without two elements has at most one.                             *)
LEMMA AtMostOne ==
  ASSUME NEW S, \A x, y \in S : x = y
  PROVE  Cardinality(S) <= 1
<1>1. CASE S = {}
  BY <1>1, FS_EmptySet
<1>2. CASE S # {}
  <2>1. PICK x \in S : TRUE
    BY <1>2
  <2>2. S = {x}
    BY <2>1
  <2>3. Cardinality({x}) = 1
    BY FS_Singleton
  <2> QED BY <2>2, <2>3
<1> QED BY <1>1, <1>2

(* The task store, the maps and the goroutines of every pod keep their     *)
(* types, and a goroutine never works on an ID of the wrong kind.          *)
THEOREM TypeCorrect == Spec => []TypeOK
BY InitType, TypeStep, PTL DEF Spec

(* The invariant above holds in every reachable state.                     *)
THEOREM InvHolds == Spec => []Inv
BY InvInit, InvStep, PTL DEF Spec

(* Popping, claiming, renewing and recovering a task that no stale write   *)
(* has hit never hands it to two pods.                                     *)
THEOREM AlwaysOneExecutor == Spec => []UnracedOneExecutor
<1>1. Inv => UnracedOneExecutor
  <2> SUFFICES ASSUME Inv, NEW t \in Starts \ raced PROVE Cardinality(Executors(t)) <= 1
    BY DEF UnracedOneExecutor
  <2>1. \A p, q \in Executors(t) : p = q
    BY InvFacts DEF TaskOK, OwnerInv, Owns, Executors
  <2> QED BY <2>1, AtMostOne
<1> QED BY <1>1, InvHolds, PTL

(* Whatever step a pod dies at, an unfinished task that no stale write has *)
(* hit is in some list.                                                    *)
THEOREM NeverLost == Spec => []UnracedNoTaskLoss
<1>1. Inv => UnracedNoTaskLoss
  <2> SUFFICES ASSUME Inv, NEW t \in Starts \ raced, Unfinished(t) PROVE Listed(t)
    BY DEF UnracedNoTaskLoss
  <2>1. Queued(t) \/ \E p \in Pods : proc[p][t] > 0
    BY InvFacts DEF TaskOK, EntryInv
  <2>2. ASSUME NEW c \in Channels, NEW i \in DOMAIN queue[c], queue[c][i] = t PROVE Listed(t)
    <3>1. <<c, i>> \in QueuePlaces(t)
      BY <2>2 DEF QueuePlaces, Places
    <3> QED BY <3>1 DEF Listed
  <2>3. ASSUME NEW p \in Pods, proc[p][t] > 0 PROVE Listed(t)
    <3>1. proc[p][t] \in Nat
      BY InvFacts DEF Ids
    <3>2. 1 \in 1..proc[p][t]
      BY <2>3, <3>1
    <3>3. <<p, 1>> \in ProcessingPlaces(t)
      BY <3>2 DEF ProcessingPlaces
    <3> QED BY <3>3 DEF Listed
  <2> QED BY <2>1, <2>2, <2>3 DEF Queued
<1> QED BY <1>1, InvHolds, PTL

(* A worker that was not told to stop works under the lease of its pod.    *)
THEOREM AlwaysLeased == Spec => []UnracedLeased
<1>1. Inv => UnracedLeased
  <2> SUFFICES ASSUME Inv, NEW p \in Pods, NEW t \in (running[p] \ halting[p]) \ raced PROVE lease[t] = p
    BY DEF UnracedLeased
  <2>1. t \in Starts \ raced
    BY InvFacts DEF TypeOK, LocalType
  <2> QED BY <2>1, InvFacts DEF TaskOK, LeasedAt, Working
<1> QED BY <1>1, InvHolds, PTL

(* A worker that was not told to stop is in the maps of its manager.       *)
THEOREM AlwaysTracked == Spec => []UnracedTracked
<1>1. Inv => UnracedTracked
  <2> SUFFICES ASSUME Inv, NEW p \in Pods, NEW t \in running[p] \ raced PROVE t \in tracked[p] \cup halting[p]
    BY DEF UnracedTracked
  <2>1. t \in Starts \ raced
    BY InvFacts DEF TypeOK, LocalType
  <2> QED BY <2>1, InvFacts DEF TaskOK, StageAt
<1> QED BY <1>1, InvHolds, PTL

(* Recovery moves the one entry of a task that no stale write has hit; it  *)
(* never adds a second one.                                                *)
THEOREM NeverTwice == Spec => []UnracedNoDup
<1>1. Inv => UnracedNoDup
  <2> SUFFICES ASSUME Inv, NEW t \in Starts \ raced PROVE Copies(t) <= 1
    BY DEF UnracedNoDup
  <2>1. EntryInv(t) /\ \A p \in Pods : proc[p][t] \in Nat
    BY InvFacts DEF TaskOK, Ids
  <2>2. StopQPlaces(t) = {}
    BY <2>1 DEF EntryInv, NotStopQueued, StopQPlaces, Places
  <2>3. \A x, y \in QueuePlaces(t) : x = y
    <3> SUFFICES ASSUME NEW c \in Channels, NEW i \in DOMAIN queue[c], queue[c][i] = t,
                        NEW d \in Channels, NEW j \in DOMAIN queue[d], queue[d][j] = t
                 PROVE  <<c, i>> = <<d, j>>
      BY DEF QueuePlaces, Places
    <3> QED BY <2>1 DEF EntryInv, OnceQueued
  <2>4. \A x, y \in ProcessingPlaces(t) : x = y
    <3> SUFFICES ASSUME NEW p \in Pods, NEW i \in 1..proc[p][t], NEW q \in Pods, NEW j \in 1..proc[q][t]
                 PROVE  <<p, i>> = <<q, j>>
      BY DEF ProcessingPlaces
    <3>1. proc[p][t] > 0 /\ proc[q][t] > 0
      BY <2>1
    <3>2. p = q /\ i = 1 /\ j = 1
      BY <2>1, <3>1 DEF EntryInv
    <3> QED BY <3>2
  <2>5. QueuePlaces(t) = {} \/ ProcessingPlaces(t) = {}
    <3>1. QueuePlaces(t) # {} => Queued(t)
      BY DEF QueuePlaces, Places, Queued
    <3>2. Queued(t) => ProcessingPlaces(t) = {}
      BY <2>1 DEF EntryInv, ProcessingPlaces
    <3> QED BY <3>1, <3>2
  <2> DEFINE All == ({"queue"} \X QueuePlaces(t)) \cup ({"stop"} \X StopQPlaces(t))
                    \cup ({"processing"} \X ProcessingPlaces(t))
  <2>6. \A x, y \in All : x = y
    BY <2>2, <2>3, <2>4, <2>5
  <2>7. Copies(t) = Cardinality(All)
    BY DEF Copies
  <2> HIDE DEF All
  <2> QED BY <2>6, <2>7, AtMostOne
<1> QED BY <1>1, InvHolds, PTL
=============================================================================
