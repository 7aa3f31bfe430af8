------------------------ MODULE StreamingSinkProofs ------------------------
(***************************************************************************)
(* The safety properties of StreamingSink, for any callers, retry budget   *)
(* and number of streams and outages.                                      *)
(***************************************************************************)
EXTENDS StreamingSink, TLAPS

\* Only the holder of lifecycleMutex_ joins and cleans, and it cleans when the
\* publishing thread no longer exists.
LockInv ==
    \A t \in Callers : /\ call[t] \in {"join", "clean"} => lifecycle = t
                       /\ call[t] = "clean" => worker = "none"

\* The transport is open in the loop and nowhere before it.
OutputInv == worker \in {"loop", "write"} => output = "open"

\* A stream that is closing has a reason, and the report is made at the end.
ReportInv ==
    /\ worker \in {"close", "decide"} /\ ~stopping => failed \/ late
    /\ worker \in {"callback", "exit"} /\ ~stopping => reported = 1
    /\ worker \notin {"callback", "exit", "done", "none"} => reported = 0

\* The attempts made since the last success, by the number of the attempt
BudgetInv ==
    /\ opens \in Nat
    /\ worker = "begin" => opens = 0
    /\ worker = "opening" => opens <= 1
    /\ worker \in {"backoff", "retry"} => attempt >= 1 /\ attempt <= Attempts /\ opens <= attempt
    /\ worker = "reopening" => attempt >= 1 /\ attempt <= Attempts /\ opens <= attempt + 1
    /\ worker \in {"loop", "write"} => opens = 0

SinkInv == TypeOK /\ LockInv /\ OutputInv /\ ReportInv /\ BudgetInv
           /\ EndIsReported /\ RetryBudget /\ NoReplay

\* Every step keeps the invariant.
LEMMA StepKeepsInv == SinkInv /\ [Next]_vars => SinkInv'
<1> SUFFICES ASSUME SinkInv, [Next]_vars PROVE SinkInv'
  OBVIOUS
<1> USE StreamAssumption DEF SinkInv, TypeOK, LockInv, OutputInv, ReportInv, BudgetInv, EndIsReported, RetryBudget, NoReplay, flags, threads, counts, Steps
<1>1. ASSUME NEW t \in Callers, Initialize(t) PROVE SinkInv'
  BY <1>1 DEF Initialize
<1>2. ASSUME NEW t \in Callers, Start(t) PROVE SinkInv'
  <2>1. TypeOK'
    <3>1. sessions' \in 0..MaxSessions /\ reported' \in Nat /\ outages' \in Nat
      BY <1>2 DEF Start
    <3>2. QED BY <1>2, <3>1 DEF Start
  <2>2. LockInv'
    BY <1>2 DEF Start
  <2>3. OutputInv'
    BY <1>2 DEF Start
  <2>4. ReportInv'
    BY <1>2 DEF Start
  <2>5. BudgetInv'
    BY <1>2 DEF Start
  <2>6. EndIsReported'
    BY <1>2 DEF Start
  <2>7. RetryBudget'
    BY <1>2 DEF Start
  <2>8. NoReplay'
    BY <1>2 DEF Start
  <2>9. QED BY <2>1, <2>2, <2>3, <2>4, <2>5, <2>6, <2>7, <2>8
<1>3. ASSUME NEW t \in Callers, Stop(t) PROVE SinkInv'
  BY <1>3 DEF Stop
<1>4. ASSUME NEW t \in Callers, StopLock(t) PROVE SinkInv'
  BY <1>4 DEF StopLock
<1>5. ASSUME NEW t \in Callers, StopJoin(t) PROVE SinkInv'
  BY <1>5 DEF StopJoin
<1>6. ASSUME NEW t \in Callers, StopClean(t) PROVE SinkInv'
  BY <1>6 DEF StopClean
<1>7. ASSUME Open PROVE SinkInv'
  <2>1. TypeOK'
    BY <1>7 DEF Open, WorkerGo, Attempt
  <2>2. LockInv'
    BY <1>7 DEF Open, WorkerGo, Attempt
  <2>3. OutputInv'
    BY <1>7 DEF Open, WorkerGo, Attempt
  <2>4. ReportInv'
    BY <1>7 DEF Open, WorkerGo, Attempt
  <2>5. BudgetInv'
    BY <1>7 DEF Open, WorkerGo, Attempt
  <2>6. EndIsReported'
    BY <1>7 DEF Open, WorkerGo, Attempt
  <2>7. RetryBudget'
    BY <1>7 DEF Open, WorkerGo, Attempt
  <2>8. NoReplay'
    BY <1>7 DEF Open, WorkerGo, Attempt
  <2>9. QED BY <2>1, <2>2, <2>3, <2>4, <2>5, <2>6, <2>7, <2>8
<1>8. ASSUME OpenSucceeds PROVE SinkInv'
  BY <1>8 DEF OpenSucceeds, WorkerGo, Attempt
<1>9. ASSUME OpenFails PROVE SinkInv'
  BY <1>9 DEF OpenFails, WorkerGo, Attempt
<1>10. ASSUME EncoderFails PROVE SinkInv'
  BY <1>10 DEF EncoderFails, WorkerGo, Attempt
<1>11. ASSUME Backoff PROVE SinkInv'
  BY <1>11 DEF Backoff, WorkerGo, Attempt
<1>12. ASSUME Exhausted PROVE SinkInv'
  <2>1. TypeOK'
    BY <1>12 DEF Exhausted, WorkerGo, Attempt
  <2>2. LockInv'
    BY <1>12 DEF Exhausted, WorkerGo, Attempt
  <2>3. OutputInv'
    BY <1>12 DEF Exhausted, WorkerGo, Attempt
  <2>4. ReportInv'
    BY <1>12 DEF Exhausted, WorkerGo, Attempt
  <2>5. BudgetInv'
    BY <1>12 DEF Exhausted, WorkerGo, Attempt
  <2>6. EndIsReported'
    BY <1>12 DEF Exhausted, WorkerGo, Attempt
  <2>7. RetryBudget'
    BY <1>12 DEF Exhausted, WorkerGo, Attempt
  <2>8. NoReplay'
    BY <1>12 DEF Exhausted, WorkerGo, Attempt
  <2>9. QED BY <2>1, <2>2, <2>3, <2>4, <2>5, <2>6, <2>7, <2>8
<1>13. ASSUME Publish PROVE SinkInv'
  BY <1>13 DEF Publish, WorkerGo, Attempt
<1>14. ASSUME WriteSucceeds PROVE SinkInv'
  BY <1>14 DEF WriteSucceeds, WorkerGo, Attempt
<1>15. ASSUME WriteFails PROVE SinkInv'
  <2>1. TypeOK'
    <3>1. CASE outputFailed' = TRUE /\ output' = "closed" /\ Attempt(1) /\ UNCHANGED failed
      <4>1. attempt' \in 0..(Attempts + 1)
        BY <3>1 DEF Attempt
      <4>2. QED BY <1>15, <3>1, <4>1 DEF WriteFails, WorkerGo, Attempt
    <3>2. CASE WorkerGo("loop") /\ failed' \in {failed, TRUE} /\ UNCHANGED <<outputFailed, attempt, output>>
      BY <1>15, <3>2 DEF WriteFails, WorkerGo
    <3>3. QED BY <1>15, <3>1, <3>2 DEF WriteFails
  <2>2. LockInv'
    BY <1>15 DEF WriteFails, WorkerGo, Attempt
  <2>3. OutputInv'
    BY <1>15 DEF WriteFails, WorkerGo, Attempt
  <2>4. ReportInv'
    BY <1>15 DEF WriteFails, WorkerGo, Attempt
  <2>5. BudgetInv'
    BY <1>15 DEF WriteFails, WorkerGo, Attempt
  <2>6. EndIsReported'
    BY <1>15 DEF WriteFails, WorkerGo, Attempt
  <2>7. RetryBudget'
    BY <1>15 DEF WriteFails, WorkerGo, Attempt
  <2>8. NoReplay'
    BY <1>15 DEF WriteFails, WorkerGo, Attempt
  <2>9. QED BY <2>1, <2>2, <2>3, <2>4, <2>5, <2>6, <2>7, <2>8
<1>16. ASSUME Close PROVE SinkInv'
  BY <1>16 DEF Close, WorkerGo, Attempt
<1>17. ASSUME Decide PROVE SinkInv'
  BY <1>17 DEF Decide, WorkerGo, Attempt
<1>18. ASSUME CallbackStops PROVE SinkInv'
  BY <1>18 DEF CallbackStops, WorkerGo, Attempt
<1>19. ASSUME Exit PROVE SinkInv'
  BY <1>19 DEF Exit, WorkerGo, Attempt
<1>20. ASSUME DeadlinePasses PROVE SinkInv'
  BY <1>20 DEF DeadlinePasses, IsStreaming
<1>21. ASSUME OnFrame PROVE SinkInv'
  BY <1>21 DEF OnFrame, IsStreaming
<1>22. ASSUME Push PROVE SinkInv'
  <2>1. TypeOK'
    BY <1>22 DEF Push, IsStreaming
  <2>2. LockInv'
    BY <1>22 DEF Push, IsStreaming
  <2>3. OutputInv'
    BY <1>22 DEF Push, IsStreaming
  <2>4. ReportInv'
    BY <1>22 DEF Push, IsStreaming
  <2>5. BudgetInv'
    BY <1>22 DEF Push, IsStreaming
  <2>6. EndIsReported'
    BY <1>22 DEF Push, IsStreaming
  <2>7. RetryBudget'
    BY <1>22 DEF Push, IsStreaming
  <2>8. NoReplay'
    BY <1>22 DEF Push, IsStreaming
  <2>9. QED BY <2>1, <2>2, <2>3, <2>4, <2>5, <2>6, <2>7, <2>8
<1>23. ASSUME UNCHANGED vars PROVE SinkInv'
  BY <1>23 DEF vars
<1>24. QED BY <1>1, <1>2, <1>3, <1>4, <1>5, <1>6, <1>7, <1>8, <1>9, <1>10, <1>11, <1>12, <1>13, <1>14, <1>15, <1>16, <1>17, <1>18, <1>19, <1>20, <1>21, <1>22, <1>23 DEF Next, StopStep, Worker


\* It holds in the beginning.
LEMMA InitHasInv == Init => SinkInv
<1> SUFFICES ASSUME Init PROVE SinkInv
  OBVIOUS
<1> USE StreamAssumption DEF Init
<1>1. TypeOK
  <2>1. attempt \in 0..(Attempts + 1) /\ sessions \in 0..MaxSessions /\ reported \in Nat /\ outages \in Nat
    OBVIOUS
  <2>2. call \in [Callers -> {"out", "lock", "join", "clean"}]
    OBVIOUS
  <2>3. QED BY <2>1, <2>2 DEF TypeOK, Steps
<1>2. LockInv /\ OutputInv /\ ReportInv /\ NoReplay
  BY DEF LockInv, OutputInv, ReportInv, NoReplay
<1>3. BudgetInv /\ EndIsReported /\ RetryBudget
  BY DEF BudgetInv, EndIsReported, RetryBudget
<1>4. QED BY <1>1, <1>2, <1>3 DEF SinkInv

\* The inductive invariant holds in every state.
THEOREM SinkAlwaysSound == Spec => []SinkInv
  BY InitHasInv, StepKeepsInv, PTL DEF Spec

\* Every variable keeps its type, and the transport is open only while the
\* publishing thread is in its loop: stop() closes nothing that is in use.
THEOREM TypeCorrect == Spec => []TypeOK
<1>1. SinkInv => TypeOK BY DEF SinkInv
<1>2. QED BY <1>1, SinkAlwaysSound, PTL

\* A stream is reported at most once, and always when it ended unasked.
THEOREM EndAlwaysReported == Spec => []EndIsReported
<1>1. SinkInv => EndIsReported BY DEF SinkInv
<1>2. QED BY <1>1, SinkAlwaysSound, PTL

\* An outage never costs more than the original attempt and the retries.
THEOREM BudgetAlwaysKept == Spec => []RetryBudget
<1>1. SinkInv => RetryBudget BY DEF SinkInv
<1>2. QED BY <1>1, SinkAlwaysSound, PTL

\* Audio collected during an outage is never published after it.
THEOREM NeverReplays == Spec => []NoReplay
<1>1. SinkInv => NoReplay BY DEF SinkInv
<1>2. QED BY <1>1, SinkAlwaysSound, PTL

-----------------------------------------------------------------------------
(* The life of the publishing thread *)

\* run() before it has closed the transport
Publishing == {"begin", "opening", "retry", "reopening", "backoff", "exhausted", "loop", "write",
               "close"}

\* active_ says exactly that the publishing thread publishes; lifecycleMutex_ is
\* held by the one stop() that joins or cleans and never left behind; and what
\* that stop() releases, no thread uses.
LifecycleSound ==
    /\ active <=> worker \in Publishing
    /\ lifecycle # "none" => call[lifecycle] \in {"join", "clean"}
    /\ \A t \in Callers : call[t] \in {"join", "clean"} => lifecycle = t
    /\ \A t \in Callers : call[t] = "clean" => worker = "none" /\ ~active /\ output = "closed"

\* Every step keeps it: start() and initialize() need the free mutex, and the
\* flag falls in the step that ends run().
LEMMA StepKeepsLifecycle ==
    ASSUME SinkInv, LifecycleSound, [Next]_vars
    PROVE  LifecycleSound'
<1> USE StreamAssumption DEF SinkInv, TypeOK, LockInv, LifecycleSound, Publishing, flags, threads, counts, Steps
<1>1. ASSUME NEW t \in Callers, Initialize(t) PROVE LifecycleSound'
  BY <1>1 DEF Initialize
<1>2. ASSUME NEW t \in Callers, Start(t) PROVE LifecycleSound'
  BY <1>2 DEF Start
<1>3. ASSUME NEW t \in Callers, Stop(t) PROVE LifecycleSound'
  BY <1>3 DEF Stop
<1>4. ASSUME NEW t \in Callers, StopLock(t) PROVE LifecycleSound'
  BY <1>4 DEF StopLock
<1>5. ASSUME NEW t \in Callers, StopJoin(t) PROVE LifecycleSound'
  BY <1>5 DEF StopJoin
<1>6. ASSUME NEW t \in Callers, StopClean(t) PROVE LifecycleSound'
  BY <1>6 DEF StopClean
<1>7. ASSUME Open PROVE LifecycleSound'
  BY <1>7 DEF Open, WorkerGo
<1>8. ASSUME OpenSucceeds PROVE LifecycleSound'
  BY <1>8 DEF OpenSucceeds, WorkerGo
<1>9. ASSUME OpenFails PROVE LifecycleSound'
  BY <1>9 DEF OpenFails, WorkerGo, Attempt
<1>10. ASSUME EncoderFails PROVE LifecycleSound'
  BY <1>10 DEF EncoderFails, WorkerGo
<1>11. ASSUME Backoff PROVE LifecycleSound'
  BY <1>11 DEF Backoff, WorkerGo
<1>12. ASSUME Exhausted PROVE LifecycleSound'
  BY <1>12 DEF Exhausted, WorkerGo
<1>13. ASSUME Publish PROVE LifecycleSound'
  BY <1>13 DEF Publish, WorkerGo
<1>14. ASSUME WriteSucceeds PROVE LifecycleSound'
  BY <1>14 DEF WriteSucceeds, WorkerGo
<1>15. ASSUME WriteFails PROVE LifecycleSound'
  BY <1>15 DEF WriteFails, WorkerGo, Attempt
<1>16. ASSUME Close PROVE LifecycleSound'
  BY <1>16 DEF Close, WorkerGo
<1>17. ASSUME Decide PROVE LifecycleSound'
  BY <1>17 DEF Decide, WorkerGo
<1>18. ASSUME CallbackStops PROVE LifecycleSound'
  BY <1>18 DEF CallbackStops, WorkerGo
<1>19. ASSUME Exit PROVE LifecycleSound'
  BY <1>19 DEF Exit, WorkerGo
<1>20. ASSUME DeadlinePasses PROVE LifecycleSound'
  BY <1>20 DEF DeadlinePasses
<1>21. ASSUME OnFrame PROVE LifecycleSound'
  BY <1>21 DEF OnFrame
<1>22. ASSUME Push PROVE LifecycleSound'
  BY <1>22 DEF Push
<1>23. CASE UNCHANGED vars
  BY <1>23 DEF vars
<1>24. QED
  BY <1>1, <1>2, <1>3, <1>4, <1>5, <1>6, <1>7, <1>8, <1>9, <1>10, <1>11, <1>12, <1>13, <1>14, <1>15, <1>16, <1>17, <1>18, <1>19, <1>20, <1>21, <1>22, <1>23 DEF Next, StopStep, Worker

\* Media is accepted as long as there is a publishing thread to send it, and not
\* longer; stop() cleans up after that thread has ended and before the next
\* start(), whichever of them the callers and the callback interleave.
THEOREM LifecycleAlwaysSound == Spec => []LifecycleSound
<1>1. Init => LifecycleSound
  BY DEF Init, LifecycleSound, Publishing
<1>2. QED BY <1>1, SinkAlwaysSound, StepKeepsLifecycle, PTL DEF Spec
=============================================================================
