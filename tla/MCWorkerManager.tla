-------------------------- MODULE MCWorkerManager --------------------------
(***************************************************************************)
(* Small instances of WorkerManager: channel c1 has a recording and a      *)
(* snapshot, and a second recording in the run with r3; channel c2 has a   *)
(* recording.                                                              *)
(***************************************************************************)
EXTENDS WorkerManager
CONSTANTS r1, n1, r2, r3, c1, c2

MCChanOf == [t \in Tasks |-> IF t = r2 THEN c2 ELSE c1]
MCCmdOf  == [t \in Tasks |-> IF t = n1 THEN "snapshot" ELSE "record"]
=============================================================================
