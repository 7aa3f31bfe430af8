---------------------------- MODULE MCTaskQueue ----------------------------
(***************************************************************************)
(* Small instances of TaskQueue: two pods of which the first may die, one  *)
(* channel, every stop request for the start request s1.                   *)
(***************************************************************************)
EXTENDS TaskQueue
CONSTANTS s1, x1, c1

MCOrig == [x \in Stops |-> s1]
MCChan == [t \in Starts |-> c1]
MCKey  == [t \in Ids |-> t]

(* Explore no further once some task was hit by a stale write: the Unraced *)
(* properties say nothing of that task from there on.                      *)
NotRaced == raced = {}
=============================================================================
