--------------------------- MODULE MCSnapshotSink ---------------------------
(***************************************************************************)
(* The snapshot sink by itself, for the tasks named in the configuration.  *)
(***************************************************************************)
EXTENDS SnapshotSink
=============================================================================
