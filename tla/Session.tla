------------------------------- MODULE Session -------------------------------
(***************************************************************************)
(* What a media sink promises its owner: sessions that do not overlap, and *)
(* a session that ends only when everything it accepted has been written.  *)
(* A unit may already be accepted while the session is being opened, but   *)
(* none after its end was asked for; what a session that could not be      *)
(* opened accepted waits for the next one, and                             *)
(* a full buffer gives up its oldest unit.                                 *)
(***************************************************************************)
EXTENDS Naturals

VARIABLES
    phase,      \* "idle", "opening", "active" or "ending"
    pending     \* accepted units that are not written yet

sessionVars == <<phase, pending>>

SessionInit == phase = "idle" /\ pending = 0

Begin ==
    /\ phase = "idle"
    /\ phase' = "opening"
    /\ UNCHANGED pending

\* The session is open, or could not be opened.
Opened ==
    /\ phase = "opening"
    /\ phase' \in {"active", "idle"}
    /\ UNCHANGED pending

Accept ==
    /\ phase \in {"opening", "active"}
    /\ pending' = pending + 1
    /\ UNCHANGED phase

\* A unit leaves the session: written, or pushed out of a full buffer.
Write ==
    /\ pending > 0
    /\ pending' = pending - 1
    /\ UNCHANGED phase

AskEnd ==
    /\ phase = "active"
    /\ phase' = "ending"
    /\ UNCHANGED pending

End ==
    /\ phase = "ending" /\ pending = 0
    /\ phase' = "idle"
    /\ UNCHANGED pending

SessionNext == Begin \/ Opened \/ Accept \/ Write \/ AskEnd \/ End

SessionSpec == SessionInit /\ [][SessionNext]_sessionVars
=============================================================================
