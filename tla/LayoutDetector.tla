--------------------------- MODULE LayoutDetector ---------------------------
(***************************************************************************)
(* LayoutDetector (src/src/layout_detector.cpp): the states of the users   *)
(* who send frames, and the layout the detection thread derives from them. *)
(* Times are kept as what the code asks of them: how long a user's last    *)
(* frame and its first one are ago, and whether the layout may change.     *)
(* The functions that change the expected users have no caller.            *)
(***************************************************************************)
EXTENDS Naturals, FiniteSets

CONSTANTS
    Senders,        \* users of the channel
    MaxUsers,       \* maxUsers
    MinFrames       \* frames of a stable user

ASSUME DetectorAssumption == MaxUsers \in Nat /\ MinFrames \in Nat

\* UserInfo.  last: 0 within framePresenceTimeoutMs, 1 older, 2 older than
\* userTimeoutMs, 3 than twice that; first: 0 less than a third of
\* layoutStabilityMs ago, 1 more, 2 more than userTimeoutMs.
NoUser == [state |-> "NONE", last |-> 0, first |-> 0, frames |-> 0]
NewUser == [NoUser EXCEPT !.state = "JOINING"]

VARIABLES
    expected,       \* config_.expectedUsers; empty: anyone is taken
    users,          \* users_
    shown,          \* currentLayout_
    settled,        \* layoutStabilityMs have passed since the last change
    running, thread,
    alone           \* the one user who sends from now on, steadily; empty as long as all may

detectorVars == <<expected, users, shown, settled, running, thread, alone>>

DetectorInit ==
    /\ expected \in SUBSET Senders
    /\ users = [u \in Senders |-> IF u \in expected THEN NewUser ELSE NoUser]
    /\ shown = {} /\ settled = TRUE
    /\ running = TRUE /\ thread = "update"
    /\ alone = {}

Tracked == {u \in Senders : users[u] # NoUser}

-----------------------------------------------------------------------------
(* onUserFrame() *)

Accepts(u) == IF expected # {} THEN u \in expected ELSE Cardinality(Tracked) < MaxUsers

Counted(k) == IF k < MinFrames THEN k + 1 ELSE k

\* Mutant: a user who left is not taken back.
FramedOnlyOnce(info) ==
    [info EXCEPT !.last = 0, !.frames = Counted(@), !.state = IF @ = "LEAVING" THEN "ACTIVE" ELSE @]

Framed(info) ==
    IF info.state = "LEFT" THEN NewUser
    ELSE [info EXCEPT !.last = 0, !.frames = Counted(@),
                      !.state = IF @ = "LEAVING" THEN "ACTIVE" ELSE @]

OnUserFrame(u) ==
    /\ running /\ (alone = {} \/ u \in alone)
    /\ u \in Tracked \/ Accepts(u)
    /\ users' = [users EXCEPT ![u] = IF u \in Tracked THEN Framed(@) ELSE NewUser]
    /\ UNCHANGED <<expected, shown, settled, running, thread, alone>>

-----------------------------------------------------------------------------
(* detectionThread() *)

Recent(info) == info.last = 0
IsUserStable(info) == info.first >= 1 /\ info.frames >= MinFrames /\ Recent(info)

Updated(info) ==
    CASE info.state = "JOINING" /\ IsUserStable(info) -> [info EXCEPT !.state = "ACTIVE"]
      [] info.state = "JOINING" /\ ~Recent(info) /\ info.first = 2 -> [info EXCEPT !.state = "LEFT"]
      [] info.state = "ACTIVE" /\ ~Recent(info) -> [info EXCEPT !.state = "LEAVING"]
      [] info.state = "LEAVING" /\ Recent(info) -> [info EXCEPT !.state = "ACTIVE"]
      [] info.state = "LEAVING" /\ info.last >= 2 -> [info EXCEPT !.state = "LEFT"]
      [] OTHER -> info

\* Users who left long ago are removed.
Kept(info) == IF info.state = "LEFT" /\ info.last = 3 THEN NoUser ELSE info

UpdateUserStates ==
    /\ thread = "update"
    /\ users' = IF running THEN [u \in Senders |-> Kept(Updated(users[u]))] ELSE users
    /\ thread' = IF running THEN "check" ELSE "done"
    /\ UNCHANGED <<expected, shown, settled, running, alone>>

ShouldIncludeInLayout(info) ==
    info.state = "ACTIVE" \/ (info.state = "JOINING" /\ IsUserStable(info))

\* The callback gets the new layout.
CheckLayoutChange ==
    LET new == {u \in Senders : ShouldIncludeInLayout(users[u])}
        change == running /\ settled /\ new # shown IN
    /\ thread = "check"
    /\ shown' = IF change THEN new ELSE shown
    /\ settled' = (settled /\ ~change)
    /\ thread' = "wait"
    /\ UNCHANGED <<expected, users, running, alone>>

\* 500 ms have passed, or stop() has notified.
Woken ==
    /\ thread = "wait"
    /\ thread' = IF running THEN "update" ELSE "done"
    /\ UNCHANGED <<expected, users, shown, settled, running, alone>>

\* stop() tells the thread to end, and joins it.
StopDetector ==
    /\ running
    /\ running' = FALSE
    /\ UNCHANGED <<expected, users, shown, settled, thread, alone>>

-----------------------------------------------------------------------------
(* Time, as long as somebody asks for it, and the users *)

\* A user's first frame is as old as its last one, or older.
LastAges(u) ==
    /\ running /\ u \in Tracked \ alone
    /\ users[u].last < 3
    /\ users' = [users EXCEPT ![u].last = @ + 1, ![u].first = IF @ < users[u].last + 1 /\ @ < 2 THEN @ + 1 ELSE @]
    /\ UNCHANGED <<expected, shown, settled, running, thread, alone>>

FirstAges(u) ==
    /\ running /\ u \in Tracked /\ users[u].first < 2
    /\ users' = [users EXCEPT ![u].first = @ + 1]
    /\ UNCHANGED <<expected, shown, settled, running, thread, alone>>

Settles ==
    /\ running /\ ~settled
    /\ settled' = TRUE
    /\ UNCHANGED <<expected, users, shown, running, thread, alone>>

\* From now on u sends a frame at least every framePresenceTimeoutMs, and the
\* others have left.
OthersLeave(u) ==
    /\ running /\ alone = {}
    /\ users[u].last = 0
    /\ alone' = {u}
    /\ UNCHANGED <<expected, users, shown, settled, running, thread>>

-----------------------------------------------------------------------------
DetectorNext ==
    \/ UpdateUserStates \/ CheckLayoutChange \/ Woken \/ StopDetector \/ Settles
    \/ \E u \in Senders : OnUserFrame(u) \/ LastAges(u) \/ FirstAges(u) \/ OthersLeave(u)

\* The thread wakes up every 500 ms, time passes, and who sends steadily sends.
DetectorFairness ==
    /\ WF_detectorVars(UpdateUserStates) /\ WF_detectorVars(CheckLayoutChange) /\ WF_detectorVars(Woken)
    /\ WF_detectorVars(Settles)
    /\ \A u \in Senders : /\ WF_detectorVars(LastAges(u)) /\ WF_detectorVars(FirstAges(u))
                          /\ WF_detectorVars(u \in alone /\ OnUserFrame(u))

DetectorSpec == DetectorInit /\ [][DetectorNext]_detectorVars /\ DetectorFairness

-----------------------------------------------------------------------------
(* Properties *)

\* Once one user keeps sending and all others have stopped for good, the layout
\* becomes that user alone: users who left give up their places, also those
\* under maxUsers, and one who comes back is taken in again.
LayoutSettles ==
    \A u \in Senders :
      (u \in alone /\ (expected = {} \/ u \in expected) /\ MaxUsers > 0) ~> (shown = {u} \/ ~running)
=============================================================================
