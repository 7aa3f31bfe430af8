----------------------------- MODULE SegmentFiles -----------------------------
(***************************************************************************)
(* The files of a recording in segments: TSSegmentManager                  *)
(* (src/src/ts_segment_manager.cpp), the rotation and the end in           *)
(* RecordingSink (src/src/recording_sink.cpp) and the metadata they        *)
(* append.  One recording, with the one encoder context of the tasks that  *)
(* TaskPipe starts.  Every file operation may fail, and the process may    *)
(* die between any two.                                                    *)
(***************************************************************************)
EXTENDS Metadata

CONSTANTS
    MaxSegments,    \* bound: segments a recording may begin
    MaxBytes        \* bound: the length a segment grows to before its trailer

ASSUME SegmentAssumption == MaxSegments \in Nat /\ MaxBytes \in Nat

Numbers == 1..MaxSegments

VARIABLES
    rec,        \* the recording
    step,       \* the video thread in initializeEncoder() or switchToNewTSSegment()
    switching,  \* it is in the latter
    pending,    \* tsPendingSegmentRotation_
    writer,     \* the segment the format context writes to, 0 or Broken
    cur,        \* currentSegment_.segmentNumber, or 0
    done,       \* currentSegment_.isComplete
    name,       \* the name of each segment on disk: "absent", "tmp" or "final"
    length,     \* and its length
    segments,   \* currentSession_.segments
    playlist,   \* the segments named by playlist.m3u8
    todo,       \* segments that stop() has not appended yet
    ticked      \* initialize() and start() formatted different prefixes

encoding == <<rec, step, switching, pending, writer>>
tsManager == <<cur, done, segments>>
disk == <<name, length, playlist>>
vars == <<encoding, tsManager, disk, todo, ticked, metadataVars>>

Broken == MaxSegments + 1     \* a context whose new segment could not be set up

SegmentsInit ==
    /\ rec = "idle" /\ step = "none" /\ switching = FALSE /\ pending = FALSE /\ writer = 0
    /\ cur = 0 /\ done = FALSE /\ segments = {}
    /\ name = [s \in Numbers |-> "absent"] /\ length = [s \in Numbers |-> 0]
    /\ playlist = {} /\ todo = {} /\ ticked \in BOOLEAN
    /\ MetadataInit

\* What is found under the final names.
Contents == [s \in Numbers |-> IF name[s] = "final" THEN length[s] ELSE Absent]

\* startSession() makes its own prefix; appends use the one of initialize().
AppendPrefix == IF ticked THEN "initialize" ELSE "start"

-----------------------------------------------------------------------------
(* The beginning *)

Start ==
    /\ rec = "idle" /\ session = NoSession /\ saved = <<>>
    /\ rec' = "recording" /\ pending' = FALSE
    /\ StartSession("start")
    /\ UNCHANGED <<step, switching, writer, tsManager, disk, todo, ticked>>

\* The first frame, and the first after a context could not be made.
InitializeEncoder ==
    /\ rec = "recording" /\ step = "none" /\ writer = 0 /\ cur < MaxSegments
    /\ step' = IF cur # 0 /\ ~done THEN "finalize" ELSE "rotate"
    /\ switching' = FALSE
    /\ UNCHANGED <<rec, pending, writer, tsManager, disk, todo, ticked, metadataVars>>

\* checkAndRotateSegmentIfNeeded() on the coordinating thread.
RotationDue ==
    /\ rec = "recording" /\ step = "none" /\ cur # 0 /\ ~pending
    /\ pending' = TRUE
    /\ UNCHANGED <<rec, step, switching, writer, tsManager, disk, todo, ticked, metadataVars>>

\* A packet that starts no segment.
WritePacket ==
    /\ rec = "recording" /\ step = "none" /\ writer \in Numbers
    /\ length[writer] < MaxBytes
    /\ length' = [length EXCEPT ![writer] = @ + 1]
    /\ UNCHANGED <<encoding, tsManager, name, playlist, todo, ticked, metadataVars>>

\* A keyframe while a rotation is pending.
SwitchToNewTSSegment ==
    /\ rec = "recording" /\ step = "none" /\ pending /\ writer \in Numbers /\ cur < MaxSegments
    /\ step' = IF done THEN "rotate" ELSE "finalize"
    /\ switching' = TRUE
    /\ UNCHANGED <<rec, pending, writer, tsManager, disk, todo, ticked, metadataVars>>

-----------------------------------------------------------------------------
(* finalizeCurrentSegment() and rotateToNewSegment() *)

\* Mutant: safeRename() keeps its exception to itself.
RenameSwallowed ==
    /\ done' = TRUE /\ segments' = segments \cup {cur}
    /\ UNCHANGED <<cur, name, length>>

\* The segment gets its final name, and is listed in memory.
Renamed ==
    /\ name[cur] = "tmp"
    /\ name' = [name EXCEPT ![cur] = "final"]
    /\ done' = TRUE /\ segments' = segments \cup {cur}
    /\ UNCHANGED <<cur, length>>

\* Mutant: the new segment is begun although the old one has no final name.
FinalizeIgnored ==
    /\ step = "finalize"
    /\ \/ Renamed /\ step' = "playlist"
       \/ step' = "rotate" /\ UNCHANGED <<tsManager, name, length>>
    /\ UNCHANGED <<rec, switching, pending, writer, playlist, todo, ticked, metadataVars>>

FinalizeSegment ==
    /\ step = "finalize"
    /\ \/ Renamed /\ step' = "playlist"
       \/ step' = "none" /\ UNCHANGED <<tsManager, name, length>>
    /\ UNCHANGED <<rec, switching, pending, writer, playlist, todo, ticked, metadataVars>>

\* generateHLSPlaylist() writes the file anew from the list, or cannot.
GeneratePlaylist == playlist' \in {segments, playlist}

UpdatePlaylist ==
    /\ step = "playlist"
    /\ GeneratePlaylist
    /\ step' = "rotate"
    /\ UNCHANGED <<rec, switching, pending, writer, tsManager, name, length, todo, ticked,
                   metadataVars>>

\* A trailer and what the encoder held back are the last bytes of a segment.
Closed == IF writer \in Numbers THEN [length EXCEPT ![writer] = @ + 1] ELSE length

\* Mutant: the old format context stays in use.
RotateKeepsWriter ==
    /\ step = "rotate"
    /\ cur' = cur + 1 /\ done' = FALSE
    /\ step' = IF switching THEN "none" ELSE "setup"
    /\ UNCHANGED <<rec, switching, pending, writer, segments, disk, todo, ticked, metadataVars>>

\* The next segment exists in memory; a switch closes the file of the last one.
Rotate ==
    /\ step = "rotate"
    /\ cur' = cur + 1 /\ done' = FALSE
    /\ writer' = 0 /\ length' = Closed
    /\ step' = "setup"
    /\ UNCHANGED <<rec, switching, pending, segments, name, playlist, todo, ticked, metadataVars>>

\* setupOutputFormat() and the header.  A failure leaves the new segment
\* without a file, or with one that nobody writes to; after a switch it also
\* leaves stream pointers into the context that was freed.
Setup ==
    /\ step = "setup"
    /\ \/ /\ writer' = cur /\ step' = IF switching THEN "append" ELSE "none"
          /\ name' = [name EXCEPT ![cur] = "tmp"]
       \/ /\ writer' = IF switching THEN Broken ELSE 0
          /\ step' = "none"
          /\ name' \in {name, [name EXCEPT ![cur] = "tmp"]}
    /\ UNCHANGED <<rec, switching, pending, tsManager, length, playlist, todo, ticked, metadataVars>>

\* The end of a switch: the segment before goes to the metadata, and the
\* keyframe is the first packet of the new one.
SwitchAppend ==
    /\ step = "append"
    /\ LET last == CHOOSE s \in segments : \A r \in segments : r <= s
       IN AppendFile(AppendPrefix, last, Contents[last])
    /\ length' = [length EXCEPT ![writer] = @ + 1]
    /\ step' = "none" /\ pending' = FALSE
    /\ UNCHANGED <<rec, switching, writer, tsManager, name, playlist, todo, ticked>>

-----------------------------------------------------------------------------
(* RecordingSink::stop() after its threads have ended *)

CleanupEncoder ==
    /\ rec = "recording" /\ step = "none"
    /\ length' = Closed /\ writer' = 0
    /\ rec' = "closed"
    /\ UNCHANGED <<step, switching, pending, tsManager, name, playlist, todo, ticked, metadataVars>>

\* endCurrentSession()
EndFinalize ==
    /\ rec = "closed"
    /\ \/ cur # 0 /\ ~done /\ Renamed
       \/ UNCHANGED <<tsManager, name, length>>
    /\ rec' = "listing"
    /\ UNCHANGED <<step, switching, pending, writer, playlist, todo, ticked, metadataVars>>

EndPlaylist ==
    /\ rec = "listing"
    /\ GeneratePlaylist
    /\ rec' = "appending" /\ todo' = segments
    /\ UNCHANGED <<step, switching, pending, writer, tsManager, name, length, ticked, metadataVars>>

\* Every complete segment is appended, those of the rotations for a second time.
EndAppend ==
    /\ rec = "appending"
    /\ \E s \in todo :
          /\ \A r \in todo : s <= r
          /\ AppendFile(AppendPrefix, s, Contents[s])
          /\ todo' = todo \ {s}
    /\ UNCHANGED <<encoding, tsManager, disk, ticked>>

EndMetadata ==
    /\ rec = "appending" /\ todo = {}
    /\ EndSession("start", Contents)
    /\ rec' = "ended"
    /\ UNCHANGED <<step, switching, pending, writer, tsManager, disk, todo, ticked>>

\* The next initialize() destroys the manager, which tries once more to give an
\* incomplete segment its name (TSSegmentManager::cleanup()).
Destroy ==
    /\ rec = "ended"
    /\ \/ cur # 0 /\ ~done /\ Renamed /\ playlist' \in {playlist, segments'}
       \/ UNCHANGED <<tsManager, name, length, playlist>>
    /\ rec' = "destroyed"
    /\ UNCHANGED <<step, switching, pending, writer, todo, ticked, metadataVars>>

\* The worker is killed, or a frame reaches a broken context.
Crash ==
    /\ rec \notin {"idle", "ended", "destroyed", "dead"}
    /\ rec' = "dead" /\ step' = "dead" /\ writer' = 0
    /\ UNCHANGED <<switching, pending, tsManager, disk, todo, ticked, metadataVars>>

-----------------------------------------------------------------------------
SegmentsNext ==
    \/ Start \/ InitializeEncoder \/ RotationDue \/ WritePacket \/ SwitchToNewTSSegment
    \/ FinalizeSegment \/ UpdatePlaylist \/ Rotate \/ Setup \/ SwitchAppend
    \/ CleanupEncoder \/ EndFinalize \/ EndPlaylist \/ EndAppend \/ EndMetadata
    \/ Destroy \/ Crash

SegmentsSpec == SegmentsInit /\ [][SegmentsNext]_vars

-----------------------------------------------------------------------------
(* Properties *)

\* Types of the state.  The manager and the files agree: a segment has its final
\* name exactly when it is listed in memory, and no later one than the current
\* exists.
SegmentsTypeOK ==
    /\ rec \in {"idle", "recording", "closed", "listing", "appending", "ended", "destroyed", "dead"}
    /\ step \in {"none", "finalize", "playlist", "rotate", "setup", "append", "dead"}
    /\ {switching, pending, done, ticked} \subseteq BOOLEAN
    /\ writer \in 0..Broken /\ cur \in 0..MaxSegments
    /\ name \in [Numbers -> {"absent", "tmp", "final"}] /\ length \in [Numbers -> Nat]
    /\ segments = {s \in Numbers : name[s] = "final"}
    /\ playlist \subseteq Numbers /\ todo \subseteq segments
    /\ \A s \in Numbers : s > cur => name[s] = "absent"

\* A crash costs at most one segment: only the current one is under a
\* temporary name, whatever failed before.
CrashCostsOne == \A s \in Numbers : name[s] = "tmp" => s = cur

\* The playlist never promises too much: what it names exists under its final
\* name, and is not written to any more.  Between the rename and the trailer a
\* switch has this the other way round, so a crash there leaves a listed
\* segment without its end.
PlaylistIsTrue ==
    /\ \A s \in playlist : name[s] = "final"
    /\ writer \in playlist => switching /\ step = "rotate"

\* An entry of the metadata tells the truth about its file: one that could
\* always be read is verified, with the length it has; one that is called
\* verified has the right checksum, and no other size than the right one and
\* the 0 of a stat that failed.
TrueEntry(e, s) ==
    /\ s \notin unread => e = [size |-> Contents[s], sum |-> Contents[s], status |-> "verified"]
    /\ e.status = "verified" => e.sum = Contents[s] /\ e.size \in {0, Contents[s]}

\* Metadata that says completed is complete and true: every segment with a
\* final name at that time is there, with an entry that tells the truth.
FilesAreTrue ==
    \A p \in DOMAIN saved : saved[p].completed =>
        /\ DOMAIN saved[p].files = segments \/ rec = "destroyed"
        /\ \A s \in DOMAIN saved[p].files : TrueEntry(saved[p].files[s], s)

\* And its total is the sum, although segments are appended twice and appends,
\* saves and renames fail.  A stat that fails is never made up for: the total
\* then lacks a segment that is appended again with its size, or keeps one
\* whose size is lost.
MetadataIsTrue ==
    /\ FilesAreTrue
    /\ \A p \in DOMAIN saved : saved[p].completed /\ unread = {} =>
         saved[p].total = FoldFunction(+, 0, [s \in DOMAIN saved[p].files |-> saved[p].files[s].size])
===============================================================================
