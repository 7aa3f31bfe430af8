------------------------- MODULE SegmentFilesProofs -------------------------
(***************************************************************************)
(* What the files of a recording show, for any number of segments and any  *)
(* lengths: the names on disk, the playlist, the entries of the metadata   *)
(* and their total.                                                        *)
(***************************************************************************)
EXTENDS SegmentFiles, WellFoundedInduction, FiniteSetTheorems, TLAPS

\* Where the video thread can be, and what it found there
StepInv ==
    /\ step \notin {"none", "dead"} => rec = "recording"
    /\ step = "finalize" => cur # 0 /\ ~done
    /\ step = "playlist" => cur # 0 /\ done /\ cur \notin playlist
    /\ step = "rotate" => cur = 0 \/ done
    /\ step \in {"finalize", "playlist", "rotate"} => cur < MaxSegments
    /\ step \in {"setup", "append"} => cur # 0 /\ ~done
    /\ step = "setup" => writer = 0
    /\ step = "append" => switching /\ writer = cur
    /\ switching /\ step \in {"finalize", "playlist", "rotate"} => cur # 0
    /\ switching /\ step \in {"setup", "append"} => cur - 1 \in segments

\* The current segment has its final name when it is complete; it is the only
\* one that is written to, and complete only while a switch has not closed it.
CurrentInv ==
    /\ done => cur # 0
    /\ cur # 0 => (name[cur] = "final" <=> done)
    /\ playlist \subseteq segments
    /\ writer \in Numbers => rec = "recording" /\ writer = cur /\ name[cur] # "absent"
    /\ writer \in Numbers /\ done => switching /\ step \in {"playlist", "rotate"}
    /\ ~switching /\ step \in {"finalize", "playlist", "rotate"} => writer = 0

FilesInv == SegmentsTypeOK /\ CrashCostsOne /\ StepInv /\ CurrentInv

\* An entry of the metadata of a file with content c; when the file could
\* always be read, it will be found true when it is checked.
EntryTrue(e, c, read) ==
    /\ e \in [size : {0, c}, sum : {Absent, c},
              status : {"unknown", "verified", "corrupted", "checksum_failed"}]
    /\ read => e.size = c

\* Entries for segments that are complete and closed, all but those in bad
\* having been read without a failure
EntriesTrue(s, bad) ==
    /\ s \in [files : {s.files}, total : {s.total}, completed : {FALSE}]
    /\ s.files = [f \in DOMAIN s.files |-> s.files[f]]
    /\ DOMAIN s.files \subseteq segments
    /\ \A f \in DOMAIN s.files : f # writer /\ EntryTrue(s.files[f], length[f], f \notin bad)

\* What is saved of a file at the end
CheckedTrue(e, c, read) ==
    /\ e.status = "verified" => e.sum = c /\ e.size \in {0, c}
    /\ read => e = [size |-> c, sum |-> c, status |-> "verified"]

\* Saved metadata that says completed: every segment with a final name at that
\* time, with an entry that tells the truth
FilesTrue(s) ==
    /\ DOMAIN s.files = segments \/ rec = "destroyed"
    /\ DOMAIN s.files \subseteq segments
    /\ \A f \in DOMAIN s.files : CheckedTrue(s.files[f], length[f], f \notin unread)

MetadataInv ==
    /\ rec \in {"recording", "closed", "listing", "appending"} => EntriesTrue(session, unread)
    /\ rec = "appending" => segments \subseteq DOMAIN session.files \cup todo
    /\ \A p \in DOMAIN saved : saved[p].completed \in BOOLEAN
    /\ \A p \in DOMAIN saved : saved[p].completed => rec \in {"ended", "destroyed"} /\ FilesTrue(saved[p])

\* The first state has the invariant of the files.
LEMMA InitHasFilesInv == SegmentsInit => FilesInv
<1> SUFFICES ASSUME SegmentsInit PROVE FilesInv
  OBVIOUS
<1> USE SegmentAssumption DEF SegmentsInit, Numbers, Broken
<1>1. {switching, pending, done, ticked} \subseteq BOOLEAN
  BY Zenon
<1>2. SegmentsTypeOK
  BY <1>1 DEF SegmentsTypeOK
<1>3. CrashCostsOne /\ StepInv /\ CurrentInv
  BY DEF CrashCostsOne, StepInv, CurrentInv
<1>4. QED BY <1>2, <1>3 DEF FilesInv

\* A rename that succeeds makes the current segment final and lists it.
LEMMA RenamedIsListed ==
    ASSUME FilesInv, cur # 0, Renamed
    PROVE  /\ cur \in Numbers /\ cur \notin segments /\ cur' = cur /\ length' = length
           /\ done' = TRUE /\ segments' = segments \cup {cur}
           /\ name' \in [Numbers -> {"absent", "tmp", "final"}]
           /\ name'[cur] = "final" /\ \A s \in Numbers \ {cur} : name'[s] = name[s]
           /\ segments' = {s \in Numbers : name'[s] = "final"}
<1> USE SegmentAssumption DEF FilesInv, SegmentsTypeOK, Numbers, Renamed
<1>1. cur \in Numbers /\ cur \notin segments
  OBVIOUS
<1>2. /\ name' \in [Numbers -> {"absent", "tmp", "final"}]
      /\ name'[cur] = "final" /\ \A s \in Numbers \ {cur} : name'[s] = name[s]
  BY <1>1
<1>3. segments' = {s \in Numbers : name'[s] = "final"}
  BY <1>1, <1>2
<1>4. QED BY <1>1, <1>2, <1>3

\* The invariant of the files does not speak of the metadata.
LEMMA RenamedKeeps ==
    ASSUME FilesInv, cur # 0, ~done, Renamed,
           rec' \in {"recording", "listing", "destroyed"}, UNCHANGED <<switching, pending, ticked, writer, todo>>,
           playlist' \in {playlist, segments'},
           \/ rec = "recording" /\ rec' = rec /\ step = "finalize" /\ step' = "playlist" /\ playlist' = playlist
           \/ rec # "recording" /\ step \in {"none", "dead"} /\ step' = step
    PROVE  FilesInv'
<1> USE SegmentAssumption DEF FilesInv, Numbers, Broken
<1>1. /\ cur \in Numbers /\ cur \notin segments /\ cur' = cur /\ length' = length
      /\ done' = TRUE /\ segments' = segments \cup {cur}
      /\ name' \in [Numbers -> {"absent", "tmp", "final"}]
      /\ name'[cur] = "final" /\ \A s \in Numbers \ {cur} : name'[s] = name[s]
      /\ segments' = {s \in Numbers : name'[s] = "final"}
  BY RenamedIsListed
<1>2. {switching', pending', done', ticked'} \subseteq BOOLEAN
  BY <1>1, Zenon DEF SegmentsTypeOK
<1>3. playlist' \subseteq segments'
  BY <1>1 DEF CurrentInv
<1>4. SegmentsTypeOK'
  <2>1. todo' \subseteq segments' /\ \A s \in Numbers : s > cur' => name'[s] = "absent"
    BY <1>1 DEF SegmentsTypeOK
  <2>2. rec' \in {"recording", "listing", "destroyed"} /\ step' \in {"playlist", "none", "dead"}
    OBVIOUS
  <2>3. QED BY <1>1, <1>2, <1>3, <2>1, <2>2 DEF SegmentsTypeOK
<1>5. CrashCostsOne'
  BY <1>1 DEF SegmentsTypeOK, CrashCostsOne
<1>6. StepInv'
  <2>1. CASE step' = "playlist"
    BY <1>1, <2>1 DEF SegmentsTypeOK, StepInv, CurrentInv
  <2>2. CASE step' \in {"none", "dead"}
    BY <2>2 DEF StepInv
  <2>3. QED BY <2>1, <2>2
<1>7. CurrentInv'
  <2>1. writer \in Numbers => switching /\ step' = "playlist" /\ rec' = "recording" /\ writer = cur
    BY DEF CurrentInv, SegmentsTypeOK
  <2>2. ~switching' /\ step' \in {"finalize", "playlist", "rotate"} => writer' = 0
    BY DEF CurrentInv
  <2>3. QED BY <1>1, <1>3, <2>1, <2>2 DEF CurrentInv
<1>8. QED BY <1>4, <1>5, <1>6, <1>7

\* Every step keeps it.
LEMMA StepKeepsFilesInv == FilesInv /\ [SegmentsNext]_vars => FilesInv'
<1> SUFFICES ASSUME FilesInv, [SegmentsNext]_vars PROVE FilesInv'
  OBVIOUS
<1> USE SegmentAssumption DEF FilesInv, SegmentsTypeOK, CrashCostsOne, StepInv, CurrentInv, Numbers, Broken, encoding, tsManager, disk
<1>1. ASSUME Start PROVE FilesInv'
  BY <1>1 DEF Start
<1>2. ASSUME InitializeEncoder PROVE FilesInv'
  BY <1>2 DEF InitializeEncoder
<1>3. ASSUME RotationDue PROVE FilesInv'
  BY <1>3 DEF RotationDue
<1>4. ASSUME WritePacket PROVE FilesInv'
  BY <1>4 DEF WritePacket
<1>5. ASSUME SwitchToNewTSSegment PROVE FilesInv'
  BY <1>5 DEF SwitchToNewTSSegment
<1>6. ASSUME FinalizeSegment PROVE FilesInv'
  <2>1. CASE Renamed /\ step' = "playlist"
    BY <1>6, <2>1, RenamedKeeps DEF FinalizeSegment
  <2>2. CASE step' = "none" /\ UNCHANGED <<tsManager, name, length>>
    BY <1>6, <2>2 DEF FinalizeSegment
  <2>3. QED BY <1>6, <2>1, <2>2 DEF FinalizeSegment
<1>7. ASSUME UpdatePlaylist PROVE FilesInv'
  BY <1>7 DEF UpdatePlaylist, GeneratePlaylist
<1>8. ASSUME Rotate PROVE FilesInv'
  <2>1. cur' \in 1..MaxSegments /\ cur' = cur + 1 /\ done' = FALSE /\ name'[cur'] = "absent"
    BY <1>8 DEF Rotate
  <2>2. {switching', pending', done', ticked'} \subseteq BOOLEAN
    BY <1>8, Zenon DEF Rotate
  <2>3. length' \in [Numbers -> Nat]
    BY <1>8 DEF Rotate, Closed
  <2>4. SegmentsTypeOK'
    BY <1>8, <2>1, <2>2, <2>3 DEF Rotate
  <2>5. CrashCostsOne'
    BY <1>8, <2>1 DEF Rotate
  <2>6. StepInv'
    BY <1>8, <2>1 DEF Rotate
  <2>7. CurrentInv'
    BY <1>8, <2>1 DEF Rotate
  <2>8. QED BY <2>4, <2>5, <2>6, <2>7
<1>9. ASSUME Setup PROVE FilesInv'
  <2>1. cur \in Numbers
    BY <1>9 DEF Setup
  <2>2. SegmentsTypeOK'
    <3>1. name' \in {name, [name EXCEPT ![cur] = "tmp"]}
      BY <1>9 DEF Setup
    <3>2. name' \in [Numbers -> {"absent", "tmp", "final"}]
      BY <3>1, <2>1
    <3>3. segments' = {s \in Numbers : name'[s] = "final"}
      BY <1>9, <2>1, <3>1 DEF Setup
    <3>4. writer' \in 0..Broken /\ step' \in {"append", "none"}
      BY <1>9 DEF Setup
    <3>5. \A s \in Numbers : s > cur' => name'[s] = "absent"
      BY <1>9, <2>1, <3>1 DEF Setup
    <3>6. QED BY <1>9, <3>2, <3>3, <3>4, <3>5 DEF Setup
  <2>3. CrashCostsOne'
    BY <1>9, <2>1 DEF Setup
  <2>4. StepInv'
    BY <1>9, <2>1 DEF Setup
  <2>5. CurrentInv'
    BY <1>9, <2>1 DEF Setup
  <2>6. QED BY <2>2, <2>3, <2>4, <2>5
<1>10. ASSUME SwitchAppend PROVE FilesInv'
  <2>1. length' \in [Numbers -> Nat]
    <3>1. length' = [length EXCEPT ![writer] = @ + 1]
      BY <1>10, Zenon DEF SwitchAppend
    <3>2. writer \in Numbers
      BY <1>10 DEF SwitchAppend
    <3>3. length[writer] \in Nat
      BY <3>2
    <3>4. QED BY <3>1, <3>2, <3>3
  <2>2. {switching', pending', done', ticked'} \subseteq BOOLEAN
    BY <1>10, Zenon DEF SwitchAppend
  <2>3. SegmentsTypeOK'
    BY <1>10, <2>1, <2>2 DEF SwitchAppend
  <2>4. CrashCostsOne' /\ StepInv' /\ CurrentInv'
    BY <1>10 DEF SwitchAppend
  <2>5. QED BY <2>3, <2>4
<1>11. ASSUME CleanupEncoder PROVE FilesInv'
  BY <1>11 DEF CleanupEncoder, Closed
<1>12. ASSUME EndFinalize PROVE FilesInv'
  <2>1. CASE cur # 0 /\ ~done /\ Renamed
    BY <1>12, <2>1, RenamedKeeps DEF EndFinalize
  <2>2. CASE UNCHANGED <<tsManager, name, length>>
    BY <1>12, <2>2 DEF EndFinalize
  <2>3. QED BY <1>12, <2>1, <2>2 DEF EndFinalize
<1>13. ASSUME EndPlaylist PROVE FilesInv'
  BY <1>13 DEF EndPlaylist, GeneratePlaylist
<1>14. ASSUME EndAppend PROVE FilesInv'
  BY <1>14 DEF EndAppend
<1>15. ASSUME EndMetadata PROVE FilesInv'
  BY <1>15 DEF EndMetadata
<1>16. ASSUME Destroy PROVE FilesInv'
  <2>1. CASE cur # 0 /\ ~done /\ Renamed /\ playlist' \in {playlist, segments'}
    BY <1>16, <2>1, RenamedKeeps DEF Destroy
  <2>2. CASE UNCHANGED <<tsManager, name, length, playlist>>
    BY <1>16, <2>2 DEF Destroy
  <2>3. QED BY <1>16, <2>1, <2>2 DEF Destroy
<1>17. ASSUME Crash PROVE FilesInv'
  BY <1>17 DEF Crash
<1>18. CASE UNCHANGED vars
  BY <1>18 DEF vars
<1>19. QED
  BY <1>1, <1>2, <1>3, <1>4, <1>5, <1>6, <1>7, <1>8, <1>9, <1>10, <1>11, <1>12, <1>13, <1>14, <1>15, <1>16, <1>17, <1>18 DEF SegmentsNext

\* The state keeps its types; a segment has its final name on disk exactly when
\* TSSegmentManager lists it, and none after the current one exists.
THEOREM TypeCorrect == SegmentsSpec => []SegmentsTypeOK
<1>1. FilesInv => SegmentsTypeOK
  BY DEF FilesInv
<1>2. QED BY InitHasFilesInv, StepKeepsFilesInv, <1>1, PTL DEF SegmentsSpec

\* Only the current segment is ever under a temporary name, whichever rename,
\* playlist or header failed before.
THEOREM CrashAlwaysCostsOne == SegmentsSpec => []CrashCostsOne
<1>1. FilesInv => CrashCostsOne
  BY DEF FilesInv
<1>2. QED BY InitHasFilesInv, StepKeepsFilesInv, <1>1, PTL DEF SegmentsSpec

\* What playlist.m3u8 names has its final name, and is written to only between
\* the rename and the trailer of a switch.
THEOREM PlaylistAlwaysTrue == SegmentsSpec => []PlaylistIsTrue
<1>1. FilesInv => PlaylistIsTrue
  <2> SUFFICES ASSUME FilesInv PROVE PlaylistIsTrue
    OBVIOUS
  <2>1. \A s \in playlist : s \in Numbers /\ name[s] = "final"
    BY DEF FilesInv, SegmentsTypeOK, CurrentInv
  <2>2. ASSUME writer \in playlist PROVE switching /\ step = "rotate"
    BY <2>1, <2>2 DEF FilesInv, SegmentsTypeOK, StepInv, CurrentInv, Numbers
  <2>3. QED BY <2>1, <2>2 DEF PlaylistIsTrue
<1>2. QED BY InitHasFilesInv, StepKeepsFilesInv, <1>1, PTL DEF SegmentsSpec

-----------------------------------------------------------------------------
(* The metadata *)

\* Entries stay true when more failures have been met.
LEMMA EntriesWeaken ==
    ASSUME NEW s, NEW bad, NEW worse, bad \subseteq worse, EntriesTrue(s, bad)
    PROVE  EntriesTrue(s, worse)
  BY DEF EntriesTrue, EntryTrue

\* addNewFileWithoutLock() of a closed segment with its length, or 0
LEMMA AddedIsTrue ==
    ASSUME NEW s, NEW bad, EntriesTrue(s, bad), NEW f \in segments, f # writer,
           NEW size \in {0, length[f]}, f \notin bad => size = length[f]
    PROVE  LET t == AddNewFile(s, f, size) IN
           EntriesTrue(t, bad) /\ DOMAIN t.files = DOMAIN s.files \cup {f}
<1> DEFINE t == AddNewFile(s, f, size)
           g == Put(s.files, f, Entry(size))
<1>1. /\ g = [z \in DOMAIN g |-> g[z]] /\ DOMAIN g = DOMAIN s.files \cup {f}
      /\ g[f] = Entry(size) /\ \A z \in DOMAIN s.files : z # f => g[z] = s.files[z]
  BY DEF Put
<1> HIDE DEF g
<1>2. t \in [files : {g}, total : {t.total}, completed : {FALSE}]
  BY DEF AddNewFile, EntriesTrue, g
<1>3. EntryTrue(Entry(size), length[f], f \notin bad)
  BY DEF EntryTrue, Entry
<1>4. t.files = g
  BY <1>2
<1>5. t \in [files : {t.files}, total : {t.total}, completed : {FALSE}]
  BY <1>2, <1>4
<1> HIDE DEF t
<1>6. QED BY <1>1, <1>3, <1>4, <1>5 DEF EntriesTrue, t

\* An entry may be replaced by a true one.
LEMMA ReplacedIsTrue ==
    ASSUME NEW s, NEW bad, EntriesTrue(s, bad), NEW f \in DOMAIN s.files,
           NEW e, EntryTrue(e, length[f], f \notin bad),
           NEW t, t \in [files : {[s.files EXCEPT ![f] = e]}, total : {t.total}, completed : {FALSE}]
    PROVE  EntriesTrue(t, bad) /\ DOMAIN t.files = DOMAIN s.files
<1> DEFINE g == [s.files EXCEPT ![f] = e]
<1>1. g = [z \in DOMAIN g |-> g[z]] /\ DOMAIN g = DOMAIN s.files
  BY DEF EntriesTrue
<1>2. g[f] = e /\ \A z \in DOMAIN g : z # f => g[z] = s.files[z]
  BY <1>1 DEF EntriesTrue
<1>3. t.files = g
  OBVIOUS
<1> HIDE DEF g
<1>4. t \in [files : {t.files}, total : {t.total}, completed : {FALSE}]
  BY DEF g
<1>5. QED BY <1>1, <1>2, <1>3, <1>4 DEF EntriesTrue

\* validateFileIntegrityWithoutLock() of a true entry: it is verified when the
\* file can be read, and with the right checksum whenever it is verified.
LEMMA ValidatedIsTrue ==
    ASSUME NEW e, NEW c \in Nat, NEW read \in BOOLEAN, EntryTrue(e, c, read),
           NEW size \in {0, c}, NEW digest \in {Absent, c}
    PROVE  LET v == Validate(e, c, size, digest) IN
           /\ EntryTrue(v, c, read)
           /\ v.status = "verified" => v.sum = c /\ v.size \in {0, c}
           /\ read /\ size = c /\ digest = c => v = [size |-> c, sum |-> c, status |-> "verified"]
<1> DEFINE v == Validate(e, c, size, digest)
           ok == [e EXCEPT !.sum = digest, !.status = "verified"]
           no == [e EXCEPT !.status = "corrupted"]
           un == [e EXCEPT !.status = "checksum_failed"]
           gone == [e EXCEPT !.status = "missing"]
<1>1. c # Absent /\ e.size \in {0, c} /\ e.sum \in {Absent, c} /\ (read => e.size = c)
  BY DEF EntryTrue, Absent
<1>2. v = IF c = Absent THEN gone
          ELSE IF size # e.size THEN no
          ELSE IF e.sum = Absent /\ digest = Absent THEN un
          ELSE IF e.sum \notin {Absent, digest} THEN no ELSE ok
  BY DEF Validate
<1>3. /\ ok \in [size : {e.size}, sum : {digest}, status : {"verified"}]
      /\ no \in [size : {e.size}, sum : {e.sum}, status : {"corrupted"}]
      /\ un \in [size : {e.size}, sum : {e.sum}, status : {"checksum_failed"}]
  BY DEF EntryTrue
<1> HIDE DEF v, ok, no, un, gone
<1>4. /\ v \in {no, un} \/ (v = ok /\ digest = c)
      /\ read /\ size = c /\ digest = c => v = ok
  BY <1>1, <1>2
<1>5. EntryTrue(v, c, read)
  BY <1>1, <1>3, <1>4 DEF EntryTrue
<1>6. ASSUME v.status = "verified" PROVE v.sum = c /\ v.size \in {0, c}
  <2>1. v = ok
    BY <1>3, <1>4, <1>6
  <2>2. QED BY <1>1, <1>3, <1>4, <2>1
<1>7. ASSUME read, size = c, digest = c PROVE v = [size |-> c, sum |-> c, status |-> "verified"]
  BY <1>1, <1>3, <1>4, <1>7
<1>8. QED BY <1>5, <1>6, <1>7 DEF v

\* appendFileToMetadata() of a closed segment leaves true entries, of this
\* segment too, and saves nothing that says completed.
LEMMA AppendedIsTrue ==
    ASSUME EntriesTrue(session, unread), NEW prefix, NEW f \in segments, f # writer,
           length[f] \in Nat, AppendFile(prefix, f, length[f])
    PROVE  /\ EntriesTrue(session', unread') /\ DOMAIN session'.files = DOMAIN session.files \cup {f}
           /\ \/ saved' = saved
              \/ \E s : s.completed = FALSE /\ saved' = Put(saved, prefix, s)
<1> DEFINE L == length[f]
<1>1. PICK stat, sum, again, check \in BOOLEAN :
         LET size == StatOf(L, stat)
             s == AddNewFile(session, f, size)
             t == MarkFileComplete(s, f, size, L, SumOf(L, sum)) IN
         /\ \/ /\ Save(prefix, s)
               /\ session' = [t EXCEPT !.files[f] = Validate(@, L, StatOf(L, again), SumOf(L, check))]
            \/ session' = s /\ UNCHANGED saved
         /\ unread' = IF stat /\ sum /\ again /\ check THEN unread ELSE unread \cup {f}
         /\ Cardinality(unread') <= MaxUnread
  BY DEF AppendFile
<1> DEFINE size == StatOf(L, stat)
           digest == SumOf(L, sum)
           now == StatOf(L, again)
           redigest == SumOf(L, check)
           s == AddNewFile(session, f, size)
           t == MarkFileComplete(s, f, size, L, digest)
           v == [t EXCEPT !.files[f] = Validate(@, L, now, redigest)]
<1>2. \/ Save(prefix, s) /\ session' = v
      \/ session' = s /\ UNCHANGED saved
  BY <1>1
<1>3. /\ L # Absent /\ size \in {0, L} /\ digest \in {Absent, L} /\ now \in {0, L} /\ redigest \in {Absent, L}
      /\ unread \subseteq unread' /\ (f \notin unread' => size = L)
  BY <1>1 DEF StatOf, SumOf, Absent
<1> HIDE DEF size, digest, now, redigest
<1>4. EntriesTrue(s, unread') /\ DOMAIN s.files = DOMAIN session.files \cup {f}
  <2>1. EntriesTrue(session, unread')
    BY <1>3, EntriesWeaken
  <2>2. QED BY <1>3, <2>1, AddedIsTrue
<1> HIDE DEF s
<1>5. EntriesTrue(t, unread') /\ DOMAIN t.files = DOMAIN s.files
  <2> DEFINE e == [size |-> IF size > 0 THEN size ELSE s.files[f].size, sum |-> digest,
                   status |-> IF digest = Absent THEN "checksum_failed" ELSE "verified"]
  <2>1. EntryTrue(s.files[f], L, f \notin unread')
    BY <1>4 DEF EntriesTrue
  <2>2. EntryTrue(e, L, f \notin unread')
    BY <1>3, <2>1 DEF EntryTrue
  <2>3. t \in [files : {[s.files EXCEPT ![f] = e]}, total : {t.total}, completed : {FALSE}]
    BY <1>3, <1>4 DEF MarkFileComplete, EntriesTrue
  <2> HIDE DEF e, t
  <2>4. QED BY <1>4, <2>2, <2>3, ReplacedIsTrue
<1> HIDE DEF t
<1>6. EntriesTrue(v, unread') /\ DOMAIN v.files = DOMAIN t.files
  <2> DEFINE e == Validate(t.files[f], L, now, redigest)
  <2>1. EntryTrue(t.files[f], L, f \notin unread')
    BY <1>4, <1>5 DEF EntriesTrue
  <2>2. EntryTrue(e, L, f \notin unread')
    BY <1>3, <2>1, ValidatedIsTrue
  <2>3. v \in [files : {[t.files EXCEPT ![f] = e]}, total : {v.total}, completed : {FALSE}]
    BY <1>5 DEF EntriesTrue
  <2> HIDE DEF v, e
  <2>4. QED BY <1>4, <1>5, <2>2, <2>3, ReplacedIsTrue
<1>7. s.completed = FALSE
  BY <1>4 DEF EntriesTrue
<1> HIDE DEF v
<1>8. QED BY <1>2, <1>4, <1>5, <1>6, <1>7 DEF Save

\* What is under a final name has its length.
LEMMA FinalContents ==
    ASSUME FilesInv, NEW f \in segments
    PROVE  f \in Numbers /\ Contents[f] = length[f] /\ length[f] \in Nat
  BY DEF FilesInv, SegmentsTypeOK, Contents, Numbers

\* The metadata is true in the first state.
LEMMA InitHasMetadataInv == SegmentsInit => MetadataInv
  BY DEF SegmentsInit, MetadataInit, MetadataInv

\* Where the session is open
Open == {"recording", "closed", "listing", "appending"}

\* True entries stay true when no listed segment is written to.
LEMMA EntriesStayTrue ==
    ASSUME EntriesTrue(session', unread'), segments \subseteq segments',
           \A f \in DOMAIN session'.files : f # writer' /\ length'[f] = length[f]
    PROVE  EntriesTrue(session, unread)'
  BY DEF EntriesTrue, EntryTrue

\* What is saved before the end does not say completed.
LEMMA SavedIsOpen ==
    ASSUME MetadataInv, rec \notin {"ended", "destroyed"}, rec' \notin {"ended", "destroyed"},
           \/ saved' = saved
           \/ \E p, s : s.completed = FALSE /\ saved' = Put(saved, p, s)
    PROVE  \A p \in DOMAIN saved' : saved'[p].completed \in BOOLEAN /\ ~saved'[p].completed
<1>1. \A p \in DOMAIN saved : saved[p].completed \in BOOLEAN /\ ~saved[p].completed
  BY DEF MetadataInv
<1>2. ASSUME NEW p, NEW s, s.completed = FALSE, saved' = Put(saved, p, s),
             NEW q \in DOMAIN saved'
      PROVE  saved'[q].completed \in BOOLEAN /\ ~saved'[q].completed
  <2>1. DOMAIN saved' = DOMAIN saved \cup {p}
    BY <1>2 DEF Put
  <2>2. CASE q = p
    BY <1>2, <2>1, <2>2 DEF Put
  <2>3. CASE q # p
    <3>1. q \in DOMAIN saved /\ saved'[q] = saved[q]
      BY <1>2, <2>1, <2>3 DEF Put
    <3>2. QED BY <1>1, <3>1
  <2>4. QED BY <2>2, <2>3
<1>3. QED BY <1>1, <1>2

\* A step that leaves the metadata alone while the session is open
LEMMA QuietKeepsMetadata ==
    ASSUME FilesInv, MetadataInv, UNCHANGED metadataVars,
           rec \notin {"ended", "destroyed"}, rec' \notin {"ended", "destroyed"},
           rec' \in Open => rec \in Open,
           segments \subseteq segments',
           \A f \in segments : f # writer => f # writer' /\ length'[f] = length[f],
           rec' = "appending" => segments' \subseteq todo'
    PROVE  MetadataInv'
<1>1. rec' \in Open => EntriesTrue(session, unread)'
  BY EntriesStayTrue DEF MetadataInv, metadataVars, EntriesTrue, Open
<1>2. \A p \in DOMAIN saved' : saved'[p].completed \in BOOLEAN /\ ~saved'[p].completed
  BY SavedIsOpen DEF metadataVars
<1>3. QED BY <1>1, <1>2 DEF MetadataInv, Open

\* Every step keeps the metadata true.
LEMMA StepKeepsMetadataInv ==
    FilesInv /\ FilesInv' /\ MetadataInv /\ [SegmentsNext]_vars => MetadataInv'
<1> SUFFICES ASSUME FilesInv, FilesInv', MetadataInv, [SegmentsNext]_vars PROVE MetadataInv'
  OBVIOUS
<1> USE DEF encoding, tsManager, disk
<1>1. ASSUME Start PROVE MetadataInv'
  <2> DEFINE s == [files |-> <<>>, total |-> 0, completed |-> FALSE]
  <2>1. session' = s /\ (saved' = saved \/ saved' = Put(saved, "start", s)) /\ rec = "idle" /\ rec' = "recording"
    BY <1>1 DEF Start, StartSession, Save
  <2>2. EntriesTrue(session, unread)'
    BY <2>1 DEF EntriesTrue
  <2>3. s.completed = FALSE
    OBVIOUS
  <2> HIDE DEF s
  <2>4. \A p \in DOMAIN saved' : saved'[p].completed \in BOOLEAN /\ ~saved'[p].completed
    BY <2>1, <2>3, SavedIsOpen
  <2>5. QED BY <2>1, <2>2, <2>4 DEF MetadataInv
<1>2. ASSUME InitializeEncoder PROVE MetadataInv'
  BY <1>2, QuietKeepsMetadata DEF InitializeEncoder, Open
<1>3. ASSUME RotationDue PROVE MetadataInv'
  BY <1>3, QuietKeepsMetadata DEF RotationDue, Open
<1>4. ASSUME WritePacket PROVE MetadataInv'
  <2>1. \A f \in segments : f # writer => length'[f] = length[f]
    BY <1>4 DEF WritePacket, FilesInv, SegmentsTypeOK
  <2>2. QED BY <1>4, <2>1, QuietKeepsMetadata DEF WritePacket, Open
<1>5. ASSUME SwitchToNewTSSegment PROVE MetadataInv'
  BY <1>5, QuietKeepsMetadata DEF SwitchToNewTSSegment, Open
<1>6. ASSUME FinalizeSegment PROVE MetadataInv'
  <2>1. rec = "recording"
    BY <1>6 DEF FinalizeSegment, FilesInv, StepInv
  <2>2. QED BY <1>6, <2>1, QuietKeepsMetadata DEF FinalizeSegment, Renamed, Open
<1>7. ASSUME UpdatePlaylist PROVE MetadataInv'
  <2>1. rec = "recording"
    BY <1>7 DEF UpdatePlaylist, FilesInv, StepInv
  <2>2. QED BY <1>7, <2>1, QuietKeepsMetadata DEF UpdatePlaylist, Open
<1>8. ASSUME Rotate PROVE MetadataInv'
  <2>1. rec = "recording"
    BY <1>8 DEF Rotate, FilesInv, StepInv
  <2>2. \A f \in segments : f # writer => f # writer' /\ length'[f] = length[f]
    BY <1>8 DEF Rotate, Closed, FilesInv, SegmentsTypeOK, Numbers
  <2>3. QED BY <1>8, <2>1, <2>2, QuietKeepsMetadata DEF Rotate, Open
<1>9. ASSUME Setup PROVE MetadataInv'
  <2>1. rec = "recording"
    BY <1>9 DEF Setup, FilesInv, StepInv
  <2>2. \A f \in segments : f # writer'
    BY <1>9, SegmentAssumption DEF Setup, FilesInv, SegmentsTypeOK, StepInv, CurrentInv, Numbers, Broken
  <2>3. QED BY <1>9, <2>1, <2>2, QuietKeepsMetadata DEF Setup, Open
<1>10. ASSUME SwitchAppend PROVE MetadataInv'
  <2> DEFINE last == CHOOSE s \in segments : \A r \in segments : r <= s
  <2>1. rec = "recording" /\ writer = cur /\ cur \notin segments /\ rec' = rec
    BY <1>10 DEF SwitchAppend, FilesInv, SegmentsTypeOK, StepInv, CurrentInv, Numbers
  <2>2. last \in segments
    <3>1. cur - 1 \in segments /\ cur \in Nat
      BY <1>10 DEF SwitchAppend, FilesInv, StepInv, SegmentsTypeOK
    <3>2. ASSUME NEW r \in segments PROVE r <= cur - 1
      BY <2>1, <3>1, <3>2 DEF FilesInv, SegmentsTypeOK, Numbers
    <3>3. QED BY <3>1, <3>2
  <2> HIDE DEF last
  <2>3. AppendFile(AppendPrefix, last, length[last])
    BY <1>10, <2>2, FinalContents DEF SwitchAppend, last
  <2>4. /\ EntriesTrue(session', unread')
        /\ \/ saved' = saved
           \/ \E s : s.completed = FALSE /\ saved' = Put(saved, AppendPrefix, s)
    BY <2>1, <2>2, <2>3, FinalContents, AppendedIsTrue DEF MetadataInv
  <2>5. \A f \in segments : f # writer' /\ length'[f] = length[f]
    BY <1>10, <2>1 DEF SwitchAppend, FilesInv, SegmentsTypeOK
  <2>6. EntriesTrue(session, unread)'
    BY <1>10, <2>4, <2>5, EntriesStayTrue DEF SwitchAppend, EntriesTrue
  <2>7. \A p \in DOMAIN saved' : saved'[p].completed \in BOOLEAN /\ ~saved'[p].completed
    BY <2>1, <2>4, SavedIsOpen
  <2>8. QED BY <2>1, <2>6, <2>7 DEF MetadataInv
<1>11. ASSUME CleanupEncoder PROVE MetadataInv'
  <2>1. \A f \in segments : f # writer => f # writer' /\ length'[f] = length[f]
    BY <1>11 DEF CleanupEncoder, Closed, FilesInv, SegmentsTypeOK, Numbers
  <2>2. QED BY <1>11, <2>1, QuietKeepsMetadata DEF CleanupEncoder, Open
<1>12. ASSUME EndFinalize PROVE MetadataInv'
  BY <1>12, QuietKeepsMetadata DEF EndFinalize, Renamed, Open
<1>13. ASSUME EndPlaylist PROVE MetadataInv'
  BY <1>13, QuietKeepsMetadata DEF EndPlaylist, Open
<1>14. ASSUME EndAppend PROVE MetadataInv'
  <2>1. PICK s \in todo : AppendFile(AppendPrefix, s, Contents[s]) /\ todo' = todo \ {s}
    BY <1>14 DEF EndAppend
  <2>2. s \in segments /\ rec = "appending" /\ rec' = rec /\ writer \notin segments
    BY <1>14, <2>1 DEF EndAppend, FilesInv, SegmentsTypeOK, CurrentInv
  <2>3. /\ EntriesTrue(session', unread') /\ DOMAIN session'.files = DOMAIN session.files \cup {s}
        /\ \/ saved' = saved
           \/ \E m : m.completed = FALSE /\ saved' = Put(saved, AppendPrefix, m)
    BY <2>1, <2>2, FinalContents, AppendedIsTrue DEF MetadataInv
  <2>4. EntriesTrue(session, unread)'
    BY <1>14, <2>3, EntriesStayTrue DEF EndAppend, EntriesTrue
  <2>5. \A p \in DOMAIN saved' : saved'[p].completed \in BOOLEAN /\ ~saved'[p].completed
    BY <2>2, <2>3, SavedIsOpen
  <2>6. segments' \subseteq DOMAIN session'.files \cup todo'
    BY <1>14, <2>1, <2>2, <2>3 DEF EndAppend, MetadataInv
  <2>7. QED BY <2>4, <2>5, <2>6 DEF MetadataInv
<1>15. ASSUME EndMetadata PROVE MetadataInv'
  <2>0. PICK noStat \in SUBSET DOMAIN session.files, noSum \in SUBSET DOMAIN session.files :
          LET m == [ValidateAll(session, Contents, noStat, noSum) EXCEPT !.completed = TRUE] IN
          (Save("start", m) \/ UNCHANGED saved) /\ unread' = unread \cup noStat \cup noSum
    BY <1>15, Zenon DEF EndMetadata, EndSession
  <2> DEFINE v == ValidateAll(session, Contents, noStat, noSum)
             s == [v EXCEPT !.completed = TRUE]
             Checked(f) == Validate(session.files[f], Contents[f], StatOf(Contents[f], f \notin noStat),
                                    SumOf(Contents[f], f \notin noSum))
  <2>1. rec = "appending" /\ rec' = "ended" /\ (saved' = saved \/ saved' = Put(saved, "start", s))
    BY <1>15, <2>0 DEF EndMetadata, Save
  <2>2. EntriesTrue(session, unread) /\ DOMAIN session.files = segments
    BY <1>15, <2>1 DEF EndMetadata, MetadataInv, EntriesTrue
  <2>3. v \in [files : {[f \in DOMAIN session.files |-> Checked(f)]},
              total : {session.total}, completed : {FALSE}]
    BY <2>2 DEF ValidateAll, EntriesTrue
  <2> HIDE DEF v
  <2>4. s.completed = TRUE /\ s.files = [f \in DOMAIN session.files |-> Checked(f)]
    BY <2>3
  <2> HIDE DEF s
  <2>5. ASSUME NEW f \in segments
        PROVE  CheckedTrue(s.files[f], length[f], f \notin unread')
    <3> DEFINE L == length[f]
               size == StatOf(L, f \notin noStat)
               digest == SumOf(L, f \notin noSum)
    <3>1. EntryTrue(session.files[f], L, f \notin unread) /\ Contents[f] = L /\ L \in Nat
      BY <2>2, FinalContents DEF EntriesTrue
    <3>2. /\ size \in {0, L} /\ digest \in {Absent, L}
          /\ f \notin unread' => f \notin unread /\ size = L /\ digest = L
      BY <2>0, <3>1 DEF StatOf, SumOf, Absent
    <3>3. s.files[f] = Validate(session.files[f], L, size, digest)
      BY <2>2, <2>4, <3>1
    <3> HIDE DEF size, digest
    <3>4. LET w == Validate(session.files[f], L, size, digest) IN
          /\ w.status = "verified" => w.sum = L /\ w.size \in {0, L}
          /\ f \notin unread /\ size = L /\ digest = L =>
               w = [size |-> L, sum |-> L, status |-> "verified"]
      <4> DEFINE read == f \notin unread
                 e == session.files[f]
      <4>1. read \in BOOLEAN /\ EntryTrue(e, L, read)
        BY <3>1
      <4> HIDE DEF L, read, e
      <4>2. LET w == Validate(e, L, size, digest) IN
            /\ w.status = "verified" => w.sum = L /\ w.size \in {0, L}
            /\ read /\ size = L /\ digest = L => w = [size |-> L, sum |-> L, status |-> "verified"]
        BY <3>1, <3>2, <4>1, ValidatedIsTrue
      <4>3. QED BY <4>2 DEF read, e
    <3>5. QED BY <3>2, <3>3, <3>4 DEF CheckedTrue
  <2>6. ASSUME NEW p, saved'[p] = s PROVE FilesTrue(saved[p])'
    <3>1. segments' = segments /\ length' = length
      BY <1>15 DEF EndMetadata
    <3>2. DOMAIN s.files = segments
      BY <2>2, <2>4
    <3>3. QED BY <2>5, <2>6, <3>1, <3>2 DEF FilesTrue
  <2>7. \A p \in DOMAIN saved : saved[p].completed \in BOOLEAN /\ ~saved[p].completed
    BY <2>1 DEF MetadataInv
  <2>8. ASSUME NEW p \in DOMAIN saved'
        PROVE  /\ saved'[p].completed \in BOOLEAN
               /\ saved'[p].completed => saved'[p] = s
    <3>1. CASE saved' = saved
      BY <2>7, <3>1
    <3>2. CASE saved' = Put(saved, "start", s)
      BY <2>4, <2>7, <3>2 DEF Put
    <3>3. QED BY <2>1, <3>1, <3>2
  <2>9. \A p \in DOMAIN saved' : saved'[p].completed \in BOOLEAN
    BY <2>8
  <2>10. ASSUME NEW p \in DOMAIN saved', saved'[p].completed
         PROVE  rec' \in {"ended", "destroyed"} /\ FilesTrue(saved[p])'
    BY <2>1, <2>6, <2>8, <2>10
  <2>11. QED BY <2>1, <2>9, <2>10 DEF MetadataInv
<1>16. ASSUME Destroy PROVE MetadataInv'
  <2>1. rec = "ended" /\ rec' = "destroyed" /\ saved' = saved /\ length' = length /\ segments \subseteq segments'
        /\ unread' = unread
    BY <1>16 DEF Destroy, Renamed, metadataVars
  <2>2. QED BY <2>1 DEF MetadataInv, FilesTrue, CheckedTrue
<1>17. ASSUME Crash PROVE MetadataInv'
  <2>1. rec \notin {"ended", "destroyed"} /\ rec' = "dead" /\ saved' = saved
    BY <1>17 DEF Crash, metadataVars
  <2>2. QED BY <2>1 DEF MetadataInv
<1>18. CASE UNCHANGED vars
  <2>1. /\ rec' = rec /\ session' = session /\ saved' = saved /\ todo' = todo /\ unread' = unread
        /\ segments' = segments /\ writer' = writer /\ length' = length
    BY <1>18 DEF vars, metadataVars
  <2>2. rec' \in Open => EntriesTrue(session, unread)'
    BY <2>1, EntriesStayTrue DEF MetadataInv, Open, EntriesTrue
  <2>3. \A p \in DOMAIN saved : FilesTrue(saved[p]) => FilesTrue(saved[p])'
    BY <2>1 DEF FilesTrue, CheckedTrue
  <2>4. QED BY <2>1, <2>2, <2>3 DEF MetadataInv, Open
<1>19. QED
  BY <1>1, <1>2, <1>3, <1>4, <1>5, <1>6, <1>7, <1>8, <1>9, <1>10, <1>11, <1>12, <1>13, <1>14, <1>15, <1>16, <1>17, <1>18 DEF SegmentsNext

\* True entries are what FilesAreTrue asks for.
LEMMA FilesTrueOfInv == FilesInv /\ MetadataInv => FilesAreTrue
<1> SUFFICES ASSUME FilesInv, MetadataInv, NEW p \in DOMAIN saved, saved[p].completed
             PROVE  /\ DOMAIN saved[p].files = segments \/ rec = "destroyed"
                    /\ \A s \in DOMAIN saved[p].files : TrueEntry(saved[p].files[s], s)
  BY DEF FilesAreTrue
<1>1. FilesTrue(saved[p])
  BY DEF MetadataInv
<1>2. QED BY <1>1, FinalContents DEF FilesTrue, CheckedTrue, TrueEntry

\* Metadata that says completed has an entry for every segment with a final
\* name, although every append and save may fail and a rotated segment is
\* appended twice: endSession() verifies what could always be read, with its
\* length and checksum, and where a stat or a checksum has failed it calls
\* nothing verified whose checksum is not that of the file.
THEOREM FilesAlwaysTrue == SegmentsSpec => []FilesAreTrue
<1>1. SegmentsInit => FilesInv /\ MetadataInv
  BY InitHasFilesInv, InitHasMetadataInv
<1>2. FilesInv /\ MetadataInv /\ [SegmentsNext]_vars => FilesInv' /\ MetadataInv'
  BY StepKeepsFilesInv, StepKeepsMetadataInv
<1>3. QED BY <1>1, <1>2, FilesTrueOfInv, PTL DEF SegmentsSpec

-----------------------------------------------------------------------------
(* The sum of the sizes, a fold of the community modules.  An induction over *)
(* the files is an argument about a least counterexample.                    *)

\* A set of naturals has a least element.
LEMMA LeastNumber ==
    ASSUME NEW T \in SUBSET Nat, T # {}
    PROVE  \E x \in T : \A y \in T : x <= y
<1> DEFINE R == OpToRel(<, Nat)
<1>1. IsWellFoundedOn(R, Nat)
  BY NatLessThanWellFounded
<1>2. \A x, y \in Nat : y < x => <<y, x>> \in R
  BY DEF OpToRel
<1> HIDE DEF R
<1>3. PICK x \in T : \A y \in T : ~(<<y, x>> \in R)
  BY <1>1, WFMin
<1>4. ASSUME NEW y \in T PROVE x <= y
  <2>1. x \in Nat /\ y \in Nat
    OBVIOUS
  <2>2. ~(y < x)
    BY <1>2, <1>3, <2>1, Zenon
  <2>3. QED BY <2>1, <2>2
<1>5. QED BY <1>4

\* Subsets of a finite set that have something wrong with them have one with
\* which it is right for everything smaller.
LEMMA LeastSubset ==
    ASSUME NEW S, IsFiniteSet(S), NEW B \in SUBSET SUBSET S, B # {}
    PROVE  \E s \in B : \A t \in SUBSET s : t # s => t \notin B
<1> DEFINE T == {Cardinality(s) : s \in B}
<1>1. \A s \in B : IsFiniteSet(s) /\ Cardinality(s) \in Nat
  BY FS_Subset, FS_CardinalityType
<1>2. T \in SUBSET Nat /\ T # {}
  BY <1>1
<1>3. PICK n \in T : \A m \in T : n <= m
  BY <1>2, LeastNumber
<1>4. PICK s \in B : n = Cardinality(s)
  BY <1>3
<1>5. ASSUME NEW t \in SUBSET s, t # s, t \in B PROVE FALSE
  <2>1. Cardinality(t) <= Cardinality(s) /\ (Cardinality(t) = Cardinality(s) => t = s)
    BY <1>1, FS_Subset
  <2>2. Cardinality(t) \in T
    BY <1>5
  <2>3. QED BY <1>1, <1>3, <1>4, <1>5, <2>1, <2>2
<1>6. QED BY <1>5

\* The element a fold takes next
First(s) == CHOOSE x \in s : TRUE

\* What a fold of + that takes the elements of s in its own order gives
SumFirst(g, f, s) == IF s = {} THEN 0 ELSE f[First(s)] + g[s \ {First(s)}]

\* g holds the sum of f over every subset of S.
Sums(g, f, S) == g = [s \in SUBSET S |-> SumFirst(g, f, s)]

Sum(f, S) == FoldFunctionOnSet(+, 0, f, S)

LEMMA SumUnfolds ==
    ASSUME NEW f, NEW S
    PROVE  Sum(f, S) = (CHOOSE g : Sums(g, f, S))[S]
  BY Zenon DEF Sum, Sums, SumFirst, FoldFunctionOnSet, MapThenFoldSet, First

\* The recursive function of the fold exists: up to a number of elements, and
\* so for all of them.
LEMMA SumsUpTo ==
    ASSUME NEW f, NEW S, IsFiniteSet(S), NEW n \in Nat
    PROVE  \E g : \A s \in SUBSET S : Cardinality(s) <= n => g[s] = SumFirst(g, f, s)
<1> DEFINE P(m) == \E g : \A s \in SUBSET S : Cardinality(s) <= m => g[s] = SumFirst(g, f, s)
           T == {m \in Nat : ~P(m)}
<1>1. SUFFICES ASSUME T # {} PROVE FALSE
  OBVIOUS
<1>2. PICK m \in T : \A k \in T : m <= k
  <2>1. T \in SUBSET Nat
    OBVIOUS
  <2> HIDE DEF T
  <2>2. QED BY <1>1, <2>1, LeastNumber
<1>3. \A s \in SUBSET S : IsFiniteSet(s) /\ Cardinality(s) \in Nat /\ (Cardinality(s) = 0 <=> s = {})
  BY FS_Subset, FS_CardinalityType, FS_EmptySet
<1>4. m # 0
  <2> DEFINE g == [s \in SUBSET S |-> 0]
  <2>1. \A s \in SUBSET S : Cardinality(s) <= 0 => g[s] = SumFirst(g, f, s)
    BY <1>3 DEF SumFirst
  <2>2. P(0)
    BY <2>1
  <2>3. QED BY <2>2
<1>5. m - 1 \in Nat /\ ~(m <= m - 1)
  BY <1>4
<1>6. P(m - 1)
  BY <1>2, <1>5
<1>7. PICK g : \A s \in SUBSET S : Cardinality(s) <= m - 1 => g[s] = SumFirst(g, f, s)
  BY <1>6
<1> DEFINE h == [s \in SUBSET S |-> SumFirst(g, f, s)]
<1>8. ASSUME NEW s \in SUBSET S, Cardinality(s) <= m PROVE h[s] = SumFirst(h, f, s)
  <2>1. CASE s = {}
    BY <2>1 DEF SumFirst
  <2>2. CASE s # {}
    <3> DEFINE t == s \ {First(s)}
    <3>1. First(s) \in s
      BY <2>2 DEF First
    <3>2. t \in SUBSET S /\ Cardinality(t) = Cardinality(s) - 1
      BY <1>3, <3>1, FS_RemoveElement
    <3>3. Cardinality(t) <= m - 1
      BY <1>3, <1>8, <3>2
    <3>4. g[t] = SumFirst(g, f, t)
      BY <1>7, <3>2, <3>3
    <3>5. h[t] = g[t]
      BY <3>2, <3>4
    <3>6. QED BY <2>2, <3>5 DEF SumFirst
  <2>3. QED BY <2>1, <2>2
<1> HIDE DEF h
<1>9. P(m)
  BY <1>8
<1>10. QED BY <1>9

\* The fold has such a function.
LEMMA SumsExist ==
    ASSUME NEW f, NEW S, IsFiniteSet(S)
    PROVE  \E g : Sums(g, f, S) /\ Sum(f, S) = g[S]
<1>1. PICK g : \A s \in SUBSET S : Cardinality(s) <= Cardinality(S) => g[s] = SumFirst(g, f, s)
  <2>1. Cardinality(S) \in Nat
    BY FS_CardinalityType
  <2>2. QED BY <2>1, SumsUpTo, Zenon
<1>2. \A s \in SUBSET S : g[s] = SumFirst(g, f, s)
  BY <1>1, FS_Subset
<1> DEFINE h == [s \in SUBSET S |-> g[s]]
<1>3. ASSUME NEW s \in SUBSET S PROVE SumFirst(g, f, s) = SumFirst(h, f, s)
  BY DEF SumFirst
<1>4. h = [s \in SUBSET S |-> SumFirst(h, f, s)]
  BY <1>2, <1>3
<1> HIDE DEF h
<1>5. Sums(h, f, S)
  BY <1>4 DEF Sums
<1>6. Sums(CHOOSE k : Sums(k, f, S), f, S)
  BY <1>5
<1>7. QED BY <1>6, SumUnfolds

\* It does not matter which element is taken first.
Numeric(f, S) == \A x \in S : f[x] \in Int

InAnyOrder(g, f, S) ==
    \A s \in SUBSET S : g[s] \in Int /\ \A x \in s : g[s] = f[x] + g[s \ {x}]

LEMMA SumsInAnyOrder ==
    ASSUME NEW f, NEW S, IsFiniteSet(S), Numeric(f, S), NEW g, Sums(g, f, S)
    PROVE  InAnyOrder(g, f, S)
<1> USE DEF Numeric
<1> DEFINE P(s) == g[s] \in Int /\ \A x \in s : g[s] = f[x] + g[s \ {x}]
           B == {s \in SUBSET S : ~P(s)}
<1>1. SUFFICES ASSUME B # {} PROVE FALSE
  BY DEF InAnyOrder
<1>2. PICK s \in B : \A t \in SUBSET s : t # s => t \notin B
  <2>1. B \in SUBSET SUBSET S
    OBVIOUS
  <2> HIDE DEF B
  <2>2. QED BY <1>1, <2>1, LeastSubset
<1>3. s \in SUBSET S /\ ~P(s) /\ \A t \in SUBSET s : t # s => P(t)
  BY <1>2
<1>4. g[s] = SumFirst(g, f, s)
  BY <1>3 DEF Sums
<1>5. s # {}
  BY <1>3, <1>4 DEF SumFirst
<1> DEFINE p == First(s)
<1>6. p \in s /\ g[s] = f[p] + g[s \ {p}]
  BY <1>4, <1>5 DEF SumFirst, First
<1> HIDE DEF p
<1>7. ASSUME NEW x \in s PROVE g[s \ {x}] \in Int /\ f[x] \in Int
  <2>1. P(s \ {x})
    BY <1>3
  <2>2. QED BY <1>3, <2>1
<1>8. ASSUME NEW x \in s PROVE g[s] = f[x] + g[s \ {x}]
  <2>1. CASE x = p
    BY <1>6, <2>1
  <2>2. CASE x # p
    <3>1. P(s \ {x}) /\ P(s \ {p})
      BY <1>3, <1>6
    <3>2. (s \ {x}) \ {p} = (s \ {p}) \ {x}
      OBVIOUS
    <3>3. g[s \ {x}] = f[p] + g[(s \ {p}) \ {x}]
      BY <1>6, <2>2, <3>1, <3>2
    <3>4. g[s \ {p}] = f[x] + g[(s \ {p}) \ {x}]
      BY <2>2, <3>1
    <3>5. g[(s \ {p}) \ {x}] \in Int
      BY <1>3, <1>6
    <3>6. QED BY <1>6, <1>7, <3>3, <3>4, <3>5
  <2>3. QED BY <2>1, <2>2
<1>9. g[s] \in Int
  BY <1>6, <1>7
<1>10. QED BY <1>3, <1>8, <1>9

\* Sums of equal values are equal.
LEMMA SumsAgree ==
    ASSUME NEW S, IsFiniteSet(S), NEW f, NEW e, \A x \in S : f[x] = e[x],
           NEW g, Sums(g, f, S), NEW R, S \subseteq R, NEW h, Sums(h, e, R)
    PROVE  g[S] = h[S]
<1> DEFINE B == {s \in SUBSET S : g[s] # h[s]}
<1>1. SUFFICES ASSUME B # {} PROVE FALSE
  OBVIOUS
<1>2. PICK s \in B : \A t \in SUBSET s : t # s => t \notin B
  <2>1. B \in SUBSET SUBSET S
    OBVIOUS
  <2> HIDE DEF B
  <2>2. QED BY <1>1, <2>1, LeastSubset
<1>3. s \in SUBSET S /\ s \in SUBSET R /\ g[s] # h[s]
  BY <1>2
<1>4. g[s] = SumFirst(g, f, s) /\ h[s] = SumFirst(h, e, s)
  BY <1>3 DEF Sums
<1>5. CASE s = {}
  BY <1>3, <1>4, <1>5 DEF SumFirst
<1>6. CASE s # {}
  <2>1. First(s) \in s
    BY <1>6 DEF First
  <2>2. g[s \ {First(s)}] = h[s \ {First(s)}]
    BY <1>2, <1>3, <2>1
  <2>3. QED BY <1>3, <1>4, <2>1, <2>2 DEF SumFirst
<1>7. QED BY <1>5, <1>6

\* The sum over no files is 0; one more file adds its size; and the sum depends
\* on nothing but the sizes.
LEMMA SumOfNone ==
    ASSUME NEW f
    PROVE  Sum(f, {}) = 0
<1>1. PICK g : Sums(g, f, {}) /\ Sum(f, {}) = g[{}]
  BY SumsExist, FS_EmptySet
<1>2. g[{}] = SumFirst(g, f, {})
  BY <1>1 DEF Sums
<1>3. QED BY <1>1, <1>2 DEF SumFirst

LEMMA SumOfEqual ==
    ASSUME NEW S, IsFiniteSet(S), NEW f, NEW e, \A x \in S : f[x] = e[x]
    PROVE  Sum(f, S) = Sum(e, S)
<1>1. PICK g : Sums(g, f, S) /\ Sum(f, S) = g[S]
  BY SumsExist
<1>2. PICK h : Sums(h, e, S) /\ Sum(e, S) = h[S]
  BY SumsExist
<1>3. g[S] = h[S]
  BY <1>1, <1>2, SumsAgree
<1>4. QED BY <1>1, <1>2, <1>3

LEMMA SumOfOneMore ==
    ASSUME NEW S, IsFiniteSet(S), NEW x, x \notin S, NEW f, Numeric(f, S \cup {x})
    PROVE  Sum(f, S \cup {x}) = Sum(f, S) + f[x] /\ Sum(f, S) \in Int
<1> DEFINE R == S \cup {x}
<1>1. IsFiniteSet(R) /\ R \ {x} = S /\ S \subseteq R /\ x \in R
  BY FS_AddElement
<1> HIDE DEF R
<1>2. PICK g : Sums(g, f, S) /\ Sum(f, S) = g[S]
  BY SumsExist
<1>3. PICK h : Sums(h, f, R) /\ Sum(f, R) = h[R]
  BY <1>1, SumsExist
<1>4. g[S] = h[S]
  BY <1>1, <1>2, <1>3, SumsAgree
<1>5. Numeric(f, R)
  BY DEF R, Numeric
<1>6. InAnyOrder(h, f, R)
  BY <1>1, <1>3, <1>5, SumsInAnyOrder
<1>7. h[R] = f[x] + h[S] /\ h[S] \in Int
  BY <1>1, <1>6 DEF InAnyOrder
<1>8. f[x] \in Int
  BY <1>1, <1>5 DEF Numeric
<1>9. QED BY <1>2, <1>3, <1>4, <1>7, <1>8 DEF R
-----------------------------------------------------------------------------
(* The total *)

\* The running total of a session is the sum of the lengths of its files, as
\* long as all of them could be read.
TotalTrue(s) == s.total = Sum(length, DOMAIN s.files)

TotalInv ==
    unread = {} =>
    /\ rec \in Open => TotalTrue(session)
    /\ \A p \in DOMAIN saved : saved[p].completed => TotalTrue(saved[p])

\* Segments have lengths that can be summed.
LEMMA SegmentsAreNumeric ==
    ASSUME FilesInv, NEW S \in SUBSET segments
    PROVE  IsFiniteSet(S) /\ Numeric(length, S)
<1>1. IsFiniteSet(Numbers) /\ S \subseteq Numbers
  BY SegmentAssumption, FS_Interval DEF Numbers, FilesInv, SegmentsTypeOK
<1>2. Numeric(length, S)
  BY <1>1 DEF Numeric, FilesInv, SegmentsTypeOK
<1>3. QED BY <1>1, <1>2, FS_Subset

\* A total stays true when no listed file changes its length.
LEMMA TotalStaysTrue ==
    ASSUME FilesInv, NEW s, TotalTrue(s), DOMAIN s.files \subseteq segments,
           \A f \in DOMAIN s.files : length'[f] = length[f]
    PROVE  s.total = Sum(length', DOMAIN s.files)
<1> DEFINE D == DOMAIN s.files
<1>1. IsFiniteSet(D)
  BY SegmentsAreNumeric
<1>2. \A f \in D : length[f] = length'[f]
  OBVIOUS
<1>3. s.total = Sum(length, D)
  BY DEF TotalTrue
<1> HIDE DEF D
<1>4. Sum(length, D) = Sum(length', D)
  BY <1>1, <1>2, SumOfEqual
<1>5. QED BY <1>3, <1>4 DEF D

\* appendFileToMetadata() counts a segment once, however often it is appended
\* and whether or not the save succeeds.
LEMMA AppendedTotal ==
    ASSUME FilesInv, EntriesTrue(session, unread), TotalTrue(session), NEW prefix, NEW f \in segments,
           f # writer, AppendFile(prefix, f, length[f]), unread' = {}
    PROVE  session'.total = Sum(length, DOMAIN session'.files)
<1> DEFINE L == length[f]
           D == DOMAIN session.files
           s == AddNewFile(session, f, L)
           t == MarkFileComplete(s, f, L, L, L)
           v == [t EXCEPT !.files[f] = Validate(@, L, L, L)]
<1>1. L \in Nat /\ StatOf(L, TRUE) = L /\ SumOf(L, TRUE) = L /\ L # Absent
  BY FinalContents DEF Absent, StatOf, SumOf
<1>2. session' = v \/ session' = s
  <2>1. PICK stat, sum, again, check \in BOOLEAN :
          LET size == StatOf(L, stat)
              a == AddNewFile(session, f, size)
              m == MarkFileComplete(a, f, size, L, SumOf(L, sum)) IN
          /\ \/ session' = [m EXCEPT !.files[f] = Validate(@, L, StatOf(L, again), SumOf(L, check))]
             \/ session' = a
          /\ unread' = IF stat /\ sum /\ again /\ check THEN unread ELSE unread \cup {f}
    BY Zenon DEF AppendFile
  <2>2. stat = TRUE /\ sum = TRUE /\ again = TRUE /\ check = TRUE
    BY <2>1
  <2>3. QED BY <1>1, <2>1, <2>2
<1>3. EntriesTrue(s, unread) /\ DOMAIN s.files = D \cup {f} /\ D \subseteq segments
  <2>1. EntriesTrue(s, unread) /\ DOMAIN s.files = D \cup {f}
    BY <1>1, AddedIsTrue
  <2>2. D \subseteq segments
    BY DEF EntriesTrue
  <2>3. QED BY <2>1, <2>2
<1>4. session.total = Sum(length, D)
  BY DEF TotalTrue
<1>5. s.total = Sum(length, D \cup {f}) /\ s.total \in Int
  <2>1. s.total = IF f \in D THEN session.total ELSE session.total + L
    BY DEF AddNewFile, EntriesTrue
  <2> HIDE DEF s
  <2>2. IsFiniteSet(D) /\ IsFiniteSet(D \ {f}) /\ Numeric(length, D \cup {f}) /\ Numeric(length, (D \ {f}) \cup {f})
    <3>1. D \in SUBSET segments /\ D \ {f} \in SUBSET segments
          /\ D \cup {f} \in SUBSET segments /\ (D \ {f}) \cup {f} \in SUBSET segments
      BY <1>3
    <3> HIDE DEF D
    <3>2. QED BY <3>1, SegmentsAreNumeric
  <2>3. CASE f \in D
    <3>1. D \cup {f} = D /\ (D \ {f}) \cup {f} = D
      BY <2>3
    <3>2. Sum(length, (D \ {f}) \cup {f}) = Sum(length, D \ {f}) + L /\ Sum(length, D \ {f}) \in Int
      <4>1. f \notin D \ {f}
        OBVIOUS
      <4> HIDE DEF D
      <4>2. QED BY <2>2, <4>1, SumOfOneMore
    <3>3. Sum(length, D) \in Int
      <4> DEFINE rest == Sum(length, D \ {f})
      <4>1. L \in Nat /\ Sum(length, D) = rest + L /\ rest \in Int
        BY <1>1, <3>1, <3>2
      <4> HIDE DEF D, L, rest
      <4>2. QED BY <4>1
    <3>4. s.total = Sum(length, D)
      BY <1>4, <2>1, <2>3
    <3> HIDE DEF D
    <3>5. QED BY <3>1, <3>3, <3>4
  <2>4. CASE f \notin D
    <3> HIDE DEF D
    <3>1. Sum(length, D \cup {f}) = Sum(length, D) + L /\ Sum(length, D) \in Int
      BY <2>2, <2>4, SumOfOneMore
    <3>2. QED BY <1>1, <1>4, <2>1, <2>4, <3>1 DEF D
  <2>5. QED BY <2>3, <2>4
<1>6. f \in DOMAIN s.files /\ s.files[f].size = L
  BY <1>3 DEF AddNewFile, Put, Entry, EntriesTrue
<1>7. v.total = s.total /\ DOMAIN v.files = DOMAIN s.files
  <2> HIDE DEF s
  <2>1. t.total = (IF L > 0 THEN s.total + L - s.files[f].size ELSE s.total) /\ DOMAIN t.files = DOMAIN s.files
    BY <1>3 DEF MarkFileComplete, EntriesTrue
  <2>2. t.total = s.total
    BY <1>1, <1>5, <1>6, <2>1
  <2>3. v.total = t.total /\ DOMAIN v.files = DOMAIN t.files
    <3>1. t \in [files : {t.files}, total : {t.total}, completed : {FALSE}]
      BY <1>3 DEF MarkFileComplete, EntriesTrue
    <3> HIDE DEF t
    <3>2. QED BY <3>1
  <2>4. QED BY <2>1, <2>2, <2>3
<1> HIDE DEF s, v, D
<1>8. QED BY <1>2, <1>3, <1>5, <1>7

\* Every step keeps the totals true.
LEMMA StepKeepsTotalInv ==
    ASSUME FilesInv, MetadataInv, MetadataInv', TotalInv, [SegmentsNext]_vars
    PROVE  TotalInv'
<1> USE DEF encoding, tsManager, disk
<1>0. unread \subseteq unread'
  <2>1. ASSUME NEW prefix, NEW f, NEW content, AppendFile(prefix, f, content) PROVE unread \subseteq unread'
    BY <2>1 DEF AppendFile
  <2>2. ASSUME EndSession("start", Contents) PROVE unread \subseteq unread'
    BY <2>2 DEF EndSession
  <2>3. ASSUME unread' = unread PROVE unread \subseteq unread'
    BY <2>3
  <2>4. QED
    BY <2>1, <2>2, <2>3
    DEF SegmentsNext, vars, metadataVars, Start, StartSession, InitializeEncoder, RotationDue, WritePacket,
        SwitchToNewTSSegment, FinalizeSegment, UpdatePlaylist, Rotate, Setup, SwitchAppend,
        CleanupEncoder, EndFinalize, EndPlaylist, EndAppend, EndMetadata, Destroy, Crash
<1> SUFFICES ASSUME unread' = {} PROVE TotalInv'
  BY DEF TotalInv
<1>01. unread = {}
  BY <1>0
<1> DEFINE Ended == rec' \in {"ended", "destroyed"}
<1>1. ASSUME ~Ended, rec' \in Open => TotalTrue(session)' PROVE TotalInv'
  BY <1>1 DEF MetadataInv, TotalInv
<1>2. ASSUME UNCHANGED metadataVars, ~Ended, rec' \in Open => rec \in Open,
             \A f \in segments : f # writer => length'[f] = length[f]
      PROVE  TotalInv'
  <2>1. ASSUME rec' \in Open PROVE TotalTrue(session)'
    <3>1. EntriesTrue(session, unread) /\ TotalTrue(session) /\ session' = session
      BY <1>01, <1>2, <2>1 DEF MetadataInv, TotalInv, Open, metadataVars
    <3>2. session.total = Sum(length', DOMAIN session.files)
      BY <1>2, <3>1, TotalStaysTrue DEF EntriesTrue
    <3>3. QED BY <3>1, <3>2 DEF TotalTrue
  <2>2. QED BY <1>1, <1>2, <2>1
<1>3. ASSUME Start PROVE TotalInv'
  <2> DEFINE s == [files |-> <<>>, total |-> 0, completed |-> FALSE]
  <2>1. session' = s /\ rec' = "recording"
    BY <1>3 DEF Start, StartSession
  <2>2. s.total = 0 /\ DOMAIN s.files = {}
    OBVIOUS
  <2> HIDE DEF s
  <2>3. TotalTrue(session)'
    BY <2>1, <2>2, SumOfNone DEF TotalTrue
  <2>4. QED BY <1>1, <2>1, <2>3
<1>4. ASSUME SwitchAppend PROVE TotalInv'
  <2> DEFINE last == CHOOSE s \in segments : \A r \in segments : r <= s
  <2>1. rec = "recording" /\ writer = cur /\ cur \notin segments /\ rec' = rec
    BY <1>4 DEF SwitchAppend, FilesInv, SegmentsTypeOK, StepInv, CurrentInv, Numbers
  <2>2. last \in segments
    <3>1. cur - 1 \in segments /\ cur \in Nat
      BY <1>4 DEF SwitchAppend, FilesInv, StepInv, SegmentsTypeOK
    <3>2. ASSUME NEW r \in segments PROVE r <= cur - 1
      BY <2>1, <3>1, <3>2 DEF FilesInv, SegmentsTypeOK, Numbers
    <3>3. QED BY <3>1, <3>2
  <2> HIDE DEF last
  <2>3. AppendFile(AppendPrefix, last, length[last])
    BY <1>4, <2>2, FinalContents DEF SwitchAppend, last
  <2>4. EntriesTrue(session, unread) /\ TotalTrue(session)
    BY <1>01, <2>1 DEF MetadataInv, TotalInv, Open
  <2>5. session'.total = Sum(length, DOMAIN session'.files)
    BY <2>1, <2>2, <2>3, <2>4, AppendedTotal
  <2>6. DOMAIN session'.files = DOMAIN session.files \cup {last} /\ DOMAIN session.files \subseteq segments
    <3>1. length[last] \in Nat
      BY <2>2, FinalContents
    <3>2. QED BY <2>1, <2>2, <2>3, <2>4, <3>1, AppendedIsTrue DEF EntriesTrue
  <2>7. \A f \in DOMAIN session'.files : length'[f] = length[f]
    BY <1>4, <2>1, <2>2, <2>6 DEF SwitchAppend, FilesInv, SegmentsTypeOK
  <2>8. TotalTrue(session')
    BY <2>5 DEF TotalTrue
  <2>9. session'.total = Sum(length', DOMAIN session'.files)
    BY <2>2, <2>6, <2>7, <2>8, TotalStaysTrue
  <2>10. QED BY <1>1, <2>1, <2>9 DEF TotalTrue
<1>5. ASSUME EndAppend PROVE TotalInv'
  <2>1. PICK s \in todo : AppendFile(AppendPrefix, s, Contents[s])
    BY <1>5 DEF EndAppend
  <2>2. s \in segments /\ rec = "appending" /\ rec' = rec /\ s # writer /\ length' = length
    BY <1>5, <2>1 DEF EndAppend, FilesInv, SegmentsTypeOK, CurrentInv
  <2>3. EntriesTrue(session, unread) /\ TotalTrue(session)
    BY <1>01, <2>2 DEF MetadataInv, TotalInv, Open
  <2>4. AppendFile(AppendPrefix, s, length[s])
    BY <2>1, <2>2, FinalContents
  <2>5. session'.total = Sum(length, DOMAIN session'.files)
    BY <2>2, <2>3, <2>4, AppendedTotal
  <2>6. QED BY <1>1, <2>2, <2>5 DEF TotalTrue
<1>6. ASSUME EndMetadata PROVE TotalInv'
  <2>0. PICK noStat \in SUBSET DOMAIN session.files, noSum \in SUBSET DOMAIN session.files :
          LET m == [ValidateAll(session, Contents, noStat, noSum) EXCEPT !.completed = TRUE] IN
          Save("start", m) \/ UNCHANGED saved
    BY <1>6, Zenon DEF EndMetadata, EndSession
  <2> DEFINE s == [ValidateAll(session, Contents, noStat, noSum) EXCEPT !.completed = TRUE]
  <2>1. rec = "appending" /\ rec' = "ended" /\ (saved' = saved \/ saved' = Put(saved, "start", s))
        /\ length' = length
    BY <1>6, <2>0 DEF EndMetadata, Save
  <2>2. EntriesTrue(session, unread) /\ TotalTrue(session)
    BY <1>01, <2>1 DEF MetadataInv, TotalInv, Open
  <2>3. s.total = session.total /\ DOMAIN s.files = DOMAIN session.files
    BY <2>2 DEF ValidateAll, EntriesTrue
  <2> HIDE DEF s
  <2>4. \A p \in DOMAIN saved : ~saved[p].completed
    BY <2>1 DEF MetadataInv
  <2>5. ASSUME NEW p \in DOMAIN saved', saved'[p].completed PROVE saved'[p] = s
    <3>1. CASE saved' = saved
      BY <2>4, <2>5, <3>1
    <3>2. CASE saved' = Put(saved, "start", s)
      BY <2>4, <2>5, <3>2 DEF Put
    <3>3. QED BY <2>1, <3>1, <3>2
  <2>6. ASSUME NEW p \in DOMAIN saved', saved'[p].completed PROVE TotalTrue(saved[p])'
    BY <2>1, <2>2, <2>3, <2>5, <2>6 DEF TotalTrue
  <2>7. QED BY <2>1, <2>6 DEF TotalInv, Open
<1>7. ASSUME rec \in {"ended", "destroyed"}, Ended, saved' = saved, length' = length PROVE TotalInv'
  <2>1. ASSUME NEW p \in DOMAIN saved', saved'[p].completed PROVE TotalTrue(saved[p])'
    <3>1. TotalTrue(saved[p])
      BY <1>01, <1>7, <2>1 DEF TotalInv
    <3>2. QED BY <1>7, <3>1 DEF TotalTrue
  <2>2. QED BY <1>7, <2>1 DEF TotalInv, Open
<1>8. ASSUME InitializeEncoder \/ RotationDue \/ SwitchToNewTSSegment \/ FinalizeSegment
             \/ UpdatePlaylist \/ Setup \/ EndFinalize \/ EndPlaylist \/ Crash
      PROVE  TotalInv'
  <2>1. UNCHANGED metadataVars /\ (rec' \in Open => rec \in Open) /\ ~Ended /\ length' = length
    BY <1>8 DEF InitializeEncoder, RotationDue, SwitchToNewTSSegment, FinalizeSegment, UpdatePlaylist,
                Setup, EndFinalize, EndPlaylist, Crash, Renamed, Open, FilesInv, StepInv
  <2>2. QED BY <1>2, <2>1
<1>9. ASSUME WritePacket \/ Rotate \/ CleanupEncoder PROVE TotalInv'
  <2>1. \A f \in segments : f # writer => length'[f] = length[f]
    BY <1>9 DEF WritePacket, Rotate, CleanupEncoder, Closed, FilesInv, SegmentsTypeOK, Numbers
  <2>2. UNCHANGED metadataVars /\ (rec' \in Open => rec \in Open) /\ ~Ended
    BY <1>9 DEF WritePacket, Rotate, CleanupEncoder, Open, FilesInv, StepInv
  <2>3. QED BY <1>2, <2>1, <2>2
<1>10. ASSUME Destroy PROVE TotalInv'
  <2>1. rec = "ended" /\ rec' = "destroyed" /\ saved' = saved /\ length' = length
    BY <1>10 DEF Destroy, Renamed, metadataVars
  <2>2. QED BY <1>7, <2>1
<1>11. CASE UNCHANGED vars
  <2>1. rec' = rec /\ UNCHANGED metadataVars /\ length' = length /\ saved' = saved
    BY <1>11 DEF vars, metadataVars
  <2>2. CASE Ended
    BY <1>7, <2>1, <2>2
  <2>3. CASE ~Ended
    BY <1>2, <2>1, <2>3
  <2>4. QED BY <2>2, <2>3
<1>12. QED
  BY <1>3, <1>4, <1>5, <1>6, <1>8, <1>9, <1>10, <1>11 DEF SegmentsNext

\* Metadata that says completed is true as a whole: FilesAlwaysTrue, and its
\* total is the sum of the sizes it lists.  A segment is counted by
\* addNewFileWithoutLock() when it is new and corrected by
\* markFileCompleteWithoutLock(), and neither an append that is repeated when
\* the recording stops nor one whose save failed counts it twice; that holds
\* while no stat has failed.
THEOREM MetadataAlwaysTrue == SegmentsSpec => []MetadataIsTrue
<1> DEFINE AllInv == FilesInv /\ MetadataInv /\ TotalInv
<1>1. AllInv => FilesAreTrue
  BY FilesTrueOfInv
<1>2. AllInv => \A p \in DOMAIN saved : saved[p].completed /\ unread = {} =>
         saved[p].total = FoldFunction(+, 0, [s \in DOMAIN saved[p].files |-> saved[p].files[s].size])
  <2> SUFFICES ASSUME AllInv, NEW p \in DOMAIN saved, saved[p].completed, unread = {}
               PROVE  saved[p].total = FoldFunction(+, 0, [s \in DOMAIN saved[p].files |-> saved[p].files[s].size])
    OBVIOUS
  <2> DEFINE D == DOMAIN saved[p].files
             size == [s \in D |-> saved[p].files[s].size]
  <2>1. D \subseteq segments /\ \A s \in D : length[s] = size[s]
    <3>1. FilesTrue(saved[p])
      BY DEF MetadataInv
    <3>2. \A s \in D : saved[p].files[s] = [size |-> length[s], sum |-> length[s], status |-> "verified"]
      BY <3>1 DEF FilesTrue, CheckedTrue
    <3>3. D \subseteq segments
      BY <3>1 DEF FilesTrue
    <3>4. ASSUME NEW s \in D PROVE length[s] = size[s]
      <4>1. size[s] = saved[p].files[s].size
        OBVIOUS
      <4>2. saved[p].files[s] = [size |-> length[s], sum |-> length[s], status |-> "verified"]
        BY <3>2
      <4>3. QED BY <4>1, <4>2
    <3>5. QED BY <3>3, <3>4
  <2>2. saved[p].total = Sum(length, D) /\ DOMAIN size = D
    BY DEF TotalInv, TotalTrue
  <2>3. FoldFunction(+, 0, size) = Sum(size, DOMAIN size)
    BY Zenon DEF FoldFunction, Sum
  <2> HIDE DEF D, size
  <2>4. IsFiniteSet(D)
    BY <2>1, SegmentsAreNumeric
  <2>5. Sum(length, D) = Sum(size, D)
    BY <2>1, <2>4, SumOfEqual
  <2>6. saved[p].total = FoldFunction(+, 0, size)
    BY <2>2, <2>3, <2>5
  <2>7. QED BY <2>6 DEF size, D
<1>3. SegmentsInit => AllInv
  <2>1. SegmentsInit => TotalInv
    BY DEF SegmentsInit, MetadataInit, TotalInv, Open
  <2>2. QED BY <2>1, InitHasFilesInv, InitHasMetadataInv
<1>4. AllInv /\ [SegmentsNext]_vars => AllInv'
  BY StepKeepsFilesInv, StepKeepsMetadataInv, StepKeepsTotalInv
<1> HIDE DEF AllInv
<1>5. AllInv => MetadataIsTrue
  BY <1>1, <1>2 DEF MetadataIsTrue
<1>6. QED BY <1>3, <1>4, <1>5, PTL DEF SegmentsSpec

=============================================================================
