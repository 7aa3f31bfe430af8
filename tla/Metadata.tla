------------------------------- MODULE Metadata -------------------------------
(***************************************************************************)
(* MetadataManager (src/src/metadata_manager.cpp) for one task: the files  *)
(* of the session with their sizes, checksums and integrity, and the JSON  *)
(* files it is saved to.  A checksum is the content it was taken of, and   *)
(* the content of a file that only grows is its length.  A size is 0 when  *)
(* stat fails, a checksum is empty when the file cannot be read.  Saving   *)
(* may fail; it replaces a JSON file as a whole (atomicWriteMetadata()).   *)
(***************************************************************************)
EXTENDS Integers, Functions, FiniteSets

CONSTANT MaxUnread      \* bound: files of which a stat or a checksum fails

VARIABLES
    session,    \* the entry of activeSessions_, or NoSession
    saved,      \* the JSON files: prefix -> what was serialized last
    unread      \* the files of which a stat or a checksum has failed

metadataVars == <<session, saved, unread>>

Absent == -1            \* the length of a file that does not exist; no checksum
NoSession == "none"

\* A map after m[k] = v
Put(m, k, v) == [x \in DOMAIN m \cup {k} |-> IF x = k THEN v ELSE m[x]]

MetadataInit == session = NoSession /\ saved = <<>> /\ unread = {}

-----------------------------------------------------------------------------
Entry(size) == [size |-> size, sum |-> Absent, status |-> "unknown"]

\* addNewFileWithoutLock(): an entry of the same name is replaced.
AddNewFile(s, f, size) ==
    [s EXCEPT !.files = Put(@, f, Entry(size)),
              !.total = IF f \in DOMAIN s.files THEN @ ELSE @ + size]

\* The size that stat gives of a file, and the checksum that
\* calculateSHA256() does, when they succeed and when they do not
StatOf(content, ok) == IF ok /\ content # Absent THEN content ELSE 0
SumOf(content, ok) == IF ok THEN content ELSE Absent

\* markFileCompleteWithoutLock(): the final size, and a first checksum.
MarkFileComplete(s, f, finalSize, content, digest) ==
    [s EXCEPT !.total = IF finalSize > 0 THEN @ + finalSize - s.files[f].size ELSE @,
              !.files[f] = [size |-> IF finalSize > 0 THEN finalSize ELSE @.size,
                            sum |-> IF content = Absent THEN @.sum ELSE digest,
                            status |-> IF content = Absent THEN "missing"
                                       ELSE IF digest = Absent THEN "checksum_failed" ELSE "verified"]]

\* validateFileIntegrityWithoutLock(): size first, then the checksum, which is
\* taken here if there is none yet.
Validate(e, content, size, digest) ==
    IF content = Absent THEN [e EXCEPT !.status = "missing"]
    ELSE IF size # e.size THEN [e EXCEPT !.status = "corrupted"]
    ELSE IF e.sum = Absent /\ digest = Absent THEN [e EXCEPT !.status = "checksum_failed"]
    ELSE IF e.sum \notin {Absent, digest} THEN [e EXCEPT !.status = "corrupted"]
    ELSE [e EXCEPT !.sum = digest, !.status = "verified"]

\* validateAllFilesIntegrityWithoutLock(), with the contents on disk and the
\* files whose stat and whose checksum fail
ValidateAll(s, disk, noStat, noSum) ==
    [s EXCEPT !.files = [f \in DOMAIN @ |->
        Validate(@[f], disk[f], StatOf(disk[f], f \notin noStat), SumOf(disk[f], f \notin noSum))]]

\* saveSessionMetadataWithoutLock()
Save(prefix, s) == saved' = Put(saved, prefix, s)

-----------------------------------------------------------------------------
\* startSession(): with a first JSON file, if that can be written.
StartSession(prefix) ==
    LET s == [files |-> <<>>, total |-> 0, completed |-> FALSE] IN
    /\ session' = s
    /\ Save(prefix, s) \/ UNCHANGED saved
    /\ UNCHANGED unread

\* Mutant: a file that is known is added again.
AppendTwice(prefix, f, content) ==
    LET size == StatOf(content, TRUE)
        s == [AddNewFile(session, f, size) EXCEPT !.total = session.total + size] IN
    Save(prefix, s) /\ session' = s /\ UNCHANGED unread

\* appendFileToMetadata() for a segment, whose size the caller has asked for:
\* saved first, completed and checked after.
AppendFile(prefix, f, content) ==
    \E stat, sum, again, check \in BOOLEAN :
       LET size == StatOf(content, stat)
           s == AddNewFile(session, f, size)
           t == MarkFileComplete(s, f, size, content, SumOf(content, sum)) IN
       /\ \/ /\ Save(prefix, s)
             /\ session' = [t EXCEPT !.files[f] =
                              Validate(@, content, StatOf(content, again), SumOf(content, check))]
          \/ session' = s /\ UNCHANGED saved
       /\ unread' = IF stat /\ sum /\ again /\ check THEN unread ELSE unread \cup {f}
       /\ Cardinality(unread') <= MaxUnread

\* endSession(): every file is checked again before the last save.
EndSession(prefix, disk) ==
    \E noStat, noSum \in SUBSET DOMAIN session.files :
       LET s == [ValidateAll(session, disk, noStat, noSum) EXCEPT !.completed = TRUE] IN
       /\ session' = NoSession
       /\ Save(prefix, s) \/ UNCHANGED saved
       /\ unread' = unread \cup noStat \cup noSum /\ Cardinality(unread') <= MaxUnread
===============================================================================
