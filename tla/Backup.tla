------------------------------- MODULE Backup -------------------------------
(***************************************************************************)
(* Backups of a project: a tar archive of the files of its state directory *)
(* and of the shared catalog and registry, taken file by file while the    *)
(* broker goes on working, and unpacked entry by entry.  A file is its     *)
(* version; the database is a file of commits and a log of later ones,     *)
(* which a checkpoint moves into the file.  An entry is a header with the  *)
(* size that the file had when it was opened and whatever is then read to  *)
(* the end of the file: one that changes meanwhile is archived in no       *)
(* version, and one whose size changes takes what follows it along.        *)
(***************************************************************************)
EXTENDS Integers, FiniteSets, Sequences, SequencesExt

CONSTANTS
    Plain,        \* documents, manifests, configuration, segments of a local Qdrant
    Images,       \* files below images/
    Caches,       \* model caches and the raft state of a local Qdrant
    Shared,       \* catalog.db and the registry in the home directory
    Db, Wal,      \* state.db and state.db-wal
    MaxCommits,   \* bound on the commits
    MaxEdits,     \* bound on the changes of other files
    MaxBackups,   \* bound on backups
    MaxRestores,  \* bound on restores
    NoArchive

ASSUME BackupAssumption ==
    /\ {MaxCommits, MaxEdits, MaxBackups, MaxRestores} \subseteq Nat
    /\ \A s, t \in {Plain, Images, Caches, Shared} : s = t \/ s \cap t = {}
    /\ Plain # {} /\ Db # Wal /\ {Db, Wal} \cap (Plain \union Images \union Caches \union Shared) = {}

Saved == Plain \union Images \union Caches \union Shared \union {Db, Wal}
Database == {Db, Wal}
Versions == 0 .. MaxCommits + MaxEdits + 1   \* 0: no file, or a database or log without commits
Foreign == -1                                \* what the target held before
Mixed == -2                                  \* what was read while it changed: a version or parts of several

VARIABLES
    live,       \* the files of the project
    commits,    \* commits of the state store
    edits,      \* changes of other files so far
    archive,    \* the file at the output path
    backup,     \* the backup that is being made
    restore,    \* the restore that is being made
    target      \* the files of the project restored into

backupVars == <<live, commits, edits, archive, backup, restore, target>>

NoBackup == [phase |-> "none", made |-> 0]
NoRestore == [phase |-> "none", made |-> 0]

BackupInit ==
    /\ live \in [Saved -> {0, 1}] /\ live[Db] = 0 /\ live[Wal] = 0
    /\ \A f \in Plain \union Caches \union Shared : live[f] = 1
    /\ commits = 0 /\ edits = 0
    /\ archive \in {NoArchive, [entries |-> << <<CHOOSE f \in Plain : TRUE, 1>> >>, manifest |-> "older",
                               whole |-> TRUE, damaged |-> {}]}
    /\ backup = NoBackup /\ restore = NoRestore
    /\ target \in {[f \in Saved |-> 0], [f \in Saved |-> IF f \in Plain \union {Db, Wal} THEN Foreign ELSE 0]}

-----------------------------------------------------------------------------
(* The project goes on; what it does after the last backup is in no archive.*)
Walking == backup.phase = "walking"
Working == restore.phase = "none" /\ (Walking \/ (backup.phase = "none" /\ backup.made < MaxBackups))

(* The file that is being read, where it is one of those changed in place.  *)
BeingRead(files) == IF Walking /\ backup.reading # <<>> THEN {backup.reading[1]} \intersect files ELSE {}

CommitState ==
    /\ Working /\ commits < MaxCommits
    /\ commits' = commits + 1 /\ live' = [live EXCEPT ![Wal] = commits + 1]
    /\ backup' = IF Walking THEN [backup EXCEPT !.touched = @ \union BeingRead({Wal})] ELSE backup
    /\ UNCHANGED <<edits, archive, restore, target>>

Checkpoint ==
    /\ Working /\ live[Wal] # 0
    /\ live' = [live EXCEPT ![Db] = live[Wal], ![Wal] = 0]
    /\ backup' = IF Walking THEN [backup EXCEPT !.checkpointed = TRUE, !.touched = @ \union BeingRead(Database)]
                 ELSE backup
    /\ UNCHANGED <<commits, edits, archive, restore, target>>

(* A file is written in place, replaced by a rename, or deleted: who reads  *)
(* it goes on reading what it was in the latter two.                        *)
EditFile(f) ==
    /\ Working /\ f \notin Database \union Caches /\ edits < MaxEdits
    /\ edits' = edits + 1
    /\ \/ /\ live' = [live EXCEPT ![f] = edits + 2]
          /\ \/ UNCHANGED backup
             \/ backup' = IF Walking THEN [backup EXCEPT !.touched = @ \union BeingRead({f})] ELSE backup
       \/ /\ live[f] # 0 /\ live' = [live EXCEPT ![f] = 0]
          /\ backup' = IF Walking THEN [backup EXCEPT !.gone = @ \union {f}] ELSE backup
    /\ UNCHANGED <<commits, archive, restore, target>>

-----------------------------------------------------------------------------
(* create_backup.  The file at the output path is truncated first.          *)
MutShouldSkip(f, images) == f \in Caches \union Images   \* images whatever was asked for
ShouldSkip(f, images) == f \in Caches \/ (f \in Images /\ ~images)

CreateBackup(images) ==
    /\ backup.phase = "none" /\ backup.made < MaxBackups /\ restore.phase = "none"
    /\ \E f \in Saved \ Shared : live[f] # 0
    /\ archive' = [entries |-> <<>>, manifest |-> "none", whole |-> FALSE, damaged |-> {}]
    /\ backup' = [phase |-> "walking", made |-> backup.made + 1, images |-> images,
                  left |-> {f \in Saved : ~ShouldSkip(f, images)}, reading |-> <<>>, began |-> live,
                  gone |-> {}, touched |-> {}, commits |-> commits, checkpointed |-> FALSE]
    /\ UNCHANGED <<live, commits, edits, restore, target>>

(* append_file opens a file and takes its size: files in the order of the   *)
(* directory, the shared ones at the end.  Of the database, what has no     *)
(* commits is a file or is none.                                            *)
AppendOpens(f) ==
    /\ Walking /\ backup.reading = <<>> /\ f \in backup.left
    /\ f \in Shared => backup.left \subseteq Shared
    /\ \E present \in BOOLEAN :
          /\ f \notin Database \/ live[f] # 0 => present = (live[f] # 0)
          /\ backup' = [backup EXCEPT !.left = @ \ {f}, !.reading = IF present THEN <<f, live[f]>> ELSE <<>>]
    /\ UNCHANGED <<live, commits, edits, archive, restore, target>>

(* It is read to its end.  An entry that is longer or shorter than its      *)
(* header says is damaged.                                                  *)
AppendStreams ==
    /\ Walking /\ backup.reading # <<>>
    /\ LET changed == backup.reading[1] \in backup.touched IN
       \E resized \in BOOLEAN :
          /\ resized => changed
          /\ archive' = [archive EXCEPT
                !.entries = Append(@, IF changed THEN <<backup.reading[1], Mixed>> ELSE backup.reading),
                !.damaged = @ \union (IF resized THEN {Len(archive.entries) + 1} ELSE {})]
    /\ backup' = [backup EXCEPT !.reading = <<>>]
    /\ UNCHANGED <<live, commits, edits, restore, target>>

AppendManifest ==
    /\ Walking /\ backup.left = {} /\ backup.reading = <<>>
    /\ archive' = [archive EXCEPT !.manifest = "current", !.whole = TRUE]
    /\ backup' = [backup EXCEPT !.phase = "done"]
    /\ UNCHANGED <<live, commits, edits, restore, target>>

(* An error drops the writers, which finish the archive; a crash does not.  *)
BackupBreaks(whole) ==
    /\ Walking
    /\ archive' = [archive EXCEPT !.whole = whole]
    /\ backup' = [NoBackup EXCEPT !.made = backup.made]
    /\ UNCHANGED <<live, commits, edits, restore, target>>

-----------------------------------------------------------------------------
(* restore_backup.  What a backup was asked for is over by then.            *)
Occupied == \E f \in Saved \ Shared : target[f] # 0

RestoreBackup(overwrite) ==
    /\ restore.phase # "unpacking" /\ restore.made < MaxRestores /\ backup.phase # "walking"
    /\ archive # NoArchive
    /\ restore' = [phase |-> IF Occupied /\ ~overwrite THEN "refused" ELSE "unpacking",
                   made |-> restore.made + 1, rest |-> archive.entries, before |-> target, warned |-> Occupied]
    /\ backup' = [NoBackup EXCEPT !.made = backup.made]
    /\ UNCHANGED <<live, commits, edits, archive, target>>

(* How many entries have been passed, and whether the last of them was      *)
(* damaged: what comes next is then not the header of the next entry.       *)
Passed == Len(archive.entries) - Len(restore.rest)
Astray == Passed \in archive.damaged

(* A damaged entry may have taken some of what follows it along.            *)
UnpackEntry ==
    /\ restore.phase = "unpacking" /\ restore.rest # <<>>
    /\ target' = [target EXCEPT ![Head(restore.rest)[1]] = Head(restore.rest)[2]]
    /\ restore' = [restore EXCEPT !.rest = Tail(@)]
    /\ UNCHANGED <<live, commits, edits, archive, backup>>

UnpackPassesOver ==
    /\ restore.phase = "unpacking" /\ Astray
    /\ \E n \in 1 .. Len(restore.rest) : restore' = [restore EXCEPT !.rest = SubSeq(@, n + 1, Len(@))]
    /\ UNCHANGED <<live, commits, edits, archive, backup, target>>

(* The manifest is the last entry, and the end of the archive comes last:   *)
(* what they tell comes after everything has been unpacked.  After a        *)
(* damaged entry zeros may be taken for the end.                            *)
RestoreEnds ==
    /\ restore.phase = "unpacking"
    /\ \/ /\ restore.rest = <<>>
          /\ restore' = [restore EXCEPT
                !.phase = IF archive.whole /\ archive.manifest # "older" THEN "ok" ELSE "failed",
                !.warned = @ \/ archive.manifest = "none"]
       \/ Astray /\ restore' = [restore EXCEPT !.phase = "ok", !.warned = TRUE]
    /\ UNCHANGED <<live, commits, edits, archive, backup, target>>

RestoreBreaks ==
    /\ restore.phase = "unpacking"
    /\ restore' = [restore EXCEPT !.phase = "failed"]
    /\ UNCHANGED <<live, commits, edits, archive, backup, target>>

BackupNext ==
    \/ CommitState \/ Checkpoint
    \/ \E f \in Saved : EditFile(f) \/ AppendOpens(f)
    \/ \E choice \in BOOLEAN : CreateBackup(choice) \/ BackupBreaks(choice) \/ RestoreBackup(choice)
    \/ AppendStreams \/ AppendManifest
    \/ UnpackEntry \/ UnpackPassesOver \/ RestoreEnds \/ RestoreBreaks

BackupSpec == BackupInit /\ [][BackupNext]_backupVars

-----------------------------------------------------------------------------
BackupTypeOK ==
    /\ live \in [Saved -> Versions] /\ commits \in 0 .. MaxCommits /\ edits \in 0 .. MaxEdits
    /\ archive = NoArchive \/ archive.manifest \in {"none", "current", "older"}
    /\ backup.phase \in {"none", "walking", "done"}
    /\ restore.phase \in {"none", "unpacking", "ok", "failed", "refused"}
    /\ target \in [Saved -> Versions \union {Foreign, Mixed}]

InArchive(f) == \E k \in DOMAIN archive.entries : archive.entries[k][1] = f
Archived(f) == IF InArchive(f) THEN archive.entries[CHOOSE k \in DOMAIN archive.entries : archive.entries[k][1] = f][2] ELSE 0

(* What SQLite reads from a database and its log: all commits of the log,   *)
(* unless the file is ahead of it.                                          *)
ReadBack(db, log) == IF log = 0 THEN db ELSE IF db > log THEN Foreign ELSE log

(* A backup that was answered has every file that was there all along and   *)
(* is not left out on purpose; those that nobody changed in place while     *)
(* they were read are in a version they had meanwhile, and it is damaged by *)
(* no other.  So are the database and its log: unless a checkpoint fell     *)
(* into it, they have every commit acknowledged before it began.            *)
BackupIsCurrent ==
    backup.phase = "done" =>
      /\ \A f \in Saved \ Database :
           /\ backup.began[f] # 0 /\ f \notin backup.gone /\ f \notin Caches /\ (f \in Images => backup.images) =>
                InArchive(f)
           /\ InArchive(f) => f \notin Caches /\ (f \in Images => backup.images)
           /\ InArchive(f) /\ f \notin backup.touched =>
                Archived(f) >= backup.began[f] /\ (live[f] # 0 => Archived(f) <= live[f])
      /\ \A k \in archive.damaged : archive.entries[k][1] \in backup.touched
      /\ ~backup.checkpointed /\ Database \intersect backup.touched = {} =>
            ReadBack(Archived(Db), Archived(Wal)) >= backup.commits

(* A restore that answers Ok has put every file of the archive in place and *)
(* left the others; without a warning the archive had a manifest that this  *)
(* version understands and the target was empty, so that it reads back what *)
(* was saved.  Of an archive with a damaged entry that is so of the files   *)
(* up to it; those behind it are as archived or as before.  One that is     *)
(* refused has touched nothing.                                             *)
RestoreIsExact ==
    /\ restore.phase = "ok" => \A f \in Saved :
         LET restored == IF InArchive(f) THEN Archived(f) ELSE restore.before[f] IN
         \/ target[f] = restored
         \/ /\ InArchive(f) /\ target[f] = restore.before[f]
            /\ \E k \in archive.damaged : \A j \in 1 .. k : archive.entries[j][1] # f
    /\ restore.phase = "ok" /\ ~restore.warned =>
         /\ archive.manifest = "current"
         /\ archive.damaged = {} => ReadBack(target[Db], target[Wal]) = ReadBack(Archived(Db), Archived(Wal))
    /\ restore.phase = "refused" => target = restore.before
BackupsAreFaithful == BackupIsCurrent /\ RestoreIsExact
=============================================================================
