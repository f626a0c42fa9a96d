-------------------------- MODULE MCStores_proofs --------------------------
(***************************************************************************)
(* The proofs about the stores taken together: a behaviour of MCStores is  *)
(* one of each of them, so that what is proved of a store holds there, and *)
(* the variables of all keep their types.                                  *)
(***************************************************************************)
EXTENDS MCStores, StateStores_proofs, Stores_proofs

-----------------------------------------------------------------------------
(* Records and vectors: their invariants say what the variables hold.       *)
LEMMA RowsAreTyped == RowSpec => []RowTypeOK
<1>1. RowInv => RowTypeOK
  <2> SUFFICES ASSUME RowInv PROVE RowTypeOK
    OBVIOUS
  <2>1. RowShape
    BY DEF RowInv
  <2>2. \A w \in Writers : call[w].phase \in {"idle", "lookup", "write"}
    BY <2>1 DEF RowShape, Calls, Idle
  <2>3. /\ db.rows \in [Keys -> Row \union {NoRow}]
        /\ db.zset \in [Keys -> 0 .. MaxTick] /\ db.text \in [Keys -> Labels \union {0}]
    BY <2>1 DEF RowShape, RowDb
  <2> QED BY <2>1, <2>2, <2>3 DEF RowShape, RowTypeOK
<1> QED BY <1>1, RowsAlwaysHold, PTL

LEMMA VectorsAreTyped == VecSpec => []VecTypeOK
<1>1. VecInv => VecTypeOK
  BY DEF VecInv, VecShape
<1> QED BY <1>1, VectorsAreInvariant, PTL

-----------------------------------------------------------------------------
(* The graph: what its invariant leaves open are the vectors and the bounds.*)
GraphBounds ==
    /\ entityVectors \in [Names -> SUBSET Chunks] /\ relationVectors \subseteq Edge
    /\ steps \in 0 .. MaxSteps /\ mishaps \subseteq {"overlap", "torn"}

LEMMA VectorsOfAGraph ==
    ASSUME GraphBounds, NEW g \in Graph
    PROVE  /\ UpsertEntityVectors(g) \in [Names -> SUBSET Chunks]
           /\ UpsertRelationVectors(g) \subseteq Edge
<1>1. SaveToFile(g).relations \subseteq Edge
  BY SavedIsFileContent DEF FileContent
<1> QED BY <1>1 DEF GraphBounds, Graph, UpsertEntityVectors, UpsertRelationVectors

LEMMA GraphBoundsStep == GraphInv /\ GraphBounds /\ [GraphNext]_graphVars => GraphBounds'
<1> SUFFICES ASSUME GraphInv, GraphBounds, [GraphNext]_graphVars
             PROVE  GraphBounds'
  OBVIOUS
<1>0. MaxSteps \in Nat
  BY KnowledgeGraphAssumption
<1>1. CASE UNCHANGED graphVars
  BY <1>1 DEF graphVars, GraphBounds
<1>2. ASSUME NEW x \in Extractors, NEW enabled \in BOOLEAN, ExtractStart(x, enabled)
      PROVE  GraphBounds'
  BY <1>0, <1>2 DEF ExtractStart, GraphBounds
<1>3. ASSUME NEW x \in Extractors, SaveTruncates(x) \/ SaveWrites(x) \/ SaveFails(x) \/ ExtractReload(x)
      PROVE  GraphBounds'
  BY <1>3 DEF SaveTruncates, SaveWrites, SaveFails, ExtractReload, GraphBounds
<1>4. ASSUME NEW x \in Extractors, NEW first \in ExtractOne, NEW more \in ExtractOne, ExtractChunk(x, first, more)
      PROVE  GraphBounds'
  BY <1>4 DEF ExtractChunk, GraphBounds
<1>5. ASSUME NEW x \in Extractors, NEW entities \in BOOLEAN, NEW relations \in BOOLEAN,
             ExtractInstall(x, entities, relations)
      PROVE  GraphBounds'
  <2>1. extractor[x].graph \in Graph
    BY <1>5 DEF GraphInv, GraphShape, ExtractInstall, Done, Asked, Loaded
  <2> QED BY <1>5, <2>1, VectorsOfAGraph DEF ExtractInstall, GraphBounds
<1>6. CASE BuildLoads \/ BuildInserts \/ ProcessStops
  BY <1>0, <1>6 DEF BuildLoads, BuildInserts, ProcessStops, GraphBounds
<1>7. ASSUME NEW held \in SUBSET Chunks, BuildsLocal(held) \/ Reindex(held)
      PROVE  GraphBounds'
  BY <1>0, <1>7 DEF BuildsLocal, Reindex, GraphBounds
<1> QED BY <1>1, <1>2, <1>3, <1>4, <1>5, <1>6, <1>7 DEF GraphNext

LEMMA GraphsAreTyped == GraphSpec => []GraphTypeOK
<1>1. GraphInit => GraphBounds
  BY KnowledgeGraphAssumption DEF GraphInit, GraphBounds, NewGraph
<1>2. GraphInv /\ GraphBounds => GraphTypeOK
  <2> SUFFICES ASSUME GraphInv, GraphBounds PROVE GraphTypeOK
    OBVIOUS
  <2>1. GraphShape
    BY DEF GraphInv
  <2>2. \A x \in Extractors : extractor[x].phase \in {"idle", "asking", "saving", "saved", "loaded"}
    BY <2>1 DEF GraphShape, Done, Asked, Loaded
  <2>3. builder.phase \in {"idle", "loaded"}
    BY <2>1 DEF GraphShape, Done
  <2> QED BY <2>1, <2>2, <2>3 DEF GraphShape, GraphBounds, GraphTypeOK, FileContent
<1>3. GraphInit => GraphInv
  BY GraphInit_Inv
<1>4. GraphInv /\ [GraphNext]_graphVars => GraphInv'
  BY GraphNext_Inv
<1> QED BY <1>1, <1>2, <1>3, <1>4, GraphBoundsStep, PTL DEF GraphSpec

-----------------------------------------------------------------------------
(* Backups: the files of a project and of an archive are in a version that  *)
(* the bounds allow.                                                        *)
VersionedFiles == Saved \X (Versions \union {Mixed})
BackupBounds ==
    /\ commits \in 0 .. MaxCommits /\ edits \in 0 .. MaxEdits
    /\ target \in [Saved -> Versions \union {Foreign, Mixed}]
    /\ archive # NoArchive \/ backup.phase # "none" => archive.entries \in Seq(VersionedFiles)
    /\ restore.phase # "none" => restore.rest \in Seq(VersionedFiles)
    /\ Walking /\ backup.reading # <<>> => backup.reading[2] \in Versions

LEMMA LiveVersions == BackupInv /\ BackupBounds => live \in [Saved -> Versions]
<1> SUFFICES ASSUME BackupInv, BackupBounds PROVE live \in [Saved -> Versions]
  OBVIOUS
<1>1. /\ MaxCommits \in Nat /\ MaxEdits \in Nat /\ commits \in 0 .. MaxCommits /\ edits \in 0 .. MaxEdits
      /\ live \in [Saved -> Nat]
  BY BackupAssumption DEF BackupBounds, BackupInv, BackupShape
<1>2. ASSUME NEW f \in Saved PROVE live[f] \in Versions
  <2>1. live[f] \in Nat
    BY <1>1
  <2>2. CASE f \in Database
    <3>1. live[f] <= commits
      BY <1>1, <2>1, <2>2 DEF Database, BackupInv, LiveInv, CommitInv
    <3> QED BY <1>1, <2>1, <3>1 DEF Versions
  <2>3. CASE f \notin Database
    <3>1. live[f] <= edits + 1
      BY <2>3 DEF BackupInv, LiveInv
    <3> QED BY <1>1, <2>1, <3>1 DEF Versions
  <2> QED BY <2>2, <2>3
<1> QED BY <1>1, <1>2

LEMMA BackupBoundsStep == BackupInv /\ BackupBounds /\ [BackupNext]_backupVars => BackupBounds'
<1> SUFFICES ASSUME BackupInv, BackupBounds, [BackupNext]_backupVars
             PROVE  BackupBounds'
  OBVIOUS
<1>0. /\ MaxCommits \in Nat /\ MaxEdits \in Nat /\ BackupShape
      /\ live \in [Saved -> Versions]
  BY BackupAssumption, LiveVersions DEF BackupInv
<1>10. Walking => backup \in Taking
  BY <1>0 DEF Walking, BackupShape
<1>1. CASE UNCHANGED backupVars
  BY <1>1 DEF backupVars, BackupBounds, Walking
<1>2. CASE CommitState \/ Checkpoint
  <2>1. backup'.phase = backup.phase /\ (Walking => backup'.reading = backup.reading)
    BY <1>2, <1>10 DEF CommitState, Checkpoint, Taking, Walking
  <2>2. commits' \in 0 .. MaxCommits /\ UNCHANGED <<edits, archive, restore, target>>
    BY <1>0, <1>2 DEF CommitState, Checkpoint, BackupBounds
  <2> QED BY <2>1, <2>2 DEF BackupBounds, Walking
<1>3. ASSUME NEW f \in Saved, EditFile(f) PROVE BackupBounds'
  <2>1. backup'.phase = backup.phase /\ (Walking => backup'.reading = backup.reading)
    BY <1>3, <1>10 DEF EditFile, Taking, Walking
  <2>2. edits' \in 0 .. MaxEdits /\ UNCHANGED <<commits, archive, restore, target>>
    BY <1>0, <1>3 DEF EditFile, BackupBounds
  <2> QED BY <2>1, <2>2 DEF BackupBounds, Walking
<1>4. ASSUME NEW f \in Saved, AppendOpens(f) PROVE BackupBounds'
  <2>1. Walking /\ UNCHANGED <<commits, edits, archive, restore, target>>
    BY <1>4 DEF AppendOpens
  <2>2. backup'.phase = backup.phase /\ (backup'.reading # <<>> => backup'.reading = <<f, live[f]>>)
    BY <1>4, <1>10 DEF AppendOpens, Taking
  <2>3. backup'.reading # <<>> => backup'.reading[2] \in Versions
    BY <1>0, <2>2
  <2> QED BY <2>1, <2>2, <2>3 DEF BackupBounds, Walking
<1>11. CASE AppendStreams
  <2> DEFINE e == IF backup.reading[1] \in backup.touched THEN <<backup.reading[1], Mixed>> ELSE backup.reading
  <2>1. /\ archive \in Archive /\ archive.entries \in Seq(VersionedFiles) /\ backup \in Taking
        /\ Walking /\ backup.reading \in Saved \X Nat /\ backup.reading[2] \in Versions
    BY <1>0, <1>10, <1>11 DEF BackupShape, BackupBounds, AppendStreams, Walking, Taking
  <2>2. backup.reading = <<backup.reading[1], backup.reading[2]>> /\ backup.reading[1] \in Saved
    BY <2>1
  <2>3. e \in VersionedFiles
    BY <2>1, <2>2 DEF VersionedFiles
  <2> HIDE DEF e
  <2>4. Append(archive.entries, e) \in Seq(VersionedFiles)
    BY <2>1, <2>3
  <2>5. archive'.entries = Append(archive.entries, e)
    BY <1>11, <2>1 DEF AppendStreams, Archive, e
  <2>6. UNCHANGED <<commits, edits, restore, target>> /\ backup'.reading = <<>>
    BY <1>11, <2>1 DEF AppendStreams, Taking
  <2> QED BY <2>4, <2>5, <2>6 DEF BackupBounds
<1>5. ASSUME NEW images \in BOOLEAN, CreateBackup(images) PROVE BackupBounds'
  BY <1>5 DEF CreateBackup, BackupBounds, Walking
<1>6. ASSUME NEW whole \in BOOLEAN, AppendManifest \/ BackupBreaks(whole) PROVE BackupBounds'
  <2>1. archive \in Archive /\ archive.entries = archive'.entries
    BY <1>0, <1>6 DEF BackupShape, Archive, AppendManifest, BackupBreaks, Walking
  <2>2. UNCHANGED <<commits, edits, restore, target>> /\ backup.phase # "none"
    BY <1>6 DEF AppendManifest, BackupBreaks, Walking
  <2>3. ~Walking'
    BY <1>6, <1>10 DEF AppendManifest, BackupBreaks, Walking, Taking, NoBackup
  <2> QED BY <2>1, <2>2, <2>3 DEF BackupBounds
<1>7. ASSUME NEW overwrite \in BOOLEAN, RestoreBackup(overwrite) PROVE BackupBounds'
  BY <1>7 DEF RestoreBackup, BackupBounds, Walking, NoBackup
<1>8. CASE UnpackEntry
  <2>1. restore \in Restoring /\ restore.rest \in Seq(VersionedFiles) /\ restore.rest # <<>>
    BY <1>0, <1>8 DEF UnpackEntry, BackupBounds, BackupShape
  <2>2. Head(restore.rest) \in VersionedFiles /\ Tail(restore.rest) \in Seq(VersionedFiles)
    BY <2>1
  <2>3. target' \in [Saved -> Versions \union {Foreign, Mixed}]
    BY <1>8, <2>2 DEF UnpackEntry, BackupBounds, VersionedFiles
  <2>4. restore'.rest = Tail(restore.rest)
    BY <1>8, <2>1 DEF UnpackEntry, Restoring
  <2>5. UNCHANGED <<commits, edits, archive, backup>>
    BY <1>8 DEF UnpackEntry
  <2> QED BY <2>2, <2>3, <2>4, <2>5 DEF BackupBounds, Walking
<1>9. CASE RestoreEnds \/ RestoreBreaks
  <2>1. restore \in Restoring /\ restore.rest \in Seq(VersionedFiles)
    BY <1>0, <1>9 DEF RestoreEnds, RestoreBreaks, BackupBounds, BackupShape
  <2>2. restore'.rest = restore.rest /\ UNCHANGED <<commits, edits, archive, backup, target>>
    BY <1>9, <2>1 DEF RestoreEnds, RestoreBreaks, Restoring
  <2> QED BY <2>1, <2>2 DEF BackupBounds, Walking
<1>12. CASE UnpackPassesOver
  <2>1. PICK n \in 1 .. Len(restore.rest) : restore' = [restore EXCEPT !.rest = SubSeq(@, n + 1, Len(@))]
    BY <1>12 DEF UnpackPassesOver
  <2>2. restore \in Restoring /\ restore.rest \in Seq(VersionedFiles)
    BY <1>0, <1>12 DEF UnpackPassesOver, BackupBounds, BackupShape
  <2>3. restore'.rest = SubSeq(restore.rest, n + 1, Len(restore.rest))
    BY <2>1, <2>2 DEF Restoring
  <2>4. SubSeq(restore.rest, n + 1, Len(restore.rest)) \in Seq(VersionedFiles)
    BY <2>2
  <2>5. UNCHANGED <<commits, edits, archive, backup, target>>
    BY <1>12 DEF UnpackPassesOver
  <2> QED BY <2>3, <2>4, <2>5 DEF BackupBounds, Walking
<1> QED BY <1>1, <1>2, <1>3, <1>4, <1>5, <1>6, <1>7, <1>8, <1>9, <1>11, <1>12 DEF BackupNext

LEMMA BackupsAreTyped == BackupSpec => []BackupTypeOK
<1>1. BackupInit => BackupInv
  BY FirstBackup
<1>2. BackupInv /\ [BackupNext]_backupVars => BackupInv'
  BY BackupStepKeepsIt
<1>3. BackupInit => BackupBounds
  <2> SUFFICES ASSUME BackupInit PROVE BackupBounds
    OBVIOUS
  <2>1. 0 \in Versions /\ 1 \in Versions /\ 0 \in 0 .. MaxCommits /\ 0 \in 0 .. MaxEdits
    BY BackupAssumption DEF Versions
  <2>2. target \in [Saved -> Versions \union {Foreign, Mixed}]
    BY <2>1 DEF BackupInit
  <2>3. ASSUME archive # NoArchive PROVE archive.entries \in Seq(VersionedFiles)
    <3> DEFINE f == CHOOSE f \in Plain : TRUE
    <3>1. f \in Saved
      BY BackupAssumption DEF Saved
    <3>2. archive.entries = << <<f, 1>> >>
      BY <2>3 DEF BackupInit
    <3> HIDE DEF f
    <3>3. <<f, 1>> \in VersionedFiles
      BY <2>1, <3>1 DEF VersionedFiles
    <3> QED BY <3>2, <3>3
  <2> QED BY <2>1, <2>2, <2>3 DEF BackupInit, BackupBounds, NoRestore, NoBackup, Walking
<1>4. BackupInv /\ BackupBounds => BackupTypeOK
  <2> SUFFICES ASSUME BackupInv, BackupBounds PROVE BackupTypeOK
    OBVIOUS
  <2>1. BackupShape
    BY DEF BackupInv
  <2>2. archive = NoArchive \/ archive.manifest \in {"none", "current", "older"}
    BY <2>1 DEF BackupShape, Archive
  <2>3. backup.phase \in {"none", "walking", "done"}
    BY <2>1 DEF BackupShape, Taking
  <2>4. restore.phase \in {"none", "unpacking", "ok", "failed", "refused"}
    BY <2>1 DEF BackupShape, Restoring
  <2> QED BY <2>2, <2>3, <2>4, LiveVersions DEF BackupBounds, BackupTypeOK
<1> QED BY <1>1, <1>2, <1>3, <1>4, BackupBoundsStep, PTL DEF BackupSpec

-----------------------------------------------------------------------------
(* Images: what is added to the thumbnails and the twins are hashes.        *)
HashesAreBytes == thumbnails \subseteq Bytes /\ twins \subseteq Bytes

LEMMA HashesStep == ImageInv /\ HashesAreBytes /\ [ImageNext]_imageVars => HashesAreBytes'
<1> SUFFICES ASSUME ImageInv, HashesAreBytes, [ImageNext]_imageVars
             PROVE  HashesAreBytes'
  OBVIOUS
<1>1. CASE UNCHANGED imageVars
  BY <1>1 DEF imageVars, HashesAreBytes
<1>2. ASSUME NEW p \in Pictures, NEW b \in Bytes \union {NoBytes}, ChangePicture(p, b)
      PROVE  HashesAreBytes'
  BY <1>2 DEF ChangePicture, HashesAreBytes
<1>3. ASSUME NEW p \in Pictures, DebouncePicture(p) PROVE HashesAreBytes'
  BY <1>3 DEF DebouncePicture, HashesAreBytes
<1>4. CASE maybe_spawn_watcher
  BY <1>4 DEF maybe_spawn_watcher, HashesAreBytes
<1>5. ASSUME NEW u \in Viewers, NEW p \in Pictures,
             image_ingest(u, p) \/ \E relative \in BOOLEAN : image_delete(u, p, relative)
      PROVE  HashesAreBytes'
  BY <1>5 DEF image_ingest, image_delete, HashesAreBytes
<1>6. ASSUME NEW u \in Viewers, image_clear(u) \/ image_rescan(u) PROVE HashesAreBytes'
  BY <1>6 DEF image_clear, image_rescan, HashesAreBytes
<1>7. ASSUME NEW u \in Imagers, JobSteps(u) PROVE HashesAreBytes'
  <2>1. jobs[u].step \in {"embed", "upsert"} => jobs[u].hash \in Bytes
    BY <1>7 DEF ImageInv, ImageShape, JobInv
  <2>2. CASE RescanNext(u) \/ ReadPicture(u) \/ RemovePicture(u) \/ ClearPictures(u) \/ PictureFails(u)
    BY <2>2 DEF RescanNext, ReadPicture, RemovePicture, ClearPictures, PictureFails, HashesAreBytes
  <2>3. CASE EmbedPicture(u)
    BY <2>1, <2>3 DEF EmbedPicture, HashesAreBytes
  <2>4. CASE UpsertPicture(u)
    BY <2>1, <2>4 DEF UpsertPicture, HashesAreBytes
  <2> QED BY <1>7, <2>2, <2>3, <2>4 DEF JobSteps
<1> QED BY <1>1, <1>2, <1>3, <1>4, <1>5, <1>6, <1>7 DEF ImageNext

LEMMA ImagesAreTyped == ImageSpec => []ImageTypeOK
<1>1. ImageInit => HashesAreBytes
  BY DEF ImageInit, HashesAreBytes
<1>2. ImageInv /\ HashesAreBytes => ImageTypeOK
  <2> SUFFICES ASSUME ImageInv, HashesAreBytes PROVE ImageTypeOK
    OBVIOUS
  <2>1. ImageShape
    BY DEF ImageInv
  <2>2. \A u \in Imagers : jobs[u].step \in {"idle", "scan", "read", "embed", "upsert", "remove", "clear"}
    BY <2>1 DEF ImageShape, Job
  <2> QED BY <2>1, <2>2 DEF ImageShape, HashesAreBytes, ImageTypeOK
<1> QED BY <1>1, <1>2, HashesStep, ImageInit_Inv, ImageNext_Inv, PTL DEF ImageSpec

-----------------------------------------------------------------------------
(* Migrations: what an opener has still to do ends with the record of a     *)
(* batch, so that it is known in which one it stops.                        *)
IsRecord(q) == \E n \in 0 .. 7 : q = Record(n)
EndsRecorded(todo) == todo # <<>> => IsRecord(todo[Len(todo)])
MigBounds ==
    /\ opens \in 0 .. MaxOpens /\ torn \subseteq 0 .. 7
    /\ \A o \in Openers : EndsRecorded(opener[o].todo)

LEMMA JoinedEnds ==
    ASSUME NEW s \in Seq(SqlOf), NEW t \in Seq(SqlOf), EndsRecorded(s), EndsRecorded(t)
    PROVE  s \o t \in Seq(SqlOf) /\ EndsRecorded(s \o t)
<1>1. s \o t \in Seq(SqlOf)
  BY Joined
<1>2. CASE t = <<>>
  <2>1. s \o t = s
    BY <1>2
  <2> QED BY <1>1, <2>1
<1>3. CASE t # <<>>
  <2>1. Len(t) \in 1 .. Len(t) /\ Len(s \o t) = Len(s) + Len(t)
    BY <1>3
  <2>2. (s \o t)[Len(s \o t)] = t[Len(t)]
    BY <2>1, Joined
  <2> QED BY <1>1, <1>3, <2>2 DEF EndsRecorded
<1> QED BY <1>2, <1>3

LEMMA LaterEnds ==
    ASSUME NEW s \in Seq(SqlOf), EndsRecorded(s), NEW n \in Nat, n >= 1
    PROVE  EndsRecorded(SubSeq(s, n + 1, Len(s)))
<1> DEFINE t == SubSeq(s, n + 1, Len(s))
<1>1. CASE n + 1 <= Len(s)
  <2>1. Len(t) = Len(s) - n /\ t[Len(t)] = s[Len(s)] /\ s # <<>>
    BY <1>1
  <2> HIDE DEF t
  <2>2. EndsRecorded(t)
    BY <2>1 DEF EndsRecorded
  <2> QED BY <2>2 DEF t
<1>2. CASE ~(n + 1 <= Len(s))
  <2>1. t = <<>>
    BY <1>2
  <2> QED BY <2>1 DEF EndsRecorded
<1> QED BY <1>1, <1>2

LEMMA TailEnds ==
    ASSUME NEW s \in Seq(SqlOf), s # <<>>, EndsRecorded(s)
    PROVE  EndsRecorded(Tail(s))
<1>1. Tail(s) = SubSeq(s, 1 + 1, Len(s)) /\ 1 \in Nat /\ 1 >= 1
  OBVIOUS
<1>2. EndsRecorded(SubSeq(s, 1 + 1, Len(s)))
  BY <1>1, LaterEnds
<1> QED BY <1>1, <1>2

LEMMA MigrateEnds == \A n \in 1 .. 7 : EndsRecorded(Migrate(n))
<1> SUFFICES ASSUME NEW n \in 1 .. 7 PROVE EndsRecorded(Migrate(n))
  OBVIOUS
<1>1. Migrate(n)[Len(Migrate(n))] = Record(n)
  BY MigrateIs
<1>2. n \in 0 .. 7
  OBVIOUS
<1> QED BY <1>1, <1>2 DEF EndsRecorded, IsRecord

LEMMA PendingEnds == \A n \in 0 .. 7 : Pending[n] \in Seq(SqlOf) /\ EndsRecorded(Pending[n])
<1> DEFINE Good(n) == Pending[n] \in Seq(SqlOf) /\ EndsRecorded(Pending[n])
<1>1. Good(7)
  BY PendingIs DEF EndsRecorded
<1>2. ASSUME NEW n \in 0 .. 6, NEW m, m = n + 1, Good(m) PROVE Good(n)
  <2>1. m \in 1 .. 7
    BY <1>2
  <2>2. Migrate(m) \in Seq(SqlOf) /\ EndsRecorded(Migrate(m))
    BY <2>1, MigrateIs, MigrateEnds
  <2>3. Pending[n] = Migrate(m) \o Pending[m]
    BY <1>2, PendingIs
  <2> QED BY <1>2, <2>2, <2>3, JoinedEnds
<1> HIDE DEF Good
<1>3. Good(6) BY <1>1, <1>2
<1>4. Good(5) BY <1>2, <1>3
<1>5. Good(4) BY <1>2, <1>4
<1>6. Good(3) BY <1>2, <1>5
<1>7. Good(2) BY <1>2, <1>6
<1>8. Good(1) BY <1>2, <1>7
<1>9. Good(0) BY <1>2, <1>8
<1>10. \A n \in 0 .. 7 : n \in {0, 1, 2, 3, 4, 5, 6, 7}
  OBVIOUS
<1>11. \A n \in 0 .. 7 : Good(n)
  BY <1>1, <1>3, <1>4, <1>5, <1>6, <1>7, <1>8, <1>9, <1>10
<1> QED BY <1>11 DEF Good

LEMMA ListEnds ==
    ASSUME NEW a \in SqlOf, NEW n \in 0 .. 7
    PROVE  <<a, Record(n)>> \in Seq(SqlOf) /\ EndsRecorded(<<a, Record(n)>>)
<1>1. Record(n) \in SqlOf
  BY SqlOfIs
<1> DEFINE t == <<a, Record(n)>>
<1>2. t \in Seq(SqlOf) /\ Len(t) = 2 /\ t[2] = Record(n)
  BY <1>1
<1> HIDE DEF t
<1>3. EndsRecorded(t)
  BY <1>2 DEF EndsRecorded, IsRecord
<1> QED BY <1>2, <1>3 DEF t

LEMMA PostgresEnds == ASSUME NEW s PROVE EndsRecorded(PostgresPending(s))
<1>1. \A n \in 0 .. 1 : Sql("file", n, n) \in SqlOf /\ n \in 0 .. 7
  <2> SUFFICES ASSUME NEW n \in 0 .. 1 PROVE Sql("file", n, n) \in MarkOf
    BY SqlOfIs
  <2> QED BY DEF Sql, MarkOf, Marks
<1>2. \A n \in 0 .. 1 : PostgresFile(n) \in Seq(SqlOf) /\ EndsRecorded(PostgresFile(n))
  BY <1>1, ListEnds DEF PostgresFile
<1>3. <<>> \in Seq(SqlOf) /\ EndsRecorded(<<>>) /\ 0 \in 0 .. 1 /\ 1 \in 0 .. 1
  BY DEF EndsRecorded
<1> QED BY <1>2, <1>3, JoinedEnds DEF PostgresPending

LEMMA VectorEnds == EndsRecorded(VectorPending)
<1>1. \A n \in 1 .. 4 : VectorFrom[n] = (<<Check(n)>> \o <<Make(n), Record(n)>>) \o VectorFrom[n + 1]
  BY VectorFromIs
<1>2. ASSUME NEW n \in 1 .. 4, NEW m, m = n + 1, EndsRecorded(VectorFrom[m])
      PROVE  EndsRecorded(VectorFrom[n])
  <2>1. n \in 0 .. 7 /\ m \in 1 .. 5
    BY <1>2
  <2>2. Check(n) \in SqlOf /\ Record(n) \in SqlOf /\ Make(n) \in SqlOf /\ VectorFrom[m] \in Seq(SqlOf)
    BY <2>1, VectorStatements, SqlOfIs, VectorListsAre
  <2> DEFINE t == <<Check(n), Make(n), Record(n)>>
  <2>3. t \in Seq(SqlOf) /\ Len(t) = 3 /\ t[3] = Record(n)
    BY <2>2
  <2>4. VectorFrom[n] = t \o VectorFrom[m]
    BY <1>2, VectorListsAre
  <2> HIDE DEF t
  <2>5. EndsRecorded(t)
    BY <2>1, <2>3 DEF EndsRecorded, IsRecord
  <2> QED BY <1>2, <2>2, <2>3, <2>4, <2>5, JoinedEnds
<1>3. EndsRecorded(VectorFrom[5])
  BY VectorFromIs DEF EndsRecorded
<1>4. EndsRecorded(VectorFrom[4]) BY <1>2, <1>3
<1>5. EndsRecorded(VectorFrom[3]) BY <1>2, <1>4
<1>6. EndsRecorded(VectorFrom[2]) BY <1>2, <1>5
<1>7. EndsRecorded(VectorFrom[1]) BY <1>2, <1>6
<1> DEFINE t == <<Host, Tracking, Check0, Record(0)>>
<1>8. Record(0) \in SqlOf /\ 0 \in 0 .. 7
  BY SqlOfIs
<1>9. t \in Seq(SqlOf) /\ Len(t) = 4 /\ t[4] = Record(0)
  BY <1>8, VectorListsAre
<1>10. VectorPending = t \o VectorFrom[1] /\ VectorFrom[1] \in Seq(SqlOf)
  BY VectorListsAre
<1> HIDE DEF t
<1>11. EndsRecorded(t)
  BY <1>8, <1>9 DEF EndsRecorded, IsRecord
<1> QED BY <1>7, <1>9, <1>10, <1>11, JoinedEnds

LEMMA ToRunEnds == ASSUME MigShape PROVE EndsRecorded(ToRun(backendKind, schema))
<1>1. CASE backendKind = "sqlite"
  <2>1. Version(schema) \in 0 .. 7
    <3>1. schema.versions \subseteq 0 .. 7
      BY DEF MigShape, Schema
    <3>2. CASE schema.versions = {}
      BY <3>2 DEF Version
    <3>3. CASE schema.versions # {}
      <4>1. \E n \in schema.versions : \A m \in schema.versions : m <= n
        <5>1. IsFiniteSet(schema.versions) /\ schema.versions \subseteq Int
          <6>1. IsFiniteSet(0 .. 7) /\ 0 .. 7 \subseteq Int
            <7>1. 0 \in Int /\ 7 \in Int /\ 0 .. 7 \subseteq Int
              OBVIOUS
            <7> QED BY <7>1, FS_Interval
          <6> QED BY <3>1, <6>1, FS_Subset
        <5> QED BY <3>3, <5>1, MaxIs
      <4> QED BY <3>1, <3>3, <4>1 DEF Version
    <3> QED BY <3>2, <3>3
  <2> QED BY <1>1, <2>1, PendingEnds DEF ToRun
<1>2. CASE backendKind = "postgres"
  BY <1>2, PostgresEnds DEF ToRun
<1>3. CASE backendKind = "pgvector"
  BY <1>3, VectorEnds DEF ToRun
<1> QED BY <1>1, <1>2, <1>3 DEF MigShape

(* The batch an opener is in is the first whose record is still to come.    *)
LEMMA BatchIsOne ==
    ASSUME NEW todo \in Seq(SqlOf), todo # <<>>, EndsRecorded(todo)
    PROVE  BatchOf(todo) \in 0 .. 7
<1> DEFINE items == {todo[i] : i \in DOMAIN todo}
           ToCome == {n \in 0 .. 7 : Record(n) \in items}
<1>1. ToCome # {}
  <2>1. Len(todo) \in DOMAIN todo
    OBVIOUS
  <2> QED BY <2>1 DEF EndsRecorded, IsRecord
<1>2. PICK n \in ToCome : \A m \in ToCome : n <= m
  <2>1. ToCome \subseteq Nat
    OBVIOUS
  <2> HIDE DEF ToCome
  <2> QED BY <1>1, <2>1, LeastNumber
<1>3. \A m \in 0 .. n - 1 : Record(m) \notin items
  BY <1>2
<1>4. BatchOf(todo) = CHOOSE k \in 0 .. 7 : Record(k) \in items /\ \A m \in 0 .. k - 1 : Record(m) \notin items
  BY DEF BatchOf
<1> HIDE DEF items
<1> QED BY <1>2, <1>3, <1>4

LEMMA ChecksJump == \A q \in SqlOf : q.does = "check" => q.to \in Nat
<1>1. \A q \in ChangeOf : q.does # "check"
  BY DEF ChangeOf, Changes
<1>2. \A q \in MarkOf : q.to \in Nat
  BY DEF MarkOf
<1>3. Host.does # "check"
  BY DEF Host, Sql
<1> QED BY <1>1, <1>2, <1>3 DEF SqlOf

LEMMA MigBoundsStep == MigInv /\ MigBounds /\ [MigNext]_migVars => MigBounds'
<1> SUFFICES ASSUME MigInv, MigBounds, [MigNext]_migVars
             PROVE  MigBounds'
  OBVIOUS
<1>0. MaxOpens \in Nat /\ MigShape /\ opens \in 0 .. MaxOpens
  BY MigrationsAssumption DEF MigInv, MigBounds
<1>1. CASE UNCHANGED migVars
  BY <1>1 DEF migVars, MigBounds
<1>2. ASSUME NEW o \in Openers,
             Open(o) \/ SqlStatement(o) \/ PreflightFails(o) \/ Opened(o) \/ Stop(o) \/ \E r \in OldRows : Use(o, r)
      PROVE  MigBounds'
  <2>1. /\ opener[o].todo \in Seq(SqlOf) /\ EndsRecorded(opener[o].todo)
        /\ opener[o] \in [phase: Phases, todo: Seq(SqlOf)]
    BY <1>0 DEF MigShape, MigBounds
  <2>2. opens' \in 0 .. MaxOpens
    BY <1>0, <1>2 DEF Open, SqlStatement, PreflightFails, Opened, Stop, Use
  <2>3. torn' \subseteq 0 .. 7
    <3>1. CASE Stop(o)
      BY <2>1, <3>1, BatchIsOne DEF Stop, MigBounds
    <3>2. CASE ~Stop(o)
      BY <1>2, <3>2 DEF Open, SqlStatement, PreflightFails, Opened, Use, MigBounds
    <3> QED BY <3>1, <3>2
  <2>4. \A p \in Openers : p # o => opener'[p] = opener[p]
    BY <1>0, <1>2 DEF MigShape, Open, SqlStatement, PreflightFails, Opened, Stop, Use
  <2>5. EndsRecorded(opener'[o].todo)
    <3>0. EndsRecorded(<<>>)
      BY DEF EndsRecorded
    <3>1. CASE Open(o)
      <4> DEFINE todo == ToRun(backendKind, schema)
      <4>1. opener'[o] = [phase |-> "migrating", todo |-> todo]
        BY <1>0, <3>1 DEF Open, MigShape
      <4> HIDE DEF todo
      <4>2. opener'[o].todo = todo
        BY <4>1
      <4> QED BY <1>0, <4>2, ToRunEnds DEF todo
    <3>2. CASE SqlStatement(o)
      <4> DEFINE todo == opener[o].todo
                 q == Head(todo)
      <4>1. todo # <<>> /\ q \in SqlOf
        BY <2>1, <3>2 DEF SqlStatement
      <4>2. CASE Fails(schema, q)
        <5>1. opener'[o] = [phase |-> "failed", todo |-> <<>>]
          BY <1>0, <3>2, <4>2 DEF SqlStatement, MigShape
        <5> QED BY <3>0, <5>1
      <4>3. CASE ~Fails(schema, q)
        <5>1. \/ q.does = "check" /\ opener'[o].todo = SubSeq(todo, q.to + 2, Len(todo))
              \/ opener'[o].todo = Tail(todo)
          BY <1>0, <3>2, <4>3, StatementTurns
        <5>2. q.does = "check" => q.to \in Nat
          BY <4>1, ChecksJump
        <5>3. CASE opener'[o].todo = Tail(todo)
          BY <2>1, <4>1, <5>3, TailEnds
        <5>4. CASE q.does = "check" /\ opener'[o].todo = SubSeq(todo, q.to + 2, Len(todo))
          <6>1. q.to + 1 \in Nat /\ q.to + 1 >= 1 /\ (q.to + 1) + 1 = q.to + 2
            BY <5>2, <5>4
          <6> HIDE DEF q, todo
          <6>2. todo \in Seq(SqlOf) /\ EndsRecorded(todo)
            BY <2>1 DEF todo
          <6>3. EndsRecorded(SubSeq(todo, (q.to + 1) + 1, Len(todo)))
            BY <6>1, <6>2, LaterEnds
          <6> QED BY <5>4, <6>1, <6>3
        <5> QED BY <5>1, <5>3, <5>4
      <4> QED BY <4>2, <4>3
    <3>3. CASE PreflightFails(o)
      <4>1. opener'[o] = [phase |-> "refused", todo |-> <<>>]
        BY <1>0, <3>3 DEF PreflightFails, MigShape
      <4> QED BY <3>0, <4>1
    <3>4. CASE Opened(o)
      <4>1. opener'[o] = [opener[o] EXCEPT !.phase = "open"]
        BY <1>0, <3>4 DEF Opened, MigShape
      <4> QED BY <2>1, <4>1
    <3>5. CASE Stop(o)
      <4>1. opener'[o] = Closed
        BY <1>0, <3>5 DEF Stop, MigShape
      <4> QED BY <3>0, <4>1 DEF Closed
    <3>6. ASSUME NEW r \in OldRows, Use(o, r) PROVE EndsRecorded(opener'[o].todo)
      BY <2>1, <3>6 DEF Use
    <3> QED BY <1>2, <3>1, <3>2, <3>3, <3>4, <3>5, <3>6
  <2>6. \A p \in Openers : EndsRecorded(opener'[p].todo)
    BY <2>4, <2>5 DEF MigBounds
  <2> QED BY <2>2, <2>3, <2>6 DEF MigBounds, EndsRecorded, IsRecord
<1> QED BY <1>1, <1>2 DEF MigNext

LEMMA MigrationsAreTyped == MigSpec => []MigTypeOK
<1>1. MigInit => MigBounds
  BY MigrationsAssumption DEF MigInit, MigBounds, Closed, EndsRecorded
<1>2. MigInv /\ MigBounds => MigTypeOK
  BY DEF MigInv, MigShape, MigBounds, Schema, Phases, MigTypeOK
<1> QED BY <1>1, <1>2, MigBoundsStep, MigInvInit, MigInvNext, PTL DEF MigSpec

-----------------------------------------------------------------------------
(* A behaviour of MCStores is a behaviour of each of its parts: a step of   *)
(* one leaves the variables of the others alone.                            *)
LEMMA PartsBehave ==
    MCSpec => RowSpec /\ MigSpec /\ VecSpec /\ GraphSpec /\ BackupSpec /\ ImageSpec
<1> DEFINE all == <<part, rowVars, migVars, vectorVars, graphVars, backupVars, imageVars>>
<1>1. MCInit => RowInit /\ MigInit /\ VecInit /\ GraphInit /\ BackupInit /\ ImageInit
  BY DEF MCInit
<1>2. [MCNext]_all => [RowNext]_rowVars
  BY DEF MCNext, OtherParts
<1>3. [MCNext]_all => [MigNext]_migVars
  BY DEF MCNext, OtherParts
<1>4. [MCNext]_all => [VecNext]_vectorVars
  BY DEF MCNext, OtherParts
<1>5. [MCNext]_all => [GraphNext]_graphVars
  BY DEF MCNext, OtherParts
<1>6. [MCNext]_all => [BackupNext]_backupVars
  BY DEF MCNext, OtherParts
<1>7. [MCNext]_all => [ImageNext]_imageVars
  BY DEF MCNext, OtherParts
<1> QED BY <1>1, <1>2, <1>3, <1>4, <1>5, <1>6, <1>7, PTL
        DEF MCSpec, RowSpec, MigSpec, VecSpec, GraphSpec, BackupSpec, ImageSpec

(* The variables of every store hold what the code can put there: versions  *)
(* of files and rows of tables, points of the right shape, statements that  *)
(* end with the record of their batch (statestore, migrations, vector       *)
(* stores, graph, backup and images).                                       *)
THEOREM StoresAreTyped == MCSpec => []StoresTypeOK
<1> QED BY PartsBehave, RowsAreTyped, MigrationsAreTyped, VectorsAreTyped, GraphsAreTyped, BackupsAreTyped,
           ImagesAreTyped, PTL DEF StoresTypeOK
=============================================================================
