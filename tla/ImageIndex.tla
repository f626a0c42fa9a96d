----------------------------- MODULE ImageIndex -----------------------------
(***************************************************************************)
(* The images of a project (image_ingest and its kin in broker.rs): files, and *)
(* a point in the vector store for every content that was ingested.  A      *)
(* point is identified by the hash of the bytes and names one file.  Files  *)
(* under .the-one/images are watched; a rescan looks everywhere else.       *)
(* Requests and the watcher work at the same time, and a request reads its  *)
(* file more than once.                                                     *)
(***************************************************************************)
EXTENDS Integers, FiniteSets, Sequences

CONSTANTS
    Pictures, Watched,  \* files, and which of them are under .the-one/images
    Bytes,              \* what a file may hold
    Viewers,            \* clients that may ask at the same time
    MAX_IMAGES,         \* limits.max_images_per_project
    MaxShots,           \* bound on changes of files
    MaxAsks,            \* bound on requests
    Watcher, NoPicture, NoBytes

ASSUME ImageAssumption ==
    /\ Watched \subseteq Pictures /\ IsFiniteSet(Pictures)
    /\ NoBytes \notin Bytes /\ NoPicture \notin Pictures

VARIABLES
    imageEnabled,       \* image_embedding_enabled
    pictures,           \* pictures[p]: the bytes of p, or NoBytes
    imagePoints,        \* imagePoints[b]: the point whose id is the hash of b
    thumbnails,         \* the contents with a thumbnail on disk
    events,             \* what the debouncer has sent to the watcher
    unseen,             \* watched files that changed since
    jobs,               \* what each client, and the watcher, is doing
    settled,            \* history: how the last work on p ended
    twins,              \* history: contents two files were ingested with
    shots, asks         \* what the bounds count

imageVars == <<imageEnabled, pictures, imagePoints, thumbnails, events, unseen, jobs, settled, twins, shots, asks>>

NoImagePoint == [path |-> NoPicture, vector |-> NoBytes]
IdleJob == [step |-> "idle", path |-> NoPicture, hash |-> NoBytes, vector |-> NoBytes, todo |-> <<>>, done |-> 0, alone |-> TRUE]
Unsettled == [state |-> "unknown", bytes |-> NoBytes]
Imagers == Viewers \union {Watcher}

ImageInit ==
    /\ imageEnabled \in BOOLEAN
    /\ pictures = [p \in Pictures |-> NoBytes]
    /\ imagePoints = [b \in Bytes |-> NoImagePoint]
    /\ thumbnails = {} /\ events = <<>> /\ unseen = {}
    /\ jobs = [u \in Imagers |-> IdleJob]
    /\ settled = [p \in Pictures |-> Unsettled]
    /\ twins = {} /\ shots = 0 /\ asks = 0

-----------------------------------------------------------------------------
(* Files, and the watcher.                                                  *)
ChangePicture(p, b) ==
    /\ shots < MaxShots /\ shots' = shots + 1
    /\ pictures[p] # b /\ pictures' = [pictures EXCEPT ![p] = b]
    /\ unseen' = IF p \in Watched THEN unseen \union {p} ELSE unseen
    /\ UNCHANGED <<imageEnabled, imagePoints, thumbnails, events, jobs, settled, twins, asks>>

(* The debouncer reports a path; whether it was removed is seen only now.    *)
DebouncePicture(p) ==
    /\ p \in unseen /\ unseen' = unseen \ {p}
    /\ events' = Append(events, [path |-> p, upserted |-> pictures[p] # NoBytes])
    /\ UNCHANGED <<imageEnabled, pictures, imagePoints, thumbnails, jobs, settled, twins, shots, asks>>

Busy(p) == {u \in Imagers : jobs[u].step # "idle" /\ (jobs[u].path = p \/ jobs[u].step = "clear")}

(* u starts work on p: its result is certain only if nobody else works on p. *)
BeginsAs(u, job) ==
    LET p == job.path IN
    /\ jobs' = [v \in Imagers |->
                  IF v = u THEN [job EXCEPT !.alone = Busy(p) \ {u} = {}]
                  ELSE IF v \in Busy(p) THEN [jobs[v] EXCEPT !.alone = FALSE] ELSE jobs[v]]
    /\ settled' = [settled EXCEPT ![p] = Unsettled]

Ends(u) == IF jobs[u].todo = <<>> THEN IdleJob ELSE [jobs[u] EXCEPT !.step = "scan", !.path = NoPicture]
EndsAs(u, state, bytes) ==
    /\ jobs' = [jobs EXCEPT ![u] = Ends(u)]
    /\ settled' = IF jobs[u].alone
                  THEN [settled EXCEPT ![jobs[u].path] = [state |-> state, bytes |-> bytes]] ELSE settled

maybe_spawn_watcher ==
    /\ jobs[Watcher].step = "idle" /\ events # <<>>
    /\ LET event == Head(events) IN
       BeginsAs(Watcher, [IdleJob EXCEPT !.step = IF event.upserted THEN "read" ELSE "remove", !.path = event.path])
    /\ events' = Tail(events)
    /\ UNCHANGED <<imageEnabled, pictures, imagePoints, thumbnails, unseen, twins, shots, asks>>

-----------------------------------------------------------------------------
(* Requests.                                                                *)
Asks(u) == u \in Viewers /\ jobs[u].step = "idle" /\ asks < MaxAsks /\ asks' = asks + 1

(* A path may be relative to the project: the broker makes it absolute here. *)
image_ingest(u, p) ==
    /\ Asks(u) /\ BeginsAs(u, [IdleJob EXCEPT !.step = "read", !.path = p])
    /\ UNCHANGED <<imageEnabled, pictures, imagePoints, thumbnails, events, unseen, twins, shots>>

(* ... but not here: nothing is found under a relative path, and that is Ok. *)
image_delete(u, p, relative) ==
    /\ Asks(u)
    /\ IF relative THEN UNCHANGED <<jobs, settled>>
       ELSE BeginsAs(u, [IdleJob EXCEPT !.step = "remove", !.path = p])
    /\ UNCHANGED <<imageEnabled, pictures, imagePoints, thumbnails, events, unseen, twins, shots>>

image_clear(u) ==
    /\ Asks(u)
    /\ jobs' = [v \in Imagers |-> IF v = u THEN [IdleJob EXCEPT !.step = "clear"] ELSE [jobs[v] EXCEPT !.alone = FALSE]]
    /\ settled' = [p \in Pictures |-> Unsettled]
    /\ UNCHANGED <<imageEnabled, pictures, imagePoints, thumbnails, events, unseen, twins, shots>>

(* Hidden directories are skipped, and .the-one is one of them.              *)
discover_images == {p \in Pictures \ Watched : pictures[p] # NoBytes}

Orders(files) == {o \in [1..Cardinality(files) -> files] : \A i, j \in DOMAIN o : o[i] = o[j] => i = j}

image_rescan(u) ==
    /\ Asks(u)
    /\ \E order \in Orders(discover_images) :
        jobs' = IF imageEnabled /\ order # <<>>
                THEN [jobs EXCEPT ![u] = [IdleJob EXCEPT !.step = "scan", !.todo = order]] ELSE jobs
    /\ UNCHANGED <<imageEnabled, pictures, imagePoints, thumbnails, events, unseen, settled, twins, shots>>

(* The next file of a rescan, unless as many as the limit were ingested.     *)
RescanNext(u) ==
    /\ jobs[u].step = "scan"
    /\ IF jobs[u].done >= MAX_IMAGES
       THEN jobs' = [jobs EXCEPT ![u] = IdleJob] /\ UNCHANGED settled
       ELSE BeginsAs(u, [jobs[u] EXCEPT !.step = "read", !.path = Head(jobs[u].todo), !.todo = Tail(@), !.alone = TRUE])
    /\ UNCHANGED <<imageEnabled, pictures, imagePoints, thumbnails, events, unseen, twins, shots, asks>>

-----------------------------------------------------------------------------
MutReadPicture(u) ==   \* whether the file is there is not looked at
    /\ jobs[u].step = "read"
    /\ jobs' = [jobs EXCEPT ![u].step = "embed", ![u].hash = pictures[jobs[u].path]]
    /\ UNCHANGED <<imageEnabled, pictures, imagePoints, thumbnails, events, unseen, settled, twins, shots, asks>>

(* image_ingest_standalone: the bytes are read for the hash, then again for  *)
(* the embedding and for the thumbnail.                                     *)
ReadPicture(u) ==
    /\ jobs[u].step = "read"
    /\ IF ~imageEnabled \/ pictures[jobs[u].path] = NoBytes THEN EndsAs(u, "unknown", NoBytes)
       ELSE /\ jobs' = [jobs EXCEPT ![u].step = "embed", ![u].hash = pictures[jobs[u].path]]
            /\ UNCHANGED settled
    /\ UNCHANGED <<imageEnabled, pictures, imagePoints, thumbnails, events, unseen, twins, shots, asks>>

EmbedPicture(u) ==
    LET now == pictures[jobs[u].path] IN
    /\ jobs[u].step = "embed"
    /\ IF now = NoBytes THEN EndsAs(u, "unknown", NoBytes) /\ UNCHANGED thumbnails
       ELSE /\ jobs' = [jobs EXCEPT ![u].step = "upsert", ![u].vector = now]
            /\ thumbnails' = thumbnails \union {jobs[u].hash}
            /\ UNCHANGED settled
    /\ UNCHANGED <<imageEnabled, pictures, imagePoints, events, unseen, twins, shots, asks>>

(* The point of these bytes now names this file; older points of it stay.    *)
UpsertPicture(u) ==
    LET job == jobs[u] IN
    /\ job.step = "upsert"
    /\ imagePoints' = [imagePoints EXCEPT ![job.hash] = [path |-> job.path, vector |-> job.vector]]
    /\ twins' = IF imagePoints[job.hash].path \in {NoPicture, job.path} THEN twins ELSE twins \union {job.hash}
    /\ jobs' = [jobs EXCEPT ![u] = [Ends(u) EXCEPT !.done = IF job.todo = <<>> THEN 0 ELSE job.done + 1]]
    /\ settled' = IF job.alone /\ job.hash = job.vector
                  THEN [settled EXCEPT ![job.path] = [state |-> "found", bytes |-> job.hash]] ELSE settled
    /\ UNCHANGED <<imageEnabled, pictures, thumbnails, events, unseen, shots, asks>>

(* (Were only the point of the bytes that the file holds now deleted.)       *)
MutRemovePicture(u) ==
    /\ jobs[u].step = "remove"
    /\ imagePoints' = [b \in Bytes |-> IF b = pictures[jobs[u].path] THEN NoImagePoint ELSE imagePoints[b]]
    /\ EndsAs(u, "gone", NoBytes)
    /\ UNCHANGED <<imageEnabled, pictures, thumbnails, events, unseen, twins, shots, asks>>

(* image_remove_standalone: every point that names the file.                 *)
RemovePicture(u) ==
    /\ jobs[u].step = "remove"
    /\ imagePoints' = [b \in Bytes |-> IF imagePoints[b].path = jobs[u].path THEN NoImagePoint ELSE imagePoints[b]]
    /\ EndsAs(u, "gone", NoBytes)
    /\ UNCHANGED <<imageEnabled, pictures, thumbnails, events, unseen, twins, shots, asks>>

(* Points and collection go; thumbnails stay.                                *)
ClearPictures(u) ==
    /\ jobs[u].step = "clear"
    /\ imagePoints' = [b \in Bytes |-> NoImagePoint]
    /\ jobs' = [jobs EXCEPT ![u] = IdleJob]
    /\ settled' = IF \E v \in Imagers \ {u} : jobs[v].step # "idle" THEN settled
                  ELSE [p \in Pictures |-> [state |-> "gone", bytes |-> NoBytes]]
    /\ UNCHANGED <<imageEnabled, pictures, thumbnails, events, unseen, twins, shots, asks>>

(* The model, or the vector store, fails: the request ends, a rescan goes on. *)
PictureFails(u) ==
    /\ jobs[u].step \in {"embed", "upsert", "remove", "clear"}
    /\ jobs' = [jobs EXCEPT ![u] = Ends(u)]
    /\ UNCHANGED <<imageEnabled, pictures, imagePoints, thumbnails, events, unseen, settled, twins, shots, asks>>

JobSteps(u) ==
    \/ RescanNext(u) \/ ReadPicture(u) \/ EmbedPicture(u) \/ UpsertPicture(u)
    \/ RemovePicture(u) \/ ClearPictures(u) \/ PictureFails(u)

ImageNext ==
    \/ \E p \in Pictures, b \in Bytes \union {NoBytes} : ChangePicture(p, b)
    \/ \E p \in Pictures : DebouncePicture(p)
    \/ maybe_spawn_watcher
    \/ \E u \in Viewers, p \in Pictures : image_ingest(u, p) \/ \E relative \in BOOLEAN : image_delete(u, p, relative)
    \/ \E u \in Viewers : image_clear(u) \/ image_rescan(u)
    \/ \E u \in Imagers : JobSteps(u)

ImageSpec == ImageInit /\ [][ImageNext]_imageVars

-----------------------------------------------------------------------------
ImageTypeOK ==
    /\ pictures \in [Pictures -> Bytes \union {NoBytes}] /\ thumbnails \subseteq Bytes /\ twins \subseteq Bytes
    /\ \A b \in Bytes : imagePoints[b].path \in Pictures \union {NoPicture}
    /\ \A u \in Imagers : jobs[u].step \in {"idle", "scan", "read", "embed", "upsert", "remove", "clear"}

(* Work on an image that nothing overlapped holds until other work on it    *)
(* begins (image_ingest_standalone, broker.rs:5556, and                      *)
(* image_remove_standalone, 5726): after an ingest the point of its bytes    *)
(* names it and embeds them, unless another file has the same bytes; after a *)
(* removal or a clear no point names it, whatever it once held.              *)
ImagesAreFound ==
    \A p \in Pictures :
        /\ settled[p].state = "found" /\ settled[p].bytes \notin twins
               => imagePoints[settled[p].bytes] = [path |-> p, vector |-> settled[p].bytes]
        /\ settled[p].state = "gone" => \A b \in Bytes : imagePoints[b].path # p
=============================================================================
