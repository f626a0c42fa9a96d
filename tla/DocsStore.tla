------------------------------ MODULE DocsStore ------------------------------
(***************************************************************************)
(* The managed documents of a project: files below .the-one/docs, deleted  *)
(* ones below .the-one/docs/.trash.  Requests hold the read half of the    *)
(* lock on the document managers, so they overlap, and every request is a  *)
(* sequence of system calls.  A write opens (creates or truncates) the     *)
(* file and then fills it; a rename in between takes the open file along.  *)
(* Directories are made and removed on the way; a request that loses one   *)
(* is a request that fails.  Reads have no effect and are left out.        *)
(***************************************************************************)
EXTENDS Naturals, FiniteSets

CONSTANTS
    Handler,       \* requests that may overlap
    Path,          \* names of documents
    Text,          \* what clients write
    MaxDocs,       \* max_managed_docs
    Environments,  \* the circumstances the requests meet, see Environment
    None,          \* no file
    Blank,         \* a file that was opened for writing and not filled
    Garbled        \* a file that two writers have filled

Place == {"docs", "trash"} \X Path
Op == {"create", "update", "delete", "move", "restore", "empty"}
Job == [op: Op, from: Path, to: Path, text: Text]

Environment ==
    [ops: SUBSET Op,       \* what the clients ask for
     paths: SUBSET Path,   \* the documents they name
     apart: BOOLEAN,       \* overlapping requests name different documents
     faults: BOOLEAN]      \* a write may stop half way

ASSUME DocsStoreAssumption ==
    /\ IsFiniteSet(Handler) /\ Handler # {}
    /\ MaxDocs \in Nat
    /\ Environments \subseteq Environment
    /\ None \notin Text \union {Blank, Garbled} \union Place
    /\ Blank \notin Text \union {Garbled}

VARIABLES
    env,     \* the circumstances, fixed
    disk,    \* the text of the file at each place, or None
    pc,      \* where each request is
    job,     \* what each request was asked to do
    left,    \* the places a create has yet to count
    found,   \* the documents it has counted
    open     \* the place of the file each request has open, None if unlinked

walk == <<left, found>>
vars == <<env, disk, pc, job, walk, open>>

PC == {"idle",
       "count",    \* walks the documents
       "source",   \* looks whether the source exists
       "target",   \* looks whether the target exists
       "open",     \* opens the file to write
       "write",    \* fills it
       "rename",   \* renames source to target
       "purge"}    \* removes the files of the trash

TypeOK ==
    /\ env \in Environments
    /\ disk \in [Place -> Text \union {None, Blank, Garbled}]
    /\ pc \in [Handler -> PC]
    /\ job \in [Handler -> Job \union {None}]
    /\ \A h \in Handler : pc[h] # "idle" => job[h] \in Job
    /\ left \in [Handler -> SUBSET Path]
    /\ found \in [Handler -> Nat]
    /\ open \in [Handler -> Place \union {None}]

Init ==
    /\ env \in Environments
    /\ disk = [x \in Place |-> None]
    /\ pc = [h \in Handler |-> "idle"]
    /\ job = [h \in Handler |-> None]
    /\ left = [h \in Handler |-> {}]
    /\ found = [h \in Handler |-> 0]
    /\ open = [h \in Handler |-> None]

-----------------------------------------------------------------------------
Doc(p) == <<"docs", p>>
Trash(p) == <<"trash", p>>

Renames == {"delete", "move", "restore"}
Source(j) == IF j.op = "restore" THEN Trash(j.from) ELSE Doc(j.from)
Target(j) == IF j.op = "delete" THEN Trash(j.from) ELSE Doc(j.to)

Touched(j) == IF j.op = "empty" THEN {} ELSE {j.from, j.to}
KeepsApart(j) ==
    \A g \in Handler : pc[g] # "idle" => Touched(j) \intersect Touched(job[g]) = {}

Goto(h, to) == pc' = [pc EXCEPT ![h] = to]

Finish(h) ==
    /\ Goto(h, "idle")
    /\ job' = [job EXCEPT ![h] = None]
    /\ left' = [left EXCEPT ![h] = {}]
    /\ found' = [found EXCEPT ![h] = 0]
    /\ open' = [open EXCEPT ![h] = None]

First(j) ==
    CASE j.op = "create" -> "count"
      [] j.op = "update" -> "target"
      [] j.op = "empty" -> "purge"
      [] j.op \in Renames -> "source"

Start(h, j) ==
    /\ pc[h] = "idle"
    /\ j.op \in env.ops
    /\ {j.from, j.to} \subseteq env.paths
    /\ j.op # "move" => j.from = j.to
    /\ env.apart => KeepsApart(j)
    /\ Goto(h, First(j))
    /\ job' = [job EXCEPT ![h] = j]
    /\ left' = [left EXCEPT ![h] = IF j.op = "create" THEN env.paths ELSE {}]
    /\ UNCHANGED <<env, disk, found, open>>

(* An i/o error, a file or directory that is gone, or the end of the        *)
(* process; a write that was begun stops only by a fault.                   *)
Fails(h) ==
    /\ pc[h] # "idle"
    /\ pc[h] = "write" => env.faults
    /\ Finish(h)
    /\ UNCHANGED <<env, disk>>

-----------------------------------------------------------------------------
(* validate_doc_count walks the tree while other requests change it.        *)
Visit(h, p) ==
    /\ pc[h] = "count"
    /\ p \in left[h]
    /\ left' = [left EXCEPT ![h] = @ \ {p}]
    /\ found' = [found EXCEPT ![h] = @ + (IF disk[Doc(p)] = None THEN 0 ELSE 1)]
    /\ UNCHANGED <<env, disk, pc, job, open>>

MutWithinLimit(h) == found[h] <= MaxDocs   \* off by one

WithinLimit(h) == found[h] < MaxDocs

Judge(h) ==
    /\ pc[h] = "count"
    /\ left[h] = {}
    /\ WithinLimit(h)
    /\ Goto(h, "target")
    /\ found' = [found EXCEPT ![h] = 0]
    /\ UNCHANGED <<env, disk, job, left, open>>

CheckSource(h) ==
    /\ pc[h] = "source"
    /\ disk[Source(job[h])] # None
    /\ Goto(h, IF job[h].op = "delete" THEN "rename" ELSE "target")
    /\ UNCHANGED <<env, disk, job, walk, open>>

MutTargetFits(h) ==   \* only an update looks
    job[h].op = "update" => disk[Target(job[h])] # None

(* An update wants the target to exist, the others want it not to.          *)
TargetFits(h) == (disk[Target(job[h])] # None) = (job[h].op = "update")

CheckTarget(h) ==
    /\ pc[h] = "target"
    /\ TargetFits(h)
    /\ Goto(h, IF job[h].op \in Renames THEN "rename" ELSE "open")
    /\ UNCHANGED <<env, disk, job, walk, open>>

-----------------------------------------------------------------------------
Open(h) ==
    /\ pc[h] = "open"
    /\ disk' = [disk EXCEPT ![Target(job[h])] = Blank]
    /\ open' = [open EXCEPT ![h] = Target(job[h])]
    /\ Goto(h, "write")
    /\ UNCHANGED <<env, job, walk>>

(* Texts of different lengths that two writers put into one file may mix.   *)
Fill(old, t) == IF old \in {Blank, t} THEN {t} ELSE {t, Garbled}

Write(h) ==
    /\ pc[h] = "write"
    /\ IF open[h] = None
         THEN UNCHANGED disk
         ELSE \E t \in Fill(disk[open[h]], job[h].text) : disk' = [disk EXCEPT ![open[h]] = t]
    /\ Finish(h)
    /\ UNCHANGED env

MutRelink(a, b, x) == x   \* the file is looked up by its name again

(* The file at b is replaced: who has it open writes to no place.           *)
Relink(a, b, x) == IF x = a THEN b ELSE IF x = b THEN None ELSE x

Rename(h) ==
    LET a == Source(job[h])
        b == Target(job[h])
    IN  /\ pc[h] = "rename"
        /\ disk[a] # None
        /\ disk' = [disk EXCEPT ![a] = None, ![b] = disk[a]]
        /\ Goto(h, "idle")
        /\ job' = [job EXCEPT ![h] = None]
        /\ open' = [g \in Handler |-> Relink(a, b, open[g])]
        /\ UNCHANGED <<env, walk>>

(* trash_empty removes file by file and ends when the trash is empty.       *)
Discard(h, p) ==
    /\ pc[h] = "purge"
    /\ disk[Trash(p)] # None
    /\ disk' = [disk EXCEPT ![Trash(p)] = None]
    /\ open' = [g \in Handler |-> IF open[g] = Trash(p) THEN None ELSE open[g]]
    /\ UNCHANGED <<env, pc, job, walk>>

Emptied(h) ==
    /\ pc[h] = "purge"
    /\ \A p \in Path : disk[Trash(p)] = None
    /\ Finish(h)
    /\ UNCHANGED <<env, disk>>

-----------------------------------------------------------------------------
Step(h) ==
    \/ \E j \in Job : Start(h, j)
    \/ Fails(h)
    \/ \E p \in Path : Visit(h, p) \/ Discard(h, p)
    \/ Judge(h)
    \/ CheckSource(h)
    \/ CheckTarget(h)
    \/ Open(h)
    \/ Write(h)
    \/ Rename(h)
    \/ Emptied(h)

Next == \E h \in Handler : Step(h)

Spec == Init /\ [][Next]_vars

-----------------------------------------------------------------------------
Writers(x) == {h \in Handler : open[h] = x}

(* What a reader will find at a place once its writer is done.              *)
Shown(x) == IF Writers(x) = {} THEN disk[x] ELSE job[CHOOSE h \in Writers(x) : TRUE].text

(* Clients that keep apart get a shelf of documents: their requests take    *)
(* effect in one step or not at all, though checks and writes are apart.    *)
Shelf == INSTANCE DocShelf WITH
    apart <- env.apart,
    docs <- [p \in Path |-> Shown(Doc(p))],
    trash <- [p \in Path |-> Shown(Trash(p))]
ImplementsShelf == Shelf!Spec

(* However requests race, only a fault leaves a document without its text:  *)
(* renames and deletes take a file that is being written along.             *)
NoTornDocs ==
    ~env.faults => \A x \in Place : disk[x] = Blank => Writers(x) # {}

(* The limit on the documents is exceeded by at most one document for each  *)
(* further request that overlaps, although the count is taken while others  *)
(* create and delete.  A restore or a move does not look at the limit, and  *)
(* an update opens a file anew that was deleted after it looked.            *)
Docs == {p \in Path : disk[Doc(p)] # None}
LimitIsNearlyKept ==
    env.ops \intersect {"move", "restore", "update"} = {} =>
        Cardinality(Docs) <= MaxDocs + Cardinality(Handler) - 1
=============================================================================
