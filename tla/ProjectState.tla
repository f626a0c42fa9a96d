----------------------------- MODULE ProjectState -----------------------------
(***************************************************************************)
(* The durable state of one project root: project.json binds the root to   *)
(* a project id, fingerprint.json holds the fingerprint of the signal      *)
(* files, and the SQLite database one profile per project id.              *)
(* project_init and project_refresh read and write these one after the     *)
(* other, without a lock, while the user edits the tree; requests of one   *)
(* broker over HTTP, and brokers of several clients, overlap.  A request   *)
(* may stop after any step, because an i/o fails or the process dies.      *)
(* The tree is a version of the signal files and the presence of the       *)
(* deployment files, which the profile depends on and the fingerprint does *)
(* not cover.  The profile is read in one step: an edit in the middle of   *)
(* it is an edit before the steps that follow.                             *)
(***************************************************************************)
EXTENDS Naturals

CONSTANTS
    Handler,       \* requests that may overlap
    Id,            \* project ids that clients name
    MaxVersion,    \* bound on the versions of the signal files
    Environments,  \* the circumstances the requests meet, see Environment
    None,          \* a missing file or row
    Unset          \* the fingerprint of a project that was never profiled

Version == 0 .. MaxVersion
Profile == [signals: Version, deploys: BOOLEAN]

Environment ==
    [sequential: BOOLEAN,  \* one request at a time
     quiet: BOOLEAN,       \* the user edits only between requests
     reverts: BOOLEAN,     \* an edit may restore an earlier version
     toggles: BOOLEAN,     \* the user adds and removes deployment files
     faults: BOOLEAN]      \* requests may stop half way

ASSUME ProjectStateAssumption ==
    /\ MaxVersion \in Nat
    /\ Environments \subseteq Environment
    /\ None # Unset
    /\ None \notin Version \union Profile \union Id
    /\ Unset \notin Version

VARIABLES
    env,        \* the circumstances, fixed
    signals,    \* the version of the signal files
    deploys,    \* terraform or a deploy workflow is present
    owner,      \* the id in project.json
    print,      \* the fingerprint in fingerprint.json: the version it covers
    rows,       \* the stored profile of each id
    pc,         \* where each request is
    op,         \* what each request does
    id,         \* the id each request names
    previous,   \* the fingerprint each refresh has loaded
    mark,       \* the fingerprint each request has computed
    seen,       \* the profile each request has detected
    raced,      \* history: an edit came between profile and print of an init
    contested   \* history: a claim has replaced the id of another one

tree == <<signals, deploys>>
stored == <<owner, print, rows>>
locals == <<op, id, previous, mark, seen>>
vars == <<env, tree, stored, pc, locals, raced, contested>>

PC == {"idle",
       "project",      \* about to look for project.json
       "claim",        \* saw none, writes it
       "fingerprint",  \* about to look for fingerprint.json
       "unset",        \* saw none, writes an unset one
       "check",        \* reads project.json
       "load",         \* a refresh loads the fingerprint
       "compute",      \* computes the fingerprint of the tree
       "detect",       \* detects the profile
       "store",        \* upserts the profile
       "save",         \* saves the fingerprint
       "reuse"}        \* a refresh reads the stored profile

TypeOK ==
    /\ env \in Environments
    /\ signals \in Version
    /\ deploys \in BOOLEAN
    /\ owner \in Id \union {None}
    /\ print \in Version \union {None, Unset}
    /\ rows \in [Id -> Profile \union {None}]
    /\ pc \in [Handler -> PC]
    /\ op \in [Handler -> {"init", "refresh"}]
    /\ id \in [Handler -> Id \union {None}]
    /\ previous \in [Handler -> Version \union {None, Unset}]
    /\ mark \in [Handler -> Version \union {None}]
    /\ seen \in [Handler -> Profile \union {None}]
    /\ raced \in BOOLEAN
    /\ contested \in BOOLEAN

Init ==
    /\ env \in Environments
    /\ signals \in Version
    /\ deploys \in BOOLEAN
    /\ owner = None
    /\ print = None
    /\ rows = [i \in Id |-> None]
    /\ pc = [h \in Handler |-> "idle"]
    /\ op = [h \in Handler |-> "init"]
    /\ id = [h \in Handler |-> None]
    /\ previous = [h \in Handler |-> None]
    /\ mark = [h \in Handler |-> None]
    /\ seen = [h \in Handler |-> None]
    /\ raced = FALSE
    /\ contested = FALSE

Goto(h, to) == pc' = [pc EXCEPT ![h] = to]
AllIdle == \A h \in Handler : pc[h] = "idle"

-----------------------------------------------------------------------------
(* The user edits a signal file, or adds or removes the deployment files.   *)
Edit(v) ==
    /\ env.quiet => AllIdle
    /\ IF env.reverts THEN v # signals ELSE v > signals
    /\ signals' = v
    /\ raced' = (raced \/ \E h \in Handler : op[h] = "init" /\ pc[h] \in {"store", "compute"})
    /\ UNCHANGED <<env, deploys, stored, pc, locals, contested>>

ToggleDeploys ==
    /\ env.toggles
    /\ env.quiet => AllIdle
    /\ deploys' = ~deploys
    /\ UNCHANGED <<env, signals, stored, pc, locals, raced, contested>>

-----------------------------------------------------------------------------
Start(h, what, i) ==
    /\ pc[h] = "idle"
    /\ env.sequential => AllIdle
    /\ Goto(h, "project")
    /\ op' = [op EXCEPT ![h] = what]
    /\ id' = [id EXCEPT ![h] = i]
    /\ UNCHANGED <<env, tree, stored, previous, mark, seen, raced, contested>>

(* A request that ends drops its locals.                                    *)
Finish(h) ==
    /\ Goto(h, "idle")
    /\ previous' = [previous EXCEPT ![h] = None]
    /\ mark' = [mark EXCEPT ![h] = None]
    /\ seen' = [seen EXCEPT ![h] = None]
    /\ op' = [op EXCEPT ![h] = "init"]
    /\ id' = [id EXCEPT ![h] = None]

Fails(h) ==
    /\ env.faults
    /\ pc[h] # "idle"
    /\ Finish(h)
    /\ UNCHANGED <<env, tree, stored, raced, contested>>

(* initialize_project_state writes the manifests that are missing.          *)
LookForProject(h) ==
    /\ pc[h] = "project"
    /\ Goto(h, IF owner = None THEN "claim" ELSE "fingerprint")
    /\ UNCHANGED <<env, tree, stored, locals, raced, contested>>

Claim(h) ==
    /\ pc[h] = "claim"
    /\ owner' = id[h]
    /\ contested' = (contested \/ owner \notin {None, id[h]})
    /\ Goto(h, "fingerprint")
    /\ UNCHANGED <<env, tree, print, rows, locals, raced>>

LookForFingerprint(h) ==
    /\ pc[h] = "fingerprint"
    /\ Goto(h, IF print = None THEN "unset" ELSE "check")
    /\ UNCHANGED <<env, tree, stored, locals, raced, contested>>

WriteUnset(h) ==
    /\ pc[h] = "unset"
    /\ print' = Unset
    /\ Goto(h, "check")
    /\ UNCHANGED <<env, tree, owner, rows, locals, raced, contested>>

(* A root that is bound to another id is an error.                          *)
CheckProject(h) ==
    /\ pc[h] = "check"
    /\ owner = id[h]
    /\ Goto(h, IF op[h] = "init" THEN "detect" ELSE "load")
    /\ UNCHANGED <<env, tree, stored, locals, raced, contested>>

RejectProject(h) ==
    /\ pc[h] = "check"
    /\ owner # id[h]
    /\ Finish(h)
    /\ UNCHANGED <<env, tree, stored, raced, contested>>

-----------------------------------------------------------------------------
(* project_init detects and stores the profile, then computes and saves the *)
(* fingerprint; project_refresh computes the fingerprint first.             *)
LoadPrevious(h) ==
    /\ pc[h] = "load"
    /\ previous' = [previous EXCEPT ![h] = print]
    /\ Goto(h, "compute")
    /\ UNCHANGED <<env, tree, stored, op, id, mark, seen, raced, contested>>

AfterCompute(h) ==
    IF op[h] = "init" THEN "save" ELSE IF previous[h] = signals THEN "reuse" ELSE "detect"

Compute(h) ==
    /\ pc[h] = "compute"
    /\ mark' = [mark EXCEPT ![h] = signals]
    /\ Goto(h, AfterCompute(h))
    /\ UNCHANGED <<env, tree, stored, op, id, previous, seen, raced, contested>>

Detect(h) ==
    /\ pc[h] = "detect"
    /\ seen' = [seen EXCEPT ![h] = [signals |-> signals, deploys |-> deploys]]
    /\ Goto(h, "store")
    /\ UNCHANGED <<env, tree, stored, op, id, previous, mark, raced, contested>>

MutStore(h) ==   \* an update, which does nothing without a row
    /\ pc[h] = "store"
    /\ rows' = IF rows[id[h]] = None THEN rows ELSE [rows EXCEPT ![id[h]] = seen[h]]
    /\ Goto(h, IF op[h] = "init" THEN "compute" ELSE "save")
    /\ UNCHANGED <<env, tree, owner, print, locals, raced, contested>>

Store(h) ==
    /\ pc[h] = "store"
    /\ rows' = [rows EXCEPT ![id[h]] = seen[h]]
    /\ Goto(h, IF op[h] = "init" THEN "compute" ELSE "save")
    /\ UNCHANGED <<env, tree, owner, print, locals, raced, contested>>

MutSave(h) ==   \* the fingerprint is computed anew when it is saved
    /\ pc[h] = "save"
    /\ print' = signals
    /\ Finish(h)
    /\ UNCHANGED <<env, tree, owner, rows, raced, contested>>

Save(h) ==
    /\ pc[h] = "save"
    /\ print' = mark[h]
    /\ Finish(h)
    /\ UNCHANGED <<env, tree, owner, rows, raced, contested>>

(* An unchanged fingerprint answers the stored profile, or the error that   *)
(* there is none.                                                           *)
Reuse(h) ==
    /\ pc[h] = "reuse"
    /\ Finish(h)
    /\ UNCHANGED <<env, tree, stored, raced, contested>>

-----------------------------------------------------------------------------
Step(h) ==
    \/ \E what \in {"init", "refresh"}, i \in Id : Start(h, what, i)
    \/ Fails(h)
    \/ LookForProject(h)
    \/ Claim(h)
    \/ LookForFingerprint(h)
    \/ WriteUnset(h)
    \/ CheckProject(h)
    \/ RejectProject(h)
    \/ LoadPrevious(h)
    \/ Compute(h)
    \/ Detect(h)
    \/ Store(h)
    \/ Save(h)
    \/ Reuse(h)

Next ==
    \/ \E v \in Version : Edit(v)
    \/ ToggleDeploys
    \/ \E h \in Handler : Step(h)

Spec == Init /\ [][Next]_vars

-----------------------------------------------------------------------------
(* A saved fingerprint has a stored profile, wherever the requests before   *)
(* have stopped: a refresh is never stuck with "missing cached profile",    *)
(* unless two first requests have bound the root to different ids.          *)
SavedPrintHasProfile ==
    print \in Version /\ ~contested => rows[owner] # None

(* A refresh that finds the fingerprint unchanged answers with the profile  *)
(* of the very signal files it has fingerprinted.  That takes a user who    *)
(* does not restore earlier files, and either one request at a time and no  *)
(* edit inside an init, or no edit while requests run; then requests may    *)
(* overlap and stop anywhere.                                               *)
Orderly == ~env.reverts /\ (env.quiet \/ (env.sequential /\ ~raced))

ReuseMatchesFingerprint ==
    Orderly =>
        \A h \in Handler :
            pc[h] = "reuse" /\ rows[id[h]] # None => rows[id[h]].signals = mark[h]
=============================================================================
