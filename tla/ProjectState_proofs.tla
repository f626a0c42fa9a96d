------------------------- MODULE ProjectState_proofs -------------------------
(***************************************************************************)
(* Proofs about ProjectState for any requests, ids and versions: its type  *)
(* invariant, that a saved fingerprint has a stored profile, and that a    *)
(* refresh that reuses a profile reuses that of the files it has           *)
(* fingerprinted.  The invariant follows what each request carries from    *)
(* step to step; its two main parts are one for each of the circumstances  *)
(* the last theorem allows.                                                *)
(***************************************************************************)
EXTENDS ProjectState, TLAPS

(* The request is past the check of project.json.                          *)
Passed(h) == pc[h] \in {"load", "compute", "detect", "store", "save", "reuse"}

(* The request has stored the profile it has detected.                      *)
HasStored(h) == pc[h] = "save" \/ (op[h] = "init" /\ pc[h] = "compute")

(* What a request carries at each of its steps.                             *)
LocalsInv ==
    \A h \in Handler :
        /\ pc[h] = "idle" => seen[h] = None /\ mark[h] = None
        /\ pc[h] # "idle" => id[h] \in Id
        /\ pc[h] = "store" => seen[h] \in Profile
        /\ pc[h] \in {"save", "reuse"} => mark[h] \in Version
        /\ op[h] = "refresh" /\ pc[h] \in {"detect", "store"} => mark[h] \in Version
        /\ pc[h] \in {"load", "reuse"} => op[h] = "refresh"
        /\ HasStored(h) => rows[id[h]] # None

(* Nothing is stored for a root that is bound to no id, and without a       *)
(* contest every request that is past the check names the bound one.        *)
OwnerInv ==
    /\ owner = None =>
         /\ print \notin Version
         /\ \A i \in Id : rows[i] = None
         /\ \A h \in Handler : ~Passed(h)
    /\ ~contested => \A h \in Handler : Passed(h) => id[h] = owner

(* The profile of i is no older than the fingerprint.                       *)
Covers(i) ==
    print \in Version /\ rows[i] # None => print <= rows[i].signals

(* What is stored is what the tree is.                                      *)
AllCurrent ==
    /\ print \in Version => print = signals
    /\ \A i \in Id : rows[i] # None => rows[i].signals = signals

(* As long as no edit restores an earlier version, nothing stored or        *)
(* carried is newer than the tree.                                          *)
NotAhead ==
    ~env.reverts =>
        /\ print \in Version => print <= signals
        /\ \A i \in Id : rows[i] # None => rows[i].signals <= signals
        /\ \A h \in Handler :
             /\ mark[h] # None => mark[h] <= signals
             /\ seen[h] # None => seen[h].signals <= signals
             /\ previous[h] \in Version => previous[h] <= signals

(* When the user waits for the requests, what they carry is current; two    *)
(* ids can be past the check together only with everything stored current.  *)
QuietInv ==
    env.quiet /\ ~env.reverts =>
        /\ owner # None => Covers(owner)
        /\ \A h \in Handler :
             /\ mark[h] # None => mark[h] = signals
             /\ seen[h] # None => seen[h].signals = signals
             /\ pc[h] = "claim" => AllCurrent
             /\ Passed(h) /\ id[h] # owner
                  => \A i \in Id : rows[i] # None => rows[i].signals = signals
             /\ HasStored(h) => rows[id[h]].signals = signals
             /\ op[h] = "refresh" /\ pc[h] = "compute"
                  /\ previous[h] \in Version /\ rows[id[h]] # None
                  => previous[h] <= rows[id[h]].signals
             /\ pc[h] = "reuse" /\ rows[id[h]] # None => rows[id[h]].signals = mark[h]

(* One request at a time: no contest.                                       *)
SequentialInv ==
    env.sequential =>
        /\ \A g, h \in Handler : pc[g] # "idle" /\ pc[h] # "idle" => g = h
        /\ \A h \in Handler :
             /\ pc[h] = "claim" => owner = None
             /\ Passed(h) => id[h] = owner

(* One request at a time, edits at any time but inside an init: each step   *)
(* keeps the profile at least as new as the fingerprint saved after it.     *)
UnracedInv ==
    env.sequential /\ ~env.reverts /\ ~raced =>
        /\ owner # None => Covers(owner)
        /\ \A h \in Handler :
             /\ op[h] = "init" /\ pc[h] = "store" => seen[h].signals = signals
             /\ op[h] = "init" /\ pc[h] = "compute" => rows[id[h]].signals = signals
             /\ pc[h] = "save" => mark[h] <= rows[id[h]].signals
             /\ op[h] = "refresh" /\ pc[h] = "compute" => previous[h] = print
             /\ op[h] = "refresh" /\ pc[h] = "store" => mark[h] <= seen[h].signals
             /\ pc[h] = "store" /\ print \in Version => print <= seen[h].signals
             /\ pc[h] = "reuse" /\ rows[id[h]] # None => rows[id[h]].signals = mark[h]

IInv ==
    /\ TypeOK
    /\ LocalsInv
    /\ OwnerInv
    /\ SavedPrintHasProfile
    /\ NotAhead
    /\ SequentialInv
    /\ QuietInv
    /\ UnracedInv

-----------------------------------------------------------------------------
(* Each action preserves the type invariant.                                *)
LEMMA TypeStep ==
    ASSUME TypeOK, [Next]_vars
    PROVE  TypeOK'
<1> USE DEF Goto, Finish, tree, stored, locals, TypeOK, PC, Profile
<1>1. ASSUME NEW v \in Version, Edit(v)
      PROVE  TypeOK'
  BY <1>1 DEF Edit, AllIdle
<1>2. CASE ToggleDeploys
  BY <1>2 DEF ToggleDeploys
<1>3. ASSUME NEW h \in Handler, Step(h)
      PROVE  TypeOK'
  <2>1. ASSUME NEW what \in {"init", "refresh"}, NEW i \in Id,
               Start(h, what, i)
        PROVE  TypeOK'
    BY <2>1 DEF Start, AllIdle
  <2>2. CASE Fails(h)
    BY <2>2 DEF Fails
  <2>3. CASE LookForProject(h)
    BY <2>3 DEF LookForProject
  <2>4. CASE Claim(h)
    BY <2>4 DEF Claim
  <2>5. CASE LookForFingerprint(h)
    BY <2>5 DEF LookForFingerprint
  <2>6. CASE WriteUnset(h)
    BY <2>6 DEF WriteUnset
  <2>7. CASE CheckProject(h)
    BY <2>7 DEF CheckProject
  <2>8. CASE RejectProject(h)
    BY <2>8 DEF RejectProject
  <2>9. CASE LoadPrevious(h)
    BY <2>9 DEF LoadPrevious
  <2>10. CASE Compute(h)
    BY <2>10 DEF Compute, AfterCompute
  <2>11. CASE Detect(h)
    BY <2>11 DEF Detect
  <2>12. CASE Store(h)
    BY <2>12 DEF Store
  <2>13. CASE Save(h)
    BY <2>13 DEF Save
  <2>14. CASE Reuse(h)
    BY <2>14 DEF Reuse
  <2>15. QED
    BY <1>3, <2>1, <2>2, <2>3, <2>4, <2>5, <2>6, <2>7,
       <2>8, <2>9, <2>10, <2>11, <2>12, <2>13, <2>14 DEF Step
<1>4. CASE UNCHANGED vars
  BY <1>4 DEF vars
<1>5. QED
  BY <1>1, <1>2, <1>3, <1>4 DEF Next

(* A request computes what it needs before the step that needs it.          *)
LEMMA LocalsStep ==
    ASSUME TypeOK, LocalsInv, [Next]_vars
    PROVE  LocalsInv'
<1> USE ProjectStateAssumption DEF Goto, Finish, tree, stored, locals, TypeOK,
        LocalsInv, HasStored, Profile
<1>1. ASSUME NEW v \in Version, Edit(v)
      PROVE  LocalsInv'
  BY <1>1 DEF Edit, AllIdle
<1>2. CASE ToggleDeploys
  BY <1>2 DEF ToggleDeploys
<1>3. ASSUME NEW h \in Handler, Step(h)
      PROVE  LocalsInv'
  <2>1. ASSUME NEW what \in {"init", "refresh"}, NEW i \in Id,
               Start(h, what, i)
        PROVE  LocalsInv'
    BY <2>1 DEF Start, AllIdle
  <2>2. CASE Fails(h)
    BY <2>2 DEF Fails
  <2>3. CASE LookForProject(h)
    BY <2>3 DEF LookForProject
  <2>4. CASE Claim(h)
    BY <2>4 DEF Claim
  <2>5. CASE LookForFingerprint(h)
    BY <2>5 DEF LookForFingerprint
  <2>6. CASE WriteUnset(h)
    BY <2>6 DEF WriteUnset
  <2>7. CASE CheckProject(h)
    BY <2>7 DEF CheckProject
  <2>8. CASE RejectProject(h)
    BY <2>8 DEF RejectProject
  <2>9. CASE LoadPrevious(h)
    BY <2>9 DEF LoadPrevious
  <2>10. CASE Compute(h)
    BY <2>10 DEF Compute, AfterCompute
  <2>11. CASE Detect(h)
    BY <2>11 DEF Detect
  <2>12. CASE Store(h)
    BY <2>12 DEF Store
  <2>13. CASE Save(h)
    BY <2>13 DEF Save
  <2>14. CASE Reuse(h)
    BY <2>14 DEF Reuse
  <2>15. QED
    BY <1>3, <2>1, <2>2, <2>3, <2>4, <2>5, <2>6, <2>7,
       <2>8, <2>9, <2>10, <2>11, <2>12, <2>13, <2>14 DEF Step
<1>4. CASE UNCHANGED vars
  BY <1>4 DEF vars
<1>5. QED
  BY <1>1, <1>2, <1>3, <1>4 DEF Next

(* Nothing is stored before a claim, and a second claim is a contest.       *)
LEMMA OwnerStep ==
    ASSUME TypeOK, LocalsInv, OwnerInv, [Next]_vars
    PROVE  OwnerInv'
<1> USE ProjectStateAssumption DEF Goto, Finish, tree, stored, locals, TypeOK,
        LocalsInv, OwnerInv, Passed
<1>1. ASSUME NEW v \in Version, Edit(v)
      PROVE  OwnerInv'
  BY <1>1 DEF Edit, AllIdle
<1>2. CASE ToggleDeploys
  BY <1>2 DEF ToggleDeploys
<1>3. ASSUME NEW h \in Handler, Step(h)
      PROVE  OwnerInv'
  <2>1. ASSUME NEW what \in {"init", "refresh"}, NEW i \in Id,
               Start(h, what, i)
        PROVE  OwnerInv'
    BY <2>1 DEF Start, AllIdle
  <2>2. CASE Fails(h)
    BY <2>2 DEF Fails
  <2>3. CASE LookForProject(h)
    BY <2>3 DEF LookForProject
  <2>4. CASE Claim(h)
    BY <2>4 DEF Claim
  <2>5. CASE LookForFingerprint(h)
    BY <2>5 DEF LookForFingerprint
  <2>6. CASE WriteUnset(h)
    BY <2>6 DEF WriteUnset
  <2>7. CASE CheckProject(h)
    BY <2>7 DEF CheckProject
  <2>8. CASE RejectProject(h)
    BY <2>8 DEF RejectProject
  <2>9. CASE LoadPrevious(h)
    BY <2>9 DEF LoadPrevious
  <2>10. CASE Compute(h)
    BY <2>10 DEF Compute, AfterCompute
  <2>11. CASE Detect(h)
    BY <2>11 DEF Detect
  <2>12. CASE Store(h)
    BY <2>12 DEF Store
  <2>13. CASE Save(h)
    BY <2>13 DEF Save
  <2>14. CASE Reuse(h)
    BY <2>14 DEF Reuse
  <2>15. QED
    BY <1>3, <2>1, <2>2, <2>3, <2>4, <2>5, <2>6, <2>7,
       <2>8, <2>9, <2>10, <2>11, <2>12, <2>13, <2>14 DEF Step
<1>4. CASE UNCHANGED vars
  BY <1>4 DEF vars
<1>5. QED
  BY <1>1, <1>2, <1>3, <1>4 DEF Next

(* The fingerprint is saved after the profile, under the same id.           *)
LEMMA SavedStep ==
    ASSUME TypeOK, LocalsInv, OwnerInv, SavedPrintHasProfile, [Next]_vars
    PROVE  SavedPrintHasProfile'
<1> USE ProjectStateAssumption DEF Goto, Finish, tree, stored, locals, TypeOK,
        LocalsInv, OwnerInv, SavedPrintHasProfile, Passed, HasStored
<1>1. ASSUME NEW v \in Version, Edit(v)
      PROVE  SavedPrintHasProfile'
  BY <1>1 DEF Edit, AllIdle
<1>2. CASE ToggleDeploys
  BY <1>2 DEF ToggleDeploys
<1>3. ASSUME NEW h \in Handler, Step(h)
      PROVE  SavedPrintHasProfile'
  <2>1. ASSUME NEW what \in {"init", "refresh"}, NEW i \in Id,
               Start(h, what, i)
        PROVE  SavedPrintHasProfile'
    BY <2>1 DEF Start, AllIdle
  <2>2. CASE Fails(h)
    BY <2>2 DEF Fails
  <2>3. CASE LookForProject(h)
    BY <2>3 DEF LookForProject
  <2>4. CASE Claim(h)
    BY <2>4 DEF Claim
  <2>5. CASE LookForFingerprint(h)
    BY <2>5 DEF LookForFingerprint
  <2>6. CASE WriteUnset(h)
    BY <2>6 DEF WriteUnset
  <2>7. CASE CheckProject(h)
    BY <2>7 DEF CheckProject
  <2>8. CASE RejectProject(h)
    BY <2>8 DEF RejectProject
  <2>9. CASE LoadPrevious(h)
    BY <2>9 DEF LoadPrevious
  <2>10. CASE Compute(h)
    BY <2>10 DEF Compute, AfterCompute
  <2>11. CASE Detect(h)
    BY <2>11 DEF Detect
  <2>12. CASE Store(h)
    BY <2>12 DEF Store
  <2>13. CASE Save(h)
    BY <2>13 DEF Save
  <2>14. CASE Reuse(h)
    BY <2>14 DEF Reuse
  <2>15. QED
    BY <1>3, <2>1, <2>2, <2>3, <2>4, <2>5, <2>6, <2>7,
       <2>8, <2>9, <2>10, <2>11, <2>12, <2>13, <2>14 DEF Step
<1>4. CASE UNCHANGED vars
  BY <1>4 DEF vars
<1>5. QED
  BY <1>1, <1>2, <1>3, <1>4 DEF Next

(* Requests copy what they read, and edits only go up.                      *)
LEMMA NotAheadStep ==
    ASSUME TypeOK, LocalsInv, NotAhead, [Next]_vars
    PROVE  NotAhead'
<1> USE ProjectStateAssumption DEF Goto, Finish, tree, stored, locals, TypeOK,
        LocalsInv, NotAhead, Version, Profile
<1>1. ASSUME NEW v \in Version, Edit(v)
      PROVE  NotAhead'
  BY <1>1 DEF Edit, AllIdle
<1>2. CASE ToggleDeploys
  BY <1>2 DEF ToggleDeploys
<1>3. ASSUME NEW h \in Handler, Step(h)
      PROVE  NotAhead'
  <2>1. ASSUME NEW what \in {"init", "refresh"}, NEW i \in Id,
               Start(h, what, i)
        PROVE  NotAhead'
    BY <2>1 DEF Start, AllIdle
  <2>2. CASE Fails(h)
    BY <2>2 DEF Fails
  <2>3. CASE LookForProject(h)
    BY <2>3 DEF LookForProject
  <2>4. CASE Claim(h)
    BY <2>4 DEF Claim
  <2>5. CASE LookForFingerprint(h)
    BY <2>5 DEF LookForFingerprint
  <2>6. CASE WriteUnset(h)
    BY <2>6 DEF WriteUnset
  <2>7. CASE CheckProject(h)
    BY <2>7 DEF CheckProject
  <2>8. CASE RejectProject(h)
    BY <2>8 DEF RejectProject
  <2>9. CASE LoadPrevious(h)
    BY <2>9 DEF LoadPrevious
  <2>10. CASE Compute(h)
    BY <2>10 DEF Compute, AfterCompute
  <2>11. CASE Detect(h)
    BY <2>11 DEF Detect
  <2>12. CASE Store(h)
    BY <2>12 DEF Store
  <2>13. CASE Save(h)
    BY <2>13 DEF Save
  <2>14. CASE Reuse(h)
    BY <2>14 DEF Reuse
  <2>15. QED
    BY <1>3, <2>1, <2>2, <2>3, <2>4, <2>5, <2>6, <2>7,
       <2>8, <2>9, <2>10, <2>11, <2>12, <2>13, <2>14 DEF Step
<1>4. CASE UNCHANGED vars
  BY <1>4 DEF vars
<1>5. QED
  BY <1>1, <1>2, <1>3, <1>4 DEF Next

(* A request starts when no other one runs, so nobody else claims.          *)
LEMMA SequentialStep ==
    ASSUME TypeOK, LocalsInv, OwnerInv, SequentialInv, [Next]_vars
    PROVE  SequentialInv'
<1> USE ProjectStateAssumption DEF Goto, Finish, tree, stored, locals, TypeOK,
        LocalsInv, OwnerInv, SequentialInv, Passed
<1>1. ASSUME NEW v \in Version, Edit(v)
      PROVE  SequentialInv'
  BY <1>1 DEF Edit, AllIdle
<1>2. CASE ToggleDeploys
  BY <1>2 DEF ToggleDeploys
<1>3. ASSUME NEW h \in Handler, Step(h)
      PROVE  SequentialInv'
  <2>1. ASSUME NEW what \in {"init", "refresh"}, NEW i \in Id,
               Start(h, what, i)
        PROVE  SequentialInv'
    BY <2>1 DEF Start, AllIdle
  <2>2. CASE Fails(h)
    BY <2>2 DEF Fails
  <2>3. CASE LookForProject(h)
    BY <2>3 DEF LookForProject
  <2>4. CASE Claim(h)
    BY <2>4 DEF Claim
  <2>5. CASE LookForFingerprint(h)
    BY <2>5 DEF LookForFingerprint
  <2>6. CASE WriteUnset(h)
    BY <2>6 DEF WriteUnset
  <2>7. CASE CheckProject(h)
    BY <2>7 DEF CheckProject
  <2>8. CASE RejectProject(h)
    BY <2>8 DEF RejectProject
  <2>9. CASE LoadPrevious(h)
    BY <2>9 DEF LoadPrevious
  <2>10. CASE Compute(h)
    BY <2>10 DEF Compute, AfterCompute
  <2>11. CASE Detect(h)
    BY <2>11 DEF Detect
  <2>12. CASE Store(h)
    BY <2>12 DEF Store
  <2>13. CASE Save(h)
    BY <2>13 DEF Save
  <2>14. CASE Reuse(h)
    BY <2>14 DEF Reuse
  <2>15. QED
    BY <1>3, <2>1, <2>2, <2>3, <2>4, <2>5, <2>6, <2>7,
       <2>8, <2>9, <2>10, <2>11, <2>12, <2>13, <2>14 DEF Step
<1>4. CASE UNCHANGED vars
  BY <1>4 DEF vars
<1>5. QED
  BY <1>1, <1>2, <1>3, <1>4 DEF Next

(* Edits find no request at work, and only make what is stored older.       *)
LEMMA QuietStep ==
    ASSUME TypeOK, LocalsInv, OwnerInv, NotAhead, QuietInv, [Next]_vars
    PROVE  QuietInv'
<1> USE ProjectStateAssumption DEF Goto, Finish, tree, stored, locals, TypeOK,
        LocalsInv, OwnerInv, NotAhead, QuietInv, AllCurrent, Covers, Passed,
        HasStored, Version, Profile
<1>1. ASSUME NEW v \in Version, Edit(v)
      PROVE  QuietInv'
  BY <1>1 DEF Edit, AllIdle
<1>2. CASE ToggleDeploys
  BY <1>2 DEF ToggleDeploys
<1>3. ASSUME NEW h \in Handler, Step(h)
      PROVE  QuietInv'
  <2>1. ASSUME NEW what \in {"init", "refresh"}, NEW i \in Id,
               Start(h, what, i)
        PROVE  QuietInv'
    BY <2>1 DEF Start, AllIdle
  <2>2. CASE Fails(h)
    BY <2>2 DEF Fails
  <2>3. CASE LookForProject(h)
    BY <2>3 DEF LookForProject
  <2>4. CASE Claim(h)
    BY <2>4 DEF Claim
  <2>5. CASE LookForFingerprint(h)
    BY <2>5 DEF LookForFingerprint
  <2>6. CASE WriteUnset(h)
    BY <2>6 DEF WriteUnset
  <2>7. CASE CheckProject(h)
    BY <2>7 DEF CheckProject
  <2>8. CASE RejectProject(h)
    BY <2>8 DEF RejectProject
  <2>9. CASE LoadPrevious(h)
    BY <2>9 DEF LoadPrevious
  <2>10. CASE Compute(h)
    BY <2>10 DEF Compute, AfterCompute
  <2>11. CASE Detect(h)
    BY <2>11 DEF Detect
  <2>12. CASE Store(h)
    BY <2>12 DEF Store
  <2>13. CASE Save(h)
    BY <2>13 DEF Save
  <2>14. CASE Reuse(h)
    BY <2>14 DEF Reuse
  <2>15. QED
    BY <1>3, <2>1, <2>2, <2>3, <2>4, <2>5, <2>6, <2>7,
       <2>8, <2>9, <2>10, <2>11, <2>12, <2>13, <2>14 DEF Step
<1>4. CASE UNCHANGED vars
  BY <1>4 DEF vars
<1>5. QED
  BY <1>1, <1>2, <1>3, <1>4 DEF Next

(* A refresh fingerprints before it detects; an init that detects before it *)
(* fingerprints is exempt only if an edit came between.                     *)
LEMMA UnracedStep ==
    ASSUME TypeOK, LocalsInv, OwnerInv, NotAhead, SequentialInv, UnracedInv,
           [Next]_vars
    PROVE  UnracedInv'
<1> USE ProjectStateAssumption DEF Goto, Finish, tree, stored, locals, TypeOK,
        LocalsInv, OwnerInv, NotAhead, SequentialInv, UnracedInv, Covers,
        Passed, HasStored, Version, Profile
<1>1. ASSUME NEW v \in Version, Edit(v)
      PROVE  UnracedInv'
  BY <1>1 DEF Edit, AllIdle
<1>2. CASE ToggleDeploys
  BY <1>2 DEF ToggleDeploys
<1>3. ASSUME NEW h \in Handler, Step(h)
      PROVE  UnracedInv'
  <2>1. ASSUME NEW what \in {"init", "refresh"}, NEW i \in Id,
               Start(h, what, i)
        PROVE  UnracedInv'
    BY <2>1 DEF Start, AllIdle
  <2>2. CASE Fails(h)
    BY <2>2 DEF Fails
  <2>3. CASE LookForProject(h)
    BY <2>3 DEF LookForProject
  <2>4. CASE Claim(h)
    BY <2>4 DEF Claim
  <2>5. CASE LookForFingerprint(h)
    BY <2>5 DEF LookForFingerprint
  <2>6. CASE WriteUnset(h)
    BY <2>6 DEF WriteUnset
  <2>7. CASE CheckProject(h)
    BY <2>7 DEF CheckProject
  <2>8. CASE RejectProject(h)
    BY <2>8 DEF RejectProject
  <2>9. CASE LoadPrevious(h)
    BY <2>9 DEF LoadPrevious
  <2>10. CASE Compute(h)
    BY <2>10 DEF Compute, AfterCompute
  <2>11. CASE Detect(h)
    BY <2>11 DEF Detect
  <2>12. CASE Store(h)
    BY <2>12 DEF Store
  <2>13. CASE Save(h)
    BY <2>13 DEF Save
  <2>14. CASE Reuse(h)
    BY <2>14 DEF Reuse
  <2>15. QED
    BY <1>3, <2>1, <2>2, <2>3, <2>4, <2>5, <2>6, <2>7,
       <2>8, <2>9, <2>10, <2>11, <2>12, <2>13, <2>14 DEF Step
<1>4. CASE UNCHANGED vars
  BY <1>4 DEF vars
<1>5. QED
  BY <1>1, <1>2, <1>3, <1>4 DEF Next

-----------------------------------------------------------------------------
LEMMA Inductive == Spec => []IInv
<1>1. Init => IInv
  BY ProjectStateAssumption
     DEF Init, IInv, TypeOK, PC, LocalsInv, OwnerInv, SavedPrintHasProfile, NotAhead,
         SequentialInv, QuietInv, UnracedInv, Covers, Passed, HasStored
<1>2. IInv /\ [Next]_vars => IInv'
  BY TypeStep, LocalsStep, OwnerStep, SavedStep, NotAheadStep, SequentialStep, QuietStep,
     UnracedStep DEF IInv
<1>3. QED
  BY <1>1, <1>2, PTL DEF Spec

(* The state of a project root has the types TypeOK gives it.               *)
THEOREM TypeCorrect == Spec => []TypeOK
<1>1. IInv => TypeOK
  BY DEF IInv
<1>2. QED
  BY Inductive, <1>1, PTL

(* Wherever requests stop and however they overlap, a saved fingerprint has *)
(* a stored profile, so that a refresh is not stuck without one.            *)
THEOREM PrintsHaveProfiles == Spec => []SavedPrintHasProfile
<1>1. IInv => SavedPrintHasProfile
  BY DEF IInv
<1>2. QED
  BY Inductive, <1>1, PTL

(* A refresh reuses the profile of the files it has fingerprinted: for      *)
(* overlapping and failing requests if the user edits only between them,    *)
(* for edits at any time if requests follow each other and no edit fell     *)
(* inside an init.                                                          *)
THEOREM ReuseIsConsistent == Spec => []ReuseMatchesFingerprint
<1>1. IInv => ReuseMatchesFingerprint
  BY DEF IInv, ReuseMatchesFingerprint, Orderly, QuietInv, UnracedInv
<1>2. QED
  BY Inductive, <1>1, PTL
=============================================================================
