--------------------------- MODULE DocsStore_proofs ---------------------------
(***************************************************************************)
(* Proofs about DocsStore for any requests, documents and texts: its type  *)
(* invariant, that only a fault tears a document, that clients that keep   *)
(* apart see the shelf of DocShelf, and the bound on the documents.        *)
(***************************************************************************)
EXTENDS DocsStore, FiniteSetTheorems, TLAPS

(* What a request has decided at each of its steps.                         *)
LocalsInv ==
    \A h \in Handler :
        /\ open[h] # None => pc[h] = "write"
        /\ pc[h] # "idle" => (job[h].op # "move" => job[h].from = job[h].to)
        /\ pc[h] = "count" => job[h].op = "create"
        /\ pc[h] \in {"open", "write"} => job[h].op \in {"create", "update"}
        /\ pc[h] \in {"source", "rename"} => job[h].op \in Renames
        /\ pc[h] = "target" => job[h].op \in {"create", "update", "move", "restore"}

(* What a request has checked stays so until it acts, because nobody else   *)
(* names its documents; the file it writes stays where it is.               *)
ApartInv ==
    env.apart =>
        /\ \A g, h \in Handler :
             pc[g] # "idle" /\ pc[h] # "idle" /\ g # h
               => Touched(job[g]) \intersect Touched(job[h]) = {}
        /\ \A h \in Handler :
             /\ open[h] # None => open[h] = Doc(job[h].to) /\ disk[open[h]] = Blank
             /\ pc[h] = "open" => ((disk[Doc(job[h].to)] # None) = (job[h].op = "update"))
             /\ pc[h] = "rename" /\ job[h].op \in {"move", "restore"}
                  => disk[Doc(job[h].to)] = None

IInv == TypeOK /\ LocalsInv /\ ApartInv /\ NoTornDocs

-----------------------------------------------------------------------------
(* A place is that of a document or that of one in the trash.               *)
LEMMA Places ==
    /\ \A p \in Path : Doc(p) \in Place /\ Trash(p) \in Place
    /\ \A p, q \in Path : Doc(p) # Trash(q)
    /\ \A p, q \in Path : Doc(p) = Doc(q) => p = q
    /\ \A p, q \in Path : Trash(p) = Trash(q) => p = q
    /\ None \notin Place
BY DocsStoreAssumption DEF Doc, Trash, Place

LEMMA JobPlaces ==
    ASSUME NEW j \in Job
    PROVE  Source(j) \in Place /\ Target(j) \in Place
BY Places DEF Source, Target, Job

LEMMA TypeInit == Init => TypeOK
BY DEF Init, TypeOK, PC

LEMMA TypeStep == TypeOK /\ [Next]_vars => TypeOK'
<1> SUFFICES ASSUME TypeOK, [Next]_vars
             PROVE  TypeOK'
  OBVIOUS
<1> USE DEF TypeOK, PC, Goto, walk
<1>1. ASSUME NEW h \in Handler, Step(h)
      PROVE  TypeOK'
  <2>1. ASSUME NEW j \in Job, Start(h, j)
        PROVE  TypeOK'
    <3>1. First(j) \in PC
      BY DEF First, Job, Op, Renames
    <3>2. env.paths \subseteq Path
      BY DocsStoreAssumption DEF Environment
    <3>3. QED
      BY <2>1, <3>1, <3>2 DEF Start
  <2>2. CASE Fails(h)
    BY <2>2 DEF Fails, Finish
  <2>3. ASSUME NEW p \in Path, Visit(h, p)
        PROVE  TypeOK'
    BY <2>3 DEF Visit
  <2>4. ASSUME NEW p \in Path, Discard(h, p)
        PROVE  TypeOK'
    BY <2>4 DEF Discard
  <2>5. CASE Judge(h)
    BY <2>5 DEF Judge
  <2>6. CASE CheckSource(h)
    BY <2>6 DEF CheckSource
  <2>7. CASE CheckTarget(h)
    BY <2>7 DEF CheckTarget
  <2>8. CASE Open(h)
    BY <2>8, JobPlaces DEF Open
  <2>9. CASE Write(h)
    <3>1. \A old, t : Fill(old, t) \subseteq {t, Garbled}
      BY DEF Fill
    <3>2. job[h].text \in Text
      BY <2>9 DEF Write, Job
    <3>3. QED
      BY <2>9, <3>1, <3>2 DEF Write, Finish
  <2>10. CASE Rename(h)
    <3>1. Target(job[h]) \in Place /\ Source(job[h]) \in Place
      BY <2>10, JobPlaces DEF Rename
    <3>2. disk' \in [Place -> Text \union {None, Blank, Garbled}]
      BY <2>10, <3>1 DEF Rename
    <3>3. open' \in [Handler -> Place \union {None}]
      BY <2>10, <3>1 DEF Rename, Relink
    <3>4. QED
      BY <2>10, <3>2, <3>3 DEF Rename
  <2>11. CASE Emptied(h)
    BY <2>11 DEF Emptied, Finish
  <2>12. QED
    BY <1>1, <2>1, <2>2, <2>3, <2>4, <2>5, <2>6, <2>7, <2>8, <2>9, <2>10, <2>11 DEF Step
<1>2. CASE UNCHANGED vars
  BY <1>2 DEF vars
<1>3. QED
  BY <1>1, <1>2 DEF Next

(* Type correctness of the managed documents.                               *)
THEOREM TypeCorrect == Spec => []TypeOK
BY TypeInit, TypeStep, PTL DEF Spec

-----------------------------------------------------------------------------
LEMMA LocalsStep == TypeOK /\ LocalsInv /\ [Next]_vars => LocalsInv'
<1> SUFFICES ASSUME TypeOK, LocalsInv, [Next]_vars
             PROVE  LocalsInv'
  OBVIOUS
<1> USE DEF TypeOK, LocalsInv, Goto, walk
<1>1. ASSUME NEW h \in Handler, Step(h)
      PROVE  LocalsInv'
  <2>1. ASSUME NEW j \in Job, Start(h, j)
        PROVE  LocalsInv'
    <3>1. /\ First(j) = "count" => j.op = "create"
          /\ First(j) = "source" => j.op \in Renames
          /\ First(j) = "target" => j.op = "update"
          /\ First(j) \in {"count", "target", "purge", "source"}
      BY DEF First, Job, Op, Renames
    <3>2. QED
      BY <2>1, <3>1 DEF Start
  <2>2. CASE Fails(h)
    BY <2>2 DEF Fails, Finish
  <2>3. ASSUME NEW p \in Path, Visit(h, p)
        PROVE  LocalsInv'
    BY <2>3 DEF Visit
  <2>4. ASSUME NEW p \in Path, Discard(h, p)
        PROVE  LocalsInv'
    BY <2>4 DEF Discard
  <2>5. CASE Judge(h)
    BY <2>5 DEF Judge
  <2>6. CASE CheckSource(h)
    BY <2>6 DEF CheckSource, Renames
  <2>7. CASE CheckTarget(h)
    BY <2>7 DEF CheckTarget, Renames
  <2>8. CASE Open(h)
    BY <2>8 DEF Open
  <2>9. CASE Write(h)
    BY <2>9 DEF Write, Finish
  <2>10. CASE Rename(h)
    <3>1. \A g \in Handler : open'[g] # None => open[g] # None
      <4> TAKE g \in Handler
      <4>1. open[g] = None => Relink(Source(job[h]), Target(job[h]), open[g]) = None
        BY <2>10, JobPlaces, Places DEF Rename, Relink
      <4>2. QED
        BY <2>10, <4>1 DEF Rename
    <3>2. pc[h] # "write"
      BY <2>10 DEF Rename
    <3>3. QED
      BY <2>10, <3>1, <3>2 DEF Rename
  <2>11. CASE Emptied(h)
    BY <2>11 DEF Emptied, Finish
  <2>12. QED
    BY <1>1, <2>1, <2>2, <2>3, <2>4, <2>5, <2>6, <2>7, <2>8, <2>9, <2>10, <2>11 DEF Step
<1>2. CASE UNCHANGED vars
  BY <1>2 DEF vars
<1>3. QED
  BY <1>1, <1>2 DEF Next

-----------------------------------------------------------------------------
(* A torn file has a writer, which takes it out of the invariant only by    *)
(* filling it; renames and removals move or cut the writer with its file.   *)
LEMMA TornStep == TypeOK /\ LocalsInv /\ NoTornDocs /\ [Next]_vars => NoTornDocs'
<1> SUFFICES ASSUME TypeOK, LocalsInv, NoTornDocs, [Next]_vars, ~env.faults',
                    NEW x \in Place, disk'[x] = Blank
             PROVE  \E g \in Handler : open'[g] = x
  BY DEF NoTornDocs, Writers
<1> USE DEF TypeOK, Goto, walk
<1>1. disk[x] = Blank /\ ~env.faults => \E g \in Handler : open[g] = x
  BY DEF NoTornDocs, Writers
<1>2. ASSUME NEW h \in Handler, Step(h)
      PROVE  \E g \in Handler : open'[g] = x
  <2>1. ASSUME NEW j \in Job, Start(h, j)
        PROVE  \E g \in Handler : open'[g] = x
    BY <1>1, <2>1 DEF Start
  <2>2. CASE Fails(h)
    <3>1. open[h] = None
      BY <2>2 DEF Fails, LocalsInv
    <3>2. QED
      BY <1>1, <2>2, <3>1, Places DEF Fails, Finish
  <2>3. ASSUME NEW p \in Path, Visit(h, p)
        PROVE  \E g \in Handler : open'[g] = x
    BY <1>1, <2>3 DEF Visit
  <2>4. ASSUME NEW p \in Path, Discard(h, p)
        PROVE  \E g \in Handler : open'[g] = x
    <3>1. x # Trash(p) /\ disk[x] = Blank
      BY <2>4, Places, DocsStoreAssumption DEF Discard
    <3>2. QED
      BY <1>1, <2>4, <3>1 DEF Discard
  <2>5. CASE Judge(h) \/ CheckSource(h) \/ CheckTarget(h)
    BY <1>1, <2>5 DEF Judge, CheckSource, CheckTarget
  <2>6. CASE Open(h)
    <3>1. CASE x = Target(job[h])
      BY <2>6, <3>1 DEF Open
    <3>2. CASE x # Target(job[h])
      <4>1. open[h] = None
        BY <2>6 DEF Open, LocalsInv
      <4>2. QED
        BY <1>1, <2>6, <3>2, <4>1, Places DEF Open
    <3>3. QED
      BY <3>1, <3>2
  <2>7. CASE Write(h)
    <3>1. x # open[h] /\ disk[x] = Blank
      <4>1. job[h].text \in Text
        BY <2>7 DEF Write, Job
      <4>2. Blank \notin Fill(disk[open[h]], job[h].text)
        BY <4>1, DocsStoreAssumption DEF Fill
      <4>3. QED
        BY <2>7, <4>2, Places DEF Write
    <3>2. QED
      BY <1>1, <2>7, <3>1 DEF Write, Finish
  <2>8. CASE Rename(h)
    <3> DEFINE a == Source(job[h])
               b == Target(job[h])
    <3>1. a \in Place /\ b \in Place
      BY <2>8, JobPlaces DEF Rename
    <3>2. CASE x = b
      <4>1. disk[a] = Blank
        BY <2>8, <3>1, <3>2, DocsStoreAssumption DEF Rename
      <4>2. PICK g \in Handler : open[g] = a
        BY <2>8, <3>1, <4>1 DEF NoTornDocs, Writers, Rename
      <4>3. open'[g] = b
        BY <2>8, <4>2 DEF Rename, Relink
      <4>4. QED
        BY <3>2, <4>3
    <3>3. CASE x # b
      <4>1. x # a /\ disk[x] = Blank
        BY <2>8, <3>1, <3>3, DocsStoreAssumption DEF Rename
      <4>2. PICK g \in Handler : open[g] = x
        BY <1>1, <2>8, <4>1 DEF Rename
      <4>3. open'[g] = x
        BY <2>8, <3>3, <4>1, <4>2 DEF Rename, Relink
      <4>4. QED
        BY <4>3
    <3>4. QED
      BY <3>2, <3>3
  <2>9. CASE Emptied(h)
    <3>1. open[h] = None
      BY <2>9 DEF Emptied, LocalsInv
    <3>2. QED
      BY <1>1, <2>9, <3>1, Places DEF Emptied, Finish
  <2>10. QED
    BY <1>2, <2>1, <2>2, <2>3, <2>4, <2>5, <2>6, <2>7, <2>8, <2>9 DEF Step
<1>3. CASE UNCHANGED vars
  BY <1>1, <1>3 DEF vars
<1>4. QED
  BY <1>2, <1>3 DEF Next

(* However requests race, only a write that stops half way leaves a         *)
(* document without its text.                                               *)
THEOREM OnlyFaultsTear == Spec => []NoTornDocs
<1>1. Init => LocalsInv /\ NoTornDocs
  BY DocsStoreAssumption DEF Init, LocalsInv, NoTornDocs
<1>2. QED
  BY <1>1, TypeInit, TypeStep, LocalsStep, TornStep, PTL DEF Spec

-----------------------------------------------------------------------------
(* The document one request acts on is no source or target of another.      *)
LEMMA Disjoint ==
    ASSUME TypeOK, ApartInv, env.apart,
           NEW g \in Handler, NEW h \in Handler, g # h,
           pc[g] # "idle", pc[h] # "idle",
           job[g].op # "empty", job[h].op # "empty"
    PROVE  Doc(job[g].to) \notin {Source(job[h]), Target(job[h])}
<1>1. job[g] \in Job /\ job[h] \in Job
  BY DEF TypeOK
<1>2. job[g].to \notin {job[h].from, job[h].to}
  BY DEF ApartInv, Touched
<1>3. QED
  BY <1>1, <1>2, Places DEF Source, Target, Job

(* What ApartInv says of one request.                                       *)
Settled(h) ==
    /\ open[h] # None => open[h] = Doc(job[h].to) /\ disk[open[h]] = Blank
    /\ pc[h] = "open" => ((disk[Doc(job[h].to)] # None) = (job[h].op = "update"))
    /\ pc[h] = "rename" /\ job[h].op \in {"move", "restore"}
         => disk[Doc(job[h].to)] = None

LEMMA ApartStep == TypeOK /\ LocalsInv /\ ApartInv /\ [Next]_vars => ApartInv'
<1> DEFINE NoneShared ==
               \A g, h \in Handler :
                   pc'[g] # "idle" /\ pc'[h] # "idle" /\ g # h
                     => Touched(job'[g]) \intersect Touched(job'[h]) = {}
           Goal == NoneShared /\ \A g \in Handler : Settled(g)'
<1> SUFFICES ASSUME TypeOK, LocalsInv, ApartInv, [Next]_vars, env.apart'
             PROVE  Goal
  BY DEF ApartInv, Settled
<1> USE DEF TypeOK, Goto, walk
<1>1. env' = env
  BY DEF Next, Step, Start, Fails, Visit, Judge, CheckSource, CheckTarget, Open, Write,
         Rename, Discard, Emptied, vars
<1>2. /\ \A g, h \in Handler :
            pc[g] # "idle" /\ pc[h] # "idle" /\ g # h
              => Touched(job[g]) \intersect Touched(job[h]) = {}
      /\ \A g \in Handler : Settled(g)
  BY <1>1 DEF ApartInv, Settled
<1>3. ASSUME NEW h \in Handler, Step(h)
      PROVE  Goal
  <2>1. ASSUME NEW j \in Job, Start(h, j)
        PROVE  Goal
    <3>1. First(j) \notin {"open", "rename"} /\ open[h] = None
      BY <2>1 DEF First, Job, Op, Renames, Start, LocalsInv
    <3>2. \A g \in Handler : pc[g] # "idle" => Touched(j) \intersect Touched(job[g]) = {}
      BY <1>1, <2>1 DEF Start, KeepsApart
    <3>3. \A g \in Handler \ {h} : pc'[g] = pc[g] /\ job'[g] = job[g]
      BY <2>1 DEF Start
    <3>4. job'[h] = j /\ pc'[h] = First(j) /\ pc[h] = "idle"
      BY <2>1 DEF Start
    <3>5. NoneShared
      BY <1>2, <3>2, <3>3, <3>4
    <3>6. \A g \in Handler : Settled(g)'
      BY <1>2, <2>1, <3>1, <3>3, <3>4 DEF Start, Settled
    <3>7. QED
      BY <3>5, <3>6
  <2>2. CASE Fails(h) \/ Emptied(h)
    BY <1>2, <2>2 DEF Fails, Emptied, Finish, Settled
  <2>3. ASSUME NEW p \in Path, Visit(h, p)
        PROVE  Goal
    BY <1>2, <2>3 DEF Visit, Settled
  <2>4. ASSUME NEW p \in Path, Discard(h, p)
        PROVE  Goal
    <3>1. \A g \in Handler : pc[g] # "idle" => Doc(job[g].to) # Trash(p)
      BY Places DEF Job
    <3>2. \A g \in Handler : Settled(g)'
      <4> TAKE g \in Handler
      <4>1. pc[g] # "idle" => disk'[Doc(job[g].to)] = disk[Doc(job[g].to)]
        BY <2>4, <3>1 DEF Discard
      <4>2. open[g] # None => pc[g] # "idle"
        BY DEF LocalsInv
      <4>3. open'[g] # None => open'[g] = open[g]
        BY <2>4 DEF Discard
      <4>4. pc'[g] = pc[g] /\ job'[g] = job[g]
        BY <2>4 DEF Discard
      <4>5. QED
        BY <1>2, <4>1, <4>2, <4>3, <4>4 DEF Settled
    <3>3. QED
      BY <1>2, <2>4, <3>2 DEF Discard
  <2>5. CASE Judge(h) \/ CheckSource(h)
    BY <1>2, <2>5 DEF Judge, CheckSource, Settled
  <2>6. CASE CheckTarget(h)
    <3>1. Target(job[h]) = Doc(job[h].to)
      BY <2>6 DEF CheckTarget, LocalsInv, Target
    <3>2. QED
      BY <1>2, <2>6, <3>1 DEF CheckTarget, TargetFits, Settled, Renames, LocalsInv
  <2>7. CASE Open(h) \/ Write(h) \/ Rename(h)
    <3>1. \A g \in Handler \ {h} : pc'[g] = pc[g] /\ job'[g] = job[g]
      BY <2>7 DEF Open, Write, Rename, Finish
    <3>2. pc[h] # "idle" /\ job[h].op # "empty"
      BY <2>7 DEF Open, Write, Rename, LocalsInv, Renames
    <3>3. \A x \in Place : x \notin {Source(job[h]), Target(job[h])} => disk'[x] = disk[x]
      <4>1. CASE Open(h)
        BY <4>1 DEF Open
      <4>2. CASE Write(h)
        <5>1. open[h] # None => open[h] = Target(job[h])
          BY <1>2, <4>2 DEF Write, Settled, LocalsInv, Target
        <5>2. QED
          BY <4>2, <5>1 DEF Write
      <4>3. CASE Rename(h)
        BY <4>3 DEF Rename
      <4>4. QED
        BY <2>7, <4>1, <4>2, <4>3
    <3>4. ASSUME NEW g \in Handler \ {h}
          PROVE  Settled(g)'
      <4>1. pc[g] \in {"open", "write", "rename"} =>
              /\ Doc(job[g].to) \notin {Source(job[h]), Target(job[h])}
              /\ disk'[Doc(job[g].to)] = disk[Doc(job[g].to)]
        <5> SUFFICES ASSUME pc[g] \in {"open", "write", "rename"}
                     PROVE  /\ Doc(job[g].to) \notin {Source(job[h]), Target(job[h])}
                            /\ disk'[Doc(job[g].to)] = disk[Doc(job[g].to)]
          OBVIOUS
        <5>1. pc[g] # "idle" /\ job[g].op # "empty"
          BY DEF LocalsInv, Renames
        <5>2. Doc(job[g].to) \notin {Source(job[h]), Target(job[h])}
          BY <1>1, <3>2, <5>1, Disjoint
        <5>3. Doc(job[g].to) \in Place
          BY <5>1, Places DEF Job
        <5>4. QED
          BY <3>3, <5>2, <5>3
      <4>2. open[g] # None => pc[g] = "write" /\ open[g] = Doc(job[g].to)
        BY <1>2 DEF LocalsInv, Settled
      <4>3. open'[g] = open[g]
        <5>1. CASE Open(h) \/ Write(h)
          BY <5>1 DEF Open, Write, Finish
        <5>2. CASE Rename(h)
          <6>1. Source(job[h]) # None /\ Target(job[h]) # None
            BY <3>2, JobPlaces, Places
          <6>2. open[g] \notin {Source(job[h]), Target(job[h])}
            BY <4>1, <4>2, <6>1
          <6>3. QED
            BY <5>2, <6>2 DEF Rename, Relink
        <5>3. QED
          BY <2>7, <5>1, <5>2
      <4>4. QED
        BY <1>2, <3>1, <4>1, <4>2, <4>3 DEF Settled
    <3>5. Settled(h)'
      <4>1. CASE Open(h)
        <5>1. Target(job[h]) = Doc(job[h].to) /\ Target(job[h]) \in Place
          BY <4>1, JobPlaces DEF Open, LocalsInv, Target
        <5>2. QED
          BY <4>1, <5>1 DEF Open, Settled
      <4>2. CASE Write(h)
        BY <4>2 DEF Write, Finish, Settled
      <4>3. CASE Rename(h)
        <5>1. open[h] = None /\ Source(job[h]) # None /\ Target(job[h]) # None
          BY <3>2, <4>3, JobPlaces, Places DEF Rename, LocalsInv
        <5>2. open'[h] = None /\ pc'[h] = "idle"
          BY <4>3, <5>1 DEF Rename, Relink
        <5>3. QED
          BY <5>2 DEF Settled
      <4>4. QED
        BY <2>7, <4>1, <4>2, <4>3
    <3>6. \A g \in Handler : pc'[g] # "idle" => pc[g] # "idle" /\ job'[g] = job[g]
      BY <2>7, <3>1, <3>2 DEF Open, Write, Rename, Finish
    <3>7. QED
      BY <1>2, <3>4, <3>5, <3>6
  <2>8. QED
    BY <1>3, <2>1, <2>2, <2>3, <2>4, <2>5, <2>6, <2>7 DEF Step
<1>4. CASE UNCHANGED vars
  BY <1>2, <1>4 DEF vars, Settled
<1>5. QED
  BY <1>3, <1>4 DEF Next

(* No file is open for a request but that of its own document.              *)
LEMMA OneWriter ==
    ASSUME TypeOK, LocalsInv, ApartInv, env.apart,
           NEW h \in Handler, NEW g \in Handler, g # h,
           pc[h] \in {"open", "write"}, open[g] # None
    PROVE  open[g] # Doc(job[h].to)
<1>1. /\ pc[g] # "idle" /\ job[g].op # "empty" /\ open[g] = Doc(job[g].to)
      /\ pc[h] # "idle" /\ job[h].op \in {"create", "update"}
  BY DEF LocalsInv, ApartInv
<1>2. Doc(job[g].to) # Target(job[h])
  BY <1>1, Disjoint
<1>3. QED
  BY <1>1, <1>2 DEF Target

-----------------------------------------------------------------------------
(* Shown without its choice of a writer: between clients that keep apart a  *)
(* place has at most one.                                                   *)
ShownOK ==
    \A x \in Place :
        /\ \A h \in Handler : open[h] = x => Shown(x) = job[h].text
        /\ (\A h \in Handler : open[h] # x) => Shown(x) = disk[x]

LEMMA ShownIs == TypeOK /\ LocalsInv /\ ApartInv /\ env.apart => ShownOK
<1> SUFFICES ASSUME TypeOK, LocalsInv, ApartInv, env.apart, NEW x \in Place
             PROVE  /\ \A h \in Handler : open[h] = x => Shown(x) = job[h].text
                    /\ (\A h \in Handler : open[h] # x) => Shown(x) = disk[x]
  BY DEF ShownOK
<1>1. ASSUME NEW h \in Handler, open[h] = x
      PROVE  Writers(x) = {h}
  <2>1. ASSUME NEW g \in Handler, open[g] = x
        PROVE  g = h
    <3>1. open[g] # None /\ open[h] # None
      BY <1>1, <2>1, Places
    <3>2. pc[g] = "write" /\ pc[h] = "write" /\ job[g].op # "empty" /\ job[h].op # "empty"
      BY <3>1 DEF LocalsInv
    <3>3. Doc(job[g].to) = Doc(job[h].to) /\ job[g].to \in Path /\ job[h].to \in Path
      BY <1>1, <2>1, <3>1, <3>2 DEF ApartInv, TypeOK, Job
    <3>4. job[g].to \in Touched(job[g]) /\ job[g].to \in Touched(job[h])
      BY <3>2, <3>3, Places DEF Touched
    <3>5. QED
      BY <3>2, <3>4 DEF ApartInv
  <2>2. QED
    BY <1>1, <2>1 DEF Writers
<1>2. ASSUME NEW h \in Handler, open[h] = x
      PROVE  Shown(x) = job[h].text
  <2>1. Writers(x) = {h}
    BY <1>1, <1>2
  <2>2. Shown(x) = job[CHOOSE g \in {h} : TRUE].text
    BY <2>1 DEF Shown
  <2>3. (CHOOSE g \in {h} : TRUE) = h
    OBVIOUS
  <2>4. QED
    BY <2>2, <2>3
<1>3. (\A h \in Handler : open[h] # x) => Shown(x) = disk[x]
  BY DEF Shown, Writers
<1>4. QED
  BY <1>2, <1>3

(* A step that changes no shown text is a stutter of the shelf.             *)
LEMMA Stutters ==
    ASSUME env' = env, \A x \in Place : Shown(x)' = Shown(x)
    PROVE  UNCHANGED Shelf!vars
<1>1. \A p \in Path : Shown(Doc(p))' = Shown(Doc(p)) /\ Shown(Trash(p))' = Shown(Trash(p))
  BY Places
<1>2. QED
  BY <1>1 DEF Shelf!vars

(* A step that changes what is shown of one document.                       *)
LEMMA Changes ==
    ASSUME NEW p \in Path, NEW v, Shown(Doc(p))' = v,
           \A x \in Place \ {Doc(p)} : Shown(x)' = Shown(x)
    PROVE  /\ Shown(Doc(p)) = None => Shelf!Create(p, v)
           /\ Shown(Doc(p)) # None => Shelf!Update(p, v)
<1>1. /\ \A q \in Path : Shown(Trash(q))' = Shown(Trash(q))
      /\ \A q \in Path \ {p} : Shown(Doc(q))' = Shown(Doc(q))
  BY Places
<1>2. QED
  BY <1>1 DEF Shelf!Create, Shelf!Update

LEMMA ShelfStep ==
    TypeOK /\ LocalsInv /\ ApartInv /\ TypeOK' /\ LocalsInv' /\ ApartInv' /\ [Next]_vars
      /\ (env.apart => ShownOK) /\ (env'.apart => ShownOK')
      => [Shelf!Next]_(Shelf!vars)
<1> SUFFICES ASSUME TypeOK, LocalsInv, ApartInv, TypeOK', LocalsInv', ApartInv', [Next]_vars,
                    env.apart => ShownOK, env'.apart => ShownOK'
             PROVE  Shelf!Next \/ UNCHANGED Shelf!vars
  OBVIOUS
<1> USE DEF Goto, walk
<1>1. env' = env
  BY DEF Next, Step, Start, Fails, Visit, Judge, CheckSource, CheckTarget, Open, Write,
         Rename, Discard, Emptied, vars
<1>2. CASE ~env.apart
  BY <1>1, <1>2 DEF Shelf!Next
<1> SUFFICES ASSUME env.apart
             PROVE  Shelf!Next \/ UNCHANGED Shelf!vars
  BY <1>2
<1> SUFFICES Shelf!Operation \/ UNCHANGED Shelf!vars
  BY <1>1 DEF Shelf!Next
<1>3. /\ ShownOK /\ ShownOK'
      /\ \A h \in Handler : open[h] # None => pc[h] = "write" /\ open[h] = Doc(job[h].to)
                                              /\ disk[open[h]] = Blank
  BY <1>1 DEF ApartInv, LocalsInv
<1>4. ASSUME disk' = disk, open' = open,
             \A h \in Handler : open[h] # None => job'[h] = job[h]
      PROVE  \A x \in Place : Shown(x)' = Shown(x)
  BY <1>3, <1>4, Places DEF ShownOK
<1>5. ASSUME NEW h \in Handler, Step(h)
      PROVE  Shelf!Operation \/ UNCHANGED Shelf!vars
  <2>1. CASE \E j \in Job : Start(h, j)
    <3>1. open[h] = None
      BY <1>3, <2>1 DEF Start
    <3>2. QED
      BY <1>1, <1>4, <2>1, <3>1, Stutters DEF Start, TypeOK
  <2>2. CASE \E p \in Path : Visit(h, p)
    BY <1>1, <1>4, <2>2, Stutters DEF Visit
  <2>3. CASE Judge(h) \/ CheckSource(h) \/ CheckTarget(h)
    BY <1>1, <1>4, <2>3, Stutters DEF Judge, CheckSource, CheckTarget
  <2>4. CASE Emptied(h)
    <3>1. open[h] = None
      BY <1>3, <2>4 DEF Emptied
    <3>2. open' = open
      BY <2>4, <3>1 DEF Emptied, Finish, TypeOK
    <3>3. QED
      BY <1>1, <1>3, <1>4, <2>4, <3>1, <3>2, Stutters DEF Emptied, Finish, TypeOK
  <2>5. CASE Fails(h)
    <3>1. CASE open[h] = None
      <4>1. open' = open
        BY <2>5, <3>1 DEF Fails, Finish, TypeOK
      <4>2. QED
        BY <1>1, <1>3, <1>4, <2>5, <3>1, <4>1, Stutters DEF Fails, Finish, TypeOK
    <3>2. CASE open[h] # None
      <4> PICK p \in Path : p = job[h].to
        BY <1>3, <3>2 DEF TypeOK, Job
      <4>1. Doc(p) \in Place /\ open[h] = Doc(p) /\ job[h].text # None
        BY <1>3, <3>2, Places, DocsStoreAssumption DEF TypeOK, Job
      <4>2. \A g \in Handler \ {h} : open'[g] = open[g] /\ job'[g] = job[g] /\ open[g] # Doc(p)
        BY <1>3, <2>5, <3>2, <4>1, OneWriter DEF Fails, Finish
      <4>3. open'[h] = None /\ disk' = disk
        BY <2>5 DEF Fails, Finish, TypeOK
      <4>4. Shown(Doc(p)) # None /\ Shown(Doc(p))' = Blank
        BY <1>3, <4>1, <4>2, <4>3, Places DEF ShownOK
      <4>5. \A x \in Place \ {Doc(p)} : Shown(x)' = Shown(x)
        BY <1>3, <4>1, <4>2, <4>3, Places DEF ShownOK
      <4>6. Shelf!Tear(p)
        BY <4>1, <4>4, <4>5, Changes DEF Shelf!Tear
      <4>7. QED
        BY <4>1, <4>6 DEF Shelf!Operation
    <3>3. QED
      BY <3>1, <3>2
  <2>6. ASSUME NEW p \in Path, Discard(h, p)
        PROVE  Shelf!Operation
    <3>1. \A g \in Handler : open[g] # Trash(p) /\ open'[g] = open[g]
      <4> TAKE g \in Handler
      <4>1. open[g] # Trash(p)
        <5>1. CASE open[g] = None
          BY <5>1, Places
        <5>2. CASE open[g] # None
          BY <1>3, <5>2, Places DEF TypeOK, Job
        <5>3. QED
          BY <5>1, <5>2
      <4>2. QED
        BY <2>6, <4>1 DEF Discard
    <3>2. /\ disk'[Trash(p)] = None
          /\ \A x \in Place \ {Trash(p)} : disk'[x] = disk[x]
          /\ job' = job
      BY <2>6, Places DEF Discard, TypeOK
    <3>3. Shown(Trash(p))' = None /\ \A x \in Place \ {Trash(p)} : Shown(x)' = Shown(x)
      BY <1>3, <3>1, <3>2, Places DEF ShownOK
    <3>4. /\ \A q \in Path \ {p} : Shown(Trash(q))' = Shown(Trash(q))
          /\ \A q \in Path : Shown(Doc(q))' = Shown(Doc(q))
      BY <3>3, Places
    <3>5. Shelf!Discard(p)
      BY <3>3, <3>4 DEF Shelf!Discard
    <3>6. QED
      BY <3>5 DEF Shelf!Operation
  <2>7. CASE Open(h)
    <3> PICK p \in Path : p = job[h].to
      BY <2>7 DEF Open, TypeOK, Job
    <3> PICK v \in Text : v = job[h].text
      BY <2>7 DEF Open, TypeOK, Job
    <3>1. /\ Doc(p) \in Place
          /\ Target(job[h]) = Doc(p)
          /\ job[h].op \in {"create", "update"}
      BY <2>7, Places DEF Open, LocalsInv, TypeOK, Job, Target
    <3>2. \A g \in Handler : open[g] # Doc(p)
      BY <1>3, <2>7, <3>1, Places, OneWriter DEF Open
    <3>3. /\ open'[h] = Doc(p)
          /\ \A g \in Handler \ {h} : open'[g] = open[g]
          /\ job' = job
          /\ \A x \in Place \ {Doc(p)} : disk'[x] = disk[x]
      BY <2>7, <3>1 DEF Open, TypeOK
    <3>4. open[h] = None
      BY <1>3, <2>7 DEF Open
    <3>5. Shown(Doc(p))' = v /\ Shown(Doc(p)) = disk[Doc(p)]
      BY <1>3, <3>1, <3>2, <3>3 DEF ShownOK
    <3>6. \A x \in Place \ {Doc(p)} : Shown(x)' = Shown(x)
      BY <1>3, <3>1, <3>3, <3>4, Places DEF ShownOK
    <3>7. Shelf!Create(p, v) \/ Shelf!Update(p, v)
      BY <3>1, <3>5, <3>6, Changes
    <3>8. QED
      BY <3>1, <3>7 DEF Shelf!Operation
  <2>8. CASE Write(h)
    <3>1. CASE open[h] = None
      <4>1. open' = open /\ disk' = disk
        BY <2>8, <3>1 DEF Write, Finish, TypeOK
      <4>2. QED
        BY <1>1, <1>3, <1>4, <2>8, <3>1, <4>1, Stutters DEF Write, Finish, TypeOK
    <3>2. CASE open[h] # None
      <4> PICK p \in Path : p = job[h].to
        BY <1>3, <3>2 DEF TypeOK, Job
      <4>1. Doc(p) \in Place /\ open[h] = Doc(p)
        BY <1>3, <3>2, Places
      <4>2. disk'[Doc(p)] = job[h].text /\ \A x \in Place \ {Doc(p)} : disk'[x] = disk[x]
        BY <1>3, <2>8, <3>2, <4>1 DEF Write, Fill, TypeOK
      <4>3. \A g \in Handler \ {h} : open'[g] = open[g] /\ job'[g] = job[g] /\ open[g] # Doc(p)
        BY <1>3, <2>8, <3>2, <4>1, OneWriter DEF Write, Finish
      <4>4. open'[h] = None
        BY <2>8 DEF Write, Finish, TypeOK
      <4>5. Shown(Doc(p))' = Shown(Doc(p))
        BY <1>3, <4>1, <4>2, <4>3, <4>4, Places DEF ShownOK
      <4>6. \A x \in Place \ {Doc(p)} : Shown(x)' = Shown(x)
        BY <1>3, <4>1, <4>2, <4>3, <4>4, Places DEF ShownOK
      <4>7. QED
        BY <1>1, <4>5, <4>6, Stutters
    <3>3. QED
      BY <3>1, <3>2
  <2>9. CASE Rename(h)
    <3> PICK a \in Place, b \in Place : a = Source(job[h]) /\ b = Target(job[h])
      BY <2>9, JobPlaces DEF Rename, TypeOK
    <3> PICK p \in Path, q \in Path : p = job[h].from /\ q = job[h].to
      BY <2>9 DEF Rename, TypeOK, Job
    <3>1. /\ job[h].op \in Renames
          /\ job[h].op # "move" => p = q
      BY <2>9 DEF Rename, LocalsInv, TypeOK, Job
    <3>2. /\ job[h].op = "delete" => a = Doc(p) /\ b = Trash(p)
          /\ job[h].op = "move" => a = Doc(p) /\ b = Doc(q) /\ disk[b] = None
          /\ job[h].op = "restore" => a = Trash(p) /\ b = Doc(p) /\ disk[b] = None
      BY <2>9, <3>1 DEF Source, Target, Rename, ApartInv
    <3>3. disk[a] # None /\ a # b
      BY <2>9, <3>1, <3>2, Places DEF Rename, Renames
    <3>4. /\ disk'[a] = None /\ disk'[b] = disk[a]
          /\ \A x \in Place \ {a, b} : disk'[x] = disk[x]
      BY <2>9, <3>3 DEF Rename, TypeOK
    <3>5. \A g \in Handler : open[g] \notin {a, b} /\ open'[g] = open[g]
      <4> TAKE g \in Handler
      <4>1. open[g] \notin {a, b}
        <5>1. CASE open[g] = None
          BY <3>3, <5>1, Places
        <5>2. CASE open[g] # None
          <6>1. g # h /\ pc[g] # "idle" /\ pc[h] # "idle"
            BY <1>3, <2>9, <5>2 DEF Rename
          <6>2. job[g].op # "empty" /\ job[h].op # "empty"
            BY <1>3, <3>1, <5>2 DEF LocalsInv, Renames
          <6>3. QED
            BY <1>3, <5>2, <6>1, <6>2, Disjoint
        <5>3. QED
          BY <5>1, <5>2
      <4>2. QED
        BY <2>9, <4>1 DEF Rename, Relink
    <3>6. \A g \in Handler : open[g] # None => job'[g] = job[g]
      BY <1>3, <2>9 DEF Rename
    <3>7. /\ Shown(a) = disk[a] /\ Shown(b) = disk[b]
          /\ Shown(a)' = None /\ Shown(b)' = disk[a]
      <4>1. \A g \in Handler : open'[g] \notin {a, b}
        BY <3>5
      <4>2. Shown(a) = disk[a] /\ Shown(b) = disk[b]
        BY <1>3, <3>3, <3>5 DEF ShownOK
      <4>3. \A x \in Place : x \in {a, b} => Shown(x)' = disk'[x]
        BY <1>3, <4>1 DEF ShownOK
      <4>4. QED
        BY <3>3, <3>4, <4>2, <4>3
    <3>8. \A x \in Place \ {a, b} : Shown(x)' = Shown(x)
      BY <1>3, <3>4, <3>5, <3>6, Places DEF ShownOK
    <3>9. CASE job[h].op = "delete"
      <4>1. /\ Shown(Doc(p)) # None /\ Shown(Doc(p))' = None
            /\ Shown(Trash(p))' = Shown(Doc(p))
            /\ \A r \in Path \ {p} : Shown(Doc(r))' = Shown(Doc(r))
            /\ \A r \in Path \ {p} : Shown(Trash(r))' = Shown(Trash(r))
        BY <3>1, <3>2, <3>3, <3>7, <3>8, <3>9, Places
      <4>2. Shelf!Delete(p)
        BY <3>1, <4>1 DEF Shelf!Delete
      <4>3. QED
        BY <3>1, <4>2 DEF Shelf!Operation
    <3>10. CASE job[h].op = "move"
      <4>1. /\ Shown(Doc(p)) # None /\ Shown(Doc(p))' = None
            /\ Shown(Doc(q)) = None /\ Shown(Doc(q))' = Shown(Doc(p))
            /\ \A r \in Path \ {p, q} : Shown(Doc(r))' = Shown(Doc(r))
            /\ \A r \in Path : Shown(Trash(r))' = Shown(Trash(r))
        BY <3>1, <3>2, <3>3, <3>7, <3>8, <3>10, Places
      <4>2. Shelf!Move(p, q)
        BY <3>1, <4>1 DEF Shelf!Move
      <4>3. QED
        BY <3>1, <4>2 DEF Shelf!Operation
    <3>11. CASE job[h].op = "restore"
      <4>1. /\ Shown(Trash(p)) # None /\ Shown(Trash(p))' = None
            /\ Shown(Doc(p)) = None /\ Shown(Doc(p))' = Shown(Trash(p))
            /\ \A r \in Path \ {p} : Shown(Doc(r))' = Shown(Doc(r))
            /\ \A r \in Path \ {p} : Shown(Trash(r))' = Shown(Trash(r))
        BY <3>1, <3>2, <3>3, <3>7, <3>8, <3>11, Places
      <4>2. Shelf!Restore(p)
        BY <3>1, <4>1 DEF Shelf!Restore
      <4>3. QED
        BY <3>1, <4>2 DEF Shelf!Operation
    <3>12. QED
      BY <3>1, <3>9, <3>10, <3>11 DEF Renames
  <2>10. QED
    BY <1>5, <2>1, <2>2, <2>3, <2>4, <2>5, <2>6, <2>7, <2>8, <2>9 DEF Step
<1>6. CASE UNCHANGED vars
  BY <1>1, <1>4, <1>6, Stutters DEF vars
<1>7. QED
  BY <1>5, <1>6 DEF Next

(* Clients that keep apart get a shelf: every request takes effect in one   *)
(* step, which is that of its open or rename, or has no effect.             *)
THEOREM StoreImplementsShelf == Spec => ImplementsShelf
<1> DEFINE Inv == TypeOK /\ LocalsInv /\ ApartInv
<1>1. Init => Inv
  BY TypeInit DEF Init, TypeOK, LocalsInv, ApartInv
<1>2. Inv /\ [Next]_vars => Inv'
  BY TypeStep, LocalsStep, ApartStep
<1>3. Init => Shelf!Init
  <2> SUFFICES ASSUME Init
               PROVE  Shelf!Init
    OBVIOUS
  <2>1. env.apart \in BOOLEAN
    BY DocsStoreAssumption DEF Init, Environment
  <2>2. \A x \in Place : Shown(x) = None
    BY Places DEF Init, Shown, Writers
  <2>3. QED
    BY <2>1, <2>2, Places DEF Shelf!Init
<1>4. Inv /\ env.apart => ShownOK
  BY ShownIs
<1>5. (Inv /\ env.apart => ShownOK)'
  BY ShownIs, PTL
<1>6. Inv /\ Inv' /\ [Next]_vars => [Shelf!Next]_(Shelf!vars)
  BY <1>4, <1>5, ShelfStep
<1>7. QED
  BY <1>1, <1>2, <1>3, <1>6, PTL DEF Spec, ImplementsShelf, Shelf!Spec

-----------------------------------------------------------------------------
(* A file that a request has open is there.                                 *)
OpenIsLinked == \A h \in Handler : open[h] # None => disk[open[h]] # None

LEMMA LinkedStep == TypeOK /\ LocalsInv /\ OpenIsLinked /\ [Next]_vars => OpenIsLinked'
<1> SUFFICES ASSUME TypeOK, LocalsInv, OpenIsLinked, [Next]_vars,
                    NEW g \in Handler, open'[g] # None
             PROVE  disk'[open'[g]] # None
  BY DEF OpenIsLinked
<1> USE DEF TypeOK, Goto, walk
<1>1. open[g] # None => open[g] \in Place /\ disk[open[g]] # None
  BY DEF OpenIsLinked
<1>2. ASSUME NEW h \in Handler, Step(h)
      PROVE  disk'[open'[g]] # None
  <2>1. ASSUME NEW j \in Job, Start(h, j)
        PROVE  disk'[open'[g]] # None
    BY <1>1, <2>1 DEF Start
  <2>2. CASE Fails(h) \/ Emptied(h)
    BY <1>1, <2>2 DEF Fails, Emptied, Finish
  <2>3. ASSUME NEW p \in Path, Visit(h, p)
        PROVE  disk'[open'[g]] # None
    BY <1>1, <2>3 DEF Visit
  <2>4. ASSUME NEW p \in Path, Discard(h, p)
        PROVE  disk'[open'[g]] # None
    BY <1>1, <2>4, Places DEF Discard
  <2>5. CASE Judge(h) \/ CheckSource(h) \/ CheckTarget(h)
    BY <1>1, <2>5 DEF Judge, CheckSource, CheckTarget
  <2>6. CASE Open(h)
    <3>1. Target(job[h]) \in Place /\ disk'[Target(job[h])] = Blank
      BY <2>6, JobPlaces DEF Open
    <3>2. CASE g = h
      BY <2>6, <3>1, <3>2, DocsStoreAssumption DEF Open
    <3>3. CASE g # h
      BY <1>1, <2>6, <3>1, <3>3, DocsStoreAssumption DEF Open
    <3> QED BY <3>2, <3>3
  <2>7. CASE Write(h)
    <3>1. g # h /\ open[g] # None /\ open'[g] = open[g]
      BY <2>7 DEF Write, Finish
    <3>2. job[h].text \in Text
      BY <2>7 DEF Write, Job
    <3>3. None \notin Fill(disk[open[h]], job[h].text)
      BY <3>2, DocsStoreAssumption DEF Fill
    <3> QED BY <1>1, <2>7, <3>1, <3>3 DEF Write
  <2>8. CASE Rename(h)
    <3> DEFINE a == Source(job[h])
               b == Target(job[h])
    <3>1. a \in Place /\ b \in Place /\ disk[a] # None
      BY <2>8, JobPlaces DEF Rename
    <3>2. disk' = [disk EXCEPT ![a] = None, ![b] = disk[a]] /\ open'[g] = Relink(a, b, open[g])
      BY <2>8 DEF Rename
    <3>3. disk'[b] # None
      BY <3>1, <3>2
    <3>4. open'[g] = b \/ (open'[g] = open[g] /\ open[g] # a /\ open[g] # b)
      BY <3>2 DEF Relink
    <3> QED BY <1>1, <3>1, <3>2, <3>3, <3>4
  <2> QED BY <1>2, <2>1, <2>2, <2>3, <2>4, <2>5, <2>6, <2>7, <2>8 DEF Step
<1>3. CASE UNCHANGED vars
  BY <1>1, <1>3 DEF vars
<1> QED BY <1>2, <1>3 DEF Next

-----------------------------------------------------------------------------
(* A request may still add a document although there are MaxDocs + k: it is *)
(* through with the count, or the count will miss more than k documents,    *)
(* which were created where it had been already.                            *)
MayCreate(h, k) ==
    \/ pc[h] \in {"target", "open"} /\ job[h].op = "create"
    \/ pc[h] = "count" /\ found[h] + Cardinality(left[h] \intersect Docs) + k < Cardinality(Docs)

Limited == env.ops \intersect {"move", "restore", "update"} = {}

RequestsInv ==
    \A h \in Handler : pc[h] # "idle" =>
        job[h].op \in env.ops /\ {job[h].from, job[h].to} \subseteq env.paths

DocsInv == Docs \subseteq env.paths /\ IsFiniteSet(Docs)

(* Each document beyond the limit has taken away one of the requests that   *)
(* may create: of those that may when k + 1 are missed there are k + 1 less *)
(* than handlers.                                                           *)
CreatorsInv ==
    \A k \in Nat : MaxDocs + k <= Cardinality(Docs) =>
        Cardinality({h \in Handler : MayCreate(h, k)}) + k + 1 <= Cardinality(Handler)

LimitInv == Limited => RequestsInv /\ DocsInv /\ CreatorsInv

LEMMA Subset ==
    ASSUME NEW S, NEW T \in SUBSET S, IsFiniteSet(S)
    PROVE  IsFiniteSet(T) /\ Cardinality(T) \in Nat /\ Cardinality(T) <= Cardinality(S)
BY FS_Subset, FS_CardinalityType

LEMMA RequestsStep == TypeOK /\ RequestsInv /\ [Next]_vars => RequestsInv'
<1> SUFFICES ASSUME TypeOK, RequestsInv, [Next]_vars
             PROVE  RequestsInv'
  OBVIOUS
<1> USE DEF TypeOK, RequestsInv, Goto, walk
<1>1. ASSUME NEW h \in Handler, Step(h)
      PROVE  RequestsInv'
  <2>1. ASSUME NEW j \in Job, Start(h, j)
        PROVE  RequestsInv'
    BY <2>1 DEF Start
  <2>2. CASE Fails(h) \/ Emptied(h) \/ Write(h)
    BY <2>2 DEF Fails, Emptied, Write, Finish
  <2>3. ASSUME NEW p \in Path, Visit(h, p) \/ Discard(h, p)
        PROVE  RequestsInv'
    BY <2>3 DEF Visit, Discard
  <2>4. CASE Judge(h) \/ CheckSource(h) \/ CheckTarget(h) \/ Open(h) \/ Rename(h)
    BY <2>4 DEF Judge, CheckSource, CheckTarget, Open, Rename
  <2> QED BY <1>1, <2>1, <2>2, <2>3, <2>4 DEF Step
<1>2. CASE UNCHANGED vars
  BY <1>2 DEF vars
<1> QED BY <1>1, <1>2 DEF Next

(* Documents come by the open of a create and go by a delete.               *)
LEMMA DocsChange ==
    ASSUME TypeOK, LocalsInv, OpenIsLinked, RequestsInv, Limited, NEW h \in Handler, Step(h)
    PROVE  \/ Docs' = Docs /\ ~Open(h)
           \/ Open(h) /\ job[h].op = "create" /\ job[h].to \in env.paths /\ Docs' = Docs \union {job[h].to}
           \/ Rename(h) /\ job[h].from \in Docs /\ Docs' = Docs \ {job[h].from}
<1> USE DEF TypeOK, Goto, walk
<1>1. ASSUME NEW j \in Job, Start(h, j)
      PROVE  Docs' = Docs /\ ~Open(h)
  BY <1>1 DEF Start, Open, Docs
<1>2. ASSUME NEW p \in Path, Visit(h, p)
      PROVE  Docs' = Docs /\ ~Open(h)
  BY <1>2 DEF Visit, Open, Docs
<1>3. ASSUME NEW p \in Path, Discard(h, p)
      PROVE  Docs' = Docs /\ ~Open(h)
  BY <1>3, Places DEF Discard, Open, Docs
<1>4. CASE Fails(h) \/ Emptied(h) \/ Judge(h) \/ CheckSource(h) \/ CheckTarget(h)
  <2>1. UNCHANGED disk
    BY <1>4 DEF Fails, Emptied, Judge, CheckSource, CheckTarget
  <2>2. ~Open(h)
    BY <1>4 DEF Fails, Finish, Emptied, Judge, CheckSource, CheckTarget, Open
  <2> QED BY <2>1, <2>2 DEF Docs
<1>5. CASE Write(h)
  <2>1. job[h].text \in Text
    BY <1>5 DEF Write, Job
  <2>2. None \notin Fill(disk[open[h]], job[h].text)
    BY <2>1, DocsStoreAssumption DEF Fill
  <2>3. \A x \in Place : disk'[x] = None <=> disk[x] = None
    BY <1>5, <2>2, Places DEF Write, OpenIsLinked
  <2> QED BY <1>5, <2>3, Places DEF Docs, Write, Open
<1>6. CASE Open(h)
  <2>1. job[h].op = "create" /\ job[h].to \in env.paths /\ job[h].to \in Path
    BY <1>6, DocsStoreAssumption DEF Open, LocalsInv, RequestsInv, Limited, Job
  <2>2. Target(job[h]) = Doc(job[h].to)
    BY <2>1 DEF Target
  <2>3. \A p \in Path : disk'[Doc(p)] = IF p = job[h].to THEN Blank ELSE disk[Doc(p)]
    BY <1>6, <2>1, <2>2, Places DEF Open
  <2>4. Docs' = Docs \union {job[h].to}
    BY <2>1, <2>3, DocsStoreAssumption DEF Docs
  <2> QED BY <1>6, <2>1, <2>4
<1>7. CASE Rename(h)
  <2>1. job[h].op = "delete" /\ job[h].from \in Path /\ disk[Doc(job[h].from)] # None
    BY <1>7 DEF Rename, LocalsInv, RequestsInv, Limited, Renames, Job, Source
  <2>2. Source(job[h]) = Doc(job[h].from) /\ Target(job[h]) = Trash(job[h].from)
    BY <2>1 DEF Source, Target
  <2>3. \A p \in Path : disk'[Doc(p)] = IF p = job[h].from THEN None ELSE disk[Doc(p)]
    BY <1>7, <2>1, <2>2, Places DEF Rename
  <2> QED BY <1>7, <2>1, <2>3 DEF Docs
<1> QED BY <1>1, <1>2, <1>3, <1>4, <1>5, <1>6, <1>7 DEF Step

LEMMA OthersStay ==
    ASSUME TypeOK, NEW h \in Handler, Step(h), NEW g \in Handler, g # h
    PROVE  pc'[g] = pc[g] /\ job'[g] = job[g] /\ left'[g] = left[g] /\ found'[g] = found[g]
<1> USE DEF TypeOK, Goto, walk
<1>1. ASSUME NEW j \in Job, Start(h, j)
      PROVE  pc'[g] = pc[g] /\ job'[g] = job[g] /\ left'[g] = left[g] /\ found'[g] = found[g]
  BY <1>1 DEF Start
<1>2. ASSUME NEW p \in Path, Visit(h, p) \/ Discard(h, p)
      PROVE  pc'[g] = pc[g] /\ job'[g] = job[g] /\ left'[g] = left[g] /\ found'[g] = found[g]
  BY <1>2 DEF Visit, Discard
<1>3. CASE Fails(h) \/ Emptied(h) \/ Write(h)
  BY <1>3 DEF Fails, Emptied, Write, Finish
<1>4. CASE Judge(h) \/ CheckSource(h) \/ CheckTarget(h) \/ Open(h) \/ Rename(h)
  BY <1>4 DEF Judge, CheckSource, CheckTarget, Open, Rename
<1> QED BY <1>1, <1>2, <1>3, <1>4 DEF Step

(* A count that starts misses nothing, and one that visits misses no more;  *)
(* what it missed when it ends is beyond the limit.                         *)
LEMMA CreatorWasOne ==
    ASSUME TypeOK, LocalsInv, RequestsInv, Limited, DocsInv,
           NEW h \in Handler, Step(h), ~Open(h), Docs' = Docs,
           NEW k \in Nat, MaxDocs + k <= Cardinality(Docs), MayCreate(h, k)'
    PROVE  MayCreate(h, k)
<1> USE DEF TypeOK, Goto, walk
<1> DEFINE ahead == left[h] \intersect Docs
<1>1. Cardinality(Docs) \in Nat /\ IsFiniteSet(ahead) /\ Cardinality(ahead) \in Nat
  BY FS_CardinalityType, Subset DEF DocsInv
<1>2. \/ pc'[h] \in {"target", "open"} /\ job'[h].op = "create"
      \/ pc'[h] = "count" /\ found'[h] + Cardinality(left'[h] \intersect Docs) + k < Cardinality(Docs)
  BY DEF MayCreate
<1>3. ASSUME NEW j \in Job, Start(h, j)
      PROVE  FALSE
  <2>1. pc'[h] = First(j) /\ job'[h] = j /\ j.op \in env.ops /\ found'[h] = found[h]
    BY <1>3 DEF Start
  <2>2. j.op \notin {"move", "restore", "update"}
    BY <2>1 DEF Limited
  <2>3. First(j) \in {"count", "source", "purge"} /\ (First(j) = "count" => j.op = "create")
    BY <2>2 DEF First, Job, Op, Renames
  <2>4. pc'[h] = "count" /\ left'[h] = env.paths
    BY <1>2, <1>3, <2>1, <2>3 DEF Start
  <2>5. left'[h] \intersect Docs = Docs
    BY <2>4 DEF DocsInv
  <2>6. found'[h] + Cardinality(Docs) + k < Cardinality(Docs)
    BY <1>2, <2>4, <2>5
  <2>7. found'[h] \in Nat
    BY <2>1
  <2> QED BY <1>1, <2>6, <2>7
<1>4. ASSUME NEW p \in Path, Visit(h, p)
      PROVE  MayCreate(h, k)
  <2>1. /\ pc[h] = "count" /\ pc'[h] = "count" /\ left'[h] = left[h] \ {p} /\ p \in left[h]
        /\ found'[h] = found[h] + (IF disk[Doc(p)] = None THEN 0 ELSE 1)
    BY <1>4 DEF Visit
  <2>2. CASE p \in Docs
    <3>1. left'[h] \intersect Docs = ahead \ {p} /\ p \in ahead
      BY <2>1, <2>2
    <3>2. Cardinality(ahead \ {p}) = Cardinality(ahead) - 1
      <4> HIDE DEF ahead
      <4> QED BY <1>1, <3>1, FS_RemoveElement
    <3>3. found'[h] = found[h] + 1
      BY <2>1, <2>2 DEF Docs
    <3>4. found'[h] + Cardinality(left'[h] \intersect Docs) = found[h] + Cardinality(ahead)
      <4> HIDE DEF ahead
      <4>1. found[h] \in Nat
        OBVIOUS
      <4>2. Cardinality(left'[h] \intersect Docs) = Cardinality(ahead \ {p})
        BY <3>1, Zenon
      <4> HIDE DEF TypeOK
      <4> QED BY <1>1, <3>2, <3>3, <4>1, <4>2
    <3>5. found'[h] + Cardinality(left'[h] \intersect Docs) + k < Cardinality(Docs)
      BY <1>2, <2>1
    <3> QED BY <2>1, <3>4, <3>5 DEF MayCreate
  <2>3. CASE p \notin Docs
    <3>1. left'[h] \intersect Docs = ahead
      BY <2>1, <2>3
    <3>2. found'[h] = found[h]
      BY <2>1, <2>3 DEF Docs
    <3> QED BY <1>2, <2>1, <3>1, <3>2 DEF MayCreate
  <2> QED BY <2>2, <2>3
<1>5. ASSUME NEW p \in Path, Discard(h, p)
      PROVE  FALSE
  BY <1>2, <1>5 DEF Discard
<1>6. CASE Fails(h) \/ Emptied(h) \/ Write(h)
  BY <1>2, <1>6 DEF Fails, Emptied, Write, Finish
<1>7. CASE Judge(h)
  <2>1. pc[h] = "count" /\ ahead = {} /\ found[h] < MaxDocs
    BY <1>7 DEF Judge, WithinLimit
  <2>2. Cardinality(ahead) = 0
    BY <2>1, FS_EmptySet
  <2> QED BY <1>1, <2>1, <2>2, DocsStoreAssumption DEF MayCreate
<1>8. CASE CheckSource(h) \/ Rename(h)
  BY <1>2, <1>8 DEF CheckSource, Rename, LocalsInv, Renames
<1>9. CASE CheckTarget(h)
  BY <1>2, <1>9 DEF CheckTarget, MayCreate
<1> QED BY <1>3, <1>4, <1>5, <1>6, <1>7, <1>8, <1>9 DEF Step

(* With no more documents and no more creators the bound stays.             *)
LEMMA FewerCreators ==
    ASSUME CreatorsInv, DocsInv, IsFiniteSet(Docs'), Cardinality(Docs') <= Cardinality(Docs),
           \A k \in Nat : MaxDocs + k <= Cardinality(Docs) =>
               \A g \in Handler : MayCreate(g, k)' => MayCreate(g, k)
    PROVE  CreatorsInv'
<1> SUFFICES ASSUME NEW k \in Nat, MaxDocs + k <= Cardinality(Docs')
             PROVE  Cardinality({h \in Handler : MayCreate(h, k)'}) + k + 1 <= Cardinality(Handler)
  BY DEF CreatorsInv
<1> DEFINE before == {h \in Handler : MayCreate(h, k)}
           after == {h \in Handler : MayCreate(h, k)'}
<1>1. Cardinality(Docs) \in Nat /\ Cardinality(Docs') \in Nat /\ Cardinality(Handler) \in Nat
  BY FS_CardinalityType, DocsStoreAssumption DEF DocsInv
<1>2. MaxDocs + k <= Cardinality(Docs)
  BY <1>1, DocsStoreAssumption
<1>3. after \subseteq before /\ before \subseteq Handler
  BY <1>2
<1>4. /\ Cardinality(after) \in Nat /\ Cardinality(before) \in Nat
      /\ Cardinality(after) <= Cardinality(before)
  BY <1>3, Subset, DocsStoreAssumption
<1>5. Cardinality(before) + k + 1 <= Cardinality(Handler)
  BY <1>2 DEF CreatorsInv
<1> QED BY <1>1, <1>4, <1>5

(* How a document that comes or goes changes what is ahead of a count.      *)
LEMMA CountsAhead ==
    ASSUME NEW S, IsFiniteSet(S), NEW T, NEW p
    PROVE  /\ IsFiniteSet(S \union {p}) /\ IsFiniteSet(S \ {p})
           /\ Cardinality(S) \in Nat /\ Cardinality(T \intersect S) \in Nat
           /\ Cardinality(S \union {p}) \in Nat /\ Cardinality(S \union {p}) <= Cardinality(S) + 1
           /\ Cardinality(T \intersect (S \union {p})) \in Nat
           /\ Cardinality(T \intersect S) <= Cardinality(T \intersect (S \union {p}))
           /\ Cardinality(T \intersect (S \ {p})) \in Nat
           /\ Cardinality(T \intersect S) <= Cardinality(T \intersect (S \ {p})) + 1
           /\ p \in S => Cardinality(S \ {p}) = Cardinality(S) - 1
<1> DEFINE more == S \union {p}
           less == T \intersect (S \ {p})
<1>1. /\ IsFiniteSet(more) /\ Cardinality(more) = IF p \in S THEN Cardinality(S) ELSE Cardinality(S) + 1
      /\ IsFiniteSet(S \ {p}) /\ Cardinality(S \ {p}) = IF p \in S THEN Cardinality(S) - 1 ELSE Cardinality(S)
      /\ Cardinality(S) \in Nat /\ Cardinality(more) \in Nat
  BY FS_AddElement, FS_RemoveElement, FS_CardinalityType
<1>2. IsFiniteSet(T \intersect S) /\ Cardinality(T \intersect S) \in Nat
  BY Subset
<1>3. IsFiniteSet(T \intersect more) /\ Cardinality(T \intersect more) \in Nat
  BY <1>1, Subset
<1>4. Cardinality(T \intersect S) <= Cardinality(T \intersect more)
  <2>1. T \intersect S \in SUBSET (T \intersect more)
    OBVIOUS
  <2> QED BY <1>3, <2>1, Subset
<1>5. IsFiniteSet(less) /\ Cardinality(less) \in Nat
  BY <1>1, Subset
<1>6. Cardinality(T \intersect S) <= Cardinality(less) + 1
  <2>1. T \intersect S \in SUBSET (less \union {p})
    OBVIOUS
  <2> HIDE DEF less
  <2>2. /\ IsFiniteSet(less \union {p})
        /\ Cardinality(less \union {p}) = IF p \in less THEN Cardinality(less) ELSE Cardinality(less) + 1
    BY <1>5, FS_AddElement
  <2>3. Cardinality(T \intersect S) <= Cardinality(less \union {p})
    BY <2>1, <2>2, Subset
  <2> QED BY <1>2, <1>5, <2>2, <2>3
<1>7. Cardinality(more) <= Cardinality(S) + 1
  BY <1>1
<1> QED BY <1>1, <1>2, <1>3, <1>4, <1>5, <1>6, <1>7

(* The open of a create: who may create beyond one more was one who might   *)
(* beyond one less, and the request that creates is no longer among them.   *)
LEMMA CreateStep ==
    ASSUME TypeOK, DocsInv, CreatorsInv, NEW h \in Handler, Step(h), Open(h),
           job[h].op = "create", NEW p, Docs' = Docs \union {p}
    PROVE  CreatorsInv'
<1> SUFFICES ASSUME NEW k \in Nat, MaxDocs + k <= Cardinality(Docs')
             PROVE  Cardinality({g \in Handler : MayCreate(g, k)'}) + k + 1 <= Cardinality(Handler)
  BY DEF CreatorsInv
<1> DEFINE after == {g \in Handler : MayCreate(g, k)'}
<1>1. pc[h] = "open" /\ pc'[h] = "write"
  BY DEF Open, Goto, TypeOK
<1>2. h \notin after
  BY <1>1 DEF MayCreate
<1>3. IsFiniteSet(Docs) /\ Cardinality(Docs) \in Nat /\ Cardinality(Docs') \in Nat
      /\ Cardinality(Docs') <= Cardinality(Docs) + 1
  BY CountsAhead DEF DocsInv
<1>4. /\ IsFiniteSet(Handler) /\ Cardinality(Handler) \in Nat /\ Cardinality(Handler \ {h}) = Cardinality(Handler) - 1
      /\ IsFiniteSet(Handler \ {h})
  BY DocsStoreAssumption, FS_CardinalityType, FS_RemoveElement
<1>5. CASE k = 0
  <2>1. after \in SUBSET (Handler \ {h})
    BY <1>2
  <2>2. Cardinality(after) \in Nat /\ Cardinality(after) <= Cardinality(Handler \ {h})
    BY <1>4, <2>1, Subset
  <2>3. Cardinality(after) + k + 1 <= Cardinality(Handler)
    <3> HIDE DEF after
    <3> QED BY <1>4, <1>5, <2>2
  <2> QED BY <2>3
<1>6. CASE k # 0
  <2> DEFINE m == k - 1
             before == {g \in Handler : MayCreate(g, m)}
  <2>1. m \in Nat /\ m + 1 = k
    BY <1>6
  <2> HIDE DEF m
  <2>2. MaxDocs + m <= Cardinality(Docs)
    BY <1>3, <2>1, DocsStoreAssumption
  <2>3. Cardinality(before) + m + 1 <= Cardinality(Handler)
    BY <2>1, <2>2 DEF CreatorsInv
  <2>4. h \in before
    BY <1>1 DEF MayCreate
  <2>5. ASSUME NEW g \in Handler, MayCreate(g, k)'
        PROVE  MayCreate(g, m)
    <3>1. pc'[g] = pc[g] /\ job'[g] = job[g] /\ left'[g] = left[g] /\ found'[g] = found[g]
      BY <1>2, <2>5, OthersStay
    <3>2. CASE pc'[g] \in {"target", "open"} /\ job'[g].op = "create"
      BY <3>1, <3>2 DEF MayCreate
    <3>3. CASE pc'[g] = "count" /\ found'[g] + Cardinality(left'[g] \intersect Docs') + k < Cardinality(Docs')
      <4>1. /\ Cardinality(left[g] \intersect Docs) \in Nat /\ Cardinality(left[g] \intersect Docs') \in Nat
            /\ Cardinality(left[g] \intersect Docs) <= Cardinality(left[g] \intersect Docs')
        BY <1>3, CountsAhead
      <4>2. found[g] \in Nat
        BY DEF TypeOK
      <4>3. found[g] + Cardinality(left[g] \intersect Docs') + k < Cardinality(Docs')
        BY <3>1, <3>3
      <4>4. found[g] + Cardinality(left[g] \intersect Docs) + m < Cardinality(Docs)
        BY <1>3, <2>1, <4>1, <4>2, <4>3
      <4> QED BY <3>1, <3>3, <4>4 DEF MayCreate
    <3> QED BY <2>5, <3>2, <3>3 DEF MayCreate
  <2>6. after \in SUBSET (before \ {h}) /\ before \in SUBSET Handler
    BY <1>2, <2>5
  <2> HIDE DEF before, after
  <2>7. IsFiniteSet(before) /\ Cardinality(before) \in Nat
    BY <1>4, <2>6, Subset
  <2>8. IsFiniteSet(before \ {h}) /\ Cardinality(before \ {h}) = Cardinality(before) - 1
    BY <2>4, <2>7, FS_RemoveElement
  <2>9. Cardinality(after) \in Nat /\ Cardinality(after) <= Cardinality(before \ {h})
    BY <2>6, <2>8, Subset
  <2>10. Cardinality(after) + k + 1 <= Cardinality(Handler)
    BY <1>4, <2>1, <2>3, <2>7, <2>8, <2>9
  <2> QED BY <2>10 DEF after
<1> QED BY <1>5, <1>6

(* A delete: a count misses no more, and there is one document less.        *)
LEMMA DeleteStep ==
    ASSUME TypeOK, DocsInv, CreatorsInv, NEW h \in Handler, Step(h), Rename(h),
           NEW p \in Docs, Docs' = Docs \ {p}
    PROVE  CreatorsInv'
<1>1. /\ IsFiniteSet(Docs) /\ IsFiniteSet(Docs') /\ Cardinality(Docs) \in Nat
      /\ Cardinality(Docs') = Cardinality(Docs) - 1
  BY CountsAhead DEF DocsInv
<1>2. ASSUME NEW k \in Nat, NEW g \in Handler, MayCreate(g, k)'
      PROVE  MayCreate(g, k)
  <2>1. g # h
    BY <1>2 DEF Rename, Goto, MayCreate, TypeOK
  <2>2. pc'[g] = pc[g] /\ job'[g] = job[g] /\ left'[g] = left[g] /\ found'[g] = found[g]
    BY <2>1, OthersStay
  <2>3. CASE pc'[g] \in {"target", "open"} /\ job'[g].op = "create"
    BY <2>2, <2>3 DEF MayCreate
  <2>4. CASE pc'[g] = "count" /\ found'[g] + Cardinality(left'[g] \intersect Docs') + k < Cardinality(Docs')
    <3>1. /\ Cardinality(left[g] \intersect Docs) \in Nat /\ Cardinality(left[g] \intersect Docs') \in Nat
          /\ Cardinality(left[g] \intersect Docs) <= Cardinality(left[g] \intersect Docs') + 1
      BY <1>1, CountsAhead
    <3>2. found[g] \in Nat
      BY DEF TypeOK
    <3>3. found[g] + Cardinality(left[g] \intersect Docs') + k < Cardinality(Docs')
      BY <2>2, <2>4
    <3>4. found[g] + Cardinality(left[g] \intersect Docs) + k < Cardinality(Docs)
      BY <1>1, <3>1, <3>2, <3>3
    <3> QED BY <2>2, <2>4, <3>4 DEF MayCreate
  <2> QED BY <1>2, <2>3, <2>4 DEF MayCreate
<1>3. Cardinality(Docs') <= Cardinality(Docs)
  BY <1>1
<1> QED BY <1>1, <1>2, <1>3, FewerCreators

LEMMA LimitStep ==
    TypeOK /\ LocalsInv /\ OpenIsLinked /\ LimitInv /\ [Next]_vars => LimitInv'
<1> SUFFICES ASSUME TypeOK, LocalsInv, OpenIsLinked, LimitInv, [Next]_vars, Limited'
             PROVE  RequestsInv' /\ DocsInv' /\ CreatorsInv'
  BY DEF LimitInv
<1>1. env' = env
  BY DEF Next, Step, Start, Fails, Visit, Judge, CheckSource, CheckTarget, Open, Write,
         Rename, Discard, Emptied, vars
<1>2. Limited /\ RequestsInv /\ DocsInv /\ CreatorsInv
  BY <1>1 DEF Limited, LimitInv
<1>3. RequestsInv'
  BY <1>2, RequestsStep
<1>4. ASSUME NEW h \in Handler, Step(h)
      PROVE  DocsInv' /\ CreatorsInv'
  <2>1. CASE Docs' = Docs /\ ~Open(h)
    <3>1. ASSUME NEW k \in Nat, MaxDocs + k <= Cardinality(Docs), NEW g \in Handler, MayCreate(g, k)'
          PROVE  MayCreate(g, k)
      <4>1. CASE g = h
        BY <1>2, <1>4, <2>1, <3>1, <4>1, CreatorWasOne
      <4>2. CASE g # h
        BY <1>4, <2>1, <3>1, <4>2, OthersStay DEF MayCreate
      <4> QED BY <4>1, <4>2
    <3>2. IsFiniteSet(Docs') /\ Cardinality(Docs') <= Cardinality(Docs)
      BY <1>2, <2>1, FS_CardinalityType DEF DocsInv
    <3> QED BY <1>1, <1>2, <2>1, <3>1, <3>2, FewerCreators DEF DocsInv
  <2>2. CASE Open(h) /\ job[h].op = "create" /\ job[h].to \in env.paths /\ Docs' = Docs \union {job[h].to}
    <3>1. DocsInv'
      BY <1>1, <1>2, <2>2, FS_AddElement DEF DocsInv
    <3> QED BY <1>2, <1>4, <2>2, <3>1, CreateStep
  <2>3. CASE Rename(h) /\ job[h].from \in Docs /\ Docs' = Docs \ {job[h].from}
    <3>1. DocsInv'
      BY <1>1, <1>2, <2>3, FS_RemoveElement DEF DocsInv
    <3> QED BY <1>2, <1>4, <2>3, <3>1, DeleteStep
  <2> QED BY <1>2, <1>4, <2>1, <2>2, <2>3, DocsChange
<1>5. CASE UNCHANGED vars
  <2>1. Docs' = Docs /\ \A h \in Handler, k \in Nat : MayCreate(h, k)' <=> MayCreate(h, k)
    BY <1>5 DEF vars, walk, Docs, MayCreate
  <2>2. DocsInv'
    BY <1>1, <1>2, <2>1 DEF DocsInv
  <2>3. \A k \in Nat : MaxDocs + k <= Cardinality(Docs) => \A g \in Handler : MayCreate(g, k)' => MayCreate(g, k)
    BY <2>1
  <2>4. Cardinality(Docs') <= Cardinality(Docs)
    BY <1>2, <2>1, FS_CardinalityType DEF DocsInv
  <2> QED BY <1>2, <1>3, <2>2, <2>3, <2>4, FewerCreators DEF DocsInv
<1> QED BY <1>3, <1>4, <1>5 DEF Next

(* With creates and deletes that overlap in any way, the limit on the       *)
(* documents is exceeded by at most one for each further request.           *)
THEOREM LimitIsNearlyRespected == Spec => []LimitIsNearlyKept
<1>1. Init => OpenIsLinked /\ LocalsInv /\ LimitInv
  <2> SUFFICES ASSUME Init PROVE OpenIsLinked /\ LocalsInv /\ LimitInv
    OBVIOUS
  <2>1. OpenIsLinked /\ LocalsInv /\ RequestsInv
    BY DEF Init, OpenIsLinked, LocalsInv, RequestsInv
  <2>2. Docs = {}
    BY Places DEF Init, Docs
  <2>3. DocsInv
    BY <2>2, FS_EmptySet DEF DocsInv
  <2>4. CreatorsInv
    <3> SUFFICES ASSUME NEW k \in Nat, MaxDocs + k <= Cardinality(Docs)
                 PROVE  Cardinality({h \in Handler : MayCreate(h, k)}) + k + 1 <= Cardinality(Handler)
      BY DEF CreatorsInv
    <3>1. k = 0
      BY <2>2, FS_EmptySet, DocsStoreAssumption
    <3>2. {h \in Handler : MayCreate(h, k)} = {}
      BY DEF Init, MayCreate
    <3>3. Cardinality(Handler) \in Nat /\ Cardinality(Handler) # 0
      BY DocsStoreAssumption, FS_CardinalityType, FS_EmptySet
    <3> QED BY <3>1, <3>2, <3>3, FS_EmptySet
  <2> QED BY <2>1, <2>3, <2>4 DEF LimitInv
<1>2. LimitInv => LimitIsNearlyKept
  <2> SUFFICES ASSUME LimitInv, Limited
               PROVE  Cardinality(Docs) <= MaxDocs + Cardinality(Handler) - 1
    BY DEF LimitIsNearlyKept, Limited
  <2>1. Cardinality(Docs) \in Nat /\ Cardinality(Handler) \in Nat /\ Cardinality(Handler) # 0
    BY DocsStoreAssumption, FS_CardinalityType, FS_EmptySet DEF LimitInv, DocsInv
  <2>2. CASE MaxDocs <= Cardinality(Docs)
    <3> DEFINE k == Cardinality(Docs) - MaxDocs
               creators == {h \in Handler : MayCreate(h, k)}
    <3>1. k \in Nat /\ MaxDocs + k = Cardinality(Docs)
      BY <2>1, <2>2, DocsStoreAssumption
    <3> HIDE DEF k
    <3>2. Cardinality(creators) + k + 1 <= Cardinality(Handler)
      BY <2>1, <3>1 DEF LimitInv, CreatorsInv
    <3>3. Cardinality(creators) \in Nat
      BY Subset, DocsStoreAssumption
    <3> HIDE DEF creators
    <3> QED BY <2>1, <3>1, <3>2, <3>3, DocsStoreAssumption
  <2>3. CASE ~(MaxDocs <= Cardinality(Docs))
    BY <2>1, <2>3, DocsStoreAssumption
  <2> QED BY <2>2, <2>3
<1>3. QED
  BY <1>1, <1>2, TypeInit, TypeStep, LocalsStep, LinkedStep, LimitStep, PTL DEF Spec
=============================================================================
