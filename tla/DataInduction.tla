---------------------------- MODULE DataInduction ----------------------------
(***************************************************************************)
(* Induction over data, for the proofs about folds, recursive functions and*)
(* traversals.  The induction theorems of the library take an operator as a*)
(* parameter; here the hypothesis is a set of numbers, the step of a fold a*)
(* function, and the base of all is that a nonempty set of numbers has a   *)
(* least element.                                                          *)
(***************************************************************************)
EXTENDS Integers, Sequences, SequencesExt,
        WellFoundedInduction, FiniteSetTheorems, TLAPS

LEMMA LeastNumber ==
    ASSUME NEW S, S \subseteq Nat, S # {}
    PROVE  \E n \in S : \A m \in S : n <= m
<1>1. IsWellFoundedOn(OpToRel(<, Nat), Nat)
  BY NatLessThanWellFounded
<1>2. PICK n \in S : \A m \in S : ~(<<m, n>> \in OpToRel(<, Nat))
  BY <1>1, WFMin
<1>3. \A m \in S : ~(m < n)
  BY <1>2 DEF OpToRel
<1> QED BY <1>3

(* A set with 0 and the successor of each of its numbers has them all.      *)
LEMMA CountingUp ==
    ASSUME NEW P, 0 \in P, \A n \in Nat : n \in P => n + 1 \in P
    PROVE  \A n \in Nat : n \in P
<1> SUFFICES ASSUME Nat \ P # {} PROVE FALSE
  OBVIOUS
<1>1. PICK n \in Nat \ P : \A m \in Nat \ P : n <= m
  BY LeastNumber
<1>2. n # 0 /\ n - 1 \in Nat /\ (n - 1) + 1 = n
  BY <1>1
<1>3. n - 1 \in P
  BY <1>1, <1>2
<1> QED BY <1>1, <1>2, <1>3

(* A finite set of numbers has a largest one.                               *)
LEMMA MaxIs ==
    ASSUME NEW S, IsFiniteSet(S), S \subseteq Int, S # {}
    PROVE  Max(S) \in S /\ \A x \in S : x <= Max(S)
<1> DEFINE P == {n \in Nat : \A T \in SUBSET S : Cardinality(T) = n + 1 => \E x \in T : \A y \in T : y <= x}
<1>1. 0 \in P
  <2> SUFFICES ASSUME NEW T \in SUBSET S, Cardinality(T) = 1 PROVE \E x \in T : \A y \in T : y <= x
    OBVIOUS
  <2>1. IsFiniteSet(T)
    BY FS_Subset
  <2>2. PICK x : T = {x}
    BY <2>1, FS_Singleton
  <2> QED BY <2>2
<1>2. ASSUME NEW n \in Nat, n \in P PROVE n + 1 \in P
  <2> SUFFICES ASSUME NEW T \in SUBSET S, Cardinality(T) = n + 2 PROVE \E x \in T : \A y \in T : y <= x
    OBVIOUS
  <2>1. IsFiniteSet(T)
    BY FS_Subset
  <2>2. T # {}
    BY FS_EmptySet
  <2>3. PICK z \in T : TRUE
    BY <2>2
  <2>4. Cardinality(T \ {z}) = n + 1
    <3>1. Cardinality(T \ {z}) = Cardinality(T) - 1
      BY <2>1, <2>3, FS_RemoveElement
    <3> QED BY <3>1
  <2>5. PICK x \in T \ {z} : \A y \in T \ {z} : y <= x
    BY <1>2, <2>4
  <2>6. x \in Int /\ z \in Int /\ \A y \in T : y \in Int /\ (y = z \/ y \in T \ {z})
    BY <2>3
  <2>7. CASE z <= x
    BY <2>5, <2>6, <2>7
  <2>8. CASE ~(z <= x)
    BY <2>3, <2>5, <2>6, <2>8
  <2> QED BY <2>7, <2>8
<1>3. \A n \in Nat : n \in P
  <2> HIDE DEF P
  <2> QED BY <1>1, <1>2, CountingUp
<1>4. Cardinality(S) \in Nat /\ Cardinality(S) # 0
  BY FS_CardinalityType, FS_EmptySet
<1>5. Cardinality(S) - 1 \in Nat /\ Cardinality(S) = (Cardinality(S) - 1) + 1
  BY <1>4
<1>6. \E x \in S : \A y \in S : y <= x
  BY <1>3, <1>5
<1>7. \E x \in S : \A y \in S : x >= y
  BY <1>6
<1>8. Max(S) \in S /\ \A x \in S : Max(S) >= x
  BY <1>7 DEF Max
<1> QED BY <1>8

(* The function that a fold over D is computed by exists, for any step.     *)
FoldsOver(D, X, base, G) == IsFiniteSet(D) /\ D \subseteq Nat /\ base \in X /\ G \in [X \X D -> X]
IsFold(h, D, base, G) == \A s \in SUBSET D : h[s] = IF s = {} THEN base ELSE G[<<h[s \ {Max(s)}], Max(s)>>]

LEMMA FoldExists ==
    ASSUME NEW D, NEW X, NEW base, NEW G, FoldsOver(D, X, base, G)
    PROVE  \E h \in [SUBSET D -> X] : IsFold(h, D, base, G)
<1> USE DEF FoldsOver, IsFold
<1> DEFINE next(h) == [s \in SUBSET D |-> IF s = {} THEN base ELSE G[<<h[s \ {Max(s)}], Max(s)>>]]
           good(h, k) == \A s \in SUBSET D : Cardinality(s) <= k => h[s] = next(h)[s]
           P == {k \in Nat : \E h \in [SUBSET D -> X] : good(h, k)}
<1>0. \A s \in SUBSET D : IsFiniteSet(s) /\ Cardinality(s) \in Nat
  BY FS_Subset, FS_CardinalityType
<1>1. ASSUME NEW s \in SUBSET D
      PROVE  IsFiniteSet(s) /\ Cardinality(s) \in Nat /\ (s # {} =>
                Max(s) \in D /\ Max(s) \in s /\ s \ {Max(s)} \in SUBSET D /\ Cardinality(s \ {Max(s)}) = Cardinality(s) - 1)
  <2>1. IsFiniteSet(s) /\ Cardinality(s) \in Nat
    BY <1>0
  <2>2. s # {} => Max(s) \in s
    <3>1. s \subseteq Int
      OBVIOUS
    <3> QED BY <2>1, <3>1, MaxIs
  <2>3. ASSUME s # {} PROVE Cardinality(s \ {Max(s)}) = Cardinality(s) - 1
    BY <2>1, <2>2, <2>3, FS_RemoveElement
  <2> QED BY <2>1, <2>2, <2>3
<1>2. ASSUME NEW h \in [SUBSET D -> X] PROVE next(h) \in [SUBSET D -> X]
  <2>1. ASSUME NEW s \in SUBSET D PROVE (IF s = {} THEN base ELSE G[<<h[s \ {Max(s)}], Max(s)>>]) \in X
    <3>1. s # {} => <<h[s \ {Max(s)}], Max(s)>> \in X \X D
      BY <1>1
    <3> QED BY <3>1
  <2> QED BY <2>1
<1>3. 0 \in P
  <2> DEFINE h == [s \in SUBSET D |-> base]
  <2>1. good(h, 0)
    <3> SUFFICES ASSUME NEW s \in SUBSET D, Cardinality(s) <= 0 PROVE h[s] = next(h)[s]
      OBVIOUS
    <3>1. IsFiniteSet(s) /\ Cardinality(s) = 0
      BY <1>0
    <3>2. s = {}
      BY <3>1, FS_EmptySet
    <3> QED BY <3>2
  <2> QED BY <2>1
<1>4. ASSUME NEW k \in Nat, k \in P PROVE k + 1 \in P
  <2>1. PICK h \in [SUBSET D -> X] : good(h, k)
    BY <1>4
  <2> DEFINE g == next(h)
  <2>2. ASSUME NEW s \in SUBSET D, Cardinality(s) <= k + 1 PROVE g[s] = next(g)[s]
    <3>1. CASE s = {}
      BY <3>1
    <3>2. CASE s # {}
      <4>1. s \ {Max(s)} \in SUBSET D /\ Cardinality(s \ {Max(s)}) <= k
        BY <1>1, <2>2, <3>2
      <4>2. g[s \ {Max(s)}] = h[s \ {Max(s)}]
        BY <2>1, <4>1
      <4>3. g[s] = G[<<h[s \ {Max(s)}], Max(s)>>]
        BY <3>2
      <4>4. next(g)[s] = G[<<g[s \ {Max(s)}], Max(s)>>]
        BY <3>2
      <4> QED BY <4>2, <4>3, <4>4
    <3> QED BY <3>1, <3>2
  <2>3. g \in [SUBSET D -> X]
    BY <1>2
  <2>4. good(g, k + 1)
    BY <2>2
  <2> HIDE DEF g, good
  <2> QED BY <2>3, <2>4
<1>5. \A k \in Nat : k \in P
  <2> HIDE DEF P
  <2> QED BY <1>3, <1>4, CountingUp
<1>6. Cardinality(D) \in Nat /\ \A s \in SUBSET D : Cardinality(s) <= Cardinality(D)
  BY FS_Subset, FS_CardinalityType
<1>7. PICK h \in [SUBSET D -> X] : good(h, Cardinality(D))
  BY <1>5, <1>6
<1>8. \A s \in SUBSET D : h[s] = next(h)[s]
  BY <1>6, <1>7
<1> QED BY <1>8

(* The function that puts pages together exists, if every page that has a   *)
(* next one is before N and before the next one.                            *)
ArePages(U, more, items, next, N) ==
    /\ more \subseteq Nat /\ items \in [Nat -> Seq(U)] /\ next \in [Nat -> Nat] /\ N \in Nat
    /\ \A o \in more : o < N /\ o < next[o]

ArePut(f, more, items, next) == f = [o \in Nat |-> IF o \in more THEN items[o] \o f[next[o]] ELSE items[o]]

LEMMA PagesExist ==
    ASSUME NEW U, NEW more, NEW items, NEW next, NEW N, ArePages(U, more, items, next, N)
    PROVE  \E f \in [Nat -> Seq(U)] : \A o \in Nat :
              f[o] = IF o \in more THEN items[o] \o f[next[o]] ELSE items[o]
<1> USE DEF ArePages
<1> DEFINE page(f) == [o \in Nat |-> IF o \in more THEN items[o] \o f[next[o]] ELSE items[o]]
           good(f, k) == \A o \in Nat : o + k >= N => f[o] = page(f)[o]
           P == {k \in Nat : \E f \in [Nat -> Seq(U)] : good(f, k)}
<1>1. ASSUME NEW f \in [Nat -> Seq(U)] PROVE page(f) \in [Nat -> Seq(U)]
  <2>1. ASSUME NEW o \in Nat PROVE (IF o \in more THEN items[o] \o f[next[o]] ELSE items[o]) \in Seq(U)
    <3>1. items[o] \in Seq(U) /\ f[next[o]] \in Seq(U)
      OBVIOUS
    <3> QED BY <3>1
  <2> QED BY <2>1
<1>2. 0 \in P
  <2>1. \A o \in Nat : o + 0 >= N => items[o] = page(items)[o]
    OBVIOUS
  <2> QED BY <2>1
<1>3. ASSUME NEW k \in Nat, k \in P PROVE k + 1 \in P
  <2>1. PICK f \in [Nat -> Seq(U)] : good(f, k)
    BY <1>3
  <2> DEFINE g == page(f)
  <2>2. ASSUME NEW o \in Nat, o + (k + 1) >= N PROVE g[o] = page(g)[o]
    <3>1. CASE o \in more
      <4>1. next[o] \in Nat /\ next[o] + k >= N
        BY <2>2, <3>1
      <4>2. f[next[o]] = g[next[o]]
        BY <2>1, <4>1
      <4>3. g[o] = items[o] \o f[next[o]] /\ page(g)[o] = items[o] \o g[next[o]]
        BY <3>1
      <4> QED BY <4>2, <4>3
    <3>2. CASE o \notin more
      BY <3>2
    <3> QED BY <3>1, <3>2
  <2>3. g \in [Nat -> Seq(U)]
    BY <1>1
  <2>4. good(g, k + 1)
    BY <2>2
  <2> HIDE DEF g, good
  <2> QED BY <2>3, <2>4
<1>4. \A k \in Nat : k \in P
  <2> HIDE DEF P
  <2> QED BY <1>2, <1>3, CountingUp
<1>5. PICK f \in [Nat -> Seq(U)] : good(f, N)
  BY <1>4
<1>6. \A o \in Nat : f[o] = page(f)[o]
  <2> HIDE DEF page
  <2>1. \A o \in Nat : o + N >= N
    OBVIOUS
  <2> QED BY <1>5, <2>1
<1> QED BY <1>6

(* Two sequences put together show what either shows.                       *)
LEMMA ConcatShows ==
    ASSUME NEW U, NEW s \in Seq(U), NEW t \in Seq(U)
    PROVE  /\ s \o t \in Seq(U) /\ Len(s \o t) = Len(s) + Len(t)
           /\ \A i \in 1 .. Len(s) : (s \o t)[i] = s[i]
           /\ \A i \in 1 .. Len(t) : (s \o t)[Len(s) + i] = t[i]
           /\ ToSet(s) \subseteq ToSet(s \o t) /\ ToSet(t) \subseteq ToSet(s \o t)
<1>1. s \o t \in Seq(U) /\ Len(s \o t) = Len(s) + Len(t)
  OBVIOUS
<1>2. \A i \in 1 .. Len(s) : i \in 1 .. Len(s \o t) /\ (s \o t)[i] = s[i]
  OBVIOUS
<1>3. \A i \in 1 .. Len(t) : Len(s) + i \in 1 .. Len(s \o t) /\ (s \o t)[Len(s) + i] = t[i]
  OBVIOUS
<1>4. DOMAIN s = 1 .. Len(s) /\ DOMAIN t = 1 .. Len(t) /\ DOMAIN (s \o t) = 1 .. Len(s \o t)
  BY <1>1
<1>5. ToSet(s \o t) = {(s \o t)[k] : k \in 1 .. Len(s \o t)}
  BY <1>4 DEF ToSet
<1>6. ToSet(s) = {s[k] : k \in 1 .. Len(s)} /\ ToSet(t) = {t[k] : k \in 1 .. Len(t)}
  BY <1>4 DEF ToSet
<1>7. ToSet(s) \subseteq ToSet(s \o t)
  BY <1>2, <1>5, <1>6
<1>8. ToSet(t) \subseteq ToSet(s \o t)
  BY <1>3, <1>5, <1>6
<1> QED BY <1>1, <1>2, <1>3, <1>7, <1>8

(* Pages put together hold rows of the pages only, and every row that is on  *)
(* a page or further on than the page after it begins.                      *)
PutShows(f, U, more, items, next) ==
    \A x \in U, a \in Nat :
        (\A o \in Nat : o <= a => x \in ToSet(items[o]) \/ (o \in more /\ next[o] <= a))
        => \A o \in Nat : o <= a => x \in ToSet(f[o])

LEMMA PagesShow ==
    ASSUME NEW U, NEW more, NEW items, NEW next, NEW N, ArePages(U, more, items, next, N),
           NEW f, ArePut(f, more, items, next)
    PROVE  f \in [Nat -> Seq(U)] /\ PutShows(f, U, more, items, next)
<1> USE DEF ArePages, ArePut
<1>0. \A o \in Nat : f[o] = IF o \in more THEN items[o] \o f[next[o]] ELSE items[o]
  <2> DEFINE g == [o \in Nat |-> IF o \in more THEN items[o] \o f[next[o]] ELSE items[o]]
  <2>1. \A o \in Nat : g[o] = IF o \in more THEN items[o] \o f[next[o]] ELSE items[o]
    OBVIOUS
  <2>2. f = g
    OBVIOUS
  <2> HIDE DEF g
  <2> QED BY <2>1, <2>2
<1>1. \A o \in Nat : f[o] \in Seq(U)
  <2> DEFINE P == {k \in Nat : \A o \in Nat : o + k >= N => f[o] \in Seq(U)}
  <2>1. 0 \in P
    BY <1>0
  <2>2. ASSUME NEW k \in Nat, k \in P PROVE k + 1 \in P
    <3> SUFFICES ASSUME NEW o \in Nat, o + (k + 1) >= N PROVE f[o] \in Seq(U)
      OBVIOUS
    <3>1. CASE o \in more
      <4>1. next[o] \in Nat /\ next[o] + k >= N
        BY <3>1
      <4>2. f[next[o]] \in Seq(U) /\ items[o] \in Seq(U)
        BY <2>2, <4>1
      <4>3. items[o] \o f[next[o]] \in Seq(U)
        BY <4>2
      <4>4. f[o] = items[o] \o f[next[o]]
        BY <1>0, <3>1
      <4> QED BY <4>3, <4>4
    <3>2. CASE o \notin more
      BY <1>0, <3>2
    <3> QED BY <3>1, <3>2
  <2>3. \A k \in Nat : k \in P
    <3> HIDE DEF P
    <3> QED BY <2>1, <2>2, CountingUp
  <2>4. N \in P
    BY <2>3
  <2>5. \A o \in Nat : o + N >= N
    OBVIOUS
  <2> QED BY <2>4, <2>5
<1>2. f \in [Nat -> Seq(U)]
  <2>1. DOMAIN f = Nat /\ f = [o \in Nat |-> f[o]]
    <3> DEFINE g == [o \in Nat |-> IF o \in more THEN items[o] \o f[next[o]] ELSE items[o]]
    <3>1. g = [o \in Nat |-> g[o]] /\ DOMAIN g = Nat
      OBVIOUS
    <3>2. f = g
      OBVIOUS
    <3> HIDE DEF g
    <3> QED BY <3>1, <3>2
  <2> QED BY <1>1, <2>1
<1>3. ASSUME NEW x \in U, NEW a \in Nat,
             \A o \in Nat : o <= a => x \in ToSet(items[o]) \/ (o \in more /\ next[o] <= a)
      PROVE  \A o \in Nat : o <= a => x \in ToSet(f[o])
  <2> DEFINE P == {k \in Nat : \A o \in Nat : o + k >= N /\ o <= a => x \in ToSet(f[o])}
  <2>1. 0 \in P
    <3> SUFFICES ASSUME NEW o \in Nat, o >= N, o <= a PROVE x \in ToSet(f[o])
      OBVIOUS
    <3>1. o \notin more
      OBVIOUS
    <3> QED BY <1>0, <1>3, <3>1
  <2>2. ASSUME NEW k \in Nat, k \in P PROVE k + 1 \in P
    <3> SUFFICES ASSUME NEW o \in Nat, o + (k + 1) >= N, o <= a PROVE x \in ToSet(f[o])
      OBVIOUS
    <3>1. CASE o \in more
      <4>1. next[o] \in Nat /\ next[o] + k >= N
        BY <3>1
      <4>2. items[o] \in Seq(U) /\ f[next[o]] \in Seq(U) /\ f[o] = items[o] \o f[next[o]]
        BY <1>0, <1>1, <3>1, <4>1
      <4>3. ASSUME NEW s \in Seq(U), NEW t \in Seq(U)
            PROVE  ToSet(s) \subseteq ToSet(s \o t) /\ ToSet(t) \subseteq ToSet(s \o t)
        BY ConcatShows
      <4>4. CASE x \in ToSet(items[o])
        BY <4>2, <4>3, <4>4
      <4>5. CASE next[o] <= a
        <5>1. x \in ToSet(f[next[o]])
          BY <2>2, <4>1, <4>5
        <5> QED BY <4>2, <4>3, <5>1
      <4> QED BY <1>3, <4>4, <4>5
    <3>2. CASE o \notin more
      BY <1>0, <1>3, <3>2
    <3> QED BY <3>1, <3>2
  <2>3. \A k \in Nat : k \in P
    <3> HIDE DEF P
    <3> QED BY <2>1, <2>2, CountingUp
  <2>4. N \in P
    BY <2>3
  <2>5. \A o \in Nat : o + N >= N
    OBVIOUS
  <2> QED BY <2>4, <2>5
<1> QED BY <1>2, <1>3 DEF PutShows

(* SetToSeq lists a finite set, each element once.                          *)
LEMMA SetToSeqLists ==
    ASSUME NEW S, IsFiniteSet(S)
    PROVE  /\ SetToSeq(S) \in Seq(S) /\ Len(SetToSeq(S)) = Cardinality(S) /\ Cardinality(S) \in Nat
           /\ \A i, j \in 1 .. Len(SetToSeq(S)) : SetToSeq(S)[i] = SetToSeq(S)[j] => i = j
           /\ \A x \in S : \E i \in 1 .. Len(SetToSeq(S)) : SetToSeq(S)[i] = x
<1> DEFINE n == Cardinality(S)
<1>1. n \in Nat /\ ExistsBijection(1 .. n, S)
  BY FS_CardinalityType
<1>2. PICK g \in Bijection(1 .. n, S) : TRUE
  BY <1>1 DEF ExistsBijection
<1>3. g \in [1 .. n -> S] /\ IsInjective(g)
  BY <1>2 DEF Bijection, Injection
<1> DEFINE s == SetToSeq(S)
<1>4. s \in [1 .. n -> S] /\ IsInjective(s)
  BY <1>3 DEF SetToSeq
<1> HIDE DEF s
<1>5. s \in Injection(1 .. n, S)
  BY <1>4 DEF Injection
<1>6. Cardinality(1 .. n) = n /\ IsFiniteSet(1 .. n)
  BY <1>1, FS_Interval
<1>7. s \in Surjection(1 .. n, S)
  BY <1>1, <1>5, <1>6, FS_Injection
<1>8. \A i, j \in 1 .. n : s[i] = s[j] => i = j
  BY <1>4 DEF IsInjective
<1>9. \A x \in S : \E i \in 1 .. n : s[i] = x
  BY <1>7 DEF Surjection
<1>10. s \in Seq(S) /\ Len(s) = n
  BY <1>1, <1>4
<1> QED BY <1>1, <1>8, <1>9, <1>10 DEF s

=============================================================================
