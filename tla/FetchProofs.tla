------------------------------ MODULE FetchProofs ------------------------------
(***************************************************************************)
(* Proofs about FetchBatch, for every history, every number of refs and of *)
(* permits: the repository never has a commit without its tree and its     *)
(* history.                                                                *)
(***************************************************************************)
EXTENDS FetchBatch, FiniteSetTheorems, TLAPS

\* No commit without its tree and its parents.
Closed(objects) == \A c \in objects \cap Commits : (Files[c] \cup Parents[c]) \subseteq objects

PackType   == [kind : {"pack"}, ref : {None}, base : Commits \cup {None}, sha : Commits]
ObjectType == [kind : {"pack", "bundle"}, ref : Refs \cup {None}, base : Commits \cup {None}, sha : Commits]
ChainType  == [tip : Commits \cup {None}, full : Commits \cup {None}, segs : Seq(PackType)]
TaskType   == [at : States, sha : Commits \cup {None}, chain : ChainType, todo : Seq(ObjectType),
               miss : SUBSET ObjectType, tries : 0..MaxRetries]

Types == Typed /\ task \in [Refs -> TaskType]

\* A manifest: the newest segment has the tip, each segment follows the next
\* one, and the oldest is the baseline.
ChainOK(ch) ==
  ch # NoChain =>
    /\ ch.tip \in Commits /\ ch.full \in Commits /\ Len(ch.segs) > 0
    /\ ch.segs[1].sha = ch.tip
    /\ \A i \in 1..Len(ch.segs) :
         IF i = Len(ch.segs) THEN ch.segs[i].base = None /\ ch.segs[i].sha = ch.full
         ELSE ch.segs[i].base = ch.segs[i + 1].sha

\* The history of a tip has the commit, unless a force push took it off.
Has(ch, c) == ch # NoChain /\ c \in Ancestors(ch.tip) \cup dropped

\* What is to be installed follows what is there, or what comes before it,
\* and ends with the tip.
TodoOK(todo, tip) ==
  IF todo = <<>> THEN tip \in odb
  ELSE /\ todo[Len(todo)].sha = tip
       /\ \A i \in 1..Len(todo) :
            todo[i].base # None =>
              IF i = 1 THEN todo[i].base \in odb ELSE todo[i].base = todo[i - 1].sha

\* A shallow fetch starts with a pack, or has nothing to install.
NextOK(todo, tip) == IF todo = <<>> THEN tip \in odb ELSE Head(todo).kind = "pack"

\* The task has the chain that it installs.
Planned(t) == t.at \in {"install", "next"} \/ (t.at = "get" /\ engine = "packchain")

TaskOK(r, t) ==
  t.at # "none" =>
    /\ t.sha \in Commits /\ Has(chain[r], t.sha)
    /\ Planned(t) =>
         /\ t.chain.tip \in Commits /\ Has(t.chain, t.sha)
         /\ ~partial => IF t.at = "next" THEN NextOK(t.todo, t.chain.tip)
                        ELSE TodoOK(t.todo, t.chain.tip)

RemoteOK ==
  \A r \in Refs : ChainOK(chain[r]) /\ (adv[r] # None => Has(chain[r], adv[r]))

LocalOK == ~partial => Closed(odb) /\ fetched \subseteq odb \cup dropped

\* A batch for a single ref has the boundary of that ref, once it was walked.
EdgesOK ==
  \A r \in Refs :
    Running = {r} /\ depth > 0 =>
      edges = IF task[r].at = "done" THEN shallow_boundaries(task[r].sha, depth) ELSE {}

FetchInv == Types /\ RemoteOK /\ LocalOK /\ \A r \in Refs : TaskOK(r, task[r])

-----------------------------------------------------------------------------
(* Numbers.                                                                *)

LEMMA Smallest ==
  ASSUME NEW T, T \subseteq Nat, T # {}
  PROVE  \E x \in T : \A y \in T : x <= y
<1> DEFINE D == {0..x : x \in T}
<1>1. D \subseteq FiniteSubsetsOf(Nat) /\ D # {}
  <2>1. \A x \in T : 0..x \in FiniteSubsetsOf(Nat)
    <3> SUFFICES ASSUME NEW x \in T PROVE IsFiniteSet(0..x) /\ 0..x \subseteq Nat
      BY DEF FiniteSubsetsOf
    <3>1. x \in Int /\ 0 \in Int
      OBVIOUS
    <3> QED BY <3>1, FS_Interval
  <2> QED BY <2>1
<1>2. PICK d \in D : \A e \in D : <<e, d>> \notin StrictSubsetOrdering(Nat)
  <2> HIDE DEF D
  <2> QED BY <1>1, FS_StrictSubsetOrderingWellFounded, WFMin
<1>3. PICK x \in T : d = 0..x
  OBVIOUS
<1> SUFFICES ASSUME NEW y \in T, y < x PROVE FALSE
  BY <1>3
<1>4. 0..y \in D /\ 0..y \subseteq 0..x /\ 0..y # 0..x /\ 0..x \subseteq Nat
  OBVIOUS
<1> QED BY <1>2, <1>3, <1>4 DEF StrictSubsetOrdering

\* Induction, with the numbers for which the claim holds as a set.
LEMMA Induct ==
  ASSUME NEW S, 0 \in S, \A k \in Nat : k \in S => k + 1 \in S
  PROVE  Nat \subseteq S
<1> SUFFICES ASSUME Nat \ S # {} PROVE FALSE
  OBVIOUS
<1> PICK x \in Nat \ S : \A y \in Nat \ S : x <= y
  BY Smallest
<1>1. x - 1 \in Nat /\ x - 1 \notin Nat \ S
  OBVIOUS
<1> QED BY <1>1

LEMMA MinIn ==
  ASSUME NEW T, T \subseteq Nat, T # {}
  PROVE  Min(T) \in T /\ \A y \in T : Min(T) <= y
  BY Smallest DEF Min

-----------------------------------------------------------------------------
(* Histories.                                                              *)

\* The levels of a walk.
Level(f, tips, cut, i) ==
  IF i <= 1 THEN IF i = 0 THEN {} ELSE tips
  ELSE f[i - 1] \cup UNION {Parents[c] : c \in f[i - 1] \ cut}

IsWalk(f, tips, cut, n) == f = [i \in 0..n |-> Level(f, tips, cut, i)]

\* One level after the other.
Stepwise(f, tips, cut, n) ==
  /\ f[0] = {}
  /\ n > 0 => f[1] = tips
  /\ \A i \in 1..(n - 1) : f[i + 1] = f[i] \cup UNION {Parents[c] : c \in f[i] \ cut}

LEMMA Levels ==
  ASSUME NEW tips, NEW cut, NEW n \in Nat
  PROVE  \E f : IsWalk(f, tips, cut, n) /\ Within(tips, cut, n) = f[n]
<1> DEFINE S == {k \in Nat : \E f : IsWalk(f, tips, cut, k)}
<1>1. 0 \in S
  <2> DEFINE f == [i \in 0..0 |-> {}]
  <2>1. IsWalk(f, tips, cut, 0)
    BY DEF Level, IsWalk
  <2> QED BY <2>1
<1>2. ASSUME NEW k \in Nat, k \in S PROVE k + 1 \in S
  <2> PICK f : IsWalk(f, tips, cut, k)
    BY <1>2
  <2> DEFINE g == [i \in 0..(k + 1) |-> IF i <= k THEN f[i] ELSE Level(f, tips, cut, k + 1)]
  <2>1. ASSUME NEW i \in 0..(k + 1) PROVE g[i] = Level(g, tips, cut, i)
    <3>1. i > 0 => i - 1 \in 0..k /\ i - 1 \in 0..(k + 1)
      OBVIOUS
    <3>2. i > 0 => g[i - 1] = f[i - 1]
      BY <3>1
    <3>3. Level(g, tips, cut, i) = Level(f, tips, cut, i)
      <4> HIDE DEF g
      <4>1. CASE i <= 1
        BY <4>1 DEF Level
      <4>2. CASE ~(i <= 1)
        <5> PICK v : v = f[i - 1]
          OBVIOUS
        <5>1. g[i - 1] = v
          BY <3>2, <4>2
        <5>2. Level(g, tips, cut, i) = v \cup UNION {Parents[c] : c \in v \ cut}
          BY <4>2, <5>1, Zenon DEF Level
        <5>3. Level(f, tips, cut, i) = v \cup UNION {Parents[c] : c \in v \ cut}
          BY <4>2, Zenon DEF Level
        <5> QED BY <5>2, <5>3
      <4> QED BY <4>1, <4>2
    <3>4. i <= k => f[i] = Level(f, tips, cut, i)
      BY DEF IsWalk
    <3> QED BY <3>3, <3>4
  <2>2. IsWalk(g, tips, cut, k + 1)
    BY <2>1 DEF IsWalk
  <2> HIDE DEF g
  <2> QED BY <2>2
<1>3. n \in S
  <2> HIDE DEF S
  <2> QED BY <1>1, <1>2, Induct
<1> DEFINE W == CHOOSE f : f = [i \in 0..n |-> Level(f, tips, cut, i)]
<1>4. W = [i \in 0..n |-> Level(W, tips, cut, i)]
  BY <1>3 DEF IsWalk
<1>5. Within(tips, cut, n) = W[n]
  BY DEF Within, Level
<1> QED BY <1>4, <1>5 DEF IsWalk

LEMMA LevelSteps ==
  ASSUME NEW tips, NEW cut, NEW n \in Nat, NEW f, IsWalk(f, tips, cut, n)
  PROVE  Stepwise(f, tips, cut, n)
<1>0. \A j \in 0..n : f[j] = Level(f, tips, cut, j)
  BY DEF IsWalk
<1>1. f[0] = {}
  <2>1. 0 \in 0..n /\ 0 <= 1
    OBVIOUS
  <2>2. f[0] = Level(f, tips, cut, 0)
    BY <1>0, <2>1
  <2> QED BY <2>1, <2>2, Zenon DEF Level
<1>2. n > 0 => f[1] = tips
  <2> SUFFICES ASSUME n > 0 PROVE f[1] = tips
    OBVIOUS
  <2>1. 1 \in 0..n /\ 1 <= 1 /\ 1 # 0
    OBVIOUS
  <2>2. f[1] = Level(f, tips, cut, 1)
    BY <1>0, <2>1
  <2> QED BY <2>1, <2>2, Zenon DEF Level
<1>3. ASSUME NEW i \in 1..(n - 1) PROVE f[i + 1] = f[i] \cup UNION {Parents[c] : c \in f[i] \ cut}
  <2> PICK j \in 0..n : j = i + 1
    OBVIOUS
  <2>1. ~(j <= 1) /\ j - 1 = i
    OBVIOUS
  <2>2. f[j] = Level(f, tips, cut, j)
    BY <1>0
  <2>3. f[j] = f[j - 1] \cup UNION {Parents[c] : c \in f[j - 1] \ cut}
    BY <2>1, <2>2, Zenon DEF Level
  <2> QED BY <2>1, <2>3
<1> QED BY <1>1, <1>2, <1>3 DEF Stepwise

\* A set that holds the tips and is closed holds all of the walk.
LEMMA WithinLeast ==
  ASSUME NEW tips, NEW cut, NEW n \in Nat, NEW S, tips \subseteq S, \A c \in S : Parents[c] \subseteq S
  PROVE  Within(tips, cut, n) \subseteq S
<1> PICK f : IsWalk(f, tips, cut, n) /\ Within(tips, cut, n) = f[n]
  BY Levels
<1> DEFINE N == {k \in Nat : k <= n => f[k] \subseteq S}
<1>1. /\ f[0] = {}
      /\ n > 0 => f[1] = tips
      /\ \A i \in 1..(n - 1) : f[i + 1] = f[i] \cup UNION {Parents[c] : c \in f[i] \ cut}
  <2>1. Stepwise(f, tips, cut, n)
    BY LevelSteps
  <2> QED BY <2>1 DEF Stepwise
<1>2. 0 \in N
  BY <1>1
<1>3. ASSUME NEW k \in Nat, k \in N PROVE k + 1 \in N
  <2> SUFFICES ASSUME k + 1 <= n PROVE f[k + 1] \subseteq S
    OBVIOUS
  <2>1. CASE k = 0
    BY <1>1, <2>1
  <2>2. CASE k # 0
    <3>1. k \in 1..(n - 1) /\ f[k] \subseteq S
      BY <1>3, <2>2
    <3>2. f[k + 1] = f[k] \cup UNION {Parents[c] : c \in f[k] \ cut}
      BY <1>1, <3>1
    <3> QED BY <3>1, <3>2
  <2> QED BY <2>1, <2>2
<1>4. n \in N
  <2> HIDE DEF N
  <2> QED BY <1>2, <1>3, Induct
<1> QED BY <1>4

LEMMA WithinTyped ==
  ASSUME NEW tips, tips \subseteq Commits, NEW cut, NEW n \in Nat
  PROVE  Within(tips, cut, n) \subseteq Commits
  BY WithinLeast, ConstantsAssumption

LEMMA AncestorsLeast ==
  ASSUME NEW c, NEW S, c \in S, \A d \in S : Parents[d] \subseteq S
  PROVE  Ancestors(c) \subseteq S
<1>1. Cardinality(Commits) \in Nat
  BY ConstantsAssumption, FS_CardinalityType
<1> QED BY <1>1, WithinLeast DEF Ancestors, Reachable

\* The history of a commit: it grows by a commit at each level until it is
\* complete, and there are no more levels than commits.
LEMMA AncestorsClosed ==
  ASSUME NEW c \in Commits
  PROVE  /\ c \in Ancestors(c) /\ Ancestors(c) \subseteq Commits
         /\ \A d \in Ancestors(c) : Parents[d] \subseteq Ancestors(c)
<1> DEFINE Full(s)    == \A d \in s : Parents[d] \subseteq s
           Good(s, k) == s \subseteq Commits /\ c \in s /\ (Full(s) \/ Cardinality(s) >= k)
<1> PICK n : n = Cardinality(Commits)
  OBVIOUS
<1>1. n \in Nat \ {0} /\ IsFiniteSet(Commits)
  BY ConstantsAssumption, FS_CardinalityType, FS_EmptySet
<1> PICK f : IsWalk(f, {c}, {}, n) /\ Within({c}, {}, n) = f[n]
  BY <1>1, Levels
<1>2. f[1] = {c} /\ \A i \in 1..(n - 1) : f[i + 1] = f[i] \cup UNION {Parents[d] : d \in f[i] \ {}}
  <2>1. n \in Nat /\ n > 0
    BY <1>1
  <2>2. Stepwise(f, {c}, {}, n)
    BY <2>1, LevelSteps
  <2> QED BY <2>1, <2>2 DEF Stepwise
<1>3. Good(f[1], 1)
  <2>1. Cardinality({c}) = 1
    BY FS_Singleton
  <2>2. Cardinality({c}) >= 1
    BY <2>1
  <2> QED BY <1>2, <2>2, Zenon
<1>4. ASSUME NEW i \in 1..(n - 1), Good(f[i], i) PROVE Good(f[i + 1], i + 1)
  <2> PICK s, t : s = f[i] /\ t = f[i + 1]
    OBVIOUS
  <2>1. t = s \cup UNION {Parents[d] : d \in s}
    <3>1. s \ {} = s
      OBVIOUS
    <3> QED BY <1>2, <3>1
  <2>2. s \subseteq Commits /\ c \in s /\ (Full(s) \/ Cardinality(s) >= i)
    BY <1>4
  <2>3. t \subseteq Commits /\ c \in t
    BY <2>1, <2>2, ConstantsAssumption
  <2>4. Full(s) => Full(t)
    <3>1. Full(s) => t = s
      BY <2>1
    <3> HIDE DEF Full
    <3> QED BY <3>1
  <2>5. ASSUME ~Full(s), Cardinality(s) >= i PROVE Cardinality(t) >= i + 1
    <3>1. s \subseteq t /\ s # t
      <4> PICK d \in s : ~(Parents[d] \subseteq s)
        BY <2>5
      <4>1. Parents[d] \subseteq t
        BY <2>1
      <4> QED BY <2>1, <4>1
    <3>2. IsFiniteSet(t) /\ Cardinality(t) \in Nat
      BY <1>1, <2>3, FS_Subset, FS_CardinalityType
    <3>3. Cardinality(s) <= Cardinality(t) /\ Cardinality(s) # Cardinality(t) /\ Cardinality(s) \in Nat
      BY <3>1, <3>2, FS_Subset, FS_CardinalityType
    <3> QED BY <1>1, <2>5, <3>2, <3>3
  <2> HIDE DEF Full
  <2>6. Good(t, i + 1)
    BY <2>2, <2>3, <2>4, <2>5
  <2> QED BY <2>6
<1> HIDE DEF Full, Good
<1> DEFINE N == {k \in Nat : k + 1 <= n => Good(f[k + 1], k + 1)}
<1>5. 0 \in N
  BY <1>3
<1>6. ASSUME NEW k \in Nat, k \in N PROVE k + 1 \in N
  <2> SUFFICES ASSUME (k + 1) + 1 <= n PROVE Good(f[(k + 1) + 1], (k + 1) + 1)
    OBVIOUS
  <2> PICK i : i = k + 1
    OBVIOUS
  <2>1. i \in 1..(n - 1) /\ Good(f[i], i)
    BY <1>1, <1>6
  <2> QED BY <1>4, <2>1
<1>7. Good(f[n], n)
  <2> PICK m \in Nat : m + 1 = n
    BY <1>1
  <2>1. m \in N
    <3> HIDE DEF N
    <3> QED BY <1>5, <1>6, Induct
  <2> QED BY <2>1
<1>8. Full(f[n])
  <2> PICK s : s = f[n]
    OBVIOUS
  <2>0. s \subseteq Commits /\ (Full(s) \/ Cardinality(s) >= n)
    BY <1>7 DEF Good
  <2> SUFFICES ASSUME Cardinality(s) >= n PROVE Full(s)
    BY <2>0
  <2>1. Cardinality(s) <= n /\ Cardinality(s) \in Nat
    BY <1>1, <2>0, FS_Subset, FS_CardinalityType
  <2>2. Cardinality(s) = Cardinality(Commits)
    BY <1>1, <2>1
  <2>3. s = Commits
    BY <1>1, <2>0, <2>2, FS_Subset
  <2> QED BY <2>3, ConstantsAssumption DEF Full
<1>9. f[n] \subseteq Commits /\ c \in f[n]
  BY <1>7 DEF Good
<1> QED BY <1>8, <1>9 DEF Full, Ancestors, Reachable

LEMMA AncestorsIn ==
  ASSUME NEW c \in Commits, NEW d \in Ancestors(c)
  PROVE  Ancestors(d) \subseteq Ancestors(c)
  BY AncestorsClosed, AncestorsLeast

-----------------------------------------------------------------------------
(* Packs.                                                                  *)

\* A closed repository that has a commit has its history, with the trees.
LEMMA ClosedHas ==
  ASSUME NEW objects, Closed(objects), NEW c \in objects \cap Commits
  PROVE  Ancestors(c) \subseteq objects /\ \A d \in Ancestors(c) : Files[d] \subseteq objects
<1>1. \A d \in objects \cap Commits : Parents[d] \subseteq objects \cap Commits
  BY ConstantsAssumption DEF Closed
<1>2. Ancestors(c) \subseteq objects \cap Commits
  BY <1>1, AncestorsLeast
<1> QED BY <1>2 DEF Closed

LEMMA FullPackClosed ==
  ASSUME NEW objects, Closed(objects), NEW c \in Commits
  PROVE  Closed(objects \cup FullPack(c)) /\ c \in FullPack(c)
<1>1. /\ c \in Ancestors(c) /\ Ancestors(c) \subseteq Commits
      /\ \A d \in Ancestors(c) : Parents[d] \subseteq Ancestors(c)
  BY AncestorsClosed
<1>2. \A d \in FullPack(c) \cap Commits : d \in Ancestors(c)
  BY <1>1, ConstantsAssumption DEF FullPack
<1>3. \A d \in Ancestors(c) : (Files[d] \cup Parents[d]) \subseteq FullPack(c)
  BY <1>1 DEF FullPack
<1> QED BY <1>1, <1>2, <1>3 DEF Closed, FullPack

\* The parts of an incremental pack.
NewBlobs(c) == {b \in Files[c] : Parents[c] = {} \/ \E p \in Parents[c] : b \notin Files[p]}

LEMMA IncrementalParts ==
  ASSUME NEW b, NEW c \in Commits
  PROVE  LET new == Ancestors(c) \ Ancestors(b) IN
         /\ new \subseteq IncrementalPack(b, c)
         /\ \A d \in new : Parents[d] \subseteq IncrementalPack(b, c) /\ NewBlobs(d) \subseteq IncrementalPack(b, c)
         /\ \A o \in IncrementalPack(b, c) :
              o \in new \/ (\E d \in new : o \in Parents[d]) \/ o \in Blobs
<1> DEFINE new     == Ancestors(c) \ Ancestors(b)
           parents == UNION {Parents[e] : e \in new}
           blobs   == UNION {NewBlobs(e) : e \in new}
<1>1. IncrementalPack(b, c) = new \cup parents \cup blobs
  BY DEF IncrementalPack, NewBlobs
<1>2. new \subseteq Commits
  BY AncestorsClosed
<1> HIDE DEF new
<1>3. ASSUME NEW d \in new PROVE NewBlobs(d) \subseteq Blobs
  BY <1>2, ConstantsAssumption DEF NewBlobs
<1>4. blobs \subseteq Blobs
  BY <1>3
<1>5. \A d \in new : NewBlobs(d) \subseteq blobs /\ Parents[d] \subseteq parents
  OBVIOUS
<1>6. \A o \in parents : \E d \in new : o \in Parents[d]
  OBVIOUS
<1> HIDE DEF parents, blobs
<1> QED BY <1>1, <1>4, <1>5, <1>6 DEF new

\* An incremental pack leaves out the blobs that no commit of it changes:
\* they are with the base, or in a commit before.
LEMMA IncrementalClosed ==
  ASSUME NEW objects, Closed(objects), NEW b \in objects \cap Commits, NEW c \in Commits
  PROVE  Closed(objects \cup IncrementalPack(b, c)) /\ c \in objects \cup IncrementalPack(b, c)
<1> DEFINE new == Ancestors(c) \ Ancestors(b)
           all == objects \cup IncrementalPack(b, c)
           bad == {d \in new : ~(Files[d] \subseteq all)}
<1>1. /\ c \in Ancestors(c) /\ Ancestors(c) \subseteq Commits
      /\ \A d \in Ancestors(c) : Parents[d] \subseteq Ancestors(c)
  BY AncestorsClosed
<1>2. Ancestors(b) \subseteq objects /\ \A d \in Ancestors(b) : Files[d] \subseteq objects
  BY ClosedHas
<1>3. /\ new \subseteq all /\ \A d \in new : Parents[d] \subseteq all
      /\ \A d \in new : \A f \in Files[d] :
           (Parents[d] = {} \/ \E p \in Parents[d] : f \notin Files[p]) => f \in all
  <2>1. /\ new \subseteq IncrementalPack(b, c)
        /\ \A d \in new : Parents[d] \subseteq IncrementalPack(b, c) /\ NewBlobs(d) \subseteq IncrementalPack(b, c)
    BY IncrementalParts
  <2> HIDE DEF new
  <2> QED BY <2>1 DEF NewBlobs
<1>4. \A d \in all \cap Commits : d \in objects \/ d \in new \/ d \in Ancestors(b)
  <2>1. \A o \in IncrementalPack(b, c) : o \in new \/ (\E d \in new : o \in Parents[d]) \/ o \in Blobs
    BY IncrementalParts
  <2> QED BY <1>1, <2>1, ConstantsAssumption
<1> HIDE DEF all
<1>5. objects \subseteq all
  BY DEF all
<1>6. bad = {}
  <2> SUFFICES ASSUME bad # {} PROVE FALSE
    OBVIOUS
  <2> PICK d \in bad : Parents[d] \cap bad = {}
    BY <1>1, ConstantsAssumption
  <2>1. ASSUME NEW p \in Parents[d] PROVE Files[p] \subseteq all
    <3>1. p \in Ancestors(c) /\ p \notin bad
      BY <1>1, <2>1
    <3> QED BY <1>2, <1>5, <3>1
  <2>2. PICK f \in Files[d] : f \notin all
    OBVIOUS
  <2> QED BY <1>3, <2>1, <2>2
<1>7. \A d \in new : (Files[d] \cup Parents[d]) \subseteq all
  BY <1>3, <1>6
<1>8. \A d \in all \cap Commits : (Files[d] \cup Parents[d]) \subseteq all
  <2> HIDE DEF new
  <2>1. \A d \in objects \cap Commits : (Files[d] \cup Parents[d]) \subseteq all
    BY <1>5 DEF Closed
  <2>2. \A d \in Ancestors(b) \cap Commits : d \in objects
    BY <1>2
  <2> QED BY <1>4, <1>7, <2>1, <2>2
<1>9. c \in all
  BY <1>1, <1>2, <1>3, <1>5
<1> QED BY <1>8, <1>9 DEF Closed, all

LEMMA ContentsTyped ==
  ASSUME NEW o \in ObjectType
  PROVE  Contents(o) \subseteq Commits \cup Blobs
<1>1. o.sha \in Commits
  BY DEF ObjectType
<1>2. FullPack(o.sha) \subseteq Commits \cup Blobs
  BY <1>1, AncestorsClosed, ConstantsAssumption DEF FullPack
<1>3. IncrementalPack(o.base, o.sha) \subseteq Commits \cup Blobs
  <2> PICK c \in Commits : c = o.sha
    BY <1>1
  <2> PICK b : b = o.base
    OBVIOUS
  <2>1. Ancestors(c) \subseteq Commits
    BY AncestorsClosed
  <2>2. \A e \in IncrementalPack(b, c) :
          \/ e \in Ancestors(c) \ Ancestors(b)
          \/ \E d \in Ancestors(c) \ Ancestors(b) : e \in Parents[d]
          \/ e \in Blobs
    BY IncrementalParts
  <2>3. \A d \in Commits : Parents[d] \subseteq Commits
    BY ConstantsAssumption
  <2> QED BY <2>1, <2>2, <2>3
<1> QED BY <1>2, <1>3, Zenon DEF Contents

\* A pack that follows what is there leaves the repository closed, with its tip.
LEMMA ContentsClosed ==
  ASSUME NEW objects, Closed(objects), NEW o \in ObjectType, o.base = None \/ o.base \in objects
  PROVE  Closed(objects \cup Contents(o)) /\ o.sha \in objects \cup Contents(o)
<1>1. o.sha \in Commits /\ o.base \in Commits \cup {None}
  BY DEF ObjectType
<1>2. CASE o.base = None
  BY <1>1, <1>2, FullPackClosed DEF Contents
<1>3. CASE o.base # None
  <2>1. o.base \in objects \cap Commits
    BY <1>1, <1>3
  <2> QED BY <1>1, <1>3, <2>1, IncrementalClosed DEF Contents
<1> QED BY <1>2, <1>3

LEMMA FullChainOK ==
  ASSUME NEW c \in Commits
  PROVE  /\ FullChain(c) \in ChainType /\ FullChain(c) # NoChain
         /\ ChainOK(FullChain(c)) /\ FullChain(c).tip = c
<1>1. Pack(None, c) \in PackType /\ Pack(None, c).sha = c /\ Pack(None, c).base = None
  BY DEF Pack, PackType
<1> PICK p \in PackType : p = Pack(None, c) /\ p.sha = c /\ p.base = None
  BY <1>1
<1>2. <<p>> \in Seq(PackType) /\ Len(<<p>>) = 1 /\ <<p>>[1] = p
  OBVIOUS
<1> PICK s \in Seq(PackType) : s = <<p>> /\ Len(s) = 1 /\ s[1] = p
  BY <1>2
<1>3. FullChain(c) = [tip |-> c, full |-> c, segs |-> s]
  BY DEF FullChain
<1>4. FullChain(c).tip = c /\ FullChain(c).full = c /\ FullChain(c).segs = s /\ FullChain(c) \in ChainType
  BY <1>3 DEF ChainType
<1>5. FullChain(c) # NoChain
  BY <1>4, ConstantsAssumption DEF NoChain
<1> QED BY <1>4, <1>5 DEF ChainOK

LEMMA PushedChainOK ==
  ASSUME NEW ch \in ChainType, ch # NoChain, ChainOK(ch), NEW c \in Commits,
         NEW new, new = [tip |-> c, full |-> ch.full, segs |-> <<Pack(ch.tip, c)>> \o ch.segs]
  PROVE  new \in ChainType /\ new # NoChain /\ ChainOK(new) /\ new.tip = c
<1>1. /\ ch.tip \in Commits /\ ch.full \in Commits /\ ch.segs \in Seq(PackType) /\ Len(ch.segs) > 0
      /\ ch.segs[1].sha = ch.tip
      /\ \A i \in 1..Len(ch.segs) :
           IF i = Len(ch.segs) THEN ch.segs[i].base = None /\ ch.segs[i].sha = ch.full
           ELSE ch.segs[i].base = ch.segs[i + 1].sha
  BY DEF ChainOK, ChainType
<1>2. Pack(ch.tip, c) \in PackType /\ Pack(ch.tip, c).sha = c /\ Pack(ch.tip, c).base = ch.tip
  BY <1>1 DEF Pack, PackType
<1> PICK p \in PackType : p = Pack(ch.tip, c) /\ p.sha = c /\ p.base = ch.tip
  BY <1>2
<1> PICK s \in Seq(PackType), tip \in Commits, full \in Commits : s = ch.segs /\ tip = ch.tip /\ full = ch.full
  BY <1>1
<1> DEFINE all == <<p>> \o s
<1>3. /\ all \in Seq(PackType) /\ Len(all) = Len(s) + 1 /\ all[1] = p
      /\ \A i \in 1..Len(s) : all[i + 1] = s[i]
  OBVIOUS
<1> HIDE DEF all
<1>4. new = [tip |-> c, full |-> full, segs |-> all]
  BY DEF all
<1>5. new.tip = c /\ new.full = full /\ new.segs = all /\ new \in ChainType
  BY <1>3, <1>4 DEF ChainType
<1>6. new # NoChain
  BY <1>5, ConstantsAssumption DEF NoChain
<1>7. ASSUME NEW i \in 1..Len(all)
      PROVE  IF i = Len(all) THEN all[i].base = None /\ all[i].sha = full
             ELSE all[i].base = all[i + 1].sha
  <2>1. CASE i = 1
    BY <1>1, <1>3, <2>1
  <2>2. CASE i # 1
    <3> PICK n \in Nat : n = Len(s)
      OBVIOUS
    <3>0. i - 1 \in 1..n /\ i = (i - 1) + 1
      BY <1>3, <2>2
    <3> PICK j \in 1..Len(s) : i = j + 1
      BY <3>0
    <3>1. all[i] = s[j] /\ (j # Len(s) => all[i + 1] = s[j + 1]) /\ (i = Len(all) <=> j = Len(s))
      BY <1>3
    <3>2. IF j = Len(s) THEN s[j].base = None /\ s[j].sha = full ELSE s[j].base = s[j + 1].sha
      BY <1>1
    <3> QED BY <3>1, <3>2
  <2> QED BY <2>1, <2>2
<1>8. \A i \in 1..Len(new.segs) :
        IF i = Len(new.segs) THEN new.segs[i].base = None /\ new.segs[i].sha = new.full
        ELSE new.segs[i].base = new.segs[i + 1].sha
  BY <1>5, <1>7, Zenon
<1>9. new.tip \in Commits /\ new.full \in Commits /\ Len(new.segs) > 0 /\ new.segs[1].sha = new.tip
  BY <1>3, <1>5
<1> QED BY <1>5, <1>6, <1>8, <1>9 DEF ChainOK

-----------------------------------------------------------------------------
(* What is to be installed.                                                *)

\* The known segments have a newest one, where there is one.
LEMMA NeedIs ==
  ASSUME NEW ch \in ChainType, ch # NoChain, ChainOK(ch)
  PROVE  LET need == select_needed_segments(ch) IN
         \/ need.base /\ need.segs = ch.segs
         \/ \E m \in 1..Len(ch.segs) :
              ~need.base /\ ch.segs[m].sha \in odb /\ need.segs = SubSeq(ch.segs, 1, m - 1)
<1> DEFINE known == {i \in DOMAIN ch.segs : ch.segs[i].sha \in odb}
<1>0. ch.segs \in Seq(PackType)
  BY DEF ChainType
<1>1. known \subseteq 1..Len(ch.segs) /\ known \subseteq Nat
  BY <1>0
<1>2. select_needed_segments(ch) =
        [segs |-> IF known = {} THEN ch.segs ELSE SubSeq(ch.segs, 1, Min(known) - 1), base |-> known = {}]
  BY DEF select_needed_segments
<1>3. CASE known = {}
  <2>1. select_needed_segments(ch) = [segs |-> ch.segs, base |-> TRUE]
    BY <1>2, <1>3
  <2> HIDE DEF known
  <2> QED BY <2>1
<1>4. CASE known # {}
  <2>1. Min(known) \in known
    BY <1>1, <1>4, MinIn
  <2> PICK m \in 1..Len(ch.segs) : m = Min(known) /\ ch.segs[m].sha \in odb
    BY <1>1, <2>1
  <2>2. select_needed_segments(ch) = [segs |-> SubSeq(ch.segs, 1, m - 1), base |-> FALSE]
    BY <1>2, <1>4
  <2> HIDE DEF known
  <2> QED BY <2>2
<1> QED BY <1>3, <1>4

\* A list of packs, newest first, each of which follows the next one, and the
\* last of which follows what is there, in the other order.
LEMMA Reversed ==
  ASSUME NEW s \in Seq(PackType), Len(s) > 0, NEW tip, s[1].sha = tip,
         \A i \in 1..(Len(s) - 1) : s[i].base = s[i + 1].sha,
         s[Len(s)].base = None \/ s[Len(s)].base \in odb
  PROVE  LET rev == [i \in 1..Len(s) |-> s[Len(s) + 1 - i]] IN
         rev \in Seq(PackType) /\ rev # <<>> /\ TodoOK(rev, tip)
<1> PICK n \in Nat : n = Len(s) /\ n > 0
  OBVIOUS
<1> DEFINE rev == [i \in 1..n |-> s[n + 1 - i]]
<1>1. \A i \in 1..n : rev[i] = s[n + 1 - i] /\ n + 1 - i \in 1..n
  OBVIOUS
<1>2. \A i \in 1..n : rev[i] \in PackType
  BY <1>1
<1>3. rev \in Seq(PackType) /\ Len(rev) = n /\ rev # <<>>
  BY <1>2
<1> HIDE DEF rev
<1>4. rev[n].sha = tip
  BY <1>1
<1>5. ASSUME NEW i \in 1..n, rev[i].base # None
      PROVE  IF i = 1 THEN rev[i].base \in odb ELSE rev[i].base = rev[i - 1].sha
  <2>1. CASE i = 1
    BY <1>1, <1>5, <2>1
  <2>2. CASE i # 1
    <3>0. n + 1 - i \in 1..(n - 1)
      BY <2>2
    <3> PICK j \in 1..(n - 1) : j = n + 1 - i
      BY <3>0
    <3>1. rev[i] = s[j] /\ rev[i - 1] = s[j + 1]
      <4>1. i - 1 \in 1..n /\ n + 1 - (i - 1) = j + 1
        BY <2>2
      <4> QED BY <1>1, <4>1
    <3>2. s[j].base = s[j + 1].sha
      OBVIOUS
    <3> QED BY <2>2, <3>1, <3>2
  <2> QED BY <2>1, <2>2
<1>6. TodoOK(rev, tip)
  BY <1>3, <1>4, <1>5 DEF TodoOK
<1> QED BY <1>3, <1>6 DEF rev

\* A baseline before a list of packs that starts without a base.
LEMMA AfterBaseline ==
  ASSUME NEW s \in Seq(ObjectType), s # <<>>, NEW tip, TodoOK(s, tip), s[1].base = None,
         NEW o \in ObjectType, o.base = None
  PROVE  <<o>> \o s \in Seq(ObjectType) /\ <<o>> \o s # <<>> /\ TodoOK(<<o>> \o s, tip)
<1> DEFINE all == <<o>> \o s
<1> PICK n \in Nat : n = Len(s) /\ n > 0
  OBVIOUS
<1>1. /\ all \in Seq(ObjectType) /\ all # <<>> /\ Len(all) = n + 1 /\ all[1] = o
      /\ \A i \in 1..n : all[i + 1] = s[i]
  OBVIOUS
<1> HIDE DEF all
<1>2. /\ s[n].sha = tip
      /\ \A i \in 1..n :
           s[i].base # None => IF i = 1 THEN s[i].base \in odb ELSE s[i].base = s[i - 1].sha
  BY DEF TodoOK
<1>3. all[n + 1].sha = tip
  BY <1>1, <1>2
<1>4. ASSUME NEW i \in 1..(n + 1), all[i].base # None
      PROVE  IF i = 1 THEN all[i].base \in odb ELSE all[i].base = all[i - 1].sha
  <2>1. i # 1
    BY <1>1, <1>4
  <2> PICK j \in 1..n : i = j + 1
    <3>1. i - 1 \in 1..n /\ i = (i - 1) + 1
      BY <2>1
    <3> QED BY <3>1
  <2>2. j # 1
    BY <1>1, <1>4
  <2>3. all[i] = s[j] /\ all[i - 1] = s[j - 1]
    <3>1. j - 1 \in 1..n /\ (j - 1) + 1 = i - 1
      BY <2>2
    <3> QED BY <1>1, <3>1
  <2> QED BY <1>2, <1>4, <2>1, <2>2, <2>3
<1>5. TodoOK(all, tip)
  BY <1>1, <1>3, <1>4 DEF TodoOK
<1> QED BY <1>1, <1>5 DEF all

LEMMA InstallOrderIs ==
  ASSUME NEW r, NEW ch, NEW s, NEW b, s = select_needed_segments(ch).segs,
         b = IF select_needed_segments(ch).base THEN <<Bundle(r, ch.full)>> ELSE <<>>
  PROVE  InstallOrder(r, ch) = IF depth > 0 THEN s \o b ELSE b \o [i \in 1..Len(s) |-> s[Len(s) + 1 - i]]
  BY DEF InstallOrder

LEMMA InstallOrderOK ==
  ASSUME NEW r \in Refs, NEW ch \in ChainType, ch # NoChain, ChainOK(ch)
  PROVE  /\ InstallOrder(r, ch) \in Seq(ObjectType)
         /\ IF depth > 0 THEN NextOK(InstallOrder(r, ch), ch.tip) ELSE TodoOK(InstallOrder(r, ch), ch.tip)
<1> PICK need : need = select_needed_segments(ch)
  OBVIOUS
<1> PICK segs \in Seq(PackType) : segs = ch.segs
  BY DEF ChainType
<1>1. /\ ch.tip \in Commits /\ ch.full \in Commits /\ Len(segs) > 0 /\ segs[1].sha = ch.tip
      /\ \A i \in 1..(Len(segs) - 1) : segs[i].base = segs[i + 1].sha
      /\ segs[Len(segs)].base = None
  <2> PICK n \in Nat : n = Len(segs)
    OBVIOUS
  <2> QED BY DEF ChainOK
<1>2. PackType \subseteq ObjectType
  BY DEF PackType, ObjectType
<1>3. Seq(PackType) \subseteq Seq(ObjectType)
  BY <1>2
<1>0. segs[1].kind = "pack"
  <2>1. segs[1] \in PackType
    BY <1>1
  <2> QED BY <2>1 DEF PackType
<1>4. CASE need.base /\ need.segs = segs
  <2>0. Bundle(r, ch.full) \in ObjectType /\ Bundle(r, ch.full).base = None
    <3> PICK full \in Commits : full = ch.full
      BY <1>1
    <3> QED BY DEF Bundle, ObjectType
  <2> PICK o \in ObjectType : o = Bundle(r, ch.full) /\ o.base = None
    BY <2>0
  <2>1. InstallOrder(r, ch) = IF depth > 0 THEN segs \o <<o>>
                              ELSE <<o>> \o [i \in 1..Len(segs) |-> segs[Len(segs) + 1 - i]]
    <3> PICK b : b = <<o>>
      OBVIOUS
    <3>1. b = IF select_needed_segments(ch).base THEN <<Bundle(r, ch.full)>> ELSE <<>>
      BY <1>4
    <3>2. segs = select_needed_segments(ch).segs
      BY <1>4
    <3>3. InstallOrder(r, ch) = IF depth > 0 THEN segs \o b
                                ELSE b \o [i \in 1..Len(segs) |-> segs[Len(segs) + 1 - i]]
      BY <3>1, <3>2, InstallOrderIs
    <3> QED BY <3>3
  <2>2. CASE depth > 0
    <3> DEFINE all == segs \o <<o>>
    <3>1. segs \in Seq(ObjectType) /\ <<o>> \in Seq(ObjectType)
      BY <1>3
    <3>2. all \in Seq(ObjectType) /\ all # <<>> /\ Head(all) = segs[1]
      BY <1>1, <3>1
    <3>3. segs[1].kind = "pack"
      BY <1>0
    <3> HIDE DEF all
    <3>4. NextOK(all, ch.tip)
      BY <3>2, <3>3 DEF NextOK
    <3> QED BY <2>1, <2>2, <3>2, <3>4 DEF all
  <2>3. CASE ~(depth > 0)
    <3> DEFINE rev == [i \in 1..Len(segs) |-> segs[Len(segs) + 1 - i]]
    <3>1. rev \in Seq(PackType) /\ rev # <<>> /\ TodoOK(rev, ch.tip)
      BY <1>1, Reversed
    <3>2. rev[1].base = None
      <4> PICK n \in Nat : n = Len(segs) /\ n > 0
        BY <1>1
      <4>1. 1 \in 1..n /\ n + 1 - 1 = n
        OBVIOUS
      <4>2. rev[1] = segs[n]
        BY <4>1
      <4> QED BY <1>1, <4>2
    <3> HIDE DEF rev
    <3>3. <<o>> \o rev \in Seq(ObjectType) /\ TodoOK(<<o>> \o rev, ch.tip)
      BY <1>3, <3>1, <3>2, AfterBaseline
    <3> QED BY <2>1, <2>3, <3>3 DEF rev
  <2> QED BY <2>2, <2>3
<1>5. ASSUME NEW m \in 1..Len(segs), ~need.base, segs[m].sha \in odb, need.segs = SubSeq(segs, 1, m - 1)
      PROVE  /\ InstallOrder(r, ch) \in Seq(ObjectType)
             /\ IF depth > 0 THEN NextOK(InstallOrder(r, ch), ch.tip) ELSE TodoOK(InstallOrder(r, ch), ch.tip)
  <2> PICK n \in Nat : n = Len(segs)
    OBVIOUS
  <2>0. m \in 1..n /\ m - 1 \in 0..n
    OBVIOUS
  <2> DEFINE s == SubSeq(segs, 1, m - 1)
  <2>1. s \in Seq(PackType) /\ Len(s) = m - 1 /\ \A i \in 1..(m - 1) : s[i] = segs[i]
    BY <2>0
  <2>a. s = need.segs
    BY <1>5
  <2> HIDE DEF s
  <2>2. InstallOrder(r, ch) = IF depth > 0 THEN s \o <<>>
                              ELSE <<>> \o [i \in 1..Len(s) |-> s[Len(s) + 1 - i]]
    <3>1. s = select_needed_segments(ch).segs
      BY <2>a
    <3>2. <<>> = IF select_needed_segments(ch).base THEN <<Bundle(r, ch.full)>> ELSE <<>>
      BY <1>5
    <3> QED BY <3>1, <3>2, InstallOrderIs
  <2>3. CASE m = 1
    <3>1. s = <<>> /\ [i \in 1..Len(s) |-> s[Len(s) + 1 - i]] = <<>>
      BY <2>1, <2>3
    <3>2. InstallOrder(r, ch) = <<>>
      BY <2>2, <3>1
    <3> QED BY <1>1, <1>5, <2>3, <3>2 DEF NextOK, TodoOK
  <2>4. CASE m # 1
    <3>1. m - 1 \in Nat /\ m - 1 > 0 /\ s # <<>>
      BY <2>0, <2>1, <2>4
    <3>2. s[1] = segs[1] /\ s[m - 1] = segs[m - 1] /\ segs[m - 1].base = segs[m].sha
      <4>1. 1 \in 1..(m - 1) /\ m - 1 \in 1..(m - 1) /\ m - 1 \in 1..(n - 1) /\ (m - 1) + 1 = m
        BY <2>0, <3>1
      <4> QED BY <1>1, <2>1, <4>1
    <3>3. CASE depth > 0
      <4>1. s \o <<>> = s /\ s \in Seq(ObjectType) /\ Head(s) = segs[1]
        BY <1>3, <2>1, <3>1, <3>2
      <4>2. segs[1].kind = "pack"
        BY <1>0
      <4>3. NextOK(s, ch.tip)
        BY <3>1, <4>1, <4>2 DEF NextOK
      <4> QED BY <2>2, <3>3, <4>1, <4>3
    <3>4. CASE ~(depth > 0)
      <4> DEFINE rev == [i \in 1..Len(s) |-> s[Len(s) + 1 - i]]
      <4>1. \A i \in 1..(Len(s) - 1) : s[i].base = s[i + 1].sha
        <5> SUFFICES ASSUME NEW i \in 1..((m - 1) - 1) PROVE s[i].base = s[i + 1].sha
          BY <2>1
        <5>1. i \in 1..(m - 1) /\ i + 1 \in 1..(m - 1) /\ i \in 1..(n - 1)
          BY <2>0
        <5> QED BY <1>1, <2>1, <5>1
      <4>2. rev \in Seq(PackType) /\ rev # <<>> /\ TodoOK(rev, ch.tip)
        <5>1. Len(s) > 0 /\ s[1].sha = ch.tip /\ s[Len(s)].base \in odb
          BY <1>1, <1>5, <2>1, <3>1, <3>2
        <5> QED BY <2>1, <3>1, <4>1, <5>1, Reversed
      <4>a. InstallOrder(r, ch) = <<>> \o rev
        BY <2>2, <3>4
      <4> HIDE DEF rev
      <4>3. <<>> \o rev = rev /\ rev \in Seq(ObjectType)
        BY <1>3, <4>2
      <4> QED BY <3>4, <4>2, <4>a, <4>3
    <3> QED BY <3>3, <3>4
  <2> QED BY <2>3, <2>4
<1>6. \/ need.base /\ need.segs = segs
      \/ \E m \in 1..Len(segs) : ~need.base /\ segs[m].sha \in odb /\ need.segs = SubSeq(segs, 1, m - 1)
  BY NeedIs
<1> QED BY <1>4, <1>5, <1>6

-----------------------------------------------------------------------------
(* What a step may change.                                                 *)

\* A list of what is to be installed stays one while objects come in.
LEMMA TodoKept ==
  ASSUME NEW todo \in Seq(ObjectType), NEW tip, odb \subseteq odb'
  PROVE  /\ TodoOK(todo, tip) => TodoOK(todo, tip)'
         /\ NextOK(todo, tip) => NextOK(todo, tip)'
  BY DEF TodoOK, NextOK

\* Tasks that a step leaves alone.
LEMMA TaskKept ==
  ASSUME NEW r \in Refs, NEW t \in TaskType, TaskOK(r, t),
         odb \subseteq odb', dropped \subseteq dropped', partial => partial', engine' = engine,
         \A c \in Commits : Has(chain[r], c) => Has(chain[r], c)'
  PROVE  TaskOK(r, t)'
<1> SUFFICES ASSUME t.at # "none" PROVE TaskOK(r, t)'
  BY DEF TaskOK
<1>1. t.sha \in Commits /\ Has(chain[r], t.sha)'
  BY DEF TaskOK
<1>2. ASSUME Planned(t)'
      PROVE  /\ t.chain.tip \in Commits /\ Has(t.chain, t.sha)'
             /\ ~partial' => IF t.at = "next" THEN NextOK(t.todo, t.chain.tip)'
                             ELSE TodoOK(t.todo, t.chain.tip)'
  <2>1. Planned(t)
    BY <1>2 DEF Planned
  <2>2. /\ t.chain.tip \in Commits /\ Has(t.chain, t.sha)
        /\ ~partial => IF t.at = "next" THEN NextOK(t.todo, t.chain.tip) ELSE TodoOK(t.todo, t.chain.tip)
    BY <2>1 DEF TaskOK
  <2>3. Has(t.chain, t.sha)'
    BY <2>2 DEF Has
  <2>4. t.todo \in Seq(ObjectType)
    BY DEF TaskType
  <2> QED BY <2>2, <2>3, <2>4, TodoKept
<1> QED BY <1>1, <1>2 DEF TaskOK

\* The remote changes: a ref has the history of its old chain, but for what a
\* force push drops.
LEMMA MoveKeeps ==
  ASSUME FetchInv, NEW r \in Refs, NEW ch \in ChainType, ch # NoChain, ChainOK(ch), Move(r, ch),
         dropped \subseteq dropped', dropped' \subseteq Commits,
         \A c \in Commits : Has(chain[r], c) => Has(ch, c)'
  PROVE  FetchInv'
<1>0. /\ chain' = [chain EXCEPT ![r] = ch] /\ store' = store \cup Named(r, ch)
      /\ moves' \in 0..MaxMoves
      /\ UNCHANGED <<engine, odb, shallow, adv, fetched, depth, task, edges, batches, faults, partial>>
  BY ConstantsAssumption DEF Move, local, session, FetchInv, Types, Typed
<1>1. chain \in [Refs -> ChainType] /\ Typed /\ task \in [Refs -> TaskType]
  BY DEF FetchInv, Types, Typed, ChainType, PackType
<1>2. chain' \in [Refs -> ChainType] /\ chain'[r] = ch /\ \A q \in Refs \ {r} : chain'[q] = chain[q]
  BY <1>0, <1>1
<1>3. \A o \in Named(r, ch) : o.sha \in Commits
  <2>1. ch.full \in Commits /\ ch.segs \in Seq(PackType)
    BY DEF ChainOK, ChainType
  <2>2. Bundle(r, ch.full).sha \in Commits
    BY <2>1 DEF Bundle
  <2>3. \A o \in Range(ch.segs) : o.sha \in Commits
    <3> PICK s \in Seq(PackType) : s = ch.segs
      BY <2>1
    <3>1. \A o \in Range(s) : o \in PackType
      BY DEF Range
    <3> QED BY <3>1 DEF PackType
  <2> QED BY <2>2, <2>3 DEF Named
<1>4. Typed'
  <2>1. chain' \in [Refs -> [tip : Commits \cup {None}, full : Commits \cup {None},
                         segs : Seq([kind : {"pack"}, ref : {None}, base : Commits \cup {None},
                                     sha : Commits])]]
    BY <1>2 DEF ChainType, PackType
  <2>2. \A o \in store' : o.sha \in Commits
    BY <1>0, <1>1, <1>3 DEF Typed
  <2> QED BY <1>0, <1>1, <2>1, <2>2 DEF Typed, Running
<1>5. ASSUME NEW q \in Refs PROVE \A c \in Commits : Has(chain[q], c) => Has(chain[q], c)'
  BY <1>2, <1>5 DEF Has
<1>6. RemoteOK'
  <2> SUFFICES ASSUME NEW q \in Refs
               PROVE  ChainOK(chain[q])' /\ (adv'[q] # None => Has(chain[q], adv[q])')
    BY DEF RemoteOK
  <2>1. ChainOK(chain[q])'
    <3>1. ChainOK(chain[q])
      BY DEF FetchInv, RemoteOK
    <3>2. ChainOK(chain'[q])
      BY <1>2, <3>1
    <3> QED BY <3>2 DEF ChainOK
  <2>2. adv[q] \in Commits \cup {None}
    BY <1>1 DEF Typed
  <2> QED BY <1>0, <1>5, <2>1, <2>2 DEF FetchInv, RemoteOK
<1>7. LocalOK'
  BY <1>0 DEF FetchInv, LocalOK, Closed
<1>8. ASSUME NEW q \in Refs PROVE TaskOK(q, task[q])'
  <2>1. TaskOK(q, task[q]) /\ task[q] \in TaskType
    BY <1>1 DEF FetchInv
  <2> PICK t \in TaskType : t = task[q] /\ t = task'[q]
    BY <1>0, <2>1
  <2>2. TaskOK(q, t)
    BY <2>1
  <2>3. TaskOK(q, t)'
    BY <1>0, <1>5, <2>2, TaskKept
  <2> QED BY <2>3
<1> QED BY <1>0, <1>1, <1>4, <1>6, <1>7, <1>8 DEF FetchInv, Types

\* The task of a ref takes a step.
LEMMA TaskKeeps ==
  ASSUME FetchInv, NEW r \in Refs, task[r].at # "none",
         NEW t \in TaskType, t.at # "none", task' = [task EXCEPT ![r] = t],
         UNCHANGED <<engine, chain, store, shallow, adv, depth, moves, batches, faults, dropped>>,
         odb \subseteq odb', odb' \subseteq Commits \cup Blobs, fetched' \subseteq Commits,
         edges' \subseteq Commits, depth = 0 => edges' = edges,
         partial' \in BOOLEAN, partial => partial', LocalOK', TaskOK(r, t)'
  PROVE  FetchInv'
<1>1. Typed /\ task \in [Refs -> TaskType]
  BY DEF FetchInv, Types
<1>2. task' \in [Refs -> TaskType] /\ task'[r] = t /\ \A q \in Refs \ {r} : task'[q] = task[q]
  BY <1>1
<1>3. Typed'
  <2>1. \A q \in Refs : task'[q].at \in States
    <3>1. \A u \in TaskType : u.at \in States
      BY DEF TaskType
    <3> QED BY <1>2, <3>1
  <2>2. Running' # {}
    BY <1>2 DEF Running
  <2>3. depth = 0 => edges = {}
    BY <1>1 DEF Typed
  <2>4. depth' = 0 \/ Running' = {} => edges' = {}
    BY <2>2, <2>3
  <2> QED BY <1>1, <2>1, <2>4 DEF Typed
<1>4. RemoteOK'
  BY DEF FetchInv, RemoteOK, Has, ChainOK
<1>5. ASSUME NEW q \in Refs PROVE TaskOK(q, task[q])'
  <2>1. CASE q = r
    BY <1>2, <2>1
  <2>2. CASE q # r
    <3>1. task'[q] = task[q] /\ TaskOK(q, task[q]) /\ task[q] \in TaskType
      BY <1>1, <1>2, <2>2 DEF FetchInv
    <3> PICK u \in TaskType : u = task[q] /\ u = task'[q]
      BY <3>1
    <3>2. TaskOK(q, u)
      BY <3>1
    <3>3. \A c \in Commits : Has(chain[q], c) => Has(chain[q], c)'
      BY DEF Has
    <3>4. TaskOK(q, u)'
      BY <3>2, <3>3, TaskKept
    <3> QED BY <3>4
  <2> QED BY <2>1, <2>2
<1> QED BY <1>2, <1>3, <1>4, <1>5 DEF FetchInv, Types

LEMMA Goes ==
  ASSUME task \in [Refs -> TaskType], NEW r \in Refs, NEW label \in States, Goto(r, label)
  PROVE  \E t \in TaskType :
           /\ task' = [task EXCEPT ![r] = t]
           /\ t.at = label /\ t.sha = task[r].sha /\ t.chain = task[r].chain /\ t.todo = task[r].todo
<1> PICK u \in TaskType : u = task[r]
  OBVIOUS
<1> DEFINE t == [u EXCEPT !.at = label]
<1>1. t \in TaskType /\ t.at = label /\ t.sha = u.sha /\ t.chain = u.chain /\ t.todo = u.todo
  BY DEF TaskType
<1>2. task' = [task EXCEPT ![r] = t]
  BY DEF Goto
<1> HIDE DEF t
<1> QED BY <1>1, <1>2

-----------------------------------------------------------------------------
(* The remote's steps.                                                     *)

LEMMA PushKeeps ==
  ASSUME FetchInv, NEW r \in Refs, RemotePush(r)
  PROVE  FetchInv'
<1> PICK c \in Commits :
      /\ chain[r] # NoChain => chain[r].tip \in Ancestors(c)
      /\ Move(r, IF chain[r] = NoChain \/ engine = "bundle" THEN FullChain(c)
                 ELSE [tip |-> c, full |-> chain[r].full,
                       segs |-> <<Pack(chain[r].tip, c)>> \o chain[r].segs])
  BY DEF RemotePush
<1>0. dropped' = dropped /\ dropped \subseteq Commits
  BY DEF RemotePush, FetchInv, Types, Typed
<1> PICK old \in ChainType : old = chain[r] /\ ChainOK(old)
  BY DEF FetchInv, Types, Typed, RemoteOK, ChainType, PackType
<1> PICK ch : ch = IF old = NoChain \/ engine = "bundle" THEN FullChain(c)
                   ELSE [tip |-> c, full |-> old.full, segs |-> <<Pack(old.tip, c)>> \o old.segs]
  OBVIOUS
<1>1. ch \in ChainType /\ ch # NoChain /\ ChainOK(ch) /\ ch.tip = c
  <2>1. CASE old = NoChain \/ engine = "bundle"
    BY <2>1, FullChainOK
  <2>2. CASE ~(old = NoChain \/ engine = "bundle")
    <3>1. ch = [tip |-> c, full |-> old.full, segs |-> <<Pack(old.tip, c)>> \o old.segs]
      BY <2>2
    <3> QED BY <2>2, <3>1, PushedChainOK
  <2> QED BY <2>1, <2>2
<1>2. Move(r, ch)
  OBVIOUS
<1>3. ASSUME NEW d \in Commits, Has(old, d) PROVE Has(ch, d)'
  <2>1. old # NoChain /\ d \in Ancestors(old.tip) \cup dropped
    BY <1>3 DEF Has
  <2>2. Ancestors(old.tip) \subseteq Ancestors(c)
    BY <2>1, AncestorsIn
  <2> QED BY <1>0, <1>1, <2>1, <2>2 DEF Has
<1> QED BY <1>0, <1>1, <1>2, <1>3, MoveKeeps

LEMMA ForceKeeps ==
  ASSUME FetchInv, NEW r \in Refs, RemoteForce(r)
  PROVE  FetchInv'
<1> PICK old \in ChainType : old = chain[r] /\ ChainOK(old)
  BY DEF FetchInv, Types, Typed, RemoteOK, ChainType, PackType
<1> PICK c \in Commits : /\ old # NoChain
                         /\ dropped' = dropped \cup (Ancestors(old.tip) \ Ancestors(c))
                         /\ Move(r, FullChain(c))
  BY DEF RemoteForce
<1> PICK ch : ch = FullChain(c)
  OBVIOUS
<1>1. ch \in ChainType /\ ch # NoChain /\ ChainOK(ch) /\ ch.tip = c /\ Move(r, ch)
  BY FullChainOK
<1>2. dropped \subseteq Commits /\ Ancestors(old.tip) \subseteq Commits
  BY AncestorsClosed DEF FetchInv, Types, Typed, ChainOK
<1>3. ASSUME NEW d \in Commits, Has(old, d) PROVE Has(ch, d)'
  BY <1>1, <1>3 DEF Has
<1> QED BY <1>1, <1>2, <1>3, MoveKeeps

LEMMA CompactKeeps ==
  ASSUME FetchInv, NEW r \in Refs, RemoteCompact(r)
  PROVE  FetchInv'
<1> PICK old \in ChainType : old = chain[r] /\ ChainOK(old)
  BY DEF FetchInv, Types, Typed, RemoteOK, ChainType, PackType
<1>0. dropped' = dropped /\ dropped \subseteq Commits
  BY DEF RemoteCompact, FetchInv, Types, Typed
<1>1. old # NoChain
  <2>1. Len(old.segs) > 1
    BY DEF RemoteCompact
  <2>2. Len(NoChain.segs) = 0
    BY DEF NoChain
  <2> QED BY <2>1, <2>2
<1>2. old.tip \in Commits
  BY <1>1 DEF ChainOK
<1> PICK ch : ch = FullChain(old.tip)
  OBVIOUS
<1>3. ch \in ChainType /\ ch # NoChain /\ ChainOK(ch) /\ ch.tip = old.tip /\ Move(r, ch)
  BY <1>2, FullChainOK DEF RemoteCompact
<1>4. ASSUME NEW d \in Commits, Has(old, d) PROVE Has(ch, d)'
  BY <1>0, <1>3, <1>4 DEF Has
<1> QED BY <1>0, <1>3, <1>4, MoveKeeps

\* What neither the tasks nor the repository read.
LEMMA OthersKeep ==
  ASSUME FetchInv, UNCHANGED <<engine, chain, odb, fetched, task, partial, dropped>>, Types', RemoteOK'
  PROVE  FetchInv'
<1>1. LocalOK'
  BY DEF FetchInv, LocalOK, Closed
<1>2. ASSUME NEW q \in Refs PROVE TaskOK(q, task[q])'
  <2> PICK t \in TaskType : t = task[q] /\ t = task'[q]
    BY DEF FetchInv, Types
  <2>1. TaskOK(q, t)
    BY DEF FetchInv
  <2>2. \A c \in Commits : Has(chain[q], c) => Has(chain[q], c)'
    BY DEF Has
  <2>3. TaskOK(q, t)'
    BY <2>1, <2>2, TaskKept
  <2> QED BY <2>3
<1> QED BY <1>1, <1>2 DEF FetchInv

LEMMA SweepKeeps ==
  ASSUME FetchInv, RemoteSweep
  PROVE  FetchInv'
<1>0. /\ store' = UNION {Named(r, chain[r]) : r \in Refs}
      /\ UNCHANGED <<engine, chain, odb, shallow, adv, fetched, depth, task, edges, moves, batches,
                     faults, partial, dropped>>
  BY DEF RemoteSweep, local, session, bounds
<1>1. Typed /\ task \in [Refs -> TaskType]
  BY DEF FetchInv, Types
<1>2. ASSUME NEW r \in Refs, NEW o \in Named(r, chain[r]) PROVE o.sha \in Commits
  <2> PICK ch \in ChainType : ch = chain[r] /\ ChainOK(ch)
    BY DEF FetchInv, Types, Typed, RemoteOK, ChainType, PackType
  <2>1. ch # NoChain
    BY DEF Named
  <2>2. ch.full \in Commits
    BY <2>1 DEF ChainOK
  <2> PICK s \in Seq(PackType) : s = ch.segs
    BY DEF ChainType
  <2>3. \A p \in Range(s) : p \in PackType
    BY DEF Range
  <2>4. o = Bundle(r, ch.full) \/ o \in Range(s)
    BY DEF Named
  <2> QED BY <2>2, <2>3, <2>4 DEF Bundle, PackType
<1>3. \A o \in store' : o.sha \in Commits
  BY <1>0, <1>2
<1>4. Typed'
  BY <1>0, <1>1, <1>3 DEF Typed, Running
<1>5. RemoteOK'
  BY <1>0 DEF FetchInv, RemoteOK, Has, ChainOK
<1> QED BY <1>0, <1>1, <1>4, <1>5, OthersKeep DEF Types

-----------------------------------------------------------------------------
(* The session's steps.                                                    *)

LEMMA IdleTyped == Idle \in TaskType /\ Idle.at = "none"
<1>1. NoChain \in ChainType
  <2>1. <<>> \in Seq(PackType)
    OBVIOUS
  <2> QED BY <2>1 DEF NoChain, ChainType
<1>2. <<>> \in Seq(ObjectType) /\ {} \in SUBSET ObjectType /\ 0 \in 0..MaxRetries
  BY ConstantsAssumption
<1>3. "none" \in States
  BY DEF States
<1> QED BY <1>1, <1>2, <1>3 DEF Idle, TaskType

LEMMA ListKeeps ==
  ASSUME FetchInv, List
  PROVE  FetchInv'
<1>0. /\ adv' = [r \in Refs |-> chain[r].tip]
      /\ UNCHANGED <<engine, chain, store, odb, shallow, fetched, depth, task, edges, moves, batches,
                     faults, partial, dropped>>
  BY DEF List, remote, local, bounds
<1>1. Typed /\ task \in [Refs -> TaskType]
  BY DEF FetchInv, Types
<1>2. ASSUME NEW r \in Refs
      PROVE  /\ ChainOK(chain[r])' /\ (adv'[r] # None => Has(chain[r], adv[r])')
             /\ adv'[r] \in Commits \cup {None}
  <2> PICK ch \in ChainType : ch = chain[r] /\ ChainOK(ch)
    BY DEF FetchInv, Types, Typed, RemoteOK, ChainType, PackType
  <2>1. adv'[r] = ch.tip /\ ch.tip \in Commits \cup {None}
    BY <1>0 DEF ChainType
  <2>2. ASSUME ch.tip # None PROVE Has(ch, ch.tip)'
    <3>1. ch # NoChain
      BY <2>2 DEF NoChain
    <3>2. ch.tip \in Ancestors(ch.tip)
      BY <2>1, <2>2, AncestorsClosed
    <3> QED BY <3>1, <3>2 DEF Has
  <2>3. ChainOK(ch)'
    BY DEF ChainOK
  <2> QED BY <1>0, <2>1, <2>2, <2>3
<1>3. Typed'
  BY <1>0, <1>1, <1>2 DEF Typed, Running
<1>4. RemoteOK'
  BY <1>2 DEF RemoteOK
<1> QED BY <1>0, <1>1, <1>3, <1>4, OthersKeep DEF Types

LEMMA StartKeeps ==
  ASSUME FetchInv, StartBatch
  PROVE  FetchInv'
<1> PICK wanted \in (SUBSET {r \in Refs : adv[r] # None}) \ {{}}, d \in Depths :
      /\ depth' = d
      /\ task' = [r \in Refs |-> IF r \in wanted
                                 THEN [Idle EXCEPT !.at = "queued", !.sha = adv[r]] ELSE Idle]
  BY DEF StartBatch
<1>0. /\ batches' \in 0..MaxBatches /\ edges' = {}
      /\ UNCHANGED <<engine, chain, store, odb, shallow, adv, fetched, moves, faults, partial, dropped>>
  <2>1. batches < MaxBatches /\ batches' = batches + 1 /\ batches \in 0..MaxBatches
    BY DEF StartBatch, FetchInv, Types, Typed
  <2>2. batches' \in 0..MaxBatches
    <3>1. MaxBatches \in Nat
      BY ConstantsAssumption
    <3> QED BY ONLY <2>1, <3>1
  <2> QED BY <2>2 DEF StartBatch, remote, local
<1>1. Typed
  BY DEF FetchInv, Types
<1>2. ASSUME NEW r \in Refs
      PROVE  task'[r] \in TaskType /\ TaskOK(r, task[r])'
  <2>1. CASE r \in wanted
    <3>1. adv[r] # None
      BY <2>1
    <3> PICK c \in Commits : c = adv[r]
      BY <1>1, <3>1 DEF Typed
    <3> PICK t : t = [Idle EXCEPT !.at = "queued", !.sha = c]
      OBVIOUS
    <3>2. t \in TaskType /\ t.at = "queued" /\ t.sha = c
      <4> PICK i \in TaskType : i = Idle
        BY IdleTyped
      <4>1. "queued" \in States
        BY DEF States
      <4> QED BY <4>1 DEF TaskType
    <3>3. task'[r] = t
      BY <2>1
    <3>4. Has(chain[r], c)'
      BY <1>0, <3>1 DEF FetchInv, RemoteOK, Has
    <3>5. TaskOK(r, t)'
      BY <1>0, <3>2, <3>4 DEF TaskOK, Planned
    <3> QED BY <3>2, <3>3, <3>5
  <2>2. CASE r \notin wanted
    BY <2>2, IdleTyped DEF TaskOK
  <2> QED BY <2>1, <2>2
<1>3. task' \in [Refs -> TaskType]
  <2>1. DOMAIN task' = Refs /\ task' = [r \in Refs |-> task'[r]]
    OBVIOUS
  <2> QED BY <1>2, <2>1
<1>4. \A r \in Refs : task'[r].at \in States
  BY <1>2 DEF TaskType
<1>5. Typed'
  BY <1>0, <1>1, <1>4 DEF Typed
<1>6. RemoteOK'
  BY <1>0 DEF FetchInv, RemoteOK, Has, ChainOK
<1>7. LocalOK'
  BY <1>0 DEF FetchInv, LocalOK, Closed
<1> QED BY <1>2, <1>3, <1>5, <1>6, <1>7 DEF FetchInv, Types

\* No task runs after the step, and the session may be a new one.
LEMMA IdleKeeps ==
  ASSUME FetchInv, UNCHANGED <<engine, chain, store, odb, moves, batches, partial, dropped>>,
         task' = [r \in Refs |-> Idle], edges' = {}, depth' = 0, shallow' \subseteq Commits,
         faults' \in 0..MaxFaults,
         \/ UNCHANGED <<adv, fetched>>
         \/ fetched' = {} /\ adv' = [r \in Refs |-> None]
  PROVE  FetchInv'
<1>1. Typed
  BY DEF FetchInv, Types
<1>2. task' \in [Refs -> TaskType] /\ \A r \in Refs : task'[r] = Idle
  BY IdleTyped
<1>3. \A r \in Refs : task'[r].at \in States
  BY <1>2, IdleTyped DEF TaskType
<1>4. fetched' \subseteq fetched
  OBVIOUS
<1>5. adv' \in [Refs -> Commits \cup {None}] /\ \A r \in Refs : adv'[r] = None \/ adv'[r] = adv[r]
  BY <1>1 DEF Typed
<1>6. Typed'
  BY <1>1, <1>3, <1>4, <1>5 DEF Typed
<1>7. RemoteOK'
  BY <1>5 DEF FetchInv, RemoteOK, Has, ChainOK
<1>8. LocalOK'
  BY <1>4 DEF FetchInv, LocalOK, Closed
<1>9. ASSUME NEW r \in Refs PROVE TaskOK(r, task[r])'
  BY <1>2, IdleTyped DEF TaskOK
<1> QED BY <1>2, <1>6, <1>7, <1>8, <1>9 DEF FetchInv, Types

LEMMA EndKeeps ==
  ASSUME FetchInv, EndBatch
  PROVE  FetchInv'
<1>1. UNCHANGED <<engine, chain, store, odb, moves, batches, faults, partial, dropped>>
  BY DEF EndBatch, remote, bounds
<1>2. shallow' \subseteq Commits
  <2>1. shallow \subseteq Commits /\ edges \subseteq Commits
    BY DEF FetchInv, Types, Typed
  <2>2. shallow' = shallow \/ write_shallow_file(edges)
    BY DEF EndBatch
  <2> QED BY <2>1, <2>2 DEF write_shallow_file
<1>3. /\ task' = [r \in Refs |-> Idle] /\ edges' = {} /\ depth' = 0
      /\ UNCHANGED <<adv, fetched>> \/ (fetched' = {} /\ adv' = [r \in Refs |-> None])
  BY DEF EndBatch, NewSession
<1>4. faults' \in 0..MaxFaults
  BY <1>1 DEF FetchInv, Types, Typed
<1> QED BY <1>1, <1>2, <1>3, <1>4, IdleKeeps

LEMMA CrashKeeps ==
  ASSUME FetchInv, Crash
  PROVE  FetchInv'
<1>1. /\ UNCHANGED <<engine, chain, store, odb, moves, batches, partial, dropped>>
      /\ shallow' = shallow /\ faults' = faults + 1 /\ faults < MaxFaults
      /\ task' = [r \in Refs |-> Idle] /\ edges' = {} /\ depth' = 0
      /\ fetched' = {} /\ adv' = [r \in Refs |-> None]
  BY DEF Crash, NewSession, remote, local
<1>2. shallow \subseteq Commits /\ faults \in 0..MaxFaults
  BY DEF FetchInv, Types, Typed
<1>3. shallow' \subseteq Commits /\ faults' \in 0..MaxFaults
  BY <1>1, <1>2, ConstantsAssumption
<1> QED BY <1>1, <1>3, IdleKeeps

-----------------------------------------------------------------------------
(* The tasks' steps.                                                       *)

\* What a task step leaves alone.
Frame == UNCHANGED <<engine, chain, store, shallow, adv, depth, moves, batches, faults, dropped>>

\* A step that only moves the task on, to a place where it has no plan.
LEMMA GoesKeeps ==
  ASSUME FetchInv, NEW r \in Refs, task[r].at # "none", NEW t \in TaskType, t.at # "none",
         task' = [task EXCEPT ![r] = t], t.sha = task[r].sha, ~Planned(t)',
         Frame, UNCHANGED <<odb, fetched, partial>>,
         edges' \subseteq Commits, depth = 0 => edges' = edges
  PROVE  FetchInv'
<1>1. LocalOK'
  BY DEF FetchInv, LocalOK, Closed, Frame
<1>2. TaskOK(r, t)'
  <2>1. TaskOK(r, task[r])
    BY DEF FetchInv
  <2>2. t.sha \in Commits /\ Has(chain[r], t.sha)
    BY <2>1 DEF TaskOK
  <2> QED BY <2>2 DEF TaskOK, Has, Frame
<1>3. odb \subseteq odb' /\ odb' \subseteq Commits \cup Blobs /\ fetched' \subseteq Commits /\ partial' \in BOOLEAN
  BY DEF FetchInv, Types, Typed
<1> QED BY <1>1, <1>2, <1>3, TaskKeeps DEF Frame

\* A step to a label of no plan.
LEMMA LabelKeeps ==
  ASSUME FetchInv, NEW r \in Refs, task[r].at # "none", NEW label \in States \ {"none", "install", "next"},
         label = "get" => engine = "bundle", Goto(r, label),
         Frame, UNCHANGED <<odb, fetched, partial>>,
         edges' \subseteq Commits, depth = 0 => edges' = edges
  PROVE  FetchInv'
<1>1. task \in [Refs -> TaskType]
  BY DEF FetchInv, Types
<1> PICK t \in TaskType : task' = [task EXCEPT ![r] = t] /\ t.at = label /\ t.sha = task[r].sha
  BY <1>1, Goes
<1>2. ~Planned(t)'
  BY DEF Planned, Frame
<1> QED BY <1>2, GoesKeeps

LEMMA EdgesTyped ==
  ASSUME FetchInv
  PROVE  edges \subseteq Commits /\ fetched \subseteq Commits /\ odb \subseteq Commits \cup Blobs
  BY DEF FetchInv, Types, Typed

LEMMA PermitKeeps ==
  ASSUME FetchInv, NEW r \in Refs, TakePermit(r)
  PROVE  FetchInv'
<1>1. /\ task[r].at # "none" /\ Goto(r, After(r)) /\ Frame
      /\ UNCHANGED <<odb, fetched, partial, edges>>
  BY DEF TakePermit, remote, local, bounds, Frame
<1>2. After(r) \in States \ {"none", "install", "next"} /\ (After(r) = "get" => engine = "bundle")
  BY DEF After, States
<1> QED BY <1>1, <1>2, EdgesTyped, LabelKeeps

\* The commit that a task records is there.
LEMMA RecordedOK ==
  ASSUME FetchInv, NEW c \in Commits, Closed(odb'), c \in odb' \cup dropped',
         odb \subseteq odb', dropped' = dropped, partial' = partial, fetched' = fetched \cup {c}
  PROVE  LocalOK'
  BY DEF FetchInv, LocalOK, Closed

LEMMA GetBundleKeeps ==
  ASSUME FetchInv, NEW r \in Refs, GetBundle(r)
  PROVE  FetchInv'
<1>1. task[r].at # "none" /\ Frame /\ UNCHANGED <<edges, partial>>
  BY DEF GetBundle, remote, bounds, Frame
<1>2. CASE Goto(r, "failed") /\ UNCHANGED <<odb, fetched>>
  <2>1. "failed" \in States \ {"none", "install", "next"}
    BY DEF States
  <2> QED BY <1>1, <1>2, <2>1, EdgesTyped, LabelKeeps
<1>3. CASE /\ odb' = odb \cup FullPack(task[r].sha)
           /\ fetched' = fetched \cup {task[r].sha}
           /\ Goto(r, "walk")
  <2>1. task \in [Refs -> TaskType] /\ "walk" \in States
    BY DEF FetchInv, Types, States
  <2> PICK t \in TaskType : task' = [task EXCEPT ![r] = t] /\ t.at = "walk" /\ t.sha = task[r].sha
    BY <1>3, <2>1, Goes
  <2>2. TaskOK(r, task[r])
    BY DEF FetchInv
  <2> PICK c \in Commits : c = task[r].sha /\ Has(chain[r], c)
    BY <1>1, <2>2 DEF TaskOK
  <2>3. TaskOK(r, t)'
    BY <1>1 DEF TaskOK, Planned, Has, Frame
  <2>4. FullPack(c) \subseteq Commits \cup Blobs
    BY AncestorsClosed, ConstantsAssumption DEF FullPack
  <2>5. LocalOK'
    <3>1. CASE partial
      BY <1>1, <3>1 DEF LocalOK
    <3>2. CASE ~partial
      <4>1. Closed(odb)
        BY <3>2 DEF FetchInv, LocalOK
      <4>2. Closed(odb \cup FullPack(c)) /\ c \in FullPack(c)
        BY <4>1, FullPackClosed
      <4>3. Closed(odb') /\ c \in odb' /\ odb \subseteq odb'
        BY <1>3, <4>2
      <4>4. partial' = partial /\ fetched' = fetched \cup {c} /\ dropped' = dropped
        BY <1>1, <1>3 DEF Frame
      <4> QED BY <4>3, <4>4, RecordedOK
    <3> QED BY <3>1, <3>2
  <2>6. odb \subseteq odb' /\ odb' \subseteq Commits \cup Blobs /\ fetched' \subseteq Commits
    BY <1>3, <2>4, EdgesTyped
  <2>7. partial' \in BOOLEAN
    BY <1>1 DEF FetchInv, Types, Typed
  <2> QED BY <1>1, <2>3, <2>5, <2>6, <2>7, EdgesTyped, TaskKeeps DEF Frame
<1> QED BY <1>2, <1>3 DEF GetBundle

LEMMA LoadKeeps ==
  ASSUME FetchInv, NEW r \in Refs, LoadChain(r)
  PROVE  FetchInv'
<1>1. task[r].at # "none" /\ Frame /\ UNCHANGED <<odb, fetched, edges, partial>>
  BY DEF LoadChain, remote, local, bounds, Frame
<1>2. CASE Goto(r, "failed")
  <2>1. "failed" \in States \ {"none", "install", "next"}
    BY DEF States
  <2> QED BY <1>1, <1>2, <2>1, EdgesTyped, LabelKeeps
<1>3. CASE /\ chain[r] # NoChain
           /\ task' = [task EXCEPT ![r].at = IF depth > 0 THEN "next" ELSE "get",
                                   ![r].chain = chain[r], ![r].todo = InstallOrder(r, chain[r])]
  <2> PICK ch \in ChainType : ch = chain[r] /\ ChainOK(ch) /\ ch # NoChain
    BY <1>3 DEF FetchInv, Types, Typed, RemoteOK, ChainType, PackType
  <2> PICK todo : todo = InstallOrder(r, ch)
    OBVIOUS
  <2>1. todo \in Seq(ObjectType) /\ IF depth > 0 THEN NextOK(todo, ch.tip) ELSE TodoOK(todo, ch.tip)
    BY InstallOrderOK
  <2> PICK label \in States : label = IF depth > 0 THEN "next" ELSE "get"
    BY DEF States
  <2> PICK u \in TaskType : u = task[r]
    BY DEF FetchInv, Types
  <2> DEFINE t == [u EXCEPT !.at = label, !.chain = ch, !.todo = todo]
  <2>2. t \in TaskType /\ t.at = label /\ t.sha = u.sha /\ t.chain = ch /\ t.todo = todo
    BY <2>1 DEF TaskType
  <2>3. task' = [task EXCEPT ![r] = t]
    BY <1>3
  <2> HIDE DEF t
  <2>4. TaskOK(r, u)
    BY DEF FetchInv
  <2>5. u.sha \in Commits /\ Has(ch, u.sha)
    BY <1>1, <2>4 DEF TaskOK
  <2>6. ch.tip \in Commits
    BY DEF ChainOK
  <2>7. /\ NextOK(todo, ch.tip) => NextOK(todo, ch.tip)'
        /\ TodoOK(todo, ch.tip) => TodoOK(todo, ch.tip)'
    BY <1>1, <2>1, TodoKept
  <2>8. label = "next" <=> depth > 0
    OBVIOUS
  <2>9. Has(ch, u.sha)' /\ chain'[r] = ch
    BY <1>1, <2>5 DEF Has, Frame
  <2>10. TaskOK(r, t)'
    BY <2>1, <2>2, <2>5, <2>6, <2>7, <2>8, <2>9 DEF TaskOK
  <2>11. LocalOK'
    BY <1>1 DEF FetchInv, LocalOK, Closed, Frame
  <2>12. t.at # "none" /\ task[r].at # "none" /\ partial' \in BOOLEAN
    BY <1>1, <2>2 DEF FetchInv, Types, Typed
  <2> QED BY <1>1, <2>2, <2>3, <2>10, <2>11, <2>12, EdgesTyped, TaskKeeps DEF Frame
<1> QED BY <1>2, <1>3 DEF LoadChain

LEMMA MissingKeeps ==
  ASSUME FetchInv, NEW r \in Refs, task[r].at # "none", NEW o \in ObjectType, Missing(r, o),
         Frame, UNCHANGED <<odb, fetched, edges, partial>>
  PROVE  FetchInv'
<1>1. CASE task' = [task EXCEPT ![r].at = "failed"]
  <2>1. "failed" \in States \ {"none", "install", "next"} /\ Goto(r, "failed")
    BY <1>1 DEF States, Goto
  <2> QED BY <2>1, EdgesTyped, LabelKeeps
<1>2. CASE task' = [task EXCEPT ![r].at = "reload", ![r].miss = {o}]
  <2> PICK u \in TaskType : u = task[r]
    BY DEF FetchInv, Types
  <2> DEFINE t == [u EXCEPT !.at = "reload", !.miss = {o}]
  <2>1. "reload" \in States
    BY DEF States
  <2>2. t \in TaskType /\ t.at = "reload" /\ t.sha = u.sha
    BY <2>1 DEF TaskType
  <2>3. task' = [task EXCEPT ![r] = t]
    BY <1>2
  <2> HIDE DEF t
  <2>4. ~Planned(t)'
    BY <2>2 DEF Planned
  <2> QED BY <2>2, <2>3, <2>4, EdgesTyped, GoesKeeps
<1> QED BY <1>1, <1>2 DEF Missing

LEMMA StutterKeeps ==
  ASSUME FetchInv,
         UNCHANGED <<engine, chain, store, odb, shallow, adv, fetched, depth, task, edges, moves, batches,
                     faults, partial, dropped>>
  PROVE  FetchInv'
<1>1. Types'
  BY DEF FetchInv, Types, Typed, Running
<1>2. RemoteOK'
  BY DEF FetchInv, RemoteOK, Has, ChainOK
<1> QED BY <1>1, <1>2, OthersKeep

LEMMA DownloadKeeps ==
  ASSUME FetchInv, NEW r \in Refs, Drain(r), LoadsOK
  PROVE  FetchInv'
<1>1. /\ task[r].at = "get" /\ engine = "packchain" /\ Frame
      /\ UNCHANGED <<odb, fetched, edges, partial>>
  BY DEF Drain, remote, local, bounds, Frame
<1> PICK u \in TaskType : u = task[r]
  BY DEF FetchInv, Types
<1>2. TaskOK(r, u)
  BY DEF FetchInv
<1>3. CASE Goto(r, "install")
  <2>1. task \in [Refs -> TaskType] /\ "install" \in States
    BY DEF FetchInv, Types, States
  <2> PICK t \in TaskType : /\ task' = [task EXCEPT ![r] = t] /\ t.at = "install"
                            /\ t.sha = u.sha /\ t.chain = u.chain /\ t.todo = u.todo
    BY <1>3, <2>1, Goes
  <2>2. Planned(u) /\ u.at = "get"
    BY <1>1 DEF Planned
  <2>3. TaskOK(r, t)
    BY <1>2, <2>2 DEF TaskOK
  <2>4. \A c \in Commits : Has(chain[r], c) => Has(chain[r], c)'
    BY <1>1 DEF Has, Frame
  <2>5. TaskOK(r, t)'
    BY <1>1, <2>3, <2>4, TaskKept DEF Frame
  <2>6. LocalOK'
    BY <1>1 DEF FetchInv, LocalOK, Closed, Frame
  <2>7. partial' \in BOOLEAN
    BY <1>1 DEF FetchInv, Types, Typed
  <2> QED BY <1>1, <2>5, <2>6, <2>7, EdgesTyped, TaskKeeps DEF Frame
<1>4. ASSUME NEW o \in loads[r].lost, Missing(r, o) PROVE FetchInv'
  <2>1. o \in ObjectType
    BY DEF LoadsOK, Objects, ObjectType
  <2> QED BY <1>1, <1>4, <2>1, MissingKeeps
<1> QED BY <1>3, <1>4 DEF Drain

LEMMA DownloadsKeep ==
  ASSUME FetchInv, NEW r \in Refs, DownloadStart(r) \/ DownloadEnd(r)
  PROVE  FetchInv'
<1>1. UNCHANGED <<engine, chain, store, odb, shallow, adv, fetched, depth, task, edges, moves, batches,
                  faults, partial, dropped>>
  BY DEF DownloadStart, DownloadEnd, remote, local, session, bounds
<1> QED BY <1>1, StutterKeeps

\* The last install of a task, and the record of its commit.
LEMMA RecordKeeps ==
  ASSUME FetchInv, NEW r \in Refs, task[r].at \in {"install", "next"}, task[r].todo = <<>>,
         fetched' = fetched \cup {task[r].sha}, Goto(r, "walk"),
         Frame, UNCHANGED <<odb, edges, partial>>
  PROVE  FetchInv'
<1>1. task \in [Refs -> TaskType] /\ "walk" \in States
  BY DEF FetchInv, Types, States
<1> PICK u \in TaskType : u = task[r]
  BY <1>1
<1> PICK t \in TaskType : task' = [task EXCEPT ![r] = t] /\ t.at = "walk" /\ t.sha = u.sha
  BY <1>1, Goes
<1>2. TaskOK(r, u) /\ Planned(u)
  BY DEF FetchInv, Planned
<1>3. /\ u.sha \in Commits /\ Has(chain[r], u.sha) /\ u.chain.tip \in Commits /\ Has(u.chain, u.sha)
      /\ ~partial => u.chain.tip \in odb
  BY <1>2 DEF TaskOK, NextOK, TodoOK
<1>4. TaskOK(r, t)'
  BY <1>3 DEF TaskOK, Planned, Has, Frame
<1>5. LocalOK'
  <2>1. CASE partial
    BY <2>1 DEF LocalOK
  <2>2. CASE ~partial
    <3>1. Closed(odb)
      BY <2>2 DEF FetchInv, LocalOK
    <3>2. Ancestors(u.chain.tip) \subseteq odb
      BY <1>3, <2>2, <3>1, ClosedHas
    <3>3. u.sha \in odb' \cup dropped' /\ Closed(odb')
      BY <1>3, <3>1, <3>2 DEF Has, Frame, Closed
    <3>4. odb \subseteq odb' /\ dropped' = dropped /\ partial' = partial /\ fetched' = fetched \cup {u.sha}
      BY DEF Frame
    <3> QED BY <1>3, <3>3, <3>4, RecordedOK
  <2> QED BY <2>1, <2>2
<1>6. fetched' \subseteq Commits /\ partial' \in BOOLEAN
  BY <1>3, EdgesTyped DEF FetchInv, Types, Typed
<1> QED BY <1>4, <1>5, <1>6, EdgesTyped, TaskKeeps DEF Frame

\* What is to be installed after the first of a list is.
LEMMA TodoTail ==
  ASSUME NEW todo \in Seq(ObjectType), todo # <<>>, NEW tip, TodoOK(todo, tip),
         odb \subseteq odb', Head(todo).sha \in odb'
  PROVE  TodoOK(Tail(todo), tip)'
<1> PICK n \in Nat : n = Len(todo) /\ n > 0
  OBVIOUS
<1> DEFINE rest == Tail(todo)
<1>1. /\ rest \in Seq(ObjectType) /\ Len(rest) = n - 1 /\ (rest = <<>> <=> n = 1)
      /\ \A i \in 1..(n - 1) : rest[i] = todo[i + 1]
  <2>1. rest \in Seq(ObjectType) /\ Len(rest) = n - 1
    OBVIOUS
  <2>2. \A i \in 1..(n - 1) : rest[i] = todo[i + 1]
    OBVIOUS
  <2>3. rest = <<>> <=> Len(rest) = 0
    <3> HIDE DEF rest
    <3> QED BY <2>1
  <2> QED BY <2>1, <2>2, <2>3
<1> HIDE DEF rest
<1>2. /\ todo[n].sha = tip /\ Head(todo) = todo[1]
      /\ \A i \in 1..n :
           todo[i].base # None =>
             IF i = 1 THEN todo[i].base \in odb ELSE todo[i].base = todo[i - 1].sha
  BY DEF TodoOK
<1>3. CASE n = 1
  BY <1>1, <1>2, <1>3 DEF TodoOK, rest
<1>4. CASE n # 1
  <2>1. rest[n - 1].sha = tip
    <3>1. n - 1 \in 1..(n - 1) /\ (n - 1) + 1 = n
      BY <1>4
    <3> QED BY <1>1, <1>2, <3>1
  <2>2. ASSUME NEW i \in 1..(n - 1), rest[i].base # None
        PROVE  IF i = 1 THEN rest[i].base \in odb' ELSE rest[i].base = rest[i - 1].sha
    <3>1. i + 1 \in 1..n /\ i + 1 # 1 /\ (i + 1) - 1 = i
      OBVIOUS
    <3>2. todo[i + 1].base = todo[i].sha
      BY <1>1, <1>2, <2>2, <3>1
    <3>3. CASE i = 1
      BY <1>1, <1>2, <3>2, <3>3
    <3>4. CASE i # 1
      <4>1. i - 1 \in 1..(n - 1) /\ (i - 1) + 1 = i
        BY <3>4
      <4> QED BY <1>1, <3>2, <3>4, <4>1
    <3> QED BY <3>3, <3>4
  <2>3. TodoOK(rest, tip)'
    BY <1>1, <1>4, <2>1, <2>2 DEF TodoOK
  <2> QED BY <2>3 DEF rest
<1> QED BY <1>3, <1>4

LEMMA InstallKeeps ==
  ASSUME FetchInv, NEW r \in Refs, Install(r)
  PROVE  FetchInv'
<1>1. task[r].at = "install" /\ Frame /\ UNCHANGED <<edges, partial>>
  BY DEF Install, remote, bounds, Frame
<1>2. CASE task[r].todo = <<>>
  <2>1. fetched' = fetched \cup {task[r].sha} /\ Goto(r, "walk") /\ odb' = odb
    BY <1>2 DEF Install, Recorded
  <2> QED BY <1>1, <1>2, <2>1, RecordKeeps
<1>3. CASE task[r].todo # <<>>
  <2> PICK u \in TaskType : u = task[r]
    BY DEF FetchInv, Types
  <2> PICK todo \in Seq(ObjectType) : todo = u.todo /\ todo # <<>>
    BY <1>3 DEF TaskType
  <2> PICK o \in ObjectType : o = Head(todo) /\ o = todo[1]
    OBVIOUS
  <2>1. odb' = odb \cup Contents(o) /\ fetched' = fetched /\ task' = [task EXCEPT ![r].todo = Tail(@)]
    BY <1>3 DEF Install
  <2> DEFINE t == [u EXCEPT !.todo = Tail(todo)]
  <2>2. t \in TaskType /\ t.at = u.at /\ t.sha = u.sha /\ t.chain = u.chain /\ t.todo = Tail(todo)
    <3>1. Tail(todo) \in Seq(ObjectType)
      OBVIOUS
    <3> QED BY <3>1 DEF TaskType
  <2>3. task' = [task EXCEPT ![r] = t]
    BY <2>1
  <2> HIDE DEF t
  <2>4. TaskOK(r, u) /\ Planned(u) /\ u.at = "install"
    BY <1>1 DEF FetchInv, Planned
  <2>5. /\ u.sha \in Commits /\ Has(chain[r], u.sha) /\ u.chain.tip \in Commits /\ Has(u.chain, u.sha)
        /\ ~partial => TodoOK(todo, u.chain.tip)
    BY <2>4 DEF TaskOK
  <2>6. ASSUME ~partial
        PROVE  /\ Closed(odb') /\ o.sha \in odb' /\ TodoOK(Tail(todo), u.chain.tip)'
    <3>1. Closed(odb)
      BY <2>6 DEF FetchInv, LocalOK
    <3>2. TodoOK(todo, u.chain.tip)
      BY <2>5, <2>6
    <3>3. o.base = None \/ o.base \in odb
      <4>1. Len(todo) \in Nat /\ Len(todo) > 0
        OBVIOUS
      <4> QED BY <3>2, <4>1 DEF TodoOK
    <3>4. Closed(odb') /\ o.sha \in odb'
      BY <2>1, <3>1, <3>3, ContentsClosed
    <3>5. odb \subseteq odb' /\ Head(todo).sha \in odb'
      BY <2>1, <3>4
    <3> QED BY <3>2, <3>4, <3>5, TodoTail
  <2>7. LocalOK'
    BY <1>1, <2>1, <2>6 DEF FetchInv, LocalOK, Frame
  <2>8. Has(chain[r], u.sha)' /\ Has(u.chain, u.sha)'
    BY <1>1, <2>5 DEF Has, Frame
  <2>9. TaskOK(r, t)'
    BY <1>1, <2>2, <2>4, <2>5, <2>6, <2>8 DEF TaskOK
  <2>10. odb' \subseteq Commits \cup Blobs /\ partial' \in BOOLEAN
    BY <1>1, <2>1, ContentsTyped, EdgesTyped DEF FetchInv, Types, Typed
  <2> QED BY <1>1, <2>1, <2>2, <2>3, <2>4, <2>7, <2>9, <2>10, EdgesTyped, TaskKeeps DEF Frame
<1> QED BY <1>2, <1>3

\* A step of a shallow fetch after which nothing is promised.
LEMMA PartialKeeps ==
  ASSUME FetchInv, NEW r \in Refs, task[r].at # "none", NEW t \in TaskType, t.at # "none",
         task' = [task EXCEPT ![r] = t], t.sha = task[r].sha,
         Planned(t)' => t.chain = task[r].chain /\ Planned(task[r]),
         Frame, partial' = TRUE, edges' = edges, odb \subseteq odb', odb' \subseteq Commits \cup Blobs,
         fetched' \subseteq Commits
  PROVE  FetchInv'
<1>1. LocalOK'
  BY DEF LocalOK
<1>2. TaskOK(r, t)'
  <2>1. TaskOK(r, task[r])
    BY DEF FetchInv
  <2>2. t.sha \in Commits /\ Has(chain[r], t.sha)'
    BY <2>1 DEF TaskOK, Has, Frame
  <2>3. ASSUME Planned(t)' PROVE t.chain.tip \in Commits /\ Has(t.chain, t.sha)'
    BY <2>1, <2>3 DEF TaskOK, Has, Frame
  <2> QED BY <2>2, <2>3 DEF TaskOK
<1> QED BY <1>1, <1>2, EdgesTyped, TaskKeeps DEF Frame

LEMMA ShallowKeeps ==
  ASSUME FetchInv, NEW r \in Refs, ShallowNext(r)
  PROVE  FetchInv'
<1>1. task[r].at = "next" /\ Frame /\ edges' = edges
  BY DEF ShallowNext, remote, bounds, Frame
<1> PICK u \in TaskType : u = task[r]
  BY DEF FetchInv, Types
<1> PICK todo \in Seq(ObjectType) : todo = u.todo
  BY DEF TaskType
<1>2. TaskOK(r, u) /\ Planned(u) /\ u.sha \in Commits
  BY <1>1 DEF FetchInv, Planned, TaskOK
<1>3. CASE todo = <<>>
  <2>1. fetched' = fetched \cup {task[r].sha} /\ Goto(r, "walk") /\ UNCHANGED <<odb, partial>>
    BY <1>3 DEF ShallowNext, Recorded
  <2> QED BY <1>1, <1>3, <2>1, RecordKeeps
<1>4. CASE todo # <<>>
  <2> PICK o \in ObjectType : o = Head(todo)
    BY <1>4
  <2>a. odb \cup Contents(o) \subseteq Commits \cup Blobs
    BY EdgesTyped, ContentsTyped
  <2>1. CASE o \notin store
    <3>1. Missing(r, o) /\ UNCHANGED <<odb, fetched, partial>>
      BY <1>4, <2>1 DEF ShallowNext
    <3> QED BY <1>1, <3>1, MissingKeeps
  <2>2. CASE o \in store /\ o.kind = "bundle"
    <3>1. /\ odb' = odb \cup Contents(o) /\ task' = [task EXCEPT ![r].todo = <<>>]
          /\ UNCHANGED <<fetched, partial>>
      BY <1>4, <2>2 DEF ShallowNext
    <3>2. partial
      BY <1>1, <1>2, <1>4, <2>2 DEF TaskOK, NextOK
    <3> DEFINE t == [u EXCEPT !.todo = <<>>]
    <3>3. t \in TaskType /\ t.at = u.at /\ t.sha = u.sha /\ t.chain = u.chain
      <4>1. <<>> \in Seq(ObjectType)
        OBVIOUS
      <4> QED BY <4>1 DEF TaskType
    <3>4. task' = [task EXCEPT ![r] = t]
      BY <3>1
    <3> HIDE DEF t
    <3>5. partial' = TRUE
      BY <3>1, <3>2 DEF FetchInv, Types, Typed
    <3> QED BY <1>1, <1>2, <2>a, <3>1, <3>3, <3>4, <3>5, EdgesTyped, PartialKeeps
  <2>3. CASE o \in store /\ o.kind # "bundle"
    <3>1. /\ odb' = odb \cup Contents(o) /\ partial' = TRUE
          /\ \/ Goto(r, "failed") /\ UNCHANGED fetched
             \/ Recorded(r) /\ Goto(r, "walk")
             \/ task' = [task EXCEPT ![r].todo = Tail(@)] /\ UNCHANGED fetched
      BY <1>4, <2>3 DEF ShallowNext
    <3>2. fetched' \subseteq Commits
      BY <1>2, <3>1, EdgesTyped DEF Recorded
    <3>3. ASSUME NEW label \in {"failed", "walk"}, Goto(r, label) PROVE FetchInv'
      <4>1. task \in [Refs -> TaskType] /\ label \in States
        BY DEF FetchInv, Types, States
      <4> PICK t \in TaskType : task' = [task EXCEPT ![r] = t] /\ t.at = label /\ t.sha = u.sha
        BY <3>3, <4>1, Goes
      <4>2. ~Planned(t)' /\ t.at # "none"
        BY DEF Planned
      <4> QED BY <1>1, <2>a, <3>1, <3>2, <4>2, PartialKeeps
    <3>4. CASE task' = [task EXCEPT ![r].todo = Tail(@)]
      <4> DEFINE t == [u EXCEPT !.todo = Tail(todo)]
      <4>1. Tail(todo) \in Seq(ObjectType)
        BY <1>4
      <4>2. t \in TaskType /\ t.at = u.at /\ t.sha = u.sha /\ t.chain = u.chain
        BY <4>1 DEF TaskType
      <4>3. task' = [task EXCEPT ![r] = t]
        BY <3>4
      <4> HIDE DEF t
      <4> QED BY <1>1, <1>2, <2>a, <3>1, <3>2, <4>2, <4>3, PartialKeeps
    <3> QED BY <3>1, <3>3, <3>4
  <2> QED BY <2>1, <2>2, <2>3
<1> QED BY <1>3, <1>4

LEMMA ReloadKeeps ==
  ASSUME FetchInv, NEW r \in Refs, ReloadChain(r)
  PROVE  FetchInv'
<1>1. task[r].at # "none" /\ Frame /\ UNCHANGED <<odb, fetched, edges, partial>>
  BY DEF ReloadChain, remote, local, bounds, Frame
<1>2. CASE Goto(r, "failed")
  <2>1. "failed" \in States \ {"none", "install", "next"}
    BY DEF States
  <2> QED BY <1>1, <1>2, <2>1, EdgesTyped, LabelKeeps
<1>3. CASE /\ task[r].tries # MaxRetries
           /\ task' = [task EXCEPT ![r].at = "load", ![r].tries = @ + 1, ![r].miss = {}]
  <2> PICK u \in TaskType : u = task[r]
    BY DEF FetchInv, Types
  <2> PICK tries \in 0..MaxRetries : tries = u.tries
    BY DEF TaskType
  <2>1. tries + 1 \in 0..MaxRetries
    <3>1. MaxRetries \in Nat /\ tries # MaxRetries
      BY <1>3, ConstantsAssumption
    <3> QED BY <3>1
  <2> DEFINE t == [u EXCEPT !.at = "load", !.tries = tries + 1, !.miss = {}]
  <2>2. t \in TaskType /\ t.at = "load" /\ t.sha = u.sha
    <3>1. "load" \in States
      BY DEF States
    <3> QED BY <2>1, <3>1 DEF TaskType
  <2>3. task' = [task EXCEPT ![r] = t]
    BY <1>3
  <2> HIDE DEF t
  <2>4. ~Planned(t)'
    BY <2>2 DEF Planned
  <2> QED BY <1>1, <2>2, <2>3, <2>4, EdgesTyped, GoesKeeps
<1> QED BY <1>2, <1>3 DEF ReloadChain

LEMMA WalkKeeps ==
  ASSUME FetchInv, NEW r \in Refs, Walk(r)
  PROVE  FetchInv'
<1>1. task[r].at # "none" /\ Frame /\ UNCHANGED <<odb, fetched, partial>>
  BY DEF Walk, remote, local, bounds, Frame
<1>2. "failed" \in States \ {"none", "install", "next"} /\ "done" \in States \ {"none", "install", "next"}
  BY DEF States
<1>3. CASE (Goto(r, "failed") \/ Goto(r, "done")) /\ UNCHANGED edges
  BY <1>1, <1>2, <1>3, EdgesTyped, LabelKeeps
<1>4. CASE /\ depth # 0 /\ Goto(r, "done")
           /\ edges' = edges \cup shallow_boundaries(task[r].sha, depth)
  <2>1. TaskOK(r, task[r]) /\ depth \in Nat
    BY ConstantsAssumption DEF FetchInv, Types, Typed
  <2>2. task[r].sha \in Commits
    BY <1>1, <2>1 DEF TaskOK
  <2>3. Within({task[r].sha}, {}, depth) \subseteq Commits
    BY <2>1, <2>2, WithinTyped
  <2>4. edges' \subseteq Commits
    BY <1>4, <2>3, EdgesTyped DEF shallow_boundaries, Ball
  <2> QED BY <1>1, <1>2, <1>4, <2>4, LabelKeeps
<1> QED BY <1>3, <1>4 DEF Walk

LEMMA TaskStepKeeps ==
  ASSUME FetchInv, LoadsOK, NEW r \in Refs, TaskStep(r)
  PROVE  FetchInv'
  BY PermitKeeps, GetBundleKeeps, LoadKeeps, DownloadKeeps, DownloadsKeep, InstallKeeps, ShallowKeeps,
     ReloadKeeps, WalkKeeps DEF TaskStep

LEMMA RemoteStepKeeps ==
  ASSUME FetchInv, RemoteStep
  PROVE  FetchInv'
  BY PushKeeps, ForceKeeps, CompactKeeps, SweepKeeps DEF RemoteStep

LEMMA FetchStart ==
  ASSUME Init
  PROVE  FetchInv
<1>1. engine \in Engines /\ chain = [r \in Refs |-> NoChain] /\ task = [r \in Refs |-> Idle]
  BY DEF Init
<1>2. NoChain \in ChainType
  <2>1. <<>> \in Seq(PackType)
    OBVIOUS
  <2> QED BY <2>1 DEF NoChain, ChainType
<1>3. chain \in [Refs -> ChainType] /\ task \in [Refs -> TaskType]
  BY <1>1, <1>2, IdleTyped
<1>4. \A r \in Refs : task[r].at \in States /\ task[r].at = "none"
  BY <1>1, IdleTyped DEF TaskType
<1>5. Typed
  <2>1. chain \in [Refs -> [tip : Commits \cup {None}, full : Commits \cup {None},
                         segs : Seq([kind : {"pack"}, ref : {None}, base : Commits \cup {None},
                                     sha : Commits])]]
    BY <1>3 DEF ChainType, PackType
  <2>2. 0 \in 0..MaxMoves /\ 0 \in 0..MaxBatches /\ 0 \in 0..MaxFaults
    BY ConstantsAssumption
  <2>3. adv \in [Refs -> Commits \cup {None}]
    BY DEF Init
  <2>4. /\ store = {} /\ odb = {} /\ shallow = {} /\ fetched = {} /\ depth = 0 /\ edges = {}
        /\ moves = 0 /\ batches = 0 /\ faults = 0 /\ partial = FALSE /\ dropped = {}
    BY DEF Init
  <2> QED BY <1>1, <1>4, <2>1, <2>2, <2>3, <2>4 DEF Typed
<1>6. RemoteOK
  BY <1>1 DEF Init, RemoteOK, ChainOK
<1>7. LocalOK
  BY DEF Init, LocalOK, Closed
<1>8. \A r \in Refs : TaskOK(r, task[r])
  BY <1>4 DEF TaskOK
<1> QED BY <1>3, <1>5, <1>6, <1>7, <1>8 DEF FetchInv, Types

LEMMA FetchStep ==
  ASSUME FetchInv, LoadsOK, [Next]_vars
  PROVE  FetchInv'
<1>1. CASE Next
  BY <1>1, RemoteStepKeeps, ListKeeps, StartKeeps, TaskStepKeeps, EndKeeps, CrashKeeps DEF Next
<1>2. CASE UNCHANGED vars
  <2>1. /\ UNCHANGED <<engine, chain, store, odb, shallow, adv, fetched, depth, task, edges, moves,
                       batches, faults, partial, dropped>>
    BY <1>2 DEF vars, remote, local, session, bounds
  <2> QED BY <2>1, StutterKeeps
<1> QED BY <1>1, <1>2

\* The downloads of a task.
LoadType == [queue : SUBSET ObjectType, busy : SUBSET ObjectType, lost : SUBSET ObjectType]

LEMMA LoadsTyped == LoadsOK <=> loads \in [Refs -> LoadType]
BY DEF LoadsOK, Objects, ObjectType, LoadType

LEMMA LoadsChange ==
  ASSUME LoadsOK, NEW r \in Refs, NEW d \in LoadType, loads' = [loads EXCEPT ![r] = d]
  PROVE  LoadsOK'
<1>1. loads \in [Refs -> LoadType]
  BY LoadsTyped
<1>2. loads' \in [Refs -> LoadType]
  BY <1>1
<1> QED BY <1>2 DEF LoadsOK, Objects, ObjectType, LoadType

LEMMA LoadsStart ==
  ASSUME Init
  PROVE  LoadsOK
BY DEF Init, LoadsOK, NoLoads, Objects

LEMMA LoadsStep ==
  ASSUME FetchInv, LoadsOK, [Next]_vars
  PROVE  LoadsOK'
<1>0. LoadsOK /\ UNCHANGED loads => LoadsOK'
  BY DEF LoadsOK, Objects
<1>1. CASE RemoteStep \/ List \/ StartBatch \/ UNCHANGED vars
  BY <1>0, <1>1 DEF RemoteStep, RemotePush, RemoteForce, RemoteCompact, RemoteSweep, Move, List, StartBatch, vars
<1>2. CASE EndBatch \/ Crash
  <2>1. UNCHANGED loads \/ loads' = [r \in Refs |-> NoLoads]
    BY <1>2 DEF EndBatch, Crash, NewSession
  <2> QED BY <1>0, <2>1 DEF LoadsOK, NoLoads, Objects
<1>3. ASSUME NEW r \in Refs, TaskStep(r) PROVE LoadsOK'
  <2> PICK d \in LoadType : d = loads[r]
    BY LoadsTyped
  <2>1. CASE TakePermit(r) \/ GetBundle(r) \/ Install(r) \/ ShallowNext(r) \/ ReloadChain(r) \/ Walk(r)
    BY <1>0, <2>1 DEF TakePermit, GetBundle, Install, ShallowNext, ReloadChain, Walk
  <2>2. CASE LoadChain(r)
    <3>1. CASE UNCHANGED loads
      BY <1>0, <3>1
    <3>2. CASE chain[r] # NoChain /\ loads' = [loads EXCEPT ![r].queue = Range(InstallOrder(r, chain[r]))]
      <4> PICK ch \in ChainType : ch = chain[r] /\ ChainOK(ch) /\ ch # NoChain
        BY <3>2 DEF FetchInv, Types, Typed, RemoteOK, ChainType, PackType
      <4> PICK todo \in Seq(ObjectType) : todo = InstallOrder(r, ch)
        BY InstallOrderOK
      <4> PICK q : q = Range(todo)
        OBVIOUS
      <4>1. \A o \in q : o \in ObjectType
        BY DEF Range
      <4> PICK e \in LoadType : e = [d EXCEPT !.queue = q]
        BY <4>1 DEF LoadType
      <4>2. loads' = [loads EXCEPT ![r] = e]
        BY <3>2, LoadsTyped
      <4> QED BY <4>2, LoadsChange
    <3> QED BY <2>2, <3>1, <3>2 DEF LoadChain
  <2>3. CASE DownloadStart(r)
    <3> PICK o \in d.queue : loads' = [loads EXCEPT ![r].queue = @ \ {o}, ![r].busy = @ \cup {o}]
      BY <2>3 DEF DownloadStart
    <3>1. o \in ObjectType
      BY DEF LoadType
    <3> PICK e \in LoadType : e = [d EXCEPT !.queue = d.queue \ {o}, !.busy = d.busy \cup {o}]
      BY <3>1 DEF LoadType
    <3>2. loads' = [loads EXCEPT ![r] = e]
      BY LoadsTyped
    <3> QED BY <3>2, LoadsChange
  <2>4. CASE DownloadEnd(r)
    <3> PICK o \in d.busy :
          loads' = [loads EXCEPT ![r].busy = @ \ {o}, ![r].lost = IF o \in store \/ @ # {} THEN @ ELSE {o}]
      BY <2>4 DEF DownloadEnd
    <3>1. o \in ObjectType /\ d.lost \in SUBSET ObjectType
      BY DEF LoadType
    <3> PICK l \in SUBSET ObjectType : l = IF o \in store \/ d.lost # {} THEN d.lost ELSE {o}
      BY <3>1
    <3> PICK e \in LoadType : e = [d EXCEPT !.busy = d.busy \ {o}, !.lost = l]
      BY DEF LoadType
    <3>2. loads' = [loads EXCEPT ![r] = e]
      BY LoadsTyped
    <3> QED BY <3>2, LoadsChange
  <2>5. CASE Drain(r)
    <3>1. NoLoads \in LoadType
      BY DEF NoLoads, LoadType
    <3> QED BY <2>5, <3>1, LoadsChange DEF Drain
  <2> QED BY <1>3, <2>1, <2>2, <2>3, <2>4, <2>5 DEF TaskStep
<1> QED BY <1>1, <1>2, <1>3 DEF Next

-----------------------------------------------------------------------------

\* The repository never has a commit without its tree and its history, and a
\* commit that a session will not fetch again is there, whatever crash, failed
\* download or other task comes between the installs of protocol/fetch.rs and
\* packchain/fetch.rs, for every history and every number of refs.
THEOREM OdbCorrect == Spec => []OdbClosed
<1>1. FetchInv /\ LoadsOK => OdbClosed
  BY DEF FetchInv, Types, TypeOK, LocalOK, Closed, OdbClosed
<1> QED BY <1>1, FetchStart, LoadsStart, FetchStep, LoadsStep, PTL DEF Spec

-----------------------------------------------------------------------------
(* The depth of a history that .git/shallow cuts.                          *)

\* A longer walk starts with the shorter one.
LEMMA SameStart ==
  ASSUME NEW tips, NEW cut, NEW n \in Nat, NEW m \in Nat, n <= m,
         NEW f, IsWalk(f, tips, cut, n), NEW g, IsWalk(g, tips, cut, m)
  PROVE  f[n] = g[n]
<1> DEFINE N == {k \in Nat : k <= n => f[k] = g[k]}
<1>1. Stepwise(f, tips, cut, n) /\ Stepwise(g, tips, cut, m)
  BY LevelSteps
<1>2. 0 \in N
  BY <1>1 DEF Stepwise
<1>3. ASSUME NEW k \in Nat, k \in N PROVE k + 1 \in N
  <2> SUFFICES ASSUME k + 1 <= n PROVE f[k + 1] = g[k + 1]
    OBVIOUS
  <2>1. CASE k = 0
    <3>1. n > 0 /\ m > 0
      BY <2>1
    <3>2. f[1] = tips /\ g[1] = tips
      BY <1>1, <3>1 DEF Stepwise
    <3> QED BY <2>1, <3>2
  <2>2. CASE k # 0
    <3>1. k \in 1..(n - 1) /\ k \in 1..(m - 1) /\ f[k] = g[k]
      BY <1>3, <2>2
    <3> PICK v : v = f[k] /\ v = g[k]
      BY <3>1
    <3>2. f[k + 1] = f[k] \cup UNION {Parents[c] : c \in f[k] \ cut}
      BY <1>1, <3>1 DEF Stepwise
    <3>3. g[k + 1] = g[k] \cup UNION {Parents[c] : c \in g[k] \ cut}
      BY <1>1, <3>1 DEF Stepwise
    <3>4. f[k + 1] = v \cup UNION {Parents[c] : c \in v \ cut}
      BY <3>2, Zenon
    <3>5. g[k + 1] = v \cup UNION {Parents[c] : c \in v \ cut}
      BY <3>3, Zenon
    <3> QED BY <3>4, <3>5
  <2> QED BY <2>1, <2>2
<1>4. n \in N
  <2> HIDE DEF N
  <2> QED BY <1>2, <1>3, Induct
<1> QED BY <1>4

\* What a walk has met one level on.
Onward(met, cut) == met \cup UNION {Parents[c] : c \in met \ cut}

LEMMA WithinStep ==
  ASSUME NEW tips, NEW cut
  PROVE  /\ Within(tips, cut, 0) = {}
         /\ Within(tips, cut, 1) = tips
         /\ \A n \in Nat \ {0} : Within(tips, cut, n + 1) = Onward(Within(tips, cut, n), cut)
<1>1. Within(tips, cut, 0) = {}
  <2>1. 0 \in Nat
    OBVIOUS
  <2> PICK f : IsWalk(f, tips, cut, 0) /\ Within(tips, cut, 0) = f[0]
    BY <2>1, Levels
  <2> QED BY <2>1, LevelSteps DEF Stepwise
<1>2. Within(tips, cut, 1) = tips
  <2>1. 1 \in Nat /\ 1 > 0
    OBVIOUS
  <2> PICK f : IsWalk(f, tips, cut, 1) /\ Within(tips, cut, 1) = f[1]
    BY <2>1, Levels
  <2>2. Stepwise(f, tips, cut, 1)
    BY <2>1, LevelSteps
  <2> QED BY <2>1, <2>2 DEF Stepwise
<1>3. ASSUME NEW n \in Nat \ {0}
      PROVE  Within(tips, cut, n + 1) = Onward(Within(tips, cut, n), cut)
  <2>1. n \in Nat /\ n + 1 \in Nat /\ n <= n + 1 /\ n \in 1..((n + 1) - 1)
    OBVIOUS
  <2> PICK f : IsWalk(f, tips, cut, n) /\ Within(tips, cut, n) = f[n]
    BY <2>1, Levels
  <2> PICK g : IsWalk(g, tips, cut, n + 1) /\ Within(tips, cut, n + 1) = g[n + 1]
    BY <2>1, Levels
  <2>2. f[n] = g[n]
    BY <2>1, SameStart
  <2>3. Stepwise(g, tips, cut, n + 1)
    BY <2>1, LevelSteps
  <2>4. g[n + 1] = g[n] \cup UNION {Parents[c] : c \in g[n] \ cut}
    BY <2>1, <2>3 DEF Stepwise
  <2> PICK v : v = Within(tips, cut, n)
    OBVIOUS
  <2>5. g[n] = v
    BY <2>2
  <2>6. g[n + 1] = Onward(v, cut)
    BY <2>4, <2>5 DEF Onward
  <2> QED BY <2>6
<1> QED BY <1>1, <1>2, <1>3

LEMMA WithinNext ==
  ASSUME NEW tips, NEW cut, NEW n \in Nat \ {0}, NEW met, Within(tips, cut, n) = met
  PROVE  Within(tips, cut, n + 1) = Onward(met, cut)
<1>1. Within(tips, cut, n + 1) = Onward(Within(tips, cut, n), cut)
  BY WithinStep
<1> QED BY <1>1

LEMMA WithinGrows ==
  ASSUME NEW tips, NEW cut, NEW n \in Nat, NEW k \in Nat
  PROVE  Within(tips, cut, n) \subseteq Within(tips, cut, n + k)
<1> DEFINE N == {j \in Nat : Within(tips, cut, n) \subseteq Within(tips, cut, n + j)}
<1>1. 0 \in N
  <2>1. n + 0 = n
    OBVIOUS
  <2> QED BY <2>1
<1>2. ASSUME NEW j \in Nat, j \in N PROVE j + 1 \in N
  <2>1. CASE n + j = 0
    <3>1. Within(tips, cut, n + j) = {}
      BY <2>1, WithinStep
    <3>2. Within(tips, cut, n) = {}
      BY <1>2, <3>1
    <3> QED BY <3>2
  <2>2. CASE n + j # 0
    <3>1. n + j \in Nat \ {0} /\ (n + j) + 1 = n + (j + 1)
      BY <2>2
    <3> PICK m \in Nat \ {0} : m = n + j
      BY <3>1
    <3>2. Within(tips, cut, m + 1) = Onward(Within(tips, cut, m), cut)
      BY WithinNext
    <3>3. Within(tips, cut, n + j) \subseteq Within(tips, cut, n + (j + 1))
      BY <3>1, <3>2 DEF Onward
    <3> QED BY <1>2, <3>3
  <2> QED BY <2>1, <2>2
<1>3. k \in N
  <2> HIDE DEF N
  <2> QED BY <1>1, <1>2, Induct
<1> QED BY <1>3

\* A walk that is cut where another one meets depth n ends there.
LEMMA CutWalk ==
  ASSUME NEW tip \in Commits, NEW n \in Nat \ {0}
  PROVE  Reachable({tip}, shallow_boundaries(tip, n)) = Ball(tip, n)
<1> DEFINE cut  == Ball(tip, n) \ Ball(tip, n - 1)
           B(k) == Within({tip}, {}, k)
           V(k) == Within({tip}, cut, k)
<1> PICK size : size = Cardinality(Commits)
  OBVIOUS
<1>0. size \in Nat
  BY ConstantsAssumption, FS_CardinalityType
<1>1. cut = B(n) \ B(n - 1)
  BY DEF Ball
<1> HIDE DEF cut
<1>2. ASSUME NEW k \in Nat, k <= n PROVE V(k) = B(k)
  <2> DEFINE N == {j \in Nat : j <= n => V(j) = B(j)}
  <2>1. 0 \in N
    <3>1. V(0) = {} /\ B(0) = {}
      BY WithinStep
    <3> QED BY <3>1
  <2>2. ASSUME NEW j \in Nat, j \in N PROVE j + 1 \in N
    <3> SUFFICES ASSUME j + 1 <= n PROVE V(j + 1) = B(j + 1)
      OBVIOUS
    <3>1. CASE j = 0
      <4>1. V(1) = {tip} /\ B(1) = {tip} /\ j + 1 = 1
        BY <3>1, WithinStep
      <4> QED BY <4>1
    <3>2. CASE j # 0
      <4>1. j \in Nat \ {0} /\ j <= n /\ (n - 1) - j \in Nat /\ j + ((n - 1) - j) = n - 1
        BY <3>2
      <4> PICK v : v = B(j)
        OBVIOUS
      <4>2. V(j) = v
        BY <2>2, <4>1
      <4>3. B(j) \subseteq B(j + ((n - 1) - j))
        BY <4>1, WithinGrows
      <4>4. v \cap cut = {}
        BY <1>1, <4>1, <4>3
      <4>5. V(j + 1) = Onward(v, cut)
        BY <4>1, <4>2, WithinNext
      <4>6. B(j + 1) = Onward(v, {})
        BY <4>1, WithinNext
      <4>7. v \ cut = v /\ v \ {} = v
        BY <4>4
      <4>8. Onward(v, cut) = Onward(v, {})
        BY <4>7 DEF Onward
      <4> HIDE DEF V, B
      <4> QED BY <4>5, <4>6, <4>8
    <3> QED BY <3>1, <3>2
  <2>3. k \in N
    <3> HIDE DEF N
    <3> QED BY <2>1, <2>2, Induct
  <2> QED BY <1>2, <2>3
<1>3. ASSUME NEW k \in Nat PROVE V(n + k) = B(n)
  <2> DEFINE N == {j \in Nat : V(n + j) = B(n)}
  <2>1. 0 \in N
    <3>1. n + 0 = n /\ n <= n /\ n \in Nat
      OBVIOUS
    <3> QED BY <1>2, <3>1
  <2>2. ASSUME NEW j \in Nat, j \in N PROVE j + 1 \in N
    <3>1. n + j \in Nat \ {0} /\ (n + j) + 1 = n + (j + 1)
      OBVIOUS
    <3> PICK v : v = B(n)
      OBVIOUS
    <3> PICK m \in Nat \ {0} : m = n + j
      BY <3>1
    <3>2. V(m) = v
      BY <2>2
    <3>3. V(m + 1) = Onward(v, cut)
      BY <3>2, WithinNext
    <3>4. v \ cut \subseteq B(n - 1)
      BY <1>1
    <3>5. \A c \in B(n - 1) : Parents[c] \subseteq v
      <4>1. CASE n = 1
        <5>1. B(n - 1) = {}
          BY <4>1, WithinStep
        <5> QED BY <5>1
      <4>2. CASE n # 1
        <5>1. n - 1 \in Nat \ {0} /\ (n - 1) + 1 = n
          BY <4>2
        <5> PICK w : w = B(n - 1)
          OBVIOUS
        <5> PICK d \in Nat \ {0} : d = n - 1
          BY <5>1
        <5>2. B(d + 1) = Onward(w, {})
          BY WithinNext
        <5>3. v = Onward(w, {})
          BY <5>1, <5>2
        <5>4. \A c \in w : Parents[c] \subseteq v
          BY <5>3 DEF Onward
        <5> QED BY <5>4
      <4> QED BY <4>1, <4>2
    <3>6. Onward(v, cut) = v
      <4> HIDE DEF B
      <4> QED BY <3>4, <3>5 DEF Onward
    <3>7. V(n + (j + 1)) = v
      BY <3>1, <3>3, <3>6
    <3> QED BY <3>7
  <2>3. k \in N
    <3> HIDE DEF N
    <3> QED BY <2>1, <2>2, Induct
  <2> QED BY <2>3
<1>4. V(size) = B(n)
  <2>1. CASE n <= size
    <3> PICK k \in Nat : n + k = size
      <4>1. size - n \in Nat /\ n + (size - n) = size
        BY <1>0, <2>1
      <4> QED BY <4>1
    <3> QED BY <1>3
  <2>2. CASE ~(n <= size)
    <3>1. size <= n
      BY <1>0, <2>2
    <3>2. V(size) = B(size)
      BY <1>0, <1>2, <3>1
    <3>3. B(size) = Ancestors(tip)
      BY DEF Ancestors, Reachable
    <3>4. B(n) \subseteq Ancestors(tip)
      BY AncestorsClosed, WithinLeast
    <3> PICK k \in Nat : size + k = n
      <4>1. n - size \in Nat /\ size + (n - size) = n
        BY <1>0, <3>1
      <4> QED BY <4>1
    <3>5. B(size) \subseteq B(size + k)
      BY <1>0, WithinGrows
    <3> QED BY <3>2, <3>3, <3>4, <3>5
  <2> QED BY <2>1, <2>2
<1>5. shallow_boundaries(tip, n) = cut
  BY DEF shallow_boundaries, cut
<1> QED BY <1>4, <1>5 DEF Reachable, Ball

-----------------------------------------------------------------------------
(* The boundaries of a batch.                                              *)

\* A step of a task that is not its walk.
LEMMA StepIs ==
  ASSUME FetchInv, NEW r \in Refs, TaskStep(r), ~Walk(r)
  PROVE  /\ task[r].at \notin {"none", "done"} /\ task'[r].at \notin {"none", "done"}
         /\ edges' = edges
<1>1. edges' = edges /\ task[r].at \notin {"none", "done"}
  BY DEF TaskStep, TakePermit, GetBundle, LoadChain, DownloadStart, DownloadEnd, Drain, Install, ShallowNext,
         ReloadChain, session
<1> PICK u \in TaskType : u = task[r]
  BY DEF FetchInv, Types
<1>2. task \in [Refs -> TaskType]
  BY DEF FetchInv, Types
<1>3. ASSUME NEW label, label \notin {"none", "done"}, Goto(r, label) PROVE task'[r].at \notin {"none", "done"}
  <2>1. task'[r] = [u EXCEPT !.at = label]
    BY <1>2, <1>3 DEF Goto
  <2>2. task'[r].at = label
    BY <2>1 DEF TaskType
  <2> QED BY <1>3, <2>2
<1>4. ASSUME NEW o, Missing(r, o) PROVE task'[r].at \notin {"none", "done"}
  <2>1. \/ task'[r] = [u EXCEPT !.at = "failed"]
        \/ task'[r] = [u EXCEPT !.at = "reload", !.miss = {o}]
    BY <1>2, <1>4 DEF Missing
  <2> QED BY <2>1 DEF TaskType
<1>5. CASE TakePermit(r)
  <2>1. Goto(r, After(r)) /\ After(r) \notin {"none", "done"}
    BY <1>5 DEF TakePermit, After
  <2> QED BY <1>1, <1>3, <2>1
<1>6. CASE GetBundle(r)
  <2>1. Goto(r, "walk") \/ Goto(r, "failed")
    BY <1>6 DEF GetBundle
  <2> QED BY <1>1, <1>3, <2>1
<1>7. CASE LoadChain(r)
  <2>1. CASE Goto(r, "failed")
    BY <1>1, <1>3, <2>1
  <2>2. CASE task' = [task EXCEPT ![r].at = IF depth > 0 THEN "next" ELSE "get",
                                  ![r].chain = chain[r], ![r].todo = InstallOrder(r, chain[r])]
    <3> PICK label : label = IF depth > 0 THEN "next" ELSE "get"
      OBVIOUS
    <3>1. task'[r] = [u EXCEPT !.at = label, !.chain = chain[r], !.todo = InstallOrder(r, chain[r])]
      BY <1>2, <2>2
    <3>2. task'[r].at = label
      BY <3>1 DEF TaskType
    <3> QED BY <1>1, <3>2
  <2> QED BY <1>7, <2>1, <2>2 DEF LoadChain
<1>8. CASE Drain(r)
  <2>1. Goto(r, "install") \/ \E o \in loads[r].lost : Missing(r, o)
    BY <1>8 DEF Drain
  <2> QED BY <1>1, <1>3, <1>4, <2>1
<1>12. CASE DownloadStart(r) \/ DownloadEnd(r)
  BY <1>1, <1>12 DEF DownloadStart, DownloadEnd, session
<1>9. CASE Install(r)
  <2>1. Goto(r, "walk") \/ task' = [task EXCEPT ![r].todo = Tail(@)]
    BY <1>9 DEF Install
  <2>2. CASE task' = [task EXCEPT ![r].todo = Tail(@)]
    <3>1. task'[r] = [u EXCEPT !.todo = Tail(u.todo)]
      BY <1>2, <2>2
    <3>2. task'[r].at = task[r].at
      BY <3>1 DEF TaskType
    <3> QED BY <1>1, <3>2
  <2> QED BY <1>1, <1>3, <2>1, <2>2
<1>10. CASE ShallowNext(r)
  <2>1. \/ Goto(r, "walk") \/ Goto(r, "failed") \/ Missing(r, Head(task[r].todo))
        \/ task' = [task EXCEPT ![r].todo = <<>>] \/ task' = [task EXCEPT ![r].todo = Tail(@)]
    BY <1>10 DEF ShallowNext
  <2>2. ASSUME NEW todo, task' = [task EXCEPT ![r].todo = todo] PROVE task'[r].at = task[r].at
    <3>1. task'[r] = [u EXCEPT !.todo = todo]
      BY <1>2, <2>2
    <3> QED BY <3>1 DEF TaskType
  <2>3. CASE task' = [task EXCEPT ![r].todo = Tail(@)]
    BY <1>1, <2>2, <2>3
  <2> QED BY <1>1, <1>3, <1>4, <2>1, <2>2, <2>3
<1>11. CASE ReloadChain(r)
  <2>1. CASE Goto(r, "failed")
    BY <1>1, <1>3, <2>1
  <2>2. CASE task' = [task EXCEPT ![r].at = "load", ![r].tries = @ + 1, ![r].miss = {}]
    <3>1. task'[r] = [u EXCEPT !.at = "load", !.tries = u.tries + 1, !.miss = {}]
      BY <1>2, <2>2
    <3>2. task'[r].at = "load"
      BY <3>1 DEF TaskType
    <3> QED BY <1>1, <3>2
  <2> QED BY <1>11, <2>1, <2>2 DEF ReloadChain
<1> QED BY <1>5, <1>6, <1>7, <1>8, <1>9, <1>10, <1>11, <1>12 DEF TaskStep

\* Another task's step leaves the other tasks, and who runs, alone.
LEMMA StepOthers ==
  ASSUME FetchInv, NEW q \in Refs, TaskStep(q), task[q].at # "none"
  PROVE  /\ depth' = depth /\ DOMAIN task' = DOMAIN task
         /\ \A r \in Refs \ {q} : task'[r] = task[r]
<1>1. task \in [Refs -> TaskType]
  BY DEF FetchInv, Types
<1>2. depth' = depth
  BY DEF TaskStep, TakePermit, GetBundle, LoadChain, DownloadStart, DownloadEnd, Drain, Install, ShallowNext,
         ReloadChain, Walk, session
<1>3. /\ DOMAIN task' = DOMAIN task
      /\ \A r \in Refs \ {q} : task'[r] = task[r]
  <2>1. ASSUME NEW label, Goto(q, label)
        PROVE  DOMAIN task' = DOMAIN task /\ \A r \in Refs \ {q} : task'[r] = task[r]
    BY <1>1, <2>1 DEF Goto
  <2>2. ASSUME NEW o, Missing(q, o)
        PROVE  DOMAIN task' = DOMAIN task /\ \A r \in Refs \ {q} : task'[r] = task[r]
    BY <1>1, <2>2 DEF Missing
  <2>3. \/ \E label : Goto(q, label)
        \/ \E o : Missing(q, o)
        \/ task' = [task EXCEPT ![q].at = IF depth > 0 THEN "next" ELSE "get",
                                ![q].chain = chain[q], ![q].todo = InstallOrder(q, chain[q])]
        \/ task' = [task EXCEPT ![q].todo = Tail(@)]
        \/ task' = [task EXCEPT ![q].todo = <<>>]
        \/ task' = [task EXCEPT ![q].at = "load", ![q].tries = @ + 1, ![q].miss = {}]
        \/ task' = task
    <3>1. CASE TakePermit(q)
      BY <3>1 DEF TakePermit
    <3>2. CASE GetBundle(q)
      BY <3>2 DEF GetBundle
    <3>3. CASE LoadChain(q)
      BY <3>3 DEF LoadChain
    <3>4. CASE Drain(q)
      BY <3>4 DEF Drain
    <3>9. CASE DownloadStart(q) \/ DownloadEnd(q)
      BY <3>9 DEF DownloadStart, DownloadEnd, session
    <3>5. CASE Install(q)
      BY <3>5 DEF Install
    <3>6. CASE ShallowNext(q)
      BY <3>6 DEF ShallowNext
    <3>7. CASE ReloadChain(q)
      BY <3>7 DEF ReloadChain
    <3>8. CASE Walk(q)
      BY <3>8 DEF Walk
    <3> QED BY <3>1, <3>2, <3>3, <3>4, <3>5, <3>6, <3>7, <3>8, <3>9 DEF TaskStep
  <2> QED BY <1>1, <2>1, <2>2, <2>3
<1> QED BY <1>2, <1>3

LEMMA EdgesKept ==
  ASSUME EdgesOK, UNCHANGED <<task, edges, depth>>
  PROVE  EdgesOK'
  BY DEF EdgesOK, Running

LEMMA EdgesStep ==
  ASSUME FetchInv, EdgesOK, [Next]_vars
  PROVE  EdgesOK'
<1>1. CASE RemoteStep \/ List \/ UNCHANGED vars
  <2>1. UNCHANGED <<task, edges, depth>>
    BY <1>1 DEF RemoteStep, RemotePush, RemoteForce, RemoteCompact, RemoteSweep, Move, List, session, vars
  <2> QED BY <2>1, EdgesKept
<1>2. CASE StartBatch
  <2>1. edges' = {}
    BY <1>2 DEF StartBatch
  <2>2. ASSUME NEW r \in Refs PROVE task'[r].at # "done"
    <3>1. task'[r] = [Idle EXCEPT !.at = "queued", !.sha = adv[r]] \/ task'[r] = Idle
      BY <1>2 DEF StartBatch
    <3>2. [Idle EXCEPT !.at = "queued", !.sha = adv[r]].at = "queued" /\ Idle.at = "none"
      BY DEF Idle
    <3> QED BY <3>1, <3>2
  <2> QED BY <2>1, <2>2 DEF EdgesOK
<1>3. CASE EndBatch \/ Crash
  <2>1. depth' = 0
    BY <1>3 DEF EndBatch, Crash, NewSession
  <2> QED BY <2>1 DEF EdgesOK
<1>4. ASSUME NEW q \in Refs, TaskStep(q) PROVE EdgesOK'
  <2>0. task[q].at # "none" /\ task[q].at # "done"
    BY <1>4 DEF TaskStep, TakePermit, GetBundle, LoadChain, DownloadStart, DownloadEnd, Drain, Install, ShallowNext,
                ReloadChain, Walk
  <2>1. /\ depth' = depth /\ DOMAIN task' = DOMAIN task
        /\ \A r \in Refs \ {q} : task'[r] = task[r]
    BY <1>4, <2>0, StepOthers
  <2>2. task \in [Refs -> TaskType] /\ depth \in Nat
    BY ConstantsAssumption DEF FetchInv, Types, Typed
  <2> SUFFICES ASSUME NEW r \in Refs, Running' = {r}, depth > 0
               PROVE  edges' = IF task'[r].at = "done" THEN shallow_boundaries(task'[r].sha, depth) ELSE {}
    BY <2>1 DEF EdgesOK, shallow_boundaries, Ball
  <2> PICK u \in TaskType : u = task[q]
    BY <2>2
  <2>3. CASE ~Walk(q)
    <3>1. /\ task[q].at \notin {"none", "done"} /\ task'[q].at \notin {"none", "done"}
          /\ edges' = edges
      BY <1>4, <2>3, StepIs
    <3>2. q = r /\ Running = {r}
      BY <2>1, <3>1 DEF Running
    <3>3. edges = {}
      BY <3>1, <3>2 DEF EdgesOK
    <3> QED BY <3>1, <3>2, <3>3
  <2>4. CASE Walk(q)
    <3> PICK label : label \in {"done", "failed"} /\ Goto(q, label) /\
                     edges' = IF label = "done" THEN edges \cup shallow_boundaries(u.sha, depth) ELSE edges
      BY <2>4 DEF Walk
    <3>1. task'[q] = [u EXCEPT !.at = label]
      BY <2>2 DEF Goto
    <3>2. task'[q].at = label /\ task'[q].sha = u.sha
      BY <3>1 DEF TaskType
    <3>3. q = r /\ Running = {r}
      BY <2>0, <2>1, <3>2 DEF Running
    <3>4. edges = {}
      BY <2>0, <3>3 DEF EdgesOK
    <3> QED BY <3>2, <3>3, <3>4
  <2> QED BY <2>3, <2>4
<1> QED BY <1>1, <1>2, <1>3, <1>4 DEF Next

LEMMA DepthStep ==
  ASSUME FetchInv, EdgesOK, EndBatch, Outcome = "ok", ~partial
  PROVE  /\ depth = 0 => shallow' = shallow
         /\ depth > 0 /\ Cardinality(Running) = 1 =>
              \A r \in Running : Reachable({task[r].sha}, shallow') = Ball(task[r].sha, depth)
<1>1. depth = 0 => shallow' = shallow
  <2>1. ~(0 > 0)
    OBVIOUS
  <2> QED BY <2>1 DEF EndBatch
<1>2. ASSUME depth > 0, Cardinality(Running) = 1, NEW r \in Running
      PROVE  Reachable({task[r].sha}, shallow') = Ball(task[r].sha, depth)
  <2>1. Running \subseteq Refs /\ IsFiniteSet(Running)
    <3>1. IsFiniteSet(Refs) /\ Running \subseteq Refs
      BY ConstantsAssumption DEF Running
    <3> QED BY <3>1, FS_Subset
  <2>2. Running = {r}
    BY <1>2, <2>1, FS_Singleton
  <2>3. task[r].at = "done" /\ r \in Refs
    BY <2>1 DEF EndBatch, Ended, Outcome
  <2>4. edges = shallow_boundaries(task[r].sha, depth)
    BY <1>2, <2>2, <2>3 DEF EdgesOK
  <2>5. \A c \in shallow : ~entry_remains_a_boundary(c)
    <3>1. Closed(odb) /\ shallow \subseteq Commits
      BY DEF FetchInv, LocalOK, Types, Typed
    <3> QED BY <3>1 DEF Closed, entry_remains_a_boundary
  <2>6. shallow' = edges
    <3>1. write_shallow_file(edges)
      BY <1>2 DEF EndBatch
    <3> QED BY <2>5, <3>1 DEF write_shallow_file
  <2>7. task[r].sha \in Commits /\ depth \in Nat \ {0}
    <3>1. TaskOK(r, task[r]) /\ depth \in Nat
      BY <2>3, ConstantsAssumption DEF FetchInv, Types, Typed
    <3> QED BY <1>2, <2>3, <3>1 DEF TaskOK
  <2> QED BY <2>4, <2>6, <2>7, CutWalk
<1> QED BY <1>1, <1>2

\* A batch with a depth that succeeds for a single ref shows exactly that many
\* generations of it, for every history, every depth and every earlier
\* .git/shallow: write_shallow_file of git.rs drops what no longer is one.
THEOREM DepthCorrect == Spec => DepthExact
<1>1. Init => EdgesOK
  <2>1. ~(0 > 0)
    OBVIOUS
  <2> QED BY <2>1 DEF Init, EdgesOK
<1>2. ASSUME FetchInv, EdgesOK, [Next]_vars
      PROVE  [EndBatch /\ Outcome = "ok" /\ ~partial =>
                /\ depth = 0 => shallow' = shallow
                /\ depth > 0 /\ Cardinality(Running) = 1 =>
                     \A r \in Running : Reachable({task[r].sha}, shallow') = Ball(task[r].sha, depth)]_vars
  BY <1>2, DepthStep
<1> QED BY <1>1, <1>2, FetchStart, LoadsStart, FetchStep, LoadsStep, EdgesStep, PTL DEF Spec, DepthExact

=============================================================================
