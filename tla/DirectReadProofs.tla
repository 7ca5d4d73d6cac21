--------------------------- MODULE DirectReadProofs ---------------------------
(***************************************************************************)
(* Proofs about DirectRead, for every set of readers and paths, every size *)
(* of the pack indexes and every budget of the cache.                      *)
(*                                                                         *)
(* The cache accounts for the bytes it holds by a sum over a finite set,   *)
(* which is a recursive definition of FiniteSetsExt: the first part shows  *)
(* by well-founded choice that it unfolds, and from there on it is plain   *)
(* arithmetic.  The second part is the cache, the third the chain that a   *)
(* read has in its hands, the fourth the path index, whose recursive       *)
(* functions are taken apart in the same way, the fifth the reads, and the *)
(* last the entries of a pack and their deltas.                            *)
(***************************************************************************)
EXTENDS DirectRead, PackchainProofs, FiniteSetTheorems, SequenceTheorems

-----------------------------------------------------------------------------
(* The sum over a finite set.                                              *)

\* A nonempty set of subsets of a finite set has one with no other inside.
LEMMA Innermost ==
  ASSUME NEW S, IsFiniteSet(S), NEW D, D \subseteq SUBSET S, D # {}
  PROVE  \E d \in D : \A e \in D : e \subseteq d => e = d
<1>1. D \subseteq FiniteSubsetsOf(S)
  BY FS_Subset DEF FiniteSubsetsOf
<1>3. IsWellFoundedOn(StrictSubsetOrdering(S), FiniteSubsetsOf(S))
  BY FS_StrictSubsetOrderingWellFounded
<1>2. PICK d \in D : \A e \in D : <<e, d>> \notin StrictSubsetOrdering(S)
  BY <1>1, <1>3, WFMin
<1> QED BY <1>2 DEF StrictSubsetOrdering

Pick(T) == CHOOSE x \in T : TRUE

\* What MapThenSumSet adds up, in the order of Pick.
IsSum(f, S) ==
  f = [s \in SUBSET S |-> IF s = {} THEN 0 ELSE Bytes(Pick(s)) + f[s \ {Pick(s)}]]

Unrolls(T) == BytesOf(T) = IF T = {} THEN 0 ELSE Bytes(Pick(T)) + BytesOf(T \ {Pick(T)})

LEMMA Unfold ==
  ASSUME NEW S
  PROVE  BytesOf(S) = (CHOOSE f : IsSum(f, S))[S]
BY DEF BytesOf, MapThenSumSet, MapThenFoldSet, IsSum, Pick

LEMMA Picked ==
  ASSUME NEW T, T # {}
  PROVE  Pick(T) \in T /\ T \ {Pick(T)} \subseteq T /\ T \ {Pick(T)} # T
BY DEF Pick

\* A set unrolls if those inside it do.
LEMMA UnrollNext ==
  ASSUME NEW S, IsFiniteSet(S), \A T \in SUBSET S : T # S => Unrolls(T)
  PROVE  Unrolls(S)
<1> DEFINE top == IF S = {} THEN 0 ELSE Bytes(Pick(S)) + BytesOf(S \ {Pick(S)})
           g   == [s \in SUBSET S |-> IF s = S THEN top ELSE BytesOf(s)]
<1>1. IsSum(g, S)
  <2> SUFFICES ASSUME NEW s \in SUBSET S
               PROVE  g[s] = IF s = {} THEN 0 ELSE Bytes(Pick(s)) + g[s \ {Pick(s)}]
    BY DEF IsSum
  <2>1. CASE s = {}
    BY <2>1 DEF Unrolls
  <2>2. CASE s # {}
    <3>1. s \ {Pick(s)} \in SUBSET S /\ s \ {Pick(s)} # S
      BY <2>2, Picked
    <3>2. g[s \ {Pick(s)}] = BytesOf(s \ {Pick(s)})
      BY <3>1
    <3>3. g[s] = Bytes(Pick(s)) + BytesOf(s \ {Pick(s)})
      BY <2>2 DEF Unrolls
    <3> QED BY <2>2, <3>2, <3>3
  <2> QED BY <2>1, <2>2
<1>2. PICK f : f = (CHOOSE x : IsSum(x, S)) /\ IsSum(f, S)
  BY <1>1
<1> HIDE DEF g, top
<1>3. \A s \in SUBSET S : f[s] = IF s = {} THEN 0 ELSE Bytes(Pick(s)) + f[s \ {Pick(s)}]
  BY <1>2 DEF IsSum
<1>4. \A T \in SUBSET S : T # S => f[T] = BytesOf(T)
  <2> DEFINE D == {T \in SUBSET S : T # S /\ f[T] # BytesOf(T)}
  <2> SUFFICES ASSUME D # {} PROVE FALSE
    OBVIOUS
  <2>1. PICK T \in D : \A e \in D : e \subseteq T => e = T
    <3>1. D \subseteq SUBSET S
      OBVIOUS
    <3> HIDE DEF D
    <3> QED BY <3>1, Innermost
  <2>2. CASE T = {}
    BY <1>3, <2>1, <2>2 DEF Unrolls
  <2>3. CASE T # {}
    <3> DEFINE R == T \ {Pick(T)}
    <3>1. R \subseteq T /\ R # T
      BY <2>3, Picked
    <3>2. f[R] = BytesOf(R)
      BY <2>1, <3>1
    <3>3. f[T] = Bytes(Pick(T)) + f[R]
      BY <1>3, <2>1, <2>3
    <3>4. BytesOf(T) = Bytes(Pick(T)) + BytesOf(R)
      BY <2>1, <2>3 DEF Unrolls
    <3> QED BY <2>1, <3>2, <3>3, <3>4
  <2> QED BY <2>2, <2>3
<1>5. BytesOf(S) = f[S]
  BY <1>2, Unfold
<1>6. S # {} => f[S \ {Pick(S)}] = BytesOf(S \ {Pick(S)})
  BY <1>4, Picked
<1> QED BY <1>3, <1>5, <1>6 DEF Unrolls

LEMMA Unrolled ==
  ASSUME NEW S, IsFiniteSet(S)
  PROVE  Unrolls(S)
<1> DEFINE D == {T \in SUBSET S : ~Unrolls(T)}
<1> SUFFICES ASSUME D # {} PROVE FALSE
  OBVIOUS
<1>1. PICK T \in D : \A e \in D : e \subseteq T => e = T
  <2>1. D \subseteq SUBSET S
    OBVIOUS
  <2> HIDE DEF D
  <2> QED BY <2>1, Innermost
<1>2. IsFiniteSet(T) /\ \A R \in SUBSET T : R # T => Unrolls(R)
  BY <1>1, FS_Subset
<1> QED BY <1>1, <1>2, UnrollNext

Sized(S) == IsFiniteSet(S) /\ \A o \in S : Bytes(o) \in Nat

LEMMA SumNat ==
  ASSUME NEW S, Sized(S)
  PROVE  BytesOf(S) \in Nat
<1> DEFINE D == {T \in SUBSET S : BytesOf(T) \notin Nat}
<1> SUFFICES ASSUME D # {} PROVE FALSE
  OBVIOUS
<1>1. PICK T \in D : \A e \in D : e \subseteq T => e = T
  <2>1. D \subseteq SUBSET S /\ IsFiniteSet(S)
    BY DEF Sized
  <2> HIDE DEF D
  <2> QED BY <2>1, Innermost
<1>2. Unrolls(T)
  BY <1>1, Unrolled, FS_Subset DEF Sized
<1>3. CASE T = {}
  BY <1>1, <1>2, <1>3 DEF Unrolls
<1>4. CASE T # {}
  <2> DEFINE R == T \ {Pick(T)}
  <2>1. BytesOf(R) \in Nat /\ Bytes(Pick(T)) \in Nat
    BY <1>1, <1>4, Picked DEF Sized
  <2> QED BY <1>1, <1>2, <1>4, <2>1 DEF Unrolls
<1> QED BY <1>3, <1>4

\* The order does not matter: any element may be taken first.
Takes(T) == \A o \in T : BytesOf(T) = Bytes(o) + BytesOf(T \ {o})

LEMMA SumTake ==
  ASSUME NEW S, Sized(S)
  PROVE  Takes(S)
<1> DEFINE D == {T \in SUBSET S : ~Takes(T)}
<1> SUFFICES ASSUME D # {} PROVE FALSE
  OBVIOUS
<1>1. PICK T \in D : \A e \in D : e \subseteq T => e = T
  <2>1. D \subseteq SUBSET S /\ IsFiniteSet(S)
    BY DEF Sized
  <2> HIDE DEF D
  <2> QED BY <2>1, Innermost
<1>2. PICK o \in T : BytesOf(T) # Bytes(o) + BytesOf(T \ {o})
  BY <1>1 DEF Takes
<1> DEFINE x == Pick(T)
           R == T \ {x}
           Q == T \ {o}
           B == (T \ {x}) \ {o}
<1>3. BytesOf(T) = Bytes(x) + BytesOf(R) /\ x \in T
  BY <1>1, Unrolled, Picked, FS_Subset DEF Sized, Unrolls
<1>4. x # o
  BY <1>2, <1>3
<1>5. BytesOf(R) = Bytes(o) + BytesOf(B)
  <2>1. R \in SUBSET S /\ R \subseteq T /\ R # T /\ o \in R
    BY <1>1, <1>3, <1>4
  <2>2. Takes(R)
    BY <1>1, <2>1
  <2> QED BY <2>1, <2>2 DEF Takes
<1>6. BytesOf(Q) = Bytes(x) + BytesOf(B)
  <2>1. Q \in SUBSET S /\ Q \subseteq T /\ Q # T /\ x \in Q
    BY <1>1, <1>3, <1>4
  <2>2. Takes(Q) /\ Q \ {x} = B
    BY <1>1, <2>1
  <2> QED BY <2>1, <2>2 DEF Takes
<1>7. Sized(B) /\ Bytes(x) \in Nat /\ Bytes(o) \in Nat
  BY <1>1, <1>3, FS_Subset DEF Sized
<1>8. BytesOf(B) \in Nat
  BY <1>7, SumNat
<1>9. BytesOf(T) # Bytes(o) + BytesOf(Q)
  BY <1>2
<1> HIDE DEF x, R, Q, B
<1> QED BY <1>3, <1>5, <1>6, <1>7, <1>8, <1>9

\* What is left when a part is taken away.
LEMMA SumMinus ==
  ASSUME NEW S, Sized(S), NEW T \in SUBSET S
  PROVE  BytesOf(S \ T) = BytesOf(S) - BytesOf(T)
<1> DEFINE Bad(U) == BytesOf(S \ U) # BytesOf(S) - BytesOf(U)
           D == {U \in SUBSET S : Bad(U)}
<1> SUFFICES ASSUME D # {} PROVE FALSE
  OBVIOUS
<1>1. PICK U \in D : \A e \in D : e \subseteq U => e = U
  <2>1. D \subseteq SUBSET S /\ IsFiniteSet(S)
    BY DEF Sized
  <2> HIDE DEF D
  <2> QED BY <2>1, Innermost
<1>2. U \subseteq S /\ Sized(U) /\ Sized(S \ U)
  BY <1>1, FS_Subset DEF Sized
<1>3. BytesOf(S) \in Nat /\ BytesOf(U) \in Nat /\ BytesOf(S \ U) \in Nat
  BY <1>2, SumNat
<1>4. CASE U = {}
  <2>1. S \ U = S /\ BytesOf(U) = 0
    BY <1>2, <1>4, Unrolled DEF Unrolls, Sized
  <2>2. BytesOf(S \ U) = BytesOf(S)
    BY <2>1
  <2>3. BytesOf(S \ U) # BytesOf(S) - BytesOf(U)
    BY <1>1
  <2> QED BY <1>3, <2>1, <2>2, <2>3
<1>5. CASE U # {}
  <2>1. PICK o : o \in U
    BY <1>5
  <2> DEFINE R == U \ {o}
             Q == S \ R
  <2>2. R \in SUBSET S /\ R \subseteq U /\ R # U
    BY <1>2, <2>1
  <2>3. BytesOf(Q) = BytesOf(S) - BytesOf(R)
    BY <1>1, <2>2
  <2>4. BytesOf(U) = Bytes(o) + BytesOf(R)
    BY <1>2, <2>1, SumTake DEF Takes
  <2>5. BytesOf(Q) = Bytes(o) + BytesOf(S \ U)
    <3>1. Sized(Q) /\ o \in Q /\ Q \ {o} = S \ U
      BY <1>2, <2>1, FS_Subset DEF Sized
    <3> QED BY <3>1, SumTake DEF Takes
  <2>6. BytesOf(R) \in Nat /\ Bytes(o) \in Nat
    <3>1. Sized(R)
      BY <1>2, FS_Subset DEF Sized
    <3> QED BY <1>2, <2>1, <3>1, SumNat DEF Sized
  <2>7. BytesOf(S \ U) # BytesOf(S) - BytesOf(U)
    BY <1>1
  <2> HIDE DEF R, Q
  <2> QED BY <1>3, <2>3, <2>4, <2>5, <2>6, <2>7
<1> QED BY <1>4, <1>5

-----------------------------------------------------------------------------
(* The cache.                                                              *)

LEMMA Smallest ==
  ASSUME NEW T, T \subseteq Nat, T # {}
  PROVE  Min(T) \in T /\ \A y \in T : Min(T) <= y
<1> DEFINE D == {0..x : x \in T}
<1>1. D \subseteq FiniteSubsetsOf(Nat) /\ D # {}
  <2>1. \A x \in T : 0..x \in FiniteSubsetsOf(Nat)
    <3> SUFFICES ASSUME NEW x \in T PROVE IsFiniteSet(0..x) /\ 0..x \subseteq Nat
      BY DEF FiniteSubsetsOf
    <3>1. x \in Int /\ 0 \in Int
      OBVIOUS
    <3> QED BY <3>1, FS_Interval
  <2> QED BY <2>1
<1>2. PICK d \in D : \A e \in D : <<e, d>> \notin StrictSubsetOrdering(Nat)
  <2> HIDE DEF D
  <2> QED BY <1>1, FS_StrictSubsetOrderingWellFounded, WFMin
<1>3. PICK x \in T : d = 0..x
  OBVIOUS
<1>4. ASSUME NEW y \in T, y < x PROVE FALSE
  <2>1. 0..y \in D /\ 0..y \subseteq 0..x /\ 0..y # 0..x /\ 0..x \subseteq Nat
    BY <1>4
  <2> QED BY <1>2, <1>3, <2>1 DEF StrictSubsetOrdering
<1>5. \A y \in T : x <= y
  BY <1>4
<1>6. \E v \in T : \A y \in T : v <= y
  BY <1>5
<1> QED BY <1>6 DEF Min

\* No key is in the order twice.
Distinct(s) == \A i, j \in 1..Len(s) : s[i] = s[j] => i = j

KeysIn(s) == {s[i] : i \in 1..Len(s)}

\* What RemoveFirst leaves of a sequence without repetitions.
LEMMA Removed ==
  ASSUME NEW S, NEW s \in Seq(S), Distinct(s), NEW e \in KeysIn(s)
  PROVE  LET t == RemoveFirst(s, e) IN
         t \in Seq(S) /\ Distinct(t) /\ KeysIn(t) = KeysIn(s) \ {e}
<1> DEFINE I == {i \in 1..Len(s) : s[i] = e}
           m == Min(I)
           t == SubSeq(s, 1, m - 1) \o SubSeq(s, m + 1, Len(s))
<1>1. RemoveFirst(s, e) = t
  BY DEF RemoveFirst, RemoveAt, SelectInSeq, KeysIn
<1>2. m \in 1..Len(s) /\ s[m] = e /\ Len(s) \in Nat
  <2>1. I \subseteq Nat /\ I # {} /\ I \subseteq 1..Len(s)
    BY DEF KeysIn
  <2> HIDE DEF I
  <2>2. m \in I
    BY <2>1, Smallest
  <2> QED BY <2>1, <2>2 DEF I
<1> HIDE DEF m
<1>3. /\ t \in Seq(S) /\ Len(t) = Len(s) - 1
      /\ \A i \in 1..Len(t) : t[i] = IF i < m THEN s[i] ELSE s[i + 1]
  <2> DEFINE a == SubSeq(s, 1, m - 1)
             b == SubSeq(s, m + 1, Len(s))
  <2>1. a \in Seq(S) /\ Len(a) = m - 1 /\ \A i \in 1..(m - 1) : a[i] = s[i]
    BY <1>2
  <2>2. b \in Seq(S) /\ Len(b) = Len(s) - m /\ \A i \in 1..(Len(s) - m) : b[i] = s[m + i]
    BY <1>2
  <2> HIDE DEF a, b
  <2>3. a \o b \in Seq(S) /\ Len(a \o b) = Len(s) - 1
    <3>1. a \in Seq(S) /\ b \in Seq(S)
      BY <2>1, <2>2
    <3>2. a \o b \in Seq(S) /\ Len(a \o b) = Len(a) + Len(b)
      BY <3>1
    <3>3. Len(a) = m - 1 /\ Len(b) = Len(s) - m /\ m \in Int /\ Len(s) \in Int
      BY <1>2, <2>1, <2>2
    <3> QED BY <3>2, <3>3
  <2>4. ASSUME NEW i \in 1..(Len(s) - 1) PROVE (a \o b)[i] = IF i < m THEN s[i] ELSE s[i + 1]
    <3>1. CASE i < m
      <4>1. i \in 1..(m - 1)
        BY <1>2, <3>1
      <4>2. i \in 1..Len(a)
        BY <2>1, <4>1
      <4>3. (a \o b)[i] = a[i]
        BY <2>1, <2>2, <4>2
      <4> QED BY <2>1, <3>1, <4>1, <4>3
    <3>2. CASE i >= m
      <4>1. (a \o b)[i] = b[i - Len(a)]
        BY <1>2, <2>1, <2>2, <3>2
      <4>2. i - Len(a) = i - m + 1 /\ i - m + 1 \in 1..(Len(s) - m)
        BY <1>2, <2>1, <3>2
      <4>3. m + (i - m + 1) = i + 1
        BY <1>2
      <4> QED BY <1>2, <2>2, <3>2, <4>1, <4>2, <4>3
    <3>3. m \in Int /\ i \in Int
      BY <1>2
    <3>4. i < m \/ i >= m
      BY <3>3
    <3> QED BY <3>1, <3>2, <3>4
  <2> QED BY <2>3, <2>4 DEF a, b
<1> HIDE DEF t
<1>4. Distinct(t)
  BY <1>2, <1>3 DEF Distinct
<1>5. KeysIn(t) = KeysIn(s) \ {e}
  <2>1. ASSUME NEW i \in 1..Len(t) PROVE t[i] \in KeysIn(s) \ {e}
    BY <1>2, <1>3, <2>1 DEF Distinct, KeysIn
  <2>2. ASSUME NEW j \in 1..Len(s), s[j] # e PROVE s[j] \in KeysIn(t)
    <3>1. CASE j < m
      BY <1>2, <1>3, <2>2, <3>1 DEF KeysIn
    <3>2. CASE j > m
      <4>1. j - 1 \in 1..Len(t) /\ t[j - 1] = s[(j - 1) + 1] /\ (j - 1) + 1 = j
        BY <1>2, <1>3, <3>2
      <4> QED BY <4>1 DEF KeysIn
    <3> QED BY <1>2, <2>2, <3>1, <3>2
  <2> QED BY <2>1, <2>2 DEF KeysIn
<1> QED BY <1>1, <1>3, <1>4, <1>5

LEMMA Appended ==
  ASSUME NEW S, NEW s \in Seq(S), Distinct(s), NEW e \in S, e \notin KeysIn(s)
  PROVE  LET t == Append(s, e) IN
         t \in Seq(S) /\ Distinct(t) /\ KeysIn(t) = KeysIn(s) \cup {e}
<1> DEFINE t == Append(s, e)
<1>1. t \in Seq(S) /\ Len(t) = Len(s) + 1 /\ Len(s) \in Nat
        /\ (\A i \in 1..Len(s) : t[i] = s[i]) /\ t[Len(s) + 1] = e
  OBVIOUS
<1> HIDE DEF t
<1>2. \A i \in 1..Len(t) : i \in 1..Len(s) \/ i = Len(s) + 1
  BY <1>1
<1>3. Distinct(t)
  BY <1>1, <1>2 DEF Distinct, KeysIn
<1>4. KeysIn(t) = KeysIn(s) \cup {e}
  <2>1. KeysIn(t) \subseteq KeysIn(s) \cup {e}
    BY <1>1, <1>2 DEF KeysIn
  <2>2. \A i \in 1..Len(s) : i \in 1..Len(t)
    BY <1>1
  <2>3. Len(s) + 1 \in 1..Len(t)
    BY <1>1
  <2> QED BY <1>1, <2>1, <2>2, <2>3 DEF KeysIn
<1> QED BY <1>1, <1>3, <1>4 DEF t

\* The oldest n keys and the others.
LEMMA Split ==
  ASSUME NEW S, NEW s \in Seq(S), Distinct(s), NEW n \in 0..Len(s)
  PROVE  LET t == SubSeq(s, n + 1, Len(s))
             old == {s[i] : i \in 1..n} IN
         t \in Seq(S) /\ Distinct(t) /\ KeysIn(t) = KeysIn(s) \ old /\ old \subseteq KeysIn(s)
<1> DEFINE t == SubSeq(s, n + 1, Len(s))
           old == {s[i] : i \in 1..n}
<1>1. t \in Seq(S) /\ Len(t) = Len(s) - n /\ Len(s) \in Nat
        /\ \A i \in 1..(Len(s) - n) : t[i] = s[n + i]
  OBVIOUS
<1> HIDE DEF t
<1>2. Distinct(t)
  BY <1>1 DEF Distinct
<1>3. old \subseteq KeysIn(s)
  BY DEF KeysIn
<1>4. ASSUME NEW i \in 1..Len(t) PROVE t[i] \in KeysIn(s) \ old
  <2>1. n + i \in 1..Len(s) /\ t[i] = s[n + i]
    BY <1>1
  <2>2. \A j \in 1..n : j \in 1..Len(s) /\ j # n + i
    BY <1>1
  <2> QED BY <2>1, <2>2 DEF Distinct, KeysIn
<1>5. ASSUME NEW j \in 1..Len(s), s[j] \notin old PROVE s[j] \in KeysIn(t)
  <2>1. j > n
    BY <1>5
  <2>2. j - n \in 1..Len(t) /\ n + (j - n) = j
    BY <1>1, <2>1
  <2>3. t[j - n] = s[j]
    BY <1>1, <2>2
  <2> QED BY <2>2, <2>3 DEF KeysIn
<1>6. KeysIn(t) = KeysIn(s) \ old
  BY <1>4, <1>5 DEF KeysIn
<1> QED BY <1>1, <1>2, <1>3, <1>6 DEF t

\* The objects that a chain may name, with the size of their index.
LEMMA PackBytes == \A o \in Packs : Bytes(o) \in Nat
BY ReadAssumption DEF Packs, Pack, Bytes

\* A cache in order: each key once, in the map and in the order, and the
\* total is theirs.
Kept(c) ==
  /\ c = [order |-> c.order, map |-> c.map, total |-> c.total]
  /\ c.order \in Seq(Packs) /\ Distinct(c.order)
  /\ c.map = KeysIn(c.order) /\ c.map \subseteq Packs
  /\ c.total = BytesOf(c.map) /\ c.total <= Capacity

LEMMA KeptSized ==
  ASSUME NEW s \in Seq(Packs)
  PROVE  Sized(KeysIn(s)) /\ KeysIn(s) \subseteq Packs
<1>1. KeysIn(s) \subseteq Packs
  BY DEF KeysIn
<1>2. IsFiniteSet(KeysIn(s))
  <2>1. IsFiniteSet(1..Len(s))
    <3>1. Len(s) \in Int /\ 1 \in Int
      OBVIOUS
    <3> QED BY <3>1, FS_Interval
  <2> DEFINE f == [i \in 1..Len(s) |-> s[i]]
  <2>2. f \in Surjection(1..Len(s), KeysIn(s))
    BY DEF Surjection, KeysIn
  <2> HIDE DEF f
  <2> QED BY <2>1, <2>2, FS_Surjection
<1> QED BY <1>1, <1>2, PackBytes DEF Sized

LEMMA KeptEmpty == Kept(EmptyCache)
<1>1. EmptyCache.order = <<>> /\ EmptyCache.map = {} /\ EmptyCache.total = 0
        /\ EmptyCache = [order |-> EmptyCache.order, map |-> EmptyCache.map, total |-> EmptyCache.total]
  BY DEF EmptyCache
<1>2. KeysIn(<<>>) = {} /\ Distinct(<<>>) /\ <<>> \in Seq(Packs)
  BY DEF KeysIn, Distinct
<1>3. BytesOf({}) = 0
  BY Unrolled, FS_EmptySet DEF Unrolls
<1>4. BytesOf(EmptyCache.map) = 0 /\ KeysIn(EmptyCache.order) = {} /\ Distinct(EmptyCache.order)
        /\ EmptyCache.order \in Seq(Packs)
  BY <1>1, <1>2, <1>3
<1> QED BY <1>1, <1>4, ReadAssumption DEF Kept

LEMMA KeptTouch ==
  ASSUME NEW c, Kept(c), NEW o \in c.map
  PROVE  Kept(Touch(c, o))
<1> DEFINE s == RemoveFirst(c.order, o)
           t == Append(s, o)
<1>1. s \in Seq(Packs) /\ Distinct(s) /\ KeysIn(s) = c.map \ {o} /\ o \in Packs
  BY Removed DEF Kept
<1>2. t \in Seq(Packs) /\ Distinct(t) /\ KeysIn(t) = KeysIn(s) \cup {o}
  <2> HIDE DEF s
  <2> QED BY <1>1, Appended
<1>3. KeysIn(t) = c.map
  BY <1>1, <1>2
<1>4. Touch(c, o).order = t /\ Touch(c, o).map = c.map /\ Touch(c, o).total = c.total
        /\ Touch(c, o) = [order |-> t, map |-> c.map, total |-> c.total]
  <2>1. Touch(c, o) = [c EXCEPT !.order = t]
    BY DEF Touch
  <2> DEFINE a == c.order
             m == c.map
             n == c.total
  <2>2. c = [order |-> a, map |-> m, total |-> n]
    BY DEF Kept
  <2> HIDE DEF s, t, a, m, n
  <2>3. [c EXCEPT !.order = t] = [order |-> t, map |-> m, total |-> n]
    BY <2>2
  <2> QED BY <2>1, <2>3 DEF m, n
<1> HIDE DEF s, t
<1> QED BY <1>2, <1>3, <1>4 DEF Kept

LEMMA KeptWithout ==
  ASSUME NEW c, Kept(c), NEW o \in Packs
  PROVE  Kept(Without(c, o)) /\ o \notin Without(c, o).map
<1>1. CASE o \notin c.map
  BY <1>1 DEF Without
<1>2. CASE o \in c.map
  <2> DEFINE s == RemoveFirst(c.order, o)
             w == Without(c, o)
  <2>1. w = [order |-> s, map |-> c.map \ {o}, total |-> c.total - Bytes(o)]
    BY <1>2 DEF Without
  <2>2. s \in Seq(Packs) /\ Distinct(s) /\ KeysIn(s) = c.map \ {o}
    BY <1>2, Removed DEF Kept
  <2>3. Sized(c.map) /\ Sized(c.map \ {o})
    BY <2>2, KeptSized DEF Kept
  <2>4. c.total = Bytes(o) + BytesOf(c.map \ {o})
    BY <1>2, <2>3, SumTake DEF Kept, Takes
  <2>5. Bytes(o) \in Nat /\ BytesOf(c.map \ {o}) \in Nat /\ Capacity \in Nat
    BY <2>3, PackBytes, SumNat, ReadAssumption
  <2> HIDE DEF s, w
  <2>6. w.order = s /\ w.map = c.map \ {o} /\ w.total = c.total - Bytes(o)
    BY <2>1
  <2>7. w.total = BytesOf(w.map) /\ w.total <= Capacity
    BY <2>4, <2>5, <2>6 DEF Kept
  <2> QED BY <2>1, <2>2, <2>6, <2>7 DEF Kept, w
<1> QED BY <1>1, <1>2

LEMMA KeptEvict ==
  ASSUME NEW c, Kept(c), NEW b \in Nat, b <= Capacity
  PROVE  Kept(Evict(c, b)) /\ Evict(c, b).map \subseteq c.map /\ Evict(c, b).total + b <= Capacity
<1> DEFINE old(k) == {c.order[i] : i \in 1..k} \cap c.map
           T == {k \in 0..Len(c.order) :
                   k = Len(c.order) \/ c.total - BytesOf(old(k)) + b <= Capacity}
           n == Min(T)
           s == SubSeq(c.order, n + 1, Len(c.order))
           v == Evict(c, b)
<1>1. v = [order |-> s, map |-> c.map \ old(n), total |-> c.total - BytesOf(old(n))]
  BY DEF Evict
<1>2. Len(c.order) \in Nat /\ c.order \in Seq(Packs)
  BY DEF Kept
<1>3. n \in T
  <2>1. T \subseteq Nat /\ Len(c.order) \in T
    BY <1>2
  <2> HIDE DEF T
  <2> QED BY <2>1, Smallest
<1>4. n \in 0..Len(c.order) /\ (n = Len(c.order) \/ c.total - BytesOf(old(n)) + b <= Capacity)
  BY <1>3
<1> HIDE DEF n, T
<1>5. {c.order[i] : i \in 1..n} \subseteq c.map
  BY <1>2, <1>4 DEF Kept, KeysIn
<1>6. s \in Seq(Packs) /\ Distinct(s) /\ KeysIn(s) = c.map \ old(n) /\ old(n) \subseteq c.map
  BY <1>2, <1>4, <1>5, Split DEF Kept
<1>7. Sized(c.map)
  BY <1>2, KeptSized DEF Kept
<1>8. BytesOf(c.map \ old(n)) = c.total - BytesOf(old(n))
  BY <1>6, <1>7, SumMinus DEF Kept
<1>9. Sized(old(n)) /\ Sized(c.map \ old(n))
  BY <1>7, FS_Subset DEF Sized
<1>10. /\ BytesOf(old(n)) \in Nat /\ BytesOf(c.map \ old(n)) \in Nat /\ Capacity \in Nat
       /\ c.total \in Nat
  BY <1>7, <1>9, SumNat, ReadAssumption DEF Kept
<1>11. c.total - BytesOf(old(n)) + b <= Capacity
  <2>1. CASE n = Len(c.order)
    <3>1. c.map \ old(n) = {}
      BY <2>1 DEF Kept, KeysIn
    <3>2. BytesOf(c.map \ old(n)) = 0
      BY <1>9, <3>1, Unrolled DEF Sized, Unrolls
    <3> QED BY <1>8, <1>10, <3>2
  <2> QED BY <1>4, <2>1
<1>12. c.total - BytesOf(old(n)) <= Capacity
  BY <1>10, <1>11
<1> DEFINE m == c.map \ old(n)
           t == c.total - BytesOf(old(n))
<1>13. v = [order |-> s, map |-> m, total |-> t] /\ KeysIn(s) = m /\ t = BytesOf(m) /\ t <= Capacity
         /\ m \subseteq c.map /\ t + b <= Capacity /\ c.map \subseteq Packs
  BY <1>1, <1>6, <1>8, <1>11, <1>12 DEF Kept
<1> HIDE DEF s, v, m, t
<1>14. v.order = s /\ v.map = m /\ v.total = t
  BY <1>13
<1> QED BY <1>6, <1>13, <1>14 DEF Kept, v

LEMMA KeptInsert ==
  ASSUME NEW c, Kept(c), NEW o \in Packs
  PROVE  Kept(Insert(c, o))
<1> DEFINE w == Without(c, o)
           b == Bytes(o)
           v == Evict(w, b)
           t == Append(v.order, o)
           m == v.map \cup {o}
           n == v.total + b
<1>1. Kept(w) /\ o \notin w.map /\ b \in Nat
  BY KeptWithout, PackBytes
<1>2. CASE b > Capacity
  BY <1>1, <1>2 DEF Insert
<1>3. CASE ~(b > Capacity)
  <2>1. b <= Capacity
    BY <1>1, <1>3, ReadAssumption
  <2>2. Kept(v) /\ v.map \subseteq w.map /\ n <= Capacity
    <3> HIDE DEF w, b
    <3> QED BY <1>1, <2>1, KeptEvict
  <2>3. Insert(c, o) = [order |-> t, map |-> m, total |-> n]
    BY <1>3 DEF Insert
  <2> HIDE DEF w, v
  <2>4. o \notin v.map
    BY <1>1, <2>2
  <2>5. t \in Seq(Packs) /\ Distinct(t) /\ KeysIn(t) = m
    BY <2>2, <2>4, Appended DEF Kept
  <2>6. n = BytesOf(m)
    <3>1. Sized(m)
      BY <2>5, KeptSized
    <3>2. BytesOf(m) = b + BytesOf(m \ {o})
      BY <3>1, SumTake DEF Takes
    <3>3. m \ {o} = v.map
      BY <2>4
    <3>4. BytesOf(m \ {o}) = v.total
      BY <2>2, <3>3 DEF Kept
    <3>5. v.total \in Nat
      <4>1. Sized(v.map)
        BY <2>2, KeptSized DEF Kept
      <4> QED BY <2>2, <4>1, SumNat DEF Kept
    <3> QED BY <1>1, <3>2, <3>4, <3>5
  <2>7. m \subseteq Packs
    BY <2>2 DEF Kept
  <2> DEFINE r == [order |-> t, map |-> m, total |-> n]
  <2>8. r.order = t /\ r.map = m /\ r.total = n /\ r = [order |-> r.order, map |-> r.map, total |-> r.total]
    OBVIOUS
  <2> HIDE DEF r, t, m, n
  <2>9. Kept(r)
    BY <2>2, <2>5, <2>6, <2>7, <2>8 DEF Kept
  <2> QED BY <2>3, <2>9 DEF r
<1> QED BY <1>2, <1>3

LEMMA KeptConsistent == Kept(cache) => CacheConsistent
<1> SUFFICES ASSUME Kept(cache) PROVE CacheConsistent
  OBVIOUS
<1>1. Range(cache.order) = cache.map
  BY DEF Kept, KeysIn, Range
<1>2. Len(cache.order) = Cardinality(cache.map)
  <2> DEFINE N == 1..Len(cache.order)
             f == [i \in N |-> cache.order[i]]
  <2>1. f \in Bijection(N, cache.map)
    BY DEF Kept, KeysIn, Distinct, Bijection, Injection, Surjection, IsInjective
  <2>2. IsFiniteSet(N) /\ Cardinality(N) = Len(cache.order)
    <3>1. Len(cache.order) \in Nat
      BY DEF Kept
    <3> QED BY <3>1, FS_Interval
  <2> HIDE DEF N, f
  <2>3. ExistsBijection(N, cache.map)
    BY <2>1 DEF ExistsBijection
  <2>4. Cardinality(N) = Cardinality(cache.map)
    BY <2>2, <2>3, FS_Bijection
  <2> QED BY <2>2, <2>4
<1> QED BY <1>1, <1>2 DEF Kept, CacheConsistent

-----------------------------------------------------------------------------
(* The chain that a read has in its hands.                                 *)

\* Each segment stands on the next, and the last one on nothing.
Stacked(ch) ==
  ch # NoChain =>
    /\ Len(ch.segs) >= 1 /\ ch.segs[1].sha = ch.tip
    /\ \A i \in 1..Len(ch.segs) :
         ch.segs[i].base = IF i = Len(ch.segs) THEN None ELSE ch.segs[i + 1].sha

StackedOK == Stacked(chain) /\ \A p \in Clients : Stacked(prior[p])

LEMMA StackedFull ==
  ASSUME NEW c, NEW ch, ch.tip = c, ch.segs = <<Pack(None, c)>>
  PROVE  Stacked(ch)
<1>1. Len(ch.segs) = 1 /\ ch.segs[1] = Pack(None, c)
  OBVIOUS
<1>2. Pack(None, c).base = None /\ Pack(None, c).sha = c
  BY DEF Pack
<1> QED BY <1>1, <1>2 DEF Stacked

LEMMA StackedPush ==
  ASSUME NEW pr \in Manifest, Stacked(pr), NEW c \in Commits, NEW ch,
         ch.tip = c, ch.segs = <<Pack(pr.tip, c)>> \o pr.segs
  PROVE  Stacked(ch)
<1> DEFINE s == Pack(pr.tip, c)
           n == Len(pr.segs)
<1>1. s \in Packs /\ s.base = pr.tip /\ s.sha = c
  BY DEF Packs, Pack, Manifest
<1>2. pr.segs \in Seq(Packs) /\ n \in Nat /\ pr # NoChain
  BY ConstantsAssumption DEF Manifest, NoChain
<1>3. n >= 1 /\ pr.segs[1].sha = pr.tip
      /\ \A i \in 1..n : pr.segs[i].base = IF i = n THEN None ELSE pr.segs[i + 1].sha
  BY <1>2 DEF Stacked
<1> HIDE DEF s
<1>4. Len(ch.segs) = n + 1 /\ \A i \in 1..(n + 1) : ch.segs[i] = IF i = 1 THEN s ELSE pr.segs[i - 1]
  BY <1>1, <1>2 DEF s
<1> HIDE DEF n
<1>5. ch.segs[1] = s /\ ch.segs[2] = pr.segs[1]
  BY <1>2, <1>3, <1>4
<1>6. ASSUME NEW i \in 1..(n + 1)
      PROVE  ch.segs[i].base = IF i = n + 1 THEN None ELSE ch.segs[i + 1].sha
  <2>1. CASE i = 1
    <3>1. i # n + 1 /\ i + 1 = 2 /\ 1 \in 1..n
      BY <1>2, <1>3, <2>1
    <3> QED BY <1>1, <1>3, <1>5, <2>1, <3>1
  <2>2. CASE i # 1
    <3>1. i - 1 \in 1..n /\ (i - 1 = n <=> i = n + 1) /\ ch.segs[i] = pr.segs[i - 1]
      BY <1>2, <1>4, <2>2
    <3>2. CASE i = n + 1
      BY <1>3, <3>1, <3>2
    <3>3. CASE i # n + 1
      <4>1. i + 1 \in 1..(n + 1) /\ i + 1 # 1 /\ (i + 1) - 1 = i /\ (i - 1) + 1 = i
        BY <1>2, <3>3
      <4>2. ch.segs[i + 1] = pr.segs[i]
        BY <1>4, <4>1
      <4>3. pr.segs[i - 1].base = pr.segs[i].sha
        BY <1>3, <3>1, <3>3, <4>1
      <4> QED BY <3>1, <3>3, <4>2, <4>3
    <3> QED BY <3>2, <3>3
  <2> QED BY <2>1, <2>2
<1> QED BY <1>1, <1>2, <1>4, <1>5, <1>6 DEF Stacked

\* The chain that an operation commits is stacked if the one it read is.
LEMMA StackedNew ==
  ASSUME TypeInv, NEW p \in Clients, pc[p] = "commit", Stacked(prior[p])
  PROVE  Stacked(NewChain(p))
<1> USE DEF TypeInv, TypeOK, Typed
<1>1. op[p].kind \in Writers /\ op[p].local \in Commits /\ prior[p] \in Manifest \cup {NoChain}
  BY DEF StageOK, Stage, ClientsOK
<1>2. CASE op[p].kind = "compact"
  <2>1. NewChain(p).tip = prior[p].tip /\ NewChain(p).segs = <<Pack(None, prior[p].tip)>>
    BY <1>2 DEF NewChain
  <2> QED BY <2>1, StackedFull
<1>3. CASE op[p].kind = "force" \/ (op[p].kind = "push" /\ prior[p] = NoChain)
  <2>1. NewChain(p).tip = op[p].local /\ NewChain(p).segs = <<Pack(None, op[p].local)>>
    BY <1>3 DEF NewChain, next_manifest, NewPack, Pack
  <2> QED BY <2>1, StackedFull
<1>4. CASE op[p].kind = "push" /\ prior[p] # NoChain
  <2>1. NewChain(p).tip = op[p].local /\ NewChain(p).segs = <<Pack(prior[p].tip, op[p].local)>> \o prior[p].segs
    BY <1>4 DEF NewChain, next_manifest, NewPack, Pack
  <2>2. prior[p] \in Manifest
    BY <1>1, <1>4
  <2> QED BY <1>1, <2>1, <2>2, StackedPush
<1> QED BY <1>1, <1>2, <1>3, <1>4 DEF Writers, Pushes

LEMMA StackedNone == Stacked(NoChain)
BY DEF Stacked

LEMMA StackedStep == TypeInv /\ StackedOK /\ [Next]_vars => StackedOK'
<1> SUFFICES ASSUME TypeInv, StackedOK, [Next]_vars PROVE StackedOK'
  OBVIOUS
<1>1. ASSUME NEW p \in Clients, Acts(p) PROVE StackedOK'
  <2>1. Stacked(chain')
    BY <1>1, ActsFrame, StackedNone, StackedNew DEF StackedOK
  <2>2. \A q \in Clients : Stacked(prior'[q])
    BY <1>1, ActsPrior, StackedNone DEF StackedOK
  <2> QED BY <2>1, <2>2 DEF StackedOK, Stacked
<1>2. CASE Background \/ Tick \/ UNCHANGED vars
  <2>1. chain' = chain /\ prior' = prior
    BY <1>2, BackgroundFrame DEF Tick, vars, remote, client
  <2> QED BY <2>1 DEF StackedOK, Stacked
<1> QED BY <1>1, <1>2 DEF Next, Acts, Background

\* A stacked chain has every blob of the history of its tip in the segment
\* that brought it in: the oldest one with the blob in the history of its tip.
LEMMA BlobInChain ==
  ASSUME NEW ch \in Manifest, Stacked(ch), NEW c \in Ancestors(ch.tip), NEW x \in Paths
  PROVE  \E i \in 1..Len(ch.segs) : BlobAt[c][x] \in BlobsIn(ch.segs[i])
<1> DEFINE n == Len(ch.segs)
           b == BlobAt[c][x]
           Below(d) == {BlobAt[a][y] : a \in Ancestors(d), y \in Paths}
           D == {k \in 0..(n - 1) : b \in Below(ch.segs[n - k].sha)}
<1>1. ch.segs \in Seq(Packs) /\ n \in Nat /\ ch # NoChain
  BY ConstantsAssumption DEF Manifest, NoChain
<1>2. n >= 1 /\ ch.segs[1].sha = ch.tip
      /\ \A i \in 1..n : ch.segs[i].base = IF i = n THEN None ELSE ch.segs[i + 1].sha
  BY <1>1 DEF Stacked
<1>3. b \in Below(ch.tip)
  OBVIOUS
<1>4. \A i \in 1..n : ch.segs[i] \in Packs
  BY <1>1
<1>6. D \subseteq Nat /\ D # {}
  <2>1. n - 1 \in 0..(n - 1) /\ n - (n - 1) = 1 /\ 0..(n - 1) \subseteq Nat
    BY <1>1, <1>2
  <2>2. n - 1 \in D
    <3> HIDE DEF n, b, Below
    <3> QED BY <1>2, <1>3, <2>1
  <2> HIDE DEF n, b, Below
  <2> QED BY <2>1, <2>2
<1>7. PICK k \in D : \A l \in D : k <= l
  <2> HIDE DEF D
  <2> QED BY <1>6, Smallest
<1> DEFINE i == n - k
<1>8. i \in 1..n /\ k \in 0..(n - 1) /\ (i = n <=> k = 0)
  <2> HIDE DEF b, Below
  <2>1. k \in 0..(n - 1)
    BY <1>7
  <2> QED BY <1>1, <2>1
<1>9. PICK a \in Ancestors(ch.segs[i].sha), y \in Paths : b = BlobAt[a][y]
  BY <1>7
<1>10. CASE i = n
  <2>1. ch.segs[i].base = None
    BY <1>2, <1>8, <1>10
  <2>2. a \in Contents(ch.segs[i])
    BY <2>1 DEF Contents
  <2>3. b \notin {BlobAt[e][z] : e \in IF ch.segs[i].base = None THEN {} ELSE Ancestors(ch.segs[i].base), z \in Paths}
    BY <2>1
  <2>4. b \in {BlobAt[e][z] : e \in Contents(ch.segs[i]), z \in Paths}
    BY <1>9, <2>2
  <2>5. b \in BlobsIn(ch.segs[i])
    <3> HIDE DEF b, i
    <3> QED BY <2>3, <2>4 DEF BlobsIn
  <2> HIDE DEF i, D, Below
  <2> QED BY <1>8, <2>5, Zenon
<1>11. CASE i # n
  <2>1. k - 1 \in 0..(n - 1) /\ n - (k - 1) = i + 1 /\ ~(k <= k - 1)
    BY <1>1, <1>8, <1>11
  <2>2. k - 1 \notin D
    <3> HIDE DEF D
    <3> QED BY <1>7, <2>1
  <2>3. b \notin Below(ch.segs[i + 1].sha)
    <3> HIDE DEF b, Below, n, i
    <3> QED BY <2>1, <2>2
  <2>4. ch.segs[i].base = ch.segs[i + 1].sha /\ ch.segs[i + 1].sha \in Commits
    <3>1. i + 1 \in 1..n
      BY <1>1, <1>8, <1>11
    <3>2. ch.segs[i + 1] \in Packs
      BY <1>4, <3>1
    <3>3. ch.segs[i + 1].sha \in Commits
      <4> DEFINE o == ch.segs[i + 1]
      <4>1. \A q \in Packs : q.sha \in Commits
        BY DEF Packs, Pack
      <4> QED BY <3>2, <4>1
    <3> QED BY <1>2, <1>8, <1>11, <3>3
  <2>5. a \notin Ancestors(ch.segs[i].base)
    BY <1>9, <2>3, <2>4
  <2>6. a \in Contents(ch.segs[i])
    BY <2>5 DEF Contents
  <2>7. b \notin {BlobAt[e][z] : e \in IF ch.segs[i].base = None THEN {} ELSE Ancestors(ch.segs[i].base), z \in Paths}
    BY <2>3, <2>4
  <2>8. b \in {BlobAt[e][z] : e \in Contents(ch.segs[i]), z \in Paths}
    BY <1>9, <2>6
  <2>9. b \in BlobsIn(ch.segs[i])
    BY <2>7, <2>8 DEF BlobsIn
  <2> QED BY <1>8, <2>9
<1> QED BY <1>10, <1>11


-----------------------------------------------------------------------------
(* The path index.                                                         *)

\* The trees from a tree downwards.
Whole(A) == \A t \in A : Kids(t) \subseteq A

Under(t) == {d \in DOMAIN Trees : \A A \in SUBSET DOMAIN Trees : Whole(A) /\ t \in A => d \in A}

LEMMA UnderWhole ==
  ASSUME GitTrees, NEW t \in DOMAIN Trees
  PROVE  t \in Under(t) /\ Whole(Under(t))
BY DEF Under, Whole, GitTrees

LEMMA UnderKid ==
  ASSUME GitTrees, NEW t \in DOMAIN Trees, NEW k \in Kids(t)
  PROVE  k \in Under(t) /\ Under(k) \subseteq Under(t)
<1>1. k \in Under(t) /\ Under(t) \in SUBSET DOMAIN Trees /\ Whole(Under(t))
  BY UnderWhole DEF Whole, Under
<1> QED BY <1>1 DEF Under

LEMMA UnderSplit ==
  ASSUME GitTrees, NEW t \in DOMAIN Trees, NEW d \in Under(t), d # t
  PROVE  \E k \in Kids(t) : d \in Under(k)
<1> DEFINE A == {t} \cup {e \in DOMAIN Trees : \E k \in Kids(t) : e \in Under(k)}
<1>1. Kids(t) \subseteq DOMAIN Trees
  BY DEF GitTrees
<1>2. Whole(A)
  <2> SUFFICES ASSUME NEW s \in A, NEW k \in Kids(s) PROVE k \in A
    BY DEF Whole
  <2>1. k \in DOMAIN Trees
    BY <1>1 DEF GitTrees
  <2>2. CASE s = t
    BY <1>1, <2>1, <2>2, UnderWhole
  <2>3. CASE s # t
    <3>1. PICK j \in Kids(t) : s \in Under(j)
      BY <2>3
    <3>2. k \in Under(j)
      BY <1>1, <3>1, UnderWhole DEF Whole
    <3> QED BY <2>1, <3>2
  <2> QED BY <2>2, <2>3
<1>3. A \in SUBSET DOMAIN Trees /\ t \in A
  OBVIOUS
<1>4. d \in A
  <2> HIDE DEF A
  <2> QED BY <1>2, <1>3 DEF Under
<1> QED BY <1>4

\* No tree is below itself.
LEMMA NoLoop ==
  ASSUME GitTrees, NEW t \in DOMAIN Trees, NEW k \in Kids(t)
  PROVE  t \notin Under(k)
<1> SUFFICES ASSUME t \in Under(k) PROVE FALSE
  OBVIOUS
<1> DEFINE S == {s \in Under(k) : t \in Under(s)}
<1>1. k \in DOMAIN Trees
  BY DEF GitTrees
<1>2. k \in S /\ S \subseteq DOMAIN Trees
  BY <1>1, UnderWhole DEF Under
<1>3. PICK s \in S : Kids(s) \cap S = {}
  <2> HIDE DEF S
  <2> QED BY <1>2 DEF GitTrees
<1>4. s \in DOMAIN Trees /\ s \in Under(k) /\ t \in Under(s) /\ Kids(s) \subseteq Under(k)
  BY <1>1, <1>2, <1>3, UnderWhole DEF Whole
<1>5. CASE s = t
  BY <1>2, <1>3, <1>5
<1>6. CASE s # t
  <2>1. PICK j \in Kids(s) : t \in Under(j)
    BY <1>4, <1>6, UnderSplit
  <2>2. j \in S
    BY <1>4, <2>1
  <2> QED BY <1>3, <2>1, <2>2
<1> QED BY <1>5, <1>6

\* The check for cycles in walk_tree finds none.
IsCheck(c) ==
  c = [t \in DOMAIN Trees |-> [above \in SUBSET DOMAIN Trees |->
         t \in above \/ \E n \in Subtrees(t) : c[Trees[t][n].id][above \cup {t}]]]

Check == CHOOSE c : IsCheck(c)

LEMMA CheckIs == \A root : Cyclic(root) = Check[root][{}]
BY DEF Cyclic, Check, IsCheck

LEMMA KidOf == \A t, n : n \in Subtrees(t) => Trees[t][n].id \in Kids(t)
BY DEF Kids

LEMMA CheckExists ==
  ASSUME GitTrees
  PROVE  IsCheck(Check)
<1> DEFINE c == [t \in DOMAIN Trees |-> [above \in SUBSET DOMAIN Trees |-> Under(t) \cap above # {}]]
<1>1. ASSUME NEW t \in DOMAIN Trees, NEW above \in SUBSET DOMAIN Trees
      PROVE  (Under(t) \cap above # {}) <=>
               (t \in above \/ \E n \in Subtrees(t) : c[Trees[t][n].id][above \cup {t}])
  <2>1. \A n \in Subtrees(t) : Trees[t][n].id \in DOMAIN Trees
    BY KidOf DEF GitTrees
  <2>2. \A n \in Subtrees(t) :
          c[Trees[t][n].id][above \cup {t}] <=> Under(Trees[t][n].id) \cap (above \cup {t}) # {}
    BY <2>1
  <2> HIDE DEF c
  <2>3. ASSUME NEW d \in Under(t) \cap above, t \notin above
        PROVE  \E n \in Subtrees(t) : c[Trees[t][n].id][above \cup {t}]
    <3>1. PICK k \in Kids(t) : d \in Under(k)
      BY <2>3, UnderSplit
    <3>2. PICK n \in Subtrees(t) : k = Trees[t][n].id
      BY DEF Kids
    <3>3. Under(k) \cap (above \cup {t}) # {}
      BY <2>3, <3>1
    <3> QED BY <2>2, <3>2, <3>3
  <2>4. ASSUME NEW n \in Subtrees(t), c[Trees[t][n].id][above \cup {t}]
        PROVE  Under(t) \cap above # {}
    <3>1. PICK d : d \in Under(Trees[t][n].id) /\ d \in above \cup {t}
      BY <2>2, <2>4
    <3>2. Trees[t][n].id \in Kids(t)
      BY KidOf
    <3>3. d # t
      BY <3>1, <3>2, NoLoop
    <3>4. d \in Under(t)
      BY <3>1, <3>2, UnderKid
    <3> QED BY <3>1, <3>3, <3>4
  <2>5. t \in above => Under(t) \cap above # {}
    BY UnderWhole
  <2> QED BY <2>3, <2>4, <2>5
<1>2. IsCheck(c)
  BY <1>1 DEF IsCheck
<1> HIDE DEF c
<1> QED BY <1>2 DEF Check

LEMMA CheckAt ==
  ASSUME NEW c, IsCheck(c), NEW t \in DOMAIN Trees, NEW above \in SUBSET DOMAIN Trees
  PROVE  c[t][above] = (t \in above \/ \E n \in Subtrees(t) : c[Trees[t][n].id][above \cup {t}])
<1> DEFINE F(s) == [a \in SUBSET DOMAIN Trees |->
                     s \in a \/ \E n \in Subtrees(s) : c[Trees[s][n].id][a \cup {s}]]
<1>1. c = [s \in DOMAIN Trees |-> F(s)]
  BY Zenon DEF IsCheck
<1>2. c[t] = F(t)
  <2> HIDE DEF F
  <2> QED BY <1>1
<1>3. F(t)[above] = (t \in above \/ \E n \in Subtrees(t) : c[Trees[t][n].id][above \cup {t}])
  OBVIOUS
<1> HIDE DEF F
<1> QED BY <1>2, <1>3

LEMMA NoCycle ==
  ASSUME GitTrees, NEW root \in DOMAIN Trees
  PROVE  ~Cyclic(root)
<1> DEFINE S == {t \in DOMAIN Trees : \E above \in SUBSET DOMAIN Trees :
                   Under(t) \cap above = {} /\ Check[t][above]}
<1>1. ASSUME NEW t \in S, Kids(t) \cap S = {} PROVE FALSE
  <2>1. PICK above \in SUBSET DOMAIN Trees : Under(t) \cap above = {} /\ Check[t][above]
    OBVIOUS
  <2>2. Check[t][above] = (t \in above \/ \E n \in Subtrees(t) : Check[Trees[t][n].id][above \cup {t}])
    BY CheckExists, CheckAt
  <2>3. PICK n \in Subtrees(t) : Check[Trees[t][n].id][above \cup {t}]
    BY <2>1, <2>2, UnderWhole
  <2> DEFINE k == Trees[t][n].id
  <2>4. k \in Kids(t) /\ k \in DOMAIN Trees
    BY KidOf DEF GitTrees
  <2>5. Under(k) \cap (above \cup {t}) = {}
    BY <2>1, <2>4, UnderKid, NoLoop
  <2>6. k \in S
    BY <2>3, <2>4, <2>5
  <2> QED BY <1>1, <2>4, <2>6
<1>2. S = {}
  <2>1. S \in SUBSET DOMAIN Trees
    OBVIOUS
  <2> HIDE DEF S
  <2> QED BY <1>1, <2>1 DEF GitTrees
<1>3. ~Check[root][{}]
  BY <1>2
<1> QED BY <1>3, CheckIs

\* walk_tree, with the recursive function taken apart.
WalkNode(w, entry, sub) ==
  IF sub THEN [kind |-> "tree", sub |-> w[entry.id]] ELSE [kind |-> "blob", sub |-> entry.id]

Listing(t) == {n \in DOMAIN Trees[t] : Trees[t][n].kind # "commit"}

Row(w, t) == [n \in Listing(t) |-> WalkNode(w, Trees[t][n], n \in Subtrees(t))]

IsWalk(w, A) == w = [t \in A |-> Row(w, t)]

Walk == CHOOSE w : IsWalk(w, DOMAIN Trees)

LEMMA WalkIs == \A root : walk_tree(root) = Walk[root]
BY DEF walk_tree, Walk, IsWalk, Row, Listing, WalkNode

LEMMA RowSame ==
  ASSUME NEW t, NEW v, NEW w, \A k \in Kids(t) : v[k] = w[k]
  PROVE  Row(v, t) = Row(w, t)
<1>1. \A n \in Listing(t) : WalkNode(v, Trees[t][n], n \in Subtrees(t)) = WalkNode(w, Trees[t][n], n \in Subtrees(t))
  BY KidOf DEF WalkNode
<1> QED BY <1>1 DEF Row

LEMMA WalkExists ==
  ASSUME GitTrees
  PROVE  IsWalk(Walk, DOMAIN Trees)
<1> DEFINE D == DOMAIN Trees
           Left == {B \in SUBSET D : Whole(D \ B) /\ \E w : IsWalk(w, D \ B)}
<1>1. D \in Left
  <2>1. D \ D = {} /\ Whole({})
    BY DEF Whole
  <2> DEFINE w == [t \in {} |-> 0]
  <2>2. w = [t \in {} |-> Row(w, t)]
    OBVIOUS
  <2> HIDE DEF w
  <2> QED BY <2>1, <2>2 DEF IsWalk
<1>2. PICK B \in Left : \A C \in Left : C \subseteq B => C = B
  <2>1. IsFiniteSet(D) /\ Left \subseteq SUBSET D /\ Left # {}
    BY <1>1 DEF GitTrees
  <2> HIDE DEF D, Left
  <2> QED BY <2>1, Innermost
<1>3. PICK w : IsWalk(w, D \ B)
  BY <1>2
<1>4. B = {}
  <2> SUFFICES ASSUME B # {} PROVE FALSE
    OBVIOUS
  <2>1. PICK t \in B : Kids(t) \cap B = {}
    BY <1>2 DEF GitTrees
  <2> DEFINE A == D \ (B \ {t})
             v == [s \in A |-> IF s = t THEN Row(w, t) ELSE w[s]]
  <2>2. B \subseteq D /\ Whole(D \ B) /\ t \in D /\ Kids(t) \subseteq D \ B
    BY <1>2, <2>1 DEF GitTrees
  <2>3. \A s \in A : s = t \/ s \in D \ B
    OBVIOUS
  <2>4. \A s \in A : Kids(s) \subseteq D \ B
    BY <2>2, <2>3 DEF Whole
  <2>5. \A k \in D \ B : v[k] = w[k]
    BY <2>1
  <2>6. \A s \in A : Row(v, s) = Row(w, s)
    <3> HIDE DEF v, A, D
    <3> QED BY <2>4, <2>5, RowSame
  <2>7. \A s \in D \ B : w[s] = Row(w, s)
    BY <1>3 DEF IsWalk
  <2>8. \A s \in A : (IF s = t THEN Row(w, t) ELSE w[s]) = Row(v, s)
    <3> HIDE DEF v, A, D
    <3> QED BY <2>3, <2>6, <2>7
  <2>9. v = [s \in A |-> Row(v, s)]
    <3>1. v = [s \in A |-> IF s = t THEN Row(w, t) ELSE w[s]]
      OBVIOUS
    <3> HIDE DEF v, A
    <3> QED BY <2>8, <3>1
  <2>10. Whole(A)
    BY <2>4 DEF Whole
  <2>11. B \ {t} \in Left
    <3> HIDE DEF v
    <3> QED BY <2>2, <2>9, <2>10 DEF IsWalk
  <2> HIDE DEF Left, v, A, D
  <2> QED BY <1>2, <2>1, <2>11
<1>5. D \ B = DOMAIN Trees
  BY <1>4
<1> HIDE DEF D, Left
<1> QED BY <1>3, <1>5 DEF Walk

\* What the walk makes of an entry.
EntryNode(e) ==
  IF e.kind = "tree" THEN [kind |-> "tree", sub |-> Walk[e.id]] ELSE [kind |-> "blob", sub |-> e.id]

LEMMA WalkAt ==
  ASSUME GitTrees, NEW t \in DOMAIN Trees
  PROVE  /\ DOMAIN Walk[t] = Listing(t)
         /\ \A n \in Listing(t) : Walk[t][n] = EntryNode(Trees[t][n])
<1>1. Walk[t] = Row(Walk, t)
  <2> DEFINE w == Walk
  <2>1. IsWalk(w, DOMAIN Trees)
    BY WalkExists
  <2> HIDE DEF w
  <2>2. w[t] = Row(w, t)
    BY <2>1 DEF IsWalk
  <2> QED BY <2>2 DEF w
<1>2. \A n \in Listing(t) : n \in Subtrees(t) <=> Trees[t][n].kind = "tree"
  BY DEF Listing, Subtrees
<1> QED BY <1>1, <1>2 DEF Row, WalkNode, EntryNode

\* walk_path, name by name.
Descend(node, name) ==
  IF node.kind = "tree" /\ name \in DOMAIN node.sub THEN node.sub[name] ELSE [kind |-> "none"]

IsDescent(f, nodes, path, m) ==
  f = [k \in 0..m |-> IF k = 0 THEN [kind |-> "tree", sub |-> nodes] ELSE Descend(f[k - 1], path[k])]

LEMMA DescentAt ==
  ASSUME NEW f, NEW nodes, NEW path, NEW m \in Nat, IsDescent(f, nodes, path, m)
  PROVE  /\ f[0] = [kind |-> "tree", sub |-> nodes]
         /\ \A k \in 1..m : f[k] = Descend(f[k - 1], path[k])
<1>1. 0 \in 0..m /\ \A k \in 1..m : k \in 0..m /\ k # 0
  OBVIOUS
<1> QED BY <1>1 DEF IsDescent

LEMMA DescentExists ==
  ASSUME NEW nodes, NEW path, NEW m \in Nat
  PROVE  \E f : IsDescent(f, nodes, path, m)
<1> DEFINE T == {k \in Nat : ~\E f : IsDescent(f, nodes, path, k)}
           top == [kind |-> "tree", sub |-> nodes]
<1>1. SUFFICES ASSUME T # {} PROVE FALSE
  OBVIOUS
<1>2. PICK k \in T : \A j \in T : k <= j
  <2>1. T \subseteq Nat
    OBVIOUS
  <2> HIDE DEF T
  <2> QED BY <1>1, <2>1, Smallest
<1>3. CASE k = 0
  <2> DEFINE f == [j \in 0..0 |-> top]
  <2>1. \A j \in 0..0 : j = 0
    OBVIOUS
  <2>2. f = [j \in 0..0 |-> IF j = 0 THEN top ELSE Descend(f[j - 1], path[j])]
    <3>1. f = [j \in 0..0 |-> top]
      OBVIOUS
    <3> HIDE DEF f, top
    <3> QED BY <2>1, <3>1
  <2> HIDE DEF f
  <2> QED BY <1>2, <1>3, <2>2 DEF IsDescent
<1>4. CASE k # 0
  <2>1. k - 1 \in Nat /\ ~(k <= k - 1)
    BY <1>2, <1>4
  <2>2. PICK g : IsDescent(g, nodes, path, k - 1)
    BY <1>2, <2>1
  <2> DEFINE f == [j \in 0..k |-> IF j = k THEN Descend(g[k - 1], path[k]) ELSE g[j]]
  <2>3. \A j \in 0..k : j # k => f[j] = g[j]
    OBVIOUS
  <2>4. \A j \in 0..(k - 1) : g[j] = IF j = 0 THEN top ELSE Descend(g[j - 1], path[j])
    BY <2>2 DEF IsDescent
  <2>5. \A j \in 0..k : j # 0 => j - 1 \in 0..k /\ j - 1 # k
    BY <1>2
  <2>6. \A j \in 0..k : j # k => j \in 0..(k - 1)
    BY <1>2
  <2>7. \A j \in 0..k : (IF j = k THEN Descend(g[k - 1], path[k]) ELSE g[j])
                          = IF j = 0 THEN top ELSE Descend(f[j - 1], path[j])
    <3> SUFFICES ASSUME NEW j \in 0..k
                 PROVE (IF j = k THEN Descend(g[k - 1], path[k]) ELSE g[j])
                          = IF j = 0 THEN top ELSE Descend(f[j - 1], path[j])
      OBVIOUS
    <3> HIDE DEF f, top
    <3>1. j # 0 => f[j - 1] = g[j - 1]
      BY <2>3, <2>5
    <3> QED BY <1>4, <2>4, <2>6, <3>1
  <2>8. f = [j \in 0..k |-> IF j = 0 THEN top ELSE Descend(f[j - 1], path[j])]
    <3>1. f = [j \in 0..k |-> IF j = k THEN Descend(g[k - 1], path[k]) ELSE g[j]]
      OBVIOUS
    <3> HIDE DEF f, top
    <3> QED BY <2>7, <3>1
  <2> HIDE DEF f
  <2>9. IsDescent(f, nodes, path, k)
    BY <2>8 DEF IsDescent
  <2> QED BY <1>2, <2>9
<1> QED BY <1>3, <1>4

\* walk_path goes down from name to name.
LEMMA WalkPathIs ==
  ASSUME NEW nodes, NEW path, Len(path) \in Nat
  PROVE  \E f : /\ IsDescent(f, nodes, path, Len(path))
                /\ walk_path(nodes, path) = LET last == f[Len(path)]
                                            IN CASE last.kind = "none" -> "absent"
                                                 [] last.kind = "tree" -> "tree"
                                                 [] OTHER              -> last.sub
<1> DEFINE f == CHOOSE f : IsDescent(f, nodes, path, Len(path))
<1>1. IsDescent(f, nodes, path, Len(path))
  BY DescentExists
<1>2. walk_path(nodes, path) = LET last == f[Len(path)]
                               IN CASE last.kind = "none" -> "absent"
                                    [] last.kind = "tree" -> "tree"
                                    [] OTHER              -> last.sub
  BY DEF walk_path, IsDescent, Descend
<1> HIDE DEF f
<1> QED BY <1>1, <1>2

\* The first k names of a path, with the root before the first.
Above(root, e, k) == IF k = 0 THEN [kind |-> "tree", id |-> root] ELSE e[k]

LeadsTo(root, path, e, k) ==
  \A j \in 1..k : /\ Above(root, e, j - 1).kind = "tree"
                  /\ path[j] \in DOMAIN Trees[Above(root, e, j - 1).id]
                  /\ e[j] = Trees[Above(root, e, j - 1).id][path[j]]

LEMMA LeadsIs ==
  ASSUME NEW root, NEW path, NEW e, Len(path) \in Nat
  PROVE  Leads(root, path, e) <=> LeadsTo(root, path, e, Len(path))
<1>1. \A j \in 1..Len(path) :
        Above(root, e, j - 1) = IF j = 1 THEN [kind |-> "tree", id |-> root] ELSE e[j - 1]
  BY DEF Above
<1>2. \A j \in 1..Len(path) :
        /\ Above(root, e, j - 1).kind = "tree" <=> (j # 1 => e[j - 1].kind = "tree")
        /\ Above(root, e, j - 1).id = IF j = 1 THEN root ELSE e[j - 1].id
  BY <1>1
<1> QED BY <1>2 DEF Leads, LeadsTo

\* An entry of kind tree names a tree.
LEMMA TreeEntry ==
  ASSUME GitTrees, NEW e \in TreeEntries, e.kind = "tree"
  PROVE  e.id \in DOMAIN Trees
<1>0. PICK t \in DOMAIN Trees : e \in {Trees[t][n] : n \in DOMAIN Trees[t]}
  BY DEF TreeEntries
<1>1. PICK n \in DOMAIN Trees[t] : e = Trees[t][n]
  BY <1>0
<1>2. n \in Subtrees(t)
  BY <1>1 DEF Subtrees
<1> QED BY <1>1, <1>2, KidOf DEF GitTrees

\* One name further, the search finds the node of the entry.
LEMMA DescendTo ==
  ASSUME GitTrees, NEW t \in DOMAIN Trees, NEW a, a.kind = "tree", a.id = t,
         NEW name \in DOMAIN Trees[t], Trees[t][name].kind # "commit"
  PROVE  Descend(EntryNode(a), name) = EntryNode(Trees[t][name])
<1>1. EntryNode(a).kind = "tree" /\ EntryNode(a).sub = Walk[t]
  BY DEF EntryNode
<1>2. name \in Listing(t)
  BY DEF Listing
<1> QED BY <1>1, <1>2, WalkAt DEF Descend

\* What git finds is what the search finds.
LEMMA SearchFinds ==
  ASSUME GitTrees, NEW root \in DOMAIN Trees, NEW path, NEW n \in Nat \ {0},
         NEW f, IsDescent(f, Walk[root], path, n),
         NEW e \in [1..n -> TreeEntries], LeadsTo(root, path, e, n), e[n].kind # "commit"
  PROVE  f[n] = EntryNode(e[n])
<1> DEFINE T == {k \in 0..n : f[k] # EntryNode(Above(root, e, k))}
<1>1. SUFFICES ASSUME T # {} PROVE FALSE
  <2>1. n \in 0..n /\ Above(root, e, n) = e[n]
    BY DEF Above
  <2> QED BY <1>1, <2>1
<1>2. PICK k \in T : \A j \in T : k <= j
  <2>1. T \subseteq Nat
    OBVIOUS
  <2> HIDE DEF T
  <2> QED BY <1>1, <2>1, Smallest
<1>3. /\ f[0] = [kind |-> "tree", sub |-> Walk[root]]
      /\ \A j \in 1..n : f[j] = Descend(f[j - 1], path[j])
  BY DescentAt
<1>4. k # 0
  <2>1. EntryNode(Above(root, e, 0)) = [kind |-> "tree", sub |-> Walk[root]]
    BY DEF EntryNode, Above
  <2> QED BY <1>2, <1>3, <2>1
<1> DEFINE a == Above(root, e, k - 1)
<1>5. k \in 1..n /\ k - 1 \in 0..n /\ ~(k <= k - 1)
  BY <1>2, <1>4
<1>6. f[k - 1] = EntryNode(a)
  BY <1>2, <1>5
<1>7. a.kind = "tree" /\ path[k] \in DOMAIN Trees[a.id] /\ e[k] = Trees[a.id][path[k]]
  BY <1>5 DEF LeadsTo
<1>8. a.id \in DOMAIN Trees
  <2>1. CASE k = 1
    BY <2>1 DEF Above
  <2>2. CASE k # 1
    <3>1. k - 1 \in 1..n /\ a = e[k - 1]
      BY <1>5, <2>2 DEF Above
    <3> HIDE DEF a
    <3> QED BY <1>7, <3>1, TreeEntry
  <2> QED BY <2>1, <2>2
<1>9. e[k].kind # "commit"
  <2>1. CASE k = n
    BY <2>1
  <2>2. CASE k # n
    <3>1. k + 1 \in 1..n /\ (k + 1) - 1 = k
      BY <1>5, <2>2
    <3>2. Above(root, e, k).kind = "tree"
      BY <3>1 DEF LeadsTo
    <3> QED BY <1>4, <3>2 DEF Above
  <2> QED BY <2>1, <2>2
<1>10. f[k] = EntryNode(e[k])
  <2> HIDE DEF a, T
  <2> QED BY <1>3, <1>5, <1>6, <1>7, <1>8, <1>9, DescendTo
<1>11. Above(root, e, k) = e[k]
  BY <1>4 DEF Above
<1> QED BY <1>2, <1>10, <1>11

\* A search that has failed does not recover.
LEMMA SearchFails ==
  ASSUME NEW nodes, NEW path, NEW n \in Nat, NEW f, IsDescent(f, nodes, path, n),
         NEW k \in 0..n, k # n, f[k].kind # "tree"
  PROVE  f[n].kind = "none"
<1>0. /\ f[0] = [kind |-> "tree", sub |-> nodes]
      /\ \A i \in 1..n : f[i] = Descend(f[i - 1], path[i])
  BY DescentAt
<1> DEFINE T == {j \in (k + 1)..n : f[j].kind # "none"}
<1>1. SUFFICES ASSUME T # {} PROVE FALSE
  <2>1. n \in (k + 1)..n
    OBVIOUS
  <2> QED BY <1>1, <2>1
<1>2. PICK j \in T : \A i \in T : j <= i
  <2>1. T \subseteq Nat
    OBVIOUS
  <2> HIDE DEF T
  <2> QED BY <1>1, <2>1, Smallest
<1>3. j \in (k + 1)..n /\ j \in 1..n /\ ~(j <= j - 1) /\ (j = k + 1 \/ j - 1 \in (k + 1)..n)
  BY <1>2
<1>4. f[j] = Descend(f[j - 1], path[j])
  BY <1>0, <1>3
<1>5. f[j - 1].kind # "tree"
  <2>1. CASE j = k + 1
    <3>1. j - 1 = k
      BY <2>1
    <3> QED BY <3>1
  <2>2. CASE j - 1 \in (k + 1)..n
    <3>1. j - 1 \notin T
      <4> HIDE DEF T
      <4> QED BY <1>2, <1>3
    <3>2. f[j - 1].kind = "none"
      BY <2>2, <3>1
    <3> QED BY <3>2
  <2> QED BY <1>3, <2>1, <2>2
<1>6. f[j].kind = "none"
  BY <1>4, <1>5 DEF Descend
<1> QED BY <1>2, <1>6

\* What the search finds is what git finds.
Trailed(root, path, n, node) ==
  \E e \in [1..n -> TreeEntries] :
    LeadsTo(root, path, e, n) /\ e[n].kind # "commit" /\ node = EntryNode(e[n])

LEMMA SearchSound ==
  ASSUME GitTrees, NEW root \in DOMAIN Trees, NEW path, NEW n \in Nat \ {0},
         NEW f, IsDescent(f, Walk[root], path, n), f[n].kind # "none"
  PROVE  Trailed(root, path, n, f[n])
<1> DEFINE Good(k, e) == /\ LeadsTo(root, path, e, k)
                         /\ Above(root, e, k).kind # "commit" /\ f[k] = EntryNode(Above(root, e, k))
           T == {k \in 0..n : ~\E e \in [1..k -> TreeEntries] : Good(k, e)}
<1>1. SUFFICES ASSUME T # {} PROVE FALSE
  <2>1. n \in 0..n /\ \A e : Above(root, e, n) = e[n]
    BY DEF Above
  <2>2. n \notin T
    BY <1>1
  <2>3. PICK e \in [1..n -> TreeEntries] : Good(n, e)
    BY <2>1, <2>2
  <2> QED BY <2>1, <2>3 DEF Trailed
<1>2. PICK k \in T : \A j \in T : k <= j
  <2>1. T \subseteq Nat
    OBVIOUS
  <2> HIDE DEF T
  <2> QED BY <1>1, <2>1, Smallest
<1>3. /\ f[0] = [kind |-> "tree", sub |-> Walk[root]]
      /\ \A j \in 1..n : f[j] = Descend(f[j - 1], path[j])
  BY DescentAt
<1>4. k # 0
  <2> DEFINE e == [j \in 1..0 |-> 0]
  <2>1. e \in [1..0 -> TreeEntries]
    OBVIOUS
  <2> HIDE DEF e
  <2>2. LeadsTo(root, path, e, 0)
    BY DEF LeadsTo
  <2>3. Above(root, e, 0).kind = "tree" /\ EntryNode(Above(root, e, 0)) = [kind |-> "tree", sub |-> Walk[root]]
    BY DEF Above, EntryNode
  <2>4. Good(0, e)
    BY <1>3, <2>2, <2>3
  <2> QED BY <1>2, <2>1, <2>4
<1>5. k \in 1..n /\ k - 1 \in 0..n /\ ~(k <= k - 1) /\ k - 1 \in Nat
  BY <1>2, <1>4
<1>6. PICK g \in [1..(k - 1) -> TreeEntries] : Good(k - 1, g)
  <2>1. k - 1 \notin T
    <3> HIDE DEF T
    <3> QED BY <1>2, <1>5
  <2> QED BY <1>5, <2>1
<1> DEFINE a == Above(root, g, k - 1)
           t == a.id
           x == Trees[t][path[k]]
           e == [j \in 1..k |-> IF j = k THEN x ELSE g[j]]
<1>7. f[k] = Descend(EntryNode(a), path[k]) /\ LeadsTo(root, path, g, k - 1) /\ a.kind # "commit"
  BY <1>3, <1>5, <1>6
<1>8. f[k].kind # "none" /\ f[k - 1].kind = "tree"
  <2>1. k # n => f[k].kind = "tree"
    BY <1>5, SearchFails
  <2>2. k - 1 # n /\ k - 1 \in 0..n
    BY <1>5
  <2>3. f[k - 1].kind = "tree"
    <3> PICK h \in 0..n : h = k - 1
      BY <2>2
    <3>1. h # n => f[h].kind = "tree"
      BY SearchFails
    <3> QED BY <2>2, <3>1
  <2> QED BY <2>1, <2>3
<1>9. a.kind = "tree"
  BY <1>6, <1>8 DEF EntryNode
<1>10. t \in DOMAIN Trees
  <2>1. CASE k = 1
    BY <2>1 DEF Above
  <2>2. CASE k # 1
    <3>1. k - 1 \in 1..(k - 1) /\ a = g[k - 1]
      BY <1>5, <2>2 DEF Above
    <3>2. a \in TreeEntries
      BY <1>6, <3>1
    <3> HIDE DEF a
    <3> QED BY <1>9, <3>2, TreeEntry
  <2> QED BY <2>1, <2>2
<1>11. path[k] \in Listing(t)
  <2>1. EntryNode(a).sub = Walk[t]
    BY <1>9 DEF EntryNode
  <2> HIDE DEF a, t
  <2>2. path[k] \in DOMAIN Walk[t]
    BY <1>7, <1>8, <2>1 DEF Descend
  <2> QED BY <1>10, <2>2, WalkAt
<1>12. x.kind # "commit" /\ path[k] \in DOMAIN Trees[t] /\ x \in TreeEntries
  BY <1>10, <1>11 DEF Listing, TreeEntries
<1>13. f[k] = EntryNode(x)
  <2> HIDE DEF a
  <2> QED BY <1>7, <1>9, <1>10, <1>12, DescendTo
<1>14. e \in [1..k -> TreeEntries] /\ e[k] = x /\ \A j \in 1..(k - 1) : e[j] = g[j]
  <2>1. \A j \in 1..k : j # k => j \in 1..(k - 1)
    BY <1>5
  <2>2. \A j \in 1..(k - 1) : j \in 1..k /\ j # k
    BY <1>5
  <2> HIDE DEF x
  <2>3. \A j \in 1..k : (IF j = k THEN x ELSE g[j]) \in TreeEntries
    BY <1>6, <1>12, <2>1
  <2> QED BY <1>5, <2>2, <2>3
<1>15. \A j \in 0..(k - 1) : Above(root, e, j) = Above(root, g, j)
  <2> HIDE DEF e
  <2> QED BY <1>5, <1>14 DEF Above
<1>16. LeadsTo(root, path, e, k)
  <2> SUFFICES ASSUME NEW j \in 1..k
               PROVE  /\ Above(root, e, j - 1).kind = "tree"
                      /\ path[j] \in DOMAIN Trees[Above(root, e, j - 1).id]
                      /\ e[j] = Trees[Above(root, e, j - 1).id][path[j]]
    BY DEF LeadsTo
  <2>1. j - 1 \in 0..(k - 1)
    BY <1>5
  <2>2. CASE j = k
    <3>1. Above(root, e, j - 1) = a
      BY <1>15, <2>1, <2>2
    <3> HIDE DEF a, e
    <3> QED BY <1>9, <1>12, <1>14, <2>2, <3>1
  <2>3. CASE j # k
    <3>1. j \in 1..(k - 1)
      BY <1>5, <2>3
    <3> HIDE DEF a, e
    <3> QED BY <1>7, <1>14, <1>15, <2>1, <3>1 DEF LeadsTo
  <2> QED BY <2>2, <2>3
<1>17. Above(root, e, k) = x
  BY <1>4, <1>14 DEF Above
<1>18. Good(k, e)
  <2> HIDE DEF e, x
  <2> QED BY <1>12, <1>13, <1>16, <1>17
<1>19. k \notin T
  <2> HIDE DEF Good, e
  <2> QED BY <1>14, <1>18
<1> QED BY <1>2, <1>19

\* The index has at a path what git finds there, submodules apart.
IndexFinds ==
  \A c \in Commits, x \in Paths : parse_path(x) =>
    /\ IndexAt[c][x] = "absent" => BlobAt[c][x] = None
    /\ IndexAt[c][x] \notin {"absent", "tree"} => BlobAt[c][x] = IndexAt[c][x]

\* The path index that a push writes and read_blob searches has at each path
\* what git finds there, for trees of any depth that share subtrees at will.
LEMMA IndexFound == GitHistory => IndexFinds
<1> SUFFICES ASSUME GitHistory, NEW c \in Commits, NEW p \in Paths, parse_path(p)
             PROVE  /\ IndexAt[c][p] = "absent" => BlobAt[c][p] = None
                    /\ IndexAt[c][p] \notin {"absent", "tree"} => BlobAt[c][p] = IndexAt[c][p]
  BY DEF IndexFinds
<1> DEFINE root == TreeOf[c]
           n == Len(p)
           b == BlobAt[c][p]
<1>1. GitTrees /\ root \in DOMAIN Trees /\ p \in Seq(STRING) /\ GitBlobs(root, p) = {b} \ {None}
  BY DEF GitHistory
<1>2. n \in Nat \ {0}
  <2>1. p # <<>>
    BY DEF parse_path
  <2>2. \A s \in Seq(STRING) : Len(s) \in Nat /\ (Len(s) = 0 => s = <<>>)
    OBVIOUS
  <2> QED BY <1>1, <2>1, <2>2
<1>3. IndexAt[c][p] = walk_path(Walk[root], p)
  <2>1. extract_path_index(root) = Walk[root]
    BY <1>1, NoCycle, WalkIs DEF extract_path_index
  <2>2. IndexAt[c][p] = walk_path(extract_path_index(root), p)
    BY DEF IndexAt
  <2> QED BY <2>1, <2>2
<1>4. PICK f : /\ IsDescent(f, Walk[root], p, n)
               /\ walk_path(Walk[root], p) = LET last == f[n]
                                             IN CASE last.kind = "none" -> "absent"
                                                  [] last.kind = "tree" -> "tree"
                                                  [] OTHER              -> last.sub
  BY <1>2, WalkPathIs
<1> DEFINE found == IndexAt[c][p]
<1>5. /\ f[n].kind = "none" => found = "absent"
      /\ f[n].kind = "tree" => found = "tree"
      /\ f[n].kind \notin {"none", "tree"} => found = f[n].sub
  BY <1>3, <1>4
<1>6. ASSUME b # None PROVE found # "absent"
  <2>1. b \in GitBlobs(root, p)
    BY <1>1, <1>6
  <2>2. PICK e \in [1..n -> TreeEntries] :
          Leads(root, p, e) /\ e[n].kind \notin {"tree", "commit"} /\ b = e[n].id
    BY <2>1 DEF GitBlobs
  <2>3. LeadsTo(root, p, e, n)
    BY <1>2, <2>2, LeadsIs
  <2>4. f[n] = EntryNode(e[n])
    <3>1. IsDescent(f, Walk[root], p, n) /\ e[n].kind # "commit"
      BY <1>4, <2>2
    <3>2. GitTrees /\ root \in DOMAIN Trees
      BY <1>1
    <3> HIDE DEF n, root
    <3> QED BY <1>2, <2>3, <3>1, <3>2, SearchFinds
  <2>5. f[n].kind = "blob" /\ f[n].sub = e[n].id
    BY <2>2, <2>4 DEF EntryNode
  <2>6. e[n] \in TreeEntries
    BY <1>2
  <2>7. e[n].id # "absent"
    BY <1>1, <2>6 DEF GitTrees
  <2> QED BY <1>5, <2>5, <2>7
<1>7. ASSUME found \notin {"absent", "tree"} PROVE b = found
  <2>1. f[n].kind # "none" /\ f[n].kind # "tree"
    BY <1>5, <1>7
  <2>2. Trailed(root, p, n, f[n])
    <3>1. IsDescent(f, Walk[root], p, n)
      BY <1>4
    <3> HIDE DEF n, root
    <3>2. GitTrees /\ root \in DOMAIN Trees
      BY <1>1
    <3> QED BY <1>2, <2>1, <3>1, <3>2, SearchSound
  <2>3. PICK e \in [1..n -> TreeEntries] :
          LeadsTo(root, p, e, n) /\ e[n].kind # "commit" /\ f[n] = EntryNode(e[n])
    BY <2>2 DEF Trailed
  <2>4. e[n].kind # "tree" /\ f[n].sub = e[n].id
    BY <2>1, <2>3 DEF EntryNode
  <2>5. Leads(root, p, e)
    BY <1>2, <2>3, LeadsIs
  <2>6. e[n].id \in GitBlobs(root, p)
    BY <2>4, <2>3, <2>5 DEF GitBlobs
  <2>7. found = e[n].id
    BY <1>5, <2>1, <2>4
  <2> HIDE DEF found
  <2> QED BY <1>1, <2>6, <2>7
<1> QED BY <1>6, <1>7

-----------------------------------------------------------------------------
(* A read.                                                                 *)

Found == {None} \cup {IndexAt[c][x] : c \in Commits, x \in Paths}

BlobReadType ==
  [at : {"idle", "index", "scan", "idx", "entry", "reload", "done"},
   path : Paths \cup {NoBlobRead.path}, tip : Commits \cup {None},
   chain : Manifest \cup {NoChain}, pos : Nat \ {0}, blob : Found, tries : Nat,
   res : {"none", "ok", "pathNotFound", "notInChain", "failed"}]

Searching == {"scan", "idx", "entry"}

\* What a read knows: of its chain, that it is stacked; of the path, from the
\* index on, the blob at the tip that it began with; and of the segments that
\* it has passed, that they do not have the blob.
Knows(s) ==
  /\ Stacked(s.chain)
  /\ s.at # "done" => s.res = "none"
  /\ s.at # "idle" /\ s.at # "done" => s.tip \in Commits /\ s.path \in Paths
  /\ s.at = "index" => parse_path(s.path) /\ s.pos = 1
  /\ IndexFinds /\ s.at \in Searching \cup {"reload"} => s.blob = BlobAt[s.tip][s.path]
  /\ s.at \in {"idx", "entry", "reload"} => s.pos <= Len(s.chain.segs)
  /\ s.at \in Searching => \A j \in 1..Len(s.chain.segs) : j < s.pos => s.blob \notin BlobsIn(s.chain.segs[j])

ReadsOK == rd \in [Readers -> BlobReadType] /\ \A r \in Readers : Knows(rd[r])

ReadInv == TypeInv /\ StackedOK /\ ReadsOK /\ Kept(cache)

\* What ReadIsTip asks of one reader.
Truthful(s, t) ==
  LET ends(result) == s.at # "done" /\ t.res = result IN
  /\ ends("ok") => s.blob = BlobAt[s.tip][s.path]
  /\ ends("pathNotFound") => BlobAt[s.tip][s.path] = None
  /\ ends("notInChain") => ~FastForward([tip |-> s.tip], s.chain.tip)

\* What the proof of a step of a read shows.
GoodReads == ReadsOK' /\ (IndexFinds => \A q \in Readers : Truthful(rd[q], rd'[q]))

\* The record of one reader is replaced.
Becomes(r, s) == rd' = [rd EXCEPT ![r] = s]

LEMMA ReadsMove ==
  ASSUME ReadsOK, NEW r \in Readers, NEW s \in BlobReadType, Knows(s), Becomes(r, s),
         s.at # "done" \/ (IndexFinds => Truthful(rd[r], s))
  PROVE  GoodReads
<1>1. \A q \in Readers : rd'[q] = IF q = r THEN s ELSE rd[q]
  BY DEF Becomes, ReadsOK
<1>2. rd' \in [Readers -> BlobReadType]
  BY DEF Becomes, ReadsOK
<1>3. \A q \in Readers : Knows(rd'[q])
  BY <1>1 DEF ReadsOK
<1>4. ASSUME NEW q \in Readers, IndexFinds PROVE Truthful(rd[q], rd'[q])
  <2>1. CASE q = r /\ s.at = "done"
    BY <1>1, <1>4, <2>1
  <2>2. CASE q # r \/ s.at # "done"
    <3>1. rd[q].at # "done" => rd'[q].res = "none"
      BY <1>1, <2>2 DEF ReadsOK, Knows
    <3> QED BY <3>1 DEF Truthful
  <2> QED BY <2>1, <2>2
<1> QED BY <1>2, <1>3, <1>4 DEF GoodReads, ReadsOK, Knows

LEMMA NoBlobReadType ==
  /\ NoBlobRead \in BlobReadType /\ NoBlobRead.at = "idle" /\ NoBlobRead.chain = NoChain
  /\ NoBlobRead.pos = 1 /\ NoBlobRead.res = "none"
<1>1. /\ NoBlobRead.path = NoBlobRead.path /\ NoBlobRead.at = "idle" /\ NoBlobRead.chain = NoChain
      /\ NoBlobRead.pos = 1 /\ NoBlobRead.res = "none" /\ NoBlobRead.tip = None
      /\ NoBlobRead.blob = None /\ NoBlobRead.tries = 0
      /\ NoBlobRead = [at |-> NoBlobRead.at, path |-> NoBlobRead.path, tip |-> NoBlobRead.tip,
                       chain |-> NoBlobRead.chain, pos |-> NoBlobRead.pos, blob |-> NoBlobRead.blob,
                       tries |-> NoBlobRead.tries, res |-> NoBlobRead.res]
  BY DEF NoBlobRead
<1>2. None \in Found
  BY DEF Found
<1> QED BY <1>1, <1>2 DEF BlobReadType

LEMMA EndedType ==
  ASSUME NEW result
  PROVE  /\ Ended(result) \in BlobReadType /\ Knows(Ended(result)) /\ Ended(result).at = "done"
         /\ Ended(result).res = IF result \in {"ok", "pathNotFound", "notInChain"} THEN result ELSE "failed"
<1> DEFINE res == IF result \in {"ok", "pathNotFound", "notInChain"} THEN result ELSE "failed"
<1>1. res \in {"none", "ok", "pathNotFound", "notInChain", "failed"}
  OBVIOUS
<1>2. Ended(result) = [NoBlobRead EXCEPT !.at = "done", !.res = res]
  BY DEF Ended
<1> HIDE DEF res
<1>3. /\ Ended(result) \in BlobReadType /\ Ended(result).at = "done" /\ Ended(result).res = res
      /\ Ended(result).chain = NoChain
  BY <1>1, <1>2, NoBlobReadType DEF BlobReadType
<1>4. Knows(Ended(result))
  BY <1>3, StackedNone DEF Knows, Searching
<1> QED BY <1>3, <1>4 DEF res

\* A read that ends.
LEMMA EndsMove ==
  ASSUME ReadsOK, NEW r \in Readers, NEW result, ReadEnds(r, result),
         IndexFinds => Truthful(rd[r], Ended(result))
  PROVE  GoodReads
BY EndedType, ReadsMove DEF ReadEnds, Becomes

\* Errors that say nothing of the history.
LEMMA FailsMove ==
  ASSUME ReadsOK, NEW r \in Readers, NEW result, ReadEnds(r, result),
         result \notin {"ok", "pathNotFound", "notInChain"}
  PROVE  GoodReads
<1>1. Ended(result).res = "failed"
  BY EndedType
<1>2. Truthful(rd[r], Ended(result))
  BY <1>1 DEF Truthful
<1> QED BY <1>2, EndsMove

LEMMA ChainMove ==
  ASSUME ReadInv, NEW r \in Readers, ReadChain(r)
  PROVE  GoodReads
<1>1. ReadsOK
  BY DEF ReadInv
<1>2. PICK x \in Paths :
        rd' = [rd EXCEPT ![r] =
                 IF ~parse_path(x) THEN Ended("malformedPath")
                 ELSE IF chain = NoChain THEN Ended("chainAbsent")
                 ELSE [NoBlobRead EXCEPT !.at = "index", !.path = x, !.tip = chain.tip, !.chain = chain]]
  BY DEF ReadChain
<1>3. CASE ~parse_path(x)
  BY <1>1, <1>2, <1>3, FailsMove DEF ReadEnds
<1>4. CASE parse_path(x) /\ chain = NoChain
  <2>1. ReadEnds(r, "chainAbsent")
    BY <1>2, <1>4 DEF ReadEnds
  <2> QED BY <1>1, <2>1, FailsMove
<1>5. CASE parse_path(x) /\ chain # NoChain
  <2> DEFINE s == [NoBlobRead EXCEPT !.at = "index", !.path = x, !.tip = chain.tip, !.chain = chain]
  <2>1. chain \in Manifest /\ chain.tip \in Commits
    BY <1>5 DEF ReadInv, TypeInv, TypeOK, Typed, StoreOK, Manifest
  <2>2. /\ s \in BlobReadType /\ s.at = "index" /\ s.path = x /\ s.tip = chain.tip /\ s.chain = chain
        /\ s.pos = 1 /\ s.res = "none"
    BY <2>1, NoBlobReadType DEF BlobReadType
  <2>3. Becomes(r, s)
    BY <1>2, <1>5 DEF Becomes
  <2> HIDE DEF s
  <2>4. Knows(s)
    BY <1>5, <2>1, <2>2 DEF Knows, Searching, ReadInv, StackedOK
  <2> QED BY <1>1, <2>2, <2>3, <2>4, ReadsMove
<1> QED BY <1>3, <1>4, <1>5

LEMMA IndexMove ==
  ASSUME ReadInv, NEW r \in Readers, ReadIndex(r)
  PROVE  GoodReads
<1> DEFINE x == rd[r].path
           found == IndexAt[index][x]
<1>1. ReadsOK /\ rd[r] \in BlobReadType /\ Knows(rd[r]) /\ rd[r].at = "index"
  BY DEF ReadInv, ReadsOK, ReadIndex
<1>2. rd[r].tip \in Commits /\ x \in Paths /\ parse_path(x) /\ rd[r].pos = 1
  BY <1>1 DEF Knows
<1>3. CASE index = None
  BY <1>1, <1>3, FailsMove DEF ReadIndex
<1>4. CASE index \notin {None, rd[r].tip}
  BY <1>1, <1>4, FailsMove DEF ReadIndex
<1>5. CASE index # None /\ index = rd[r].tip
  <2>1. Walked(r, found)
    BY <1>5 DEF ReadIndex
  <2>2. IndexFinds => /\ found = "absent" => BlobAt[rd[r].tip][x] = None
                      /\ found \notin {"absent", "tree"} => BlobAt[rd[r].tip][x] = found
    BY <1>2, <1>5 DEF IndexFinds
  <2>3. found \in Found
    BY <1>2, <1>5 DEF Found
  <2> HIDE DEF found, x
  <2>4. CASE found = "absent"
    <3>1. ReadEnds(r, "pathNotFound")
      BY <2>1, <2>4 DEF Walked
    <3>2. Ended("pathNotFound").res = "pathNotFound"
      BY EndedType
    <3>3. IndexFinds => Truthful(rd[r], Ended("pathNotFound"))
      BY <2>2, <2>4, <3>2 DEF Truthful, x
    <3> QED BY <1>1, <3>1, <3>3, EndsMove
  <2>5. CASE found = "tree"
    <3>1. ReadEnds(r, "pathNotABlob")
      BY <2>1, <2>5 DEF Walked
    <3> QED BY <1>1, <3>1, FailsMove
  <2>6. CASE found \notin {"absent", "tree"}
    <3> DEFINE s == [rd[r] EXCEPT !.at = "scan", !.blob = found]
    <3>1. rd' = [rd EXCEPT ![r].at = "scan", ![r].blob = found]
      BY <2>1, <2>6 DEF Walked
    <3>2. Becomes(r, s)
      BY <1>1, <3>1 DEF Becomes, ReadsOK
    <3>3. /\ s \in BlobReadType /\ s.at = "scan" /\ s.blob = found /\ s.path = rd[r].path /\ s.tip = rd[r].tip
          /\ s.chain = rd[r].chain /\ s.pos = rd[r].pos /\ s.res = rd[r].res
      BY <1>1, <2>3 DEF BlobReadType
    <3> HIDE DEF s
    <3>4. Knows(s)
      <4>1. \A j \in 1..Len(s.chain.segs) : ~(j < s.pos)
        BY <1>2, <3>3
      <4>2. IndexFinds => s.blob = BlobAt[s.tip][s.path]
        BY <2>2, <2>6, <3>3 DEF x
      <4> QED BY <1>1, <1>2, <3>3, <4>1, <4>2 DEF Knows, Searching, x
    <3> QED BY <1>1, <3>2, <3>3, <3>4, ReadsMove
  <2> QED BY <2>4, <2>5, <2>6
<1> QED BY <1>3, <1>4, <1>5


\* The segment that a read looks at.
LEMMA CursorPack ==
  ASSUME NEW s \in BlobReadType, s.pos <= Len(s.chain.segs)
  PROVE  /\ s.pos \in 1..Len(s.chain.segs) /\ s.chain.segs[s.pos] \in Packs
         /\ s.chain \in Manifest
<1>1. s.chain \in Manifest \cup {NoChain} /\ s.pos \in Nat \ {0}
  BY DEF BlobReadType
<1>2. Len(NoChain.segs) = 0
  BY DEF NoChain
<1>3. s.chain \in Manifest
  BY <1>1, <1>2
<1>4. s.chain.segs \in Seq(Packs)
  BY <1>3 DEF Manifest
<1> QED BY <1>1, <1>3, <1>4

LEMMA LookUpMove ==
  ASSUME ReadsOK, NEW r \in Readers, rd[r].at \in {"scan", "idx"}, LookUp(r),
         rd[r].pos <= Len(rd[r].chain.segs)
  PROVE  GoodReads
<1> DEFINE e == [rd[r] EXCEPT !.at = "entry"]
           n == [rd[r] EXCEPT !.at = "scan", !.pos = rd[r].pos + 1]
<1>1. rd[r] \in BlobReadType /\ Knows(rd[r])
  BY DEF ReadsOK
<1>2. CASE rd[r].blob \in BlobsIn(Cursor(r))
  <2>1. Becomes(r, e)
    BY <1>1, <1>2 DEF LookUp, Becomes, ReadsOK
  <2>2. /\ e \in BlobReadType /\ e.at = "entry" /\ e.blob = rd[r].blob /\ e.path = rd[r].path
        /\ e.tip = rd[r].tip /\ e.chain = rd[r].chain /\ e.pos = rd[r].pos /\ e.res = rd[r].res
    BY <1>1 DEF BlobReadType
  <2> HIDE DEF e
  <2>3. Knows(e)
    BY <1>1, <2>2 DEF Knows, Searching
  <2> QED BY <2>1, <2>2, <2>3, ReadsMove
<1>3. CASE rd[r].blob \notin BlobsIn(Cursor(r))
  <2>1. Becomes(r, n)
    BY <1>1, <1>3 DEF LookUp, Becomes, ReadsOK
  <2>2. /\ n \in BlobReadType /\ n.at = "scan" /\ n.blob = rd[r].blob /\ n.path = rd[r].path
        /\ n.tip = rd[r].tip /\ n.chain = rd[r].chain /\ n.pos = rd[r].pos + 1 /\ n.res = rd[r].res
    <3> DEFINE k == rd[r].pos + 1
    <3>1. k \in Nat \ {0}
      BY <1>1 DEF BlobReadType
    <3> HIDE DEF k
    <3>2. n = [rd[r] EXCEPT !.at = "scan", !.pos = k]
      BY DEF k
    <3>3. /\ n \in BlobReadType /\ n.at = "scan" /\ n.blob = rd[r].blob /\ n.path = rd[r].path
          /\ n.tip = rd[r].tip /\ n.chain = rd[r].chain /\ n.pos = k /\ n.res = rd[r].res
      <4> HIDE DEF n
      <4> QED BY <1>1, <3>1, <3>2 DEF BlobReadType
    <3> QED BY <3>3 DEF k
  <2> HIDE DEF n
  <2>3. rd[r].pos \in Nat
    BY <1>1 DEF BlobReadType
  <2>4. ASSUME NEW j \in 1..Len(n.chain.segs), j < n.pos PROVE n.blob \notin BlobsIn(n.chain.segs[j])
    <3>1. CASE j = rd[r].pos
      BY <1>3, <2>2, <3>1 DEF Cursor
    <3>2. CASE j < rd[r].pos
      BY <1>1, <2>2, <3>2 DEF Knows, Searching
    <3>3. Len(n.chain.segs) \in Nat
      BY <1>1, <2>2, CursorPack DEF Manifest
    <3> QED BY <2>2, <2>3, <2>4, <3>1, <3>2, <3>3
  <2>5. Knows(n)
    BY <1>1, <2>2, <2>4 DEF Knows, Searching
  <2> QED BY <2>1, <2>2, <2>5, ReadsMove
<1> QED BY <1>2, <1>3

\* A read that has passed all segments of its chain: the tip it began with is
\* not in the history of that chain, or one of the segments has the blob.
LEMMA NotInChain ==
  ASSUME NEW s \in BlobReadType, Knows(s), s.at = "scan", IndexFinds, s.pos > Len(s.chain.segs)
  PROVE  ~FastForward([tip |-> s.tip], s.chain.tip)
<1>1. [tip |-> s.tip] # NoChain
  <2> DEFINE t == [tip |-> s.tip]
  <2>1. DOMAIN t = {"tip"} /\ DOMAIN NoChain = {"tip", "full", "segs"}
    BY DEF NoChain
  <2> QED BY <2>1
<1>2. s.tip \in Commits /\ s.path \in Paths /\ s.blob = BlobAt[s.tip][s.path] /\ Stacked(s.chain)
  BY DEF Knows, Searching
<1>3. SUFFICES ASSUME s.tip \in Ancestors(s.chain.tip) PROVE FALSE
  BY <1>1 DEF FastForward
<1>4. s.chain \in Manifest
  <2>1. s.chain = NoChain => Ancestors(s.chain.tip) = {}
    BY ConstantsAssumption DEF NoChain, Ancestors
  <2> QED BY <1>3, <2>1 DEF BlobReadType
<1>5. PICK i \in 1..Len(s.chain.segs) : s.blob \in BlobsIn(s.chain.segs[i])
  BY <1>2, <1>3, <1>4, BlobInChain
<1>6. Len(s.chain.segs) \in Nat /\ s.pos \in Nat
  BY <1>4 DEF Manifest, BlobReadType
<1>7. i < s.pos
  BY <1>6
<1> QED BY <1>5, <1>7 DEF Knows, Searching

LEMMA ScanMove ==
  ASSUME ReadInv, NEW r \in Readers, ReadScan(r)
  PROVE  GoodReads /\ Kept(cache')
<1>1. ReadsOK /\ rd[r] \in BlobReadType /\ Knows(rd[r]) /\ rd[r].at = "scan" /\ Kept(cache)
  BY DEF ReadInv, ReadsOK, ReadScan
<1>2. CASE rd[r].pos > Len(rd[r].chain.segs)
  <2>1. ReadEnds(r, "notInChain") /\ cache' = cache
    BY <1>2 DEF ReadScan
  <2>2. Ended("notInChain").res = "notInChain"
    BY EndedType
  <2>3. IndexFinds => Truthful(rd[r], Ended("notInChain"))
    BY <1>1, <1>2, <2>2, NotInChain DEF Truthful
  <2> QED BY <1>1, <2>1, <2>3, EndsMove
<1>3. CASE ~(rd[r].pos > Len(rd[r].chain.segs))
  <2>1. rd[r].pos <= Len(rd[r].chain.segs)
    <3>1. Len(rd[r].chain.segs) \in Nat /\ rd[r].pos \in Nat
      BY <1>1 DEF BlobReadType, Manifest, NoChain
    <3> QED BY <1>3, <3>1
  <2>2. CASE Cursor(r) \in cache.map
    <3>1. LookUp(r) /\ cache' = Touch(cache, Cursor(r))
      BY <1>3, <2>2 DEF ReadScan
    <3>2. Kept(cache')
      BY <1>1, <2>2, <3>1, KeptTouch
    <3> QED BY <1>1, <2>1, <3>1, <3>2, LookUpMove
  <2>3. CASE Cursor(r) \notin cache.map
    <3> DEFINE s == [rd[r] EXCEPT !.at = "idx"]
    <3>1. cache' = cache /\ Becomes(r, s)
      BY <1>1, <1>3, <2>3 DEF ReadScan, Becomes, ReadsOK
    <3>2. /\ s \in BlobReadType /\ s.at = "idx" /\ s.blob = rd[r].blob /\ s.path = rd[r].path
          /\ s.tip = rd[r].tip /\ s.chain = rd[r].chain /\ s.pos = rd[r].pos /\ s.res = rd[r].res
      BY <1>1 DEF BlobReadType
    <3> HIDE DEF s
    <3>3. Knows(s)
      BY <1>1, <2>1, <3>2 DEF Knows, Searching
    <3> QED BY <1>1, <3>1, <3>2, <3>3, ReadsMove
  <2> QED BY <2>2, <2>3
<1> QED BY <1>2, <1>3

\* A pack that was to be there is not: the chain is read again.
LEMMA MissMove ==
  ASSUME ReadsOK, NEW r \in Readers, rd[r].at \in {"idx", "entry"},
         rd' = [rd EXCEPT ![r].at = "reload"]
  PROVE  GoodReads
<1> DEFINE s == [rd[r] EXCEPT !.at = "reload"]
<1>1. rd[r] \in BlobReadType /\ Knows(rd[r])
  BY DEF ReadsOK
<1>2. Becomes(r, s)
  BY <1>1 DEF Becomes, ReadsOK
<1>3. /\ s \in BlobReadType /\ s.at = "reload" /\ s.blob = rd[r].blob /\ s.path = rd[r].path
      /\ s.tip = rd[r].tip /\ s.chain = rd[r].chain /\ s.pos = rd[r].pos /\ s.res = rd[r].res
  BY <1>1 DEF BlobReadType
<1> HIDE DEF s
<1>4. Knows(s)
  BY <1>1, <1>3 DEF Knows, Searching
<1> QED BY <1>2, <1>3, <1>4, ReadsMove

LEMMA IdxMove ==
  ASSUME ReadInv, NEW r \in Readers, ReadIdx(r)
  PROVE  GoodReads /\ Kept(cache')
<1>1. ReadsOK /\ rd[r] \in BlobReadType /\ Knows(rd[r]) /\ rd[r].at = "idx" /\ Kept(cache)
  BY DEF ReadInv, ReadsOK, ReadIdx
<1>2. rd[r].pos <= Len(rd[r].chain.segs)
  BY <1>1 DEF Knows
<1>3. CASE Cursor(r) \in objs
  <2>1. LookUp(r) /\ cache' = Insert(cache, Cursor(r))
    BY <1>3 DEF ReadIdx
  <2>2. Cursor(r) \in Packs
    BY <1>1, <1>2, CursorPack DEF Cursor
  <2>3. Kept(cache')
    BY <1>1, <2>1, <2>2, KeptInsert
  <2> QED BY <1>1, <1>2, <2>1, <2>3, LookUpMove
<1>4. CASE Cursor(r) \notin objs
  BY <1>1, <1>4, MissMove DEF ReadIdx
<1> QED BY <1>3, <1>4

LEMMA EntryMove ==
  ASSUME ReadInv, NEW r \in Readers, ReadEntry(r)
  PROVE  GoodReads
<1>1. ReadsOK /\ Knows(rd[r]) /\ rd[r].at = "entry"
  BY DEF ReadInv, ReadsOK, ReadEntry
<1>2. CASE Cursor(r) \in objs
  <2>1. ReadEnds(r, "ok") /\ Ended("ok").res = "ok"
    BY <1>2, EndedType DEF ReadEntry
  <2>2. IndexFinds => Truthful(rd[r], Ended("ok"))
    BY <1>1, <2>1 DEF Truthful, Knows, Searching
  <2> QED BY <1>1, <2>1, <2>2, EndsMove
<1>3. CASE Cursor(r) \notin objs
  BY <1>1, <1>3, MissMove DEF ReadEntry
<1> QED BY <1>2, <1>3

LEMMA ReloadMove ==
  ASSUME ReadInv, NEW r \in Readers, ReadReload(r)
  PROVE  GoodReads
<1>1. ReadsOK /\ rd[r] \in BlobReadType /\ Knows(rd[r]) /\ rd[r].at = "reload"
  BY DEF ReadInv, ReadsOK, ReadReload
<1>2. \/ \E result \in {"chainAbsent", "packMissing", "exhausted"} : ReadEnds(r, result)
      \/ rd' = [rd EXCEPT ![r].at = "scan", ![r].chain = chain, ![r].pos = 1, ![r].tries = @ + 1]
  BY DEF ReadReload
<1>3. CASE rd' = [rd EXCEPT ![r].at = "scan", ![r].chain = chain, ![r].pos = 1, ![r].tries = @ + 1]
  <2> DEFINE s == [rd[r] EXCEPT !.at = "scan", !.chain = chain, !.pos = 1, !.tries = rd[r].tries + 1]
  <2>1. Becomes(r, s)
    BY <1>1, <1>3 DEF Becomes, ReadsOK
  <2>2. chain \in Manifest \cup {NoChain} /\ Stacked(chain)
    BY DEF ReadInv, TypeInv, TypeOK, Typed, StoreOK, StackedOK
  <2>3. /\ s \in BlobReadType /\ s.at = "scan" /\ s.blob = rd[r].blob /\ s.path = rd[r].path
        /\ s.tip = rd[r].tip /\ s.chain = chain /\ s.pos = 1 /\ s.res = rd[r].res
    <3> DEFINE k == rd[r].tries + 1
    <3>1. k \in Nat /\ 1 \in Nat \ {0}
      BY <1>1 DEF BlobReadType
    <3> HIDE DEF k
    <3>2. s = [rd[r] EXCEPT !.at = "scan", !.chain = chain, !.pos = 1, !.tries = k]
      BY DEF k
    <3> HIDE DEF s
    <3> QED BY <1>1, <2>2, <3>1, <3>2 DEF BlobReadType
  <2> HIDE DEF s
  <2>4. \A j \in 1..Len(s.chain.segs) : ~(j < s.pos)
    BY <2>3
  <2>5. Knows(s)
    BY <1>1, <2>2, <2>3, <2>4 DEF Knows, Searching
  <2> QED BY <1>1, <2>1, <2>3, <2>5, ReadsMove
<1> QED BY <1>1, <1>2, <1>3, FailsMove


LEMMA ReadStepGood ==
  ASSUME ReadInv, NEW r \in Readers, ReadStep(r)
  PROVE  ReadInv' /\ (IndexFinds => \A q \in Readers : Truthful(rd[q], rd'[q]))
<1>1. GoodReads /\ Kept(cache')
  <2>1. CASE ReadScan(r)
    BY <2>1, ScanMove
  <2>2. CASE ReadIdx(r)
    BY <2>2, IdxMove
  <2>3. CASE ReadChain(r) \/ ReadIndex(r) \/ ReadEntry(r) \/ ReadReload(r)
    <3>1. GoodReads
      BY <2>3, ChainMove, IndexMove, EntryMove, ReloadMove
    <3>2. cache' = cache
      BY <2>3 DEF ReadChain, ReadIndex, ReadEntry, ReadReload
    <3> QED BY <3>1, <3>2 DEF ReadInv
  <2> QED BY <2>1, <2>2, <2>3 DEF ReadStep
<1>2. UNCHANGED vars
  BY DEF ReadStep, ReadChain, ReadIndex, ReadScan, ReadIdx, ReadEntry, ReadReload
<1>3. TypeInv' /\ StackedOK'
  <2>1. [Next]_vars
    BY <1>2
  <2> QED BY <2>1, TypeStep, StageStep, PriorStep, NumbersStep, StackedStep DEF ReadInv, TypeInv
<1>4. Kept(cache)'
  BY <1>1 DEF Kept
<1> QED BY <1>1, <1>3, <1>4 DEF GoodReads, ReadInv

LEMMA ReadNextGood ==
  ASSUME ReadInv, [ReadNext]_allVars
  PROVE  ReadInv' /\ (IndexFinds => \A q \in Readers : Truthful(rd[q], rd'[q]))
<1>1. CASE \E r \in Readers : ReadStep(r)
  BY <1>1, ReadStepGood
<1>2. CASE [Next]_vars /\ UNCHANGED readVars
  <2>1. rd' = rd /\ cache' = cache
    BY <1>2 DEF readVars
  <2>2. TypeInv' /\ StackedOK'
    BY <1>2, TypeStep, StageStep, PriorStep, NumbersStep, StackedStep DEF ReadInv, TypeInv
  <2>3. ReadsOK' /\ Kept(cache)'
    BY <2>1 DEF ReadInv, ReadsOK, Kept
  <2>4. \A q \in Readers : Truthful(rd[q], rd'[q])
    BY <2>1 DEF ReadInv, ReadsOK, Knows, Truthful
  <2> QED BY <2>2, <2>3, <2>4 DEF ReadInv
<1> QED BY <1>1, <1>2 DEF ReadNext, allVars

LEMMA ReadInitGood == ReadInit => ReadInv
<1> SUFFICES ASSUME ReadInit PROVE ReadInv
  OBVIOUS
<1>1. TypeInv
  BY TypeInit DEF ReadInit
<1>2. StackedOK
  BY StackedNone DEF ReadInit, Init, StackedOK
<1>3. Kept(cache)
  BY KeptEmpty DEF ReadInit
<1>4. Knows(NoBlobRead)
  BY NoBlobReadType, StackedNone DEF Knows, Searching
<1>5. ReadsOK
  BY <1>4, NoBlobReadType DEF ReadInit, ReadsOK
<1> QED BY <1>1, <1>2, <1>3, <1>5 DEF ReadInv

LEMMA ReadInvariant == ReadSpec => []ReadInv
<1>1. ReadInv /\ [ReadNext]_allVars => ReadInv'
  BY ReadNextGood
<1> QED BY <1>1, ReadInitGood, PTL DEF ReadSpec

\* The cache of PackIndexCache stays within its budget and never loses count
\* of it, whatever the sizes of the indexes and however the lookups, the
\* inserts of the same index by several readers, and the evictions interleave.
THEOREM CacheCorrect == ReadSpec => []CacheConsistent
<1>1. ReadInv => CacheConsistent
  BY KeptConsistent DEF ReadInv
<1> QED BY <1>1, ReadInvariant, PTL

\* If the commits have the trees of a git repository, then no interleaving of
\* a read with the writers and gc makes read_blob lie: its blob, and its
\* "not found", are those of the tip it began with, and "not in chain" means
\* that the ref was rewound behind that tip.
THEOREM ReadCorrect == GitHistory => (ReadSpec => ReadIsTip)
<1> SUFFICES ASSUME GitHistory PROVE ReadSpec => ReadIsTip
  OBVIOUS
<1>0. IndexFinds
  BY IndexFound
<1> DEFINE Tells ==
      \A r \in Readers :
        LET ends(result) == rd[r].at # "done" /\ rd'[r].res = result IN
        /\ ends("ok") => rd[r].blob = BlobAt[rd[r].tip][rd[r].path]
        /\ ends("pathNotFound") => BlobAt[rd[r].tip][rd[r].path] = None
        /\ ends("notInChain") => ~FastForward([tip |-> rd[r].tip], rd[r].chain.tip)
<1>1. ReadInv /\ [ReadNext]_allVars => [Tells]_allVars
  BY <1>0, ReadNextGood DEF Truthful
<1> QED BY <1>1, ReadInvariant, PTL DEF ReadSpec, ReadIsTip


-----------------------------------------------------------------------------
(* The operands of a delta.                                                *)

LEMMA Divided ==
  ASSUME NEW b \in Nat \ {0}, NEW v \in Nat
  PROVE  v \div b \in Nat /\ v % b \in Nat /\ v = (v % b) + b * (v \div b)
OBVIOUS

LEMMA TimesLess ==
  ASSUME NEW b \in Nat, NEW x \in Nat, NEW y \in Nat, x >= y
  PROVE  b * x >= b * y
<1> PICK d \in Nat : x = y + d
  <2>1. x - y \in Nat /\ x = y + (x - y)
    OBVIOUS
  <2> QED BY <2>1
<1>1. b * x = b * y + b * d
  OBVIOUS
<1>2. b * d \in Nat /\ b * y \in Nat
  OBVIOUS
<1> QED BY <1>1, <1>2

LEMMA DividedLess ==
  ASSUME NEW b \in Nat \ {0}, NEW v \in Nat, NEW x \in Nat, v < b * x
  PROVE  v \div b < x
<1> PICK q \in Nat : q = v \div b
  BY Divided
<1> PICK m \in Nat : m = v % b
  BY Divided
<1>1. v = m + b * q
  BY Divided
<1> SUFFICES ASSUME ~(q < x) PROVE FALSE
  OBVIOUS
<1>2. b * q >= b * x
  BY TimesLess
<1> PICK bq \in Nat, bx \in Nat : bq = b * q /\ bx = b * x
  OBVIOUS
<1> QED BY <1>1, <1>2

\* A number of at most four digits is the sum of its digits.
LEMMA DigitsSum ==
  ASSUME NEW v \in Nat
  PROVE  /\ \A i \in 0..3 : Digit(v, i) \in Nat
         /\ v < Base * (Base * (Base * Base)) =>
              v = Digit(v, 0) + Base * (Digit(v, 1) + Base * (Digit(v, 2) + Base * Digit(v, 3)))
         /\ v < Base * (Base * Base) => v = Digit(v, 0) + Base * (Digit(v, 1) + Base * (Digit(v, 2) + Base * 0))
<1>0. Base \in Nat \ {0} /\ Base \in Nat /\ Base > 0
  BY EntryAssumption
<1> PICK p \in Nat : p = v \div Base
  BY <1>0, Divided
<1> PICK q \in Nat : q = p \div Base
  BY <1>0, Divided
<1> PICK r \in Nat : r = q \div Base
  BY <1>0, Divided
<1> PICK s \in Nat : s = r \div Base
  BY <1>0, Divided
<1>1. Digit(v, 0) = v % Base /\ Digit(v, 1) = p % Base /\ Digit(v, 2) = q % Base /\ Digit(v, 3) = r % Base
  BY DEF Digit
<1>2. Digit(v, 0) \in Nat /\ Digit(v, 1) \in Nat /\ Digit(v, 2) \in Nat /\ Digit(v, 3) \in Nat
  BY <1>0, <1>1, Divided
<1>3. /\ v = Digit(v, 0) + Base * p /\ p = Digit(v, 1) + Base * q
      /\ q = Digit(v, 2) + Base * r /\ r = Digit(v, 3) + Base * s
  BY <1>0, <1>1, Divided
<1>4. \A i \in 0..3 : i = 0 \/ i = 1 \/ i = 2 \/ i = 3
  OBVIOUS
<1>5. ASSUME v < Base * (Base * (Base * Base)) PROVE s = 0
  <2>1. p < Base * (Base * Base)
    <3> PICK x \in Nat : x = Base * (Base * Base)
      BY <1>0
    <3> QED BY <1>0, <1>5, DividedLess
  <2>2. q < Base * Base
    <3> PICK x \in Nat : x = Base * Base
      BY <1>0
    <3> QED BY <1>0, <2>1, DividedLess
  <2>3. r < Base * 1
    <3>1. r < Base
      BY <1>0, <2>2, DividedLess
    <3> QED BY <1>0, <3>1
  <2>4. s < 1
    BY <1>0, <2>3, DividedLess
  <2> QED BY <2>4
<1>6. ASSUME v < Base * (Base * Base) PROVE r = 0
  <2>1. p < Base * Base
    <3> PICK x \in Nat : x = Base * Base
      BY <1>0
    <3> QED BY <1>0, <1>6, DividedLess
  <2>2. q < Base * 1
    <3>1. q < Base
      BY <1>0, <2>1, DividedLess
    <3> QED BY <1>0, <3>1
  <2>3. r < 1
    BY <1>0, <2>2, DividedLess
  <2> QED BY <2>3
<1>7. Base * 0 = 0
  BY <1>0
<1>8. s = 0 => r = Digit(v, 3)
  BY <1>2, <1>3, <1>7
<1> QED BY <1>2, <1>3, <1>4, <1>5, <1>6, <1>7, <1>8

LEMMA OperandRead ==
  ASSUME NEW v \in Nat
  PROVE  /\ v < Base * (Base * (Base * Base)) => read_packed_operand(Stored(v, 4)) = v
         /\ v < Base * (Base * Base) => read_packed_operand(Stored(v, 3)) = v
<1> DEFINE byte(f, k) == IF k \in DOMAIN f THEN f[k] ELSE 0
<1>1. \A f : read_packed_operand(f) =
               byte(f, 0) + Base * (byte(f, 1) + Base * (byte(f, 2) + Base * byte(f, 3)))
  BY DEF read_packed_operand
<1>2. ASSUME NEW n \in {3, 4}, NEW k \in 0..3
      PROVE  byte(Stored(v, n), k) = IF k < n THEN Digit(v, k) ELSE 0
  <2>1. DOMAIN Stored(v, n) = {i \in 0..(n - 1) : Digit(v, i) # 0}
    BY DEF Stored
  <2>2. CASE k \in DOMAIN Stored(v, n)
    <3>1. Stored(v, n)[k] = Digit(v, k) /\ k \in 0..(n - 1)
      BY <2>1, <2>2 DEF Stored
    <3> QED BY <2>2, <3>1
  <2>3. CASE k \notin DOMAIN Stored(v, n)
    <3>1. k < n => k \in 0..(n - 1)
      OBVIOUS
    <3>2. k < n => Digit(v, k) = 0
      BY <2>1, <2>3, <3>1
    <3> QED BY <2>3, <3>2
  <2> QED BY <2>2, <2>3
<1> HIDE DEF byte
<1>3. /\ byte(Stored(v, 4), 0) = Digit(v, 0) /\ byte(Stored(v, 4), 1) = Digit(v, 1)
      /\ byte(Stored(v, 4), 2) = Digit(v, 2) /\ byte(Stored(v, 4), 3) = Digit(v, 3)
  BY <1>2
<1>4. /\ byte(Stored(v, 3), 0) = Digit(v, 0) /\ byte(Stored(v, 3), 1) = Digit(v, 1)
      /\ byte(Stored(v, 3), 2) = Digit(v, 2) /\ byte(Stored(v, 3), 3) = 0
  BY <1>2
<1> QED BY <1>1, <1>3, <1>4, DigitsSum


-----------------------------------------------------------------------------
(* Deltas.                                                                 *)

IsText(f, base, s, n) ==
  f = [k \in 0..n |-> IF k = 0 THEN <<>> ELSE f[k - 1] \o Piece(base, s[k])]

LEMMA TextExists ==
  ASSUME NEW base, NEW s, NEW m \in Nat
  PROVE  \E f : IsText(f, base, s, m)
<1> DEFINE T == {k \in Nat : ~\E f : IsText(f, base, s, k)}
<1>1. SUFFICES ASSUME T # {} PROVE FALSE
  OBVIOUS
<1>2. PICK k \in T : \A j \in T : k <= j
  <2>1. T \subseteq Nat
    OBVIOUS
  <2> HIDE DEF T
  <2> QED BY <1>1, <2>1, Smallest
<1>3. CASE k = 0
  <2> DEFINE f == [j \in 0..0 |-> <<>>]
  <2>1. \A j \in 0..0 : j = 0
    OBVIOUS
  <2>2. f = [j \in 0..0 |-> IF j = 0 THEN <<>> ELSE f[j - 1] \o Piece(base, s[j])]
    <3>1. f = [j \in 0..0 |-> <<>>]
      OBVIOUS
    <3> HIDE DEF f
    <3> QED BY <2>1, <3>1
  <2> HIDE DEF f
  <2> QED BY <1>2, <1>3, <2>2 DEF IsText
<1>4. CASE k # 0
  <2>1. k - 1 \in Nat /\ ~(k <= k - 1)
    BY <1>2, <1>4
  <2>2. PICK g : IsText(g, base, s, k - 1)
    BY <1>2, <2>1
  <2> DEFINE f == [j \in 0..k |-> IF j = k THEN g[k - 1] \o Piece(base, s[k]) ELSE g[j]]
  <2>3. \A j \in 0..k : j # k => f[j] = g[j]
    OBVIOUS
  <2>4. \A j \in 0..(k - 1) : g[j] = IF j = 0 THEN <<>> ELSE g[j - 1] \o Piece(base, s[j])
    BY <2>2 DEF IsText
  <2>5. \A j \in 0..k : j # 0 => j - 1 \in 0..k /\ j - 1 # k
    BY <1>2
  <2>6. \A j \in 0..k : j # k => j \in 0..(k - 1)
    BY <1>2
  <2>7. \A j \in 0..k : (IF j = k THEN g[k - 1] \o Piece(base, s[k]) ELSE g[j])
                          = IF j = 0 THEN <<>> ELSE f[j - 1] \o Piece(base, s[j])
    <3> SUFFICES ASSUME NEW j \in 0..k
                 PROVE (IF j = k THEN g[k - 1] \o Piece(base, s[k]) ELSE g[j])
                          = IF j = 0 THEN <<>> ELSE f[j - 1] \o Piece(base, s[j])
      OBVIOUS
    <3> HIDE DEF f
    <3>1. j # 0 => f[j - 1] = g[j - 1]
      BY <2>3, <2>5
    <3> QED BY <1>4, <2>4, <2>6, <3>1
  <2>8. f = [j \in 0..k |-> IF j = 0 THEN <<>> ELSE f[j - 1] \o Piece(base, s[j])]
    <3>1. f = [j \in 0..k |-> IF j = k THEN g[k - 1] \o Piece(base, s[k]) ELSE g[j]]
      OBVIOUS
    <3> HIDE DEF f
    <3> QED BY <2>7, <3>1
  <2> HIDE DEF f
  <2>9. IsText(f, base, s, k)
    BY <2>8 DEF IsText
  <2> QED BY <1>2, <2>9
<1> QED BY <1>3, <1>4

\* The result after operation k, from the one before it.
OutStep(base, delta, prev, k) ==
  LET new == ApplyOp(base, prev, delta.ops[k])
  IN IF new # Malformed /\ Len(new) > delta.dst THEN Malformed ELSE new

IsOut(f, base, delta, n) ==
  f = [k \in 0..n |-> IF k = 0 THEN <<>> ELSE OutStep(base, delta, f[k - 1], k)]

LEMMA OutExists ==
  ASSUME NEW base, NEW delta, NEW m \in Nat
  PROVE  \E f : IsOut(f, base, delta, m)
<1> DEFINE T == {k \in Nat : ~\E f : IsOut(f, base, delta, k)}
<1>1. SUFFICES ASSUME T # {} PROVE FALSE
  OBVIOUS
<1>2. PICK k \in T : \A j \in T : k <= j
  <2>1. T \subseteq Nat
    OBVIOUS
  <2> HIDE DEF T
  <2> QED BY <1>1, <2>1, Smallest
<1>3. CASE k = 0
  <2> DEFINE f == [j \in 0..0 |-> <<>>]
  <2>1. \A j \in 0..0 : j = 0
    OBVIOUS
  <2>2. f = [j \in 0..0 |-> IF j = 0 THEN <<>> ELSE OutStep(base, delta, f[j - 1], j)]
    <3>1. f = [j \in 0..0 |-> <<>>]
      OBVIOUS
    <3> HIDE DEF f
    <3> QED BY <2>1, <3>1
  <2> HIDE DEF f
  <2> QED BY <1>2, <1>3, <2>2 DEF IsOut
<1>4. CASE k # 0
  <2>1. k - 1 \in Nat /\ ~(k <= k - 1)
    BY <1>2, <1>4
  <2>2. PICK g : IsOut(g, base, delta, k - 1)
    BY <1>2, <2>1
  <2> DEFINE f == [j \in 0..k |-> IF j = k THEN OutStep(base, delta, g[k - 1], k) ELSE g[j]]
  <2>3. \A j \in 0..k : j # k => f[j] = g[j]
    OBVIOUS
  <2>4. \A j \in 0..(k - 1) : g[j] = IF j = 0 THEN <<>> ELSE OutStep(base, delta, g[j - 1], j)
    BY <2>2 DEF IsOut
  <2>5. \A j \in 0..k : j # 0 => j - 1 \in 0..k /\ j - 1 # k
    BY <1>2
  <2>6. \A j \in 0..k : j # k => j \in 0..(k - 1)
    BY <1>2
  <2>7. \A j \in 0..k : (IF j = k THEN OutStep(base, delta, g[k - 1], k) ELSE g[j])
                          = IF j = 0 THEN <<>> ELSE OutStep(base, delta, f[j - 1], j)
    <3> SUFFICES ASSUME NEW j \in 0..k
                 PROVE (IF j = k THEN OutStep(base, delta, g[k - 1], k) ELSE g[j])
                          = IF j = 0 THEN <<>> ELSE OutStep(base, delta, f[j - 1], j)
      OBVIOUS
    <3> HIDE DEF f
    <3>1. j # 0 => f[j - 1] = g[j - 1]
      BY <2>3, <2>5
    <3> QED BY <1>4, <2>4, <2>6, <3>1
  <2>8. f = [j \in 0..k |-> IF j = 0 THEN <<>> ELSE OutStep(base, delta, f[j - 1], j)]
    <3>1. f = [j \in 0..k |-> IF j = k THEN OutStep(base, delta, g[k - 1], k) ELSE g[j]]
      OBVIOUS
    <3> HIDE DEF f
    <3> QED BY <2>7, <3>1
  <2> HIDE DEF f
  <2>9. IsOut(f, base, delta, k)
    BY <2>8 DEF IsOut
  <2> QED BY <1>2, <2>9
<1> QED BY <1>3, <1>4

LEMMA TextIs ==
  ASSUME NEW base, NEW s, Len(s) \in Nat
  PROVE  \E f : IsText(f, base, s, Len(s)) /\ Text(base, s) = f[Len(s)]
<1>1. Text(base, s) = (CHOOSE f : IsText(f, base, s, Len(s)))[Len(s)]
  BY DEF Text, IsText
<1> QED BY <1>1, TextExists

LEMMA OutIs ==
  ASSUME NEW base, NEW delta, Len(delta.ops) \in Nat
  PROVE  \E f : /\ IsOut(f, base, delta, Len(delta.ops))
                /\ apply_delta(base, delta) =
                     IF delta.src # Len(base) \/ f[Len(delta.ops)] = Malformed \/ Len(f[Len(delta.ops)]) # delta.dst
                     THEN Malformed ELSE f[Len(delta.ops)]
<1> DEFINE out == (CHOOSE f : IsOut(f, base, delta, Len(delta.ops)))[Len(delta.ops)]
<1>1. apply_delta(base, delta) = IF delta.src # Len(base) \/ out = Malformed \/ Len(out) # delta.dst
                                 THEN Malformed ELSE out
  BY DEF apply_delta, IsOut, OutStep
<1> QED BY <1>1, OutExists


\* What a script may hold: spans of the base that the operands reach.
Lettered(base) == base \in Seq(Letters)

Fits(base, x) ==
  /\ x.from \in Nat /\ x.n \in Nat /\ x.kind \in {"insert", "copy"} /\ x.bytes \in Seq(Letters)
  /\ x.kind = "copy" => /\ x.n >= 1 /\ x.from + x.n <= Len(base)
                        /\ x.from < Base * (Base * Base) /\ x.n < Base * (Base * Base)

AllFit(base, s, n) == \A i \in 1..n : Fits(base, s[i])

LEMMA PieceType ==
  ASSUME NEW base, Lettered(base), NEW x, Fits(base, x)
  PROVE  /\ Piece(base, x) \in Seq(Letters)
         /\ Len(Piece(base, x)) = IF x.kind = "insert" THEN Len(x.bytes) ELSE x.n
<1>1. CASE x.kind = "insert"
  BY <1>1 DEF Piece, Fits
<1>2. CASE x.kind = "copy"
  <2> PICK b \in Seq(Letters) : b = base
    BY DEF Lettered
  <2> PICK from \in Nat : from = x.from
    BY DEF Fits
  <2> PICK n \in Nat : n = x.n
    BY DEF Fits
  <2>1. n >= 1 /\ from + n <= Len(b)
    BY <1>2 DEF Fits
  <2>2. \A i \in (from + 1)..(from + n) : b[i] \in Letters
    BY <2>1
  <2>3. SubSeq(b, from + 1, from + n) \in Seq(Letters) /\ Len(SubSeq(b, from + 1, from + n)) = n
    <3>0. n >= 1
      BY <2>1
    <3>1. from + 1 \in Int /\ from + n \in Int /\ from + 1 <= from + n /\ (from + n) - (from + 1) + 1 = n
      BY <3>0
    <3> QED BY <2>2, <3>1, SubSeqProperties
  <2>4. Piece(base, x) = SubSeq(b, from + 1, from + n)
    BY <1>2 DEF Piece
  <2> QED BY <1>2, <2>3, <2>4
<1> QED BY <1>1, <1>2 DEF Fits

LEMMA NotMalformed ==
  ASSUME NEW out \in Seq(Letters)
  PROVE  out # Malformed
<1>1. Len(Malformed) = 1 /\ Malformed[1] = "malformed"
  BY DEF Malformed
<1>2. Len(out) = 1 => out[1] \in {"a", "b"}
  BY DEF Letters
<1> QED BY <1>1, <1>2

\* An operation that git wrote appends the piece it stands for.
LEMMA OpApplied ==
  ASSUME NEW base, Lettered(base), NEW x, Fits(base, x), NEW out \in Seq(Letters)
  PROVE  ApplyOp(base, out, Operation(x)) = out \o Piece(base, x)
<1>1. out # Malformed
  BY NotMalformed
<1>2. Operation(x).kind = x.kind /\ Operation(x).bytes = x.bytes /\ Operation(x).offset = Stored(x.from, 4)
      /\ Operation(x).size = IF x.n = DefaultCopy THEN NoOperand ELSE Stored(x.n, 3)
  BY DEF Operation
<1>3. CASE x.kind = "insert"
  BY <1>1, <1>2, <1>3 DEF ApplyOp, Piece
<1>4. CASE x.kind = "copy"
  <2> PICK from \in Nat : from = x.from
    BY DEF Fits
  <2> PICK n \in Nat : n = x.n
    BY DEF Fits
  <2> PICK l \in Nat : l = Len(base)
    BY DEF Lettered
  <2>1. n >= 1 /\ from + n <= l
    BY <1>4 DEF Fits
  <2>2. from < Base * (Base * Base) /\ n < Base * (Base * Base)
    BY <1>4 DEF Fits
  <2>3. from < Base * (Base * (Base * Base))
    <3> PICK c \in Nat : c = Base * (Base * Base)
      BY EntryAssumption
    <3>1. c * Base >= c * 1
      BY EntryAssumption, TimesLess
    <3>2. c * Base = Base * c /\ Base * c \in Nat /\ c * 1 = c
      BY EntryAssumption
    <3> QED BY <2>2, <3>1, <3>2
  <2>4. read_packed_operand(Stored(x.from, 4)) = from
    BY <2>3, OperandRead
  <2>5. read_packed_operand(NoOperand) = 0
    <3>1. DOMAIN NoOperand = {}
      BY DEF NoOperand
    <3>2. read_packed_operand(NoOperand) = 0 + Base * (0 + Base * (0 + Base * 0))
      BY <3>1 DEF read_packed_operand
    <3> QED BY <3>2, EntryAssumption
  <2>6. read_packed_operand(Stored(x.n, 3)) = n
    BY <2>2, OperandRead
  <2> PICK stored \in Nat : /\ stored = read_packed_operand(Operation(x).size)
                            /\ n = IF stored = 0 THEN DefaultCopy ELSE stored
    BY <1>2, <2>1, <2>5, <2>6
  <2>7. ~(from + n > Len(base))
    BY <2>1
  <2>8. ApplyOp(base, out, Operation(x)) = out \o SubSeq(base, from + 1, from + n)
    BY <1>1, <1>2, <1>4, <2>4, <2>7 DEF ApplyOp
  <2> QED BY <1>4, <2>8 DEF Piece
<1> QED BY <1>3, <1>4 DEF Fits

\* The text after each operation.
LEMMA TextGrows ==
  ASSUME NEW base, Lettered(base), NEW s, NEW n \in Nat, AllFit(base, s, n),
         NEW f, IsText(f, base, s, n)
  PROVE  \A k \in 0..n : f[k] \in Seq(Letters)
<1> DEFINE D == {k \in 0..n : f[k] \notin Seq(Letters)}
<1> SUFFICES ASSUME D # {} PROVE FALSE
  OBVIOUS
<1>1. PICK k \in D : \A j \in D : k <= j
  <2>1. D \subseteq Nat
    OBVIOUS
  <2> HIDE DEF D
  <2> QED BY <2>1, Smallest
<1>2. f[k] = IF k = 0 THEN <<>> ELSE f[k - 1] \o Piece(base, s[k])
  BY <1>1 DEF IsText
<1>3. CASE k = 0
  <2>1. <<>> \in Seq(Letters)
    OBVIOUS
  <2> QED BY <1>1, <1>2, <1>3, <2>1
<1>4. CASE k # 0
  <2>1. k - 1 \in 0..n /\ ~(k <= k - 1) /\ k \in 1..n
    BY <1>1, <1>4
  <2>2. f[k - 1] \in Seq(Letters)
    BY <1>1, <2>1
  <2>3. Piece(base, s[k]) \in Seq(Letters)
    BY <2>1, PieceType DEF AllFit
  <2>4. f[k - 1] \o Piece(base, s[k]) \in Seq(Letters)
    BY <2>2, <2>3
  <2> QED BY <1>1, <1>2, <1>4, <2>4
<1> QED BY <1>3, <1>4


Operations(s, n) == [i \in 1..n |-> Operation(s[i])]

LEMMA OperationsLen ==
  ASSUME NEW s, NEW n \in Nat
  PROVE  Len(Operations(s, n)) = n /\ \A i \in 1..n : Operations(s, n)[i] = Operation(s[i])
<1> PICK V : V = {Operation(s[i]) : i \in 1..n}
  OBVIOUS
<1>1. \A i \in 1..n : Operation(s[i]) \in V
  OBVIOUS
<1>2. Operations(s, n) \in [1..n -> V]
  BY <1>1 DEF Operations
<1>3. Len(Operations(s, n)) = n
  BY <1>2
<1> QED BY <1>3 DEF Operations

\* One operation, with the check that the result does not outgrow its size.
Appends(base, delta, k, out, p) ==
  /\ OutStep(base, delta, Malformed, k) = Malformed
  /\ OutStep(base, delta, out, k) = IF Len(out \o p) > delta.dst THEN Malformed ELSE out \o p

LEMMA OutNext ==
  ASSUME NEW base, Lettered(base), NEW delta, NEW k, NEW x, Fits(base, x), delta.ops[k] = Operation(x),
         NEW out \in Seq(Letters)
  PROVE  Appends(base, delta, k, out, Piece(base, x))
<1>1. ApplyOp(base, Malformed, delta.ops[k]) = Malformed
  BY DEF ApplyOp
<1>2. ApplyOp(base, out, delta.ops[k]) = out \o Piece(base, x)
  BY OpApplied
<1>3. out \o Piece(base, x) \in Seq(Letters)
  BY PieceType
<1>4. out \o Piece(base, x) # Malformed
  BY <1>3, NotMalformed
<1> QED BY <1>1, <1>2, <1>4 DEF OutStep, Appends

LEMMA Exceeds ==
  ASSUME NEW a \in Nat, NEW b \in Nat, NEW d \in Nat
  PROVE  (a + b > d <=> ~(a + b <= d)) /\ (~(a <= d) => ~(a + b <= d))
OBVIOUS

Carries(delta, base, dst, s, n) ==
  delta.src = Len(base) /\ delta.dst = dst /\ delta.ops = Operations(s, n)

Outcome(base, delta, dst, text) ==
  /\ text \in Seq(Letters)
  /\ apply_delta(base, delta) = IF Len(text) = dst THEN text ELSE Malformed

\* A delta of operations that git wrote gives their text, if that has the
\* announced size, and is refused otherwise.
LEMMA Applied ==
  ASSUME NEW base, Lettered(base), NEW s, NEW n \in Nat, Len(s) = n, AllFit(base, s, n),
         NEW dst \in Nat, NEW delta, Carries(delta, base, dst, s, n)
  PROVE  Outcome(base, delta, dst, Text(base, s))
<1>0. delta.src = Len(base) /\ delta.dst = dst /\ delta.ops = Operations(s, n)
  BY DEF Carries
<1>1. PICK T : IsText(T, base, s, n) /\ Text(base, s) = T[n]
  BY TextIs
<1>2. Len(delta.ops) = n /\ \A i \in 1..n : delta.ops[i] = Operation(s[i])
  BY <1>0, OperationsLen
<1>3. PICK R : /\ IsOut(R, base, delta, n)
               /\ apply_delta(base, delta) = IF delta.src # Len(base) \/ R[n] = Malformed \/ Len(R[n]) # delta.dst
                                             THEN Malformed ELSE R[n]
  BY <1>2, OutIs
<1>4. \A k \in 0..n : T[k] \in Seq(Letters)
  BY <1>1, TextGrows
<1> DEFINE D == {k \in 0..n : R[k] # IF Len(T[k]) <= dst THEN T[k] ELSE Malformed}
<1>5. ASSUME D # {} PROVE FALSE
  <2>1. PICK k \in D : \A j \in D : k <= j
    <3>1. D \subseteq Nat
      OBVIOUS
    <3> HIDE DEF D
    <3> QED BY <1>5, <3>1, Smallest
  <2>2. k \in 0..n /\ R[k] # IF Len(T[k]) <= dst THEN T[k] ELSE Malformed
    BY <2>1
  <2>3. T[k] = IF k = 0 THEN <<>> ELSE T[k - 1] \o Piece(base, s[k])
    BY <1>1, <2>2 DEF IsText
  <2>4. R[k] = IF k = 0 THEN <<>> ELSE OutStep(base, delta, R[k - 1], k)
    BY <1>3, <2>2 DEF IsOut
  <2>5. CASE k = 0
    <3>1. Len(<<>>) = 0 /\ 0 <= dst
      OBVIOUS
    <3> QED BY <2>2, <2>3, <2>4, <2>5, <3>1
  <2>6. CASE k # 0
    <3>1. k - 1 \in 0..n /\ ~(k <= k - 1) /\ k \in 1..n
      BY <2>2, <2>6
    <3>2. R[k - 1] = IF Len(T[k - 1]) <= dst THEN T[k - 1] ELSE Malformed
      BY <2>1, <3>1
    <3> HIDE DEF D
    <3> PICK t \in Seq(Letters) : t = T[k - 1]
      BY <1>4, <3>1
    <3> PICK p \in Seq(Letters) : p = Piece(base, s[k])
      BY <3>1, PieceType DEF AllFit
    <3>3. T[k] = t \o p
      BY <2>3, <2>6
    <3>4. /\ OutStep(base, delta, Malformed, k) = Malformed
          /\ OutStep(base, delta, t, k) = IF Len(t \o p) > dst THEN Malformed ELSE t \o p
      <4> PICK x : x = s[k] /\ Fits(base, x) /\ delta.ops[k] = Operation(x)
        BY <1>2, <3>1 DEF AllFit
      <4>1. p = Piece(base, x)
        OBVIOUS
      <4>2. Appends(base, delta, k, t, Piece(base, x))
        BY OutNext
      <4>3. Appends(base, delta, k, t, p)
        BY <4>1, <4>2
      <4> QED BY <1>0, <4>3 DEF Appends
    <3> PICK lt \in Nat, lp \in Nat : lt = Len(t) /\ lp = Len(p)
      OBVIOUS
    <3>5. Len(t \o p) = lt + lp
      BY ConcatProperties
    <3>8. (lt + lp > dst <=> ~(lt + lp <= dst)) /\ (~(lt <= dst) => ~(lt + lp <= dst))
      BY Exceeds
    <3>6. CASE Len(t) <= dst
      <4>1. R[k] = IF Len(t \o p) > dst THEN Malformed ELSE t \o p
        BY <2>4, <2>6, <3>2, <3>4, <3>6
      <4>2. Len(t \o p) > dst <=> ~(Len(t \o p) <= dst)
        BY <3>5, <3>8
      <4> QED BY <2>2, <3>3, <4>1, <4>2
    <3>7. CASE ~(Len(t) <= dst)
      <4>1. R[k] = Malformed
        BY <2>4, <2>6, <3>2, <3>4, <3>7
      <4>2. ~(Len(t \o p) <= dst)
        BY <3>5, <3>7, <3>8
      <4> QED BY <2>2, <3>3, <4>1, <4>2
    <3> QED BY <3>6, <3>7
  <2> QED BY <2>5, <2>6
<1>6. R[n] = IF Len(T[n]) <= dst THEN T[n] ELSE Malformed
  <2>1. n \in 0..n
    OBVIOUS
  <2> QED BY <1>5, <2>1
<1> HIDE DEF D
<1> PICK t \in Seq(Letters) : t = T[n]
  <2>1. n \in 0..n
    OBVIOUS
  <2> QED BY <1>4, <2>1
<1>7. t # Malformed /\ Len(t) \in Nat
  BY NotMalformed
<1>8. CASE Len(t) = dst
  BY <1>0, <1>1, <1>3, <1>6, <1>7, <1>8 DEF Outcome
<1>9. CASE Len(t) # dst
  BY <1>0, <1>1, <1>3, <1>6, <1>7, <1>9 DEF Outcome
<1> QED BY <1>1, <1>8, <1>9


\* A script without its operation i.
ScriptLess(s, n, i) == [j \in 1..(n - 1) |-> IF j < i THEN s[j] ELSE s[j + 1]]

LEMMA ScriptLessLen ==
  ASSUME NEW s, NEW n \in Nat, NEW i \in 1..n
  PROVE  /\ Len(ScriptLess(s, n, i)) = n - 1 /\ n - 1 \in Nat
         /\ \A j \in 1..(n - 1) : ScriptLess(s, n, i)[j] = IF j < i THEN s[j] ELSE s[j + 1]
<1> DEFINE e(j) == IF j < i THEN s[j] ELSE s[j + 1]
<1> PICK V : V = {e(j) : j \in 1..(n - 1)}
  OBVIOUS
<1>1. \A j \in 1..(n - 1) : e(j) \in V
  OBVIOUS
<1>2. ScriptLess(s, n, i) = [j \in 1..(n - 1) |-> e(j)]
  BY DEF ScriptLess
<1> HIDE DEF e
<1>3. ScriptLess(s, n, i) \in [1..(n - 1) -> V]
  BY <1>1, <1>2
<1>4. n - 1 \in Nat
  OBVIOUS
<1>5. Len(ScriptLess(s, n, i)) = n - 1
  BY <1>3, <1>4
<1> QED BY <1>2, <1>4, <1>5 DEF e

Enumerated(c, m) == c = [j \in 1..m |-> c[j]]

LEMMA ElementByElement ==
  ASSUME NEW V, NEW c \in Seq(V), NEW m, Len(c) = m
  PROVE  Enumerated(c, m)
BY DEF Enumerated

LEMMA RemovedOperation ==
  ASSUME NEW s, NEW n \in Nat, NEW i \in 1..n
  PROVE  RemoveAt(Operations(s, n), i) = Operations(ScriptLess(s, n, i), n - 1)
<1> PICK o : o = Operations(s, n)
  OBVIOUS
<1> PICK V : V = {Operation(s[j]) : j \in 1..n}
  OBVIOUS
<1>1. Len(o) = n /\ \A j \in 1..n : o[j] = Operation(s[j]) /\ o[j] \in V
  BY OperationsLen
<1>2. o = [j \in 1..n |-> Operation(s[j])] /\ o \in Seq(V)
  BY <1>1 DEF Operations
<1> PICK m \in Nat : m = n - 1
  OBVIOUS
<1> PICK a : a = SubSeq(o, 1, i - 1)
  OBVIOUS
<1> PICK b : b = SubSeq(o, i + 1, n)
  OBVIOUS
<1>3. a \in Seq(V) /\ Len(a) = i - 1 /\ \A j \in 1..(i - 1) : a[j] = o[j]
  <2>1. \A j \in 1..(i - 1) : o[j] \in V
    BY <1>1
  <2>2. 1 \in Int /\ i - 1 \in Int /\ (IF 1 <= i - 1 THEN (i - 1) - 1 + 1 ELSE 0) = i - 1 /\ (i - 1) - 1 + 1 = i - 1
    OBVIOUS
  <2>3. /\ a \in Seq(V) /\ Len(a) = IF 1 <= i - 1 THEN (i - 1) - 1 + 1 ELSE 0
        /\ \A j \in 1..((i - 1) - 1 + 1) : a[j] = o[1 + j - 1]
    BY <2>1, <2>2, SubSeqProperties
  <2>4. \A j \in 1..(i - 1) : 1 + j - 1 = j
    OBVIOUS
  <2> QED BY <2>2, <2>3, <2>4
<1>4. b \in Seq(V) /\ Len(b) = n - i /\ \A j \in 1..(n - i) : b[j] = o[i + j]
  <2>1. \A j \in (i + 1)..n : o[j] \in V
    BY <1>1
  <2>2. /\ i + 1 \in Int /\ n \in Int /\ (IF i + 1 <= n THEN n - (i + 1) + 1 ELSE 0) = n - i
        /\ n - (i + 1) + 1 = n - i
    OBVIOUS
  <2>3. /\ b \in Seq(V) /\ Len(b) = IF i + 1 <= n THEN n - (i + 1) + 1 ELSE 0
        /\ \A j \in 1..(n - (i + 1) + 1) : b[j] = o[(i + 1) + j - 1]
    BY <2>1, <2>2, SubSeqProperties
  <2>4. \A j \in 1..(n - i) : (i + 1) + j - 1 = i + j
    OBVIOUS
  <2> QED BY <2>2, <2>3, <2>4
<1>5. (i - 1) + (n - i) = m
  OBVIOUS
<1>6. /\ a \o b \in Seq(V) /\ Len(a \o b) = m
      /\ \A j \in 1..m : (a \o b)[j] = IF j <= i - 1 THEN a[j] ELSE b[j - (i - 1)]
  BY <1>3, <1>4, <1>5, ConcatProperties
<1>7. ASSUME NEW j \in 1..m
      PROVE  (a \o b)[j] = Operation(IF j < i THEN s[j] ELSE s[j + 1])
  <2>1. CASE j < i
    <3>1. j <= i - 1 /\ j \in 1..(i - 1) /\ j \in 1..n
      BY <2>1
    <3> QED BY <1>1, <1>3, <1>6, <2>1, <3>1
  <2>2. CASE ~(j < i)
    <3>1. ~(j <= i - 1) /\ j - (i - 1) \in 1..(n - i) /\ i + (j - (i - 1)) = j + 1 /\ j + 1 \in 1..n
      BY <2>2
    <3>2. (a \o b)[j] = b[j - (i - 1)] /\ b[j - (i - 1)] = o[j + 1]
      BY <1>4, <1>6, <3>1
    <3> QED BY <1>1, <2>2, <3>1, <3>2
  <2> QED BY <2>1, <2>2
<1>8. RemoveAt(o, i) = a \o b
  BY <1>1 DEF RemoveAt
<1>9. /\ Len(Operations(ScriptLess(s, n, i), m)) = m
      /\ \A j \in 1..m : Operations(ScriptLess(s, n, i), m)[j] = Operation(ScriptLess(s, n, i)[j])
  BY OperationsLen
<1>10. \A j \in 1..m : (a \o b)[j] = Operations(ScriptLess(s, n, i), m)[j]
  <2>1. \A j \in 1..m : ScriptLess(s, n, i)[j] = IF j < i THEN s[j] ELSE s[j + 1]
    BY ScriptLessLen
  <2> SUFFICES ASSUME NEW j \in 1..m PROVE (a \o b)[j] = Operations(ScriptLess(s, n, i), m)[j]
    OBVIOUS
  <2>2. Operations(ScriptLess(s, n, i), m)[j] = Operation(ScriptLess(s, n, i)[j])
    BY <1>9
  <2>3. ScriptLess(s, n, i)[j] = IF j < i THEN s[j] ELSE s[j + 1]
    BY <2>1
  <2>4. (a \o b)[j] = Operation(IF j < i THEN s[j] ELSE s[j + 1])
    BY <1>7
  <2> QED BY <2>2, <2>3, <2>4
<1>11. a \o b = [j \in 1..m |-> (a \o b)[j]]
  <2> PICK c : c = a \o b
    OBVIOUS
  <2>1. c \in Seq(V) /\ Len(c) = m
    BY <1>6, Zenon
  <2>2. Enumerated(c, m)
    BY <2>1, ElementByElement
  <2> QED BY <2>2, Zenon DEF Enumerated
<1>12. Operations(ScriptLess(s, n, i), m) = [j \in 1..m |-> Operations(ScriptLess(s, n, i), m)[j]]
  BY DEF Operations
<1> QED BY <1>8, <1>10, <1>11, <1>12


\* What is known of a text: the sequences after each operation.
Writes(f, base, s, n) ==
  /\ \A k \in 0..n : f[k] \in Seq(Letters)
  /\ f[0] = <<>>
  /\ \A k \in 1..n : f[k] = f[k - 1] \o Piece(base, s[k])

LEMMA TextWrites ==
  ASSUME NEW base, Lettered(base), NEW s, NEW n \in Nat, Len(s) = n, AllFit(base, s, n)
  PROVE  \E f : Writes(f, base, s, n) /\ Text(base, s) = f[n] /\ Text(base, s) \in Seq(Letters)
<1>1. PICK f : IsText(f, base, s, n) /\ Text(base, s) = f[n]
  BY TextIs
<1>2. \A k \in 0..n : f[k] \in Seq(Letters)
  BY <1>1, TextGrows
<1>3. \A k \in 0..n : f[k] = IF k = 0 THEN <<>> ELSE f[k - 1] \o Piece(base, s[k])
  BY <1>1 DEF IsText
<1>4. 0 \in 0..n /\ n \in 0..n /\ \A k \in 1..n : k \in 0..n /\ k # 0
  OBVIOUS
<1> QED BY <1>1, <1>2, <1>3, <1>4 DEF Writes

LEMMA ConcatLen ==
  ASSUME NEW a \in Seq(Letters), NEW b \in Seq(Letters)
  PROVE  Len(a \o b) = Len(a) + Len(b) /\ Len(a) \in Nat /\ Len(b) \in Nat
BY ConcatProperties

LEMMA SumsDiffer ==
  ASSUME NEW l \in Nat, NEW p \in Nat, NEW d \in Nat, l + p = d, p >= 1
  PROVE  l # d
OBVIOUS

Apart(a, p, b) == Len(a) + Len(p) = Len(b)

LEMMA SumsLonger ==
  ASSUME NEW l \in Nat, NEW p \in Nat, NEW d \in Nat, NEW q \in Nat, l + p = d
  PROVE  (l + q) + p = d + q
OBVIOUS

LEMMA BothLonger ==
  ASSUME NEW a \in Seq(Letters), NEW b \in Seq(Letters), NEW p \in Seq(Letters), NEW q \in Seq(Letters),
         Apart(a, p, b)
  PROVE  Apart(a \o q, p, b \o q)
<1>1. Len(a \o q) = Len(a) + Len(q)
  BY ConcatLen
<1>2. Len(b \o q) = Len(b) + Len(q)
  BY ConcatLen
<1>3. Len(a) \in Nat /\ Len(b) \in Nat /\ Len(p) \in Nat /\ Len(q) \in Nat /\ Len(a) + Len(p) = Len(b)
  BY ConcatLen DEF Apart
<1>4. (Len(a) + Len(q)) + Len(p) = Len(b) + Len(q)
  <2> PICK l \in Nat, h \in Nat, d \in Nat, k \in Nat : l = Len(a) /\ h = Len(p) /\ d = Len(b) /\ k = Len(q)
    BY <1>3
  <2>1. l + h = d
    BY <1>3
  <2>2. (l + k) + h = d + k
    BY <2>1, SumsLonger
  <2> QED BY <2>2
<1> QED BY <1>1, <1>2, <1>4 DEF Apart

\* The texts agree up to the operation that is left out, and from there on
\* differ by the length of its piece.
LEMMA TextShorter ==
  ASSUME NEW base, Lettered(base), NEW s, NEW n \in Nat, AllFit(base, s, n), NEW i \in 1..n,
         NEW f, Writes(f, base, s, n), NEW g, Writes(g, base, ScriptLess(s, n, i), n - 1)
  PROVE  Apart(g[n - 1], Piece(base, s[i]), f[n])
<1> PICK t : t = ScriptLess(s, n, i)
  OBVIOUS
<1>0. \A j \in 1..(n - 1) : t[j] = IF j < i THEN s[j] ELSE s[j + 1]
  BY ScriptLessLen
<1> PICK p \in Seq(Letters) : p = Piece(base, s[i])
  BY PieceType DEF AllFit
<1>1. \A k \in 0..(i - 1) : g[k] = f[k]
  <2> DEFINE D == {k \in 0..(i - 1) : g[k] # f[k]}
  <2>1. ASSUME D # {} PROVE FALSE
    <3>1. PICK k \in D : \A j \in D : k <= j
      <4>1. D \subseteq Nat
        OBVIOUS
      <4> HIDE DEF D
      <4> QED BY <2>1, <4>1, Smallest
    <3>2. k \in 0..(i - 1) /\ g[k] # f[k]
      BY <3>1
    <3>3. k # 0
      BY <3>2 DEF Writes
    <3>4. k \in 1..n /\ k \in 1..(n - 1) /\ k < i /\ k - 1 \in 0..(i - 1) /\ ~(k <= k - 1)
      BY <3>2, <3>3
    <3>5. g[k - 1] = f[k - 1]
      BY <3>1, <3>4
    <3> HIDE DEF D
    <3>6. f[k] = f[k - 1] \o Piece(base, s[k]) /\ g[k] = g[k - 1] \o Piece(base, t[k])
      BY <3>4 DEF Writes
    <3> QED BY <1>0, <3>2, <3>4, <3>5, <3>6
  <2> QED BY <2>1
<1> DEFINE D == {k \in (i - 1)..(n - 1) : ~Apart(g[k], p, f[k + 1])}
<1>2. ASSUME D # {} PROVE FALSE
  <2>1. PICK k \in D : \A j \in D : k <= j
    <3>1. D \subseteq Nat
      <4>1. D \subseteq (i - 1)..(n - 1)
        OBVIOUS
      <4>2. (i - 1)..(n - 1) \subseteq Nat
        OBVIOUS
      <4> HIDE DEF D
      <4> QED BY <4>1, <4>2
    <3> HIDE DEF D
    <3> QED BY <1>2, <3>1, Smallest
  <2>2. k \in (i - 1)..(n - 1) /\ ~Apart(g[k], p, f[k + 1])
    BY <2>1
  <2>3. k + 1 \in 1..n /\ (k + 1) - 1 = k /\ k \in 0..n /\ k \in 0..(n - 1)
    BY <2>2
  <2>4. f[k + 1] = f[k] \o Piece(base, s[k + 1])
    BY <2>3 DEF Writes
  <2>5. CASE k = i - 1
    <3>1. g[k] = f[k] /\ k + 1 = i
      BY <1>1, <2>2, <2>5
    <3>2. f[k + 1] = f[k] \o p /\ f[k] \in Seq(Letters)
      BY <2>3, <2>4, <3>1 DEF Writes
    <3> HIDE DEF D
    <3>3. Apart(f[k], p, f[k] \o p)
      BY <3>2, ConcatLen DEF Apart
    <3> QED BY <2>2, <3>1, <3>2, <3>3
  <2>6. CASE k # i - 1
    <3>1. k - 1 \in (i - 1)..(n - 1) /\ ~(k <= k - 1) /\ k \in 1..(n - 1) /\ ~(k < i) /\ (k - 1) + 1 = k /\ k - 1 \in 0..(n - 1)
      BY <2>2, <2>6
    <3>2. Apart(g[k - 1], p, f[k])
      BY <2>1, <3>1
    <3> HIDE DEF D
    <3>3. g[k] = g[k - 1] \o Piece(base, t[k]) /\ t[k] = s[k + 1]
      BY <1>0, <3>1 DEF Writes
    <3>4. g[k - 1] \in Seq(Letters) /\ f[k] \in Seq(Letters)
      BY <2>3, <3>1 DEF Writes
    <3> PICK q \in Seq(Letters) : q = Piece(base, s[k + 1])
      BY <2>3, PieceType DEF AllFit
    <3> PICK a \in Seq(Letters), b \in Seq(Letters) : a = g[k - 1] /\ b = f[k]
      BY <3>4
    <3>5. Apart(a, p, b) /\ g[k] = a \o q /\ f[k + 1] = b \o q
      BY <2>4, <3>2, <3>3
    <3>6. Apart(a \o q, p, b \o q)
      BY <3>5, BothLonger
    <3> QED BY <2>2, <3>5, <3>6
  <2> QED BY <2>5, <2>6
<1>3. n - 1 \in (i - 1)..(n - 1) /\ (n - 1) + 1 = n
  OBVIOUS
<1> QED BY <1>2, <1>3

\* What a script of git's holds.
Written(base, s, n) ==
  /\ Len(s) = n /\ AllFit(base, s, n)
  /\ \A i \in 1..n : s[i].kind = "insert" => Len(s[i].bytes) >= 1

LEMMA DeltaDecodes ==
  ASSUME NEW base, Lettered(base), NEW s, NEW n \in Nat, Written(base, s, n)
  PROVE  /\ apply_delta(base, Encoded(base, s)) = Text(base, s)
         /\ \A i \in 1..n : apply_delta(base, [Encoded(base, s) EXCEPT !.ops = RemoveAt(@, i)]) = Malformed
<1> PICK d : d = Encoded(base, s)
  OBVIOUS
<1>1. Len(s) = n /\ AllFit(base, s, n) /\ \A i \in 1..n : s[i].kind = "insert" => Len(s[i].bytes) >= 1
  BY DEF Written
<1>2. PICK f : Writes(f, base, s, n) /\ Text(base, s) = f[n] /\ Text(base, s) \in Seq(Letters)
  BY <1>1, TextWrites
<1> PICK dst \in Nat : dst = Len(Text(base, s))
  BY <1>2
<1>3. d.src = Len(base) /\ d.dst = dst /\ d.ops = Operations(s, n)
  BY <1>1 DEF Encoded, Operations
<1>4. apply_delta(base, d) = Text(base, s)
  <2>1. Carries(d, base, dst, s, n)
    BY <1>3 DEF Carries
  <2>2. Outcome(base, d, dst, Text(base, s))
    BY <1>1, <2>1, Applied
  <2> QED BY <2>2 DEF Outcome
<1>5. ASSUME NEW i \in 1..n
      PROVE  apply_delta(base, [d EXCEPT !.ops = RemoveAt(@, i)]) = Malformed
  <2> PICK t : t = ScriptLess(s, n, i)
    OBVIOUS
  <2> PICK m \in Nat : m = n - 1
    OBVIOUS
  <2>1. Len(t) = m /\ \A j \in 1..m : t[j] = IF j < i THEN s[j] ELSE s[j + 1]
    BY ScriptLessLen
  <2>2. ASSUME NEW j \in 1..m PROVE Fits(base, t[j])
    <3>1. j \in 1..n /\ j + 1 \in 1..n
      OBVIOUS
    <3> QED BY <1>1, <2>1, <3>1 DEF AllFit
  <2>3. PICK g : Writes(g, base, t, m) /\ Text(base, t) = g[m] /\ Text(base, t) \in Seq(Letters)
    BY <2>1, <2>2, TextWrites DEF AllFit
  <2>4. Apart(g[m], Piece(base, s[i]), f[n])
    <3>1. AllFit(base, s, n)
      BY <1>1
    <3>2. Writes(f, base, s, n) /\ Writes(g, base, ScriptLess(s, n, i), n - 1)
      BY <1>2, <2>3
    <3>3. Apart(g[n - 1], Piece(base, s[i]), f[n])
      BY <3>1, <3>2, TextShorter
    <3> QED BY <3>3
  <2>5. Len(Piece(base, s[i])) >= 1 /\ Len(Piece(base, s[i])) \in Nat
    <3>1. Fits(base, s[i])
      BY <1>1 DEF AllFit
    <3>2. Piece(base, s[i]) \in Seq(Letters) /\ Len(Piece(base, s[i])) = IF s[i].kind = "insert" THEN Len(s[i].bytes) ELSE s[i].n
      BY <3>1, PieceType
    <3>3. s[i].kind \in {"insert", "copy"} /\ (s[i].kind = "copy" => s[i].n >= 1)
      BY <3>1 DEF Fits
    <3> QED BY <1>1, <3>2, <3>3
  <2>6. Len(Text(base, t)) # dst
    <3> PICK l \in Nat : l = Len(g[m])
      BY <2>3
    <3> PICK p \in Nat : p = Len(Piece(base, s[i]))
      BY <2>5
    <3>1. l + p = dst /\ p >= 1
      BY <1>2, <2>4, <2>5 DEF Apart
    <3>2. l # dst
      BY <3>1, SumsDiffer
    <3> QED BY <2>3, <3>2
  <2> PICK e : e = [d EXCEPT !.ops = RemoveAt(@, i)]
    OBVIOUS
  <2>7. e.src = Len(base) /\ e.dst = dst /\ e.ops = Operations(t, m)
    <3>1. RemoveAt(Operations(s, n), i) = Operations(t, m)
      BY RemovedOperation
    <3>2. e.src = d.src /\ e.dst = d.dst /\ e.ops = RemoveAt(d.ops, i)
      BY DEF Encoded
    <3> QED BY <1>3, <3>1, <3>2
  <2>8. apply_delta(base, e) = Malformed
    <3>1. Len(t) = m /\ AllFit(base, t, m)
      BY <2>1, <2>2 DEF AllFit
    <3>2. Carries(e, base, dst, t, m)
      BY <2>7 DEF Carries
    <3>3. Outcome(base, e, dst, Text(base, t))
      BY <3>1, <3>2, Applied
    <3> QED BY <2>6, <3>3 DEF Outcome
  <2> QED BY <2>8
<1> QED BY <1>4, <1>5


LEMMA LiteralFits ==
  ASSUME NEW base, NEW bytes \in Seq(Letters)
  PROVE  Fits(base, Literal(bytes)) /\ Literal(bytes).kind = "insert" /\ Literal(bytes).bytes = bytes
<1>1. 0 \in Nat
  OBVIOUS
<1> QED BY <1>1 DEF Fits, Literal

LEMMA SpanFits ==
  ASSUME NEW base, NEW from \in Nat, NEW n \in Nat, n >= 1, from + n <= Len(base),
         from < Base * (Base * Base), n < Base * (Base * Base)
  PROVE  Fits(base, Span(from, n)) /\ Span(from, n).kind = "copy"
<1>1. <<>> \in Seq(Letters)
  OBVIOUS
<1> QED BY <1>1 DEF Fits, Span

LEMMA ScriptWritten ==
  ASSUME NEW base, Lettered(base), Len(base) < Base * (Base * Base), NEW s \in Scripts(base)
  PROVE  \E n \in Nat : DOMAIN s = 1..n /\ Written(base, s, n)
<1> DEFINE pairs == {c \in (0..Len(base)) \X (1..Len(base)) : c[1] + c[2] <= Len(base)}
           X == {Literal(<<"b">>), Literal(<<"a", "b">>)} \cup {Span(c[1], c[2]) : c \in pairs}
<1>1. PICK n \in 0..2 : s \in [1..n -> X]
  BY DEF Scripts, SeqOf
<1>2. n \in Nat /\ Len(s) = n /\ DOMAIN s = 1..n
  BY <1>1
<1>3. <<"b">> \in Seq(Letters) /\ <<"a", "b">> \in Seq(Letters) /\ Len(<<"b">>) >= 1 /\ Len(<<"a", "b">>) >= 1
  BY DEF Letters
<1>4. ASSUME NEW x \in X
      PROVE  Fits(base, x) /\ (x.kind = "insert" => Len(x.bytes) >= 1)
  <2>1. CASE x = Literal(<<"b">>) \/ x = Literal(<<"a", "b">>)
    BY <1>3, <2>1, LiteralFits
  <2>2. CASE \E c \in pairs : x = Span(c[1], c[2])
    <3> PICK c \in pairs : x = Span(c[1], c[2])
      BY <2>2
    <3> PICK l \in Nat : l = Len(base)
      BY DEF Lettered
    <3>1. c[1] \in 0..l /\ c[2] \in 1..l /\ c[1] + c[2] <= l
      OBVIOUS
    <3> HIDE DEF pairs
    <3>2. c[1] \in Nat /\ c[2] \in Nat /\ c[2] >= 1
      BY <3>1
    <3> PICK most \in Nat : most = Base * (Base * Base)
      BY EntryAssumption
    <3>3. c[1] < most /\ c[2] < most
      BY <3>1
    <3> QED BY <3>1, <3>2, <3>3, SpanFits
  <2> QED BY <2>1, <2>2
<1> HIDE DEF X
<1>5. \A i \in 1..n : s[i] \in X
  BY <1>1
<1> QED BY <1>2, <1>4, <1>5 DEF Written, AllFit

LEMMA DeltasAll == DeltasDecode
<1> SUFFICES ASSUME NEW base \in Payloads, NEW s \in Scripts(base)
             PROVE  /\ apply_delta(base, Encoded(base, s)) = Text(base, s)
                    /\ \A i \in DOMAIN s : apply_delta(base, [Encoded(base, s) EXCEPT !.ops = RemoveAt(@, i)]) = Malformed
  BY DEF DeltasDecode
<1>1. Lettered(base) /\ Len(base) < Base * (Base * Base)
  BY EntryAssumption DEF Lettered
<1>2. PICK n \in Nat : DOMAIN s = 1..n /\ Written(base, s, n)
  BY <1>1, ScriptWritten
<1>3. /\ apply_delta(base, Encoded(base, s)) = Text(base, s)
      /\ \A i \in 1..n : apply_delta(base, [Encoded(base, s) EXCEPT !.ops = RemoveAt(@, i)]) = Malformed
  BY <1>1, <1>2, DeltaDecodes
<1> QED BY <1>2, <1>3


-----------------------------------------------------------------------------
(* Packs.                                                                  *)

IsOffsets(f, plan, n) == f = [k \in 0..n |-> IF k = 0 THEN 12 ELSE f[k - 1] + plan[k].len]

LEMMA OffsetsExist ==
  ASSUME NEW plan, NEW m \in Nat
  PROVE  \E f : IsOffsets(f, plan, m)
<1> DEFINE T == {k \in Nat : ~\E f : IsOffsets(f, plan, k)}
<1>1. SUFFICES ASSUME T # {} PROVE FALSE
  OBVIOUS
<1>2. PICK k \in T : \A j \in T : k <= j
  <2>1. T \subseteq Nat
    OBVIOUS
  <2> HIDE DEF T
  <2> QED BY <1>1, <2>1, Smallest
<1>3. CASE k = 0
  <2> DEFINE f == [j \in 0..0 |-> 12]
  <2>1. \A j \in 0..0 : j = 0
    OBVIOUS
  <2>2. f = [j \in 0..0 |-> IF j = 0 THEN 12 ELSE f[j - 1] + plan[j].len]
    <3>1. f = [j \in 0..0 |-> 12]
      OBVIOUS
    <3> HIDE DEF f
    <3> QED BY <2>1, <3>1
  <2> HIDE DEF f
  <2> QED BY <1>2, <1>3, <2>2 DEF IsOffsets
<1>4. CASE k # 0
  <2>1. k - 1 \in Nat /\ ~(k <= k - 1)
    BY <1>2, <1>4
  <2>2. PICK g : IsOffsets(g, plan, k - 1)
    BY <1>2, <2>1
  <2> DEFINE f == [j \in 0..k |-> IF j = k THEN g[k - 1] + plan[k].len ELSE g[j]]
  <2>3. \A j \in 0..k : j # k => f[j] = g[j]
    OBVIOUS
  <2>4. \A j \in 0..(k - 1) : g[j] = IF j = 0 THEN 12 ELSE g[j - 1] + plan[j].len
    BY <2>2 DEF IsOffsets
  <2>5. \A j \in 0..k : j # 0 => j - 1 \in 0..k /\ j - 1 # k
    BY <1>2
  <2>6. \A j \in 0..k : j # k => j \in 0..(k - 1)
    BY <1>2
  <2>7. \A j \in 0..k : (IF j = k THEN g[k - 1] + plan[k].len ELSE g[j])
                          = IF j = 0 THEN 12 ELSE f[j - 1] + plan[j].len
    <3> SUFFICES ASSUME NEW j \in 0..k
                 PROVE (IF j = k THEN g[k - 1] + plan[k].len ELSE g[j])
                          = IF j = 0 THEN 12 ELSE f[j - 1] + plan[j].len
      OBVIOUS
    <3> HIDE DEF f
    <3>1. j # 0 => f[j - 1] = g[j - 1]
      BY <2>3, <2>5
    <3> QED BY <1>4, <2>4, <2>6, <3>1
  <2>8. f = [j \in 0..k |-> IF j = 0 THEN 12 ELSE f[j - 1] + plan[j].len]
    <3>1. f = [j \in 0..k |-> IF j = k THEN g[k - 1] + plan[k].len ELSE g[j]]
      OBVIOUS
    <3> HIDE DEF f
    <3> QED BY <2>7, <3>1
  <2> HIDE DEF f
  <2>9. IsOffsets(f, plan, k)
    BY <2>8 DEF IsOffsets
  <2> QED BY <1>2, <2>9
<1> QED BY <1>3, <1>4

NoBase(plan) == {i \in 1..Len(plan) : plan[i].base = 0}
OneAbove(plan, W) == NoBase(plan) \cup {i \in 1..Len(plan) : plan[i].base \in W}

IsWithin(f, plan, n) == f = [k \in 0..n |-> IF k = 0 THEN NoBase(plan) ELSE OneAbove(plan, f[k - 1])]

LEMMA WithinExists ==
  ASSUME NEW plan, NEW m \in Nat
  PROVE  \E f : IsWithin(f, plan, m)
<1> DEFINE T == {k \in Nat : ~\E f : IsWithin(f, plan, k)}
<1>1. SUFFICES ASSUME T # {} PROVE FALSE
  OBVIOUS
<1>2. PICK k \in T : \A j \in T : k <= j
  <2>1. T \subseteq Nat
    OBVIOUS
  <2> HIDE DEF T
  <2> QED BY <1>1, <2>1, Smallest
<1>3. CASE k = 0
  <2> DEFINE f == [j \in 0..0 |-> NoBase(plan)]
  <2>1. \A j \in 0..0 : j = 0
    OBVIOUS
  <2>2. f = [j \in 0..0 |-> IF j = 0 THEN NoBase(plan) ELSE OneAbove(plan, f[j - 1])]
    <3>1. f = [j \in 0..0 |-> NoBase(plan)]
      OBVIOUS
    <3> HIDE DEF f
    <3> QED BY <2>1, <3>1
  <2> HIDE DEF f
  <2> QED BY <1>2, <1>3, <2>2 DEF IsWithin
<1>4. CASE k # 0
  <2>1. k - 1 \in Nat /\ ~(k <= k - 1)
    BY <1>2, <1>4
  <2>2. PICK g : IsWithin(g, plan, k - 1)
    BY <1>2, <2>1
  <2> DEFINE f == [j \in 0..k |-> IF j = k THEN OneAbove(plan, g[k - 1]) ELSE g[j]]
  <2>3. \A j \in 0..k : j # k => f[j] = g[j]
    OBVIOUS
  <2>4. \A j \in 0..(k - 1) : g[j] = IF j = 0 THEN NoBase(plan) ELSE OneAbove(plan, g[j - 1])
    BY <2>2 DEF IsWithin
  <2>5. \A j \in 0..k : j # 0 => j - 1 \in 0..k /\ j - 1 # k
    BY <1>2
  <2>6. \A j \in 0..k : j # k => j \in 0..(k - 1)
    BY <1>2
  <2>7. \A j \in 0..k : (IF j = k THEN OneAbove(plan, g[k - 1]) ELSE g[j])
                          = IF j = 0 THEN NoBase(plan) ELSE OneAbove(plan, f[j - 1])
    <3> SUFFICES ASSUME NEW j \in 0..k
                 PROVE (IF j = k THEN OneAbove(plan, g[k - 1]) ELSE g[j])
                          = IF j = 0 THEN NoBase(plan) ELSE OneAbove(plan, f[j - 1])
      OBVIOUS
    <3> HIDE DEF f
    <3>1. j # 0 => f[j - 1] = g[j - 1]
      BY <2>3, <2>5
    <3> QED BY <1>4, <2>4, <2>6, <3>1
  <2>8. f = [j \in 0..k |-> IF j = 0 THEN NoBase(plan) ELSE OneAbove(plan, f[j - 1])]
    <3>1. f = [j \in 0..k |-> IF j = k THEN OneAbove(plan, g[k - 1]) ELSE g[j]]
      OBVIOUS
    <3> HIDE DEF f
    <3> QED BY <2>7, <3>1
  <2> HIDE DEF f
  <2>9. IsWithin(f, plan, k)
    BY <2>8 DEF IsWithin
  <2> QED BY <1>2, <2>9
<1> QED BY <1>3, <1>4

\* The objects of a pack as they are decoded at a depth, from those that are
\* one delta deeper.
BaseOffset(pack, off) == IF pack.at[off].kind = "ofs" THEN off - pack.at[off].distance
                         ELSE pack.of[pack.at[off].base]

Level(pack, depth, below) ==
  [off \in DOMAIN pack.at |->
     IF TooDeep(depth) \/ ~Inflates(pack, off) THEN Malformed
     ELSE IF pack.at[off].kind = "full" THEN pack.at[off].data
     ELSE IF below[BaseOffset(pack, off)] = Malformed THEN Malformed
     ELSE apply_delta(below[BaseOffset(pack, off)], pack.at[off].delta)]

IsLevels(f, pack) == f = [depth \in 0..(MaxDepth + 1) |-> Level(pack, depth, f[depth + 1])]

\* The same from the deepest level up.
IsRaised(f, pack, n) ==
  f = [k \in 0..n |-> IF k = 0 THEN Level(pack, MaxDepth + 1, <<>>)
                      ELSE Level(pack, (MaxDepth + 1) - k, f[k - 1])]

LEMMA RaisedExists ==
  ASSUME NEW pack, NEW m \in Nat
  PROVE  \E f : IsRaised(f, pack, m)
<1> DEFINE T == {k \in Nat : ~\E f : IsRaised(f, pack, k)}
<1>1. SUFFICES ASSUME T # {} PROVE FALSE
  OBVIOUS
<1>2. PICK k \in T : \A j \in T : k <= j
  <2>1. T \subseteq Nat
    OBVIOUS
  <2> HIDE DEF T
  <2> QED BY <1>1, <2>1, Smallest
<1>3. CASE k = 0
  <2> DEFINE f == [j \in 0..0 |-> Level(pack, MaxDepth + 1, <<>>)]
  <2>1. \A j \in 0..0 : j = 0
    OBVIOUS
  <2>2. f = [j \in 0..0 |-> IF j = 0 THEN Level(pack, MaxDepth + 1, <<>>) ELSE Level(pack, (MaxDepth + 1) - j, f[j - 1])]
    <3>1. f = [j \in 0..0 |-> Level(pack, MaxDepth + 1, <<>>)]
      OBVIOUS
    <3> HIDE DEF f
    <3> QED BY <2>1, <3>1
  <2> HIDE DEF f
  <2> QED BY <1>2, <1>3, <2>2 DEF IsRaised
<1>4. CASE k # 0
  <2>1. k - 1 \in Nat /\ ~(k <= k - 1)
    BY <1>2, <1>4
  <2>2. PICK g : IsRaised(g, pack, k - 1)
    BY <1>2, <2>1
  <2> DEFINE f == [j \in 0..k |-> IF j = k THEN Level(pack, (MaxDepth + 1) - k, g[k - 1]) ELSE g[j]]
  <2>3. \A j \in 0..k : j # k => f[j] = g[j]
    OBVIOUS
  <2>4. \A j \in 0..(k - 1) : g[j] = IF j = 0 THEN Level(pack, MaxDepth + 1, <<>>) ELSE Level(pack, (MaxDepth + 1) - j, g[j - 1])
    BY <2>2 DEF IsRaised
  <2>5. \A j \in 0..k : j # 0 => j - 1 \in 0..k /\ j - 1 # k
    BY <1>2
  <2>6. \A j \in 0..k : j # k => j \in 0..(k - 1)
    BY <1>2
  <2>7. \A j \in 0..k : (IF j = k THEN Level(pack, (MaxDepth + 1) - k, g[k - 1]) ELSE g[j])
                          = IF j = 0 THEN Level(pack, MaxDepth + 1, <<>>) ELSE Level(pack, (MaxDepth + 1) - j, f[j - 1])
    <3> SUFFICES ASSUME NEW j \in 0..k
                 PROVE (IF j = k THEN Level(pack, (MaxDepth + 1) - k, g[k - 1]) ELSE g[j])
                          = IF j = 0 THEN Level(pack, MaxDepth + 1, <<>>) ELSE Level(pack, (MaxDepth + 1) - j, f[j - 1])
      OBVIOUS
    <3> HIDE DEF f
    <3>1. j # 0 => f[j - 1] = g[j - 1]
      BY <2>3, <2>5
    <3> QED BY <1>4, <2>4, <2>6, <3>1
  <2>8. f = [j \in 0..k |-> IF j = 0 THEN Level(pack, MaxDepth + 1, <<>>) ELSE Level(pack, (MaxDepth + 1) - j, f[j - 1])]
    <3>1. f = [j \in 0..k |-> IF j = k THEN Level(pack, (MaxDepth + 1) - k, g[k - 1]) ELSE g[j]]
      OBVIOUS
    <3> HIDE DEF f
    <3> QED BY <2>7, <3>1
  <2> HIDE DEF f
  <2>9. IsRaised(f, pack, k)
    BY <2>8 DEF IsRaised
  <2> QED BY <1>2, <2>9
<1> QED BY <1>3, <1>4

LEMMA Deepest ==
  ASSUME NEW pack, NEW x
  PROVE  Level(pack, MaxDepth + 1, x) = [off \in DOMAIN pack.at |-> Malformed]
<1>1. TooDeep(MaxDepth + 1)
  BY EntryAssumption DEF TooDeep
<1> QED BY <1>1 DEF Level

LEMMA LevelsExist ==
  ASSUME NEW pack
  PROVE  \E f : IsLevels(f, pack)
<1> PICK n \in Nat : n = MaxDepth + 1
  BY EntryAssumption
<1>1. PICK g : IsRaised(g, pack, n)
  BY RaisedExists
<1>2. \A k \in 0..n : g[k] = IF k = 0 THEN Level(pack, n, <<>>) ELSE Level(pack, n - k, g[k - 1])
  BY <1>1 DEF IsRaised
<1> DEFINE f == [d \in 0..n |-> g[n - d]]
<1>3. ASSUME NEW d \in 0..n
      PROVE  g[n - d] = Level(pack, d, f[d + 1])
  <2>1. CASE d = n
    <3>1. n - d = 0 /\ 0 \in 0..n
      BY <2>1
    <3>2. g[n - d] = Level(pack, n, <<>>)
      BY <1>2, <3>1
    <3> HIDE DEF f
    <3>3. Level(pack, n, <<>>) = Level(pack, n, f[d + 1])
      BY Deepest
    <3> QED BY <2>1, <3>2, <3>3
  <2>2. CASE d # n
    <3>1. n - d \in 0..n /\ n - d # 0 /\ (n - d) - 1 = n - (d + 1) /\ n - (n - d) = d /\ d + 1 \in 0..n
      BY <2>2
    <3>2. f[d + 1] = g[n - (d + 1)]
      BY <3>1
    <3> HIDE DEF f
    <3> QED BY <1>2, <3>1, <3>2
  <2> QED BY <2>1, <2>2
<1>4. f = [d \in 0..n |-> Level(pack, d, f[d + 1])]
  <2>1. f = [d \in 0..n |-> g[n - d]]
    OBVIOUS
  <2> HIDE DEF f
  <2> QED BY <1>3, <2>1
<1> HIDE DEF f
<1>5. IsLevels(f, pack)
  BY <1>4 DEF IsLevels
<1> QED BY <1>5

LEMMA DecodeIs ==
  ASSUME NEW pack, NEW start
  PROVE  \E f : IsLevels(f, pack) /\ decode_entry(pack, start) = f[0][start]
<1>1. decode_entry(pack, start) = (CHOOSE f : IsLevels(f, pack))[0][start]
  BY DEF decode_entry, IsLevels, Level, BaseOffset
<1> QED BY <1>1, LevelsExist

LEMMA WithinIs ==
  ASSUME NEW plan, NEW n \in Nat
  PROVE  \E f : IsWithin(f, plan, n) /\ Within(plan, n) = f[n]
<1>1. Within(plan, n) = (CHOOSE f : IsWithin(f, plan, n))[n]
  BY DEF Within, IsWithin, NoBase, OneAbove
<1> QED BY <1>1, WithinExists

LEMMA AtIs ==
  ASSUME NEW plan, Len(plan) \in Nat
  PROVE  \E f : IsOffsets(f, plan, Len(plan)) /\ \A i : At(plan, i) = f[i - 1]
<1>1. \A i : At(plan, i) = (CHOOSE f : IsOffsets(f, plan, Len(plan)))[i - 1]
  BY DEF At, IsOffsets
<1> QED BY <1>1, OffsetsExist


\* The entries of a pack lie one behind the other.
LEMMA Offsets ==
  ASSUME NEW plan \in Plans
  PROVE  /\ \A i \in 1..Len(plan) : At(plan, i) \in Nat
         /\ \A i, j \in 1..Len(plan) : i < j => At(plan, i) < At(plan, j)
         /\ \A i \in 1..(Len(plan) - 1) : At(plan, i + 1) = At(plan, i) + plan[i].len
<1> PICK n \in Nat : n = Len(plan)
  BY EntryAssumption
<1>1. \A i \in 1..n : plan[i].len \in Nat /\ plan[i].len > 0
  <2>1. plan \in Seq([base : Nat, len : Nat \ {0}])
    BY EntryAssumption
  <2> PICK E : E = [base : Nat, len : Nat \ {0}]
    OBVIOUS
  <2>2. ASSUME NEW i \in 1..n PROVE plan[i] \in E
    <3>1. plan \in Seq(E) /\ i \in 1..Len(plan)
      BY <2>1
    <3> QED BY <3>1, ElementOfSeq
  <2>3. ASSUME NEW e \in E PROVE e.len \in Nat /\ e.len > 0
    <3>1. e.len \in Nat \ {0}
      OBVIOUS
    <3> QED BY <3>1
  <2> QED BY <2>2, <2>3
<1>2. PICK f : IsOffsets(f, plan, n) /\ \A i : At(plan, i) = f[i - 1]
  BY AtIs
<1>3. f[0] = 12 /\ \A k \in 1..n : f[k] = f[k - 1] + plan[k].len
  <2>1. \A k \in 0..n : f[k] = IF k = 0 THEN 12 ELSE f[k - 1] + plan[k].len
    BY <1>2 DEF IsOffsets
  <2>2. 0 \in 0..n /\ \A k \in 1..n : k \in 0..n /\ k # 0
    OBVIOUS
  <2> QED BY <2>1, <2>2
<1> DEFINE Good(k) == f[k] \in Nat /\ \A j \in 0..n : j < k => f[j] < f[k]
           D == {k \in 0..n : ~Good(k)}
<1>4. ASSUME D # {} PROVE FALSE
  <2>1. PICK k \in D : \A j \in D : k <= j
    <3>1. D \subseteq Nat
      OBVIOUS
    <3> HIDE DEF D
    <3> QED BY <1>4, <3>1, Smallest
  <2>2. k \in 0..n /\ ~Good(k)
    BY <2>1
  <2>3. CASE k = 0
    <3>1. f[k] \in Nat /\ \A j \in 0..n : ~(j < k)
      BY <1>3, <2>3
    <3> QED BY <2>2, <3>1
  <2>4. CASE k # 0
    <3>1. k \in 1..n /\ k - 1 \in 0..n /\ ~(k <= k - 1)
      BY <2>2, <2>4
    <3>2. Good(k - 1)
      BY <2>1, <3>1
    <3> HIDE DEF D
    <3> PICK a \in Nat : a = f[k - 1]
      BY <3>2
    <3> PICK l \in Nat : l = plan[k].len /\ l > 0
      BY <1>1, <3>1
    <3>3. f[k] = a + l
      BY <1>3, <3>1
    <3>4. a + l \in Nat /\ a < a + l
      OBVIOUS
    <3>5. ASSUME NEW j \in 0..n, j < k PROVE f[j] < f[k]
      <4>1. j = k - 1 \/ j < k - 1
        BY <3>1, <3>5
      <4>2. ASSUME j < k - 1 PROVE f[j] < a /\ f[j] \in Nat
        <5>1. f[j] < a
          BY <3>2, <4>2
        <5>2. j \notin D
          <6>1. ~(k <= j)
            BY <2>2, <3>5
          <6> QED BY <2>1, <6>1
        <5>3. Good(j)
          BY <5>2 DEF D
        <5> QED BY <5>1, <5>3
      <4>3. CASE j < k - 1
        <5> PICK b \in Nat : b = f[j] /\ b < a
          BY <4>2, <4>3
        <5>1. b < a + l
          OBVIOUS
        <5> QED BY <3>3, <5>1
      <4> QED BY <3>3, <3>4, <4>1, <4>3
    <3> QED BY <2>2, <3>3, <3>4, <3>5
  <2> QED BY <2>3, <2>4
<1>5. \A k \in 0..n : f[k] \in Nat /\ \A j \in 0..n : j < k => f[j] < f[k]
  BY <1>4
<1> HIDE DEF D, Good
<1>6. \A i \in 1..n : i - 1 \in 0..n
  OBVIOUS
<1>7. \A i, j \in 1..n : i < j => i - 1 < j - 1
  OBVIOUS
<1>8. \A i \in 1..(n - 1) : (i + 1) - 1 = i /\ i \in 1..n
  OBVIOUS
<1>9. \A i \in 1..(n - 1) : At(plan, i + 1) = At(plan, i) + plan[i].len
  BY <1>2, <1>3, <1>8
<1>10. \A i, j \in 1..n : i < j => At(plan, i) < At(plan, j)
  BY <1>2, <1>5, <1>6, <1>7
<1> QED BY <1>2, <1>5, <1>6, <1>9, <1>10


PlannedAt(plan) == {At(plan, i) : i \in 1..Len(plan)}

\* What a packed plan holds where.
LEMMA PackedAt ==
  ASSUME NEW plan \in Plans
  PROVE  /\ DOMAIN Packed(plan).at = PlannedAt(plan)
         /\ \A i \in 1..Len(plan) : /\ Packed(plan).at[At(plan, i)] = Planned(plan, i)
                                    /\ Packed(plan).len[At(plan, i)] = plan[i].len
                                    /\ Packed(plan).of[i] = At(plan, i)
                                    /\ At(plan, i) \in PlannedAt(plan)
<1> PICK n \in Nat : n = Len(plan)
  BY EntryAssumption
<1> DEFINE which(off) == CHOOSE i \in 1..n : At(plan, i) = off
<1>1. ASSUME NEW i \in 1..n PROVE which(At(plan, i)) = i
  <2>1. \A j \in 1..n : At(plan, j) = At(plan, i) => j = i
    <3> SUFFICES ASSUME NEW j \in 1..n, At(plan, j) = At(plan, i) PROVE j = i
      OBVIOUS
    <3>1. At(plan, i) \in Nat /\ (i < j => At(plan, i) < At(plan, j)) /\ (j < i => At(plan, j) < At(plan, i))
      BY Offsets
    <3>2. ~(i < j) /\ ~(j < i)
      BY <3>1
    <3> QED BY <3>2
  <2> QED BY <2>1
<1>2. Packed(plan) = [at  |-> [o \in PlannedAt(plan) |-> Planned(plan, which(o))],
                      len |-> [o \in PlannedAt(plan) |-> plan[which(o)].len],
                      of  |-> [i \in 1..n |-> At(plan, i)]]
  BY DEF Packed, PlannedAt
<1>3. /\ Packed(plan).at = [o \in PlannedAt(plan) |-> Planned(plan, which(o))]
      /\ Packed(plan).len = [o \in PlannedAt(plan) |-> plan[which(o)].len]
      /\ Packed(plan).of = [i \in 1..n |-> At(plan, i)]
  BY <1>2
<1>4. \A i \in 1..n : At(plan, i) \in PlannedAt(plan)
  BY DEF PlannedAt
<1> HIDE DEF which
<1> QED BY <1>1, <1>3, <1>4

LEMMA LeastIs ==
  ASSUME NEW S, NEW x \in S, \A o \in S : x <= o, \A o \in S : (\A y \in S : o <= y) => o = x
  PROVE  (CHOOSE o \in S : \A y \in S : o <= y) = x
<1>1. \E o \in S : \A y \in S : o <= y
  OBVIOUS
<1> PICK c : c = CHOOSE o \in S : \A y \in S : o <= y
  OBVIOUS
<1>2. c \in S /\ \A y \in S : c <= y
  BY <1>1
<1> QED BY <1>2

LEMMA PlanLength ==
  ASSUME NEW plan \in Plans
  PROVE  Len(plan) \in Nat
<1> DEFINE E == [base : Nat, len : Nat \ {0}]
<1>1. plan \in Seq(E)
  BY EntryAssumption, Zenon
<1> HIDE DEF E
<1> QED BY <1>1

\* An entry is fetched whole: up to the next, the last one with the trailer.
LEMMA Fetched ==
  ASSUME NEW plan \in Plans, NEW i \in 1..Len(plan)
  PROVE  Inflates(Packed(plan), At(plan, i))
<1> PICK n \in Nat : n = Len(plan)
  BY PlanLength, Zenon
<1> PICK pack : pack = Packed(plan)
  OBVIOUS
<1>0. DOMAIN pack.at = PlannedAt(plan) /\ \A j \in 1..n : pack.len[At(plan, j)] = plan[j].len
  BY PackedAt
<1> PICK off \in Nat : off = At(plan, i)
  BY Offsets
<1>1. PICK l \in Nat : l = plan[i].len /\ l + Trailer <= MaxRange
  <2>1. plan[i] \in [base : Nat, len : Nat \ {0}] /\ plan[i].len + Trailer <= MaxRange
    <3>1. plan \in Seq([base : Nat, len : Nat \ {0}]) /\ plan[i].len + Trailer <= MaxRange
      BY EntryAssumption
    <3> QED BY <3>1, ElementOfSeq
  <2> QED BY <2>1
<1>2. Later(pack, off) = {o \in PlannedAt(plan) : o > off}
  BY <1>0 DEF Later
<1>3. CASE i = n
  <2>1. ASSUME NEW o \in PlannedAt(plan) PROVE o <= off /\ o \in Nat
    <3> PICK j \in 1..n : o = At(plan, j)
      BY DEF PlannedAt
    <3>1. o \in Nat /\ (j < i => o < off)
      BY Offsets
    <3>2. j < i \/ j = i
      BY <1>3
    <3> QED BY <3>1, <3>2
  <2>2. Later(pack, off) = {}
    <3>1. ASSUME NEW o \in PlannedAt(plan) PROVE ~(o > off)
      BY <2>1
    <3> QED BY <1>2, <3>1
  <2>3. off \in PlannedAt(plan)
    BY DEF PlannedAt
  <2>4. \A o \in PlannedAt(plan) : (\A x \in PlannedAt(plan) : x <= o) => o = off
    <3> SUFFICES ASSUME NEW o \in PlannedAt(plan), \A x \in PlannedAt(plan) : x <= o PROVE o = off
      OBVIOUS
    <3>1. off <= o /\ o <= off /\ o \in Nat
      BY <2>1, <2>3
    <3> QED BY <3>1
  <2>5. (CHOOSE o \in PlannedAt(plan) : \A x \in PlannedAt(plan) : x <= o) = off
    BY <2>1, <2>3, <2>4
  <2>6. Size(pack) = off + l + Trailer
    BY <1>0, <1>1, <1>3, <2>5 DEF Size
  <2>7. EntryEnd(pack, off) = off + l + Trailer
    BY <2>2, <2>6 DEF EntryEnd
  <2>8. (off + l + Trailer) - off = l + Trailer /\ l + Trailer >= l
    BY EntryAssumption
  <2> QED BY <1>0, <1>1, <2>7, <2>8 DEF Inflates
<1>4. CASE i # n
  <2>1. i + 1 \in 1..n /\ i \in 1..(n - 1) /\ i < i + 1
    BY <1>4
  <2> PICK next \in Nat : next = At(plan, i + 1)
    BY <2>1, Offsets
  <2>2. next = off + l /\ off < next
    BY <1>1, <2>1, Offsets
  <2>3. ASSUME NEW o \in PlannedAt(plan), o > off PROVE next <= o /\ o \in Nat
    <3> PICK j \in 1..n : o = At(plan, j)
      BY DEF PlannedAt
    <3>1. o \in Nat /\ (j < i => o < off) /\ (i + 1 < j => next < o)
      BY <2>1, Offsets
    <3>2. j < i \/ j = i \/ j = i + 1 \/ i + 1 < j
      OBVIOUS
    <3>3. ~(o < off) /\ o # off
      BY <2>3, <3>1
    <3> QED BY <3>1, <3>2, <3>3
  <2>4. next \in Later(pack, off)
    <3>1. next \in PlannedAt(plan)
      BY <2>1 DEF PlannedAt
    <3> QED BY <1>2, <2>2, <3>1
  <2>5. \A o \in Later(pack, off) : next <= o /\ o \in Nat
    BY <1>2, <2>3
  <2>6. \A o \in Later(pack, off) : (\A x \in Later(pack, off) : o <= x) => o = next
    <3> SUFFICES ASSUME NEW o \in Later(pack, off), \A x \in Later(pack, off) : o <= x PROVE o = next
      OBVIOUS
    <3>1. o <= next /\ next <= o /\ o \in Nat
      BY <2>4, <2>5
    <3> QED BY <3>1
  <2>7. NextEntry(pack, off) = next
    <3> PICK S : S = Later(pack, off)
      OBVIOUS
    <3>1. next \in S /\ (\A o \in S : next <= o) /\ \A o \in S : (\A y \in S : o <= y) => o = next
      BY <2>4, <2>5, <2>6, Zenon
    <3>2. (CHOOSE o \in S : \A y \in S : o <= y) = next
      BY <3>1, LeastIs, Zenon
    <3> QED BY <3>2, Zenon DEF NextEntry
  <2>8. EntryEnd(pack, off) = off + l
    BY <2>2, <2>4, <2>7 DEF EntryEnd
  <2>9. (off + l) - off = l /\ l <= MaxRange
    <3> PICK t \in Nat, r \in Nat : t = Trailer /\ r = MaxRange
      BY EntryAssumption
    <3>1. l + t <= r
      BY <1>1
    <3>2. l <= r
      BY <3>1
    <3>3. (off + l) - off = l
      OBVIOUS
    <3> QED BY <3>2, <3>3
  <2>10. l >= l
    OBVIOUS
  <2> QED BY <1>0, <2>8, <2>9, <2>10, <1>1 DEF Inflates
<1> QED BY <1>3, <1>4


LEMMA ObjectIs ==
  ASSUME NEW i \in Nat
  PROVE  /\ Object(i) \in Seq(Letters) /\ Len(Object(i)) = i + 1 /\ Object(i)[1] = "a"
         /\ Tail(Object(i)) \in Seq(Letters) /\ Len(Tail(Object(i))) = i
         /\ Object(i) = <<"a">> \o Tail(Object(i))
<1> PICK rest : rest = [j \in 1..i |-> "b"]
  OBVIOUS
<1>1. "a" \in Letters /\ "b" \in Letters
  BY DEF Letters
<1>2. rest \in Seq(Letters) /\ Len(rest) = i
  <2>1. rest \in [1..i -> Letters]
    BY <1>1
  <2> QED BY <2>1
<1>3. <<"a">> \in Seq(Letters) /\ Len(<<"a">>) = 1 /\ <<"a">>[1] = "a" /\ <<"a">> # <<>>
  BY <1>1
<1> PICK a \in Seq(Letters) : a = <<"a">> /\ Len(a) = 1 /\ a[1] = "a"
  BY <1>3
<1>4. Object(i) = a \o rest
  BY DEF Object
<1>5. /\ a \o rest \in Seq(Letters) /\ Len(a \o rest) = 1 + i
      /\ \A j \in 1..(1 + i) : (a \o rest)[j] = IF j <= 1 THEN a[j] ELSE rest[j - 1]
  BY <1>2, ConcatProperties
<1> PICK o \in Seq(Letters) : o = a \o rest
  BY <1>5
<1>6. Len(o) = 1 + i /\ o[1] = "a"
  <2>1. 1 \in 1..(1 + i) /\ 1 <= 1
    OBVIOUS
  <2> QED BY <1>5, <2>1
<1>7. Tail(o) \in Seq(Letters) /\ Len(Tail(o)) = i /\ o = <<o[1]>> \o Tail(o)
  <2>1. o # <<>>
    <3>1. Len(o) # 0
      BY <1>6
    <3> QED BY <3>1
  <2>2. Tail(o) \in Seq(Letters) /\ Len(Tail(o)) = Len(o) - 1
    BY <2>1, HeadTailProperties
  <2>3. o = <<Head(o)>> \o Tail(o) /\ Head(o) = o[1]
    BY <2>1
  <2> QED BY <1>6, <2>2, <2>3
<1> QED BY <1>4, <1>6, <1>7

\* The delta between two objects gives the one that it was made for.
LEMMA LinkDecodes ==
  ASSUME NEW b \in Nat, NEW i \in Nat, i >= 1
  PROVE  apply_delta(Object(b), Encoded(Object(b), <<Span(0, 1), Literal(Tail(Object(i)))>>)) = Object(i)
<1> PICK base : base = Object(b)
  OBVIOUS
<1> PICK rest : rest = Tail(Object(i))
  OBVIOUS
<1> PICK s : s = <<Span(0, 1), Literal(rest)>>
  OBVIOUS
<1>1. base \in Seq(Letters) /\ Len(base) = b + 1 /\ base[1] = "a" /\ rest \in Seq(Letters) /\ Len(rest) = i
  BY ObjectIs
<1>2. Len(s) = 2 /\ s[1] = Span(0, 1) /\ s[2] = Literal(rest)
  OBVIOUS
<1>3. Fits(base, s[1]) /\ s[1].kind = "copy"
  <2>1. 0 \in Nat /\ 1 \in Nat /\ 1 >= 1 /\ 0 + 1 <= Len(base)
    BY <1>1
  <2>2. 0 < Base * (Base * Base) /\ 1 < Base * (Base * Base)
    <3>0. Base \in Nat /\ Base >= 2
      BY EntryAssumption
    <3> PICK q \in Nat : q = Base * Base
      BY <3>0
    <3>1. Base * Base >= Base * 1 /\ Base * 1 = Base
      BY <3>0, TimesLess
    <3>2. Base * q >= Base * 1
      BY <3>0, <3>1, TimesLess
    <3> QED BY <3>0, <3>1, <3>2
  <2> QED BY <1>2, <2>1, <2>2, SpanFits
<1>4. Fits(base, s[2]) /\ s[2].kind = "insert" /\ s[2].bytes = rest
  BY <1>1, <1>2, LiteralFits
<1>5. \A k \in 1..2 : k = 1 \/ k = 2
  OBVIOUS
<1>6. Lettered(base)
  BY <1>1 DEF Lettered
<1>7. AllFit(base, s, 2) /\ Written(base, s, 2)
  <2>1. AllFit(base, s, 2)
    BY <1>3, <1>4, <1>5 DEF AllFit
  <2>2. \A k \in 1..2 : s[k].kind = "insert" => Len(s[k].bytes) >= 1
    BY <1>1, <1>3, <1>4, <1>5
  <2> QED BY <1>2, <2>1, <2>2 DEF Written
<1>8. apply_delta(base, Encoded(base, s)) = Text(base, s)
  BY <1>6, <1>7, DeltaDecodes
<1>9. \E f : Writes(f, base, s, 2) /\ Text(base, s) = f[2]
  <2> PICK n \in Nat : n = 2
    OBVIOUS
  <2>1. Len(s) = n /\ AllFit(base, s, n)
    BY <1>2, <1>7
  <2>2. \E f : Writes(f, base, s, n) /\ Text(base, s) = f[n] /\ Text(base, s) \in Seq(Letters)
    BY <1>6, <2>1, TextWrites
  <2> QED BY <2>2
<1> PICK f : Writes(f, base, s, 2) /\ Text(base, s) = f[2]
  BY <1>9
<1>10. f[0] = <<>> /\ f[1] = f[0] \o Piece(base, s[1]) /\ f[2] = f[1] \o Piece(base, s[2])
  <2>1. 1 \in 1..2 /\ 2 \in 1..2 /\ 1 - 1 = 0 /\ 2 - 1 = 1
    OBVIOUS
  <2> QED BY <1>9, <2>1 DEF Writes
<1>11. Piece(base, s[1]) = <<"a">>
  <2>1. Piece(base, s[1]) = SubSeq(base, 1, 1)
    <3>1. Span(0, 1).kind = "copy" /\ Span(0, 1).from = 0 /\ Span(0, 1).n = 1 /\ 0 + 1 = 1
      BY DEF Span
    <3> QED BY <1>2, <3>1 DEF Piece
  <2>2. 1 \in 1..Len(base)
    BY <1>1
  <2>3. SubSeq(base, 1, 1) = <<base[1]>>
    <3> PICK x : x = base[1] /\ x \in Letters
      BY <1>1, <2>2, ElementOfSeq
    <3> PICK c : c = SubSeq(base, 1, 1)
      OBVIOUS
    <3>1. c \in Seq(Letters) /\ Len(c) = 1 /\ c[1] = x
      BY <1>1, <2>2
    <3>2. <<x>> \in Seq(Letters) /\ Len(<<x>>) = 1 /\ <<x>>[1] = x
      OBVIOUS
    <3>3. \A k \in 1..1 : k = 1
      OBVIOUS
    <3>4. c = <<x>>
      BY <3>1, <3>2, <3>3, SeqEqual
    <3> QED BY <3>4
  <2> QED BY <1>1, <2>1, <2>3
<1>12. Piece(base, s[2]) = rest
  BY <1>4 DEF Piece
<1>13. <<>> \o <<"a">> = <<"a">>
  OBVIOUS
<1>14. f[2] = <<"a">> \o rest
  BY <1>10, <1>11, <1>12, <1>13
<1>15. Object(i) = <<"a">> \o rest
  BY ObjectIs
<1> QED BY <1>8, <1>14, <1>15

\* One entry at one level of the chain.
Link(b, i) == Encoded(Object(b), <<Span(0, 1), Literal(Tail(Object(i)))>>)

Joined(below, delta) == IF below = Malformed THEN Malformed ELSE apply_delta(below, delta)

LEMMA LevelAt ==
  ASSUME NEW plan \in Plans, NEW f, IsLevels(f, Packed(plan)),
         NEW d \in 0..(MaxDepth + 1), NEW i \in 1..Len(plan)
  PROVE  /\ TooDeep(d) => f[d][At(plan, i)] = Malformed
         /\ ~TooDeep(d) /\ plan[i].base = 0 => f[d][At(plan, i)] = Object(i)
         /\ ~TooDeep(d) /\ plan[i].base # 0 =>
              /\ plan[i].base \in 1..Len(plan)
              /\ f[d][At(plan, i)] = Joined(f[d + 1][At(plan, plan[i].base)], Link(plan[i].base, i))
<1> PICK pack : pack = Packed(plan)
  OBVIOUS
<1> PICK off : off = At(plan, i)
  OBVIOUS
<1> PICK b : b = plan[i].base
  OBVIOUS
<1>1. /\ DOMAIN pack.at = PlannedAt(plan) /\ off \in PlannedAt(plan)
      /\ pack.at[off] = Planned(plan, i)
  BY PackedAt
<1>2. Inflates(pack, off)
  BY Fetched
<1>3. f[d] = Level(pack, d, f[d + 1])
  BY DEF IsLevels
<1>4. f[d][off] = IF TooDeep(d) \/ ~Inflates(pack, off) THEN Malformed
                  ELSE IF pack.at[off].kind = "full" THEN pack.at[off].data
                  ELSE Joined(f[d + 1][BaseOffset(pack, off)], pack.at[off].delta)
  BY <1>1, <1>3 DEF Level, Joined
<1>5. TooDeep(d) => f[d][off] = Malformed
  BY <1>4
<1>6. ASSUME ~TooDeep(d), b = 0 PROVE f[d][off] = Object(i)
  <2>1. Planned(plan, i) = [kind |-> "full", data |-> Object(i)]
    BY <1>6 DEF Planned
  <2>2. pack.at[off].kind = "full" /\ pack.at[off].data = Object(i)
    BY <1>1, <2>1
  <2> QED BY <1>2, <1>4, <1>6, <2>2
<1>7. ASSUME ~TooDeep(d), b # 0
      PROVE  b \in 1..Len(plan) /\ f[d][off] = Joined(f[d + 1][At(plan, b)], Link(b, i))
  <2>1. b \in 1..Len(plan)
    <3>1. b \in 0..Len(plan) /\ Len(plan) \in Nat
      BY EntryAssumption
    <3> QED BY <1>7, <3>1
  <2>2. CASE b < i
    <3>1. Planned(plan, i) = [kind |-> "ofs", distance |-> At(plan, i) - At(plan, b), delta |-> Link(b, i)]
      BY <1>7, <2>2 DEF Planned, Link
    <3>2. /\ pack.at[off].kind = "ofs" /\ pack.at[off].distance = off - At(plan, b)
          /\ pack.at[off].delta = Link(b, i)
      BY <1>1, <3>1
    <3>3. off \in Nat /\ At(plan, b) \in Nat
      BY <2>1, Offsets
    <3>4. off - (off - At(plan, b)) = At(plan, b)
      BY <3>3
    <3>5. BaseOffset(pack, off) = At(plan, b)
      BY <3>2, <3>4 DEF BaseOffset
    <3>6. pack.at[off].kind # "full"
      BY <3>2
    <3> QED BY <1>2, <1>4, <1>7, <2>1, <3>2, <3>5, <3>6
  <2>3. CASE ~(b < i)
    <3>1. Planned(plan, i) = [kind |-> "ref", base |-> b, delta |-> Link(b, i)]
      BY <1>7, <2>3 DEF Planned, Link
    <3>2. pack.at[off].kind = "ref" /\ pack.at[off].base = b /\ pack.at[off].delta = Link(b, i)
      BY <1>1, <3>1
    <3>3. pack.of[b] = At(plan, b)
      BY <2>1, PackedAt
    <3>4. BaseOffset(pack, off) = At(plan, b)
      BY <3>2, <3>3 DEF BaseOffset
    <3>5. pack.at[off].kind # "full"
      BY <3>2
    <3> QED BY <1>2, <1>4, <1>7, <2>1, <3>2, <3>4, <3>5
  <2> QED BY <2>2, <2>3
<1> QED BY <1>5, <1>6, <1>7

\* What a level gives, counted from the deepest one: the objects with a whole
\* one few enough deltas below them.
Reached(W, m, i) == m >= 1 /\ i \in W[m - 1]
LevelDecodes(f, W, plan, m) ==
  \A i \in 1..Len(plan) :
    f[(MaxDepth + 1) - m][At(plan, i)] = IF Reached(W, m, i) THEN Object(i) ELSE Malformed

LEMMA ReachedAbove ==
  ASSUME NEW plan, NEW W, IsWithin(W, plan, MaxDepth), NEW m \in 0..MaxDepth, NEW i \in 1..Len(plan)
  PROVE  /\ plan[i].base = 0 => Reached(W, m + 1, i)
         /\ plan[i].base # 0 => (Reached(W, m + 1, i) <=> Reached(W, m, plan[i].base))
<1>1. m + 1 >= 1 /\ (m + 1) - 1 = m /\ (m = 0 \/ (m >= 1 /\ m # 0))
  BY EntryAssumption
<1>2. W[m] = IF m = 0 THEN NoBase(plan) ELSE OneAbove(plan, W[m - 1])
  BY DEF IsWithin
<1>3. Reached(W, m + 1, i) <=> i \in W[m]
  BY <1>1 DEF Reached
<1>4. i \in NoBase(plan) <=> plan[i].base = 0
  BY DEF NoBase
<1>5. CASE m = 0
  <2>1. ~(0 >= 1)
    OBVIOUS
  <2> QED BY <1>2, <1>3, <1>4, <1>5, <2>1 DEF Reached
<1>6. CASE m >= 1 /\ m # 0
  <2>1. i \in OneAbove(plan, W[m - 1]) <=> plan[i].base = 0 \/ plan[i].base \in W[m - 1]
    BY <1>4 DEF OneAbove
  <2>2. Reached(W, m, plan[i].base) <=> plan[i].base \in W[m - 1]
    BY <1>6 DEF Reached
  <2> QED BY <1>2, <1>3, <1>6, <2>1, <2>2
<1> QED BY <1>1, <1>5, <1>6

LEMMA LevelNext ==
  ASSUME NEW plan \in Plans, NEW f, IsLevels(f, Packed(plan)), NEW W, IsWithin(W, plan, MaxDepth),
         NEW m \in 0..MaxDepth, LevelDecodes(f, W, plan, m)
  PROVE  LevelDecodes(f, W, plan, m + 1)
<1> PICK d \in Nat : d = MaxDepth - m
  BY EntryAssumption
<1>1. /\ d \in 0..(MaxDepth + 1) /\ (MaxDepth + 1) - (m + 1) = d /\ (MaxDepth + 1) - m = d + 1
      /\ ~(d > MaxDepth)
  BY EntryAssumption
<1>2. ~TooDeep(d)
  BY <1>1 DEF TooDeep
<1> SUFFICES ASSUME NEW i \in 1..Len(plan)
             PROVE  f[d][At(plan, i)] = IF Reached(W, m + 1, i) THEN Object(i) ELSE Malformed
  BY <1>1 DEF LevelDecodes
<1> PICK b : b = plan[i].base
  OBVIOUS
<1>3. /\ b = 0 => f[d][At(plan, i)] = Object(i)
      /\ b # 0 => b \in 1..Len(plan) /\ f[d][At(plan, i)] = Joined(f[d + 1][At(plan, b)], Link(b, i))
  BY <1>1, <1>2, LevelAt
<1>4. /\ b = 0 => Reached(W, m + 1, i)
      /\ b # 0 => (Reached(W, m + 1, i) <=> Reached(W, m, b))
  BY ReachedAbove
<1>5. CASE b = 0
  BY <1>3, <1>4, <1>5
<1>6. CASE b # 0
  <2>1. f[d + 1][At(plan, b)] = IF Reached(W, m, b) THEN Object(b) ELSE Malformed
    BY <1>1, <1>3, <1>6 DEF LevelDecodes
  <2>2. CASE ~Reached(W, m, b)
    BY <1>3, <1>4, <1>6, <2>1, <2>2 DEF Joined
  <2>3. CASE Reached(W, m, b)
    <3>1. b \in Nat /\ i \in Nat /\ i >= 1
      <4>1. Len(plan) \in Nat
        BY EntryAssumption
      <4> QED BY <1>3, <1>6, <4>1
    <3>2. Object(b) # Malformed
      <4>1. Object(b) \in Seq(Letters)
        BY <3>1, ObjectIs
      <4> QED BY <4>1, NotMalformed
    <3>3. apply_delta(Object(b), Link(b, i)) = Object(i)
      BY <3>1, LinkDecodes DEF Link
    <3> QED BY <1>3, <1>4, <1>6, <2>1, <2>3, <3>2, <3>3 DEF Joined
  <2> QED BY <2>2, <2>3
<1> QED BY <1>5, <1>6

LEMMA EveryLevel ==
  ASSUME NEW plan \in Plans, NEW f, IsLevels(f, Packed(plan)), NEW W, IsWithin(W, plan, MaxDepth)
  PROVE  \A m \in 0..(MaxDepth + 1) : LevelDecodes(f, W, plan, m)
<1> DEFINE T == {m \in Nat : m <= MaxDepth + 1 /\ ~LevelDecodes(f, W, plan, m)}
<1>0. MaxDepth \in Nat
  BY EntryAssumption
<1>1. SUFFICES ASSUME T # {} PROVE FALSE
  BY <1>0
<1>2. PICK m \in T : \A j \in T : m <= j
  <2>1. T \subseteq Nat
    OBVIOUS
  <2> HIDE DEF T
  <2> QED BY <1>1, <2>1, Smallest
<1>3. m \in Nat /\ m <= MaxDepth + 1 /\ ~LevelDecodes(f, W, plan, m)
  OBVIOUS
<1>4. LevelDecodes(f, W, plan, 0)
  <2> SUFFICES ASSUME NEW i \in 1..Len(plan)
               PROVE  f[(MaxDepth + 1) - 0][At(plan, i)] = IF Reached(W, 0, i) THEN Object(i) ELSE Malformed
    BY DEF LevelDecodes
  <2>1. ~(0 >= 1) /\ (MaxDepth + 1) - 0 = MaxDepth + 1 /\ MaxDepth + 1 > MaxDepth
        /\ MaxDepth + 1 \in 0..(MaxDepth + 1)
    BY <1>0
  <2>2. ~Reached(W, 0, i)
    BY <2>1 DEF Reached
  <2>3. TooDeep(MaxDepth + 1)
    BY <2>1 DEF TooDeep
  <2>4. f[MaxDepth + 1][At(plan, i)] = Malformed
    BY <2>1, <2>3, LevelAt
  <2> QED BY <2>1, <2>2, <2>4
<1>5. m # 0
  BY <1>3, <1>4
<1> PICK k \in 0..MaxDepth : m = k + 1
  <2>1. m - 1 \in 0..MaxDepth /\ m = (m - 1) + 1
    BY <1>0, <1>3, <1>5
  <2> QED BY <2>1
<1>6. LevelDecodes(f, W, plan, k)
  <2>1. k \in Nat /\ k <= MaxDepth + 1 /\ ~(m <= k)
    BY <1>0
  <2>2. k \notin T
    BY <1>2, <2>1
  <2> QED BY <2>1, <2>2
<1> HIDE DEF T
<1> QED BY <1>3, <1>6, LevelNext

\* A packed object is read when its chain is short enough, and no other is.
LEMMA PacksAll == PacksDecode
<1> SUFFICES ASSUME NEW plan \in Plans, NEW i \in 1..Len(plan)
             PROVE  ReadObject(Packed(plan), i, [j \in 1..Len(plan) |-> Object(j)]) =
                      IF i \in Within(plan, MaxDepth) THEN Object(i) ELSE Malformed
  BY DEF PacksDecode
<1>0. MaxDepth \in Nat
  BY EntryAssumption
<1> PICK pack : pack = Packed(plan)
  OBVIOUS
<1>1. pack.of[i] = At(plan, i)
  BY PackedAt
<1> PICK f : IsLevels(f, pack) /\ decode_entry(pack, At(plan, i)) = f[0][At(plan, i)]
  BY DecodeIs
<1> PICK W : IsWithin(W, plan, MaxDepth) /\ Within(plan, MaxDepth) = W[MaxDepth]
  BY <1>0, WithinIs
<1>2. /\ MaxDepth + 1 \in 0..(MaxDepth + 1) /\ (MaxDepth + 1) - (MaxDepth + 1) = 0
      /\ MaxDepth + 1 >= 1 /\ (MaxDepth + 1) - 1 = MaxDepth
  BY <1>0
<1>3. LevelDecodes(f, W, plan, MaxDepth + 1)
  BY <1>2, EveryLevel
<1>4. Reached(W, MaxDepth + 1, i) <=> i \in Within(plan, MaxDepth)
  BY <1>2 DEF Reached
<1>5. decode_entry(pack, pack.of[i]) = IF i \in Within(plan, MaxDepth) THEN Object(i) ELSE Malformed
  BY <1>1, <1>2, <1>3, <1>4 DEF LevelDecodes
<1> PICK content : content = [j \in 1..Len(plan) |-> Object(j)]
  OBVIOUS
<1>6. content[i] = Object(i)
  OBVIOUS
<1>7. ReadObject(pack, i, content) =
        IF decode_entry(pack, pack.of[i]) = content[i] THEN decode_entry(pack, pack.of[i]) ELSE Malformed
  BY DEF ReadObject
<1> QED BY <1>5, <1>6, <1>7

-----------------------------------------------------------------------------
(* Reading an entry.                                                       *)

\* Decoding undoes what git writes: a delta gives the text that it was made
\* for and fails with an operation missing (apply_delta,
\* read_packed_operand), and an object of a pack is read, over the whole
\* chain of deltas below it, exactly when the chain is within
\* MAX_DELTA_DEPTH (fetch_entry_bytes, decode_entry in packchain/read.rs).
THEOREM EntriesDecode == ReadSpec => []EntryDecodes
<1>1. EntryDecodes
  BY DeltasAll, PacksAll DEF EntryDecodes
<1> QED BY <1>1, PTL DEF ReadSpec
=============================================================================
