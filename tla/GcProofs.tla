------------------------------ MODULE GcProofs ------------------------------
(***************************************************************************)
(* Proofs about Gc, for every number of refs, packs and sweeps at once:    *)
(* its types, that no chain names an object that a sweep removed, and that *)
(* no baseline loses the last record of it.  Then about Maintain: what a   *)
(* run of compact does to these invariants, and that neither its outcome   *)
(* nor its audit blames what others did meanwhile.                         *)
(***************************************************************************)
EXTENDS Maintain, TLAPS

\* A push before the lock: its commit, and its number.
PrepAt(s, n, last) ==
  s.at # "idle" => s.ref \in Branches /\ s.sha \in Packs /\ n <= last

\* An operation under the lock, with the chain at c: the commit of a pack, or
\* the end of the chain it has read.
PushAt(s, c, last) ==
  /\ s.at # "idle" => s.n \in 1..last
  /\ s.at \in {"pack", "bundle", "commit"} => s.sha \in Packs
  /\ s.at \in {"tomb", "defer", "del"} => s.prior \in Packs
  /\ s.at = "defer" => c = s.prior
  /\ s.at = "del" => c \in {None, s.prior}

PushOK == /\ \A n \in Pushes : PrepAt(prep[n], n, pushes)
          /\ \A r \in Branches : PushAt(push[r], chain[r], pushes)

\* A tombstone of a ref names one baseline.
OneBaseline == \A t \in tombs : t.ref # None => \A p, q \in t.objs : p = q

\* What a sweep has in its hands: a pack, while it reads the chains, or the
\* baseline of a tombstone.
Hands(s) ==
  /\ s.at \in {"idle", "next", "check"} => s.cur = {}
  /\ s.at \in {"idle", "next"} => s.left = {}
  /\ s.ref # None => \A p, q \in s.left : p = q
  /\ s.at = "chains" => s.ref = None
  /\ s.at \in {"recheck", "bundle"} => s.ref # None /\ s.left = {}

HandsOK == \A w \in Sweepers : Hands(sweep[w])

TypeInv == TypeOK /\ PushOK /\ OneBaseline /\ HandsOK

-----------------------------------------------------------------------------
(* The packs and baselines that the chains name.                           *)

MarkFresh == mark.at # "put" => mark.age = 0

\* The packs (ref = None) and the baselines of a ref.
ObjKey(ref, p) == IF ref = None THEN PackKey(p) ELSE BundleKey(ref, p)

\* What the history leaves to be said about them.
Sound(ref) == IF ref = None THEN "reused" \notin hazards ELSE hazards = {}

\* A push that waits for the lock has uploaded the baseline p of r.
Waiting(r, p) == \E n \in Pushes : prep[n].at = "lock" /\ prep[n].ref = r /\ prep[n].sha = p

\* A client has uploaded the object for its commit ...
Needed(ref, p) ==
  IF ref = None
  THEN \/ \E n \in Pushes : prep[n].at \in {"bundle", "lock"} /\ prep[n].sha = p
       \/ \E r \in Branches : push[r].at \in {"bundle", "commit"} /\ push[r].sha = p
  ELSE Waiting(ref, p) \/ (push[ref].at = "commit" /\ push[ref].sha = p)

\* ... so it is in the store, and no sweep has it in its hands or may take it
\* up before the client is done.
Held(ref, p) ==
  /\ ObjKey(ref, p) \in store
  /\ \A t \in tombs : t.ref = ref /\ p \in t.objs => t.age < Grace
  /\ ref = None /\ mark.at = "put" /\ p \in mark.seen => mark.age < Grace
  /\ \A w \in Sweepers : sweep[w].ref = ref => p \notin sweep[w].left \cup sweep[w].cur

UploadOK(ref, p) == Sound(ref) /\ Needed(ref, p) => Held(ref, p)

UploadsOK == \A ref \in Branches \cup {None}, p \in Packs : UploadOK(ref, p)

\* A sweep that has judged, or is judging, an object: the chains that name it
\* are those it has still to read.
Verdict(w) ==
  Sound(sweep[w].ref) =>
    /\ sweep[w].at = "chains" =>
         \A r \in Branches : chain[r] \in sweep[w].cur => r \in sweep[w].refs \/ sweep[w].named
    /\ sweep[w].at = "bundle" => chain[sweep[w].ref] \notin sweep[w].cur

VerdictOK == \A w \in Sweepers : Verdict(w)

ChainStored(r) ==
  chain[r] # None =>
    /\ Sound(None) => PackKey(chain[r]) \in store
    /\ Sound(r) /\ push[r].at # "del" => BundleKey(r, chain[r]) \in store

Resolvable == UploadsOK /\ VerdictOK /\ \A r \in Branches : ChainStored(r)

ResolvableInv == TypeInv /\ MarkFresh /\ Resolvable

-----------------------------------------------------------------------------
(* The records of the baselines.                                           *)

Holding == {"check", "chains", "recheck", "bundle"}

\* The number of a tombstone of a ref has been given to an operation, which
\* has written it.
NumberOK(id) ==
  id[1] = "base" =>
    /\ id[3] <= pushes /\ prep[id[3]].at = "idle"
    /\ push[id[2]].at \notin {"idle", "del"} => push[id[2]].n # id[3]

NumbersOK ==
  /\ \A t \in tombs : NumberOK(t.id)
  /\ \A r \in Branches : push[r].at # "idle" => prep[push[r].n].at = "idle"

\* A sweep knows the tombstone it is at, and names what is left of it.
SweepOK(w) ==
  sweep[w].at \in Holding =>
    /\ sweep[w].id \in TombIds /\ NumberOK(sweep[w].id)
    /\ sweep[w].ref = IF sweep[w].id[1] = "base" THEN sweep[w].id[2] ELSE None
    /\ \A t \in tombs : t.id = sweep[w].id /\ t.ref # None =>
         /\ t.age >= Grace
         /\ sweep[w].at # "check" \/ sweep[w].left # {} => t.objs = sweep[w].left \cup sweep[w].cur

SweepsOK == \A w \in Sweepers : SweepOK(w)

\* A record of the baseline that no sweep is about to drop.
Recorded(r, p) ==
  \E t \in tombs :
    /\ t.ref = r /\ p \in t.objs
    /\ \A w \in Sweepers : sweep[w].at = "check" /\ sweep[w].left = {} => sweep[w].id # t.id

\* A baseline that no chain names has a record, or a client that has still to
\* commit it, to write the record or to delete it.
Kept(r, p) ==
  BundleKey(r, p) \in store /\ chain[r] # p =>
    \/ Recorded(r, p)
    \/ <<r, p>> \in stranded
    \/ Waiting(r, p)
    \/ push[r].at = "commit" /\ push[r].sha = p
    \/ push[r].at = "tomb" /\ push[r].prior = p
    \/ push[r].at = "del" /\ push[r].prior = p /\ p \in push[r].todo

\* The same of the baseline of a chain that is about to go; the record of the
\* delete is new.
Deferred(r) ==
  LET p == push[r].prior IN
  push[r].at \in {"defer", "del"} /\ p \notin push[r].todo /\ BundleKey(r, p) \in store =>
    \/ \E t \in tombs : t.ref = r /\ p \in t.objs /\ t.age = 0
    \/ <<r, p>> \in stranded
    \/ Waiting(r, p)

RecordsOK == \A r \in Branches : Deferred(r) /\ \A p \in Packs : Kept(r, p)

LeakInv == TypeInv /\ NumbersOK /\ SweepsOK /\ RecordsOK

-----------------------------------------------------------------------------
(* The types.                                                              *)

\* A sweep that is well formed (a conjunct of TypeInv for each).
Formed(s) ==
  /\ s \in SweepType /\ Hands(s)
  /\ \A p, q \in s.cur : p = q
  /\ s.at = "idle" => s = NoSweep

\* A push, and an operation under the lock, that is well formed.
PrepFormed(s, n, last) ==
  s \in PrepType /\ (s.at = "idle" <=> s = NoPrep) /\ PrepAt(s, n, last)

PushFormed(s, c, last) ==
  s \in PushType /\ (s.at = "idle" <=> s = NoPush) /\ PushAt(s, c, last)

\* The parts of TypeInv that a step of a sweep, and that of a client, leave.
StoreTyped == store \subseteq PackKeys \cup BundleKeys

TombsTyped ==
  /\ tombs \subseteq TombType
  /\ \A t \in tombs : t.ref = IF t.id[1] = "base" THEN t.id[2] ELSE None
  /\ \A t, u \in tombs : t.id = u.id => t = u
  /\ OneBaseline

ClientsTyped ==
  /\ chain \in [Branches -> Packs \cup {None}]
  /\ prep \in [Pushes -> PrepType] /\ \A n \in Pushes : PrepFormed(prep[n], n, pushes)
  /\ push \in [Branches -> PushType] /\ \A r \in Branches : PushFormed(push[r], chain[r], pushes)
  /\ pushes \in 0..MaxPushes
  /\ stranded \subseteq Branches \X Packs /\ hazards \subseteq {"reused", "purged", "torn"}

SweepsTyped == sweep \in [Sweepers -> SweepType] /\ \A w \in Sweepers : Formed(sweep[w])

Typed == /\ StoreTyped /\ TombsTyped /\ ClientsTyped /\ SweepsTyped
         /\ mark \in MarkType /\ faults \in 0..MaxFaults

\* TypeInv by its parts.
LEMMA TypeParts == (TypeInv <=> Typed) /\ (TypeInv' <=> Typed')
<1>1. /\ PushOK <=> /\ \A n \in Pushes : PrepAt(prep[n], n, pushes)
                   /\ \A r \in Branches : PushAt(push[r], chain[r], pushes)
      /\ PushOK' <=> /\ \A n \in Pushes : PrepAt(prep'[n], n, pushes')
                    /\ \A r \in Branches : PushAt(push'[r], chain'[r], pushes')
  BY DEF PushOK, PrepAt, PushAt
<1> QED
  BY <1>1, Zenon DEF TypeInv, TypeOK, HandsOK, StoreTyped, TombsTyped, ClientsTyped, SweepsTyped,
    Formed, PrepFormed, PushFormed, Typed

\* No push, and no operation, is well formed.
LEMMA NoneFormed ==
  /\ NoPrep.at = "idle" /\ NoPush.at = "idle"
  /\ \A n, last : PrepFormed(NoPrep, n, last)
  /\ \A c, last : PushFormed(NoPush, c, last)
<1>1. NoPrep \in PrepType /\ NoPush \in PushType
  BY GcAssumption DEF NoPrep, NoPush, PrepType, PushType
<1> QED BY <1>1 DEF NoPrep, NoPush, PrepFormed, PushFormed, PrepAt, PushAt

\* The initial sweep, and one that goes on to the next tombstone, are well
\* formed.
LEMMA NoSweepFormed ==
  /\ Formed(NoSweep)
  /\ NoSweep.ref = None /\ NoSweep.left = {} /\ NoSweep.cur = {} /\ NoSweep.at = "idle"
  BY DEF Formed, NoSweep, SweepType, Hands

LEMMA NextTombFormed ==
  ASSUME SweepsTyped, NEW w \in Sweepers
  PROVE  Formed(NextTomb(w)) /\ NextTomb(w).at = "next" /\ NextTomb(w).ref = None
           /\ NextTomb(w).left = {} /\ NextTomb(w).cur = {}
<1> PICK v \in SweepType : v = NoSweep
  BY NoSweepFormed DEF Formed
<1>1. v.ref = None /\ v.left = {} /\ v.cur = {}
  BY NoSweepFormed
<1> PICK T \in SUBSET TombIds : sweep[w].todo = T
  BY DEF SweepsTyped, SweepType
<1>2. NextTomb(w) = [v EXCEPT !.at = "next", !.todo = T]
  BY DEF NextTomb
<1>3. NextTomb(w) \in SweepType /\ NextTomb(w).at = "next" /\ NextTomb(w).ref = None
        /\ NextTomb(w).left = {} /\ NextTomb(w).cur = {}
  BY <1>1, <1>2 DEF SweepType
<1> QED BY <1>3 DEF Formed, Hands

LEMMA InitTyped == Init => TypeInv
<1> SUFFICES ASSUME Init PROVE TypeInv
  OBVIOUS
<1>1. StoreTyped
  BY DEF Init, StoreTyped, PackKeys, BundleKeys, Chains
<1>2. TombsTyped
  BY DEF Init, TombsTyped, OneBaseline
<1>3. NoPrep \in PrepType /\ NoPush \in PushType
  BY NoneFormed DEF PrepFormed, PushFormed
<1>4. /\ prep \in [Pushes -> PrepType] /\ push \in [Branches -> PushType]
      /\ \A n \in Pushes : prep[n] = NoPrep
      /\ \A r \in Branches : push[r] = NoPush
  BY <1>3 DEF Init
<1>5. ClientsTyped
  <2>1. pushes \in 0..MaxPushes /\ stranded = {} /\ hazards = {}
    BY GcAssumption DEF Init
  <2> QED BY <1>4, <2>1, NoneFormed DEF Init, ClientsTyped
<1>6. SweepsTyped
  BY NoSweepFormed DEF Init, SweepsTyped, Formed
<1>7. mark \in MarkType /\ faults \in 0..MaxFaults
  BY GcAssumption DEF Init, NoMark, MarkType
<1> QED BY <1>1, <1>2, <1>5, <1>6, <1>7, TypeParts DEF Typed

\* A step of one sweep that leaves the store no larger, and the tombstones.
LEMMA SweepTyped ==
  ASSUME TypeInv, NEW w \in Sweepers, NEW s, Formed(s), SetSweep(w, s),
         store' \subseteq store, tombs' \subseteq tombs, faults' \in 0..MaxFaults
  PROVE  TypeInv'
<1> USE TypeParts DEF Typed
<1>1. StoreTyped'
  BY DEF StoreTyped
<1>2. TombsTyped'
  BY Zenon DEF TombsTyped, OneBaseline
<1>3. ClientsTyped'
  BY Zenon DEF ClientsTyped, SetSweep
<1>4. SweepsTyped'
  BY DEF SweepsTyped, SetSweep, Formed
<1>5. mark' \in MarkType
  BY DEF SetSweep
<1> QED BY <1>1, <1>2, <1>3, <1>4, <1>5

\* What SetSweep changes of a sweep, by the fields the code sets.
LEMMA ReadFormed ==
  ASSUME TypeInv, NEW w \in Sweepers, sweep[w].at = "next", NEW id \in sweep[w].todo
  PROVE  /\ Formed([sweep[w] EXCEPT !.todo = @ \ {id}])
         /\ \A t \in tombs : Formed([sweep[w] EXCEPT !.todo = @ \ {id}, !.at = "check", !.id = id,
                                                   !.ref = t.ref, !.left = t.objs])
<1> PICK v \in SweepType : v = sweep[w]
  BY TypeParts DEF Typed, SweepsTyped
<1>1. Formed(v)
  BY TypeParts DEF Typed, SweepsTyped
<1>2. \A t \in tombs : t.ref \in Branches \cup {None} /\ t.objs \in SUBSET Packs
  BY TypeParts DEF Typed, TombsTyped, TombType
<1>3. id \in TombIds
  BY DEF SweepType
<1>4. v.cur = {}
  BY <1>1 DEF Formed, Hands
<1> DEFINE a == [v EXCEPT !.todo = @ \ {id}]
           b(t) == [v EXCEPT !.todo = @ \ {id}, !.at = "check", !.id = id, !.ref = t.ref, !.left = t.objs]
<1>5. a \in SweepType /\ a.at = "next" /\ a.cur = {} /\ a.ref = v.ref /\ a.left = v.left
  BY <1>4 DEF SweepType
<1>6. ASSUME NEW t \in tombs
      PROVE  b(t) \in SweepType /\ b(t).at = "check" /\ b(t).cur = {} /\ b(t).ref = t.ref /\ b(t).left = t.objs
  BY <1>2, <1>3, <1>4 DEF SweepType
<1>7. Formed(a)
  BY <1>1, <1>5, Zenon DEF Formed, Hands
<1>8. \A t \in tombs : \A p, q \in t.objs : t.ref # None => p = q
  BY TypeParts DEF Typed, TombsTyped, OneBaseline
<1>9. ASSUME NEW t \in tombs PROVE Formed(b(t))
  <2> PICK c \in SweepType :
           c = b(t) /\ c.at = "check" /\ c.cur = {} /\ c.ref = t.ref /\ c.left = t.objs
    BY <1>6
  <2> HIDE DEF b
  <2>1. \A p, q \in c.left : c.ref # None => p = q
    BY <1>8
  <2>2. Formed(c)
    BY <2>1, Zenon DEF Formed, Hands
  <2> QED BY <2>2
<1> QED BY <1>7, <1>9

LEMMA SweepStepTyped ==
  ASSUME TypeInv, NEW w \in Sweepers, SweepStep(w)
  PROVE  TypeInv'
<1>a. SweepsTyped /\ faults \in 0..MaxFaults
  BY TypeParts DEF Typed
<1>b. Formed(sweep[w])
  BY <1>a DEF SweepsTyped
<1>c. sweep[w] \in SweepType
  BY <1>b DEF Formed
<1> PICK v \in SweepType : v = sweep[w]
  BY <1>c
<1>d. Formed(NextTomb(w))
  BY <1>a, NextTombFormed
<1>e. Formed(v)
  BY <1>b
<1>1. CASE SweepList(w)
  <2> DEFINE T == {t.id : t \in tombs}
             s == [NoSweep EXCEPT !.at = "next", !.todo = T]
  <2>1. T \in SUBSET TombIds
    BY TypeParts DEF Typed, TombsTyped, TombType
  <2> PICK n \in SweepType : n = NoSweep
    BY NoSweepFormed DEF Formed
  <2>2. s \in SweepType /\ s.at = "next" /\ s.cur = {} /\ s.left = {}
    BY <2>1, NoSweepFormed DEF SweepType
  <2>3. Formed(s)
    BY <2>2, Zenon DEF Formed, Hands
  <2> QED BY <1>1, <2>3, <1>a, SweepTyped DEF SweepList
<1>2. CASE SweepRead(w)
  <2> PICK id \in sweep[w].todo :
           SetSweep(w, LET rest == [sweep[w] EXCEPT !.todo = @ \ {id}]
                           due  == {t \in tombs : t.id = id /\ t.age >= Grace}
                       IN IF due = {} THEN rest
                          ELSE LET t == CHOOSE t \in due : TRUE IN
                               [rest EXCEPT !.at = "check", !.id = id, !.ref = t.ref, !.left = t.objs])
    BY <1>2 DEF SweepRead
  <2> DEFINE rest == [sweep[w] EXCEPT !.todo = @ \ {id}]
             due  == {t \in tombs : t.id = id /\ t.age >= Grace}
             t    == CHOOSE t \in due : TRUE
             s    == [rest EXCEPT !.at = "check", !.id = id, !.ref = t.ref, !.left = t.objs]
  <2>1. UNCHANGED <<store, tombs, faults>> /\ sweep[w].at = "next"
    BY <1>2 DEF SweepRead
  <2>2. CASE due = {}
    <3>1. SetSweep(w, rest)
      BY <2>2
    <3>2. Formed(rest)
      BY <2>1, ReadFormed
    <3> QED BY <2>1, <3>1, <3>2, <1>a, SweepTyped
  <2>3. CASE due # {}
    <3>1. t \in tombs
      BY <2>3
    <3>2. SetSweep(w, s)
      BY <2>3
    <3>3. Formed(s)
      BY <2>1, <3>1, ReadFormed
    <3> QED BY <2>1, <3>2, <3>3, <1>a, SweepTyped
  <2> QED BY <2>2, <2>3
<1>3. CASE SweepDone(w)
  BY <1>3, <1>a, NoSweepFormed, SweepTyped DEF SweepDone
<1>4. CASE SweepRefs(w)
  <2> PICK p \in v.left : SetSweep(w, [v EXCEPT !.at = "chains", !.left = @ \ {p}, !.cur = {p}, !.refs = Chains])
    BY <1>4 DEF SweepRefs
  <2> DEFINE s == [v EXCEPT !.at = "chains", !.left = @ \ {p}, !.cur = {p}, !.refs = Chains]
  <2>1. Chains \in SUBSET Branches /\ p \in Packs
    BY DEF Chains, SweepType
  <2>2. s \in SweepType /\ s.at = "chains" /\ s.cur = {p} /\ s.ref = None
    BY <2>1, <1>4 DEF SweepType, SweepRefs
  <2>3. Formed(s)
    BY <2>2, Zenon DEF Formed, Hands
  <2> QED BY <1>4, <2>3, <1>a, SweepTyped DEF SweepRefs
<1>5. CASE SweepChain(w)
  <2> PICK r \in v.refs : SetSweep(w, IF chain[r] = None THEN NextTomb(w)
                   ELSE [v EXCEPT !.refs = @ \ {r}, !.named = @ \/ chain[r] \in v.cur])
    BY <1>5 DEF SweepChain
  <2> DEFINE s == [v EXCEPT !.refs = @ \ {r}, !.named = @ \/ chain[r] \in v.cur]
  <2>1. v.at = "chains" /\ v.ref = None
    BY <1>5, <1>e DEF SweepChain, Formed, Hands
  <2>2. s \in SweepType /\ s.at = "chains" /\ s.cur = v.cur /\ s.left = v.left /\ s.ref = None
    BY <2>1 DEF SweepType
  <2>3. Formed(s)
    BY <2>2, <1>e, Zenon DEF Formed, Hands
  <2> QED BY <1>5, <2>3, <1>a, <1>d, SweepTyped DEF SweepChain
<1>6. CASE SweepVerdict(w)
  <2> DEFINE s == [v EXCEPT !.at = "check", !.cur = {}, !.named = FALSE]
  <2>1. s \in SweepType /\ s.at = "check" /\ s.cur = {} /\ s.left = v.left /\ s.ref = v.ref
    BY DEF SweepType
  <2>2. Formed(s)
    BY <2>1, <1>e, Zenon DEF Formed, Hands
  <2> QED BY <1>6, <2>2, <1>a, SweepTyped DEF SweepVerdict
<1>7. CASE SweepBaseline(w)
  <2> DEFINE a == [v EXCEPT !.left = {}]
             b == [v EXCEPT !.at = "recheck", !.left = {}, !.cur = v.left]
  <2>1. v.at = "check" /\ v.ref # None /\ v.cur = {} /\ \A p, q \in v.left : p = q
    BY <1>7, <1>e DEF SweepBaseline, Formed, Hands
  <2>2. a \in SweepType /\ a.at = "check" /\ a.left = {} /\ a.cur = {}
    BY <2>1 DEF SweepType
  <2>3. b \in SweepType /\ b.at = "recheck" /\ b.left = {} /\ b.cur = v.left /\ b.ref # None
    BY <2>1 DEF SweepType
  <2>4. Formed(a)
    BY <2>2, Zenon DEF Formed, Hands
  <2>5. Formed(b)
    BY <2>1, <2>3, Zenon DEF Formed, Hands
  <2> QED BY <1>7, <2>4, <2>5, <1>a, SweepTyped DEF SweepBaseline
<1>8. CASE SweepRecheck(w)
  <2> DEFINE s == [v EXCEPT !.at = "bundle"]
  <2>1. v.at = "recheck" /\ v.ref # None /\ v.left = {}
    BY <1>8, <1>e DEF SweepRecheck, Formed, Hands
  <2>2. s \in SweepType /\ s.at = "bundle" /\ s.left = {} /\ s.cur = v.cur /\ s.ref # None
    BY <2>1 DEF SweepType
  <2>3. Formed(s)
    BY <2>2, <1>e, Zenon DEF Formed, Hands
  <2> QED BY <1>8, <2>3, <1>a, <1>d, SweepTyped DEF SweepRecheck
<1>9. CASE SweepDelete(w)
  <2> DEFINE s == [v EXCEPT !.at = "check", !.cur = {}]
  <2>1. s \in SweepType /\ s.at = "check" /\ s.cur = {} /\ s.left = v.left /\ s.ref = v.ref
    BY DEF SweepType
  <2>2. Formed(s)
    BY <2>1, <1>e, Zenon DEF Formed, Hands
  <2>3. SetSweep(w, s) /\ store' \subseteq store /\ UNCHANGED <<tombs, faults>>
    BY <1>9 DEF SweepDelete
  <2> QED BY <2>2, <2>3, <1>a, SweepTyped
<1>10. CASE SweepDrop(w)
  <2>1. SetSweep(w, NextTomb(w)) /\ tombs' \subseteq tombs /\ UNCHANGED <<store, faults>>
    BY <1>10 DEF SweepDrop
  <2> QED BY <2>1, <1>a, <1>d, SweepTyped
<1> QED BY <1>1, <1>2, <1>3, <1>4, <1>5, <1>6, <1>7, <1>8, <1>9, <1>10 DEF SweepStep

\* What a step of the clients may do to the pushes before the lock, and to the
\* operation of a ref.
PrepChange ==
  \/ prep' = prep
  \/ \E n \in Pushes, s \in PrepType : prep' = [prep EXCEPT ![n] = s] /\ PrepFormed(s, n, pushes')

PushChange ==
  \/ push' = push /\ chain' = chain
  \/ \E r \in Branches, s \in PushType, c \in Packs \cup {None} :
       /\ push' = [push EXCEPT ![r] = s] /\ chain' = [chain EXCEPT ![r] = c]
       /\ PushFormed(s, c, pushes')

Counts == pushes' = pushes \/ (pushes < MaxPushes /\ pushes' = pushes + 1)

LEMMA CountsUp ==
  ASSUME TypeInv, Counts
  PROVE  /\ pushes \in Int /\ pushes' \in Int /\ MaxPushes \in Int
         /\ pushes' \in 0..MaxPushes /\ pushes' >= pushes
         /\ pushes' # pushes => pushes' \in Pushes /\ pushes' = pushes + 1
  BY TypeParts, GcAssumption DEF Typed, ClientsTyped, Counts, Pushes

\* A later number leaves what is well formed.
LEMMA LaterFormed ==
  ASSUME TypeInv, Counts
  PROVE  /\ \A s : \A n \in Pushes : PrepFormed(s, n, pushes) => PrepFormed(s, n, pushes')
         /\ \A s, c : PushFormed(s, c, pushes) => PushFormed(s, c, pushes')
<1>1. pushes \in Int /\ pushes' \in Int /\ pushes' >= pushes /\ Pushes \subseteq Int
  BY CountsUp, GcAssumption DEF Pushes
<1>2. ASSUME NEW s, NEW n \in Pushes, PrepFormed(s, n, pushes) PROVE PrepFormed(s, n, pushes')
  BY <1>1, <1>2 DEF PrepFormed, PrepAt
<1>3. 1..pushes \subseteq 1..pushes'
  BY <1>1
<1>4. ASSUME NEW s, NEW c, PushFormed(s, c, pushes) PROVE PushFormed(s, c, pushes')
  BY <1>3, <1>4, Zenon DEF PushFormed, PushAt
<1> QED BY <1>2, <1>4

\* A step of the clients.
LEMMA ClientTyped ==
  ASSUME TypeInv, PrepChange, PushChange, Counts, faults' = faults \/ Fault,
         mark' = mark, sweep' = sweep, StoreTyped', TombsTyped',
         stranded' \subseteq Branches \X Packs, hazards' \subseteq {"reused", "purged", "torn"}
  PROVE  TypeInv'
<1>1. ClientsTyped /\ SweepsTyped /\ mark \in MarkType /\ faults \in 0..MaxFaults
  BY TypeParts DEF Typed
<1>2. /\ prep' \in [Pushes -> PrepType]
      /\ \A n \in Pushes : PrepFormed(prep'[n], n, pushes')
  <2>1. prep \in [Pushes -> PrepType] /\ \A n \in Pushes : PrepFormed(prep[n], n, pushes')
    BY <1>1, LaterFormed DEF ClientsTyped
  <2> QED BY <2>1 DEF PrepChange
<1>3. /\ chain' \in [Branches -> Packs \cup {None}] /\ push' \in [Branches -> PushType]
      /\ \A r \in Branches : PushFormed(push'[r], chain'[r], pushes')
  <2>1. /\ chain \in [Branches -> Packs \cup {None}] /\ push \in [Branches -> PushType]
        /\ \A r \in Branches : PushFormed(push[r], chain[r], pushes')
    BY <1>1, LaterFormed DEF ClientsTyped
  <2> QED BY <2>1 DEF PushChange
<1>4. ClientsTyped'
  BY <1>2, <1>3, CountsUp DEF ClientsTyped
<1>5. SweepsTyped'
  BY <1>1, Zenon DEF SweepsTyped
<1>6. faults' \in 0..MaxFaults
  BY <1>1, GcAssumption DEF Fault
<1> QED BY <1>1, <1>4, <1>5, <1>6, TypeParts DEF Typed

\* A new tombstone of a ref is the only one with its key.
LEMMA TombTyped ==
  ASSUME TypeInv, NEW r \in Branches, push[r].at \in {"tomb", "defer", "del"}, WriteTombstone(r)
  PROVE  TombsTyped'
<1> DEFINE id == <<"base", r, push[r].n>>
           new == [id |-> id, ref |-> r, objs |-> {push[r].prior}, age |-> 0]
<1>1. TombsTyped /\ PushFormed(push[r], chain[r], pushes) /\ pushes \in 0..MaxPushes
  BY TypeParts DEF Typed, ClientsTyped
<1>2. push[r].n \in Pushes /\ push[r].prior \in Packs
  BY <1>1, GcAssumption DEF PushFormed, PushAt, Pushes
<1>3. id \in TombIds /\ id[1] = "base" /\ id[2] = r
  BY <1>2 DEF TombIds
<1>4. new \in TombType
  BY <1>2, <1>3, GcAssumption DEF TombType
<1>5. tombs' = {t \in tombs : t.id # id} \cup {new}
  BY DEF WriteTombstone, baseline_tombstone_key
<1>6. new.id = id /\ new.ref = r /\ new.objs = {push[r].prior}
  OBVIOUS
<1> HIDE DEF id, new
<1>7. \A t \in tombs' : t = new \/ (t \in tombs /\ t.id # id)
  BY <1>5
<1>8. tombs' \subseteq TombType
  BY <1>1, <1>4, <1>7, Zenon DEF TombsTyped
<1>9. \A t \in tombs' : t.ref = IF t.id[1] = "base" THEN t.id[2] ELSE None
  BY <1>1, <1>3, <1>6, <1>7 DEF TombsTyped
<1>10. \A t, u \in tombs' : t.id = u.id => t = u
  BY <1>1, <1>6, <1>7 DEF TombsTyped
<1>11. OneBaseline'
  BY <1>1, <1>6, <1>7 DEF TombsTyped, OneBaseline
<1> QED BY <1>8, <1>9, <1>10, <1>11 DEF TombsTyped

\* The steps of the pushes before the lock, and of the operations under it.
PrepMove(n) == PrepStep(n) \/ PrepDies(n)
PushMove(r) == PushStart(r) \/ DeleteStart(r) \/ ClientStep(r) \/ CompactUpload(r) \/ PushDies(r)

\* A step of Gc, or of the compaction that is the operation on a ref.
RemoteNext == Next \/ \E r \in Branches : CompactUpload(r)

\* What no step of the clients does.
LEMMA ClientsLeave ==
  ASSUME TypeInv, NEW n \in Pushes, NEW r \in Branches, PrepMove(n) \/ PushMove(r)
  PROVE  /\ mark' = mark /\ sweep' = sweep
         /\ faults' = faults \/ Fault
         /\ Counts
         /\ hazards \subseteq hazards' /\ hazards' \subseteq {"reused", "purged", "torn"}
<1>1. hazards \subseteq {"reused", "purged", "torn"}
  BY TypeParts DEF Typed, ClientsTyped
<1>2. CASE PrepMove(n)
  BY <1>1, <1>2 DEF PrepMove, PrepStep, PrepUpload, UploadPack, UploadBundle, Reuse, PushLock, PushRefused,
    PrepDies, Counts
<1>3. CASE PushMove(r)
  BY <1>1, <1>3 DEF PushMove, PushStart, DeleteStart, ClientStep, CompactUpload, UploadPack, UploadBundle, Reuse,
    Commit, TombstonePrior, DeleteDefer, DeleteBundle, DeleteChain, PushDies, Counts
<1> QED BY <1>2, <1>3

\* The steps before the lock, by the next state of the push.
LEMMA PrepTyped ==
  ASSUME TypeInv, NEW n \in Pushes, PrepMove(n)
  PROVE  TypeInv'
<1>a. /\ ClientsTyped /\ StoreTyped /\ TombsTyped /\ PrepFormed(prep[n], n, pushes)
      /\ prep[n] \in PrepType
  BY TypeParts DEF Typed, ClientsTyped
<1>b. prep[n].at # "idle" => prep[n].ref \in Branches /\ prep[n].sha \in Packs /\ n <= pushes
  BY <1>a DEF PrepFormed, PrepAt
<1>c. tombs' = tombs => TombsTyped'
  BY <1>a DEF TombsTyped, OneBaseline
<1> PICK v \in PrepType : v = prep[n]
  BY <1>a
<1>d. stranded \subseteq Branches \X Packs
  BY <1>a DEF ClientsTyped
<1>e. NoPrep \in PrepType /\ \A last : PrepFormed(NoPrep, n, last)
  BY NoneFormed DEF PrepFormed
<1>1. CASE PrepUpload(n)
  <2>1. \E at \in {"bundle", "lock"} : prep' = [prep EXCEPT ![n] = [v EXCEPT !.at = at]]
    BY <1>1, <1>a DEF PrepUpload, ClientsTyped
  <2> PICK at \in {"bundle", "lock"} : prep' = [prep EXCEPT ![n] = [v EXCEPT !.at = at]]
    BY <2>1
  <2> DEFINE s == [v EXCEPT !.at = at]
  <2>2. prep[n].at # "idle"
    BY <1>1 DEF PrepUpload
  <2>3. s \in PrepType /\ s.at = at /\ s.ref = v.ref /\ s.sha = v.sha /\ s # NoPrep
    BY NoneFormed DEF PrepType
  <2>4. pushes' = pushes /\ UNCHANGED <<push, chain, tombs, stranded>>
    BY <1>1 DEF PrepUpload
  <2>5. PrepFormed(s, n, pushes')
    BY <1>b, <2>2, <2>3, <2>4 DEF PrepFormed, PrepAt
  <2>6. PrepChange
    BY <2>3, <2>5 DEF PrepChange
  <2>7. PackKey(v.sha) \in PackKeys /\ BundleKey(v.ref, v.sha) \in BundleKeys
    BY <1>b, <2>2 DEF PackKeys, BundleKeys
  <2>8. StoreTyped'
    BY <1>1, <1>a, <2>7 DEF PrepUpload, UploadPack, UploadBundle, StoreTyped
  <2>9. PushChange
    BY <2>4 DEF PushChange
  <2>10. \A r \in Branches : mark' = mark /\ sweep' = sweep /\ (faults' = faults \/ Fault) /\ Counts
           /\ hazards' \subseteq {"reused", "purged", "torn"}
    BY ClientsLeave
  <2>11. prep[n].ref \in Branches
    BY <1>b, <2>2
  <2> QED BY <2>4, <2>6, <2>8, <2>9, <2>10, <2>11, <1>c, <1>d, ClientTyped
<1>2. CASE PushLock(n)
  <2> PICK r : r = prep[n].ref
    OBVIOUS
  <2>1. r \in Branches /\ v.at = "lock" /\ v.sha \in Packs /\ n <= pushes
    BY <1>2, <1>b DEF PushLock
  <2> DEFINE s == [at |-> "commit", n |-> n, sha |-> v.sha, prior |-> v.prior, todo |-> {}]
  <2>2. /\ push' = [push EXCEPT ![r] = s] /\ prep' = [prep EXCEPT ![n] = NoPrep]
        /\ UNCHANGED <<chain, store, tombs, pushes, stranded, hazards, mark, sweep, faults>>
    BY <1>2 DEF PushLock
  <2>3. n \in 0..MaxPushes /\ n \in 1..pushes
    BY <2>1, <1>a, GcAssumption DEF Pushes, ClientsTyped
  <2>4. s \in PushType /\ s.at = "commit" /\ s.n = n /\ s.sha = v.sha /\ s # NoPush
    BY <2>1, <2>3, NoneFormed DEF PushType, PrepType
  <2> HIDE DEF s
  <2>5. PushFormed(s, chain[r], pushes)
    BY <2>1, <2>3, <2>4 DEF PushFormed, PushAt
  <2>6. chain[r] \in Packs \cup {None} /\ chain' = [chain EXCEPT ![r] = chain[r]]
    BY <1>a, <2>1, <2>2 DEF ClientsTyped
  <2>7. PushChange
    BY <2>1, <2>2, <2>4, <2>5, <2>6, Zenon DEF PushChange
  <2>8. PrepChange
    BY <1>e, <2>2 DEF PrepChange
  <2>9. Counts /\ StoreTyped'
    BY <2>2, <1>a DEF Counts, StoreTyped
  <2>10. hazards' \subseteq {"reused", "purged", "torn"}
    BY <2>2, <1>a DEF ClientsTyped
  <2> QED BY <2>2, <2>7, <2>8, <2>9, <2>10, <1>c, <1>d, ClientTyped
<1>3. CASE PushRefused(n) \/ PrepDies(n)
  <2>1. prep' = [prep EXCEPT ![n] = NoPrep] /\ UNCHANGED <<push, chain, tombs, store, pushes, hazards, mark, sweep>>
    BY <1>3 DEF PushRefused, PrepDies
  <2>2. prep[n].at = "lock" => <<prep[n].ref, prep[n].sha>> \in Branches \X Packs
    BY <1>b
  <2>3. Strand(n)
    BY <1>3 DEF PushRefused, PrepDies
  <2>4. stranded' \subseteq Branches \X Packs
    BY <2>2, <2>3, <1>d DEF Strand
  <2>5. PrepChange /\ PushChange /\ Counts
    BY <2>1, <1>e DEF PrepChange, PushChange, Counts
  <2>6. faults' = faults \/ Fault
    BY <1>3 DEF PushRefused, PrepDies
  <2>7. StoreTyped' /\ hazards' \subseteq {"reused", "purged", "torn"}
    BY <2>1, <1>a DEF StoreTyped, ClientsTyped
  <2> QED BY <2>1, <2>4, <2>5, <2>6, <2>7, <1>c, ClientTyped
<1> QED BY <1>1, <1>2, <1>3 DEF PrepMove, PrepStep

\* The steps of the operation of a ref.
LEMMA PushTyped ==
  ASSUME TypeInv, NEW r \in Branches, PushMove(r)
  PROVE  TypeInv'
<1>a. /\ ClientsTyped /\ StoreTyped /\ TombsTyped /\ PushFormed(push[r], chain[r], pushes)
      /\ push[r] \in PushType /\ chain[r] \in Packs \cup {None}
      /\ push \in [Branches -> PushType] /\ chain \in [Branches -> Packs \cup {None}]
      /\ prep \in [Pushes -> PrepType]
      /\ pushes \in 0..MaxPushes /\ stranded \subseteq Branches \X Packs
      /\ hazards \subseteq {"reused", "purged", "torn"}
  BY TypeParts DEF Typed, ClientsTyped
<1>b. /\ push[r].at # "idle" => push[r].n \in 1..pushes
      /\ push[r].at \in {"pack", "bundle", "commit"} => push[r].sha \in Packs
      /\ push[r].at \in {"tomb", "defer", "del"} => push[r].prior \in Packs
      /\ push[r].at = "defer" => chain[r] = push[r].prior
      /\ push[r].at = "del" => chain[r] \in {None, push[r].prior}
  BY <1>a DEF PushFormed, PushAt
<1> PICK v \in PushType : v = push[r]
  BY <1>a
<1>c. tombs' = tombs => TombsTyped'
  BY <1>a DEF TombsTyped, OneBaseline
<1>d. store' \subseteq store => StoreTyped'
  BY <1>a DEF StoreTyped
<1>e. NoPush \in PushType /\ \A c, last : PushFormed(NoPush, c, last)
  BY NoneFormed DEF PushFormed
<1>f. /\ mark' = mark /\ sweep' = sweep /\ (faults' = faults \/ Fault) /\ Counts
      /\ hazards' \subseteq {"reused", "purged", "torn"}
  <2>1. CASE \E n \in Pushes : TRUE
    BY <2>1, ClientsLeave
  <2>2. CASE Pushes = {}
    <3>1. MaxPushes = 0 /\ pushes = 0
      BY <2>2, <1>a, GcAssumption DEF Pushes
    <3>2. push[r].at = "idle"
      BY <1>b, <3>1
    <3> QED BY <3>1, <3>2 DEF PushMove, PushStart, DeleteStart, ClientStep, CompactUpload, Commit, TombstonePrior,
                   DeleteDefer, DeleteBundle, DeleteChain, PushDies
  <2> QED BY <2>1, <2>2
<1>g. ASSUME NEW s \in PushType, push' = [push EXCEPT ![r] = s], PushFormed(s, chain'[r], pushes'),
             chain' = chain \/ (\E c \in Packs \cup {None} : chain' = [chain EXCEPT ![r] = c]),
             prep' = prep, stranded' \subseteq Branches \X Packs, StoreTyped', TombsTyped'
      PROVE  TypeInv'
  <2>1. PICK c \in Packs \cup {None} : chain' = [chain EXCEPT ![r] = c] /\ c = chain'[r]
    BY <1>a, <1>g
  <2>2. PushChange
    BY <1>g, <2>1, Zenon DEF PushChange
  <2>3. PrepChange
    BY <1>g DEF PrepChange
  <2> QED BY <1>f, <1>g, <2>2, <2>3, ClientTyped
<1>h. ASSUME NEW s \in PushType, push' = [push EXCEPT ![r] = s], s = NoPush,
             chain' = chain \/ (\E c \in Packs \cup {None} : chain' = [chain EXCEPT ![r] = c]),
             prep' = prep, stranded' \subseteq Branches \X Packs, StoreTyped', TombsTyped'
      PROVE  TypeInv'
  BY <1>e, <1>g, <1>h
<1>1. CASE PushStart(r)
  <2> PICK p \in Packs, force \in BOOLEAN :
             prep' = [prep EXCEPT ![pushes'] = [at |-> "pack", ref |-> r, sha |-> p,
                                                prior |-> chain[r], force |-> force]]
    BY <1>1 DEF PushStart
  <2> DEFINE s == [at |-> "pack", ref |-> r, sha |-> p, prior |-> chain[r], force |-> force]
  <2>1. s \in PrepType /\ s.at = "pack" /\ s.ref = r /\ s.sha = p /\ s # NoPrep
    BY <1>a, NoneFormed DEF PrepType
  <2>2. pushes' \in Pushes /\ pushes' \in Int
    BY <1>1, CountsUp, <1>f DEF PushStart
  <2>3. prep' = [prep EXCEPT ![pushes'] = s]
    OBVIOUS
  <2> HIDE DEF s
  <2>4. PrepFormed(s, pushes', pushes')
    BY <2>1, <2>2 DEF PrepFormed, PrepAt
  <2>5. PrepChange
    BY <2>1, <2>2, <2>3, <2>4 DEF PrepChange
  <2>6. UNCHANGED <<chain, push, store, tombs, stranded>>
    BY <1>1 DEF PushStart
  <2> QED BY <2>5, <2>6, <1>a, <1>c, <1>d, <1>f, ClientTyped DEF PushChange
<1>2. CASE DeleteStart(r)
  <2> DEFINE s == [at |-> "defer", n |-> pushes', sha |-> None, prior |-> chain[r],
                   todo |-> {p \in Packs : BundleKey(r, p) \in store}]
  <2>1. pushes' \in Pushes /\ pushes' \in 0..MaxPushes /\ pushes' \in 1..pushes'
    BY <1>2, CountsUp, <1>f DEF DeleteStart, Pushes
  <2>2. s \in PushType /\ s.at = "defer" /\ s.n = pushes' /\ s.prior = chain[r] /\ s # NoPush
    BY <1>a, <2>1, NoneFormed DEF PushType
  <2>3. push' = [push EXCEPT ![r] = s] /\ UNCHANGED <<chain, prep, store, tombs, stranded>> /\ chain[r] # None
    BY <1>2 DEF DeleteStart
  <2> HIDE DEF s
  <2>4. PushFormed(s, chain'[r], pushes')
    BY <1>a, <2>1, <2>2, <2>3 DEF PushFormed, PushAt
  <2> QED BY <2>2, <2>3, <2>4, <1>a, <1>c, <1>d, <1>g
<1>3. CASE CompactUpload(r)
  <2>1. \E at \in {"bundle", "commit"} : push' = [push EXCEPT ![r] = [v EXCEPT !.at = at]]
    BY <1>3, <1>a DEF CompactUpload
  <2> PICK at \in {"bundle", "commit"} : push' = [push EXCEPT ![r] = [v EXCEPT !.at = at]]
    BY <2>1
  <2> DEFINE s == [v EXCEPT !.at = at]
  <2>2. push[r].at \in {"pack", "bundle"} /\ UNCHANGED <<chain, prep, tombs, stranded, pushes>>
    BY <1>3 DEF CompactUpload
  <2>3. s \in PushType /\ s.at \in {"bundle", "commit"} /\ s.n = v.n /\ s.sha = v.sha /\ s # NoPush
    BY NoneFormed DEF PushType
  <2>4. push' = [push EXCEPT ![r] = s]
    OBVIOUS
  <2> HIDE DEF s
  <2>5. PushFormed(s, chain'[r], pushes')
    BY <1>b, <2>2, <2>3 DEF PushFormed, PushAt
  <2>6. PackKey(v.sha) \in PackKeys /\ BundleKey(r, v.sha) \in BundleKeys
    BY <1>b, <2>2 DEF PackKeys, BundleKeys
  <2>7. StoreTyped'
    BY <1>3, <1>a, <2>6 DEF CompactUpload, UploadPack, UploadBundle, StoreTyped
  <2> QED BY <2>2, <2>3, <2>4, <2>5, <2>7, <1>a, <1>c, <1>g
<1>4. CASE Commit(r)
  <2> DEFINE u == [v EXCEPT !.at = "tomb"]
             s == IF v.prior \in {None, v.sha} THEN NoPush ELSE u
  <2>1. v.at = "commit" /\ v.sha \in Packs /\ v.prior \in Packs \cup {None} /\ v.n \in 1..pushes
    BY <1>4, <1>b DEF Commit, PushType
  <2>2. /\ push' = [push EXCEPT ![r] = s] /\ chain' = [chain EXCEPT ![r] = v.sha]
        /\ UNCHANGED <<prep, store, tombs, pushes>>
    BY <1>4, <1>a DEF Commit
  <2>3. u \in PushType /\ u.at = "tomb" /\ u.prior = v.prior /\ u.n = v.n /\ u # NoPush
    BY NoneFormed DEF PushType
  <2> HIDE DEF u
  <2>4. v.prior \notin {None, v.sha} => PushFormed(u, v.sha, pushes)
    BY <2>1, <2>3 DEF PushFormed, PushAt
  <2>5. s \in PushType /\ PushFormed(s, chain'[r], pushes')
    BY <1>a, <1>e, <2>1, <2>2, <2>3, <2>4
  <2>6. stranded' \subseteq Branches \X Packs
    BY <1>4, <1>a DEF Commit
  <2> HIDE DEF s
  <2> QED BY <2>1, <2>2, <2>5, <2>6, <1>c, <1>d, <1>g
<1>5. CASE TombstonePrior(r)
  <2>1. push[r].at = "tomb" /\ push' = [push EXCEPT ![r] = NoPush] /\ UNCHANGED <<chain, prep, store>>
    BY <1>5 DEF TombstonePrior
  <2>2. TombsTyped'
    BY <1>5, <2>1, <1>c, TombTyped DEF TombstonePrior
  <2>3. stranded' \subseteq Branches \X Packs
    BY <1>5, <1>a, <1>b DEF TombstonePrior
  <2> QED BY <2>1, <2>2, <2>3, <1>d, <1>e, <1>h
<1>6. CASE DeleteDefer(r)
  <2>1. \E T \in {v.todo, v.todo \ {v.prior}} : push' = [push EXCEPT ![r] = [v EXCEPT !.at = "del", !.todo = T]]
    <3>1. [v EXCEPT !.at = "del"] = [v EXCEPT !.at = "del", !.todo = v.todo]
      BY DEF PushType
    <3> QED BY <1>6, <1>a, <3>1 DEF DeleteDefer
  <2> PICK T \in {v.todo, v.todo \ {v.prior}} : push' = [push EXCEPT ![r] = [v EXCEPT !.at = "del", !.todo = T]]
    BY <2>1
  <2> DEFINE s == [v EXCEPT !.at = "del", !.todo = T]
  <2>2. push[r].at = "defer" /\ UNCHANGED <<chain, prep, store, pushes, stranded>>
    BY <1>6 DEF DeleteDefer
  <2>3. s \in PushType /\ s.at = "del" /\ s.n = v.n /\ s.prior = v.prior /\ s # NoPush
    BY NoneFormed DEF PushType
  <2>4. TombsTyped'
    BY <1>6, <2>2, <1>c, TombTyped DEF DeleteDefer
  <2>5. push' = [push EXCEPT ![r] = s]
    OBVIOUS
  <2> HIDE DEF s
  <2>6. PushFormed(s, chain'[r], pushes')
    BY <1>b, <2>2, <2>3 DEF PushFormed, PushAt
  <2> QED BY <2>2, <2>3, <2>4, <2>5, <2>6, <1>a, <1>d, <1>g
<1>7. CASE DeleteBundle(r)
  <2> PICK p \in push[r].todo :
         /\ store' = store \ {BundleKey(r, p)} /\ stranded' = stranded \ {<<r, p>>}
         /\ push' = [push EXCEPT ![r] = IF push[r].todo \ {p} = {} /\ chain[r] = None THEN NoPush
                                        ELSE [@ EXCEPT !.todo = push[r].todo \ {p}]]
    BY <1>7 DEF DeleteBundle
  <2> DEFINE s == [v EXCEPT !.todo = v.todo \ {p}]
  <2>1. push[r].at = "del" /\ UNCHANGED <<chain, prep, tombs, pushes>>
    BY <1>7 DEF DeleteBundle
  <2>2. s \in PushType /\ s.at = v.at /\ s.n = v.n /\ s.prior = v.prior
    BY DEF PushType
  <2>3. push' = [push EXCEPT ![r] = s] \/ push' = [push EXCEPT ![r] = NoPush]
    <3>1. push' = [push EXCEPT ![r] = IF v.todo \ {p} = {} /\ chain[r] = None THEN NoPush ELSE s]
      OBVIOUS
    <3> HIDE DEF s
    <3> QED BY <3>1
  <2> HIDE DEF s
  <2>4. PushFormed(s, chain'[r], pushes')
    BY <1>b, <2>1, <2>2, NoneFormed DEF PushFormed, PushAt
  <2>5. store' \subseteq store /\ stranded' \subseteq Branches \X Packs
    BY <1>a
  <2> QED BY <2>1, <2>2, <2>3, <2>4, <2>5, <1>c, <1>d, <1>e, <1>g, <1>h
<1>8. CASE DeleteChain(r)
  <2>1. /\ push[r].at = "del" /\ UNCHANGED <<prep, tombs, store, pushes, stranded>>
        /\ chain' = [chain EXCEPT ![r] = None]
        /\ push' = [push EXCEPT ![r] = v] \/ push' = [push EXCEPT ![r] = NoPush]
    BY <1>8, <1>a DEF DeleteChain
  <2>2. PushFormed(v, chain'[r], pushes')
    BY <1>a, <1>b, <2>1 DEF PushFormed, PushAt
  <2> QED BY <2>1, <2>2, <1>a, <1>c, <1>d, <1>e, <1>g, <1>h
<1>9. CASE PushDies(r)
  <2>1. push' = [push EXCEPT ![r] = NoPush] /\ UNCHANGED <<chain, prep, tombs, store>> /\ push[r].at # "idle"
    BY <1>9 DEF PushDies
  <2>2. stranded' \subseteq Branches \X Packs
    BY <1>9, <1>a, <1>b DEF PushDies
  <2> QED BY <2>1, <2>2, <1>a, <1>c, <1>d, <1>e, <1>h
<1> QED BY <1>1, <1>2, <1>3, <1>4, <1>5, <1>6, <1>7, <1>8, <1>9 DEF PushMove, ClientStep

\* A step of gc mark leaves all but the record and the tombstones.
LEMMA MarkStepTyped ==
  ASSUME TypeInv, MarkStep
  PROVE  TypeInv'
<1>a. /\ mark \in MarkType /\ TombsTyped /\ SweepsTyped /\ ClientsTyped /\ StoreTyped
      /\ faults \in 0..MaxFaults
  BY TypeParts DEF Typed
<1>b. /\ UNCHANGED <<chain, store, prep, push, sweep, pushes, faults, stranded, hazards>>
      /\ tombs' = tombs \/ MarkPut
  BY DEF MarkStep, MarkPacks, MarkRefs, MarkChain, MarkStamp, MarkPut
<1>c. NoMark \in MarkType
  BY GcAssumption DEF NoMark, MarkType
<1>1. mark' \in MarkType
  <2>1. CASE MarkPacks
    <3>1. list_pack_shas \in SUBSET Packs
      BY DEF list_pack_shas
    <3> PICK m \in MarkType : m = NoMark
      BY <1>c
    <3>2. mark' = [m EXCEPT !.at = "list", !.seen = list_pack_shas]
      BY <2>1 DEF MarkPacks
    <3> QED BY <3>1, <3>2 DEF MarkType
  <2>2. CASE MarkRefs
    <3>1. Chains \in SUBSET Branches
      BY DEF Chains
    <3> QED BY <1>a, <2>2, <3>1 DEF MarkRefs, MarkType
  <2>3. CASE MarkChain
    <3> PICK m \in MarkType : m = mark
      BY <1>a
    <3> PICK r : mark' = IF chain[r] = None THEN NoMark
                         ELSE [m EXCEPT !.refs = @ \ {r}, !.seen = @ \ {chain[r]}]
      BY <2>3 DEF MarkChain
    <3>1. [m EXCEPT !.refs = @ \ {r}, !.seen = @ \ {chain[r]}] \in MarkType
      BY DEF MarkType
    <3> QED BY <1>c, <3>1
  <2>4. CASE MarkStamp
    BY <1>a, <1>c, <2>4 DEF MarkStamp, MarkType
  <2>5. CASE MarkPut
    BY <1>c, <2>5 DEF MarkPut
  <2> QED BY <2>1, <2>2, <2>3, <2>4, <2>5 DEF MarkStep
<1>2. TombsTyped'
  <2>1. CASE tombs' = tombs
    BY <1>a, <2>1 DEF TombsTyped, OneBaseline
  <2>2. CASE MarkPut
    <3> PICK n \in FreeIds :
          tombs' = tombs \cup {[id |-> <<"packs", n>>, ref |-> None, objs |-> mark.seen, age |-> mark.age]}
      BY <2>2 DEF MarkPut
    <3> DEFINE id == <<"packs", n>>
               new == [id |-> id, ref |-> None, objs |-> mark.seen, age |-> mark.age]
    <3>1. id \in TombIds /\ id[1] = "packs" /\ \A t \in tombs : t.id # id
      BY DEF FreeIds, TombIds
    <3>2. mark.seen \in SUBSET Packs /\ mark.age \in 0..Grace
      BY <1>a DEF MarkType
    <3>3. new \in TombType /\ new.id = id /\ new.ref = None
      BY <3>1, <3>2 DEF TombType
    <3> HIDE DEF id, new
    <3>4. \A t \in tombs' : t = new \/ t \in tombs
      BY DEF id, new
    <3>5. tombs' \subseteq TombType
      BY <1>a, <3>3, <3>4, Zenon DEF TombsTyped
    <3>6. \A t \in tombs' : t.ref = IF t.id[1] = "base" THEN t.id[2] ELSE None
      BY <1>a, <3>1, <3>3, <3>4 DEF TombsTyped
    <3>7. \A t, u \in tombs' : t.id = u.id => t = u
      BY <1>a, <3>1, <3>3, <3>4 DEF TombsTyped
    <3>8. OneBaseline'
      BY <1>a, <3>3, <3>4 DEF TombsTyped, OneBaseline
    <3> QED BY <3>5, <3>6, <3>7, <3>8 DEF TombsTyped
  <2> QED BY <1>b, <2>1, <2>2
<1>3. ClientsTyped'
  BY <1>a, <1>b, Zenon DEF ClientsTyped
<1>4. SweepsTyped' /\ StoreTyped'
  BY <1>a, <1>b, Zenon DEF SweepsTyped, StoreTyped
<1> QED BY <1>1, <1>2, <1>3, <1>4, <1>a, <1>b, TypeParts DEF Typed

LEMMA GcFailsTyped ==
  ASSUME TypeInv, GcFails
  PROVE  TypeInv'
<1>a. /\ mark \in MarkType /\ TombsTyped /\ SweepsTyped /\ ClientsTyped /\ StoreTyped
      /\ faults' \in 0..MaxFaults /\ tombs' = tombs /\ store' = store
  BY TypeParts, GcAssumption DEF Typed, GcFails, Fault
<1>1. CASE mark' = NoMark /\ UNCHANGED <<chain, prep, push, sweep, pushes, stranded, hazards>>
  <2>1. NoMark \in MarkType
    BY GcAssumption DEF NoMark, MarkType
  <2>2. TombsTyped' /\ StoreTyped'
    BY <1>a, Zenon DEF TombsTyped, OneBaseline, StoreTyped
  <2>3. ClientsTyped'
    BY <1>a, <1>1, Zenon DEF ClientsTyped
  <2>4. SweepsTyped'
    BY <1>a, <1>1, Zenon DEF SweepsTyped
  <2> QED BY <1>1, <1>a, <2>1, <2>2, <2>3, <2>4, TypeParts DEF Typed
<1>2. CASE \E w \in Sweepers : SetSweep(w, NextTomb(w))
  BY <1>2, <1>a, NextTombFormed, SweepTyped
<1>3. CASE \E w \in Sweepers : SetSweep(w, NoSweep)
  BY <1>3, <1>a, NoSweepFormed, SweepTyped
<1> QED BY <1>1, <1>2, <1>3 DEF GcFails

\* The tombstones an hour older.
LEMMA OlderTombs ==
  ASSUME TypeInv, Tick
  PROVE  /\ \A u \in tombs' : \E t \in tombs :
              /\ u.id = t.id /\ u.ref = t.ref /\ u.objs = t.objs
              /\ u.age = Older(t.age) /\ u \in TombType
         /\ \A t \in tombs : \E u \in tombs' : u.id = t.id /\ u.ref = t.ref /\ u.objs = t.objs
<1>1. tombs \subseteq TombType
  BY TypeParts DEF Typed, TombsTyped
<1>2. tombs' = {[t EXCEPT !.age = Older(@)] : t \in tombs}
  BY DEF Tick
<1>3. ASSUME NEW t \in TombType
      PROVE  LET u == [t EXCEPT !.age = Older(@)] IN
             u.id = t.id /\ u.ref = t.ref /\ u.objs = t.objs /\ u.age = Older(t.age) /\ u \in TombType
  <2>1. Older(t.age) \in 0..Grace
    BY GcAssumption DEF TombType, Older
  <2> QED BY <2>1 DEF TombType
<1>4. ASSUME NEW u \in tombs'
      PROVE  \E t \in tombs : /\ u.id = t.id /\ u.ref = t.ref /\ u.objs = t.objs
                             /\ u.age = Older(t.age) /\ u \in TombType
  <2> PICK t \in tombs : u = [t EXCEPT !.age = Older(@)]
    BY <1>2
  <2> QED BY <1>1, <1>3
<1>5. ASSUME NEW t \in tombs
      PROVE  \E u \in tombs' : u.id = t.id /\ u.ref = t.ref /\ u.objs = t.objs
  <2> [t EXCEPT !.age = Older(@)] \in tombs'
    BY <1>2
  <2> QED BY <1>1, <1>3
<1> QED BY <1>4, <1>5

LEMMA TickTyped ==
  ASSUME TypeInv, Tick
  PROVE  TypeInv'
<1>a. mark \in MarkType /\ TombsTyped /\ SweepsTyped /\ ClientsTyped /\ StoreTyped /\ faults \in 0..MaxFaults
  BY TypeParts DEF Typed
<1>b. UNCHANGED <<chain, store, prep, push, sweep, pushes, faults, stranded, hazards>>
  BY DEF Tick
<1>1. mark' \in MarkType
  BY <1>a, GcAssumption DEF Tick, MarkType, Older
<1>2. \A t, u \in tombs' : t.id = u.id => t = u
  <2> SUFFICES ASSUME NEW t \in tombs', NEW u \in tombs', t.id = u.id PROVE t = u
    OBVIOUS
  <2>1. PICK v \in tombs : t = [v EXCEPT !.age = Older(@)]
    BY DEF Tick
  <2>2. PICK w \in tombs : u = [w EXCEPT !.age = Older(@)]
    BY DEF Tick
  <2>3. v \in TombType /\ w \in TombType
    BY <1>a DEF TombsTyped
  <2>4. v.id = w.id
    BY <2>1, <2>2, <2>3 DEF TombType
  <2>5. v = w
    BY <1>a, <2>4 DEF TombsTyped
  <2> QED BY <2>1, <2>2, <2>5
<1>3. TombsTyped'
  BY <1>a, <1>2, OlderTombs DEF TombsTyped, OneBaseline
<1>4. ClientsTyped'
  BY <1>a, <1>b, Zenon DEF ClientsTyped
<1>5. SweepsTyped' /\ StoreTyped'
  BY <1>a, <1>b, Zenon DEF SweepsTyped, StoreTyped
<1> QED BY <1>1, <1>3, <1>4, <1>5, <1>a, <1>b, TypeParts DEF Typed

LEMMA NextTyped ==
  TypeInv /\ [RemoteNext]_vars => TypeInv'
<1> SUFFICES ASSUME TypeInv, [RemoteNext]_vars PROVE TypeInv'
  OBVIOUS
<1>1. CASE UNCHANGED vars
  BY <1>1, TypeParts, Zenon DEF vars, Typed, StoreTyped, TombsTyped, OneBaseline, ClientsTyped, SweepsTyped
<1>2. CASE RemoteNext
  BY <1>2, PrepTyped, PushTyped, MarkStepTyped, SweepStepTyped, GcFailsTyped, TickTyped
     DEF RemoteNext, Next, PrepMove, PushMove
<1> QED BY <1>1, <1>2

\* The state of the refs, the tombstones and the processes keeps its types,
\* and no tombstone is written over another.
THEOREM TypeCorrect == Spec => []TypeOK
<1>1. TypeInv => TypeOK
  BY DEF TypeInv
<1>2. TypeInv /\ [Next]_vars => TypeInv'
  BY NextTyped DEF RemoteNext
<1> QED BY <1>1, <1>2, InitTyped, PTL DEF Spec

-----------------------------------------------------------------------------
(* The packs and baselines that the chains name.                           *)

\* The keys of the store are told apart.
LEMMA Keys ==
  /\ \A p, q : PackKey(p) = PackKey(q) => p = q
  /\ \A r, s, p, q : BundleKey(r, p) = BundleKey(s, q) => r = s /\ p = q
  /\ \A r, p, q : PackKey(q) # BundleKey(r, p)
  BY DEF PackKey, BundleKey

\* A step of a client that puts the object into the store; unless it was
\* condemned, no sweep knows of it.
Uploaded(ref, p) ==
  /\ ObjKey(ref, p) \in store' /\ tombs' = tombs
  /\ Sound(ref)' => p \notin Condemned(ref)

\* A step of a client that keeps the object in the store, or is that of a
\* delete of the ref.
Stays(ref, p) ==
  ObjKey(ref, p) \in store =>
    \/ ObjKey(ref, p) \in store'
    \/ /\ ref # None /\ push[ref].at = "del"
       /\ Sound(ref)' => ~Waiting(ref, p)
       /\ push'[ref].at = "del" \/ chain'[ref] = None

Moves(q) == chain'[q] \in {chain[q], None} \/ (push[q].at = "commit" /\ chain'[q] = push[q].sha)

\* A delete that ends before chain.json has left the baseline.
Untorn(q) ==
  push[q].at = "del" /\ push'[q].at # "del" /\ chain'[q] = chain[q] /\ chain[q] # None /\ Sound(q)' =>
    BundleKey(q, chain[q]) \in store'

\* What the steps of the clients may do.
Effect ==
  /\ mark' = mark /\ sweep' = sweep /\ hazards \subseteq hazards'
  /\ \A t \in tombs' : t \in tombs \/ t.age = 0
  /\ \A ref \in Branches \cup {None}, p \in Packs :
       Stays(ref, p) /\ (Needed(ref, p)' => Needed(ref, p) \/ Uploaded(ref, p))
  /\ \A q \in Branches : Moves(q) /\ Untorn(q)

\* What an upload does to the store and to the history.
LEMMA UploadEffect ==
  ASSUME NEW ref, NEW p \in Packs, ref = None \/ ref \in Branches,
         IF ref = None THEN UploadPack(p) ELSE UploadBundle(ref, p), tombs' = tombs
  PROVE  /\ store \subseteq store' /\ Uploaded(ref, p)
<1>1. store' = store \cup {ObjKey(ref, p)} /\ Reuse(p, ref)
  BY DEF UploadPack, UploadBundle, ObjKey
<1>2. Sound(ref)' => "reused" \notin hazards'
  BY DEF Sound
<1>3. p \in Condemned(ref) => "reused" \in hazards'
  BY <1>1 DEF Reuse
<1> QED BY <1>1, <1>2, <1>3 DEF Uploaded

LEMMA PrepEffect ==
  ASSUME TypeInv, NEW n \in Pushes, PrepMove(n)
  PROVE  Effect
<1>a. /\ prep \in [Pushes -> PrepType] /\ PrepFormed(prep[n], n, pushes) /\ prep[n] \in PrepType
      /\ push \in [Branches -> PushType]
  BY TypeParts DEF Typed, ClientsTyped
<1>b. prep[n].at # "idle" => prep[n].ref \in Branches /\ prep[n].sha \in Packs
  BY <1>a DEF PrepFormed, PrepAt
<1>n. None \notin Branches /\ NoPrep.at = "idle"
  BY GcAssumption, NoneFormed
<1>c. prep[n].at # "idle" /\ UNCHANGED <<chain, tombs, mark, sweep>>
  BY DEF PrepMove, PrepStep, PrepUpload, PushLock, PushRefused, PrepDies
<1> PICK b : b = prep[n].ref
  OBVIOUS
<1> PICK v \in PrepType : v = prep[n]
  BY <1>a
<1>d. b \in Branches /\ v.sha \in Packs /\ v.ref = b
  BY <1>b, <1>c
<1>e. hazards \subseteq hazards'
  BY <1>d, ClientsLeave
<1>1. store \subseteq store'
  BY DEF PrepMove, PrepStep, PrepUpload, UploadPack, UploadBundle, PushLock, PushRefused, PrepDies
<1>2. \A q \in Branches : push'[q].at # "del" => push'[q] = push[q] \/ push[q].at = "idle"
  BY <1>a DEF PrepMove, PrepStep, PrepUpload, PushLock, PushRefused, PrepDies
<1>3. \A q \in Branches : Moves(q) /\ Untorn(q)
  <2> TAKE q \in Branches
  <2>1. push[q].at = "del" => push'[q].at = "del"
    BY <1>2
  <2> QED BY <1>c, <2>1 DEF Moves, Untorn
<1>4. \A ref \in Branches \cup {None}, p \in Packs : Stays(ref, p)
  BY <1>1 DEF Stays
<1>5. ASSUME NEW ref \in Branches \cup {None}, NEW p \in Packs, Needed(ref, p)'
      PROVE  Needed(ref, p) \/ Uploaded(ref, p)
  <2>1. CASE PrepUpload(n)
    <3>1. push' = push
      BY <2>1 DEF PrepUpload
    <3>2. CASE v.at = "pack" /\ UploadPack(v.sha) /\ prep' = [prep EXCEPT ![n].at = "bundle"]
      <4>1. Uploaded(None, v.sha)
        BY <1>c, <1>d, <3>2, UploadEffect
      <4>2. prep' = [prep EXCEPT ![n] = [v EXCEPT !.at = "bundle"]]
        BY <3>2, <1>a
      <4>3. [v EXCEPT !.at = "bundle"].at = "bundle" /\ [v EXCEPT !.at = "bundle"].sha = v.sha
        BY DEF PrepType
      <4>4. \A m \in Pushes : prep'[m] = prep[m] \/ (m = n /\ prep'[m].at = "bundle" /\ prep'[m].sha = v.sha)
        BY <4>2, <4>3, <1>a
      <4> QED BY <1>5, <3>1, <4>1, <4>4 DEF Needed, Waiting
    <3>3. CASE v.at = "bundle" /\ UploadBundle(b, v.sha) /\ prep' = [prep EXCEPT ![n].at = "lock"]
      <4>1. Uploaded(b, v.sha)
        BY <1>c, <1>d, <1>n, <3>3, UploadEffect
      <4>2. prep' = [prep EXCEPT ![n] = [v EXCEPT !.at = "lock"]]
        BY <3>3, <1>a
      <4> DEFINE s == [v EXCEPT !.at = "lock"]
      <4>3. s.at = "lock" /\ s.sha = v.sha /\ s.ref = b
        BY <1>d DEF PrepType
      <4> HIDE DEF s
      <4>4. \A m \in Pushes : prep'[m] = prep[m] \/ (m = n /\ prep'[m].at = "lock" /\ prep'[m].sha = v.sha /\ prep'[m].ref = b)
        BY <4>2, <4>3, <1>a DEF s
      <4> QED BY <1>5, <3>1, <3>3, <4>1, <4>4 DEF Needed, Waiting
    <3> QED BY <2>1, <3>2, <3>3 DEF PrepUpload
  <2>2. CASE PushLock(n)
    <3> DEFINE s == [at |-> "commit", n |-> n, sha |-> v.sha, prior |-> v.prior, todo |-> {}]
    <3>1. push' = [push EXCEPT ![b] = s] /\ prep' = [prep EXCEPT ![n] = NoPrep] /\ v.at = "lock"
      BY <2>2 DEF PushLock
    <3>2. s.at = "commit" /\ s.sha = v.sha
      OBVIOUS
    <3> HIDE DEF s
    <3>3. /\ \A q \in Branches : push'[q] = push[q] \/ (q = b /\ push'[q].at = "commit" /\ push'[q].sha = v.sha)
          /\ \A m \in Pushes : prep'[m] = prep[m] \/ prep'[m].at = "idle"
      BY <1>a, <1>n, <3>1, <3>2
    <3> QED BY <1>5, <1>d, <3>1, <3>3 DEF Needed, Waiting
  <2>3. CASE PushRefused(n) \/ PrepDies(n)
    <3>1. push' = push /\ prep' = [prep EXCEPT ![n] = NoPrep]
      BY <2>3 DEF PushRefused, PrepDies
    <3>2. \A m \in Pushes : prep'[m] = prep[m] \/ prep'[m].at = "idle"
      BY <1>a, <1>n, <3>1
    <3> QED BY <1>5, <3>1, <3>2 DEF Needed, Waiting
  <2> QED BY <2>1, <2>2, <2>3 DEF PrepMove, PrepStep
<1> QED BY <1>c, <1>e, <1>3, <1>4, <1>5 DEF Effect

LEMMA PushEffect ==
  ASSUME TypeInv, NEW r \in Branches, PushMove(r)
  PROVE  Effect
<1>a. /\ push \in [Branches -> PushType] /\ push[r] \in PushType
      /\ chain \in [Branches -> Packs \cup {None}] /\ prep \in [Pushes -> PrepType]
      /\ PushFormed(push[r], chain[r], pushes) /\ pushes \in 0..MaxPushes
  BY TypeParts DEF Typed, ClientsTyped
<1>n. None \notin Branches /\ NoPush.at = "idle" /\ None \notin Packs
  BY GcAssumption, NoneFormed
<1> PICK v \in PushType : v = push[r]
  BY <1>a
<1>b. UNCHANGED <<mark, sweep>>
  BY DEF PushMove, PushStart, DeleteStart, ClientStep, CompactUpload, Commit, TombstonePrior, DeleteDefer,
    DeleteBundle, DeleteChain, PushDies
<1>c. hazards \subseteq hazards'
  BY DEF PushMove, PushStart, DeleteStart, ClientStep, CompactUpload, UploadPack, UploadBundle, Reuse, Commit,
    TombstonePrior, DeleteDefer, DeleteBundle, DeleteChain, PushDies
<1>d. \A t \in tombs' : t \in tombs \/ t.age = 0
  <2>1. WriteTombstone(r) => \A t \in tombs' : t \in tombs \/ t.age = 0
    BY DEF WriteTombstone
  <2> QED BY <2>1 DEF PushMove, PushStart, DeleteStart, ClientStep, CompactUpload, Commit, TombstonePrior,
            DeleteDefer, DeleteBundle, DeleteChain, PushDies
\* The operation of the ref, and no other, goes on to s.
<1>g. ASSUME NEW s, push' = [push EXCEPT ![r] = s]
      PROVE  push'[r] = s /\ \A q \in Branches : q # r => push'[q] = push[q]
  BY <1>a, <1>g
\* A step that is no upload and no commit, of any operation but a delete.
<1>q. ASSUME NEW s, push' = [push EXCEPT ![r] = s], s.at \notin {"bundle", "commit"}, prep' = prep,
             store' = store, \A q \in Branches : Moves(q),
             s.at # "del" /\ v.at = "del" /\ chain'[r] = chain[r] /\ chain[r] # None =>
                (Sound(r)' => BundleKey(r, chain[r]) \in store')
      PROVE  Effect
  <2>1. push'[r] = s /\ \A q \in Branches : q # r => push'[q] = push[q]
    BY <1>g, <1>q
  <2>2. \A ref \in Branches \cup {None}, p \in Packs : Needed(ref, p)' => Needed(ref, p)
    BY <1>q, <2>1 DEF Needed, Waiting
  <2>3. \A q \in Branches : Untorn(q)
    BY <1>q, <2>1 DEF Untorn
  <2>4. \A ref \in Branches \cup {None}, p \in Packs : Stays(ref, p)
    BY <1>q DEF Stays
  <2> QED BY <1>b, <1>c, <1>d, <1>q, <2>2, <2>3, <2>4 DEF Effect
<1>m. chain' = chain => \A q \in Branches : Moves(q)
  BY DEF Moves
<1>1. CASE PushStart(r)
  <2> PICK p \in Packs, force \in BOOLEAN :
             prep' = [prep EXCEPT ![pushes'] = [at |-> "pack", ref |-> r, sha |-> p,
                                                prior |-> chain[r], force |-> force]]
    BY <1>1 DEF PushStart
  <2> DEFINE s == [at |-> "pack", ref |-> r, sha |-> p, prior |-> chain[r], force |-> force]
  <2>1. s.at = "pack"
    OBVIOUS
  <2>2. prep' = [prep EXCEPT ![pushes'] = s] /\ UNCHANGED <<chain, store, push>>
    BY <1>1 DEF PushStart
  <2> HIDE DEF s
  <2>3. \A m \in Pushes : prep'[m] = prep[m] \/ prep'[m].at = "pack"
    BY <1>a, <2>1, <2>2
  <2>4. \A ref \in Branches \cup {None}, p_1 \in Packs : Needed(ref, p_1)' => Needed(ref, p_1)
    BY <2>2, <2>3 DEF Needed, Waiting
  <2>5. \A ref \in Branches \cup {None}, p_1 \in Packs : Stays(ref, p_1)
    BY <2>2 DEF Stays
  <2>6. \A q \in Branches : Untorn(q)
    BY <2>2 DEF Untorn
  <2> QED BY <1>b, <1>c, <1>d, <1>m, <2>2, <2>4, <2>5, <2>6 DEF Effect
<1>2. CASE DeleteStart(r)
  <2> DEFINE s == [at |-> "defer", n |-> pushes', sha |-> None, prior |-> chain[r],
                   todo |-> {p \in Packs : BundleKey(r, p) \in store}]
  <2>1. s.at = "defer"
    OBVIOUS
  <2>2. push' = [push EXCEPT ![r] = s] /\ UNCHANGED <<chain, prep, store>> /\ v.at = "idle"
    BY <1>2 DEF DeleteStart
  <2> HIDE DEF s
  <2> QED BY <2>1, <2>2, <1>m, <1>q
<1>3. CASE CompactUpload(r)
  <2>0. UNCHANGED <<chain, tombs, prep>>
    BY <1>3 DEF CompactUpload
  <2>s. v.sha \in Packs /\ v.at \in {"pack", "bundle"}
    BY <1>3, <1>a DEF CompactUpload, PushFormed, PushAt
  <2>1. \A ref \in Branches \cup {None}, p \in Packs : Needed(ref, p)' => Needed(ref, p) \/ Uploaded(ref, p)
    <3>1. CASE v.at = "pack" /\ UploadPack(v.sha) /\ push' = [push EXCEPT ![r].at = "bundle"]
      <4>1. Uploaded(None, v.sha)
        BY <2>0, <2>s, <3>1, UploadEffect
      <4> DEFINE s == [v EXCEPT !.at = "bundle"]
      <4>2. push' = [push EXCEPT ![r] = s] /\ s.at = "bundle" /\ s.sha = v.sha
        BY <3>1, <1>a DEF PushType
      <4> HIDE DEF s
      <4>3. push'[r] = s /\ \A q \in Branches : q # r => push'[q] = push[q]
        BY <4>2, <1>g
      <4> QED BY <2>0, <4>1, <4>2, <4>3 DEF Needed, Waiting
    <3>2. CASE v.at = "bundle" /\ UploadBundle(r, v.sha) /\ push' = [push EXCEPT ![r].at = "commit"]
      <4>1. Uploaded(r, v.sha)
        BY <2>0, <2>s, <3>2, <1>n, UploadEffect
      <4> DEFINE s == [v EXCEPT !.at = "commit"]
      <4>2. push' = [push EXCEPT ![r] = s] /\ s.at = "commit" /\ s.sha = v.sha
        BY <3>2, <1>a DEF PushType
      <4> HIDE DEF s
      <4>3. push'[r] = s /\ \A q \in Branches : q # r => push'[q] = push[q]
        BY <4>2, <1>g
      <4> QED BY <2>0, <3>2, <4>1, <4>2, <4>3 DEF Needed, Waiting
    <3> QED BY <1>3, <3>1, <3>2 DEF CompactUpload
  <2>2. store \subseteq store'
    BY <1>3 DEF CompactUpload, UploadPack, UploadBundle
  <2>3. \A ref \in Branches \cup {None}, p \in Packs : Stays(ref, p)
    BY <2>2 DEF Stays
  <2>4. \A q \in Branches : push[q].at = "del" => push'[q] = push[q]
    BY <1>3, <1>a, <2>s DEF CompactUpload
  <2>5. \A q \in Branches : Untorn(q)
    BY <2>4 DEF Untorn
  <2> QED BY <1>b, <1>c, <1>d, <1>m, <2>0, <2>1, <2>3, <2>5 DEF Effect
<1>4. CASE Commit(r)
  <2> DEFINE s == IF v.prior \in {None, v.sha} THEN NoPush ELSE [v EXCEPT !.at = "tomb"]
  <2>1. s.at \in {"idle", "tomb"}
    BY <1>n DEF PushType
  <2>2. /\ push' = [push EXCEPT ![r] = s] /\ chain' = [chain EXCEPT ![r] = v.sha] /\ v.at = "commit"
        /\ prep' = prep /\ store' = store
    BY <1>4 DEF Commit
  <2> HIDE DEF s
  <2>3. \A q \in Branches : Moves(q)
    BY <1>a, <2>2 DEF Moves
  <2> QED BY <2>1, <2>2, <2>3, <1>q
<1>5. CASE TombstonePrior(r)
  BY <1>5, <1>n, <1>m, <1>q DEF TombstonePrior
<1>6. CASE DeleteDefer(r)
  <2>1. \E T \in {v.todo, v.todo \ {v.prior}} : push' = [push EXCEPT ![r] = [v EXCEPT !.at = "del", !.todo = T]]
    <3>1. [v EXCEPT !.at = "del"] = [v EXCEPT !.at = "del", !.todo = v.todo]
      BY DEF PushType
    <3> QED BY <1>6, <1>a, <3>1 DEF DeleteDefer
  <2> PICK T : push' = [push EXCEPT ![r] = [v EXCEPT !.at = "del", !.todo = T]]
    BY <2>1
  <2> DEFINE s == [v EXCEPT !.at = "del", !.todo = T]
  <2>2. s.at = "del"
    BY DEF PushType
  <2>3. push' = [push EXCEPT ![r] = s] /\ UNCHANGED <<chain, prep, store>>
    BY <1>6 DEF DeleteDefer
  <2> HIDE DEF s
  <2> QED BY <2>2, <2>3, <1>m, <1>q
<1>7. CASE DeleteBundle(r)
  <2> PICK p \in push[r].todo :
         /\ store' = store \ {BundleKey(r, p)}
         /\ push' = [push EXCEPT ![r] = IF push[r].todo \ {p} = {} /\ chain[r] = None THEN NoPush
                                        ELSE [@ EXCEPT !.todo = push[r].todo \ {p}]]
         /\ hazards' = IF \E n \in Pushes : prep[n].at = "lock" /\ prep[n].ref = r /\ prep[n].sha = p
                       THEN hazards \cup {"purged"} ELSE hazards
    BY <1>7 DEF DeleteBundle
  <2> DEFINE s == [v EXCEPT !.todo = v.todo \ {p}]
  <2>0. v.at = "del" /\ UNCHANGED <<chain, prep>>
    BY <1>7 DEF DeleteBundle
  <2>1. s.at = "del"
    BY <2>0 DEF PushType
  <2>2. push' = [push EXCEPT ![r] = IF v.todo \ {p} = {} /\ chain[r] = None THEN NoPush ELSE s]
    OBVIOUS
  <2> HIDE DEF s
  <2>3. /\ push'[r].at = "del" \/ (push'[r].at = "idle" /\ chain[r] = None)
        /\ \A q \in Branches : q # r => push'[q] = push[q]
    BY <1>a, <1>n, <2>1, <2>2
  <2>4. \A ref \in Branches \cup {None}, p_1 \in Packs : Needed(ref, p_1)' => Needed(ref, p_1)
    BY <2>0, <2>3 DEF Needed, Waiting
  <2>5. Sound(r)' => ~Waiting(r, p)
    BY <1>n DEF Sound, Waiting
  <2>6. \A ref \in Branches \cup {None}, p_1 \in Packs : Stays(ref, p_1)
    <3> TAKE ref \in Branches \cup {None}, p_1 \in Packs
    <3>1. ObjKey(ref, p_1) = BundleKey(r, p) => ref = r /\ p_1 = p /\ ref # None
      BY Keys, <1>n DEF ObjKey
    <3>2. ObjKey(ref, p_1) # BundleKey(r, p) /\ ObjKey(ref, p_1) \in store => ObjKey(ref, p_1) \in store'
      OBVIOUS
    <3> QED BY <2>0, <2>3, <2>5, <3>1, <3>2 DEF Stays
  <2>7. \A q \in Branches : Untorn(q)
    BY <2>0, <2>3 DEF Untorn
  <2> QED BY <1>b, <1>c, <1>d, <1>m, <2>0, <2>4, <2>6, <2>7 DEF Effect
<1>8. CASE DeleteChain(r)
  <2> DEFINE s == IF v.todo = {} THEN NoPush ELSE v
  <2>1. /\ v.at = "del" /\ push' = [push EXCEPT ![r] = s] /\ chain' = [chain EXCEPT ![r] = None]
        /\ prep' = prep /\ store' = store /\ chain[r] # None
    BY <1>8 DEF DeleteChain
  <2>2. s.at \in {"idle", "del"}
    BY <1>n, <2>1
  <2> HIDE DEF s
  <2>3. chain'[r] = None /\ \A q \in Branches : Moves(q)
    BY <1>a, <2>1 DEF Moves
  <2> QED BY <2>1, <2>2, <2>3, <1>q
<1>9. CASE PushDies(r)
  <2>1. /\ push' = [push EXCEPT ![r] = NoPush] /\ UNCHANGED <<chain, prep, store>>
        /\ v.at = "del" /\ chain[r] # None /\ BundleKey(r, chain[r]) \notin store => hazards' # {}
    BY <1>9 DEF PushDies
  <2>2. Sound(r)' <=> hazards' = {}
    BY <1>n DEF Sound
  <2> QED BY <2>1, <2>2, <1>n, <1>m, <1>q
<1> QED BY <1>1, <1>2, <1>3, <1>4, <1>5, <1>6, <1>7, <1>8, <1>9 DEF PushMove, ClientStep

\* The sweep w takes up the tombstone t, which is due.
TakesUp(w, t) ==
  LET s == sweep'[w] IN
  /\ sweep[w].at = "next" /\ t \in tombs /\ t.age >= Grace
  /\ s.at = "check" /\ s.id = t.id /\ s.ref = t.ref /\ s.left = t.objs /\ s.cur = {}

\* What the steps of a sweep may change.
LEMMA SweepEffect ==
  ASSUME TypeInv, NEW w \in Sweepers,
         \/ SweepStep(w)
         \/ GcFails /\ (SetSweep(w, NextTomb(w)) \/ SetSweep(w, NoSweep))
  PROVE  /\ UNCHANGED <<chain, prep, push, mark, pushes, stranded, hazards>>
         /\ tombs' \subseteq tombs /\ store' \subseteq store
         /\ tombs' = tombs \/ SweepDrop(w)
         /\ store' = store \/ SweepDelete(w)
         /\ \A v \in Sweepers : v # w => sweep'[v] = sweep[v]
         /\ LET s == sweep'[w] IN
            \/ s.left = {} /\ s.cur = {} /\ s.at \in {"idle", "next"}
            \/ s.ref = sweep[w].ref /\ s.id = sweep[w].id /\ sweep[w].at \in Holding
               /\ s.left \cup s.cur \subseteq sweep[w].left \cup sweep[w].cur
            \/ \E t \in tombs : TakesUp(w, t)
         /\ sweep'[w].at = "chains" => SweepRefs(w) \/ SweepChain(w)
         /\ sweep'[w].at = "bundle" => SweepRecheck(w)
<1>a. SweepsTyped
  BY TypeParts DEF Typed
<1>b. sweep[w] \in SweepType /\ Hands(sweep[w]) /\ sweep \in [Sweepers -> SweepType]
  BY <1>a DEF SweepsTyped, Formed
<1>c. ASSUME NEW s, SetSweep(w, s)
      PROVE  /\ UNCHANGED <<chain, prep, push, mark, pushes, stranded, hazards>> /\ sweep'[w] = s
             /\ \A v \in Sweepers : v # w => sweep'[v] = sweep[v]
  BY <1>b, <1>c DEF SetSweep
<1>d. NextTomb(w).at = "next" /\ NextTomb(w).left = {} /\ NextTomb(w).cur = {}
  BY <1>a, NextTombFormed
<1>e. NoSweep.at = "idle" /\ NoSweep.left = {} /\ NoSweep.cur = {}
  BY NoSweepFormed
<1> PICK v \in SweepType : v = sweep[w]
  BY <1>b
<1>1. CASE SweepList(w)
  <2> DEFINE s == [NoSweep EXCEPT !.at = "next", !.todo = {t.id : t \in tombs}]
  <2> PICK n \in SweepType : n = NoSweep
    BY NoSweepFormed DEF Formed
  <2>1. s.at = "next" /\ s.left = {} /\ s.cur = {}
    BY <1>e DEF SweepType
  <2> HIDE DEF s
  <2>2. SetSweep(w, s) /\ UNCHANGED <<store, tombs>>
    BY <1>1 DEF SweepList, s
  <2> QED BY <2>1, <2>2, <1>c
<1>2. CASE SweepRead(w)
  <2> PICK id \in sweep[w].todo :
           SetSweep(w, LET rest == [sweep[w] EXCEPT !.todo = @ \ {id}]
                           due  == {t \in tombs : t.id = id /\ t.age >= Grace}
                       IN IF due = {} THEN rest
                          ELSE LET t == CHOOSE t \in due : TRUE IN
                               [rest EXCEPT !.at = "check", !.id = id, !.ref = t.ref, !.left = t.objs])
    BY <1>2 DEF SweepRead
  <2> DEFINE rest == [v EXCEPT !.todo = @ \ {id}]
             due  == {t \in tombs : t.id = id /\ t.age >= Grace}
             t    == CHOOSE t \in due : TRUE
             s    == [rest EXCEPT !.at = "check", !.id = id, !.ref = t.ref, !.left = t.objs]
  <2>1. store' = store /\ tombs' = tombs /\ v.at = "next" /\ v.cur = {} /\ v.left = {}
    BY <1>2, <1>b DEF SweepRead, Hands
  <2>2. CASE due = {}
    <3>1. SetSweep(w, rest)
      BY <2>2
    <3>2. rest.at = "next" /\ rest.left = {} /\ rest.cur = {}
      BY <2>1 DEF SweepType
    <3> HIDE DEF rest
    <3> QED BY <2>1, <3>1, <3>2, <1>c
  <2>3. CASE due # {}
    <3>1. t \in due
      BY <2>3
    <3>2. t \in tombs /\ t.id = id /\ t.age >= Grace
      BY <3>1
    <3>3. SetSweep(w, s)
      BY <2>3
    <3> HIDE DEF t
    <3>4. s.at = "check" /\ s.id = t.id /\ s.ref = t.ref /\ s.left = t.objs /\ s.cur = {}
      BY <2>1, <3>2 DEF SweepType
    <3> HIDE DEF s
    <3>5. TakesUp(w, t)
      BY <2>1, <3>2, <3>3, <3>4, <1>c DEF TakesUp
    <3> QED BY <2>1, <3>2, <3>3, <3>4, <3>5, <1>c
  <2> QED BY <2>2, <2>3
<1>3. CASE SweepDone(w)
  BY <1>3, <1>c, <1>e DEF SweepDone
<1>4. CASE SweepRefs(w)
  <2> PICK p \in v.left : SetSweep(w, [v EXCEPT !.at = "chains", !.left = @ \ {p}, !.cur = {p}, !.refs = Chains])
    BY <1>4 DEF SweepRefs
  <2> DEFINE s == [v EXCEPT !.at = "chains", !.left = @ \ {p}, !.cur = {p}, !.refs = Chains]
  <2>1. s.at = "chains" /\ s.ref = v.ref /\ s.id = v.id /\ s.left \cup s.cur \subseteq v.left \cup v.cur
    BY DEF SweepType
  <2> HIDE DEF s
  <2>2. SetSweep(w, s)
    BY DEF s
  <2> QED BY <1>4, <2>1, <2>2, <1>c DEF SweepRefs, Holding
<1>5. CASE SweepChain(w)
  <2> PICK r \in v.refs : SetSweep(w, IF chain[r] = None THEN NextTomb(w)
                   ELSE [v EXCEPT !.refs = @ \ {r}, !.named = @ \/ chain[r] \in v.cur])
    BY <1>5 DEF SweepChain
  <2> DEFINE s == [v EXCEPT !.refs = @ \ {r}, !.named = @ \/ chain[r] \in v.cur]
  <2>1. s.at = v.at /\ s.ref = v.ref /\ s.id = v.id /\ s.left \cup s.cur \subseteq v.left \cup v.cur
    BY DEF SweepType
  <2>2. SetSweep(w, NextTomb(w)) \/ SetSweep(w, s)
    OBVIOUS
  <2> HIDE DEF s
  <2> QED BY <1>5, <2>1, <2>2, <1>c, <1>d DEF SweepChain, Holding
<1>6. CASE SweepVerdict(w)
  <2> DEFINE s == [v EXCEPT !.at = "check", !.cur = {}, !.named = FALSE]
  <2>1. s.at = "check" /\ s.ref = v.ref /\ s.id = v.id /\ s.left \cup s.cur \subseteq v.left \cup v.cur
    BY DEF SweepType
  <2> HIDE DEF s
  <2>2. SetSweep(w, s)
    BY <1>6 DEF SweepVerdict, s
  <2> QED BY <1>6, <2>1, <2>2, <1>c DEF SweepVerdict, Holding
<1>7. CASE SweepBaseline(w)
  <2> DEFINE a == [v EXCEPT !.left = {}]
             b == [v EXCEPT !.at = "recheck", !.left = {}, !.cur = v.left]
  <2>1. v.at = "check"
    BY <1>7 DEF SweepBaseline
  <2>2. a.at = v.at /\ a.ref = v.ref /\ a.id = v.id /\ a.left \cup a.cur \subseteq v.left \cup v.cur
    BY DEF SweepType
  <2>3. b.at = "recheck" /\ b.ref = v.ref /\ b.id = v.id /\ b.left \cup b.cur \subseteq v.left \cup v.cur
    BY DEF SweepType
  <2> HIDE DEF a, b
  <2>4. SetSweep(w, a) \/ SetSweep(w, b)
    BY <1>7 DEF SweepBaseline, a, b
  <2> QED BY <1>7, <2>1, <2>2, <2>3, <2>4, <1>c DEF SweepBaseline, Holding
<1>8. CASE SweepRecheck(w)
  <2> DEFINE s == [v EXCEPT !.at = "bundle"]
  <2>1. s.at = "bundle" /\ s.ref = v.ref /\ s.id = v.id /\ s.left \cup s.cur \subseteq v.left \cup v.cur
    BY DEF SweepType
  <2> HIDE DEF s
  <2>2. SetSweep(w, NextTomb(w)) \/ SetSweep(w, s)
    BY <1>8 DEF SweepRecheck, s
  <2> QED BY <1>8, <2>1, <2>2, <1>c, <1>d DEF SweepRecheck, Holding
<1>9. CASE SweepDelete(w)
  <2> DEFINE s == [v EXCEPT !.at = "check", !.cur = {}]
  <2>1. s.at = "check" /\ s.ref = v.ref /\ s.id = v.id /\ s.left \cup s.cur \subseteq v.left \cup v.cur
    BY DEF SweepType
  <2> HIDE DEF s
  <2>2. SetSweep(w, s) /\ v.at \in {"bundle", "chains"} /\ tombs' = tombs /\ store' \subseteq store
    BY <1>9 DEF SweepDelete, s
  <2> QED BY <1>9, <2>1, <2>2, <1>c DEF Holding
<1>10. CASE SweepDrop(w)
  <2>1. SetSweep(w, NextTomb(w)) /\ tombs' \subseteq tombs /\ store' = store
    BY <1>10 DEF SweepDrop
  <2> QED BY <1>10, <2>1, <1>c, <1>d
<1>11. CASE GcFails /\ (SetSweep(w, NextTomb(w)) \/ SetSweep(w, NoSweep))
  <2>1. tombs' = tombs /\ store' = store
    BY <1>11 DEF GcFails
  <2> QED BY <1>11, <2>1, <1>c, <1>d, <1>e
<1> QED BY <1>1, <1>2, <1>3, <1>4, <1>5, <1>6, <1>7, <1>8, <1>9, <1>10, <1>11 DEF SweepStep

LEMMA InitResolvable == Init => MarkFresh /\ Resolvable
<1> SUFFICES ASSUME Init PROVE MarkFresh /\ Resolvable
  OBVIOUS
<1>1. UploadsOK
  BY NoneFormed DEF Init, UploadsOK, UploadOK, Needed, Waiting
<1>2. VerdictOK
  BY NoSweepFormed DEF Init, VerdictOK, Verdict
<1>3. \A r \in Branches : ChainStored(r)
  BY DEF Init, ChainStored, Chains
<1> QED BY <1>1, <1>2, <1>3 DEF Resolvable, MarkFresh, Init, NoMark

LEMMA MarkFreshStep ==
  ASSUME TypeInv, MarkFresh, [RemoteNext]_vars
  PROVE  MarkFresh'
<1>a. mark \in MarkType /\ NoMark.age = 0
  BY TypeParts DEF Typed, NoMark
<1>b. NoMark \in MarkType
  BY GcAssumption DEF NoMark, MarkType
<1>1. CASE MarkStep
  <2>1. mark' = NoMark \/ mark'.age = mark.age
    <3>1. CASE MarkPacks
      <4> PICK m \in MarkType : m = NoMark
        BY <1>b
      <4>1. [m EXCEPT !.at = "list", !.seen = list_pack_shas].age = m.age
        BY DEF MarkType
      <4>2. mark' = [m EXCEPT !.at = "list", !.seen = list_pack_shas]
        BY <3>1 DEF MarkPacks
      <4>3. mark.at = "idle"
        BY <3>1 DEF MarkPacks
      <4> QED BY <4>1, <4>2, <4>3, <1>a DEF MarkFresh
    <3>2. CASE MarkRefs
      BY <3>2, <1>a DEF MarkRefs, MarkType
    <3>3. CASE MarkChain
      BY <3>3, <1>a DEF MarkChain, MarkType
    <3>4. CASE MarkStamp
      BY <3>4, <1>a DEF MarkStamp, MarkType
    <3>5. CASE MarkPut
      BY <3>5 DEF MarkPut
    <3> QED BY <1>1, <3>1, <3>2, <3>3, <3>4, <3>5 DEF MarkStep
  <2>2. mark'.at # "put" /\ mark' # NoMark => mark.at # "put"
    BY <1>1 DEF MarkStep, MarkPacks, MarkRefs, MarkChain, MarkStamp, MarkPut
  <2> QED BY <2>1, <2>2, <1>a DEF MarkFresh
<1>2. CASE Tick
  BY <1>2, <1>a DEF Tick, MarkFresh, MarkType
<1>3. CASE \E r \in Branches : PushMove(r)
  BY <1>3, PushEffect DEF Effect, MarkFresh
<1>7. CASE \E n \in Pushes : PrepMove(n)
  BY <1>7, PrepEffect DEF Effect, MarkFresh
<1>4. CASE \E w \in Sweepers : SweepStep(w)
  BY <1>4, SweepEffect DEF MarkFresh
<1>5. CASE GcFails
  BY <1>5, <1>a DEF GcFails, SetSweep, MarkFresh
<1>6. CASE UNCHANGED vars
  BY <1>6 DEF vars, MarkFresh
<1> QED BY <1>1, <1>2, <1>3, <1>4, <1>5, <1>6, <1>7 DEF RemoteNext, Next, PrepMove, PushMove

LEMMA ClientResolvable ==
  ASSUME TypeInv, Resolvable, Effect
  PROVE  Resolvable'
<1> USE DEF Effect
<1>n. None \notin Branches /\ None \notin Packs /\ Grace > 0
  BY GcAssumption
<1>a. \A ref : Sound(ref)' => Sound(ref)
  BY DEF Sound
<1>b. /\ SweepsTyped /\ chain \in [Branches -> Packs \cup {None}]
      /\ \A q \in Branches : push[q].at = "commit" => push[q].sha \in Packs
  BY TypeParts DEF Typed, ClientsTyped, PushFormed, PushAt
\* The pack and the baseline of a commit.
<1>c. ASSUME NEW q \in Branches, push[q].at = "commit"
      PROVE  /\ Sound(None) => Held(None, push[q].sha)
             /\ Sound(q) => Held(q, push[q].sha)
  <2>1. Needed(None, push[q].sha) /\ Needed(q, push[q].sha)
    BY <1>c, <1>n DEF Needed
  <2> QED BY <1>b, <1>c, <2>1 DEF Resolvable, UploadsOK, UploadOK
<1>1. ASSUME NEW ref \in Branches \cup {None}, NEW p \in Packs PROVE UploadOK(ref, p)'
  <2> SUFFICES ASSUME Sound(ref)', Needed(ref, p)' PROVE Held(ref, p)'
    BY DEF UploadOK
  <2>1. CASE Needed(ref, p)
    <3>1. Held(ref, p)
      BY <1>a, <2>1 DEF Resolvable, UploadsOK, UploadOK
    <3>2. ref # None /\ push[ref].at = "del" => Waiting(ref, p)
      BY <2>1 DEF Needed
    <3>3. ObjKey(ref, p) \in store'
      BY <3>1, <3>2 DEF Held, Stays
    <3>4. \A t \in tombs' : t.ref = ref /\ p \in t.objs => t.age < Grace
      BY <1>n, <3>1 DEF Held
    <3> QED BY <3>1, <3>3, <3>4 DEF Held
  <2>2. CASE Uploaded(ref, p)
    <3>1. p \notin Condemned(ref) /\ ObjKey(ref, p) \in store' /\ tombs' = tombs
      BY <2>2 DEF Uploaded
    <3>2. /\ \A t \in tombs : ~(t.ref = ref /\ p \in t.objs)
          /\ \A w \in Sweepers : sweep[w].ref = ref => p \notin sweep[w].left \cup sweep[w].cur
          /\ ~(ref = None /\ mark.at = "put" /\ p \in mark.seen)
      BY <3>1 DEF Condemned
    <3> QED BY <3>1, <3>2 DEF Held
  <2> QED BY <2>1, <2>2
<1>2. ASSUME NEW w \in Sweepers PROVE Verdict(w)'
  <2> PICK v \in SweepType : v = sweep[w]
    BY <1>b DEF SweepsTyped
  <2> SUFFICES ASSUME Sound(v.ref)' PROVE Verdict(w)'
    BY DEF Verdict
  <2>1. v.cur \in SUBSET Packs /\ sweep'[w] = v /\ v.ref \in Branches \cup {None} /\ Hands(v)
    BY <1>b DEF SweepType, SweepsTyped, Formed
  <2>2. /\ v.at = "chains" => \A q \in Branches : chain[q] \in v.cur => q \in v.refs \/ v.named
        /\ v.at = "bundle" => chain[v.ref] \notin v.cur
    BY <1>a DEF Resolvable, VerdictOK, Verdict
  <2>3. ASSUME NEW q \in Branches, v.ref \in {q, None}, chain'[q] \in v.cur PROVE chain'[q] = chain[q]
    <3>1. chain'[q] # None
      BY <1>n, <2>1, <2>3
    <3>2. push[q].at = "commit" => push[q].sha \notin v.cur
      BY <1>a, <1>c, <2>3 DEF Held
    <3> QED BY <2>3, <3>1, <3>2 DEF Moves
  <2>4. (v.at = "chains" => v.ref = None) /\ (v.at = "bundle" => v.ref \in Branches)
    BY <2>1 DEF Hands
  <2> QED BY <2>1, <2>2, <2>3, <2>4 DEF Verdict
<1>3. ASSUME NEW q \in Branches PROVE ChainStored(q)'
  <2> SUFFICES ASSUME chain'[q] # None PROVE ChainStored(q)'
    BY DEF ChainStored
  <2>0. /\ ObjKey(None, chain'[q]) = PackKey(chain'[q]) /\ ObjKey(q, chain'[q]) = BundleKey(q, chain'[q])
    BY <1>n DEF ObjKey
  <2>1. CASE chain'[q] = chain[q]
    <3>1. chain[q] \in Packs
      BY <1>b, <2>1
    <3>2. Sound(None)' => PackKey(chain[q]) \in store'
      BY <1>a, <2>0, <2>1, <3>1 DEF Resolvable, ChainStored, Stays
    <3>3. Sound(q)' /\ push'[q].at # "del" => BundleKey(q, chain[q]) \in store'
      <4>1. CASE push[q].at = "del"
        BY <2>1, <4>1 DEF Untorn
      <4>2. CASE push[q].at # "del"
        BY <1>a, <2>0, <2>1, <3>1, <4>2 DEF Resolvable, ChainStored, Stays
      <4> QED BY <4>1, <4>2
    <3> QED BY <2>1, <3>2, <3>3 DEF ChainStored
  <2>2. CASE push[q].at = "commit" /\ chain'[q] = push[q].sha
    <3>1. /\ Sound(None)' => ObjKey(None, push[q].sha) \in store
          /\ Sound(q)' => ObjKey(q, push[q].sha) \in store
      BY <1>a, <1>c, <2>2 DEF Held
    <3>2. Stays(None, push[q].sha) /\ Stays(q, push[q].sha)
      BY <1>b, <2>2
    <3> QED BY <2>0, <2>2, <3>1, <3>2 DEF ChainStored, Stays
  <2> QED BY <2>1, <2>2 DEF Moves
<1> QED BY <1>1, <1>2, <1>3 DEF Resolvable, UploadsOK, VerdictOK

LEMMA MarkResolvable ==
  ASSUME TypeInv, MarkFresh, Resolvable, MarkStep
  PROVE  Resolvable'
<1>a. /\ UNCHANGED <<chain, store, prep, push, sweep, hazards>>
      /\ tombs' = tombs \/ MarkPut
  BY DEF MarkStep, MarkPacks, MarkRefs, MarkChain, MarkStamp, MarkPut
<1>b. mark \in MarkType /\ NoMark.at = "idle"
  BY TypeParts DEF Typed, NoMark
<1>c. mark'.at = "put" => mark'.age < Grace
  <2>1. CASE MarkPacks
    <3>a. NoMark \in MarkType
      BY GcAssumption DEF NoMark, MarkType
    <3> PICK m \in MarkType : m = NoMark
      BY <3>a
    <3>1. [m EXCEPT !.at = "list", !.seen = list_pack_shas].at = "list"
      BY DEF MarkType
    <3> QED BY <2>1, <3>1 DEF MarkPacks
  <2>2. CASE MarkRefs
    BY <2>2, <1>b DEF MarkRefs, MarkType
  <2>3. CASE MarkChain
    BY <2>3, <1>b DEF MarkChain, MarkType
  <2>4. CASE MarkStamp
    BY <2>4, <1>b, GcAssumption DEF MarkStamp, MarkType, MarkFresh
  <2>5. CASE MarkPut
    BY <2>5, <1>b DEF MarkPut
  <2> QED BY <2>1, <2>2, <2>3, <2>4, <2>5 DEF MarkStep
<1>1. ASSUME NEW ref \in Branches \cup {None}, NEW p \in Packs PROVE UploadOK(ref, p)'
  <2> SUFFICES ASSUME Sound(ref)', Needed(ref, p)' PROVE Held(ref, p)'
    BY DEF UploadOK
  <2>1. Sound(ref) /\ Needed(ref, p)
    BY <1>a DEF Sound, Needed, Waiting
  <2>2. Held(ref, p)
    BY <2>1 DEF Resolvable, UploadsOK, UploadOK
  <2>3. ASSUME NEW t \in tombs', t.ref = ref, p \in t.objs PROVE t.age < Grace
    <3>1. CASE t \in tombs
      BY <2>2, <2>3, <3>1 DEF Held
    <3>2. CASE t \notin tombs
      <4>1. MarkPut
        BY <1>a, <2>3, <3>2
      <4>2. mark.at = "put" /\ t.ref = None /\ t.objs = mark.seen /\ t.age = mark.age
        BY <2>3, <3>2, <4>1 DEF MarkPut
      <4> QED BY <2>2, <2>3, <4>2 DEF Held
    <3> QED BY <3>1, <3>2
  <2> QED BY <1>a, <1>c, <2>2, <2>3 DEF Held, ObjKey
<1>2. VerdictOK' /\ \A r \in Branches : ChainStored(r)'
  BY <1>a DEF Resolvable, VerdictOK, Verdict, ChainStored, Sound
<1> QED BY <1>1, <1>2 DEF Resolvable, UploadsOK

LEMMA SweepResolvable ==
  ASSUME TypeInv, TypeInv', Resolvable, NEW w \in Sweepers,
         \/ SweepStep(w)
         \/ GcFails /\ (SetSweep(w, NextTomb(w)) \/ SetSweep(w, NoSweep))
  PROVE  Resolvable'
<1> PICK s : s = sweep'[w]
  OBVIOUS
<1>a. /\ UNCHANGED <<chain, prep, push, mark, pushes, stranded, hazards>>
      /\ tombs' \subseteq tombs /\ store' \subseteq store
      /\ store' = store \/ SweepDelete(w)
      /\ \A v \in Sweepers : v # w => sweep'[v] = sweep[v]
      /\ s.at = "chains" => SweepRefs(w) \/ SweepChain(w)
      /\ s.at = "bundle" => SweepRecheck(w)
  BY SweepEffect
<1>b. \/ s.left = {} /\ s.cur = {}
      \/ s.ref = sweep[w].ref /\ s.left \cup s.cur \subseteq sweep[w].left \cup sweep[w].cur
      \/ \E t \in tombs : t.age >= Grace /\ s.ref = t.ref /\ s.left = t.objs /\ s.cur = {}
  BY SweepEffect DEF TakesUp
<1>c. Hands(sweep[w]) /\ sweep[w] \in SweepType /\ sweep \in [Sweepers -> SweepType]
  BY TypeParts DEF Typed, SweepsTyped, Formed
<1>d. (\A t \in tombs : t.age \in Int) /\ Grace \in Int
  BY TypeParts, GcAssumption DEF Typed, TombsTyped, TombType
<1>e. ASSUME NEW u, SetSweep(w, u) PROVE s = u
  BY <1>c, <1>e DEF SetSweep
<1>f. /\ \A ref : Sound(ref)' <=> Sound(ref)
      /\ \A ref, p : Needed(ref, p)' <=> Needed(ref, p)
  BY <1>a DEF Sound, Needed, Waiting
<1>n. None \notin Branches /\ None \notin Packs
  BY GcAssumption
\* What is removed is not named by a chain, and no client has uploaded it.
<1>1. ASSUME NEW ref \in Branches \cup {None}, NEW p \in Packs, Sound(ref), ObjKey(ref, p) \in store,
             \/ Held(ref, p)
             \/ ref = None /\ \E q \in Branches : chain[q] = p
             \/ ref # None /\ chain[ref] = p
      PROVE  ObjKey(ref, p) \in store'
  <2>1. CASE SweepDelete(w)
    <3> DEFINE key(q) == IF sweep[w].ref = None THEN PackKey(q) ELSE BundleKey(sweep[w].ref, q)
    <3>1. store' = store \ {key(q) : q \in sweep[w].cur}
      BY <2>1 DEF SweepDelete
    <3>2. \/ sweep[w].at = "bundle"
          \/ sweep[w].at = "chains" /\ sweep[w].refs = {} /\ ~sweep[w].named
      BY <2>1 DEF SweepDelete
    <3>3. \A q : key(q) = ObjKey(ref, p) => ref = sweep[w].ref /\ p = q
      BY Keys DEF ObjKey
    <3>4. ASSUME ref = sweep[w].ref PROVE p \notin sweep[w].cur
      <4>1. CASE Held(ref, p)
        BY <3>4, <4>1 DEF Held
      <4>2. CASE sweep[w].at = "bundle" /\ ~Held(ref, p)
        <5>1. sweep[w].ref # None /\ chain[sweep[w].ref] \notin sweep[w].cur
          BY <1>1, <1>c, <3>4, <4>2 DEF Hands, Resolvable, VerdictOK, Verdict
        <5> QED BY <1>1, <3>4, <4>2, <5>1
      <4>3. CASE sweep[w].at = "chains" /\ sweep[w].refs = {} /\ ~sweep[w].named /\ ~Held(ref, p)
        <5>1. sweep[w].ref = None /\ \A q \in Branches : chain[q] \notin sweep[w].cur
          BY <1>1, <1>c, <3>4, <4>3 DEF Hands, Resolvable, VerdictOK, Verdict
        <5> QED BY <1>1, <3>4, <4>3, <5>1
      <4> QED BY <3>2, <4>1, <4>2, <4>3
    <3> HIDE DEF key
    <3>5. ObjKey(ref, p) \notin {key(q) : q \in sweep[w].cur}
      BY <3>3, <3>4
    <3> QED BY <1>1, <3>1, <3>5
  <2> QED BY <1>1, <1>a, <2>1
<1>2. ASSUME NEW ref \in Branches \cup {None}, NEW p \in Packs PROVE UploadOK(ref, p)'
  <2> SUFFICES ASSUME Sound(ref), Needed(ref, p) PROVE Held(ref, p)'
    BY <1>f DEF UploadOK
  <2>1. Held(ref, p)
    BY DEF Resolvable, UploadsOK, UploadOK
  <2>2. ObjKey(ref, p) \in store'
    BY <1>1, <2>1 DEF Held
  <2>3. s.ref = ref => p \notin s.left \cup s.cur
    BY <1>b, <1>d, <2>1 DEF Held
  <2>4. \A v \in Sweepers : sweep'[v].ref = ref => p \notin sweep'[v].left \cup sweep'[v].cur
    BY <1>a, <2>1, <2>3 DEF Held
  <2> QED BY <1>a, <2>1, <2>2, <2>4 DEF Held
<1>3. ASSUME NEW r \in Branches PROVE ChainStored(r)'
  <2> SUFFICES ASSUME chain[r] # None PROVE ChainStored(r)'
    BY <1>a DEF ChainStored
  <2>1. chain[r] \in Packs
    BY TypeParts DEF Typed, ClientsTyped
  <2>2. ObjKey(None, chain[r]) = PackKey(chain[r]) /\ ObjKey(r, chain[r]) = BundleKey(r, chain[r])
    BY <1>n DEF ObjKey
  <2>3. Sound(None) => PackKey(chain[r]) \in store'
    BY <1>1, <2>1, <2>2 DEF Resolvable, ChainStored
  <2>4. Sound(r) /\ push[r].at # "del" => BundleKey(r, chain[r]) \in store'
    BY <1>1, <1>n, <2>1, <2>2 DEF Resolvable, ChainStored
  <2> QED BY <1>a, <1>f, <2>3, <2>4 DEF ChainStored
<1>4. Verdict(w)'
  <2> PICK v \in SweepType : v = sweep[w]
    BY <1>c
  <2> SUFFICES ASSUME Sound(s.ref), s.at \in {"chains", "bundle"} PROVE Verdict(w)'
    BY <1>f DEF Verdict
  <2>0. Sound(v.ref)
    <3>1. s.ref = v.ref
      BY SweepEffect DEF TakesUp
    <3> QED BY <3>1
  <2>1. CASE SweepRefs(w)
    <3> PICK p \in v.left : SetSweep(w, [v EXCEPT !.at = "chains", !.left = @ \ {p}, !.cur = {p}, !.refs = Chains])
      BY <2>1 DEF SweepRefs
    <3> DEFINE u == [v EXCEPT !.at = "chains", !.left = @ \ {p}, !.cur = {p}, !.refs = Chains]
    <3>1. u.at = "chains" /\ u.cur = {p} /\ u.refs = Chains /\ p \in Packs
      BY DEF SweepType
    <3>2. s = u
      BY <1>e
    <3>3. \A r \in Branches : chain[r] \in s.cur => r \in s.refs
      BY <3>1, <3>2, GcAssumption DEF Chains
    <3>4. s.at = "chains"
      BY <3>1, <3>2
    <3> QED BY <1>a, <3>3, <3>4 DEF Verdict
  <2>2. CASE SweepChain(w) /\ s.at = "chains"
    <3> PICK r \in v.refs : SetSweep(w, IF chain[r] = None THEN NextTomb(w)
                   ELSE [v EXCEPT !.refs = @ \ {r}, !.named = @ \/ chain[r] \in v.cur])
      BY <2>2 DEF SweepChain
    <3> DEFINE u == [v EXCEPT !.refs = @ \ {r}, !.named = @ \/ chain[r] \in v.cur]
    <3>1. NextTomb(w).at = "next"
      BY TypeParts, NextTombFormed DEF Typed
    <3>2. s = u
      BY <2>2, <3>1, <1>e
    <3>3. u.cur = v.cur /\ u.refs = v.refs \ {r} /\ (u.named <=> v.named \/ chain[r] \in v.cur)
      BY DEF SweepType
    <3>4. \A q \in Branches : chain[q] \in v.cur => q \in v.refs \/ v.named
      BY <2>0, <2>2 DEF Resolvable, VerdictOK, Verdict, SweepChain
    <3> HIDE DEF u
    <3>5. \A q \in Branches : chain[q] \in s.cur => q \in s.refs \/ s.named
      BY <3>2, <3>3, <3>4
    <3> QED BY <1>a, <2>2, <3>5 DEF Verdict
  <2>3. CASE SweepRecheck(w) /\ s.at = "bundle"
    <3>1. NextTomb(w).at = "next"
      BY TypeParts, NextTombFormed DEF Typed
    <3>2. [v EXCEPT !.at = "bundle"].cur = v.cur /\ [v EXCEPT !.at = "bundle"].ref = v.ref
      BY DEF SweepType
    <3>3. chain[v.ref] \notin v.cur /\ s.cur = v.cur /\ s.ref = v.ref
      BY <1>e, <2>3, <3>1, <3>2 DEF SweepRecheck
    <3> QED BY <1>a, <2>3, <3>3 DEF Verdict
  <2> QED BY <1>a, <2>1, <2>2, <2>3 DEF Verdict
<1>5. VerdictOK'
  BY <1>a, <1>4, <1>f DEF Resolvable, VerdictOK, Verdict
<1> QED BY <1>2, <1>3, <1>5 DEF Resolvable, UploadsOK

LEMMA TickResolvable ==
  ASSUME TypeInv, Resolvable, Tick
  PROVE  Resolvable'
<1>1. /\ UNCHANGED <<chain, store, prep, push, sweep, hazards>>
      /\ \A r \in Branches : push[r].at = "idle"
      /\ \A n \in Pushes : prep[n].at = "idle"
  BY DEF Tick
<1>2. UploadsOK'
  BY <1>1 DEF UploadsOK, UploadOK, Needed, Waiting
<1>3. VerdictOK' /\ \A r \in Branches : ChainStored(r)'
  BY <1>1 DEF Resolvable, VerdictOK, Verdict, ChainStored, Sound
<1> QED BY <1>2, <1>3 DEF Resolvable

LEMMA ResolvableStep ==
  ASSUME ResolvableInv, [RemoteNext]_vars
  PROVE  ResolvableInv'
<1>a. TypeInv /\ TypeInv' /\ MarkFresh /\ MarkFresh' /\ Resolvable
  BY NextTyped, MarkFreshStep DEF ResolvableInv, Resolvable
<1> SUFFICES Resolvable'
  BY <1>a DEF ResolvableInv, Resolvable
<1>1. CASE UNCHANGED <<chain, store, prep, push, sweep, hazards, tombs>> /\ (mark' = mark \/ mark'.at # "put")
  <2>1. \A ref, p : Held(ref, p) => Held(ref, p)'
    BY <1>1 DEF Held, ObjKey
  <2>2. \A ref, p : (Needed(ref, p)' <=> Needed(ref, p)) /\ (Sound(ref)' <=> Sound(ref))
    BY <1>1 DEF Needed, Waiting, Sound
  <2>3. UploadsOK'
    BY <1>a, <2>1, <2>2 DEF Resolvable, UploadsOK, UploadOK
  <2>4. VerdictOK' /\ \A r \in Branches : ChainStored(r)'
    BY <1>a, <1>1, <2>2 DEF Resolvable, VerdictOK, Verdict, ChainStored
  <2> QED BY <2>3, <2>4 DEF Resolvable
<1>2. CASE \E r \in Branches : PushMove(r)
  BY <1>a, <1>2, PushEffect, ClientResolvable
<1>3. CASE \E n \in Pushes : PrepMove(n)
  BY <1>a, <1>3, PrepEffect, ClientResolvable
<1>4. CASE MarkStep
  BY <1>a, <1>4, MarkResolvable
<1>5. CASE \E w \in Sweepers : SweepStep(w)
  BY <1>a, <1>5, SweepResolvable
<1>6. CASE GcFails
  <2>1. CASE \E w \in Sweepers : SetSweep(w, NextTomb(w)) \/ SetSweep(w, NoSweep)
    BY <1>a, <1>6, <2>1, SweepResolvable
  <2>2. CASE mark' = NoMark /\ UNCHANGED <<chain, prep, push, sweep, pushes, stranded, hazards>>
    <3>1. UNCHANGED <<store, tombs>> /\ mark'.at # "put"
      BY <1>6, <2>2 DEF GcFails, NoMark
    <3> QED BY <1>1, <2>2, <3>1
  <2> QED BY <1>6, <2>1, <2>2 DEF GcFails
<1>7. CASE Tick
  BY <1>a, <1>7, TickResolvable
<1>8. CASE UNCHANGED vars
  BY <1>1, <1>8 DEF vars
<1> QED BY <1>2, <1>3, <1>4, <1>5, <1>6, <1>7, <1>8 DEF RemoteNext, Next, PrepMove, PushMove

\* No chain.json names an object that gc removed, although the chains are
\* read one by one while packs move between refs, for any number of refs,
\* pushes and sweeps at once: no pack, unless a condemned one was uploaded
\* again, and no baseline, unless one was, or a delete took it.
THEOREM ResolvableCorrect == Spec => []AllChainsResolvable
<1>1. Init => ResolvableInv
  BY InitTyped, InitResolvable DEF ResolvableInv
<1>2. ResolvableInv /\ [Next]_vars => ResolvableInv'
  BY ResolvableStep DEF RemoteNext
<1>3. ResolvableInv => AllChainsResolvable
  BY GcAssumption DEF ResolvableInv, Resolvable, AllChainsResolvable, ChainStored, Chains, Sound
<1> QED BY <1>1, <1>2, <1>3, PTL DEF Spec

-----------------------------------------------------------------------------
(* The records of the baselines.                                           *)

LEMMA InitLeak == Init => NumbersOK /\ SweepsOK /\ RecordsOK
<1> SUFFICES ASSUME Init PROVE NumbersOK /\ SweepsOK /\ RecordsOK
  OBVIOUS
<1>0. \A r \in Branches : push[r].at = "idle"
  BY NoneFormed DEF Init
<1>1. NumbersOK /\ SweepsOK
  BY <1>0, NoSweepFormed DEF Init, NumbersOK, SweepsOK, SweepOK, Holding
<1>2. ASSUME NEW r \in Branches, NEW p \in Packs, BundleKey(r, p) \in store PROVE chain[r] = p
  <2>1. PICK q \in Branches : BundleKey(r, p) \in {PackKey(chain[q]), BundleKey(q, chain[q])}
    BY <1>2 DEF Init, Chains
  <2> QED BY <2>1, Keys
<1>3. \A r \in Branches : Deferred(r)
  BY <1>0 DEF Deferred
<1> QED BY <1>1, <1>2, <1>3 DEF RecordsOK, Kept

\* A new tombstone, with a key that no other has and no sweep knows.
NewRecord(r, t) ==
  /\ t.ref = r /\ push[r].prior \in t.objs /\ t.age = 0 /\ NumberOK(t.id)'
  /\ \A w \in Sweepers : sweep[w].at \in Holding => sweep[w].id # t.id

\* What a step of the operation of r does to the tombstones and the numbers.
Records(r) ==
  /\ \A id \in TombIds : NumberOK(id) => NumberOK(id)'
  /\ tombs \subseteq tombs' /\ \A t \in tombs' : t \in tombs \/ NewRecord(r, t)
  /\ \A q \in Branches : push'[q].at # "idle" => prep'[push'[q].n].at = "idle"

\* The operations under the lock have numbers that were given, to no push
\* before the lock.
LEMMA Numbered ==
  ASSUME TypeInv, NumbersOK
  PROVE  /\ pushes \in Int /\ (\A id \in TombIds : id[1] = "base" => id[2] \in Branches /\ id[3] \in Pushes)
         /\ Pushes \subseteq Int
         /\ \A q \in Branches : push[q].at # "idle" => push[q].n \in Pushes /\ push[q].n <= pushes /\ prep[push[q].n].at = "idle"
         /\ \A n \in Pushes : prep[n].at # "idle" => n <= pushes
<1>1. ClientsTyped /\ pushes \in 0..MaxPushes /\ MaxPushes \in Nat
  BY TypeParts, GcAssumption DEF Typed, ClientsTyped
<1>2. \A id \in TombIds : id[1] = "base" => id[2] \in Branches /\ id[3] \in Pushes
  BY DEF TombIds
<1>3. \A q \in Branches : push[q].at # "idle" => push[q].n \in 1..pushes
  BY <1>1 DEF ClientsTyped, PushFormed, PushAt
<1>4. \A n \in Pushes : prep[n].at # "idle" => n <= pushes
  BY <1>1 DEF ClientsTyped, PrepFormed, PrepAt
<1> QED BY <1>1, <1>2, <1>3, <1>4 DEF NumbersOK, Pushes

LEMMA PushRecords ==
  ASSUME TypeInv, NumbersOK, SweepsOK, NEW r \in Branches, PushMove(r)
  PROVE  Records(r)
<1>a. /\ push \in [Branches -> PushType] /\ push[r] \in PushType /\ prep \in [Pushes -> PrepType]
      /\ TombsTyped /\ PushFormed(push[r], chain[r], pushes)
  BY TypeParts DEF Typed, ClientsTyped
<1> PICK v \in PushType : v = push[r]
  BY <1>a
<1>n. NoPush.at = "idle"
  BY NoneFormed
\* A step that gives no number.
<1>g. ASSUME NEW s, push' = [push EXCEPT ![r] = s], prep' = prep, pushes' = pushes,
             s.at # "idle" => v.at # "idle" /\ s.n = v.n,
             s.at \notin {"idle", "del"} => v.at \notin {"idle", "del"},
             tombs' = tombs \/ (WriteTombstone(r) /\ v.at \in {"tomb", "defer"} /\ s.at \in {"idle", "del"})
      PROVE  Records(r)
  <2>1. push'[r] = s /\ \A q \in Branches : q # r => push'[q] = push[q]
    BY <1>a, <1>g
  <2>2. ASSUME NEW id \in TombIds, NumberOK(id) PROVE NumberOK(id)'
    <3>1. id[1] = "base" => id[2] \in Branches
      BY Numbered
    <3> QED BY <1>g, <2>1, <2>2, <3>1 DEF NumberOK
  <2>3. \A q \in Branches : push'[q].at # "idle" => prep'[push'[q].n].at = "idle"
    BY <1>g, <2>1, Numbered
  <2>4. CASE tombs' = tombs
    BY <2>2, <2>3, <2>4 DEF Records
  <2>5. CASE WriteTombstone(r) /\ v.at \in {"tomb", "defer"} /\ s.at \in {"idle", "del"}
    <3> PICK id : id = <<"base", r, v.n>>
      OBVIOUS
    <3> PICK new : new = [id |-> id, ref |-> r, objs |-> {v.prior}, age |-> 0]
      OBVIOUS
    <3>1. tombs' = {t \in tombs : t.id # id} \cup {new}
      BY <2>5 DEF WriteTombstone, baseline_tombstone_key
    <3>2. new.id = id /\ new.ref = r /\ v.prior \in new.objs /\ new.age = 0
      OBVIOUS
    <3>3. id[1] = "base" /\ id[2] = r /\ id[3] = v.n
      OBVIOUS
    <3>4. v.n <= pushes /\ prep[v.n].at = "idle"
      BY <2>5, Numbered
    <3>5. ~NumberOK(id)
      BY <2>5, <3>3 DEF NumberOK
    <3>6. NumberOK(id)'
      BY <1>g, <2>1, <2>5, <3>3, <3>4 DEF NumberOK
    <3>7. \A t \in tombs : t.id # id
      BY <3>5 DEF NumbersOK
    <3>8. \A w \in Sweepers : sweep[w].at \in Holding => sweep[w].id # id
      BY <3>5 DEF SweepsOK, SweepOK
    <3>9. NewRecord(r, new)
      BY <3>2, <3>6, <3>8 DEF NewRecord
    <3>10. tombs' = tombs \cup {new}
      BY <3>1, <3>7
    <3> QED BY <2>2, <2>3, <3>9, <3>10 DEF Records
  <2> QED BY <1>g, <2>4, <2>5
<1>1. CASE PushStart(r)
  <2> PICK p \in Packs, force \in BOOLEAN :
             prep' = [prep EXCEPT ![pushes'] = [at |-> "pack", ref |-> r, sha |-> p,
                                                prior |-> chain[r], force |-> force]]
    BY <1>1 DEF PushStart
  <2>1. pushes' = pushes + 1 /\ push' = push /\ tombs' = tombs
    BY <1>1 DEF PushStart
  <2>2. \A n \in Pushes : n <= pushes => prep'[n] = prep[n]
    BY <1>a, <2>1, Numbered
  <2>3. ASSUME NEW id \in TombIds, NumberOK(id) PROVE NumberOK(id)'
    BY <2>1, <2>2, <2>3, Numbered DEF NumberOK
  <2>4. \A q \in Branches : push'[q].at # "idle" => prep'[push'[q].n].at = "idle"
    BY <2>1, <2>2, Numbered
  <2> QED BY <2>1, <2>3, <2>4 DEF Records
<1>2. CASE DeleteStart(r)
  <2> DEFINE s == [at |-> "defer", n |-> pushes', sha |-> None, prior |-> chain[r],
                   todo |-> {p \in Packs : BundleKey(r, p) \in store}]
  <2>1. s.at = "defer" /\ s.n = pushes'
    OBVIOUS
  <2>2. push' = [push EXCEPT ![r] = s] /\ UNCHANGED <<tombs, prep>> /\ pushes' = pushes + 1 /\ pushes < MaxPushes
    BY <1>2 DEF DeleteStart
  <2> HIDE DEF s
  <2>3. push'[r] = s /\ \A q \in Branches : q # r => push'[q] = push[q]
    BY <1>a, <2>2
  <2>4. pushes' \in Pushes
    BY <2>2, GcAssumption, TypeParts DEF Typed, ClientsTyped, Pushes
  <2>5. prep'[pushes'].at = "idle"
    BY <2>2, <2>4, Numbered
  <2>6. ASSUME NEW id \in TombIds, NumberOK(id) PROVE NumberOK(id)'
    <3>1. id[1] = "base" => id[2] \in Branches /\ id[3] \in Int /\ id[3] # pushes' /\ id[3] <= pushes'
      BY <2>2, <2>6, Numbered DEF NumberOK
    <3> QED BY <2>1, <2>2, <2>3, <2>6, <3>1 DEF NumberOK
  <2>7. \A q \in Branches : push'[q].at # "idle" => prep'[push'[q].n].at = "idle"
    BY <2>1, <2>2, <2>3, <2>5, Numbered
  <2> QED BY <2>2, <2>6, <2>7 DEF Records
<1>3. CASE CompactUpload(r)
  <2>1. \E at \in {"bundle", "commit"} : push' = [push EXCEPT ![r] = [v EXCEPT !.at = at]]
    BY <1>3, <1>a DEF CompactUpload
  <2> PICK at \in {"bundle", "commit"} : push' = [push EXCEPT ![r] = [v EXCEPT !.at = at]]
    BY <2>1
  <2> DEFINE s == [v EXCEPT !.at = at]
  <2>2. v.at \in {"pack", "bundle"} /\ UNCHANGED <<prep, tombs, pushes>>
    BY <1>3 DEF CompactUpload
  <2>3. s.n = v.n /\ push' = [push EXCEPT ![r] = s]
    BY DEF PushType
  <2> HIDE DEF s
  <2> QED BY <2>2, <2>3, <1>g
<1>4. CASE Commit(r)
  <2> DEFINE s == IF v.prior \in {None, v.sha} THEN NoPush ELSE [v EXCEPT !.at = "tomb"]
  <2>1. s.at = "idle" \/ s.n = v.n
    BY <1>n DEF PushType
  <2>2. push' = [push EXCEPT ![r] = s] /\ v.at = "commit" /\ UNCHANGED <<prep, tombs, pushes>>
    BY <1>4 DEF Commit
  <2> HIDE DEF s
  <2> QED BY <2>1, <2>2, <1>g
<1>5. CASE TombstonePrior(r)
  <2>1. /\ v.at = "tomb" /\ push' = [push EXCEPT ![r] = NoPush] /\ UNCHANGED <<prep, pushes>>
        /\ tombs' = tombs \/ WriteTombstone(r)
    BY <1>5 DEF TombstonePrior
  <2> QED BY <2>1, <1>g, <1>n
<1>6. CASE DeleteDefer(r)
  <2>1. \E T \in {v.todo, v.todo \ {v.prior}} : push' = [push EXCEPT ![r] = [v EXCEPT !.at = "del", !.todo = T]]
    <3>1. [v EXCEPT !.at = "del"] = [v EXCEPT !.at = "del", !.todo = v.todo]
      BY DEF PushType
    <3> QED BY <1>6, <1>a, <3>1 DEF DeleteDefer
  <2> PICK T : push' = [push EXCEPT ![r] = [v EXCEPT !.at = "del", !.todo = T]]
    BY <2>1
  <2> DEFINE s == [v EXCEPT !.at = "del", !.todo = T]
  <2>2. s.at = "del" /\ s.n = v.n
    BY DEF PushType
  <2>3. /\ push' = [push EXCEPT ![r] = s] /\ UNCHANGED <<prep, pushes>> /\ v.at = "defer"
        /\ tombs' = tombs \/ WriteTombstone(r)
    BY <1>6 DEF DeleteDefer
  <2> HIDE DEF s
  <2> QED BY <2>2, <2>3, <1>g
<1>7. CASE DeleteBundle(r)
  <2> PICK p : push' = [push EXCEPT ![r] = IF push[r].todo \ {p} = {} /\ chain[r] = None THEN NoPush
                                           ELSE [@ EXCEPT !.todo = push[r].todo \ {p}]]
    BY <1>7 DEF DeleteBundle
  <2> DEFINE u == [v EXCEPT !.todo = v.todo \ {p}]
             s == IF v.todo \ {p} = {} /\ chain[r] = None THEN NoPush ELSE u
  <2>0. v.at = "del" /\ UNCHANGED <<prep, tombs, pushes>>
    BY <1>7 DEF DeleteBundle
  <2>1. u.at = v.at /\ u.n = v.n
    BY DEF PushType
  <2>2. push' = [push EXCEPT ![r] = s]
    OBVIOUS
  <2> HIDE DEF u
  <2>3. s.at = "idle" \/ (s.at = v.at /\ s.n = v.n)
    BY <2>1, <1>n
  <2> HIDE DEF s
  <2> QED BY <2>0, <2>2, <2>3, <1>g
<1>8. CASE DeleteChain(r)
  <2> DEFINE s == IF v.todo = {} THEN NoPush ELSE v
  <2>1. v.at = "del" /\ push' = [push EXCEPT ![r] = s] /\ UNCHANGED <<prep, tombs, pushes>>
    BY <1>8 DEF DeleteChain
  <2>2. s.at = "idle" \/ s = v
    BY <1>n
  <2> HIDE DEF s
  <2> QED BY <2>1, <2>2, <1>g
<1>9. CASE PushDies(r)
  BY <1>9, <1>g, <1>n DEF PushDies
<1> QED BY <1>1, <1>2, <1>3, <1>4, <1>5, <1>6, <1>7, <1>8, <1>9 DEF PushMove, ClientStep

LEMMA PrepRecords ==
  ASSUME TypeInv, NumbersOK, NEW n \in Pushes, PrepMove(n)
  PROVE  /\ \A id \in TombIds : NumberOK(id) => NumberOK(id)'
         /\ tombs' = tombs /\ sweep' = sweep
         /\ \A q \in Branches : push'[q].at # "idle" => prep'[push'[q].n].at = "idle"
<1>a. prep \in [Pushes -> PrepType] /\ push \in [Branches -> PushType] /\ NoPrep.at = "idle"
  BY TypeParts, NoneFormed DEF Typed, ClientsTyped
<1>0. tombs' = tombs /\ sweep' = sweep /\ pushes' = pushes /\ prep[n].at # "idle"
  BY DEF PrepMove, PrepStep, PrepUpload, PushLock, PushRefused, PrepDies
<1>1. \A m \in Pushes : prep[m].at = "idle" => prep'[m].at = "idle"
  BY <1>a, <1>0 DEF PrepMove, PrepStep, PrepUpload, PushLock, PushRefused, PrepDies
<1>2. \A q \in Branches : \/ push'[q] = push[q]
                          \/ push'[q].at = "commit" /\ push'[q].n = n /\ prep'[n].at = "idle"
  <2>1. CASE PushLock(n)
    <3> DEFINE s == [at |-> "commit", n |-> n, sha |-> prep[n].sha, prior |-> prep[n].prior, todo |-> {}]
    <3>1. push' = [push EXCEPT ![prep[n].ref] = s] /\ prep' = [prep EXCEPT ![n] = NoPrep]
      BY <2>1 DEF PushLock
    <3>2. s.at = "commit" /\ s.n = n
      OBVIOUS
    <3> HIDE DEF s
    <3> QED BY <1>a, <3>1, <3>2
  <2> QED BY <2>1 DEF PrepMove, PrepStep, PrepUpload, PushRefused, PrepDies
<1>3. ASSUME NEW id \in TombIds, NumberOK(id) PROVE NumberOK(id)'
  <2> SUFFICES ASSUME id[1] = "base" PROVE NumberOK(id)'
    BY DEF NumberOK
  <2>1. id[2] \in Branches /\ id[3] \in Pushes
    BY Numbered
  <2>2. id[3] <= pushes /\ prep[id[3]].at = "idle" /\ id[3] # n
    BY <1>0, <1>3 DEF NumberOK
  <2> QED BY <1>0, <1>1, <1>2, <1>3, <2>1, <2>2 DEF NumberOK
<1>4. \A q \in Branches : push'[q].at # "idle" => prep'[push'[q].n].at = "idle"
  BY <1>1, <1>2, Numbered
<1> QED BY <1>0, <1>3, <1>4

\* A push before the lock: what it uploads is recorded by its wait, and then
\* by its commit or as left behind.
LEMMA PrepLeak ==
  ASSUME LeakInv, NEW n \in Pushes, PrepMove(n)
  PROVE  (NumbersOK /\ SweepsOK /\ RecordsOK)'
<1> USE DEF LeakInv
<1>a. /\ prep \in [Pushes -> PrepType] /\ push \in [Branches -> PushType] /\ NoPrep.at = "idle"
      /\ prep[n] \in PrepType /\ \A t \in tombs : t.id \in TombIds
  BY TypeParts, NoneFormed DEF Typed, ClientsTyped, TombsTyped, TombType
<1>b. /\ \A id \in TombIds : NumberOK(id) => NumberOK(id)'
      /\ tombs' = tombs /\ sweep' = sweep
      /\ \A q \in Branches : push'[q].at # "idle" => prep'[push'[q].n].at = "idle"
  BY PrepRecords
<1>c. chain' = chain /\ store \subseteq store' /\ stranded \subseteq stranded'
  BY DEF PrepMove, PrepStep, PrepUpload, UploadPack, UploadBundle, PushLock, PushRefused, PrepDies, Strand
<1> PICK v \in PrepType : v = prep[n]
  BY <1>a
<1> PICK b : b = v.ref
  OBVIOUS
<1>1. NumbersOK'
  BY <1>a, <1>b DEF NumbersOK
<1>2. SweepsOK'
  BY <1>b DEF SweepsOK, SweepOK
<1>3. \A r \in Branches, p \in Packs : Recorded(r, p) => Recorded(r, p)'
  BY <1>b DEF Recorded
<1>4. \A r \in Branches : Deferred(r) /\ \A p \in Packs : Kept(r, p)
  BY DEF RecordsOK
<1>5. CASE PrepUpload(n)
  <2>1. push' = push /\ stranded' = stranded
    BY <1>5 DEF PrepUpload
  <2>2. \E at \in {"bundle", "lock"} : prep' = [prep EXCEPT ![n] = [v EXCEPT !.at = at]] /\ v.at # "lock"
    BY <1>5, <1>a DEF PrepUpload
  <2>3. \A m \in Pushes : m # n => prep'[m] = prep[m]
    BY <1>a, <2>2
  <2>4. ASSUME NEW r, NEW p, Waiting(r, p) PROVE Waiting(r, p)'
    BY <2>2, <2>3, <2>4 DEF Waiting
  <2>5. ASSUME NEW r, NEW p, BundleKey(r, p) \in store' PROVE BundleKey(r, p) \in store \/ Waiting(r, p)'
    <3>1. CASE v.at = "pack" /\ UploadPack(v.sha)
      BY <2>5, <3>1, Keys DEF UploadPack
    <3>2. CASE v.at = "bundle" /\ UploadBundle(b, v.sha) /\ prep' = [prep EXCEPT ![n].at = "lock"]
      <4> DEFINE s == [v EXCEPT !.at = "lock"]
      <4>1. s.at = "lock" /\ s.ref = b /\ s.sha = v.sha
        BY DEF PrepType
      <4>2. prep' = [prep EXCEPT ![n] = s]
        BY <3>2, <1>a
      <4> HIDE DEF s
      <4>3. prep'[n] = s
        BY <4>2, <1>a
      <4>4. r = b /\ p = v.sha => Waiting(r, p)'
        BY <4>1, <4>3 DEF Waiting
      <4> QED BY <2>5, <3>2, <4>4, Keys DEF UploadBundle
    <3> QED BY <1>5, <3>1, <3>2 DEF PrepUpload
  <2>6. ASSUME NEW r \in Branches PROVE Deferred(r)'
    BY <1>b, <1>4, <2>1, <2>4, <2>5 DEF Deferred
  <2>7. ASSUME NEW r \in Branches, NEW p \in Packs PROVE Kept(r, p)'
    BY <1>c, <1>3, <1>4, <2>1, <2>4, <2>5 DEF Kept
  <2> QED BY <1>1, <1>2, <2>6, <2>7 DEF RecordsOK
<1>6. CASE PushLock(n)
  <2> DEFINE s == [at |-> "commit", n |-> n, sha |-> v.sha, prior |-> v.prior, todo |-> {}]
  <2>1. /\ push' = [push EXCEPT ![b] = s] /\ prep' = [prep EXCEPT ![n] = NoPrep] /\ push[b].at = "idle"
        /\ store' = store /\ stranded' = stranded
    BY <1>6 DEF PushLock
  <2>2. s.at = "commit" /\ s.sha = v.sha
    OBVIOUS
  <2> HIDE DEF s
  <2>3. \A q \in Branches : IF q = b THEN push'[q] = s ELSE push'[q] = push[q]
    BY <1>a, <2>1
  <2>4. ASSUME NEW r, NEW p, Waiting(r, p) PROVE Waiting(r, p)' \/ (r = b /\ p = v.sha)
    BY <1>a, <2>1, <2>4 DEF Waiting
  <2>5. ASSUME NEW r \in Branches PROVE Deferred(r)'
    BY <1>b, <1>4, <2>1, <2>2, <2>3, <2>4 DEF Deferred
  <2>6. ASSUME NEW r \in Branches, NEW p \in Packs PROVE Kept(r, p)'
    BY <1>c, <1>3, <1>4, <2>1, <2>2, <2>3, <2>4 DEF Kept
  <2> QED BY <1>1, <1>2, <2>5, <2>6 DEF RecordsOK
<1>7. CASE PushRefused(n) \/ PrepDies(n)
  <2>1. push' = push /\ prep' = [prep EXCEPT ![n] = NoPrep] /\ store' = store /\ Strand(n)
    BY <1>7 DEF PushRefused, PrepDies
  <2>2. ASSUME NEW r, NEW p, Waiting(r, p) PROVE Waiting(r, p)' \/ (r = b /\ p = v.sha /\ v.at = "lock")
    BY <1>a, <2>1, <2>2 DEF Waiting
  <2>3. v.at = "lock" /\ (chain[b] # v.sha \/ Passed(b, v.sha)) => <<b, v.sha>> \in stranded'
    BY <2>1 DEF Strand
  <2>4. ASSUME NEW r \in Branches PROVE Deferred(r)'
    BY <1>b, <1>c, <1>4, <2>1, <2>2, <2>3 DEF Deferred, Passed
  <2>5. ASSUME NEW r \in Branches, NEW p \in Packs PROVE Kept(r, p)'
    BY <1>c, <1>3, <1>4, <2>1, <2>2, <2>3 DEF Kept
  <2> QED BY <1>1, <1>2, <2>4, <2>5 DEF RecordsOK
<1> QED BY <1>5, <1>6, <1>7 DEF PrepMove, PrepStep

\* The operation of a ref: what its chain gives up has a record, or is
\* written down as left behind.
LEMMA PushLeak ==
  ASSUME LeakInv, NEW r \in Branches, PushMove(r)
  PROVE  (NumbersOK /\ SweepsOK /\ RecordsOK)'
<1> USE DEF LeakInv
<1>a. /\ prep \in [Pushes -> PrepType] /\ push \in [Branches -> PushType] /\ push[r] \in PushType
      /\ chain \in [Branches -> Packs \cup {None}] /\ NoPush.at = "idle" /\ None \notin Packs
      /\ (\A t \in tombs : t.id \in TombIds) /\ PushFormed(push[r], chain[r], pushes)
  BY TypeParts, NoneFormed, GcAssumption DEF Typed, ClientsTyped, TombsTyped, TombType
<1> PICK v \in PushType : v = push[r]
  BY <1>a
<1>p. /\ v.at \in {"tomb", "defer", "del"} => v.prior \in Packs
      /\ v.at = "del" => chain[r] \in {None, v.prior}
  BY <1>a DEF PushFormed, PushAt
<1>b. Records(r) /\ sweep' = sweep
  BY PushRecords DEF PushMove, PushStart, DeleteStart, ClientStep, CompactUpload, Commit, TombstonePrior, DeleteDefer,
    DeleteBundle, DeleteChain, PushDies
<1>c. \A q \in Branches : q # r => push'[q] = push[q] /\ chain'[q] = chain[q]
  BY <1>a DEF PushMove, PushStart, DeleteStart, ClientStep, CompactUpload, Commit, TombstonePrior, DeleteDefer,
    DeleteBundle, DeleteChain, PushDies
<1>1. NumbersOK'
  BY <1>a, <1>b DEF NumbersOK, Records, NewRecord
<1>2. SweepsOK'
  BY <1>b DEF SweepsOK, SweepOK, Records, NewRecord
<1>3. \A q \in Branches, p \in Packs : Recorded(q, p) => Recorded(q, p)'
  BY <1>b DEF Recorded, Records
<1>4. \A q \in Branches : Deferred(q) /\ \A p \in Packs : Kept(q, p)
  BY DEF RecordsOK
<1>5. \A q, p : Waiting(q, p) => Waiting(q, p)'
  <2>1. CASE PushStart(r)
    <3> PICK s : prep' = [prep EXCEPT ![pushes'] = s] /\ pushes' = pushes + 1
      BY <2>1 DEF PushStart
    <3>1. \A m \in Pushes : prep[m].at = "lock" => prep'[m] = prep[m]
      BY <1>a, Numbered
    <3> QED BY <3>1 DEF Waiting
  <2>2. CASE prep' = prep
    BY <2>2 DEF Waiting
  <2> QED BY <2>1, <2>2 DEF PushMove, DeleteStart, ClientStep, CompactUpload, Commit, TombstonePrior, DeleteDefer,
            DeleteBundle, DeleteChain, PushDies
\* The other refs.
<1>6. ASSUME NEW q \in Branches, q # r PROVE Deferred(q)' /\ \A p \in Packs : Kept(q, p)'
  <2>1. \A p \in Packs : BundleKey(q, p) \in store' => BundleKey(q, p) \in store
    BY <1>6, Keys DEF PushMove, PushStart, DeleteStart, ClientStep, CompactUpload, UploadPack, UploadBundle, Commit,
      TombstonePrior, DeleteDefer, DeleteBundle, DeleteChain, PushDies
  <2>2. \A p \in Packs : <<q, p>> \in stranded => <<q, p>> \in stranded'
    BY <1>6 DEF PushMove, PushStart, DeleteStart, ClientStep, CompactUpload, Commit,
      TombstonePrior, DeleteDefer, DeleteBundle, DeleteChain, PushDies
  <2>3. push[q].at \in {"defer", "del"} => push[q].prior \in Packs
    BY TypeParts DEF Typed, ClientsTyped, PushFormed, PushAt
  <2>4. Deferred(q)'
    BY <1>b, <1>c, <1>4, <1>5, <1>6, <2>1, <2>2, <2>3 DEF Deferred, Records
  <2> QED BY <1>c, <1>3, <1>4, <1>5, <1>6, <2>1, <2>2, <2>4 DEF Kept
\* A new tombstone is a record of what the operation names as its prior.
<1>w. ASSUME WriteTombstone(r), v.at \in {"tomb", "defer"}
      PROVE  Recorded(r, v.prior)' /\ \E t \in tombs' : t.ref = r /\ v.prior \in t.objs /\ t.age = 0
  <2> PICK id : id = baseline_tombstone_key(r)
    OBVIOUS
  <2> PICK new : new = [id |-> id, ref |-> r, objs |-> {v.prior}, age |-> 0]
    OBVIOUS
  <2>1. new \in tombs' /\ new.id = id /\ new.ref = r /\ new.objs = {v.prior} /\ new.age = 0
    BY <1>w DEF WriteTombstone
  <2>2. id[1] = "base" /\ id[2] = r /\ id[3] = v.n
    BY DEF baseline_tombstone_key
  <2>3. ~NumberOK(id)
    BY <1>w, <2>2 DEF NumberOK
  <2>4. \A w \in Sweepers : sweep[w].at = "check" => sweep[w].id # id
    BY <2>3 DEF SweepsOK, SweepOK, Holding
  <2> QED BY <1>b, <2>1, <2>4 DEF Recorded
\* A step after which nothing is expected of the ref that was not before.
<1>k. ASSUME store' \subseteq store, chain' = chain, stranded \subseteq stranded',
             push'[r].at \notin {"defer", "del"}, v.at \notin {"commit", "tomb", "del"}
      PROVE  Deferred(r)' /\ \A p \in Packs : Kept(r, p)'
  BY <1>3, <1>4, <1>5, <1>k DEF Deferred, Kept
<1>7. Deferred(r)' /\ \A p \in Packs : Kept(r, p)'
  <2>1. CASE PushStart(r)
    <3>1. push' = push /\ UNCHANGED <<store, chain, stranded, tombs>>
      BY <2>1 DEF PushStart
    <3> QED BY <1>3, <1>4, <1>5, <3>1 DEF Deferred, Kept
  <2>2. CASE DeleteStart(r)
    <3> DEFINE s == [at |-> "defer", n |-> pushes', sha |-> None, prior |-> chain[r],
                     todo |-> {p \in Packs : BundleKey(r, p) \in store}]
    <3>1. s.at = "defer" /\ s.prior = chain[r] /\ s.todo = {p \in Packs : BundleKey(r, p) \in store}
      OBVIOUS
    <3>2. /\ push' = [push EXCEPT ![r] = s] /\ UNCHANGED <<store, chain, stranded>>
          /\ v.at = "idle" /\ chain[r] \in Packs
      BY <1>a, <2>2 DEF DeleteStart
    <3> HIDE DEF s
    <3>3. push'[r] = s
      BY <1>a, <3>2
    <3> QED BY <1>3, <1>4, <1>5, <3>1, <3>2, <3>3 DEF Deferred, Kept
  <2>3. CASE CompactUpload(r)
    <3>1. UNCHANGED <<chain, stranded>> /\ v.at \in {"pack", "bundle"}
      BY <2>3 DEF CompactUpload
    <3>2. CASE v.at = "pack" /\ UploadPack(v.sha) /\ push' = [push EXCEPT ![r].at = "bundle"]
      <4>1. \A p \in Packs : BundleKey(r, p) \in store' => BundleKey(r, p) \in store
        BY <3>2, Keys DEF UploadPack
      <4>2. push'[r].at = "bundle"
        BY <3>2, <1>a DEF PushType
      <4> QED BY <1>3, <1>4, <1>5, <3>1, <4>1, <4>2 DEF Deferred, Kept
    <3>3. CASE v.at = "bundle" /\ UploadBundle(r, v.sha) /\ push' = [push EXCEPT ![r].at = "commit"]
      <4>1. \A p \in Packs : BundleKey(r, p) \in store' => BundleKey(r, p) \in store \/ p = v.sha
        BY <3>3, Keys DEF UploadBundle
      <4> DEFINE s == [v EXCEPT !.at = "commit"]
      <4>2. s.at = "commit" /\ s.sha = v.sha /\ push' = [push EXCEPT ![r] = s]
        BY <3>3, <1>a DEF PushType
      <4> HIDE DEF s
      <4>3. push'[r].at = "commit" /\ push'[r].sha = v.sha
        BY <4>2, <1>a
      <4> QED BY <1>3, <1>4, <1>5, <3>1, <4>1, <4>3 DEF Deferred, Kept
    <3> QED BY <2>3, <3>2, <3>3 DEF CompactUpload
  <2>4. CASE Commit(r)
    <3> DEFINE u == [v EXCEPT !.at = "tomb"]
               s == IF v.prior \in {None, v.sha} THEN NoPush ELSE u
    <3>1. u.at = "tomb" /\ u.prior = v.prior
      BY DEF PushType
    <3>2. /\ push' = [push EXCEPT ![r] = s] /\ chain' = [chain EXCEPT ![r] = v.sha] /\ store' = store
          /\ v.at = "commit"
          /\ stranded' = (stranded \ {<<r, v.sha>>}) \cup ({r} \X ({chain[r]} \ {None, v.prior, v.sha}))
      BY <2>4 DEF Commit
    <3> HIDE DEF u
    <3>3. push'[r] = s /\ chain'[r] = v.sha
      BY <1>a, <3>2
    <3>4. push'[r].at = "idle" \/ (push'[r].at = "tomb" /\ push'[r].prior = v.prior)
      BY <1>a, <3>1, <3>3
    <3>5. v.prior \notin {None, v.sha} => push'[r].at = "tomb"
      BY <3>1, <3>3
    <3>6. ASSUME NEW p \in Packs, p # v.sha, <<r, p>> \in stranded \/ (p = chain[r] /\ p # v.prior)
          PROVE  <<r, p>> \in stranded'
      BY <1>a, <3>2, <3>6
    <3>7. Deferred(r)'
      BY <3>4 DEF Deferred
    <3>8. ASSUME NEW p \in Packs PROVE Kept(r, p)'
      <4> SUFFICES ASSUME BundleKey(r, p) \in store, p # v.sha PROVE Kept(r, p)'
        BY <3>2, <3>3 DEF Kept
      <4>1. CASE p = chain[r] /\ p # v.prior
        BY <3>6, <4>1 DEF Kept
      <4>2. CASE p = chain[r] /\ p = v.prior
        BY <1>a, <3>4, <3>5, <4>2 DEF Kept
      <4>3. CASE p # chain[r]
        BY <1>3, <1>4, <1>5, <3>2, <3>6, <4>3 DEF Kept
      <4> QED BY <4>1, <4>2, <4>3
    <3> QED BY <3>7, <3>8
  <2>5. CASE TombstonePrior(r)
    <3>1. v.at = "tomb" /\ push' = [push EXCEPT ![r] = NoPush] /\ UNCHANGED <<store, chain>>
      BY <2>5 DEF TombstonePrior
    <3>2. \/ WriteTombstone(r) /\ stranded' = stranded
          \/ stranded' = stranded \cup {<<r, v.prior>>}
      BY <2>5 DEF TombstonePrior
    <3>3. push'[r].at = "idle"
      BY <1>a, <3>1
    <3>4. Recorded(r, v.prior)' \/ <<r, v.prior>> \in stranded'
      BY <1>w, <3>1, <3>2
    <3>5. stranded \subseteq stranded'
      BY <3>2
    <3> QED BY <1>3, <1>4, <1>5, <3>1, <3>3, <3>4, <3>5 DEF Deferred, Kept
  <2>6. CASE DeleteDefer(r)
    <3>1. v.at = "defer" /\ UNCHANGED <<store, chain, stranded>>
      BY <2>6 DEF DeleteDefer
    <3>2. \E T \in {v.todo, v.todo \ {v.prior}} :
            /\ push' = [push EXCEPT ![r] = [v EXCEPT !.at = "del", !.todo = T]]
            /\ T = v.todo \/ WriteTombstone(r)
      <4>1. [v EXCEPT !.at = "del"] = [v EXCEPT !.at = "del", !.todo = v.todo]
        BY DEF PushType
      <4> QED BY <2>6, <1>a, <4>1 DEF DeleteDefer
    <3> PICK T \in {v.todo, v.todo \ {v.prior}} :
            /\ push' = [push EXCEPT ![r] = [v EXCEPT !.at = "del", !.todo = T]]
            /\ T = v.todo \/ WriteTombstone(r)
      BY <3>2
    <3> DEFINE s == [v EXCEPT !.at = "del", !.todo = T]
    <3>3. s.at = "del" /\ s.prior = v.prior /\ s.todo = T
      BY DEF PushType
    <3>4. push'[r] = s
      BY <1>a
    <3> HIDE DEF s
    <3>5. Deferred(r)'
      <4>1. CASE T = v.todo
        BY <1>b, <1>4, <1>5, <3>1, <3>3, <3>4, <4>1 DEF Deferred, Records
      <4>2. CASE WriteTombstone(r)
        BY <1>w, <3>1, <3>3, <3>4, <4>2 DEF Deferred
      <4> QED BY <4>1, <4>2
    <3>6. ASSUME NEW p \in Packs PROVE Kept(r, p)'
      BY <1>3, <1>4, <1>5, <3>1 DEF Kept
    <3> QED BY <3>5, <3>6
  <2>7. CASE DeleteBundle(r)
    <3> PICK o \in v.todo :
           /\ store' = store \ {BundleKey(r, o)} /\ stranded' = stranded \ {<<r, o>>}
           /\ push' = [push EXCEPT ![r] = IF v.todo \ {o} = {} /\ chain[r] = None THEN NoPush
                                          ELSE [v EXCEPT !.todo = v.todo \ {o}]]
      BY <2>7 DEF DeleteBundle
    <3> DEFINE s == [v EXCEPT !.todo = v.todo \ {o}]
    <3>1. v.at = "del" /\ UNCHANGED <<chain, tombs>>
      BY <2>7 DEF DeleteBundle
    <3>2. s.at = v.at /\ s.prior = v.prior /\ s.todo = v.todo \ {o}
      BY DEF PushType
    <3>3. push'[r] = IF v.todo \ {o} = {} /\ chain[r] = None THEN NoPush ELSE s
      BY <1>a
    <3> HIDE DEF s
    <3>4. ASSUME NEW p \in Packs, BundleKey(r, p) \in store'
          PROVE  BundleKey(r, p) \in store /\ p # o /\ (<<r, p>> \in stranded => <<r, p>> \in stranded')
      BY <3>4
    <3>5. Deferred(r)'
      <4>1. push'[r].at \in {"defer", "del"} => push'[r] = s
        BY <1>a, <3>3
      <4> SUFFICES ASSUME push'[r] = s, v.prior \notin v.todo \ {o}, BundleKey(r, v.prior) \in store'
                   PROVE  Deferred(r)'
        BY <3>2, <4>1 DEF Deferred
      <4>2. v.prior \in Packs /\ v.prior # o /\ v.prior \notin v.todo
        BY <1>p, <3>1, <3>4
      <4> QED BY <1>4, <1>5, <3>1, <3>2, <3>4, <4>2 DEF Deferred
    <3>6. ASSUME NEW p \in Packs PROVE Kept(r, p)'
      <4> SUFFICES ASSUME BundleKey(r, p) \in store', chain[r] # p PROVE Kept(r, p)'
        BY <3>1 DEF Kept
      <4>1. CASE v.prior = p /\ p \in v.todo
        <5>1. push'[r] = s
          BY <3>3, <3>4, <4>1
        <5> QED BY <3>1, <3>2, <3>4, <4>1, <5>1 DEF Kept
      <4>2. CASE ~(v.prior = p /\ p \in v.todo)
        BY <1>3, <1>4, <1>5, <3>1, <3>4, <4>2 DEF Kept
      <4> QED BY <4>1, <4>2
    <3> QED BY <3>5, <3>6
  <2>8. CASE DeleteChain(r)
    <3>1. /\ v.at = "del" /\ chain[r] # None /\ chain' = [chain EXCEPT ![r] = None]
          /\ push' = [push EXCEPT ![r] = IF v.todo = {} THEN NoPush ELSE v]
          /\ UNCHANGED <<store, tombs, stranded>>
      BY <2>8 DEF DeleteChain
    <3>2. push'[r] = (IF v.todo = {} THEN NoPush ELSE v) /\ chain'[r] = None /\ chain[r] = v.prior
      BY <1>a, <1>p, <3>1
    <3>3. Deferred(r)'
      BY <1>a, <1>4, <1>5, <3>1, <3>2 DEF Deferred
    <3>4. ASSUME NEW t \in tombs, t.ref = r, v.prior \in t.objs, t.age = 0 PROVE Recorded(r, v.prior)
      <4>1. \A w \in Sweepers : sweep[w].at = "check" => sweep[w].id # t.id
        BY <1>a, <3>4, GcAssumption DEF SweepsOK, SweepOK, Holding
      <4> QED BY <3>4, <4>1 DEF Recorded
    <3>5. ASSUME NEW p \in Packs PROVE Kept(r, p)'
      <4> SUFFICES ASSUME BundleKey(r, p) \in store PROVE Kept(r, p)'
        BY <3>1 DEF Kept
      <4>1. CASE p = v.prior /\ p \in v.todo
        BY <3>1, <3>2, <4>1 DEF Kept
      <4>2. CASE p = v.prior /\ p \notin v.todo
        <5>1. Recorded(r, p) \/ <<r, p>> \in stranded \/ Waiting(r, p)
          BY <1>4, <3>1, <3>4, <4>2 DEF Deferred
        <5> QED BY <1>3, <1>5, <3>1, <5>1 DEF Kept
      <4>3. CASE p # v.prior
        BY <1>3, <1>4, <1>5, <3>1, <3>2, <4>3 DEF Kept
      <4> QED BY <4>1, <4>2, <4>3
    <3> QED BY <3>3, <3>5
  <2>9. CASE PushDies(r)
    <3> PICK left : left = CASE v.at = "commit" -> {v.sha}
                             [] v.at = "tomb"   -> {v.prior}
                             [] v.at = "del"    -> {v.prior} \cap v.todo
                             [] OTHER           -> {}
      OBVIOUS
    <3>1. /\ push' = [push EXCEPT ![r] = NoPush] /\ UNCHANGED <<chain, store, tombs>>
          /\ stranded' = stranded \cup ({r} \X (left \ {chain[r]}))
      BY <2>9 DEF PushDies
    <3>2. push'[r].at = "idle"
      BY <1>a, <3>1
    <3>3. /\ v.at = "commit" => v.sha \in left
          /\ v.at = "tomb" => v.prior \in left
          /\ v.at = "del" /\ v.prior \in v.todo => v.prior \in left
      OBVIOUS
    <3>4. \A p \in left : p # chain[r] => <<r, p>> \in stranded'
      BY <3>1
    <3>5. stranded \subseteq stranded'
      BY <3>1
    <3> QED BY <1>3, <1>4, <1>5, <3>1, <3>2, <3>3, <3>4, <3>5 DEF Deferred, Kept
  <2> QED BY <2>1, <2>2, <2>3, <2>4, <2>5, <2>6, <2>7, <2>8, <2>9 DEF PushMove, ClientStep
<1> QED BY <1>1, <1>2, <1>6, <1>7 DEF RecordsOK

\* What a sweep still holds of the tombstone it is at.
LEMMA SweepHolds ==
  ASSUME TypeInv, NEW w \in Sweepers, SweepStep(w), sweep[w].at \in Holding, sweep'[w].at \in Holding
  PROVE  LET s == sweep'[w] IN
         \/ s.ref = None
         \/ s.at = "check" /\ s.left = {} /\ (SweepDelete(w) \/ (SweepBaseline(w) /\ chain[s.ref] \in sweep[w].left))
         \/ /\ s.at # "check" \/ s.left # {}
            /\ sweep[w].at # "check" \/ sweep[w].left # {}
            /\ s.left \cup s.cur = sweep[w].left \cup sweep[w].cur
<1>a. /\ sweep[w] \in SweepType /\ Hands(sweep[w]) /\ sweep \in [Sweepers -> SweepType]
      /\ NextTomb(w).at = "next"
  BY TypeParts, NextTombFormed DEF Typed, SweepsTyped, Formed
<1> PICK v \in SweepType : v = sweep[w]
  BY <1>a
<1>b. ASSUME NEW u, SetSweep(w, u) PROVE sweep'[w] = u
  BY <1>a, <1>b DEF SetSweep
<1>c. sweep'[w].ref = v.ref \/ \E t \in tombs : TakesUp(w, t)
  BY SweepEffect DEF Holding
<1>d. v.at \notin {"idle", "next"} /\ ~\E t \in tombs : TakesUp(w, t)
  BY DEF Holding, TakesUp
<1>1. CASE v.ref = None
  BY <1>c, <1>d, <1>1
<1>2. CASE v.ref # None
  <2>1. v.at # "chains"
    BY <1>a, <1>2 DEF Hands
  <2>2. CASE SweepBaseline(w)
    <3> DEFINE a == [v EXCEPT !.left = {}]
               b == [v EXCEPT !.at = "recheck", !.left = {}, !.cur = v.left]
    <3>1. v.at = "check" /\ v.left # {} /\ v.cur = {}
      BY <1>a, <2>2 DEF SweepBaseline, Hands
    <3>2. a.at = v.at /\ a.ref = v.ref /\ a.left = {} /\ b.at = "recheck" /\ b.left = {} /\ b.cur = v.left
      BY DEF SweepType
    <3> HIDE DEF a, b
    <3>3. \/ SetSweep(w, a) /\ chain[v.ref] \in v.left
          \/ SetSweep(w, b)
      BY <2>2 DEF SweepBaseline, a, b
    <3>4. (sweep'[w] = a /\ chain[v.ref] \in v.left) \/ sweep'[w] = b
      BY <1>b, <3>3
    <3> QED BY <2>2, <3>1, <3>2, <3>4
  <2>3. CASE SweepRecheck(w)
    <3> DEFINE s == [v EXCEPT !.at = "bundle"]
    <3>1. s.at = "bundle" /\ s.left = v.left /\ s.cur = v.cur
      BY DEF SweepType
    <3> HIDE DEF s
    <3>2. v.at = "recheck" /\ (SetSweep(w, NextTomb(w)) \/ SetSweep(w, s))
      BY <2>3 DEF SweepRecheck, s
    <3>3. sweep'[w] = s
      BY <1>a, <1>b, <3>2 DEF Holding
    <3> QED BY <3>1, <3>2, <3>3
  <2>4. CASE SweepDelete(w)
    <3> DEFINE s == [v EXCEPT !.at = "check", !.cur = {}]
    <3>1. s.at = "check" /\ s.left = v.left /\ s.cur = {}
      BY DEF SweepType
    <3>2. v.at = "bundle" /\ v.left = {} /\ SetSweep(w, s)
      BY <1>a, <2>1, <2>4 DEF SweepDelete, Hands
    <3> QED BY <1>b, <2>4, <3>1, <3>2
  <2>5. CASE SweepDrop(w)
    BY <1>a, <1>b, <2>5 DEF SweepDrop, Holding
  <2> QED BY <1>2, <1>d, <2>1, <2>2, <2>3, <2>4, <2>5
          DEF SweepStep, SweepList, SweepRead, SweepDone, SweepRefs, SweepChain, SweepVerdict
<1> QED BY <1>1, <1>2

LEMMA SweepLeak ==
  ASSUME LeakInv, TypeInv', NEW w \in Sweepers, SweepStep(w)
  PROVE  (NumbersOK /\ SweepsOK /\ RecordsOK)'
<1> USE DEF LeakInv
<1> PICK s : s = sweep'[w]
  OBVIOUS
<1>a. /\ UNCHANGED <<chain, prep, push, mark, pushes, stranded, hazards>>
      /\ tombs' \subseteq tombs /\ store' \subseteq store
      /\ tombs' = tombs \/ SweepDrop(w)
      /\ \A v \in Sweepers : v # w => sweep'[v] = sweep[v]
      /\ \/ s.at \in {"idle", "next"}
         \/ s.ref = sweep[w].ref /\ s.id = sweep[w].id /\ sweep[w].at \in Holding
         \/ \E t \in tombs : TakesUp(w, t)
  BY SweepEffect
<1>b. TombsTyped
  BY TypeParts DEF Typed
<1>c. \A t \in tombs : t.id \in TombIds
  BY <1>b DEF TombsTyped, TombType
<1>1. NumbersOK'
  BY <1>a DEF NumbersOK, NumberOK
<1>2. ASSUME NEW t \in tombs, TakesUp(w, t) PROVE SweepOK(w)'
  <2>1. s.id = t.id /\ s.ref = t.ref /\ s.left = t.objs /\ s.cur = {} /\ t.age >= Grace
    BY <1>2 DEF TakesUp
  <2>2. t.id \in TombIds /\ NumberOK(t.id) /\ t.ref = IF t.id[1] = "base" THEN t.id[2] ELSE None
    BY <1>b, <1>c DEF NumbersOK, TombsTyped
  <2>3. \A u \in tombs' : u.id = s.id => u = t
    BY <1>a, <1>b, <2>1 DEF TombsTyped
  <2>4. s.id \in TombIds /\ NumberOK(s.id)' /\ s.ref = IF s.id[1] = "base" THEN s.id[2] ELSE None
    <3>1. pushes' = pushes /\ push' = push /\ prep' = prep
      BY <1>a
    <3> QED BY <2>1, <2>2, <3>1 DEF NumberOK
  <2> QED BY <2>1, <2>3, <2>4 DEF SweepOK
<1>3. ASSUME s.at \in Holding, s.ref = sweep[w].ref, s.id = sweep[w].id, sweep[w].at \in Holding
      PROVE  SweepOK(w)'
  <2>1. /\ s.id \in TombIds /\ NumberOK(s.id)'
        /\ s.ref = IF s.id[1] = "base" THEN s.id[2] ELSE None
    BY <1>3, <1>a DEF SweepsOK, SweepOK, NumberOK
  <2>2. ASSUME NEW t \in tombs', t.id = s.id, t.ref # None
        PROVE  t.age >= Grace /\ (s.at # "check" \/ s.left # {} => t.objs = s.left \cup s.cur)
    <3>1. t \in tombs /\ t.id = sweep[w].id
      BY <1>3, <1>a, <2>2
    <3>2. /\ t.age >= Grace
          /\ sweep[w].at # "check" \/ sweep[w].left # {} => t.objs = sweep[w].left \cup sweep[w].cur
      BY <1>3, <2>2, <3>1 DEF SweepsOK, SweepOK
    <3>3. s.ref = t.ref
      BY <1>b, <2>1, <2>2, <3>1 DEF TombsTyped
    <3> QED BY <1>3, <2>2, <3>2, <3>3, SweepHolds
  <2> QED BY <2>1, <2>2 DEF SweepOK
<1>4. SweepOK(w)'
  BY <1>a, <1>2, <1>3 DEF SweepOK, Holding
<1>5. SweepsOK'
  <2>1. ASSUME NEW v \in Sweepers, v # w PROVE SweepOK(v)'
    BY <1>a, <2>1 DEF SweepsOK, SweepOK, NumberOK
  <2> QED BY <1>4, <2>1 DEF SweepsOK
\* The record of a baseline goes with the baseline, or is not needed: it
\* names what the chain names.
<1>6. ASSUME NEW r \in Branches, NEW p \in Packs, Recorded(r, p), BundleKey(r, p) \in store', chain[r] # p
      PROVE  Recorded(r, p)'
  <2> PICK t \in tombs :
             /\ t.ref = r /\ p \in t.objs
             /\ \A v \in Sweepers : sweep[v].at = "check" /\ sweep[v].left = {} => sweep[v].id # t.id
    BY <1>6 DEF Recorded
  <2>1. t \in tombs'
    BY <1>a DEF SweepDrop
  <2>2. ASSUME s.at = "check", s.left = {}, s.id = t.id PROVE FALSE
    <3>1. t.ref # None /\ t.ref = IF t.id[1] = "base" THEN t.id[2] ELSE None
      BY <1>b, GcAssumption DEF TombsTyped
    <3>2. ASSUME NEW u \in tombs, TakesUp(w, u) PROVE FALSE
      <4>1. u = t
        BY <1>b, <2>2, <3>2 DEF TakesUp, TombsTyped
      <4> QED BY <2>2, <3>2, <4>1 DEF TakesUp
    <3>3. s.ref = sweep[w].ref /\ s.id = sweep[w].id /\ sweep[w].at \in Holding /\ s.at \in Holding
      BY <1>a, <2>2, <3>2 DEF Holding
    <3>4. sweep[w].ref = t.ref
      BY <2>2, <3>1, <3>3 DEF SweepsOK, SweepOK
    <3>5. SweepDelete(w) \/ (SweepBaseline(w) /\ chain[r] \in sweep[w].left)
      BY <2>2, <3>1, <3>3, <3>4, SweepHolds
    <3>6. sweep[w].at # "check" \/ sweep[w].left # {}
      BY <2>2, <3>3
    <3>7. t.objs = sweep[w].left \cup sweep[w].cur
      BY <2>2, <3>1, <3>3, <3>6 DEF SweepsOK, SweepOK
    <3>8. Hands(sweep[w])
      BY TypeParts DEF Typed, SweepsTyped, Formed
    <3>9. CASE SweepBaseline(w) /\ chain[r] \in sweep[w].left
      <4>1. \A q \in t.objs : q = p
        BY <1>b, <3>1 DEF TombsTyped, OneBaseline
      <4> QED BY <1>6, <3>7, <3>9, <4>1
    <3>10. CASE SweepDelete(w)
      <4>1. sweep[w].at = "bundle" /\ sweep[w].left = {}
        BY <3>1, <3>4, <3>8, <3>10 DEF SweepDelete, Hands
      <4>2. p \in sweep[w].cur
        BY <3>7, <4>1
      <4>3. BundleKey(r, p) \notin store'
        BY <3>1, <3>4, <3>10, <4>2 DEF SweepDelete
      <4> QED BY <1>6, <4>3
    <3> QED BY <3>5, <3>9, <3>10
  <2>3. \A v \in Sweepers : sweep'[v].at = "check" /\ sweep'[v].left = {} => sweep'[v].id # t.id
    BY <1>a, <2>2
  <2> QED BY <2>1, <2>3 DEF Recorded
<1>7. ASSUME NEW r \in Branches, NEW p \in Packs PROVE Kept(r, p)'
  <2>1. Kept(r, p)
    BY DEF RecordsOK
  <2>2. BundleKey(r, p) \in store' => BundleKey(r, p) \in store
    BY <1>a
  <2> QED BY <1>6, <1>a, <2>1, <2>2 DEF Kept, Waiting
<1>8. ASSUME NEW r \in Branches PROVE Deferred(r)'
  <2>1. \A t \in tombs : t.ref = r /\ t.age = 0 => t \in tombs'
    <3>1. \A t \in tombs : t.ref = r /\ t.age = 0 /\ SweepDrop(w) => sweep[w].id # t.id
      BY GcAssumption DEF SweepsOK, SweepOK, Holding, SweepDrop
    <3> QED BY <1>a, <3>1 DEF SweepDrop
  <2>2. Deferred(r)
    BY DEF RecordsOK
  <2> QED BY <1>a, <2>1, <2>2 DEF Deferred, Waiting
<1> QED BY <1>1, <1>5, <1>7, <1>8 DEF RecordsOK

LEMMA MarkLeak ==
  ASSUME LeakInv, MarkStep
  PROVE  (NumbersOK /\ SweepsOK /\ RecordsOK)'
<1> USE DEF LeakInv
<1>1. UNCHANGED <<chain, store, prep, push, sweep, pushes, stranded>>
  BY DEF MarkStep, MarkPacks, MarkRefs, MarkChain, MarkStamp, MarkPut
<1>2. tombs \subseteq tombs' /\ \A t \in tombs' : t \in tombs \/ (t.ref = None /\ t.id[1] = "packs")
  <2>1. CASE MarkPut
    <3> PICK n \in FreeIds :
          tombs' = tombs \cup {[id |-> <<"packs", n>>, ref |-> None, objs |-> mark.seen, age |-> mark.age]}
      BY <2>1 DEF MarkPut
    <3> PICK new : new = [id |-> <<"packs", n>>, ref |-> None, objs |-> mark.seen, age |-> mark.age]
      OBVIOUS
    <3>1. new.ref = None /\ new.id[1] = "packs"
      OBVIOUS
    <3> QED BY <3>1
  <2>2. CASE tombs' = tombs
    BY <2>2
  <2> QED BY <2>1, <2>2 DEF MarkStep, MarkPacks, MarkRefs, MarkChain, MarkStamp
<1>3. NumbersOK'
  BY <1>1, <1>2 DEF NumbersOK, NumberOK
<1>4. SweepsOK'
  BY <1>1, <1>2 DEF SweepsOK, SweepOK, NumberOK
<1>5. ASSUME NEW r \in Branches, NEW p \in Packs, Recorded(r, p) PROVE Recorded(r, p)'
  BY <1>1, <1>2, <1>5 DEF Recorded
<1>6. ASSUME NEW r \in Branches PROVE Deferred(r)' /\ \A p \in Packs : Kept(r, p)'
  BY <1>1, <1>2, <1>5 DEF RecordsOK, Deferred, Kept, Waiting
<1> QED BY <1>3, <1>4, <1>6 DEF RecordsOK

LEMMA GcFailsLeak ==
  ASSUME LeakInv, GcFails
  PROVE  (NumbersOK /\ SweepsOK /\ RecordsOK)'
<1> USE DEF LeakInv
<1>2. UNCHANGED <<chain, prep, push, pushes, stranded, store, tombs>>
  BY DEF GcFails, SetSweep
<1>3. ASSUME NEW w \in Sweepers PROVE sweep'[w] = sweep[w] \/ sweep'[w].at \in {"idle", "next"}
  <2>1. CASE sweep' = sweep
    BY <2>1
  <2>2. CASE \E v \in Sweepers : SetSweep(v, NextTomb(v)) \/ SetSweep(v, NoSweep)
    <3> PICK v \in Sweepers : SetSweep(v, NextTomb(v)) \/ SetSweep(v, NoSweep)
      BY <2>2
    <3>1. \A u \in Sweepers : u # v => sweep'[u] = sweep[u]
      BY SweepEffect
    <3>2. NextTomb(v).at = "next" /\ NoSweep.at = "idle" /\ sweep \in [Sweepers -> SweepType]
      BY TypeParts, NextTombFormed, NoSweepFormed DEF Typed, SweepsTyped
    <3>3. sweep'[v] = NextTomb(v) \/ sweep'[v] = NoSweep
      BY <3>2 DEF SetSweep
    <3> QED BY <3>1, <3>2, <3>3
  <2> QED BY <2>1, <2>2 DEF GcFails
<1>4. NumbersOK'
  BY <1>2 DEF NumbersOK, NumberOK
<1>5. SweepsOK'
  BY <1>2, <1>3 DEF SweepsOK, SweepOK, NumberOK, Holding
<1>6. \A r \in Branches, p \in Packs : Recorded(r, p) => Recorded(r, p)'
  BY <1>2, <1>3 DEF Recorded
<1>7. ASSUME NEW r \in Branches PROVE Deferred(r)' /\ \A p \in Packs : Kept(r, p)'
  BY <1>2, <1>6 DEF RecordsOK, Deferred, Kept, Waiting
<1> QED BY <1>4, <1>5, <1>7 DEF RecordsOK

LEMMA TickLeak ==
  ASSUME LeakInv, Tick
  PROVE  (NumbersOK /\ SweepsOK /\ RecordsOK)'
<1> USE DEF LeakInv
<1>1. UNCHANGED <<chain, store, prep, push, sweep, pushes, stranded>> /\ \A r \in Branches : push[r].at = "idle"
  BY DEF Tick
<1>2. \A t \in tombs : t.age \in 0..Grace /\ (t.age >= Grace => Older(t.age) >= Grace)
  BY TypeParts, GcAssumption DEF Typed, TombsTyped, TombType, Older
<1>3. NumbersOK'
  BY <1>1, OlderTombs DEF NumbersOK, NumberOK
<1>4. SweepsOK'
  BY <1>1, <1>2, OlderTombs DEF SweepsOK, SweepOK, NumberOK
<1>5. ASSUME NEW r \in Branches, NEW p \in Packs, Recorded(r, p) PROVE Recorded(r, p)'
  <2> PICK t \in tombs :
             /\ t.ref = r /\ p \in t.objs
             /\ \A w \in Sweepers : sweep[w].at = "check" /\ sweep[w].left = {} => sweep[w].id # t.id
    BY <1>5 DEF Recorded
  <2> PICK u \in tombs' : u.id = t.id /\ u.ref = t.ref /\ u.objs = t.objs
    BY OlderTombs
  <2>1. sweep' = sweep
    BY <1>1
  <2> QED BY <2>1 DEF Recorded
<1>6. ASSUME NEW r \in Branches PROVE Deferred(r)' /\ \A p \in Packs : Kept(r, p)'
  BY <1>1, <1>5 DEF RecordsOK, Deferred, Kept, Waiting
<1> QED BY <1>3, <1>4, <1>6 DEF RecordsOK

LEMMA LeakStep ==
  ASSUME LeakInv, [RemoteNext]_vars
  PROVE  LeakInv'
<1>a. TypeInv /\ TypeInv'
  BY NextTyped DEF LeakInv
<1> SUFFICES (NumbersOK /\ SweepsOK /\ RecordsOK)'
  BY <1>a DEF LeakInv
<1>1. CASE UNCHANGED vars
  <2>1. NumbersOK'
    BY <1>1 DEF vars, LeakInv, NumbersOK, NumberOK
  <2>2. SweepsOK'
    BY <1>1 DEF vars, LeakInv, SweepsOK, SweepOK, NumberOK
  <2>3. RecordsOK'
    BY <1>1 DEF vars, LeakInv, RecordsOK, Deferred, Kept, Recorded, Waiting
  <2> QED BY <2>1, <2>2, <2>3
<1>2. CASE \E r \in Branches : PushMove(r)
  BY <1>2, PushLeak
<1>7. CASE \E n \in Pushes : PrepMove(n)
  BY <1>7, PrepLeak
<1>3. CASE MarkStep
  BY <1>3, MarkLeak
<1>4. CASE \E w \in Sweepers : SweepStep(w)
  BY <1>a, <1>4, SweepLeak
<1>5. CASE GcFails
  BY <1>5, GcFailsLeak
<1>6. CASE Tick
  BY <1>6, TickLeak
<1> QED BY <1>1, <1>2, <1>3, <1>4, <1>5, <1>6, <1>7 DEF RemoteNext, Next, PushMove, PrepMove

\* A baseline that no chain names keeps its tombstone until it is gone,
\* unless the client that knew of it left it behind (refused or dead after
\* its upload, a tombstone that could not be written, a chain it had not
\* read): with any number of pushes prepared at once, deletes, faults and
\* sweeps, nothing else drops the last record of it.
THEOREM LeakCorrect == Spec => []NoBaselineLeak
<1>1. Init => LeakInv
  BY InitTyped, InitLeak DEF LeakInv
<1>2. LeakInv /\ [Next]_vars => LeakInv'
  BY LeakStep DEF RemoteNext
<1>3. LeakInv => NoBaselineLeak
  BY DEF LeakInv, TypeInv, NoBaselineLeak, RecordsOK, Kept, Recorded, Waiting, Prepared
<1> QED BY <1>1, <1>2, <1>3, PTL DEF Spec

-----------------------------------------------------------------------------

-----------------------------------------------------------------------------
(* Compact among the pushes and the sweeps.                                *)

RunType ==
  [at : {"idle", "audit", "next", "lock", "work", "ended"},
   seen : SUBSET Packs, refs : SUBSET Branches, orphans : SUBSET Packs,
   dangling : SUBSET Branches, moved : SUBSET Branches, todo : SUBSET Branches,
   cur : Branches \cup {None}, res : {"none", "ok", "cancelled", "failed"}]

\* A chain that nobody wrote since the listing is one that the listing showed:
\* it was complete then, and its row of the audit is made or still to come.
Unmoved(r) ==
  chain[r] # None /\ r \notin run.moved =>
    /\ Sound(None) => chain[r] \in run.seen
    /\ faults = 0 => r \in run.refs \/ chain[r] \notin run.orphans

RunOK ==
  /\ run \in RunType
  /\ run.at = "audit" => \A r \in Branches : Unmoved(r)
  /\ Sound(None) => run.dangling \subseteq run.moved
  /\ run.res = "failed" => faults > 0
  /\ run.at \in {"lock", "work"} => run.cur \in Branches

MaintainInv == ResolvableInv /\ RunOK

-----------------------------------------------------------------------------
(* The invariants of Gc.                                                   *)

\* The state of Gc but for its count of faults.
Remote == <<chain, store, tombs, prep, push, mark, sweep, pushes, stranded, hazards>>

\* The steps of a run of compact that are its own.
RunStep ==
  \/ CompactList \/ (\E r \in Branches : CompactOne(r)) \/ AuditChain \/ CompactConfirm
  \/ CompactLoad \/ CompactLock \/ CompactDone \/ CompactFails

\* A compaction begins: the operation on the ref is at its pack.
Takes(r) ==
  /\ r \in Branches /\ push[r].at = "idle" /\ chain[r] # None /\ pushes < MaxPushes
  /\ pushes' = pushes + 1
  /\ push' = [push EXCEPT ![r] = [at |-> "pack", n |-> pushes', sha |-> Compacted[chain[r]],
                                  prior |-> chain[r], todo |-> {}]]
  /\ UNCHANGED <<chain, store, tombs, prep, mark, sweep, faults, stranded, hazards>>

\* What the steps of a run may do to the state of Gc.
LEMMA RunEffect ==
  ASSUME RunOK, RunStep
  PROVE  \/ UNCHANGED Remote /\ (UNCHANGED faults \/ Fault)
         \/ CompactLock /\ Takes(run.cur)
<1>1. CASE CompactList
  BY <1>1 DEF CompactList, SetRun, Remote
<1>2. CASE \E r \in Branches : CompactOne(r)
  BY <1>2 DEF CompactOne, SetRun, Remote
<1>3. CASE AuditChain
  BY <1>3 DEF AuditChain, SetRun, Remote
<1>4. CASE CompactConfirm
  BY <1>4 DEF CompactConfirm, SetRun, Remote
<1>5. CASE CompactLoad
  BY <1>5 DEF CompactLoad, SetRun, Remote
<1>6. CASE CompactLock
  BY <1>6 DEF CompactLock, SetRun, Remote, Takes, RunOK
<1>7. CASE CompactDone
  BY <1>7 DEF CompactDone, SetRun, Remote
<1>8. CASE CompactFails
  BY <1>8 DEF CompactFails, SetRun, Remote
<1> QED BY <1>1, <1>2, <1>3, <1>4, <1>5, <1>6, <1>7, <1>8 DEF RunStep

LEMMA TakesKeeps ==
  ASSUME ResolvableInv, NEW r, Takes(r)
  PROVE  ResolvableInv'
<1>a. /\ TypeInv /\ ClientsTyped /\ TombsTyped /\ StoreTyped
      /\ chain \in [Branches -> Packs \cup {None}] /\ push \in [Branches -> PushType]
      /\ stranded \subseteq Branches \X Packs /\ hazards \subseteq {"reused", "purged", "torn"}
  BY TypeParts DEF ResolvableInv, Typed, ClientsTyped
<1> DEFINE s == [at |-> "pack", n |-> pushes', sha |-> Compacted[chain[r]], prior |-> chain[r], todo |-> {}]
<1>b. r \in Branches /\ chain[r] \in Packs /\ Compacted[chain[r]] \in Packs
  BY <1>a, CompactedAssumption DEF Takes
<1>1. Counts /\ pushes' \in 0..MaxPushes /\ pushes' \in 1..pushes'
  <2>1. Counts
    BY DEF Takes, Counts
  <2> QED BY <1>a, <2>1, CountsUp DEF Takes, Pushes
<1>2. s \in PushType /\ s.at = "pack" /\ s.n = pushes' /\ s.sha \in Packs /\ s # NoPush
  BY <1>b, <1>1, NoneFormed DEF PushType
<1>3. push' = [push EXCEPT ![r] = s] /\ UNCHANGED <<chain, store, tombs, prep, mark, sweep, faults, stranded, hazards>>
  BY DEF Takes
<1> HIDE DEF s
<1>4. PushFormed(s, chain[r], pushes') /\ chain' = [chain EXCEPT ![r] = chain[r]]
  BY <1>a, <1>b, <1>1, <1>2, <1>3 DEF PushFormed, PushAt
<1>5. PushChange
  BY <1>b, <1>2, <1>3, <1>4, Zenon DEF PushChange
<1>6. TypeInv'
  <2>1. StoreTyped' /\ TombsTyped'
    BY <1>a, <1>3 DEF StoreTyped, TombsTyped, OneBaseline
  <2>2. PrepChange
    BY <1>3 DEF PrepChange
  <2> QED BY <1>a, <1>1, <1>3, <1>5, <2>1, <2>2, ClientTyped
<1>7. push'[r].at = "pack" /\ (\A q \in Branches : q # r => push'[q] = push[q]) /\ push[r].at = "idle"
  BY <1>a, <1>b, <1>2, <1>3 DEF Takes
<1>8. Effect
  <2>1. \A ref \in Branches \cup {None}, p \in Packs : Stays(ref, p) /\ (Needed(ref, p)' => Needed(ref, p))
    BY <1>3, <1>7 DEF Stays, Needed, Waiting
  <2>2. \A q \in Branches : Moves(q) /\ Untorn(q)
    BY <1>3, <1>7 DEF Moves, Untorn
  <2> QED BY <1>3, <2>1, <2>2 DEF Effect
<1>9. Resolvable'
  BY <1>a, <1>8, ClientResolvable DEF ResolvableInv, Resolvable
<1> QED BY <1>3, <1>6, <1>9 DEF ResolvableInv, Resolvable, MarkFresh

LEMMA RemoteKept ==
  ASSUME ResolvableInv, UNCHANGED Remote, UNCHANGED faults \/ Fault
  PROVE  ResolvableInv'
<1>1. faults' \in 0..MaxFaults
  BY TypeParts, GcAssumption DEF ResolvableInv, Typed, Fault
<1>2. TypeInv /\ Typed
  BY TypeParts DEF ResolvableInv
<1>3. Typed'
  BY <1>1, <1>2, Zenon DEF Remote, Typed, StoreTyped, TombsTyped, ClientsTyped, SweepsTyped, OneBaseline
<1>4. TypeInv'
  BY <1>3, TypeParts
<1>5. Resolvable => Resolvable'
  BY DEF Remote, Resolvable, UploadsOK, UploadOK, Needed, Waiting, Held, VerdictOK, Verdict, ChainStored, Sound
<1> QED BY <1>4, <1>5 DEF Remote, ResolvableInv, MarkFresh

LEMMA MaintainResolvable ==
  ASSUME ResolvableInv, RunOK, [MaintainNext]_allVars
  PROVE  ResolvableInv'
<1>1. CASE RunStep
  BY <1>1, RunEffect, TakesKeeps, RemoteKept
<1>2. CASE RemoteNext \/ UNCHANGED vars
  BY <1>2, ResolvableStep
<1>3. RunStep \/ RemoteNext \/ UNCHANGED vars
  BY DEF MaintainNext, allVars, Operation, Dies, RemoteNext, Next, RunStep, CompactStep
<1> QED BY <1>1, <1>2, <1>3

-----------------------------------------------------------------------------
(* The run of compact.                                                     *)

LEMMA NoRunTyped == NoRun \in RunType
  BY DEF NoRun, RunType

\* A run that is not at its audit has nothing to account for.
Quiet(s) ==
  /\ s \in RunType /\ s.at # "audit" /\ s.dangling = {}
  /\ s.at \in {"lock", "work"} => s.cur \in Branches

LEMMA Quiets ==
  /\ Quiet(NoRun)
  /\ \A x \in {"ok", "cancelled", "failed"} : Quiet(RunEnds(x)) /\ RunEnds(x).res = x
  /\ RunOK => \A r : Quiet(Outcome(r)) /\ Outcome(r).res = "none"
<1> PICK n \in RunType : n = NoRun
  BY NoRunTyped
<1>a. n.at = "idle" /\ n.dangling = {} /\ n.res = "none"
  BY DEF NoRun
<1>1. Quiet(NoRun)
  BY <1>a DEF Quiet
<1>2. ASSUME NEW x \in {"ok", "cancelled", "failed"} PROVE Quiet(RunEnds(x)) /\ RunEnds(x).res = x
  <2>1. RunEnds(x) = [n EXCEPT !.at = "ended", !.res = x]
    BY DEF RunEnds
  <2> QED BY <2>1, <1>a, <1>2 DEF RunType, Quiet
<1>3. ASSUME RunOK, NEW r PROVE Quiet(Outcome(r)) /\ Outcome(r).res = "none"
  <2>1. Outcome(r) = [n EXCEPT !.at = "next", !.todo = run.todo \ {r}]
    BY DEF Outcome
  <2>2. run.todo \ {r} \in SUBSET Branches
    BY <1>3 DEF RunOK, RunType
  <2> QED BY <2>1, <2>2, <1>a DEF RunType, Quiet
<1> QED BY <1>1, <1>2, <1>3

\* A run that stays, or becomes, quiet.
LEMMA QuietKeeps ==
  ASSUME Quiet(run'), run'.res = "failed" => faults' > 0
  PROVE  RunOK'
  BY DEF Quiet, RunOK

\* A step that leaves the run alone, and the chains.
LEMMA RunKept ==
  ASSUME TypeInv, RunOK, run' = run, chain' = chain, hazards \subseteq hazards',
         UNCHANGED faults \/ Fault
  PROVE  RunOK'
<1>1. faults \in 0..MaxFaults /\ MaxFaults \in Nat
  BY TypeParts, GcAssumption DEF Typed
<1>2. (faults' = 0 => faults = 0) /\ (faults > 0 => faults' > 0)
  BY <1>1 DEF Fault
<1> QED BY <1>2 DEF RunOK, Unmoved, Sound

\* The operation on a ref goes a step further, or dies.
LEMMA OperationRun ==
  ASSUME TypeInv, RunOK, NEW r \in Branches, Operation(r) \/ Dies(r)
  PROVE  RunOK'
<1>a. faults \in 0..MaxFaults /\ MaxFaults \in Nat /\ chain \in [Branches -> Packs \cup {None}]
  BY TypeParts, GcAssumption DEF Typed, ClientsTyped
<1>b. /\ hazards \subseteq hazards'
      /\ \A q \in Branches : q # r => chain'[q] = chain[q]
  <2>1. PushMove(r)
    BY DEF Operation, Dies, PushMove
  <2>2. \A q \in Branches : q # r => chain'[q] = chain[q]
    BY <1>a, <2>1 DEF PushMove, PushStart, DeleteStart, ClientStep, CompactUpload, Commit, TombstonePrior, DeleteDefer,
      DeleteBundle, DeleteChain, PushDies
  <2> QED BY <2>1, <2>2, PushEffect DEF Effect
<1>c. (faults' = 0 => faults = 0) /\ (faults > 0 => faults' > 0)
  <2>1. UNCHANGED faults \/ Fault
    BY DEF Operation, Dies, PushDies, ClientStep, CompactUpload, Commit, TombstonePrior, DeleteDefer, DeleteBundle,
      DeleteChain
  <2> QED BY <2>1, <1>a DEF Fault
<1>1. CASE run' = run /\ (run.at = "audit" => chain'[r] = chain[r])
  <2>1. ASSUME run.at = "audit", NEW q \in Branches PROVE Unmoved(q)'
    <3>1. chain'[q] = chain[q] /\ Unmoved(q)
      BY <1>b, <1>1, <2>1 DEF RunOK
    <3> QED BY <3>1, <1>1, <1>b, <1>c DEF Unmoved, Sound
  <2> QED BY <2>1, <1>1, <1>b, <1>c DEF RunOK, Sound
<1>2. CASE Quiet(run') /\ (run'.res = "failed" => faults' > 0)
  BY <1>2, QuietKeeps
<1>3. CASE run' = [run EXCEPT !.moved = @ \cup {r}]
  <2> PICK s \in RunType : s = run
    BY DEF RunOK
  <2>1. /\ run' \in RunType /\ run'.moved = s.moved \cup {r} /\ run'.at = s.at /\ run'.seen = s.seen
        /\ run'.refs = s.refs /\ run'.orphans = s.orphans /\ run'.dangling = s.dangling
        /\ run'.res = s.res /\ run'.cur = s.cur
    BY <1>3 DEF RunType
  <2>2. ASSUME s.at = "audit", NEW q \in Branches PROVE Unmoved(q)'
    <3>1. Unmoved(q)
      BY <2>2 DEF RunOK
    <3>2. q # r => Unmoved(q)'
      BY <3>1, <2>1, <1>b, <1>c DEF Unmoved, Sound
    <3>3. q = r => Unmoved(q)'
      BY <2>1 DEF Unmoved
    <3> QED BY <3>2, <3>3
  <2> QED BY <2>1, <2>2, <1>b, <1>c DEF RunOK, Sound
<1>4. CASE Dies(r)
  <2>1. faults' > 0 /\ chain' = chain
    BY <1>4, <1>a DEF Dies, PushDies, Fault
  <2>2. run' = run \/ run' = RunEnds("failed")
    BY <1>4 DEF Dies
  <2> QED BY <2>1, <2>2, <1>1, <1>2, Quiets
<1>5. CASE Operation(r)
  <2>1. run' = Follow(r)
    BY <1>5 DEF Operation
  <2>2. \/ run' = Outcome(r)
        \/ run' = [run EXCEPT !.moved = @ \cup {r}]
        \/ run' = run /\ (run.at = "audit" => chain'[r] = chain[r])
    BY <2>1 DEF Follow
  <2> QED BY <2>2, <1>1, <1>2, <1>3, Quiets
<1> QED BY <1>4, <1>5

\* The audit: its listing, and the row of one chain.
LEMMA AuditRun ==
  ASSUME ResolvableInv, RunOK, CompactList \/ AuditChain
  PROVE  RunOK'
<1>a. /\ faults \in 0..MaxFaults /\ MaxFaults \in Nat
      /\ chain \in [Branches -> Packs \cup {None}] /\ None \notin Packs
  BY TypeParts, GcAssumption DEF ResolvableInv, Typed, ClientsTyped
<1>b. UNCHANGED chain /\ UNCHANGED hazards
  BY DEF CompactList, AuditChain, SetRun
<1>c. (faults' = 0 => faults = 0) /\ (faults > 0 => faults' > 0)
  <2>1. UNCHANGED faults \/ Fault
    BY DEF CompactList, AuditChain
  <2> QED BY <2>1, <1>a DEF Fault
<1> PICK s \in RunType : s = run
  BY DEF RunOK
<1>d. /\ s.at = "audit" => \A r \in Branches : Unmoved(r)
      /\ Sound(None) => s.dangling \subseteq s.moved
      /\ s.res = "failed" => faults > 0
  BY DEF RunOK
<1>1. CASE CompactList
  <2>1. run' = [s EXCEPT !.at = "audit", !.seen = list_pack_shas, !.refs = Chains, !.orphans = list_pack_shas]
    BY <1>1 DEF CompactList, SetRun
  <2>2. list_pack_shas \in SUBSET Packs /\ Chains \in SUBSET Branches
    BY DEF list_pack_shas, Chains
  <2>3. /\ run' \in RunType /\ run'.at = "audit" /\ run'.seen = list_pack_shas /\ run'.refs = Chains
        /\ run'.dangling = s.dangling /\ run'.moved = s.moved /\ run'.res = s.res
    BY <2>1, <2>2 DEF RunType
  <2>4. ASSUME NEW r \in Branches PROVE Unmoved(r)'
    <3>1. Sound(None) /\ chain[r] # None => chain[r] \in list_pack_shas
      BY <1>a DEF ResolvableInv, Resolvable, ChainStored, list_pack_shas
    <3>2. chain[r] # None => r \in Chains
      BY DEF Chains
    <3> QED BY <3>1, <3>2, <2>3, <1>b DEF Unmoved, Sound
  <2> QED BY <2>3, <2>4, <1>b, <1>c, <1>d DEF RunOK, Sound
<1>2. CASE AuditChain
  <2> PICK r \in run.refs :
         LET rest == [run EXCEPT !.refs = @ \ {r}] IN
         \/ /\ chain[r] = None /\ SetRun(rest) /\ UNCHANGED faults
         \/ /\ Fault /\ SetRun(rest)
         \/ /\ chain[r] # None
            /\ SetRun([rest EXCEPT
                 !.todo = IF recommend_compact(chain[r]) THEN @ \cup {r} ELSE @,
                 !.orphans = @ \ {chain[r]},
                 !.dangling = IF pack_present(chain[r]) THEN @ ELSE @ \cup {r}])
            /\ UNCHANGED faults
    BY <1>2 DEF AuditChain
  <2>a. r \in Branches /\ s.at = "audit" /\ Unmoved(r)
    BY <1>2, <1>d DEF AuditChain, RunType
  <2> DEFINE rest == [s EXCEPT !.refs = @ \ {r}]
  <2>b. /\ rest \in RunType /\ rest.refs = s.refs \ {r} /\ rest.at = s.at /\ rest.seen = s.seen
        /\ rest.orphans = s.orphans /\ rest.dangling = s.dangling /\ rest.moved = s.moved
        /\ rest.res = s.res /\ rest.todo = s.todo /\ rest.cur = s.cur
    BY DEF RunType
  <2>1. CASE run' = rest /\ (chain[r] = None \/ faults' > 0)
    <3>1. ASSUME NEW q \in Branches PROVE Unmoved(q)'
      BY <2>1, <2>a, <2>b, <1>b, <1>c, <1>d DEF Unmoved, Sound
    <3> QED BY <3>1, <2>1, <2>a, <2>b, <1>b, <1>c, <1>d DEF RunOK, Sound
  <2>2. CASE /\ chain[r] # None /\ UNCHANGED faults
             /\ run' = [rest EXCEPT
                  !.todo = IF recommend_compact(chain[r]) THEN @ \cup {r} ELSE @,
                  !.orphans = @ \ {chain[r]},
                  !.dangling = IF pack_present(chain[r]) THEN @ ELSE @ \cup {r}]
    <3> DEFINE d == IF pack_present(chain[r]) THEN s.dangling ELSE s.dangling \cup {r}
    <3> DEFINE t == IF recommend_compact(chain[r]) THEN s.todo \cup {r} ELSE s.todo
    <3>0. t \in SUBSET Branches /\ d \in SUBSET Branches
      BY <2>a DEF RunType
    <3> HIDE DEF rest
    <3>1. run' = [rest EXCEPT !.todo = t, !.orphans = s.orphans \ {chain[r]}, !.dangling = d]
      BY <2>2, <2>b
    <3> HIDE DEF t, d
    <3>2. /\ run' \in RunType /\ run'.refs = s.refs \ {r} /\ run'.at = s.at /\ run'.seen = s.seen
          /\ run'.orphans = s.orphans \ {chain[r]} /\ run'.dangling = d /\ run'.moved = s.moved
          /\ run'.res = s.res /\ run'.cur = s.cur
      BY <2>b, <3>0, <3>1 DEF RunType
    <3>3. ASSUME NEW q \in Branches PROVE Unmoved(q)'
      <4>1. Unmoved(q)
        BY <2>a, <1>d
      <4> QED BY <4>1, <3>2, <1>b, <1>c DEF Unmoved, Sound
    <3>4. Sound(None) => d \subseteq s.moved
      BY <2>a, <2>2, <1>d DEF d, Unmoved, pack_present
    <3> QED BY <3>2, <3>3, <3>4, <2>a, <1>b, <1>c, <1>d DEF RunOK, Sound
  <2>3. CASE Fault
    BY <2>1, <2>3, <1>a DEF SetRun, Fault
  <2> QED BY <2>1, <2>2, <2>3 DEF SetRun
<1> QED BY <1>1, <1>2

\* The other steps of a run leave it quiet.
LEMMA CompactRun ==
  ASSUME TypeInv, RunOK, RunStep, ~CompactList, ~AuditChain
  PROVE  RunOK'
<1>a. faults \in 0..MaxFaults /\ MaxFaults \in Nat
  BY TypeParts, GcAssumption DEF Typed
<1> PICK s \in RunType : s = run
  BY DEF RunOK
<1>b. s.at \in {"lock", "work"} => s.cur \in Branches
  BY DEF RunOK
<1>c. ASSUME NEW x \in {"ok", "cancelled"}, run' = RunEnds(x) PROVE RunOK'
  BY <1>c, Quiets, QuietKeeps
<1>d. ASSUME NEW r, run' = Outcome(r) PROVE RunOK'
  BY <1>d, Quiets, QuietKeeps
<1> PICK n \in RunType : n = NoRun
  BY NoRunTyped
<1>e. n.at = "idle" /\ n.dangling = {} /\ n.res = "none"
  BY DEF NoRun
<1>1. CASE \E r \in Branches : CompactOne(r)
  <2> PICK r \in Branches : CompactOne(r)
    BY <1>1
  <2>1. run' = [s EXCEPT !.at = "next", !.todo = {r}] /\ UNCHANGED <<chain, hazards, faults>>
    BY DEF CompactOne, SetRun
  <2>2. /\ run' \in RunType /\ run'.at = "next" /\ run'.dangling = s.dangling
        /\ run'.moved = s.moved /\ run'.res = s.res
    BY <2>1 DEF RunType
  <2> QED BY <2>1, <2>2 DEF RunOK, Sound
<1>2. CASE CompactConfirm
  <2>1. CASE run' = [n EXCEPT !.at = "next", !.todo = s.todo]
    <3>1. Quiet(run') /\ run'.res = "none"
      BY <2>1, <1>e DEF RunType, Quiet
    <3> QED BY <3>1, QuietKeeps
  <2> QED BY <1>2, <1>c, <2>1 DEF CompactConfirm, SetRun
<1>3. CASE CompactLoad
  <2>1. ASSUME NEW r \in s.todo, run' = [s EXCEPT !.at = "lock", !.cur = r], UNCHANGED <<chain, hazards, faults>>
        PROVE  RunOK'
    <3>1. r \in Branches
      BY DEF RunType
    <3>2. /\ run' \in RunType /\ run'.at = "lock" /\ run'.dangling = s.dangling
          /\ run'.moved = s.moved /\ run'.res = s.res /\ run'.cur = r
      BY <2>1, <3>1 DEF RunType
    <3> QED BY <2>1, <3>1, <3>2 DEF RunOK, Sound
  <2> QED BY <1>3, <1>d, <2>1 DEF CompactLoad, SetRun, Vanished
<1>4. CASE CompactLock
  <2>1. CASE run' = [s EXCEPT !.at = "work"] /\ UNCHANGED <<chain, hazards, faults>>
    <3>1. s.cur \in Branches
      BY <1>4, <1>b DEF CompactLock
    <3>2. /\ run' \in RunType /\ run'.at = "work" /\ run'.dangling = s.dangling
          /\ run'.moved = s.moved /\ run'.res = s.res /\ run'.cur = s.cur
      BY <2>1 DEF RunType
    <3> QED BY <2>1, <3>1, <3>2 DEF RunOK, Sound
  <2> QED BY <1>4, <1>d, <2>1 DEF CompactLock, SetRun, Vanished
<1>5. CASE CompactDone
  BY <1>5, <1>c DEF CompactDone, SetRun
<1>6. CASE CompactFails
  <2>1. faults' > 0
    BY <1>6, <1>a DEF CompactFails, Fault
  <2>2. Quiet(run')
    BY <1>6, Quiets DEF CompactFails, SetRun
  <2> QED BY <2>1, <2>2, QuietKeeps
<1> QED BY <1>1, <1>2, <1>3, <1>4, <1>5, <1>6 DEF RunStep

LEMMA RunOKStep ==
  ASSUME ResolvableInv, RunOK, [MaintainNext]_allVars
  PROVE  RunOK'
<1>a. TypeInv
  BY DEF ResolvableInv
<1>1. CASE CompactList \/ AuditChain
  BY <1>1, AuditRun
<1>2. CASE RunStep /\ ~CompactList /\ ~AuditChain
  BY <1>2, <1>a, CompactRun
<1>3. CASE \E r \in Branches : Operation(r) \/ Dies(r)
  BY <1>3, <1>a, OperationRun
<1>4. CASE UNCHANGED run /\ \E r \in Branches : PushStart(r) \/ DeleteStart(r)
  BY <1>4, <1>a, RunKept DEF PushStart, DeleteStart
<1>9. CASE UNCHANGED run /\ \E n \in Pushes : PrepMove(n)
  <2> PICK n \in Pushes : PrepMove(n)
    BY <1>9
  <2>1. hazards \subseteq hazards'
    BY <1>a, PrepEffect DEF Effect
  <2>2. chain' = chain /\ (UNCHANGED faults \/ Fault)
    BY DEF PrepMove, PrepStep, PrepUpload, PushLock, PushRefused, PrepDies
  <2> QED BY <1>9, <1>a, <2>1, <2>2, RunKept
<1>5. CASE UNCHANGED run /\ MarkStep
  <2>1. chain' = chain /\ hazards' = hazards /\ faults' = faults
    BY <1>5 DEF MarkStep, MarkPacks, MarkRefs, MarkChain, MarkStamp, MarkPut
  <2> QED BY <1>5, <1>a, <2>1, RunKept
<1>6. CASE UNCHANGED run /\ \E w \in Sweepers : SweepStep(w)
  <2>1. chain' = chain /\ hazards' = hazards /\ faults' = faults
    BY <1>6 DEF SweepStep, SetSweep, SweepList, SweepRead, SweepDone, SweepRefs, SweepChain, SweepVerdict,
      SweepBaseline, SweepRecheck, SweepDelete, SweepDrop
  <2> QED BY <1>6, <1>a, <2>1, RunKept
<1>7. CASE UNCHANGED run /\ (GcFails \/ Tick)
  BY <1>7, <1>a, RunKept DEF GcFails, Tick, SetSweep
<1>8. CASE UNCHANGED allVars
  BY <1>8, <1>a, RunKept DEF allVars, vars
<1> QED BY <1>1, <1>2, <1>3, <1>4, <1>5, <1>6, <1>7, <1>8, <1>9 DEF MaintainNext, CompactStep, RunStep, PrepMove

LEMMA MaintainInvariant == MaintainSpec => []MaintainInv
<1>1. MaintainInit => MaintainInv
  <2> SUFFICES ASSUME MaintainInit PROVE MaintainInv
    OBVIOUS
  <2>1. ResolvableInv
    BY InitTyped, InitResolvable DEF MaintainInit, ResolvableInv, Resolvable
  <2>2. run = NoRun
    BY DEF MaintainInit
  <2>3. RunOK
    BY <2>2, NoRunTyped DEF RunOK, NoRun
  <2> QED BY <2>1, <2>3 DEF MaintainInv
<1>2. MaintainInv /\ [MaintainNext]_allVars => MaintainInv'
  BY MaintainResolvable, RunOKStep DEF MaintainInv
<1> QED BY <1>1, <1>2, PTL DEF MaintainSpec

\* Compactions, started on whatever chain they find under the lock, among
\* pushes, deletes and gc: no chain.json names an object that gc removed.
THEOREM CompactResolvable == MaintainSpec => []AllChainsResolvable
<1>1. MaintainInv => AllChainsResolvable
  BY GcAssumption DEF MaintainInv, ResolvableInv, Resolvable, AllChainsResolvable, ChainStored, Chains, Sound
<1> QED BY <1>1, MaintainInvariant, PTL

\* A run of compact that meets no fault never fails, whatever others do to its
\* refs; and what its audit calls dangling, or counts as an orphan, and is
\* not, was written after the audit's listing, never taken away by gc.
THEOREM MaintainCorrect == MaintainSpec => []MaintenanceSound
<1>1. ASSUME MaintainInv PROVE MaintenanceSound
  <2>a. faults \in Nat
    BY <1>1, TypeParts, GcAssumption DEF MaintainInv, ResolvableInv, Typed
  <2>1. run.at = "ended" /\ faults = 0 => run.res # "failed"
    BY <1>1, <2>a DEF MaintainInv, RunOK
  <2>2. run.at = "audit" /\ run.refs = {} /\ faults = 0 =>
          \A r \in Chains : chain[r] \in run.orphans => r \in run.moved
    BY <1>1 DEF MaintainInv, RunOK, Unmoved, Chains
  <2>3. Sound(None) => run.dangling \subseteq run.moved
    BY <1>1 DEF MaintainInv, RunOK
  <2> QED BY <2>1, <2>2, <2>3, Zenon DEF MaintenanceSound, Sound
<1> QED BY <1>1, MaintainInvariant, PTL
=============================================================================
