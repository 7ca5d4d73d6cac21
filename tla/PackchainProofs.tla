--------------------------- MODULE PackchainProofs ---------------------------
(***************************************************************************)
(* Proofs about Packchain, for every set of clients, every history of      *)
(* commits and every value of the bounds.                                  *)
(*                                                                         *)
(* TypeInv is the inductive invariant under the type invariant: which      *)
(* operation can be at which step, what it has read of the chain, and the  *)
(* numbering of the tombstones.  The other invariants stand on it.         *)
(***************************************************************************)
EXTENDS Packchain, TLAPS

Pushes  == {"push", "force"}
Writers == Pushes \cup {"compact"}
Deletes == {"delete", "deleteBranch"}

\* The operation that is at each step.
Stage(label, o) ==
  /\ label = "idle" => o = NoOp
  /\ label # "idle" => o.kind \in Kinds
  /\ label \in {"load", "reload", "commit", "index"} => o.kind \in Writers
  /\ label \in {"pack", "bundle"} => o.kind \in Pushes
  /\ label \in {"get", "cpack", "cbundle"} => o.kind = "compact"
  /\ label = "tomb" => o.kind \in {"force", "compact"}
  /\ label = "open" => o.kind \in {"deleteBranch", "protect", "unprotect"}
  /\ label = "confirm" => o.kind = "deleteBranch"
  /\ label \in {"list", "defer", "del"} => o.kind \in Deletes
  /\ label = "mark" => o.kind = "protect"
  /\ label = "unmark" => o.kind = "unprotect"

StageOK == \A p \in Clients : Stage(pc[p], op[p])

\* The chain that an operation works from: a compaction has one, and from the
\* reload on it is the current one.
PriorOK ==
  \A p \in Clients :
    /\ pc[p] \in {"get", "cpack", "cbundle"} => prior[p] = chain /\ chain # NoChain
    /\ op[p].kind = "compact" /\ pc[p] = "commit" => prior[p] = chain /\ chain # NoChain
    /\ op[p].kind = "compact" /\ pc[p] \in {"index", "tomb"} => prior[p] # NoChain

\* Operations and mark runs are numbered, and the record of one that has not
\* written its tombstone is not there yet.
NumbersOK ==
  /\ \A p \in Clients : pc[p] # "idle" => num[p] \in 1..ops
  /\ \A p, q \in Clients : pc[p] # "idle" /\ pc[q] # "idle" /\ num[p] = num[q] => p = q
  /\ \A t \in tombs : t.id[1] = "base" => t.id[2] <= ops
  /\ \A t \in tombs : t.id[1] = "packs" => t.id[2] <= marks
  /\ \A p \in Clients : pc[p] \notin {"idle", "del", "release"} =>
       \A t \in tombs : t.id # <<"base", num[p]>>
  /\ mark.at # "idle" => marks >= 1 /\ \A t \in tombs : t.id # <<"packs", marks>>

TypeInv == TypeOK /\ StageOK /\ PriorOK /\ NumbersOK

\* What has been judged of an operation that may still change the ref: the
\* fast-forward of a push, by the chain it read, and the rest by the ref as
\* it is now.
Judged(label, o, pr) ==
  /\ o.kind = "push" /\ label \in {"pack", "bundle", "lock", "reload", "commit"} => FastForward(pr, o.local)
  /\ o.kind = "push" /\ label = "commit" => pr.tip = chain.tip
  /\ o.kind = "force" /\ label = "commit" /\ protected => FastForward(chain, o.local)
  /\ label \in {"defer", "del"} => ~protected

JudgedOK == \A p \in Clients : Judged(pc[p], op[p], prior[p])

RegisterInv == TypeInv /\ JudgedOK

\* While nothing is torn the path index lags behind the chain only while a
\* commit or a delete is under way.  A commit is the current one until its
\* path index is written; a compaction keeps the tip; and a delete has still
\* to do with each of the two keys that is there.
Listed(p) ==
  (chain # NoChain => ChainKey \in todo[p]) /\ (index # None => IndexKey \in todo[p])

InStep ==
  (\A p \in Clients : pc[p] # "del" /\ (pc[p] = "index" => op[p].kind = "compact")) => index = chain.tip

IndexOK ==
  /\ ~torn => InStep
  /\ \A p \in Clients :
       /\ pc[p] = "index" => chain = NewChain(p)
       /\ pc[p] = "defer" => Listed(p)
       /\ pc[p] = "del" /\ ~torn => Listed(p)

\* An object that an operation has in its hands: a push, those of the chain
\* that it builds on, and each writer what it has uploaded for its commit.
Holds(p, o) ==
  \/ /\ op[p].kind = "push" /\ pc[p] \in {"pack", "bundle", "lock", "reload", "commit"}
     /\ o \in Refs(prior[p])
  \/ /\ op[p].kind \in Pushes /\ pc[p] \in {"bundle", "lock", "reload", "commit"}
     /\ o = NewPack(p)
  \/ /\ op[p].kind \in Pushes /\ pc[p] \in {"lock", "reload", "commit"}
     /\ NewPack(p).base = None /\ o = Bundle(op[p].local)
  \/ /\ op[p].kind = "compact" /\ pc[p] \in {"cbundle", "commit"}
     /\ o = Pack(None, prior[p].tip)
  \/ /\ op[p].kind = "compact" /\ pc[p] = "commit"
     /\ o = Bundle(prior[p].tip)

\* Without a hazard, what an operation holds is in the store, and was not
\* condemned before the operation began.
HoldsOK ==
  \A p \in Clients, o \in Packs \cup Bundles : Holds(p, o) =>
    /\ o \in objs
    /\ \A t \in tombs : o \in t.objs => t.age <= age[p]
    /\ mark.at = "put" /\ o \in mark.seen => mark.age <= age[p]

MarkFresh == mark.at # "put" => mark.age = 0

\* A sweep has in its hands what an old tombstone names, and removes what the
\* chain does not name.
SweepOK ==
  /\ sweep.at \in {"check", "load", "recheck", "remove"} =>
       \E t \in tombs : t.id = sweep.id /\ t.age >= Grace /\ sweep.left \cup sweep.cur \subseteq t.objs
  /\ sweep.at \in {"load", "recheck"} => \E o \in Packs \cup Bundles : sweep.cur = {o}

SweepSafe == sweep.at = "remove" => sweep.cur \cap Refs(chain) = {}

StoreInv ==
  /\ TypeInv /\ MarkFresh /\ SweepOK
  /\ hazards = {} => HoldsOK /\ SweepSafe /\ ChainResolvable

\* The baseline of the chain that a fetch has read is there as long as the
\* grace window lasts, unless it was condemned when the chain was read.
BaselineOK ==
  hazards = {} /\ ~read.doomed /\ read.at = "get" =>
    LET b == Bundle(read.chain.full) IN
    /\ read.age < Grace => b \in objs
    /\ \A t \in tombs : b \in t.objs => t.age <= read.age

ReadOK ==
  /\ read.at = "get" => read.need \subseteq Needed(read.chain, read.have) /\ read.chain # NoChain
  /\ read.res \in {"baselineMissing", "ok"} => read.at = "done"

\* The segments of a chain lead from the tip down to the root, and each holds
\* what the older ones lack.
Linked(ch) ==
  /\ \A s \in Segments(ch) : s.sha \in Ancestors(ch.tip)
  /\ \A i, j \in DOMAIN ch.segs : i <= j => ch.segs[j].sha \in Ancestors(ch.segs[i].sha)
  /\ Ancestors(ch.tip) \subseteq UNION {Contents(s) : s \in Segments(ch)}

Closed(have) == \A c \in have : Ancestors(c) \subseteq have

LinkedOK ==
  /\ Linked(chain) /\ Linked(read.chain)
  /\ \A p \in Clients : Linked(prior[p])
  /\ read.at # "done" => Closed(read.have)

-----------------------------------------------------------------------------
(* The operators.                                                          *)

\* The kinds of objects and keys are told apart.
LEMMA Disjoint ==
  /\ Packs \cap Bundles = {} /\ ChainKey \notin Packs \cup Bundles
  /\ IndexKey \notin Packs \cup Bundles /\ ChainKey # IndexKey
<1>1. \A o \in Packs : o.kind = "pack"
  BY DEF Packs, Pack
<1>2. \A o \in Bundles : o.kind = "bundle"
  BY DEF Bundles, Bundle
<1>3. ChainKey.kind = "chain" /\ IndexKey.kind = "index"
  BY DEF ChainKey, IndexKey
<1>4. QED
  BY <1>1, <1>2, <1>3

LEMMA ManifestType ==
  ASSUME NEW ch \in Manifest \cup {NoChain}
  PROVE  /\ ch.tip \in Commits \cup {None} /\ ch.full \in Commits \cup {None}
         /\ ch # NoChain => ch \in Manifest /\ ch.tip \in Commits /\ ch.full \in Commits
         /\ ch.tip = None <=> ch = NoChain
         /\ Segments(ch) \subseteq Packs
         /\ Refs(ch) \subseteq Packs \cup Bundles
<1> USE ConstantsAssumption
<1>1. CASE ch \in Manifest
  <2>1. ch.segs \in Seq(Packs) /\ ch.full \in Commits /\ ch.tip \in Commits
    BY <1>1 DEF Manifest
  <2>2. Segments(ch) \subseteq Packs
    BY <2>1 DEF Segments, Range
  <2>3. ch # NoChain
    BY <2>1 DEF NoChain
  <2>4. Bundle(ch.full) \in Bundles
    BY <2>1 DEF Bundles
  <2>5. QED
    BY <1>1, <2>1, <2>2, <2>3, <2>4 DEF Refs
<1>2. CASE ch = NoChain
  BY <1>2 DEF NoChain, Refs, Segments, Range
<1>3. QED
  BY <1>1, <1>2

LEMMA NeededType ==
  ASSUME NEW ch \in Manifest, NEW have
  PROVE  Needed(ch, have) \subseteq Packs \cup Bundles /\ Needed(ch, have) \subseteq Refs(ch)
<1>1. ch # NoChain /\ Refs(ch) \subseteq Packs \cup Bundles
  BY ManifestType, ConstantsAssumption DEF Manifest, NoChain
<1>2. Needed(ch, have) \subseteq Refs(ch)
  BY <1>1 DEF Needed, Refs, Segments, Range
<1>3. QED
  BY <1>1, <1>2

LEMMA NewPackType ==
  ASSUME TypeOK, NEW p \in Clients
  PROVE  NewPack(p) \in Packs
<1>1. op[p].local \in Commits /\ prior[p] \in Manifest \cup {NoChain}
  BY DEF TypeOK, Typed, StoreOK, ClientsOK
<1>2. prior[p] # NoChain => prior[p].tip \in Commits
  BY <1>1, ManifestType
<1>3. QED
  BY <1>1, <1>2 DEF NewPack, Packs

\* next_manifest and compact yield a manifest.
LEMMA NewChainType ==
  ASSUME TypeOK, NEW p \in Clients, op[p].kind = "compact" => prior[p] # NoChain
  PROVE  NewChain(p) \in Manifest /\ NewChain(p) # NoChain
<1>1. op[p].local \in Commits /\ prior[p] \in Manifest \cup {NoChain}
  BY DEF TypeOK, Typed, StoreOK, ClientsOK
<1>2. prior[p] # NoChain => prior[p].tip \in Commits /\ prior[p].full \in Commits
                             /\ prior[p].segs \in Seq(Packs)
  BY <1>1 DEF Manifest
<1>3. NewPack(p) \in Packs /\ NewPack(p).sha = op[p].local
  BY NewPackType DEF NewPack, Pack
<1>4. ASSUME NEW c \in Commits PROVE Pack(None, c) \in Packs
  BY DEF Packs
<1>5. NewChain(p) \in Manifest
  <2>1. CASE op[p].kind = "compact"
    <3>1. <<Pack(None, prior[p].tip)>> \in Seq(Packs)
      BY <2>1, <1>2, <1>4
    <3>2. QED
      BY <3>1, <2>1, <1>2 DEF NewChain, Manifest
  <2>2. CASE op[p].kind # "compact"
    <3>1. <<NewPack(p)>> \in Seq(Packs)
      BY <1>3
    <3>2. prior[p] # NoChain => <<NewPack(p)>> \o prior[p].segs \in Seq(Packs)
      BY <3>1, <1>2
    <3>3. QED
      BY <3>1, <3>2, <2>2, <1>1, <1>2, <1>3 DEF NewChain, next_manifest, Manifest
  <2>3. QED
    BY <2>1, <2>2
<1>6. QED
  BY <1>5, ConstantsAssumption DEF Manifest, NoChain

-----------------------------------------------------------------------------
(* The type invariant.                                                     *)

\* A tombstone of a number not used before keeps the records apart.
LEMMA AddTomb ==
  ASSUME TypeOK, NEW id \in TombIds, \A t \in tombs : t.id # id,
         NEW S \in SUBSET (Packs \cup Bundles), NEW a \in 0..Grace,
         S \subseteq IF id[1] = "base" THEN Bundles ELSE Packs,
         \A t \in tombs' : t \in tombs \/ t = [id |-> id, objs |-> S, age |-> a]
  PROVE  /\ tombs' \subseteq [id : TombIds, objs : SUBSET (Packs \cup Bundles), age : 0..Grace]
         /\ \A t \in tombs' : t.objs \subseteq IF t.id[1] = "base" THEN Bundles ELSE Packs
         /\ \A t, u \in tombs' : t.id = u.id => t = u
<1> DEFINE r == [id |-> id, objs |-> S, age |-> a]
<1>1. r \in [id : TombIds, objs : SUBSET (Packs \cup Bundles), age : 0..Grace]
      /\ r.id = id /\ r.objs = S
  OBVIOUS
<1> HIDE DEF r
<1>2. \A t \in tombs' : t \in tombs \/ t = r
  BY DEF r
<1>3. QED
  BY <1>1, <1>2 DEF TypeOK, Typed, StoreOK

LEMMA NoOpType == NoOp.kind = "none" /\ NoOp.local \in Commits
                   /\ NoOp \in [kind : Kinds \cup {"none"}, local : Commits]
  BY ConstantsAssumption DEF NoOp

\* The lock goes with the steps between acquire and release.
LEMMA MoveType ==
  ASSUME ClientsOK, NEW p \in Clients, NEW label \in Unlocked \cup UnderLock, Goto(p, label),
         \/ UNCHANGED lock /\ (pc[p] \in UnderLock <=> label \in UnderLock)
         \/ lock = Free /\ lock' = p /\ label \in UnderLock
         \/ lock = p /\ lock' \in {Free, Orphan} /\ label \notin UnderLock,
         op' \in [Clients -> [kind : Kinds \cup {"none"}, local : Commits]],
         num' \in [Clients -> 0..MaxOps],
         prior' \in [Clients -> Manifest \cup {NoChain}],
         todo' \in [Clients -> SUBSET Keys],
         age' \in [Clients -> 0..MaxOp]
  PROVE  ClientsOK'
<1>1. pc' \in [Clients -> Unlocked \cup UnderLock] /\ \A q \in Clients : pc'[q] = IF q = p THEN label ELSE pc[q]
  BY DEF ClientsOK, Goto
<1>2. \A q \in Clients : lock' = q <=> pc'[q] \in UnderLock
  BY <1>1, ConstantsAssumption DEF ClientsOK
<1>3. QED
  BY <1>1, <1>2, ConstantsAssumption DEF ClientsOK

\* How an operation ends, and how it goes on.
LEMMA FinishType ==
  ASSUME ClientsOK, NEW p \in Clients,
         \/ UNCHANGED lock /\ pc[p] \in Unlocked
         \/ lock = p /\ lock' \in {Free, Orphan},
         Goto(p, "idle"), Forget(p)
  PROVE  ClientsOK'
<1>1. "idle" \in Unlocked /\ Unlocked \cap UnderLock = {}
  BY DEF Unlocked, UnderLock
<1>2. /\ op' \in [Clients -> [kind : Kinds \cup {"none"}, local : Commits]]
      /\ num' \in [Clients -> 0..MaxOps]
      /\ prior' \in [Clients -> Manifest \cup {NoChain}]
      /\ todo' \in [Clients -> SUBSET Keys]
      /\ age' \in [Clients -> 0..MaxOp]
  BY ConstantsAssumption, NoOpType DEF ClientsOK, Forget
<1>3. QED
  BY <1>1, <1>2, MoveType

LEMMA GotoType ==
  ASSUME ClientsOK, NEW p \in Clients, NEW label \in Unlocked \cup UnderLock, Goto(p, label),
         \/ UNCHANGED lock /\ (pc[p] \in UnderLock <=> label \in UnderLock)
         \/ lock = Free /\ lock' = p /\ label \in UnderLock,
         UNCHANGED <<op, num, age>>,
         prior' = prior \/ \E ch \in Manifest \cup {NoChain} : prior' = [prior EXCEPT ![p] = ch],
         todo' = todo \/ \E ks \in SUBSET Keys : todo' = [todo EXCEPT ![p] = ks]
  PROVE  ClientsOK'
<1>1. /\ op' \in [Clients -> [kind : Kinds \cup {"none"}, local : Commits]]
      /\ num' \in [Clients -> 0..MaxOps]
      /\ age' \in [Clients -> 0..MaxOp]
  BY DEF ClientsOK
<1>2. prior' \in [Clients -> Manifest \cup {NoChain}] /\ todo' \in [Clients -> SUBSET Keys]
  BY DEF ClientsOK
<1>3. QED
  BY <1>1, <1>2, MoveType

\* The records of a mark run, of a sweep and of a fetch.
LEMMA Idle == NoMark \in MarkType /\ NoSwp \in SweepType /\ NoRead \in ReadType
<1>1. NoMark \in MarkType
  BY ConstantsAssumption DEF NoMark, MarkType
<1>2. NoSwp \in SweepType
  BY DEF NoSwp, SweepType
<1>3. NoRead \in ReadType
  BY ConstantsAssumption DEF NoRead, ReadType, FetchResults
<1>4. QED
  BY <1>1, <1>2, <1>3

LEMMA Fields ==
  /\ \A r \in MarkType :
       r.at \in {"idle", "chains", "refs", "put"} /\ r.seen \subseteq Packs /\ r.age \in 0..Grace
  /\ \A r \in SweepType :
       r.todo \subseteq TombIds /\ r.left \subseteq Packs \cup Bundles /\ r.cur \subseteq Packs \cup Bundles
  /\ \A r \in ReadType :
       /\ r.have \subseteq Commits /\ r.chain \in Manifest \cup {NoChain} /\ r.need \subseteq Packs \cup Bundles
       /\ r.tries \in 0..MaxRetries /\ r.age \in 0..MaxFetch
  BY DEF MarkType, SweepType, ReadType

LEMMA TypeFrame ==
  /\ StoreOK /\ UNCHANGED remote => StoreOK'
  /\ StoreOK /\ UNCHANGED <<chain, index, objs, protected, tombs>> => StoreOK'
  /\ ClientsOK /\ UNCHANGED <<lock, client>> => ClientsOK'
  /\ GcOK /\ UNCHANGED gc => GcOK'
  BY DEF StoreOK, ClientsOK, GcOK, remote, client, gc

LEMMA TypedStep == TypeInv /\ [Next]_vars => Typed'
<1> SUFFICES ASSUME TypeInv, [Next]_vars PROVE Typed'
  OBVIOUS
<1> USE DEF TypeInv, TypeOK, Typed
<1>1. ASSUME NEW p \in Clients, Begin(p) PROVE Typed'
  <2>1. ClientsOK'
    <3>1. PICK kind \in Kinds, local \in Commits :
            /\ op' = [op EXCEPT ![p] = [kind |-> kind, local |-> local]]
            /\ Goto(p, CASE kind \in {"push", "force", "compact"} -> "load"
                         [] kind = "delete" -> "lock"
                         [] OTHER -> "open")
      BY <1>1 DEF Begin
    <3>2. PICK label \in {"load", "lock", "open"} : Goto(p, label)
      BY <3>1, Zenon
    <3>3. num' = [num EXCEPT ![p] = ops + 1] /\ ops + 1 \in 0..MaxOps
      BY <1>1, ConstantsAssumption DEF Begin
    <3>4. /\ op' \in [Clients -> [kind : Kinds \cup {"none"}, local : Commits]]
          /\ num' \in [Clients -> 0..MaxOps]
          /\ UNCHANGED <<prior, todo, age, lock>>
      BY <1>1, <3>1, <3>3 DEF Begin, ClientsOK
    <3>5. pc[p] = "idle" /\ prior' \in [Clients -> Manifest \cup {NoChain}]
          /\ todo' \in [Clients -> SUBSET Keys] /\ age' \in [Clients -> 0..MaxOp]
      BY <1>1, <3>4 DEF Begin, ClientsOK
    <3>6. QED
      BY <3>2, <3>4, <3>5, MoveType DEF Unlocked, UnderLock
  <2>2. QED
    BY <1>1, <2>1, TypeFrame, ConstantsAssumption DEF Begin
<1>2. ASSUME NEW p \in Clients, LoadForPush(p) PROVE Typed'
  BY <1>2, FinishType, GotoType, TypeFrame
     DEF LoadForPush, Finish, StoreOK, Unlocked, UnderLock
<1>3. ASSUME NEW p \in Clients, LoadForCompact(p) PROVE Typed'
  BY <1>3, FinishType, GotoType, TypeFrame
     DEF LoadForCompact, Finish, StoreOK, Unlocked, UnderLock
<1>4. ASSUME NEW p \in Clients, UploadPack(p) \/ UploadBundle(p) PROVE Typed'
  <2>1. NewPack(p) \in Packs /\ Bundle(op[p].local) \in Bundles
    BY NewPackType DEF ClientsOK, Bundles
  <2>2. \E label \in {"bundle", "lock"} : Advance(p, label)
    BY <1>4 DEF UploadPack, UploadBundle
  <2>3. ClientsOK'
    BY <1>4, <2>2, GotoType DEF UploadPack, UploadBundle, Advance, Unlocked, UnderLock
  <2>4. StoreOK' /\ hazards' \subseteq hazards \cup {"reused"}
    BY <1>4, <2>1 DEF UploadPack, UploadBundle, Upload, StoreOK
  <2>5. QED
    BY <1>4, <2>3, <2>4, TypeFrame DEF UploadPack, UploadBundle
<1>5. ASSUME NEW p \in Clients, Open(p) \/ Confirm(p) PROVE Typed'
  BY <1>5, FinishType, GotoType, TypeFrame
     DEF Open, Confirm, Finish, Advance, Unlocked, UnderLock
<1>6. ASSUME NEW p \in Clients, AcquireLock(p) PROVE Typed'
  <2>1. CASE Finish(p, "contended") /\ UNCHANGED lock
    BY <1>6, <2>1, FinishType, TypeFrame DEF AcquireLock, Finish, Unlocked
  <2>2. CASE lock = Free /\ lock' = p /\ Advance(p, AfterLock(op[p].kind))
    <3>1. AfterLock(op[p].kind) \in UnderLock
      BY <1>6, ConstantsAssumption DEF AcquireLock, StageOK, Stage, AfterLock, UnderLock
    <3>2. ClientsOK'
      BY <2>2, <3>1, GotoType DEF Advance
    <3>3. QED
      BY <1>6, <3>2, TypeFrame DEF AcquireLock
  <2>3. QED
    BY <1>6, <2>1, <2>2 DEF AcquireLock
<1>7. ASSUME NEW p \in Clients, Release(p) PROVE Typed'
  <2>1. lock = p
    BY <1>7 DEF Release, ClientsOK, UnderLock
  <2>2. QED
    BY <1>7, <2>1, FinishType, TypeFrame, ConstantsAssumption DEF Release, Fault
<1>8. ASSUME NEW p \in Clients, ReloadForPush(p) \/ ReloadForCompact(p) PROVE Typed'
  BY <1>8, GotoType, TypeFrame
     DEF ReloadForPush, ReloadForCompact, Leave, Advance, StoreOK, Unlocked, UnderLock
<1>9. ASSUME NEW p \in Clients, Commit(p) PROVE Typed'
  <2>1. NewChain(p) \in Manifest
    BY <1>9, NewChainType DEF Commit, PriorOK
  <2>2. StoreOK'
    BY <1>9, <2>1 DEF Commit, StoreOK
  <2>3. QED
    BY <1>9, <2>2, GotoType, TypeFrame DEF Commit, Advance, Unlocked, UnderLock
<1>10. ASSUME NEW p \in Clients, WriteIndex(p) PROVE Typed'
  <2>1. NewChain(p).tip \in Commits
    BY <1>10, NewChainType, ManifestType DEF WriteIndex, PriorOK
  <2>2. StoreOK'
    BY <1>10, <2>1 DEF WriteIndex, StoreOK
  <2>3. QED
    BY <1>10, <2>2, GotoType, TypeFrame DEF WriteIndex, Leave, Advance, Unlocked, UnderLock
<1>11. ASSUME NEW p \in Clients, TombstoneBaseline(p) PROVE Typed'
  <2> DEFINE old == {prior[p].full} \ {None, NewChain(p).full}
  <2>1. StoreOK'
    <3>1. prior[p] \in Manifest \cup {NoChain} /\ num[p] \in 1..MaxOps
      BY <1>11, ConstantsAssumption DEF TombstoneBaseline, ClientsOK, NumbersOK
    <3>2. old \subseteq {prior[p].full} /\ old \subseteq Commits
      BY <3>1, ManifestType
    <3>3. {Bundle(prior[p].full)} \in SUBSET (Packs \cup Bundles) \/ old = {}
      BY <3>2 DEF Bundles
    <3>4. CASE old = {}
      BY <1>11, <3>4 DEF TombstoneBaseline, StoreOK
    <3>5. CASE old # {}
      <4> DEFINE id == <<"base", num[p]>>
                 S  == {Bundle(prior[p].full)}
      <4>1. S \subseteq Bundles /\ old = {prior[p].full}
        BY <3>2, <3>5 DEF Bundles
      <4>2. id \in TombIds /\ id[1] = "base" /\ \A t \in tombs : t.id # id
        BY <1>11, <3>1 DEF TombstoneBaseline, NumbersOK, TombIds
      <4>3. \A t \in tombs' : t \in tombs \/ t = [id |-> id, objs |-> S, age |-> 0]
        <5> DEFINE T == {[id |-> id, objs |-> {Bundle(c)}, age |-> 0] : c \in old}
        <5>1. ASSUME NEW t \in T PROVE t = [id |-> id, objs |-> S, age |-> 0]
          <6>1. PICK c \in old : t = [id |-> id, objs |-> {Bundle(c)}, age |-> 0]
            BY <5>1
          <6>2. c = prior[p].full
            BY <3>2
          <6>3. QED
            BY <6>1, <6>2
        <5>2. tombs' = tombs \cup T \/ tombs' = tombs
          BY <1>11 DEF TombstoneBaseline
        <5> HIDE DEF T, id, S
        <5>3. QED
          BY <5>1, <5>2
      <4>4. 0 \in 0..Grace
        BY ConstantsAssumption
      <4> HIDE DEF id, S
      <4>5. QED
        BY <1>11, <4>1, <4>2, <4>3, <4>4, AddTomb DEF TombstoneBaseline, StoreOK
    <3>6. QED
      BY <3>4, <3>5
  <2>2. ClientsOK'
    BY <1>11, GotoType DEF TombstoneBaseline, Leave, Unlocked, UnderLock
  <2>3. QED
    BY <1>11, <2>1, <2>2, TypeFrame, ConstantsAssumption DEF TombstoneBaseline, Fault
<1>12. ASSUME NEW p \in Clients, Download(p) PROVE Typed'
  BY <1>12, GotoType, TypeFrame DEF Download, Leave, Advance, Unlocked, UnderLock
<1>13. ASSUME NEW p \in Clients, CompactPack(p) \/ CompactBundle(p) PROVE Typed'
  <2>1. prior[p].tip \in Commits
    BY <1>13, ManifestType DEF CompactPack, CompactBundle, PriorOK, StoreOK
  <2>2. Pack(None, prior[p].tip) \in Packs /\ Bundle(prior[p].tip) \in Bundles
    BY <2>1 DEF Packs, Bundles
  <2>3. StoreOK' /\ hazards' \subseteq hazards \cup {"reused"}
    BY <1>13, <2>2 DEF CompactPack, CompactBundle, Upload, StoreOK
  <2>4. ClientsOK'
    BY <1>13, GotoType DEF CompactPack, CompactBundle, Advance, Unlocked, UnderLock
  <2>5. QED
    BY <1>13, <2>3, <2>4, TypeFrame DEF CompactPack, CompactBundle
<1>14. ASSUME NEW p \in Clients, ListForDelete(p) \/ ListForDeleteBranch(p) PROVE Typed'
  <2>1. Entries \in SUBSET Keys
    BY DEF Entries, Keys
  <2>2. ClientsOK'
    BY <1>14, <2>1, GotoType
       DEF ListForDelete, ListForDeleteBranch, Leave, Unlocked, UnderLock
  <2>3. QED
    BY <1>14, <2>2, TypeFrame DEF ListForDelete, ListForDeleteBranch
<1>15. ASSUME NEW p \in Clients, DeferBaseline(p) PROVE Typed'
  <2> DEFINE live == Refs(chain) \cap todo[p]
             id   == <<"base", num[p]>>
  <2>1. PICK b \in Bundles : live \subseteq {b}
    <3>1. todo[p] \in SUBSET Keys
      BY <1>15 DEF ClientsOK
    <3>2. CASE chain = NoChain
      BY <3>2, NoOpType DEF Refs, Bundles
    <3>3. CASE chain # NoChain
      <4>1. Bundle(chain.full) \in Bundles /\ Segments(chain) \subseteq Packs
        BY <3>3, ManifestType DEF Bundles, StoreOK
      <4>2. live \subseteq {Bundle(chain.full)}
        BY <3>1, <3>3, <4>1, Disjoint DEF Refs, Keys
      <4>3. QED
        BY <4>1, <4>2
    <3>4. QED
      BY <3>2, <3>3
  <2>2. StoreOK'
    <3>1. id \in TombIds /\ id[1] = "base" /\ \A t \in tombs : t.id # id
      BY <1>15, ConstantsAssumption DEF DeferBaseline, ClientsOK, NumbersOK, TombIds
    <3>2. \A t \in tombs' : t \in tombs \/ t = [id |-> id, objs |-> {b}, age |-> 0]
      <4> DEFINE T == {[id |-> id, objs |-> {o}, age |-> 0] : o \in live}
      <4>1. tombs' = tombs \cup T \/ tombs' = tombs
        BY <1>15 DEF DeferBaseline
      <4>2. ASSUME NEW t \in T PROVE t = [id |-> id, objs |-> {b}, age |-> 0]
        <5>1. PICK o \in live : t = [id |-> id, objs |-> {o}, age |-> 0]
          BY <4>2
        <5>2. o = b
          BY <2>1
        <5>3. QED
          BY <5>1, <5>2
      <4> HIDE DEF T, live, id
      <4>3. QED
        BY <4>1, <4>2
    <3>3. 0 \in 0..Grace /\ {b} \in SUBSET (Packs \cup Bundles)
          /\ {b} \subseteq IF id[1] = "base" THEN Bundles ELSE Packs
      BY ConstantsAssumption, <2>1, <3>1
    <3>4. UNCHANGED <<chain, index, objs, protected>>
      BY <1>15 DEF DeferBaseline
    <3> HIDE DEF id, live
    <3>5. /\ tombs' \subseteq [id : TombIds, objs : SUBSET (Packs \cup Bundles), age : 0..Grace]
          /\ \A t \in tombs' : t.objs \subseteq IF t.id[1] = "base" THEN Bundles ELSE Packs
          /\ \A t, u \in tombs' : t.id = u.id => t = u
      BY <3>1, <3>2, <3>3, AddTomb
    <3>6. QED
      BY <3>4, <3>5 DEF StoreOK
  <2>3. ClientsOK'
    BY <1>15, GotoType DEF DeferBaseline, ClientsOK, Unlocked, UnderLock
  <2>4. QED
    BY <1>15, <2>2, <2>3, TypeFrame, ConstantsAssumption DEF DeferBaseline, Fault
<1>16. ASSUME NEW p \in Clients, DeleteOne(p) PROVE Typed'
  <2>1. PICK k \in todo[p] :
          /\ todo' = [todo EXCEPT ![p] = @ \ {k}]
          /\ hazards' = hazards \cup (IF k \in Bundles THEN {"purged"} ELSE {})
          /\ RemoveKey(k) \/ UNCHANGED <<objs, chain, index>>
          /\ UNCHANGED pc \/ Goto(p, "release")
          /\ UNCHANGED faults \/ Fault
    BY <1>16 DEF DeleteOne
  <2>2. StoreOK'
    BY <1>16, <2>1 DEF DeleteOne, RemoveKey, StoreOK
  <2>3. ClientsOK'
    BY <1>16, <2>1, GotoType, TypeFrame DEF DeleteOne, ClientsOK, Goto, Unlocked, UnderLock
  <2>4. QED
    BY <1>16, <2>1, <2>2, <2>3, TypeFrame, ConstantsAssumption DEF DeleteOne, Fault
<1>17. ASSUME NEW p \in Clients, Deleted(p) PROVE Typed'
  BY <1>17, GotoType, TypeFrame DEF Deleted, Leave, Unlocked, UnderLock
<1>18. ASSUME NEW p \in Clients, Protect(p) \/ Unprotect(p) PROVE Typed'
  <2>1. StoreOK'
    BY <1>18 DEF Protect, Unprotect, StoreOK
  <2>2. QED
    BY <1>18, <2>1, GotoType, TypeFrame DEF Protect, Unprotect, Leave, Unlocked, UnderLock
<1>19. ASSUME NEW p \in Clients, RequestFails(p) PROVE Typed'
  BY <1>19, FinishType, GotoType, TypeFrame, ConstantsAssumption
     DEF RequestFails, Finish, Leave, Fault, Unlocked, UnderLock
<1>20. ASSUME NEW p \in Clients, Crash(p) PROVE Typed'
  <2>1. lock = p \/ pc[p] \in Unlocked
    BY DEF ClientsOK
  <2>2. QED
    BY <1>20, <2>1, FinishType, TypeFrame, ConstantsAssumption DEF Crash, Finish, Fault, ClientsOK
<1>21. CASE StaleRecovery
  BY <1>21, TypeFrame, ConstantsAssumption DEF StaleRecovery, ClientsOK, client
<1>22. CASE MarkStep
  <2>1. StoreOK' /\ mark' \in MarkType /\ marks' \in 0..MaxMarks
    <3>1. CASE MarkList
      <4>1. PICK seen \in SUBSET Packs : mark' = [NoMark EXCEPT !.at = "chains", !.seen = seen]
        BY <3>1 DEF MarkList
      <4>2. mark' \in MarkType
        BY <4>1, Idle DEF MarkType
      <4>3. QED
        BY <3>1, <4>2, TypeFrame, ConstantsAssumption DEF MarkList, GcOK
    <3>2. CASE MarkChains
      <4>1. PICK at \in {"put", "refs"} : mark' = [mark EXCEPT !.at = at]
        BY <3>2 DEF MarkChains
      <4>2. mark' \in MarkType
        BY <4>1 DEF MarkType, GcOK
      <4>3. QED
        BY <3>2, <4>2, TypeFrame DEF MarkChains, GcOK
    <3>3. CASE MarkRefs
      <4>1. mark.seen \ Refs(chain) \in SUBSET Packs
        BY Fields DEF GcOK
      <4>2. mark' = NoMark \/ \E seen \in SUBSET Packs : mark' = [mark EXCEPT !.at = "put", !.seen = seen]
        BY <3>3, <4>1 DEF MarkRefs
      <4>3. ASSUME NEW seen \in SUBSET Packs, mark' = [mark EXCEPT !.at = "put", !.seen = seen]
            PROVE  mark' \in MarkType
        BY <4>3 DEF MarkType, GcOK
      <4>4. QED
        BY <3>3, <4>2, <4>3, Idle, TypeFrame DEF MarkRefs, GcOK
    <3>4. CASE MarkPut
      <4> DEFINE id == <<"packs", marks>>
                 t  == [id |-> id, objs |-> mark.seen, age |-> mark.age]
      <4>1. marks \in 1..MaxMarks /\ mark.seen \in SUBSET Packs /\ mark.age \in 0..Grace
        BY <3>4, Fields, ConstantsAssumption DEF MarkPut, GcOK, NumbersOK
      <4>2. id \in TombIds /\ id[1] = "packs" /\ \A u \in tombs : u.id # id
        BY <3>4, <4>1 DEF MarkPut, NumbersOK, TombIds
      <4>3. \A u \in tombs' : u \in tombs \/ u = [id |-> id, objs |-> mark.seen, age |-> mark.age]
        BY <3>4 DEF MarkPut
      <4>4. UNCHANGED <<chain, index, objs, protected>> /\ mark' \in MarkType /\ marks' \in 0..MaxMarks
        BY <3>4, <4>1, Idle DEF MarkPut, GcOK
      <4>5. mark.seen \in SUBSET (Packs \cup Bundles)
            /\ mark.seen \subseteq IF id[1] = "base" THEN Bundles ELSE Packs
        BY <4>1, <4>2
      <4> HIDE DEF id, t
      <4>6. /\ tombs' \subseteq [id : TombIds, objs : SUBSET (Packs \cup Bundles), age : 0..Grace]
            /\ \A u \in tombs' : u.objs \subseteq IF u.id[1] = "base" THEN Bundles ELSE Packs
            /\ \A u, v \in tombs' : u.id = v.id => u = v
        BY <4>1, <4>2, <4>3, <4>5, AddTomb
      <4>7. QED
        BY <4>4, <4>6 DEF StoreOK
    <3>5. QED
      BY <1>22, <3>1, <3>2, <3>3, <3>4 DEF MarkStep
  <2>2. UNCHANGED <<lock, client, sweep, read, ops, faults, hazards>>
    BY <1>22 DEF MarkStep, MarkList, MarkChains, MarkRefs, MarkPut
  <2>3. QED
    BY <2>1, <2>2, TypeFrame DEF GcOK
<1>23. CASE MarkFails
  BY <1>23, Idle, TypeFrame DEF MarkFails, GcOK
<1>24. CASE SweepStep \/ SweepFails
  <2>d. SweepDefer => sweep' \in SweepType
    <3> SUFFICES ASSUME sweep' = [NoSwp EXCEPT !.at = "next", !.todo = sweep.todo]
                 PROVE  sweep' \in SweepType
      BY DEF SweepDefer
    <3>1. PICK todo1 \in SUBSET TombIds : sweep' = [NoSwp EXCEPT !.at = "next", !.todo = todo1]
      BY Fields DEF GcOK
    <3>2. QED
      BY <3>1, Idle DEF SweepType
  <2>1. StoreOK' /\ sweep' \in SweepType
    <3>1. CASE SweepList
      <4>1. {t.id : t \in tombs} \in SUBSET TombIds
        BY DEF StoreOK
      <4>2. QED
        <5>1. PICK ids \in SUBSET TombIds : sweep' = [NoSwp EXCEPT !.at = "next", !.todo = ids]
          BY <3>1, <4>1 DEF SweepList
        <5>2. sweep' \in SweepType
          BY <5>1, Idle DEF SweepType
        <5>3. QED
          BY <3>1, <5>2, TypeFrame DEF SweepList
    <3>2. CASE SweepRead
      <4>1. \A t \in tombs : t.objs \subseteq Packs \cup Bundles
        BY DEF StoreOK
      <4>2. PICK id \in sweep.todo :
               sweep' = IF \E t \in tombs : t.id = id /\ (ForceSweep \/ t.age >= Grace)
                THEN [at |-> "check", todo |-> sweep.todo \ {id}, id |-> id, cur |-> {},
                      left |-> (CHOOSE t \in tombs : t.id = id).objs]
                ELSE [sweep EXCEPT !.todo = @ \ {id}]
        BY <3>2 DEF SweepRead
      <4>3. sweep.todo \ {id} \in SUBSET TombIds /\ id \in TombIds
        BY Fields DEF GcOK
      <4>4. CASE \E t \in tombs : t.id = id /\ (ForceSweep \/ t.age >= Grace)
        <5> DEFINE left == (CHOOSE t \in tombs : t.id = id).objs
        <5>1. (CHOOSE t \in tombs : t.id = id) \in tombs
          BY <4>4
        <5>2. left \in SUBSET (Packs \cup Bundles)
          BY <5>1, <4>1
        <5>3. sweep' = [at |-> "check", todo |-> sweep.todo \ {id}, id |-> id, cur |-> {}, left |-> left]
          BY <4>2, <4>4, Zenon
        <5> HIDE DEF left
        <5>4. sweep' \in SweepType
          BY <4>3, <5>2, <5>3 DEF SweepType
        <5>5. QED
          BY <3>2, <5>4, TypeFrame DEF SweepRead
      <4>5. CASE sweep' = [sweep EXCEPT !.todo = @ \ {id}]
        <5>1. PICK ids \in SUBSET TombIds : sweep' = [sweep EXCEPT !.todo = ids]
          BY <4>3, <4>5
        <5>2. sweep' \in SweepType
          BY <5>1 DEF SweepType, GcOK
        <5>3. QED
          BY <3>2, <5>2, TypeFrame DEF SweepRead
      <4>6. QED
        BY <4>2, <4>4, <4>5
    <3>3. CASE SweepCheck
      <4>1. PICK o \in sweep.left :
              \E at \in {"remove", "load", "check", "recheck"} :
              \E cur \in {{o}, {o} \ Refs(chain)} :
                sweep' = [sweep EXCEPT !.left = @ \ {o}, !.cur = cur, !.at = at]
        BY <3>3 DEF SweepCheck
      <4>2. {o} \in SUBSET (Packs \cup Bundles) /\ {o} \ Refs(chain) \in SUBSET (Packs \cup Bundles)
            /\ sweep.left \ {o} \in SUBSET (Packs \cup Bundles)
        BY Fields DEF GcOK
      <4>3. PICK left \in SUBSET (Packs \cup Bundles), cur \in SUBSET (Packs \cup Bundles),
                 at \in {"remove", "load", "check", "recheck"} :
                 sweep' = [sweep EXCEPT !.left = left, !.cur = cur, !.at = at]
        BY <4>1, <4>2
      <4>4. sweep' \in SweepType
        BY <4>3 DEF SweepType, GcOK
      <4>5. QED
        BY <3>3, <4>4, TypeFrame DEF SweepCheck
    <3>4. CASE SweepLoad \/ SweepRecheck
      <4>1. \/ SweepDefer \/ sweep' = [sweep EXCEPT !.at = "check", !.cur = {}]
            \/ sweep' = [sweep EXCEPT !.at = "remove"]
        BY <3>4, Zenon DEF SweepLoad, SweepRecheck
      <4>2. sweep' \in SweepType
        BY <4>1, <2>d DEF GcOK, SweepType
      <4>3. QED
        BY <3>4, <4>2, TypeFrame DEF SweepLoad, SweepRecheck
    <3>5. CASE SweepRemove
      BY <3>5 DEF SweepRemove, GcOK, SweepType, StoreOK
    <3>6. CASE SweepTomb
      BY <3>6, <2>d DEF SweepTomb, StoreOK
    <3>7. CASE SweepDone \/ SweepFails
      BY <3>7, <2>d, Idle, TypeFrame DEF SweepDone, SweepFails
    <3>8. QED
      BY <1>24, <3>1, <3>2, <3>3, <3>4, <3>5, <3>6, <3>7 DEF SweepStep
  <2>2. UNCHANGED <<lock, client, mark, marks, read, ops, hazards>> /\ (UNCHANGED faults \/ Fault)
    BY <1>24 DEF SweepStep, SweepList, SweepRead, SweepCheck, SweepLoad, SweepRecheck, SweepRemove,
                 SweepTomb, SweepDone, SweepFails
  <2>3. QED
    BY <2>1, <2>2, TypeFrame, ConstantsAssumption DEF Fault, GcOK
<1>25. CASE FetchStart \/ FetchStep
  <2>d. \A res \in FetchResults : FetchEnds(res) => read' \in ReadType
    <3> SUFFICES ASSUME NEW res \in FetchResults, FetchEnds(res) PROVE read' \in ReadType
      OBVIOUS
    <3> PICK m \in ReadType : m = read
      OBVIOUS
    <3>1. read' = [m EXCEPT !.at = "done", !.res = res, !.need = {}, !.miss = {}]
      BY DEF FetchEnds
    <3> QED BY <3>1 DEF ReadType
  <2>r. \A res \in {"ok", "absent", "baselineMissing", "packMissing", "exhausted"} : res \in FetchResults
    BY DEF FetchResults
  <2>1. read' \in ReadType
    <3>1. CASE FetchStart
      <4>1. PICK have \in SUBSET Commits : read' = [NoRead EXCEPT !.at = "load", !.have = have]
        BY <3>1, ConstantsAssumption DEF FetchStart
      <4>2. QED
        BY <4>1, Idle DEF ReadType
    <3>2. CASE FetchLoad
      <4>1. CASE chain = NoChain
        BY <3>2, <4>1, <2>d, <2>r DEF FetchLoad
      <4>2. CASE chain # NoChain
        <5>1. chain \in Manifest /\ Needed(chain, read.have) \in SUBSET (Packs \cup Bundles)
              /\ Named(Bundle(chain.full)) \in BOOLEAN
          BY <4>2, NeededType DEF StoreOK, Named
        <5>2. PICK ch \in Manifest, need \in SUBSET (Packs \cup Bundles), d \in BOOLEAN :
                read' = [read EXCEPT !.at = "get", !.chain = ch, !.need = need, !.doomed = d]
          BY <3>2, <4>2, <5>1 DEF FetchLoad
        <5>3. QED
          BY <5>2 DEF ReadType
      <4>3. QED
        BY <4>1, <4>2
    <3>3. CASE FetchGet
      <4>1. PICK o \in read.need : \/ read' = [read EXCEPT !.need = @ \ {o}]
                                  \/ FetchEnds("baselineMissing")
                                  \/ /\ o \in Packs
                                     /\ read' = [read EXCEPT !.at = "reload", !.miss = {o}, !.need = {}]
        <5>1. PICK o \in read.need :
               CASE o \in objs     -> read' = [read EXCEPT !.need = @ \ {o}]
                 [] o \in Bundles \ objs -> FetchEnds("baselineMissing")
                 [] o \in Packs \ objs   -> read' = [read EXCEPT !.at = "reload", !.miss = {o}, !.need = {}]
          BY <3>3, Zenon DEF FetchGet
        <5>2. o \in objs \/ o \in Bundles \ objs \/ o \in Packs \ objs
          BY Fields
        <5>3. QED
          BY <5>1, <5>2, Zenon
      <4>2. {o} \subseteq Packs \cup Bundles /\ read.need \ {o} \in SUBSET (Packs \cup Bundles)
        BY Fields
      <4>3. CASE read' = [read EXCEPT !.need = @ \ {o}]
        <5>1. PICK need \in SUBSET (Packs \cup Bundles) : read' = [read EXCEPT !.need = need]
          BY <4>2, <4>3
        <5>2. QED
          BY <5>1 DEF ReadType
      <4>4. CASE o \in Packs /\ read' = [read EXCEPT !.at = "reload", !.miss = {o}, !.need = {}]
        <5>1. PICK miss \in SUBSET Packs : read' = [read EXCEPT !.at = "reload", !.miss = miss, !.need = {}]
          BY <4>4
        <5>2. QED
          BY <5>1 DEF ReadType
      <4>5. QED
        BY <4>1, <4>3, <4>4, <2>d, <2>r
    <3>4. CASE FetchInstall
      <4> DEFINE got == Needed(read.chain, read.have)
      <4>1. \A o \in got : Contents(o) \subseteq Commits
        BY DEF Contents, Ancestors
      <4>2. read.have \cup UNION {Contents(o) : o \in got} \in SUBSET Commits
        BY <4>1, Fields
      <4>3. read' = [read EXCEPT !.at = "done", !.res = "ok",
                          !.have = @ \cup UNION {Contents(o) : o \in got}]
        BY <3>4 DEF FetchInstall
      <4> HIDE DEF got
      <4>4. QED
        <5>1. PICK have \in SUBSET Commits : read' = [read EXCEPT !.at = "done", !.res = "ok", !.have = have]
          BY <4>2, <4>3
        <5>2. QED
          BY <5>1, <2>r DEF ReadType
    <3>5. CASE FetchReload
      <4>1. \/ FetchEnds("absent") \/ FetchEnds("packMissing") \/ FetchEnds("exhausted")
            \/ /\ read.tries # MaxRetries
               /\ read' = [read EXCEPT !.at = "load", !.tries = @ + 1, !.miss = {}]
        BY <3>5, Zenon DEF FetchReload
      <4>2. read.tries # MaxRetries => read.tries + 1 \in 0..MaxRetries
        BY Fields, ConstantsAssumption
      <4>3. CASE read.tries # MaxRetries /\ read' = [read EXCEPT !.at = "load", !.tries = @ + 1, !.miss = {}]
        <5>1. PICK n \in 0..MaxRetries : read' = [read EXCEPT !.at = "load", !.tries = n, !.miss = {}]
          BY <4>2, <4>3
        <5>2. QED
          BY <5>1 DEF ReadType
      <4>4. QED
        BY <4>1, <4>3, <2>d, <2>r
    <3>6. CASE FetchDone
      BY <3>6, Idle DEF FetchDone
    <3>7. QED
      BY <1>25, <3>1, <3>2, <3>3, <3>4, <3>5, <3>6 DEF FetchStep
  <2>2. UNCHANGED <<remote, lock, client, gc, ops, faults, hazards>>
    BY <1>25 DEF FetchStart, FetchStep, FetchLoad, FetchGet, FetchInstall, FetchReload, FetchDone
  <2>3. QED
    BY <2>1, <2>2, TypeFrame
<1>26. CASE Tick
  <2>1. \A h \in 0..Grace : Older(h) \in 0..Grace
    BY ConstantsAssumption DEF Older
  <2>2. StoreOK'
    <3>1. \A t \in tombs' : \E u \in tombs : t = [u EXCEPT !.age = Older(@)]
      BY <1>26 DEF Tick
    <3>2. UNCHANGED <<chain, index, objs, protected>>
      BY <1>26 DEF Tick
    <3>3. tombs' \subseteq [id : TombIds, objs : SUBSET (Packs \cup Bundles), age : 0..Grace]
      BY <2>1, <3>1 DEF StoreOK
    <3>4. \A t \in tombs' : \E u \in tombs : t.id = u.id /\ t.objs = u.objs /\ t = [u EXCEPT !.age = Older(@)]
      BY <3>1 DEF StoreOK
    <3>5. QED
      BY <3>2, <3>3, <3>4 DEF StoreOK
  <2>3. ClientsOK'
    BY <1>26, ConstantsAssumption DEF Tick, ClientsOK
  <2>4. GcOK'
    <3>1. PICK a \in 0..Grace : mark' = [mark EXCEPT !.age = a]
      BY <1>26, <2>1, Fields DEF Tick, GcOK
    <3>2. mark' \in MarkType
      BY <3>1 DEF GcOK, MarkType
    <3>3. QED
      BY <1>26, <3>2 DEF Tick, GcOK
  <2>5. read' \in ReadType
    <3>1. Reading => read.age + 1 \in 0..MaxFetch
      BY <1>26, Fields, ConstantsAssumption DEF Tick
    <3>2. PICK a \in 0..MaxFetch : read' = [read EXCEPT !.age = a]
      BY <1>26, <3>1, Fields DEF Tick
    <3>3. QED
      BY <3>2 DEF ReadType
  <2>6. QED
    BY <1>26, <2>2, <2>3, <2>4, <2>5 DEF Tick
<1>27. CASE UNCHANGED vars
  BY <1>27, TypeFrame DEF vars, gc
<1>28. QED
  BY <1>1, <1>2, <1>3, <1>4, <1>5, <1>6, <1>7, <1>8, <1>9, <1>10, <1>11, <1>12, <1>13, <1>14,
     <1>15, <1>16, <1>17, <1>18, <1>19, <1>20, <1>21, <1>22, <1>23, <1>24, <1>25, <1>26, <1>27
     DEF Next, ClientStep, PushStep, CompactStep, ManageStep

\* Steps of the garbage collector and of the fetch, and the recovery of a
\* stale lock.
Background ==
  StaleRecovery \/ MarkStep \/ MarkFails \/ SweepStep \/ SweepFails \/ FetchStart \/ FetchStep

\* They touch neither the ref nor a client.
LEMMA BackgroundFrame ==
  Background => UNCHANGED <<chain, index, torn, protected, client, ops, hazards>>
<1>1. StaleRecovery \/ MarkStep \/ MarkFails => UNCHANGED <<chain, index, torn, protected, client, ops, hazards>>
  BY DEF StaleRecovery, MarkStep, MarkList, MarkChains, MarkRefs, MarkPut, MarkFails, remote
<1>2. SweepStep \/ SweepFails => UNCHANGED <<chain, index, torn, protected, client, ops, hazards>>
  BY DEF SweepStep, SweepList, SweepRead, SweepCheck, SweepLoad, SweepRecheck, SweepRemove,
         SweepTomb, SweepDone, SweepFails, remote
<1>3. FetchStart \/ FetchStep => UNCHANGED <<chain, index, torn, protected, client, ops, hazards>>
  BY DEF FetchStart, FetchStep, FetchLoad, FetchGet, FetchInstall, FetchReload, FetchDone, remote
<1>4. QED
  BY <1>1, <1>2, <1>3 DEF Background

\* The steps that change neither of the two keys nor what is known of them.
Steady(p) ==
  \/ Begin(p) \/ CompactStep(p) \/ AcquireLock(p) \/ Release(p)
  \/ LoadForPush(p) \/ UploadPack(p) \/ UploadBundle(p) \/ ReloadForPush(p) \/ TombstoneBaseline(p)
  \/ Open(p) \/ Confirm(p) \/ ListForDelete(p) \/ ListForDeleteBranch(p) \/ Deleted(p)
  \/ Protect(p) \/ Unprotect(p)

LEMMA SteadyFrame == \A p \in Clients : Steady(p) => UNCHANGED <<chain, index, torn>>
<1>1. ASSUME NEW p \in Clients, Begin(p) \/ CompactStep(p) \/ AcquireLock(p) \/ Release(p)
      PROVE  UNCHANGED <<chain, index, torn>>
  BY <1>1 DEF Begin, CompactStep, LoadForCompact, ReloadForCompact, Download, CompactPack, CompactBundle,
              AcquireLock, Release, remote
<1>2. ASSUME NEW p \in Clients,
             LoadForPush(p) \/ UploadPack(p) \/ UploadBundle(p) \/ ReloadForPush(p) \/ TombstoneBaseline(p)
      PROVE  UNCHANGED <<chain, index, torn>>
  BY <1>2 DEF LoadForPush, UploadPack, UploadBundle, ReloadForPush, TombstoneBaseline, remote
<1>3. ASSUME NEW p \in Clients,
             \/ Open(p) \/ Confirm(p) \/ ListForDelete(p) \/ ListForDeleteBranch(p) \/ Deleted(p)
             \/ Protect(p) \/ Unprotect(p)
      PROVE  UNCHANGED <<chain, index, torn>>
  BY <1>3 DEF Open, Confirm, ListForDelete, ListForDeleteBranch, Deleted, Protect, Unprotect, remote
<1>4. QED
  BY <1>1, <1>2, <1>3 DEF Steady

LEMMA TornStep == TypeInv /\ [Next]_vars => torn' \in BOOLEAN
<1> SUFFICES ASSUME TypeInv, [Next]_vars PROVE torn' \in BOOLEAN
  OBVIOUS
<1>1. torn \in BOOLEAN
  BY DEF TypeInv, TypeOK
<1>2. ASSUME NEW p \in Clients, Steady(p) \/ Commit(p) \/ WriteIndex(p) \/ DeferBaseline(p)
      PROVE  torn' \in BOOLEAN
  BY <1>1, <1>2, SteadyFrame DEF Commit, WriteIndex, DeferBaseline
<1>3. ASSUME NEW p \in Clients, DeleteOne(p) \/ RequestFails(p) \/ Crash(p) PROVE torn' \in BOOLEAN
  BY <1>1, <1>3 DEF DeleteOne, RequestFails, Crash, Tear
<1>4. CASE Background \/ Tick \/ UNCHANGED vars
  BY <1>1, <1>4, BackgroundFrame DEF Tick, vars, remote
<1>5. QED
  BY <1>2, <1>3, <1>4 DEF Next, ClientStep, PushStep, ManageStep, Steady, Background

LEMMA TypeStep == TypeInv /\ [Next]_vars => TypeOK'
BY TypedStep, TornStep DEF TypeOK

-----------------------------------------------------------------------------
(* The operation at each step.                                             *)

LEMMA StageMove ==
  ASSUME ClientsOK, StageOK, NEW p \in Clients, NEW label, Goto(p, label),
         \/ op' = op /\ Stage(label, op[p])
         \/ label = "idle" /\ op' = [op EXCEPT ![p] = NoOp]
  PROVE  StageOK'
<1>1. \A q \in Clients : pc'[q] = IF q = p THEN label ELSE pc[q]
  BY DEF ClientsOK, Goto
<1>2. Stage("idle", NoOp)
  BY DEF Stage
<1>3. \A q \in Clients : Stage(pc'[q], op'[q])
  BY <1>1, <1>2 DEF StageOK, ClientsOK
<1>4. QED
  BY <1>3 DEF StageOK, Stage

LEMMA StageStep == TypeInv /\ [Next]_vars => StageOK'
<1> SUFFICES ASSUME TypeInv, [Next]_vars PROVE StageOK'
  OBVIOUS
<1> USE DEF TypeInv, TypeOK, Typed
<1>1. ASSUME NEW p \in Clients, Begin(p) PROVE StageOK'
  <2>1. PICK kind \in Kinds, local \in Commits :
          /\ op' = [op EXCEPT ![p] = [kind |-> kind, local |-> local]]
          /\ Goto(p, CASE kind \in {"push", "force", "compact"} -> "load"
                       [] kind = "delete" -> "lock"
                       [] OTHER -> "open")
    BY <1>1 DEF Begin
  <2>2. PICK label \in {"load", "lock", "open"} :
          /\ Goto(p, label)
          /\ label = "load" => kind \in Writers
          /\ label = "open" => kind \in Kinds \ {"push", "force", "compact", "delete"}
    BY <2>1, Zenon DEF Writers, Pushes
  <2>3. kind \in {"push", "force", "delete", "deleteBranch", "compact", "protect", "unprotect"}
    BY ConstantsAssumption
  <2>4. Stage(label, [kind |-> kind, local |-> local])
    BY <2>2, <2>3 DEF Stage
  <2>5. \A q \in Clients : /\ pc'[q] = IF q = p THEN label ELSE pc[q]
                          /\ op'[q] = IF q = p THEN [kind |-> kind, local |-> local] ELSE op[q]
    BY <2>1, <2>2 DEF Goto, ClientsOK
  <2>6. \A q \in Clients : Stage(pc'[q], op'[q])
    BY <2>4, <2>5 DEF StageOK
  <2>7. QED
    BY <2>6 DEF StageOK, Stage
<1>2. ASSUME NEW p \in Clients, Goto(p, "idle"), Forget(p) PROVE StageOK'
  BY <1>2, StageMove DEF Forget
<1>3. ASSUME NEW p \in Clients, pc[p] # "idle", Leave(p, "ok") PROVE StageOK'
  <2>1. Stage("release", op[p])
    BY <1>3 DEF StageOK, Stage
  <2>2. QED
    BY <1>3, <2>1, StageMove DEF Leave
<1>4. ASSUME NEW p \in Clients, NEW label, op' = op, Goto(p, label), Stage(label, op[p]) PROVE StageOK'
  BY <1>4, StageMove
<1>5. ASSUME NEW p \in Clients,
             LoadForPush(p) \/ LoadForCompact(p) \/ UploadPack(p) \/ UploadBundle(p) \/ Open(p) \/ Confirm(p)
      PROVE  StageOK'
  <2>1. Stage(pc[p], op[p])
    BY DEF StageOK
  <2>2. PICK label : \/ Goto(p, "idle") /\ Forget(p)
                     \/ op' = op /\ Goto(p, label) /\ Stage(label, op[p])
    <3>1. CASE LoadForPush(p)
      BY <3>1, <2>1 DEF LoadForPush, Finish, Stage, Pushes
    <3>2. CASE LoadForCompact(p)
      BY <3>2, <2>1 DEF LoadForCompact, Finish, Stage
    <3>3. CASE UploadPack(p) \/ UploadBundle(p)
      BY <3>3, <2>1 DEF UploadPack, UploadBundle, Advance, Stage
    <3>4. CASE Open(p) \/ Confirm(p)
      BY <3>4, <2>1 DEF Open, Confirm, Finish, Advance, Stage
    <3>5. QED
      BY <1>5, <3>1, <3>2, <3>3, <3>4
  <2>3. QED
    BY <2>2, <1>2, <1>4
<1>6. ASSUME NEW p \in Clients,
             \/ AcquireLock(p) \/ ReloadForPush(p) \/ ReloadForCompact(p) \/ Commit(p) \/ WriteIndex(p)
             \/ TombstoneBaseline(p) \/ Download(p) \/ CompactPack(p) \/ CompactBundle(p)
      PROVE  StageOK'
  <2>1. Stage(pc[p], op[p])
    BY DEF StageOK
  <2>2. PICK label : \/ Goto(p, "idle") /\ Forget(p)
                     \/ op' = op /\ Goto(p, label) /\ Stage(label, op[p])
    <3>1. CASE AcquireLock(p)
      <4>1. pc[p] = "lock" => Stage(AfterLock(op[p].kind), op[p])
        BY <2>1, ConstantsAssumption DEF AfterLock, Stage, Writers, Pushes, Deletes
      <4>2. QED
        BY <3>1, <4>1 DEF AcquireLock, Advance, Finish
    <3>2. CASE ReloadForPush(p) \/ ReloadForCompact(p)
      BY <3>2, <2>1 DEF ReloadForPush, ReloadForCompact, Leave, Advance, Stage, Writers, Pushes
    <3>3. CASE Commit(p) \/ WriteIndex(p) \/ TombstoneBaseline(p)
      BY <3>3, <2>1 DEF Commit, WriteIndex, TombstoneBaseline, Leave, Advance, Stage, Writers, Pushes
    <3>4. CASE Download(p) \/ CompactPack(p) \/ CompactBundle(p)
      BY <3>4, <2>1 DEF Download, CompactPack, CompactBundle, Leave, Advance, Stage, Writers, Pushes
    <3>5. QED
      BY <1>6, <3>1, <3>2, <3>3, <3>4
  <2>3. QED
    BY <2>2, <1>2, <1>4
<1>7. ASSUME NEW p \in Clients,
             \/ ListForDelete(p) \/ ListForDeleteBranch(p) \/ DeferBaseline(p) \/ Deleted(p)
             \/ Protect(p) \/ Unprotect(p)
      PROVE  StageOK'
  <2>1. Stage(pc[p], op[p])
    BY DEF StageOK
  <2>2. PICK label : op' = op /\ Goto(p, label) /\ Stage(label, op[p])
    <3>1. CASE ListForDelete(p) \/ ListForDeleteBranch(p)
      BY <3>1, <2>1 DEF ListForDelete, ListForDeleteBranch, Leave, Stage
    <3>2. CASE DeferBaseline(p)
      <4>1. op' = op /\ Goto(p, "del") /\ pc[p] = "defer"
        BY <3>2 DEF DeferBaseline
      <4>2. QED
        BY <4>1, <2>1 DEF Stage
    <3>3. CASE Deleted(p) \/ Protect(p) \/ Unprotect(p)
      BY <3>3, <2>1 DEF Deleted, Protect, Unprotect, Leave, Stage
    <3>4. QED
      BY <1>7, <3>1, <3>2, <3>3
  <2>3. QED
    BY <2>2, <1>4
<1>8. ASSUME NEW p \in Clients, DeleteOne(p) PROVE StageOK'
  <2>1. pc[p] = "del" /\ op' = op /\ (pc' = pc \/ Goto(p, "release"))
    BY <1>8 DEF DeleteOne
  <2>2. Stage("release", op[p])
    BY <2>1 DEF StageOK, Stage
  <2>3. CASE pc' = pc
    BY <2>1, <2>3 DEF StageOK, Stage
  <2>4. QED
    BY <2>1, <2>2, <2>3, <1>4
<1>9. ASSUME NEW p \in Clients, Release(p) \/ RequestFails(p) \/ Crash(p) PROVE StageOK'
  BY <1>9, <1>2, <1>3 DEF Release, RequestFails, Crash, Finish, Leave, UnderLock
<1>10. CASE UNCHANGED <<pc, op>>
  BY <1>10 DEF StageOK, Stage
<1>11. CASE Background \/ Tick \/ UNCHANGED vars
  BY <1>11, <1>10, BackgroundFrame DEF Tick, vars, client
<1>12. QED
  BY <1>1, <1>5, <1>6, <1>7, <1>8, <1>9, <1>11
     DEF Next, ClientStep, PushStep, CompactStep, ManageStep, Background

-----------------------------------------------------------------------------
(* The chain an operation works from.                                      *)

\* Only the holder of the lock moves the chain.
LEMMA OnlyHolder ==
  ASSUME ClientsOK, NEW p \in Clients, NEW q \in Clients,
         pc[p] \in UnderLock, pc[q] \in UnderLock
  PROVE  p = q
  BY DEF ClientsOK

LEMMA PriorStep == TypeInv /\ [Next]_vars => PriorOK'
<1> SUFFICES ASSUME TypeInv, [Next]_vars PROVE PriorOK'
  OBVIOUS
<1> USE DEF TypeInv, TypeOK, Typed
<1>1. ASSUME NEW p \in Clients, UNCHANGED chain, NEW label, Goto(p, label), prior' = prior,
             \A q \in Clients : q # p => op'[q] = op[q],
             \/ label \notin {"get", "cpack", "cbundle", "commit", "index", "tomb"}
             \/ op' = op /\ op[p].kind # "compact" /\ label \in {"commit", "index", "tomb"}
             \/ op' = op /\ pc[p] \in {"get", "cpack", "cbundle"} /\ prior[p] = chain /\ chain # NoChain
             \/ op' = op /\ pc[p] \in {"index", "tomb"} /\ label \in {"index", "tomb"}
      PROVE  PriorOK'
  <2>1. \A q \in Clients : pc'[q] = IF q = p THEN label ELSE pc[q]
    BY <1>1 DEF ClientsOK, Goto
  <2>2. QED
    BY <1>1, <2>1 DEF PriorOK
<1>2. ASSUME NEW p \in Clients, UNCHANGED chain, NEW label, Goto(p, label),
             \A q \in Clients : q # p => op'[q] = op[q] /\ prior'[q] = prior[q],
             \/ label \notin {"get", "cpack", "cbundle", "commit", "index", "tomb"}
             \/ prior'[p] = chain /\ chain # NoChain
      PROVE  PriorOK'
  <2>1. \A q \in Clients : pc'[q] = IF q = p THEN label ELSE pc[q]
    BY <1>2 DEF ClientsOK, Goto
  <2>2. QED
    BY <1>2, <2>1 DEF PriorOK
<1>3. ASSUME NEW p \in Clients, UNCHANGED chain, Goto(p, "idle"), Forget(p) PROVE PriorOK'
  BY <1>3, <1>2 DEF Forget, ClientsOK
<1>4. ASSUME NEW p \in Clients, Begin(p) PROVE PriorOK'
  <2>1. PICK label \in {"load", "lock", "open"} : Goto(p, label)
    BY <1>4, Zenon DEF Begin
  <2>2. UNCHANGED <<chain, prior>> /\ \A q \in Clients : q # p => op'[q] = op[q]
    BY <1>4 DEF Begin, ClientsOK, remote
  <2>3. QED
    BY <2>1, <2>2, <1>2
<1>5. ASSUME NEW p \in Clients, LoadForPush(p) \/ LoadForCompact(p) \/ ReloadForCompact(p) PROVE PriorOK'
  <2>1. PICK label : \/ Goto(p, "idle") /\ Forget(p)
                     \/ /\ op' = op /\ Goto(p, label)
                        /\ \/ label \in {"pack", "lock", "release"} /\ prior' = prior
                           \/ /\ label \in {"pack", "lock", "get"} /\ prior' = [prior EXCEPT ![p] = chain]
                              /\ label = "get" => chain # NoChain
    BY <1>5 DEF LoadForPush, LoadForCompact, ReloadForCompact, Leave, Finish
  <2>2. UNCHANGED chain
    BY <1>5 DEF LoadForPush, LoadForCompact, ReloadForCompact, remote
  <2>3. QED
    BY <2>1, <2>2, <1>2, <1>3 DEF ClientsOK
<1>6. ASSUME NEW p \in Clients, UploadPack(p) \/ UploadBundle(p) \/ Open(p) \/ Confirm(p) \/ AcquireLock(p)
      PROVE  PriorOK'
  <2>1. UNCHANGED chain
    BY <1>6 DEF UploadPack, UploadBundle, Open, Confirm, AcquireLock, remote
  <2>2. PICK label : \/ Goto(p, "idle") /\ Forget(p)
                     \/ Advance(p, label) /\ label \notin {"get", "cpack", "cbundle", "commit", "index", "tomb"}
    <3>1. CASE AcquireLock(p)
      <4>1. pc[p] = "lock" => AfterLock(op[p].kind) \in {"reload", "list", "mark", "unmark"}
        BY ConstantsAssumption DEF StageOK, Stage, AfterLock
      <4>2. QED
        BY <3>1, <4>1 DEF AcquireLock, Finish
    <3>2. CASE Open(p) \/ Confirm(p)
      BY <3>2 DEF Open, Confirm, Finish
    <3>3. CASE UploadPack(p) \/ UploadBundle(p)
      BY <3>3 DEF UploadPack, UploadBundle
    <3>4. QED
      BY <1>6, <3>1, <3>2, <3>3
  <2>3. QED
    BY <2>1, <2>2, <1>1, <1>3 DEF Advance
<1>7. ASSUME NEW p \in Clients, ReloadForPush(p) PROVE PriorOK'
  <2>1. PICK label \in {"release", "commit"} : Advance(p, label)
    BY <1>7 DEF ReloadForPush, Leave, Advance
  <2>2. UNCHANGED chain /\ op[p].kind # "compact"
    BY <1>7 DEF ReloadForPush, remote
  <2>3. QED
    BY <2>1, <2>2, <1>1 DEF Advance
<1>8. ASSUME NEW p \in Clients, Commit(p) PROVE PriorOK'
  <2>1. \A q \in Clients : q # p => pc[q] \notin UnderLock
    BY <1>8, OnlyHolder DEF Commit, UnderLock
  <2>2. \A q \in Clients : pc'[q] = IF q = p THEN "index" ELSE pc[q]
    BY <1>8 DEF Commit, Advance, Goto, ClientsOK
  <2>3. UNCHANGED <<op, prior>>
    BY <1>8 DEF Commit, Advance
  <2>4. op[p].kind = "compact" => prior[p] # NoChain
    BY <1>8 DEF Commit, PriorOK
  <2>5. QED
    BY <2>1, <2>2, <2>3, <2>4 DEF PriorOK, UnderLock
<1>9. ASSUME NEW p \in Clients, WriteIndex(p) \/ TombstoneBaseline(p) PROVE PriorOK'
  <2>1. UNCHANGED chain /\ pc[p] \in {"index", "tomb"}
        /\ \E label \in {"release", "tomb"} : Advance(p, label)
    BY <1>9 DEF WriteIndex, TombstoneBaseline, Leave, Advance
  <2>2. QED
    BY <2>1, <1>1 DEF Advance
<1>10. ASSUME NEW p \in Clients, Download(p) \/ CompactPack(p) \/ CompactBundle(p) PROVE PriorOK'
  <2>1. UNCHANGED chain /\ pc[p] \in {"get", "cpack", "cbundle"}
        /\ \E label \in {"release", "cpack", "cbundle", "commit"} : Advance(p, label)
    BY <1>10 DEF Download, CompactPack, CompactBundle, Leave, Advance, remote
  <2>2. prior[p] = chain /\ chain # NoChain
    BY <2>1 DEF PriorOK
  <2>3. QED
    BY <2>1, <2>2, <1>1 DEF Advance
<1>11. ASSUME NEW p \in Clients,
              \/ ListForDelete(p) \/ ListForDeleteBranch(p) \/ DeferBaseline(p) \/ Deleted(p)
              \/ Protect(p) \/ Unprotect(p)
       PROVE  PriorOK'
  <2>1. UNCHANGED <<chain, op, prior>> /\ \E label \in {"release", "defer", "del"} : Goto(p, label)
    <3>1. CASE DeferBaseline(p)
      BY <3>1 DEF DeferBaseline
    <3>2. QED
      BY <1>11, <3>1 DEF ListForDelete, ListForDeleteBranch, Deleted, Protect, Unprotect, Leave, remote
  <2>2. QED
    BY <2>1, <1>1
<1>12. ASSUME NEW p \in Clients, DeleteOne(p) PROVE PriorOK'
  <2>1. \A q \in Clients : q # p => pc[q] \notin UnderLock
    BY <1>12, OnlyHolder DEF DeleteOne, UnderLock
  <2>2. pc[p] = "del" /\ UNCHANGED <<op, prior>> /\ (pc' = pc \/ Goto(p, "release"))
    BY <1>12 DEF DeleteOne
  <2>3. \A q \in Clients : q # p => pc'[q] = pc[q]
    BY <2>2 DEF Goto, ClientsOK
  <2>4. pc'[p] \in {"del", "release"}
    BY <2>2 DEF Goto, ClientsOK
  <2>5. QED
    BY <2>1, <2>2, <2>3, <2>4 DEF PriorOK, UnderLock
<1>13. ASSUME NEW p \in Clients, Release(p) \/ RequestFails(p) \/ Crash(p) PROVE PriorOK'
  <2>1. UNCHANGED chain
    BY <1>13 DEF Release, RequestFails, Crash, remote
  <2>2. (Goto(p, "idle") /\ Forget(p)) \/ Leave(p, "failed")
    BY <1>13 DEF Release, RequestFails, Crash, Finish
  <2>3. QED
    BY <2>1, <2>2, <1>1, <1>3 DEF Leave
<1>14. CASE UNCHANGED <<chain, pc, op, prior>>
  BY <1>14 DEF PriorOK
<1>15. CASE Background \/ Tick \/ UNCHANGED vars
  BY <1>15, <1>14, BackgroundFrame DEF Tick, vars, client, remote
<1>16. QED
  BY <1>4, <1>5, <1>6, <1>7, <1>8, <1>9, <1>10, <1>11, <1>12, <1>13, <1>15
     DEF Next, ClientStep, PushStep, CompactStep, ManageStep, Background

-----------------------------------------------------------------------------
(* The numbering of the tombstones.                                        *)

\* An operation that has not written its tombstone; it has one number.
Pending(label) == label \notin {"idle", "del", "release"}

LEMMA NumbersStep == TypeInv /\ [Next]_vars => NumbersOK'
<1> SUFFICES ASSUME TypeInv, [Next]_vars PROVE NumbersOK'
  OBVIOUS
<1> USE DEF TypeInv, TypeOK, Typed
<1>t. ops \in Nat /\ marks \in Nat /\ \A q \in Clients : num[q] \in Nat
  BY ConstantsAssumption DEF ClientsOK, GcOK
<1>1. ASSUME UNCHANGED <<tombs, marks, ops, mark>>, num' = num,
             NEW p \in Clients, NEW label, Goto(p, label),
             label # "idle" => pc[p] # "idle" /\ (Pending(label) => Pending(pc[p]))
      PROVE  NumbersOK'
  <2>1. \A q \in Clients : pc'[q] = IF q = p THEN label ELSE pc[q]
    BY <1>1 DEF Goto, ClientsOK
  <2>2. QED
    BY <1>1, <2>1 DEF NumbersOK, Pending
<1>2. ASSUME UNCHANGED <<tombs, marks, ops, mark>>, NEW p \in Clients, Goto(p, "idle"), Forget(p)
      PROVE  NumbersOK'
  <2>1. \A q \in Clients : /\ pc'[q] = IF q = p THEN "idle" ELSE pc[q]
                          /\ num'[q] = IF q = p THEN 0 ELSE num[q]
    BY <1>2 DEF Goto, Forget, ClientsOK
  <2>2. QED
    BY <1>2, <2>1 DEF NumbersOK
<1>3. ASSUME NEW p \in Clients, Begin(p) PROVE NumbersOK'
  <2>1. PICK label \in {"load", "lock", "open"} : Goto(p, label)
    BY <1>3, Zenon DEF Begin
  <2>2. \A q \in Clients : /\ pc'[q] = IF q = p THEN label ELSE pc[q]
                          /\ num'[q] = IF q = p THEN ops + 1 ELSE num[q]
    BY <1>3, <2>1 DEF Begin, Goto, ClientsOK
  <2>3. UNCHANGED <<tombs, marks, mark>> /\ ops' = ops + 1
    BY <1>3 DEF Begin, remote, gc
  <2>4. \A t \in tombs : t.id # <<"base", ops + 1>>
    <3> SUFFICES ASSUME NEW t \in tombs, t.id = <<"base", ops + 1>> PROVE FALSE
      OBVIOUS
    <3>1. t.id[1] = "base" /\ t.id[2] = ops + 1
      OBVIOUS
    <3>2. QED
      BY <3>1, <1>t DEF NumbersOK
  <2>5. \A t \in tombs : t.id[1] = "base" => t.id[2] <= ops + 1
    <3>1. \A t \in tombs : t.id \in TombIds /\ t.id[2] \in Nat
      BY ConstantsAssumption DEF StoreOK, TombIds
    <3>2. QED
      BY <3>1, <1>t DEF NumbersOK
  <2>6. /\ \A q \in Clients : pc'[q] # "idle" => num'[q] \in 1..ops'
        /\ \A q, r \in Clients : pc'[q] # "idle" /\ pc'[r] # "idle" /\ num'[q] = num'[r] => q = r
    <3>1. \A q \in Clients : pc[q] # "idle" => num[q] \in 1..ops
      BY DEF NumbersOK
    <3>2. QED
      BY <2>2, <2>3, <3>1, <1>t DEF NumbersOK
  <2>7. QED
    BY <2>2, <2>3, <2>4, <2>5, <2>6 DEF NumbersOK
<1>4. ASSUME NEW p \in Clients, NEW q \in Clients, NEW id, id = <<"base", num[p]>>,
             Pending(pc[p]), Pending(pc[q]) \/ pc[q] # "idle", p # q
      PROVE  id # <<"base", num[q]>>
  BY <1>4, <1>t DEF NumbersOK, Pending
<1>5. ASSUME NEW p \in Clients, NEW label, label \in {"del", "release"}, pc[p] \in {"defer", "tomb"},
             Goto(p, label), num' = num,
             UNCHANGED <<marks, ops, mark>>,
             \A t \in tombs' : t \in tombs \/ t.id = <<"base", num[p]>>
      PROVE  NumbersOK'
  <2>1. \A q \in Clients : pc'[q] = IF q = p THEN label ELSE pc[q]
    BY <1>5 DEF Goto, ClientsOK
  <2>2. num[p] \in 1..ops
    BY <1>5 DEF NumbersOK
  <2>3. \A t \in tombs' : t \in tombs \/ (t.id = <<"base", num[p]>> /\ t.id[1] = "base" /\ t.id[2] = num[p])
    BY <1>5
  <2>4. \A q \in Clients : q # p /\ Pending(pc[q]) => <<"base", num[p]>> # <<"base", num[q]>>
    BY <1>5, <1>4 DEF Pending
  <2>5. \A t \in tombs' : t \in tombs \/ t.id # <<"packs", marks>>
    BY <2>3
  <2>6. QED
    BY <1>5, <2>1, <2>2, <2>3, <2>4, <2>5, <1>t DEF NumbersOK, Pending
<1>6. ASSUME NEW p \in Clients,
             \/ LoadForPush(p) \/ LoadForCompact(p) \/ UploadPack(p) \/ UploadBundle(p) \/ Open(p)
             \/ Confirm(p) \/ AcquireLock(p)
      PROVE  NumbersOK'
  <2>1. UNCHANGED <<tombs, marks, ops, mark>>
    BY <1>6 DEF LoadForPush, LoadForCompact, UploadPack, UploadBundle, Open, Confirm, AcquireLock, remote, gc
  <2>2. Pending(pc[p])
    BY <1>6 DEF LoadForPush, LoadForCompact, UploadPack, UploadBundle, Open, Confirm, AcquireLock, Pending
  <2>3. (Goto(p, "idle") /\ Forget(p)) \/ \E label : Goto(p, label) /\ num' = num
    BY <1>6 DEF LoadForPush, LoadForCompact, UploadPack, UploadBundle, Open, Confirm, AcquireLock,
                Finish, Advance
  <2>4. QED
    BY <2>1, <2>2, <2>3, <1>1, <1>2 DEF Pending
<1>7. ASSUME NEW p \in Clients,
             \/ ReloadForPush(p) \/ ReloadForCompact(p) \/ Commit(p) \/ WriteIndex(p) \/ Download(p)
             \/ CompactPack(p) \/ CompactBundle(p) \/ ListForDelete(p) \/ ListForDeleteBranch(p)
             \/ Deleted(p) \/ Protect(p) \/ Unprotect(p)
      PROVE  NumbersOK'
  <2>1. UNCHANGED <<tombs, marks, ops, mark>>
    BY <1>7 DEF ReloadForPush, ReloadForCompact, Commit, WriteIndex, Download, CompactPack, CompactBundle,
                ListForDelete, ListForDeleteBranch, Deleted, Protect, Unprotect, remote, gc
  <2>2. pc[p] # "idle" /\ (pc[p] = "del" \/ Pending(pc[p]))
    BY <1>7 DEF ReloadForPush, ReloadForCompact, Commit, WriteIndex, Download, CompactPack, CompactBundle,
                ListForDelete, ListForDeleteBranch, Deleted, Protect, Unprotect, Pending
  <2>3. \E label : Goto(p, label) /\ num' = num /\ (pc[p] = "del" => label = "release")
    BY <1>7 DEF ReloadForPush, ReloadForCompact, Commit, WriteIndex, Download, CompactPack, CompactBundle,
                ListForDelete, ListForDeleteBranch, Deleted, Protect, Unprotect, Leave, Advance
  <2>4. QED
    BY <2>1, <2>2, <2>3, <1>1 DEF Pending
<1>8. ASSUME NEW p \in Clients, TombstoneBaseline(p) PROVE NumbersOK'
  <2>1. \A t \in tombs' : t \in tombs \/ t.id = <<"base", num[p]>>
    BY <1>8 DEF TombstoneBaseline
  <2>2. pc[p] = "tomb" /\ Goto(p, "release") /\ num' = num /\ UNCHANGED <<marks, ops, mark>>
    BY <1>8 DEF TombstoneBaseline, Leave, gc
  <2>3. QED
    BY <2>1, <2>2, <1>5
<1>9. ASSUME NEW p \in Clients, DeferBaseline(p) PROVE NumbersOK'
  <2>1. \A t \in tombs' : t \in tombs \/ t.id = <<"base", num[p]>>
    BY <1>9 DEF DeferBaseline
  <2>2. pc[p] = "defer" /\ Goto(p, "del") /\ num' = num /\ UNCHANGED <<marks, ops, mark>>
    BY <1>9 DEF DeferBaseline, gc
  <2>3. QED
    BY <2>1, <2>2, <1>5
<1>10. CASE UNCHANGED <<tombs, marks, ops, mark, pc, num>>
  BY <1>10 DEF NumbersOK
<1>11. ASSUME NEW p \in Clients, DeleteOne(p) PROVE NumbersOK'
  <2>1. pc[p] = "del" /\ (pc' = pc \/ Goto(p, "release")) /\ UNCHANGED <<tombs, marks, ops, mark, num>>
    BY <1>11 DEF DeleteOne, gc
  <2>2. QED
    BY <2>1, <1>1, <1>10 DEF Pending
<1>12. ASSUME NEW p \in Clients, Release(p) \/ RequestFails(p) \/ Crash(p) PROVE NumbersOK'
  <2>1. UNCHANGED <<tombs, marks, ops, mark>> /\ pc[p] # "idle"
    BY <1>12 DEF Release, RequestFails, Crash, remote, gc, UnderLock
  <2>2. (Goto(p, "idle") /\ Forget(p)) \/ Leave(p, "failed")
    BY <1>12 DEF Release, RequestFails, Crash, Finish
  <2>3. QED
    BY <2>1, <2>2, <1>1, <1>2 DEF Leave, Pending
<1>13. CASE MarkStep \/ MarkFails
  <2>1. UNCHANGED <<pc, num, ops>>
    BY <1>13, BackgroundFrame DEF Background, client
  <2>2. CASE MarkList
    <3>1. marks' = marks + 1 /\ tombs' = tombs /\ mark.at = "idle"
      BY <2>2 DEF MarkList, remote
    <3>2. \A t \in tombs : t.id \in TombIds /\ t.id[2] \in Nat
      BY ConstantsAssumption DEF StoreOK, TombIds
    <3>3. \A t \in tombs : t.id # <<"packs", marks + 1>>
      <4> SUFFICES ASSUME NEW t \in tombs, t.id = <<"packs", marks + 1>> PROVE FALSE
        OBVIOUS
      <4>1. t.id[1] = "packs" /\ t.id[2] = marks + 1
        OBVIOUS
      <4>2. QED
        BY <4>1, <1>t DEF NumbersOK
    <3>4. QED
      BY <2>1, <3>1, <3>2, <3>3, <1>t DEF NumbersOK
  <2>3. CASE MarkChains
    BY <2>1, <2>3 DEF MarkChains, NumbersOK, remote
  <2>4. CASE MarkRefs
    <3>1. mark.at # "idle" /\ UNCHANGED <<tombs, marks>>
      BY <2>4 DEF MarkRefs, remote
    <3>2. QED
      BY <2>1, <3>1 DEF NumbersOK
  <2>5. CASE MarkPut
    <3>1. mark.at # "idle" /\ mark'.at = "idle" /\ marks' = marks
      BY <2>5 DEF MarkPut, NoMark
    <3>2. \A t \in tombs' : t \in tombs \/ t.id = <<"packs", marks>>
      BY <2>5 DEF MarkPut
    <3>3. \A t \in tombs' : t \in tombs \/ (t.id = <<"packs", marks>> /\ t.id[1] = "packs" /\ t.id[2] = marks)
      BY <3>2
    <3>4. \A q \in Clients : <<"packs", marks>> # <<"base", num[q]>>
      OBVIOUS
    <3>5. QED
      BY <2>1, <3>1, <3>3, <3>4, <1>t DEF NumbersOK
  <2>6. CASE MarkFails
    BY <2>1, <2>6 DEF MarkFails, NoMark, NumbersOK, remote
  <2>7. QED
    BY <1>13, <2>2, <2>3, <2>4, <2>5, <2>6 DEF MarkStep
<1>14. CASE SweepStep \/ SweepFails
  <2>1. UNCHANGED <<pc, num, ops>>
    BY <1>14, BackgroundFrame DEF Background, client
  <2>2. tombs' \subseteq tombs /\ UNCHANGED <<mark, marks>>
    BY <1>14 DEF SweepStep, SweepList, SweepRead, SweepCheck, SweepLoad, SweepRecheck, SweepRemove,
         SweepTomb, SweepDone, SweepFails, remote
  <2>3. QED
    BY <2>1, <2>2 DEF NumbersOK
<1>15. CASE StaleRecovery \/ FetchStart \/ FetchStep \/ UNCHANGED vars
  BY <1>15, <1>10
     DEF StaleRecovery, FetchStart, FetchStep, FetchLoad, FetchGet, FetchInstall, FetchReload, FetchDone, vars,
         remote, client, gc
<1>16. CASE Tick
  <2>1. \A t \in tombs' : \E u \in tombs : t = [u EXCEPT !.age = Older(@)]
    BY <1>16 DEF Tick
  <2>2. \A t \in tombs' : \E u \in tombs : t.id = u.id
    BY <2>1 DEF StoreOK
  <2>3. mark'.at = mark.at
    <3>1. mark' = [mark EXCEPT !.age = IF mark.at = "put" THEN Older(@) ELSE @] /\ mark \in MarkType
      BY <1>16 DEF Tick, GcOK
    <3>2. QED
      BY <3>1 DEF MarkType
  <2>4. UNCHANGED <<marks, ops, pc, num>>
    BY <1>16 DEF Tick
  <2>5. QED
    BY <2>2, <2>3, <2>4 DEF NumbersOK
<1>17. QED
  BY <1>3, <1>6, <1>7, <1>8, <1>9, <1>11, <1>12, <1>13, <1>14, <1>15, <1>16
     DEF Next, ClientStep, PushStep, CompactStep, ManageStep

LEMMA TypeInit == Init => TypeInv
<1> SUFFICES ASSUME Init PROVE TypeInv
  OBVIOUS
<1>1. StoreOK /\ GcOK /\ read \in ReadType
  <2>1. /\ chain = NoChain /\ index = None /\ objs = {} /\ protected = FALSE /\ tombs = {}
        /\ mark = NoMark /\ sweep = NoSwp /\ read = NoRead /\ marks = 0
    BY DEF Init
  <2>2. StoreOK
    BY <2>1 DEF StoreOK
  <2>3. QED
    BY <2>1, <2>2, Idle, ConstantsAssumption DEF GcOK
<1>2. ClientsOK
  <2>1. /\ pc \in [Clients -> Unlocked \cup UnderLock]
        /\ \A p \in Clients : lock = p <=> pc[p] \in UnderLock
    BY ConstantsAssumption DEF Init, Unlocked, UnderLock
  <2>2. op \in [Clients -> [kind : Kinds \cup {"none"}, local : Commits]]
    BY NoOpType DEF Init
  <2>3. QED
    BY <2>1, <2>2, ConstantsAssumption DEF Init, ClientsOK
<1>3. StageOK
  BY DEF Init, StageOK, Stage
<1>4. PriorOK /\ NumbersOK
  BY DEF Init, PriorOK, NumbersOK, NoMark
<1>5. Typed
  BY <1>1, <1>2, ConstantsAssumption DEF Init, Typed
<1>6. torn \in BOOLEAN
  BY DEF Init
<1>7. QED
  BY <1>3, <1>4, <1>5, <1>6 DEF TypeInv, TypeOK

LEMMA TypeInvariant == Spec => []TypeInv
<1>1. Init => TypeInv
  BY TypeInit
<1>2. TypeInv /\ [Next]_vars => TypeInv'
  BY TypeStep, StageStep, PriorStep, NumbersStep DEF TypeInv
<1>3. QED
  BY <1>1, <1>2, PTL DEF Spec

\* The type invariant of the packchain engine is preserved by every request
\* of every operation, by mark, sweep and fetch, by failed requests and by
\* crashes; with it, the lock is owned exactly by the client that is between
\* acquire and release, and each tombstone keeps its own key.
THEOREM TypeCorrect == Spec => []TypeOK
<1>1. TypeInv => TypeOK
  BY DEF TypeInv
<1>2. QED
  BY <1>1, TypeInvariant, PTL

-----------------------------------------------------------------------------
(* The register.                                                           *)

LEMMA JudgedStep == TypeInv /\ JudgedOK /\ [Next]_vars => JudgedOK'
<1> SUFFICES ASSUME TypeInv, JudgedOK, [Next]_vars PROVE JudgedOK'
  OBVIOUS
<1> USE DEF TypeInv, TypeOK, Typed
<1>1. ASSUME UNCHANGED <<chain, protected>>, NEW p \in Clients, NEW label, Goto(p, label),
             \A q \in Clients : q # p => op'[q] = op[q] /\ prior'[q] = prior[q],
             \/ label \notin {"pack", "bundle", "lock", "reload", "commit", "defer", "del"}
             \/ Judged(label, op'[p], prior'[p])
      PROVE  JudgedOK'
  <2>1. \A q \in Clients : pc'[q] = IF q = p THEN label ELSE pc[q]
    BY <1>1 DEF ClientsOK, Goto
  <2>2. ASSUME NEW q \in Clients PROVE Judged(pc[q], op[q], prior[q])'
    BY <1>1, <2>1 DEF JudgedOK, Judged, FastForward
  <2>3. QED
    BY <2>2 DEF JudgedOK
<1>2. ASSUME UNCHANGED <<chain, protected>>, NEW p \in Clients, Goto(p, "idle"), Forget(p) PROVE JudgedOK'
  BY <1>2, <1>1 DEF Forget, ClientsOK
<1>3. ASSUME UNCHANGED <<chain, protected>>, NEW p \in Clients, NEW label, Advance(p, label),
             \/ label \notin {"pack", "bundle", "lock", "reload", "commit", "defer", "del"}
             \/ Judged(label, op[p], prior[p])
      PROVE  JudgedOK'
  BY <1>3, <1>1 DEF Advance
<1>4. ASSUME NEW p \in Clients, Begin(p) PROVE JudgedOK'
  <2>1. PICK kind \in Kinds, local \in Commits :
          op' = [op EXCEPT ![p] = [kind |-> kind, local |-> local]]
          /\ Goto(p, CASE kind \in {"push", "force", "compact"} -> "load"
                       [] kind = "delete" -> "lock"
                       [] OTHER -> "open")
    BY <1>4 DEF Begin
  <2>2. PICK label \in {"load", "lock", "open"} : Goto(p, label) /\ (label = "lock" => kind = "delete")
    BY <2>1, Zenon
  <2>3. op'[p].kind = kind /\ \A q \in Clients : q # p => op'[q] = op[q]
    BY <2>1 DEF ClientsOK
  <2>4. UNCHANGED <<chain, protected, prior>>
    BY <1>4 DEF Begin, remote
  <2>5. Judged(label, op'[p], prior'[p])
    BY <2>2, <2>3 DEF Judged
  <2>6. QED
    BY <2>2, <2>3, <2>4, <2>5, <1>1
<1>5. ASSUME NEW p \in Clients, LoadForPush(p) PROVE JudgedOK'
  <2>1. UNCHANGED <<chain, protected>>
    BY <1>5 DEF LoadForPush, remote
  <2>2. CASE Finish(p, "ok")
    BY <2>1, <2>2, <1>2 DEF Finish
  <2>3. CASE /\ op[p].kind = "push" => FastForward(chain, op[p].local)
             /\ prior' = [prior EXCEPT ![p] = chain] /\ Goto(p, "pack") /\ UNCHANGED op
    <3>1. prior'[p] = chain /\ \A q \in Clients : q # p => prior'[q] = prior[q]
      BY <2>3 DEF ClientsOK
    <3>2. Judged("pack", op'[p], prior'[p])
      BY <2>3, <3>1 DEF Judged
    <3>3. QED
      BY <2>1, <2>3, <3>1, <3>2, <1>1
  <2>4. QED
    BY <1>5, <2>2, <2>3 DEF LoadForPush, Finish
<1>6. ASSUME NEW p \in Clients, LoadForCompact(p) \/ ReloadForCompact(p) PROVE JudgedOK'
  <2>1. UNCHANGED <<chain, protected>> /\ op[p].kind = "compact"
    BY <1>6 DEF LoadForCompact, ReloadForCompact, remote
  <2>2. \/ Goto(p, "idle") /\ Forget(p)
        \/ /\ UNCHANGED op /\ (\E label \in {"lock", "get", "release"} : Goto(p, label))
           /\ UNCHANGED prior \/ prior' = [prior EXCEPT ![p] = chain]
    BY <1>6 DEF LoadForCompact, ReloadForCompact, Finish, Leave
  <2>3. \A label \in {"lock", "get", "release"} : Judged(label, op[p], prior'[p])
    BY <2>1 DEF Judged
  <2>4. QED
    BY <2>1, <2>2, <2>3, <1>1, <1>2 DEF ClientsOK
<1>7. ASSUME NEW p \in Clients,
             UploadPack(p) \/ UploadBundle(p) \/ Open(p) \/ Confirm(p) \/ AcquireLock(p)
      PROVE  JudgedOK'
  <2>1. UNCHANGED <<chain, protected>>
    BY <1>7 DEF UploadPack, UploadBundle, Open, Confirm, AcquireLock, remote
  <2>2. Judged(pc[p], op[p], prior[p])
    BY DEF JudgedOK
  <2>3. CASE AcquireLock(p)
    <3>1. CASE Finish(p, "contended")
      BY <2>1, <3>1, <1>2 DEF Finish
    <3>2. CASE Advance(p, AfterLock(op[p].kind))
      <4>1. pc[p] = "lock"
        BY <2>3 DEF AcquireLock
      <4>2. AfterLock(op[p].kind) \in {"reload", "list", "mark", "unmark"}
        BY <4>1, ConstantsAssumption DEF StageOK, Stage, AfterLock
      <4>3. Judged(AfterLock(op[p].kind), op[p], prior[p])
        BY <2>2, <4>1, <4>2 DEF Judged
      <4>4. QED
        BY <2>1, <3>2, <4>3, <1>3
    <3>3. QED
      BY <2>3, <3>1, <3>2 DEF AcquireLock
  <2>4. CASE Open(p) \/ Confirm(p)
    <3>1. op[p].kind \notin {"push", "force"}
      BY <2>4 DEF Open, Confirm, StageOK, Stage
    <3>2. (Goto(p, "idle") /\ Forget(p)) \/ \E label \in {"confirm", "lock"} : Advance(p, label)
      BY <2>4 DEF Open, Confirm, Finish
    <3>3. \A label \in {"confirm", "lock"} : Judged(label, op[p], prior[p])
      BY <3>1 DEF Judged
    <3>4. QED
      BY <2>1, <3>2, <3>3, <1>2, <1>3
  <2>5. CASE UploadPack(p) \/ UploadBundle(p)
    <3>1. pc[p] \in {"pack", "bundle"} /\ \E label \in {"bundle", "lock"} : Advance(p, label)
      BY <2>5 DEF UploadPack, UploadBundle
    <3>2. \A label \in {"bundle", "lock"} : Judged(label, op[p], prior[p])
      BY <2>2, <3>1 DEF Judged
    <3>3. QED
      BY <2>1, <3>1, <3>2, <1>3
  <2>6. QED
    BY <1>7, <2>3, <2>4, <2>5
<1>8. ASSUME NEW p \in Clients, ReloadForPush(p) PROVE JudgedOK'
  <2>1. UNCHANGED <<chain, protected>> /\ pc[p] = "reload" /\ op[p].kind \in {"push", "force"}
    BY <1>8 DEF ReloadForPush, remote
  <2>2. \/ Advance(p, "release")
        \/ /\ Advance(p, "commit")
           /\ op[p].kind = "force" => ~protected \/ FastForward(chain, op[p].local)
           /\ op[p].kind = "push" => prior[p].tip = chain.tip
    BY <1>8 DEF ReloadForPush, Leave, Advance
  <2>3. Judged("reload", op[p], prior[p])
    BY <2>1 DEF JudgedOK
  <2>4. QED
    BY <2>1, <2>2, <2>3, <1>3 DEF Judged
<1>9. ASSUME NEW p \in Clients,
             \/ WriteIndex(p) \/ TombstoneBaseline(p) \/ Download(p) \/ CompactPack(p) \/ CompactBundle(p)
             \/ Deleted(p)
      PROVE  JudgedOK'
  <2>1. UNCHANGED <<chain, protected>>
    BY <1>9 DEF WriteIndex, TombstoneBaseline, Download, CompactPack, CompactBundle, Deleted, remote
  <2>2. PICK label \in {"tomb", "release", "cpack", "cbundle", "commit"} :
          Advance(p, label) /\ (label = "commit" => op[p].kind = "compact")
    <3>1. pc[p] = "cbundle" => op[p].kind = "compact"
      BY DEF StageOK, Stage
    <3>2. QED
      BY <1>9, <3>1 DEF WriteIndex, TombstoneBaseline, Download, CompactPack, CompactBundle, Deleted, Leave, Advance
  <2>3. label = "commit" => Judged(label, op[p], prior[p])
    BY <2>2 DEF Judged
  <2>4. QED
    BY <2>1, <2>2, <2>3, <1>3
\* Nobody else is under the lock when the ref changes.
<1>10. ASSUME NEW p \in Clients, pc[p] \in UnderLock, NEW label \in {"index", "del", "release"},
              \/ Goto(p, label) /\ (label = "del" => ~protected')
              \/ pc' = pc /\ pc[p] = "del" /\ ~protected',
              op' = op, prior' = prior
       PROVE  JudgedOK'
  <2>1. \A q \in Clients : q # p => pc[q] \notin UnderLock /\ pc'[q] = pc[q]
    BY <1>10, OnlyHolder DEF Goto, ClientsOK
  <2>2. pc'[p] \in {"index", "del", "release"} /\ (pc'[p] = "del" => ~protected')
    BY <1>10 DEF Goto, ClientsOK
  <2>3. ASSUME NEW q \in Clients, q # p PROVE Judged(pc[q], op[q], prior[q])'
    BY <1>10, <2>1, <2>3 DEF JudgedOK, Judged, FastForward, UnderLock
  <2>4. Judged(pc[p], op[p], prior[p])'
    BY <2>2 DEF Judged
  <2>5. QED
    BY <2>3, <2>4 DEF JudgedOK
<1>11. ASSUME NEW p \in Clients, Commit(p) \/ Protect(p) \/ Unprotect(p) PROVE JudgedOK'
  <2>1. pc[p] \in UnderLock
    BY <1>11 DEF Commit, Protect, Unprotect, UnderLock
  <2>2. UNCHANGED <<op, prior>> /\ \E label \in {"index", "release"} : Goto(p, label)
    BY <1>11 DEF Commit, Protect, Unprotect, Advance, Leave
  <2>3. QED
    BY <2>1, <2>2, <1>10
<1>12. ASSUME NEW p \in Clients, DeleteOne(p) PROVE JudgedOK'
  <2>1. /\ pc[p] = "del" /\ (pc' = pc \/ Goto(p, "release"))
        /\ UNCHANGED <<op, prior, protected>>
    BY <1>12 DEF DeleteOne
  <2>2. ~protected
    BY <2>1 DEF JudgedOK, Judged
  <2>3. QED
    BY <2>1, <2>2, <1>10 DEF UnderLock
<1>13. ASSUME NEW p \in Clients, ListForDelete(p) \/ ListForDeleteBranch(p) \/ DeferBaseline(p) PROVE JudgedOK'
  <2>1. UNCHANGED <<chain, protected, op, prior>>
    <3>1. CASE DeferBaseline(p)
      BY <3>1 DEF DeferBaseline
    <3>2. QED
      BY <1>13, <3>1 DEF ListForDelete, ListForDeleteBranch, Leave, remote
  <2>2. \/ Goto(p, "release")
        \/ \E label \in {"defer", "del"} : Goto(p, label) /\ ~protected
    <3>1. CASE DeferBaseline(p)
      <4>1. pc[p] = "defer" /\ Goto(p, "del")
        BY <3>1 DEF DeferBaseline
      <4>2. QED
        BY <4>1 DEF JudgedOK, Judged
    <3>2. QED
      BY <1>13, <3>1 DEF ListForDelete, ListForDeleteBranch, Leave
  <2>3. pc[p] \in {"list", "defer"}
    BY <1>13 DEF ListForDelete, ListForDeleteBranch, DeferBaseline
  <2>4. op[p].kind \in {"delete", "deleteBranch"}
    BY <2>3 DEF StageOK, Stage, Deletes
  <2>5. ~protected => \A label \in {"defer", "del"} : Judged(label, op[p], prior[p])
    BY <2>4 DEF Judged
  <2>6. QED
    BY <2>1, <2>2, <2>5, <1>1
<1>14. ASSUME NEW p \in Clients, Release(p) \/ RequestFails(p) \/ Crash(p) PROVE JudgedOK'
  <2>1. UNCHANGED <<chain, protected>>
    BY <1>14 DEF Release, RequestFails, Crash, remote
  <2>2. (Goto(p, "idle") /\ Forget(p)) \/ Advance(p, "release")
    BY <1>14 DEF Release, RequestFails, Crash, Finish, Leave, Advance
  <2>3. QED
    BY <2>1, <2>2, <1>2, <1>3
<1>15. CASE Background \/ Tick \/ UNCHANGED vars
  <2>1. UNCHANGED <<chain, protected, pc, op, prior>>
    BY <1>15, BackgroundFrame DEF Tick, vars, client, remote
  <2>2. ASSUME NEW q \in Clients PROVE Judged(pc[q], op[q], prior[q])'
    BY <2>1 DEF JudgedOK, Judged, FastForward
  <2>3. QED
    BY <2>2 DEF JudgedOK
<1>16. QED
  BY <1>4, <1>5, <1>6, <1>7, <1>8, <1>9, <1>11, <1>12, <1>13, <1>14, <1>15
     DEF Next, ClientStep, PushStep, CompactStep, ManageStep, Background

\* What one step is to the users of the ref.
LEMMA RegisterStep == RegisterInv /\ [Next]_vars => [Register!Next]_(Register!register)
<1> SUFFICES ASSUME RegisterInv, [Next]_vars PROVE [Register!Next]_(Register!register)
  OBVIOUS
<1> USE DEF RegisterInv, TypeInv, TypeOK, Typed, Register!register
<1>n. Register!NoWant = NoOp
  BY DEF Register!NoWant, NoOp
<1>1. CASE UNCHANGED <<chain, protected, op>>
  BY <1>1
<1>2. ASSUME NEW p \in Clients, UNCHANGED <<chain, protected>>, pc[p] # "idle", Forget(p)
      PROVE  Register!Next
  <2>1. op[p].kind # "none"
    BY <1>2, ConstantsAssumption DEF StageOK, Stage
  <2>2. op[p] # NoOp /\ op' = [op EXCEPT ![p] = NoOp]
    BY <1>2, <2>1, NoOpType DEF Forget
  <2>3. op[p] # Register!NoWant /\ op' = [op EXCEPT ![p] = Register!NoWant]
    BY <2>2, <1>n
  <2>4. Register!Done(p)
    BY <1>2, <2>3 DEF Register!Done
  <2>5. QED
    BY <2>4 DEF Register!Next
<1>3. ASSUME NEW p \in Clients, Begin(p) PROVE Register!Next
  <2>1. PICK o \in [kind : Kinds, local : Commits] : op' = [op EXCEPT ![p] = o]
    BY <1>3 DEF Begin
  <2>2. op[p] = NoOp /\ UNCHANGED <<chain, protected>>
    BY <1>3 DEF Begin, StageOK, Stage, remote
  <2>3. op'[p] = o
    BY <2>1 DEF ClientsOK
  <2>4. op'[p] \in [kind : Kinds, local : Commits] /\ op' = [op EXCEPT ![p] = op'[p]]
        /\ op[p] = Register!NoWant /\ chain'.tip = chain.tip /\ protected' = protected
    BY <2>1, <2>2, <2>3, <1>n
  <2>5. Register!Ask(p)
    BY <2>4 DEF Register!Ask
  <2>6. QED
    BY <2>5 DEF Register!Next
<1>4. ASSUME NEW p \in Clients,
             LoadForPush(p) \/ LoadForCompact(p) \/ Open(p) \/ Confirm(p) \/ AcquireLock(p)
      PROVE  [Register!Next]_(Register!register)
  <2>1. UNCHANGED <<chain, protected>> /\ pc[p] # "idle" /\ (Forget(p) \/ UNCHANGED op)
    BY <1>4 DEF LoadForPush, LoadForCompact, Open, Confirm, AcquireLock, Finish, Advance, remote
  <2>2. QED
    BY <2>1, <1>1, <1>2
<1>5. ASSUME NEW p \in Clients, UploadPack(p) \/ UploadBundle(p) \/ ReloadForPush(p) \/ ReloadForCompact(p)
                                \/ WriteIndex(p) \/ TombstoneBaseline(p) \/ Download(p) \/ CompactPack(p)
                                \/ CompactBundle(p) \/ ListForDelete(p) \/ ListForDeleteBranch(p)
                                \/ DeferBaseline(p) \/ Deleted(p)
      PROVE  UNCHANGED <<chain, protected, op>>
  <2>1. CASE DeferBaseline(p)
    BY <2>1 DEF DeferBaseline
  <2>2. QED
    BY <1>5, <2>1 DEF UploadPack, UploadBundle, ReloadForPush, ReloadForCompact, WriteIndex, TombstoneBaseline,
                Download, CompactPack, CompactBundle, ListForDelete, ListForDeleteBranch, Deleted,
                Advance, Leave, remote
<1>6. ASSUME NEW p \in Clients, Release(p) \/ RequestFails(p) \/ Crash(p)
      PROVE  [Register!Next]_(Register!register)
  <2>1. UNCHANGED <<chain, protected>> /\ pc[p] # "idle" /\ (Forget(p) \/ UNCHANGED op)
    BY <1>6 DEF Release, RequestFails, Crash, Finish, Leave, remote, UnderLock
  <2>2. QED
    BY <2>1, <1>1, <1>2
<1>7. ASSUME NEW p \in Clients, Commit(p) PROVE [Register!Next]_(Register!register)
  <2>1. chain' = NewChain(p) /\ UNCHANGED <<protected, op>> /\ pc[p] = "commit"
    BY <1>7 DEF Commit, Advance
  <2>2. CASE op[p].kind = "compact"
    <3>1. chain'.tip = chain.tip
      BY <2>1, <2>2 DEF NewChain, PriorOK
    <3>2. QED
      BY <2>1, <3>1
  <2>3. CASE op[p].kind \in {"push", "force"}
    <3>1. chain'.tip = op[p].local
      BY <2>1, <2>3 DEF NewChain, next_manifest, NewPack, Pack
    <3>2. Judged("commit", op[p], prior[p])
      BY <2>1 DEF JudgedOK
    <3>3. chain \in Manifest \cup {NoChain} /\ prior[p] \in Manifest \cup {NoChain}
      BY DEF StoreOK, ClientsOK
    <3>4. FastForward(chain, op[p].local) => Register!Forward(op[p].local)
      BY <3>3, ManifestType DEF FastForward, Register!Forward, Ancestors
    <3>5. op[p].kind = "push" => FastForward(chain, op[p].local)
      BY <3>2, <3>3, ManifestType DEF Judged, FastForward
    <3>6. op[p].kind = "force" /\ protected => FastForward(chain, op[p].local)
      BY <3>2 DEF Judged
    <3>7. Register!Update(p)
      BY <2>1, <2>3, <3>1, <3>4, <3>5, <3>6 DEF Register!Update
    <3>8. QED
      BY <3>7 DEF Register!Next
  <2>4. QED
    BY <2>1, <2>2, <2>3 DEF StageOK, Stage, Writers, Pushes
<1>8. ASSUME NEW p \in Clients, DeleteOne(p) PROVE [Register!Next]_(Register!register)
  <2>1. pc[p] = "del" /\ UNCHANGED <<protected, op>> /\ (chain' = chain \/ chain' = NoChain)
    BY <1>8 DEF DeleteOne, RemoveKey
  <2>2. CASE chain' = NoChain
    <3>1. ~protected /\ op[p].kind \in {"delete", "deleteBranch"}
      BY <2>1 DEF JudgedOK, Judged, StageOK, Stage, Deletes
    <3>2. Register!Delete(p)
      BY <2>1, <2>2, <3>1 DEF Register!Delete, NoChain
    <3>3. QED
      BY <3>2 DEF Register!Next
  <2>3. QED
    BY <2>1, <2>2
<1>9. ASSUME NEW p \in Clients, Protect(p) \/ Unprotect(p) PROVE [Register!Next]_(Register!register)
  <2>1. pc[p] \in {"mark", "unmark"} /\ UNCHANGED <<chain, op>>
        /\ (protected' = protected \/ protected' = (pc[p] = "mark"))
    BY <1>9 DEF Protect, Unprotect, Leave
  <2>2. CASE protected' = (pc[p] = "mark")
    <3>1. Register!SetProtection(p)
      BY <2>1, <2>2 DEF Register!SetProtection, StageOK, Stage
    <3>2. QED
      BY <3>1 DEF Register!Next
  <2>3. QED
    BY <2>1, <2>2
<1>10. CASE Background \/ Tick \/ UNCHANGED vars
  BY <1>10, <1>1, BackgroundFrame DEF Tick, vars, client, remote
<1>11. QED
  BY <1>1, <1>3, <1>4, <1>5, <1>6, <1>7, <1>8, <1>9, <1>10
     DEF Next, ClientStep, PushStep, CompactStep, ManageStep, Background

LEMMA JudgedInvariant == Spec => []JudgedOK
<1>1. Init => JudgedOK
  BY DEF Init, JudgedOK, Judged
<1>2. TypeInv /\ JudgedOK /\ [Next]_vars => JudgedOK'
  BY JudgedStep
<1>3. QED
  BY <1>1, <1>2, TypeInvariant, PTL DEF Spec

\* The packchain engine implements the register: whatever clients, crashes,
\* failed requests, garbage collection and fetches do, the tip changes only
\* when an operation that asked for it and may do so commits chain.json or
\* deletes it, a push without force and a force push of a protected ref move
\* the tip forward, and a protected ref is not deleted.
THEOREM RegisterCorrect == Spec => ImplementsRegister
<1>1. Init => Register!Init
  BY NoOpType DEF Init, Register!Init, Register!NoWant, NoOp, NoChain
<1>2. RegisterInv /\ [Next]_vars => [Register!Next]_(Register!register)
  BY RegisterStep
<1>3. QED
  BY <1>1, <1>2, TypeInvariant, JudgedInvariant, PTL DEF Spec, ImplementsRegister, Register!Spec, RegisterInv

-----------------------------------------------------------------------------
(* The path index.                                                         *)

LEMMA IndexStep == TypeInv /\ IndexOK /\ [Next]_vars => IndexOK'
<1> SUFFICES ASSUME TypeInv, IndexOK, [Next]_vars PROVE IndexOK'
  OBVIOUS
<1> USE DEF TypeInv, TypeOK, Typed
\* A step that does not touch what the index follows.
<1>1. ASSUME UNCHANGED <<chain, index, torn>>, NEW p \in Clients, NEW label, Goto(p, label),
             \A q \in Clients : q # p => op'[q] = op[q] /\ prior'[q] = prior[q] /\ todo'[q] = todo[q],
             pc[p] \notin {"index", "del"}, label \notin {"index", "defer", "del"}
      PROVE  IndexOK'
  <2>1. \A q \in Clients : pc'[q] = IF q = p THEN label ELSE pc[q]
    BY <1>1 DEF Goto, ClientsOK
  <2>2. ASSUME NEW q \in Clients, q # p PROVE NewChain(q)' = NewChain(q) /\ Listed(q)' = Listed(q)
    BY <1>1, <2>2 DEF NewChain, NewPack, next_manifest, Listed
  <2>3. ~torn' => InStep'
    BY <1>1, <2>1 DEF IndexOK, InStep
  <2>4. QED
    BY <1>1, <2>1, <2>2, <2>3 DEF IndexOK
<1>2. ASSUME UNCHANGED <<chain, index, torn>>, NEW p \in Clients, pc[p] \notin {"index", "del"},
             Goto(p, "idle"), Forget(p)
      PROVE  IndexOK'
  BY <1>2, <1>1 DEF Forget, ClientsOK
<1>3. ASSUME NEW p \in Clients,
             \/ LoadForPush(p) \/ LoadForCompact(p) \/ UploadPack(p) \/ UploadBundle(p) \/ Open(p)
             \/ Confirm(p) \/ AcquireLock(p)
      PROVE  IndexOK'
  <2>1. UNCHANGED <<chain, index, torn>>
    BY <1>3, SteadyFrame DEF Steady, CompactStep
  <2>2. pc[p] \in {"load", "pack", "bundle", "open", "confirm", "lock"}
    BY <1>3 DEF LoadForPush, LoadForCompact, UploadPack, UploadBundle, Open, Confirm, AcquireLock
  <2>3. \/ Goto(p, "idle") /\ Forget(p)
        \/ /\ \E label \in {"pack", "bundle", "confirm", "lock", "reload", "list", "mark", "unmark"} : Goto(p, label)
           /\ UNCHANGED <<op, todo>> /\ (prior' = prior \/ prior' = [prior EXCEPT ![p] = chain])
    <3>1. CASE AcquireLock(p)
      <4>1. pc[p] = "lock" => AfterLock(op[p].kind) \in {"reload", "list", "mark", "unmark"}
        BY ConstantsAssumption DEF StageOK, Stage, AfterLock
      <4>2. QED
        BY <3>1, <4>1 DEF AcquireLock, Finish, Advance
    <3>2. CASE LoadForPush(p) \/ LoadForCompact(p)
      BY <3>2 DEF LoadForPush, LoadForCompact, Finish
    <3>3. CASE UploadPack(p) \/ UploadBundle(p) \/ Open(p) \/ Confirm(p)
      BY <3>3 DEF UploadPack, UploadBundle, Open, Confirm, Finish, Advance
    <3>4. QED
      BY <1>3, <3>1, <3>2, <3>3
  <2>4. QED
    BY <2>1, <2>2, <2>3, <1>1, <1>2 DEF ClientsOK
<1>4. ASSUME NEW p \in Clients, Begin(p) PROVE IndexOK'
  <2>1. PICK label \in {"load", "lock", "open"} : Goto(p, label)
    BY <1>4, Zenon DEF Begin
  <2>2. UNCHANGED <<chain, index, torn, prior, todo>> /\ pc[p] = "idle"
        /\ \A q \in Clients : q # p => op'[q] = op[q]
    BY <1>4 DEF Begin, ClientsOK, remote
  <2>3. QED
    BY <2>1, <2>2, <1>1
<1>5. ASSUME NEW p \in Clients,
             \/ ReloadForPush(p) \/ ReloadForCompact(p) \/ TombstoneBaseline(p) \/ Download(p)
             \/ CompactPack(p) \/ CompactBundle(p) \/ Protect(p) \/ Unprotect(p)
      PROVE  IndexOK'
  <2>1. UNCHANGED <<chain, index, torn>>
    BY <1>5, SteadyFrame DEF Steady, CompactStep
  <2>2. pc[p] \in {"reload", "tomb", "get", "cpack", "cbundle", "mark", "unmark"}
    BY <1>5 DEF ReloadForPush, ReloadForCompact, TombstoneBaseline, Download, CompactPack, CompactBundle,
                Protect, Unprotect
  <2>3. /\ \E label \in {"get", "cpack", "cbundle", "commit", "release"} : Goto(p, label)
        /\ UNCHANGED <<op, todo>> /\ (prior' = prior \/ prior' = [prior EXCEPT ![p] = chain])
    BY <1>5 DEF ReloadForPush, ReloadForCompact, TombstoneBaseline, Download, CompactPack, CompactBundle,
                Protect, Unprotect, Leave, Advance
  <2>4. QED
    BY <2>1, <2>2, <2>3, <1>1 DEF ClientsOK
\* An operation that ends: between the two keys only if it tears them.
<1>6. ASSUME NEW p \in Clients, Release(p) \/ RequestFails(p) \/ Crash(p) PROVE IndexOK'
  <2>1. CASE Release(p)
    BY <2>1, <1>2 DEF Release, remote
  <2>2. CASE RequestFails(p) \/ Crash(p)
    <3>1. UNCHANGED <<chain, index>>
      BY <2>2 DEF RequestFails, Crash
    <3>2. \E label \in {"idle", "release"} : Goto(p, label)
      BY <2>2 DEF RequestFails, Crash, Finish, Leave
    <3>3. \A q \in Clients : q # p => op'[q] = op[q] /\ prior'[q] = prior[q] /\ todo'[q] = todo[q]
      BY <2>2 DEF RequestFails, Crash, Finish, Leave, Forget, ClientsOK
    <3>4. ~torn' => ~torn /\ pc[p] # "del" /\ (pc[p] = "index" => op[p].kind = "compact")
      <4>1. pc[p] = "del" => op[p].kind # "compact"
        BY DEF StageOK, Stage, Deletes
      <4>2. QED
        BY <2>2, <4>1 DEF RequestFails, Crash, Tear, Unlocked, UnderLock
    <3>5. ASSUME NEW q \in Clients, q # p
          PROVE  pc'[q] = pc[q] /\ NewChain(q)' = NewChain(q) /\ Listed(q)' = Listed(q)
      <4>1. pc'[q] = pc[q]
        BY <3>2, <3>5 DEF Goto, ClientsOK
      <4>2. op'[q] = op[q] /\ prior'[q] = prior[q] /\ todo'[q] = todo[q]
        BY <3>3, <3>5
      <4>3. NewChain(q)' = NewChain(q)
        BY <4>2 DEF NewChain, NewPack
      <4>4. Listed(q)' = Listed(q)
        BY <3>1, <4>2 DEF Listed
      <4>5. QED
        BY <4>1, <4>3, <4>4
    <3>6. pc'[p] \in {"idle", "release"}
      BY <3>2 DEF Goto, ClientsOK
    <3>7. ~torn' => InStep'
      BY <3>1, <3>3, <3>4, <3>5 DEF IndexOK, InStep
    <3>8. QED
      BY <3>1, <3>4, <3>5, <3>6, <3>7 DEF IndexOK
  <2>3. QED
    BY <1>6, <2>1, <2>2
\* The lock holder's steps that do: nobody else is at such a step.
<1>7. ASSUME NEW p \in Clients, pc[p] \in UnderLock,
             \A q \in Clients : q # p => pc'[q] = pc[q],
             ~torn' /\ pc'[p] # "del" /\ (pc'[p] = "index" => op'[p].kind = "compact") => index' = chain'.tip,
             pc'[p] = "index" => chain' = NewChain(p)',
             pc'[p] = "defer" => Listed(p)',
             pc'[p] = "del" /\ ~torn' => Listed(p)'
      PROVE  IndexOK'
  <2>1. \A q \in Clients : q # p => pc[q] \notin UnderLock
    BY <1>7, OnlyHolder
  <2>2. \A q \in Clients : q # p => pc'[q] \notin {"index", "defer", "del"}
    BY <1>7, <2>1 DEF UnderLock
  <2>3. ~torn' => InStep'
    BY <1>7 DEF InStep
  <2>4. QED
    BY <1>7, <2>2, <2>3 DEF IndexOK
<1>8. ASSUME NEW p \in Clients, pc[p] \in UnderLock \ {"index", "del"}, ~torn PROVE index = chain.tip
  <2>1. \A q \in Clients : q # p => pc[q] \notin UnderLock
    BY <1>8, OnlyHolder
  <2>2. QED
    BY <1>8, <2>1 DEF IndexOK, InStep, UnderLock
<1>9. ASSUME NEW p \in Clients, Commit(p) PROVE IndexOK'
  <2>1. chain' = NewChain(p) /\ NewChain(p)' = NewChain(p) /\ pc[p] = "commit" /\ UNCHANGED <<index, torn, op>>
    BY <1>9 DEF Commit, Advance, NewChain, NewPack
  <2>2. \A q \in Clients : pc'[q] = IF q = p THEN "index" ELSE pc[q]
    BY <1>9 DEF Commit, Advance, Goto, ClientsOK
  <2>3. op[p].kind = "compact" => chain'.tip = chain.tip
    BY <2>1 DEF PriorOK, NewChain
  <2>4. ~torn => index = chain.tip
    BY <2>1, <1>8 DEF UnderLock
  <2>5. QED
    BY <2>1, <2>2, <2>3, <2>4, <1>7 DEF UnderLock
<1>10. ASSUME NEW p \in Clients, WriteIndex(p) PROVE IndexOK'
  <2>1. chain = NewChain(p) /\ chain' = chain /\ index' = NewChain(p).tip /\ pc[p] = "index"
    BY <1>10 DEF WriteIndex, IndexOK
  <2>2. pc'[p] \in {"release", "tomb"} /\ \A q \in Clients : q # p => pc'[q] = pc[q]
    BY <1>10 DEF WriteIndex, Leave, Advance, Goto, ClientsOK
  <2>3. QED
    BY <2>1, <2>2, <1>7 DEF UnderLock
<1>11. ASSUME NEW p \in Clients, ListForDelete(p) \/ ListForDeleteBranch(p) PROVE IndexOK'
  <2>1. pc[p] = "list" /\ UNCHANGED <<chain, index, torn>>
    BY <1>11, SteadyFrame DEF Steady, ListForDelete, ListForDeleteBranch
  <2>2. ~torn => index = chain.tip
    BY <2>1, <1>8 DEF UnderLock
  <2>3. Goto(p, "release") \/ (Goto(p, "defer") /\ todo' = [todo EXCEPT ![p] = Entries])
    BY <1>11 DEF ListForDelete, ListForDeleteBranch, Leave
  <2>4. Goto(p, "defer") => Listed(p)'
    <3>1. SUFFICES ASSUME todo'[p] = Entries PROVE Listed(p)'
      BY <2>3 DEF Goto, ClientsOK
    <3>2. QED
      BY <2>1, <3>1 DEF Listed, Entries
  <2>5. \A q \in Clients : q # p => pc'[q] = pc[q]
    BY <2>3 DEF Goto, ClientsOK
  <2>6. (pc'[p] = "release" /\ Goto(p, "release")) \/ (pc'[p] = "defer" /\ Goto(p, "defer"))
    BY <2>3 DEF Goto, ClientsOK
  <2>7. QED
    BY <2>1, <2>2, <2>4, <2>5, <2>6, <1>7 DEF UnderLock
\* The baseline goes from the list, and the two keys stay on it.
<1>12. ASSUME NEW p \in Clients, DeferBaseline(p) PROVE IndexOK'
  <2>1. pc[p] = "defer" /\ UNCHANGED <<chain, index>> /\ Goto(p, "del")
    BY <1>12 DEF DeferBaseline
  <2>2. Listed(p)
    BY <2>1 DEF IndexOK
  <2>3. todo' = [todo EXCEPT ![p] = @ \ (Refs(chain) \cap todo[p])] \/ todo' = todo
    BY <1>12 DEF DeferBaseline
  <2>4. ChainKey \notin Refs(chain) /\ IndexKey \notin Refs(chain)
    BY Disjoint, ManifestType DEF StoreOK
  <2>5. Listed(p)'
    <3>1. todo'[p] = todo[p] \ (Refs(chain) \cap todo[p]) \/ todo'[p] = todo[p]
      BY <2>3 DEF ClientsOK
    <3>2. QED
      BY <2>1, <2>2, <2>4, <3>1 DEF Listed
  <2>6. \A q \in Clients : pc'[q] = IF q = p THEN "del" ELSE pc[q]
    BY <2>1 DEF Goto, ClientsOK
  <2>7. QED
    BY <2>1, <2>5, <2>6, <1>7 DEF UnderLock
<1>13. ASSUME NEW p \in Clients, DeleteOne(p) PROVE IndexOK'
  <2>1. PICK k \in todo[p] :
          /\ todo' = [todo EXCEPT ![p] = @ \ {k}]
          /\ \/ RemoveKey(k) /\ UNCHANGED <<pc, faults, torn>>
             \/ Tear(p, {"del"}) /\ (Goto(p, "release") \/ UNCHANGED pc)
    BY <1>13 DEF DeleteOne
  <2>2. pc[p] = "del" /\ op[p].kind # "compact"
    BY <1>13 DEF DeleteOne, StageOK, Stage, Deletes
  <2>3. pc'[p] \in {"del", "release"} /\ \A q \in Clients : q # p => pc'[q] = pc[q]
    BY <2>1, <2>2 DEF Goto, ClientsOK
  <2>4. CASE Tear(p, {"del"})
    BY <2>2, <2>3, <2>4, <1>7 DEF UnderLock, Tear
  <2>5. CASE RemoveKey(k) /\ UNCHANGED <<pc, faults, torn>>
    <3>1. todo'[p] = todo[p] \ {k}
      BY <2>1 DEF ClientsOK
    <3>2. ~torn' => Listed(p)'
      BY <2>2, <2>5, <3>1 DEF IndexOK, Listed, RemoveKey
    <3>3. QED
      BY <2>2, <2>3, <2>5, <3>2, <1>7 DEF UnderLock
  <2>6. QED
    BY <2>1, <2>4, <2>5
<1>14. ASSUME NEW p \in Clients, Deleted(p) PROVE IndexOK'
  <2>1. pc[p] = "del" /\ todo[p] = {} /\ UNCHANGED <<chain, index, torn>> /\ Goto(p, "release")
    BY <1>14 DEF Deleted, Leave, remote
  <2>2. ~torn => index = chain.tip
    BY <2>1 DEF IndexOK, Listed, NoChain
  <2>3. \A q \in Clients : pc'[q] = IF q = p THEN "release" ELSE pc[q]
    BY <2>1 DEF Goto, ClientsOK
  <2>4. QED
    BY <2>1, <2>2, <2>3, <1>7 DEF UnderLock
<1>15. CASE Background \/ Tick \/ UNCHANGED vars
  <2>1. UNCHANGED <<chain, index, torn, pc, op, prior, todo>>
    BY <1>15, BackgroundFrame DEF Tick, vars, client, remote
  <2>2. \A q \in Clients : NewChain(q)' = NewChain(q) /\ Listed(q)' = Listed(q)
    BY <2>1 DEF NewChain, NewPack, next_manifest, Listed
  <2>3. InStep' = InStep
    BY <2>1 DEF InStep
  <2>4. QED
    BY <2>1, <2>2, <2>3 DEF IndexOK
<1>16. QED
  BY <1>3, <1>4, <1>5, <1>6, <1>9, <1>10, <1>11, <1>12, <1>13, <1>14, <1>15
     DEF Next, ClientStep, PushStep, CompactStep, ManageStep, Background

LEMMA IndexInvariant == Spec => [](TypeInv /\ IndexOK)
<1>1. Init => IndexOK
  BY DEF Init, IndexOK, InStep, NoChain
<1>2. TypeInv /\ IndexOK /\ [Next]_vars => IndexOK'
  BY IndexStep
<1>3. QED
  BY <1>1, <1>2, TypeInvariant, PTL DEF Spec

\* path-index.json names the tip of chain.json whenever nobody holds the lock,
\* whatever pushes, compactions and deletes have gone before and whatever of
\* them has failed, unless one was cut short between the two keys and none has
\* gone through since.
THEOREM IndexCorrect == Spec => []IndexFollowsChain
<1>1. TypeInv /\ IndexOK => IndexFollowsChain
  BY ConstantsAssumption DEF TypeInv, TypeOK, Typed, ClientsOK, UnderLock, IndexOK, InStep, IndexFollowsChain
<1>2. QED
  BY <1>1, IndexInvariant, PTL

\* path-index.json is only ever written to the tip of the chain.json that is
\* there, or removed, crashes and failed requests included.
THEOREM IndexAfterCommit == Spec => IndexNeverAhead
<1>1. TypeInv /\ IndexOK /\ [Next]_vars => [index' # index => index' \in {None, chain'.tip}]_index
  <2> SUFFICES ASSUME TypeInv, IndexOK, [Next]_vars, index' # index PROVE index' \in {None, chain'.tip}
    OBVIOUS
  <2>1. ASSUME NEW p \in Clients, Steady(p) \/ Commit(p) \/ DeferBaseline(p) \/ RequestFails(p) \/ Crash(p)
        PROVE  index' = index
    BY <2>1, SteadyFrame DEF Commit, DeferBaseline, RequestFails, Crash
  <2>2. ASSUME NEW p \in Clients, WriteIndex(p) PROVE index' = chain'.tip
    BY <2>2 DEF WriteIndex, IndexOK
  <2>3. ASSUME NEW p \in Clients, DeleteOne(p) PROVE index' \in {None, index}
    BY <2>3 DEF DeleteOne, RemoveKey
  <2>4. Background \/ Tick \/ UNCHANGED vars => index' = index
    BY BackgroundFrame DEF Tick, vars, remote
  <2>5. QED
    BY <2>1, <2>2, <2>3, <2>4 DEF Next, ClientStep, PushStep, ManageStep, Steady, Background
<1>2. QED
  BY <1>1, IndexInvariant, PTL DEF Spec, IndexNeverAhead

-----------------------------------------------------------------------------
(* The objects that the chain names.                                       *)

Acts(p) == Begin(p) \/ ClientStep(p) \/ RequestFails(p) \/ Crash(p)

LEMMA HazardsStay == [Next]_vars => hazards \subseteq hazards'
<1>1. ASSUME NEW p \in Clients, Acts(p) PROVE hazards \subseteq hazards'
  BY <1>1 DEF Acts, Begin, ClientStep, PushStep, CompactStep, ManageStep, AcquireLock, Release,
       RequestFails, Crash, LoadForPush, UploadPack, UploadBundle, Upload, ReloadForPush, Commit, WriteIndex,
       TombstoneBaseline, LoadForCompact, ReloadForCompact, Download, CompactPack, CompactBundle, Open, Confirm,
       ListForDelete, ListForDeleteBranch, DeferBaseline, DeleteOne, Deleted, Protect, Unprotect
<1>2. Background \/ Tick \/ UNCHANGED vars => hazards \subseteq hazards'
  BY BackgroundFrame DEF Tick, vars
<1>3. QED
  BY <1>1, <1>2 DEF Next, Background, Acts

\* Prepending a segment.
LEMMA Prepend ==
  ASSUME NEW s \in Packs, NEW ss \in Seq(Packs)
  PROVE  Range(<<s>> \o ss) = {s} \cup Range(ss) /\ Range(<<s>>) = {s}
<1>1. DOMAIN (<<s>> \o ss) = 1..(Len(ss) + 1) /\ DOMAIN ss = 1..Len(ss) /\ Len(ss) \in Nat
  OBVIOUS
<1>2. \A i \in 1..(Len(ss) + 1) : (<<s>> \o ss)[i] = IF i = 1 THEN s ELSE ss[i - 1]
  OBVIOUS
<1>3. \A i \in 1..Len(ss) : i + 1 \in 1..(Len(ss) + 1) /\ (<<s>> \o ss)[i + 1] = ss[i]
  BY <1>1, <1>2
<1>4. ASSUME NEW x PROVE x \in Range(<<s>> \o ss) <=> x = s \/ x \in Range(ss)
  <2>1. x \in Range(<<s>> \o ss) <=> \E i \in 1..(Len(ss) + 1) : (<<s>> \o ss)[i] = x
    BY <1>1 DEF Range
  <2>2. x \in Range(ss) <=> \E i \in 1..Len(ss) : ss[i] = x
    BY <1>1 DEF Range
  <2>3. ASSUME NEW i \in 1..(Len(ss) + 1), i # 1 PROVE i - 1 \in 1..Len(ss)
    BY <1>1, <2>3
  <2>4. 1 \in 1..(Len(ss) + 1)
    BY <1>1
  <2>6. ASSUME NEW i \in 1..(Len(ss) + 1), (<<s>> \o ss)[i] = x PROVE x = s \/ x \in Range(ss)
    <3>1. i # 1 => i - 1 \in 1..Len(ss) /\ ss[i - 1] = x
      BY <1>2, <2>3, <2>6
    <3> QED BY <1>2, <2>2, <2>6, <3>1
  <2>7. x = s => x \in Range(<<s>> \o ss)
    BY <1>2, <2>1, <2>4
  <2>8. x \in Range(ss) => x \in Range(<<s>> \o ss)
    BY <1>3, <2>1, <2>2
  <2>5. QED
    BY <2>1, <2>6, <2>7, <2>8
<1>5. Range(<<s>>) = {s}
  BY DEF Range
<1>6. QED
  BY <1>4, <1>5

\* What an operation commits, it holds.
LEMMA CommitsHeld ==
  ASSUME TypeInv, NEW p \in Clients, pc[p] = "commit", NEW o \in Refs(NewChain(p))
  PROVE  Holds(p, o) /\ o \in Packs \cup Bundles
<1> USE DEF TypeInv, TypeOK, Typed
<1>1. op[p].kind \in Writers /\ (op[p].kind = "compact" => prior[p] # NoChain)
      /\ prior[p] \in Manifest \cup {NoChain} /\ op[p].local \in Commits
  BY DEF StageOK, Stage, PriorOK, ClientsOK
<1>2. NewChain(p) \in Manifest /\ NewChain(p) # NoChain
  BY <1>1, NewChainType
<1>3. o \in Segments(NewChain(p)) \/ o = Bundle(NewChain(p).full)
  BY <1>2 DEF Refs
<1>4. o \in Packs \cup Bundles
  BY <1>2, ManifestType
<1>5. CASE op[p].kind = "compact"
  <2>1. NewChain(p).full = prior[p].tip /\ NewChain(p).segs = <<Pack(None, prior[p].tip)>>
    BY <1>5 DEF NewChain
  <2>2. Segments(NewChain(p)) = {Pack(None, prior[p].tip)}
    BY <2>1 DEF Segments, Range
  <2>3. QED
    BY <1>3, <1>4, <1>5, <2>1, <2>2 DEF Holds
<1>6. CASE op[p].kind \in Pushes
  <2>1. NewPack(p) \in Packs /\ NewPack(p).sha = op[p].local
    BY NewPackType DEF NewPack, Pack
  <2>2. CASE op[p].kind = "push" /\ prior[p] # NoChain
    <3>1. NewChain(p).full = prior[p].full /\ NewChain(p).segs = <<NewPack(p)>> \o prior[p].segs
          /\ prior[p].segs \in Seq(Packs)
      BY <2>2, <1>1 DEF NewChain, next_manifest, Manifest
    <3>2. Segments(NewChain(p)) = {NewPack(p)} \cup Segments(prior[p])
      BY <3>1, <2>1, Prepend DEF Segments
    <3>3. o = NewPack(p) \/ o \in Refs(prior[p])
      BY <1>3, <2>2, <3>1, <3>2 DEF Refs
    <3>4. QED
      BY <1>4, <2>2, <3>3 DEF Holds, Pushes
  <2>3. CASE op[p].kind = "force" \/ prior[p] = NoChain
    <3>1. NewChain(p).full = op[p].local /\ NewChain(p).segs = <<NewPack(p)>> /\ NewPack(p).base = None
      BY <1>6, <2>1, <2>3 DEF NewChain, next_manifest, NewPack, Pack, Pushes
    <3>2. Segments(NewChain(p)) = {NewPack(p)}
      BY <3>1 DEF Segments, Range
    <3>3. QED
      BY <1>3, <1>4, <1>6, <3>1, <3>2 DEF Holds
  <2>4. QED
    BY <1>6, <2>2, <2>3 DEF Pushes
<1>7. QED
  BY <1>1, <1>5, <1>6 DEF Writers

LEMMA ActsFrame ==
  ASSUME TypeInv, NEW p \in Clients, Acts(p)
  PROVE  /\ UNCHANGED <<mark, sweep, marks, read>>
         /\ \A q \in Clients : q # p =>
              pc'[q] = pc[q] /\ op'[q] = op[q] /\ prior'[q] = prior[q] /\ age'[q] = age[q]
         /\ tombs \subseteq tombs' /\ \A t \in tombs' : t \in tombs \/ t.age = 0
         /\ chain' = chain \/ chain' = NoChain \/ (pc[p] = "commit" /\ chain' = NewChain(p))
         /\ hazards' = {} => objs \subseteq objs'
<1> USE DEF TypeInv, TypeOK, Typed
<1> DEFINE Frame ==
      /\ UNCHANGED <<mark, sweep, marks, read>>
      /\ \A q \in Clients : q # p =>
           pc'[q] = pc[q] /\ op'[q] = op[q] /\ prior'[q] = prior[q] /\ age'[q] = age[q]
    Store ==
      /\ tombs \subseteq tombs' /\ \A t \in tombs' : t \in tombs \/ t.age = 0
      /\ chain' = chain \/ chain' = NoChain \/ (pc[p] = "commit" /\ chain' = NewChain(p))
      /\ hazards' = {} => objs \subseteq objs'
<1>1. CASE Begin(p)
  <2>1. Frame
    <3>1. \E label \in {"load", "lock", "open"} : Goto(p, label)
      BY <1>1, Zenon DEF Begin
    <3>2. QED
      BY <1>1, <3>1 DEF Begin, Goto, ClientsOK, gc
  <2>2. Store
    BY <1>1 DEF Begin, remote
  <2>3. QED
    BY <2>1, <2>2
<1>2. CASE \/ LoadForPush(p) \/ UploadPack(p) \/ UploadBundle(p) \/ ReloadForPush(p) \/ Commit(p)
           \/ WriteIndex(p) \/ TombstoneBaseline(p)
  <2>1. Frame
    BY <1>2 DEF LoadForPush, UploadPack, UploadBundle, ReloadForPush, Commit, WriteIndex, TombstoneBaseline,
         Goto, Forget, Finish, Leave, Advance, ClientsOK, gc
  <2>2. Store
    BY <1>2 DEF LoadForPush, UploadPack, UploadBundle, ReloadForPush, Commit, WriteIndex, TombstoneBaseline,
         Upload, remote
  <2>3. QED
    BY <2>1, <2>2
<1>3. CASE CompactStep(p)
  <2>1. Frame
    BY <1>3 DEF CompactStep, LoadForCompact, ReloadForCompact, Download, CompactPack, CompactBundle,
         Goto, Forget, Finish, Leave, Advance, ClientsOK, gc
  <2>2. Store
    BY <1>3 DEF CompactStep, LoadForCompact, ReloadForCompact, Download, CompactPack, CompactBundle,
         Upload, remote
  <2>3. QED
    BY <2>1, <2>2
<1>4. CASE \/ Open(p) \/ Confirm(p) \/ ListForDelete(p) \/ ListForDeleteBranch(p) \/ DeferBaseline(p)
           \/ Deleted(p) \/ Protect(p) \/ Unprotect(p)
  <2>1. Frame
    BY <1>4 DEF Open, Confirm, ListForDelete, ListForDeleteBranch, DeferBaseline, Deleted, Protect, Unprotect,
         Goto, Forget, Finish, Leave, Advance, ClientsOK, gc
  <2>2. Store
    BY <1>4 DEF Open, Confirm, ListForDelete, ListForDeleteBranch, DeferBaseline, Deleted, Protect, Unprotect,
         remote
  <2>3. QED
    BY <2>1, <2>2
<1>5. CASE DeleteOne(p)
  <2>1. PICK k \in todo[p] :
          /\ RemoveKey(k) \/ UNCHANGED <<objs, chain, index>>
          /\ hazards' = hazards \cup (IF k \in Bundles THEN {"purged"} ELSE {})
          /\ pc' = pc \/ Goto(p, "release")
    BY <1>5 DEF DeleteOne
  <2>2. Frame
    BY <1>5, <2>1 DEF DeleteOne, Goto, ClientsOK, gc
  <2>3. hazards' = {} => objs \subseteq objs'
    <3>1. k \in Bundles => "purged" \in hazards'
      BY <2>1
    <3>2. k \notin Bundles => k \in {ChainKey, IndexKey}
      BY DEF ClientsOK, Keys
    <3>3. k \notin Bundles => k \notin objs
      BY <3>2, Disjoint DEF StoreOK
    <3>4. k \notin objs => objs \subseteq objs'
      BY <2>1 DEF RemoveKey
    <3>5. QED
      BY <3>1, <3>3, <3>4
  <2>4. QED
    BY <1>5, <2>1, <2>2, <2>3 DEF DeleteOne, RemoveKey
<1>6. CASE AcquireLock(p) \/ Release(p) \/ RequestFails(p) \/ Crash(p)
  BY <1>6 DEF AcquireLock, Release, RequestFails, Crash, Goto, Forget, Finish, Leave, Advance, ClientsOK, gc,
       remote
<1>7. QED
  BY <1>1, <1>2, <1>3, <1>4, <1>5, <1>6 DEF Acts, ClientStep, PushStep, ManageStep

\* What an operation holds after a step of its own, it held before, or it is
\* what the operation has just uploaded or found in the chain, and then no
\* tombstone names it.
LEMMA ActsHolds ==
  ASSUME TypeInv, NEW p \in Clients, Acts(p), NEW o, Holds(p, o)'
  PROVE  /\ age'[p] = age[p]
         /\ Holds(p, o) \/ (hazards' = {} => tombs' = tombs /\ o \in objs' \cup Refs(chain) /\ ~Named(o))
<1> USE DEF TypeInv, TypeOK, Typed
<1> DEFINE Held == {"pack", "bundle", "lock", "reload", "cbundle", "commit"}
<1>1. pc'[p] \in Held /\ op'[p].kind \in Writers
      /\ (pc'[p] \in {"cbundle", "commit"} \/ op'[p].kind \in Pushes)
  BY DEF Holds, Pushes, Writers
<1>i. ASSUME NEW label, Goto(p, label) PROVE label = pc'[p]
  BY <1>i DEF Goto, ClientsOK
<1>2. CASE LoadForPush(p)
  <2>1. Goto(p, "pack") /\ prior' = [prior EXCEPT ![p] = chain] /\ UNCHANGED <<op, age, tombs>>
    BY <1>2, <1>1, <1>i DEF LoadForPush, Finish, remote
  <2>2. pc'[p] = "pack" /\ prior'[p] = chain
    BY <2>1, <1>i DEF ClientsOK
  <2>3. op[p].kind = "push" /\ o \in Refs(chain)
    BY <1>2, <2>1, <2>2 DEF Holds, LoadForPush
  <2>4. hazards' = {} => ~Named(o)
    BY <1>2, <2>3 DEF LoadForPush
  <2>5. QED
    BY <2>1, <2>3, <2>4
<1>3. CASE UploadPack(p)
  <2>1. Advance(p, IF NewPack(p).base = None THEN "bundle" ELSE "lock") /\ Upload(NewPack(p)) /\ tombs' = tombs
    BY <1>3 DEF UploadPack
  <2>2. pc'[p] = (IF NewPack(p).base = None THEN "bundle" ELSE "lock") /\ UNCHANGED <<op, prior, age>>
        /\ pc[p] = "pack"
    BY <1>3, <2>1, <1>i DEF Advance, UploadPack
  <2>3. Holds(p, o) \/ o = NewPack(p)
    BY <2>2 DEF Holds, NewPack
  <2>4. QED
    BY <2>1, <2>2, <2>3 DEF Upload
<1>4. CASE UploadBundle(p)
  <2>1. Advance(p, "lock") /\ Upload(Bundle(op[p].local)) /\ tombs' = tombs /\ pc[p] = "bundle"
    BY <1>4 DEF UploadBundle
  <2>2. pc'[p] = "lock" /\ UNCHANGED <<op, prior, age>>
    BY <2>1, <1>i DEF Advance
  <2>3. Holds(p, o) \/ o = Bundle(op[p].local)
    BY <2>1, <2>2 DEF Holds, NewPack
  <2>4. QED
    BY <2>1, <2>2, <2>3 DEF Upload
<1>5. CASE CompactPack(p)
  <2>1. Advance(p, "cbundle") /\ Upload(Pack(None, prior[p].tip)) /\ tombs' = tombs
    BY <1>5 DEF CompactPack
  <2>2. pc'[p] = "cbundle" /\ UNCHANGED <<op, prior, age>>
    BY <2>1, <1>i DEF Advance
  <2>3. o = Pack(None, prior[p].tip)
    BY <2>1, <2>2 DEF Holds
  <2>4. QED
    BY <2>1, <2>2, <2>3 DEF Upload
<1>6. CASE CompactBundle(p)
  <2>1. Advance(p, "commit") /\ Upload(Bundle(prior[p].tip)) /\ tombs' = tombs /\ pc[p] = "cbundle"
        /\ op[p].kind = "compact"
    BY <1>6 DEF CompactBundle, StageOK, Stage
  <2>2. pc'[p] = "commit" /\ UNCHANGED <<op, prior, age>>
    BY <2>1, <1>i DEF Advance
  <2>3. Holds(p, o) \/ o = Bundle(prior[p].tip)
    BY <2>1, <2>2 DEF Holds, Pushes
  <2>4. QED
    BY <2>1, <2>2, <2>3 DEF Upload
<1>7. CASE AcquireLock(p) \/ ReloadForPush(p)
  <2>1. UNCHANGED <<op, prior, age>> /\ pc[p] \in {"lock", "reload"} /\ pc'[p] \in {"reload", "commit"}
        /\ (pc'[p] = "commit" => op[p].kind \in Pushes)
    <3>1. CASE AcquireLock(p)
      <4>1. Goto(p, AfterLock(op[p].kind)) /\ UNCHANGED <<op, prior, age>> /\ pc[p] = "lock"
        BY <3>1, <1>1, <1>i DEF AcquireLock, Finish, Advance
      <4>2. AfterLock(op[p].kind) = "reload"
        BY <1>1, <4>1, Zenon DEF AfterLock, Writers, Pushes
      <4>3. QED
        BY <4>1, <4>2, <1>i
    <3>2. CASE ReloadForPush(p)
      BY <3>2, <1>1, <1>i DEF ReloadForPush, Leave, Advance, Pushes
    <3>3. QED
      BY <1>7, <3>1, <3>2
  <2>2. op'[p].kind \in Pushes
    BY <2>1, <1>1
  <2>3. Holds(p, o)
    BY <2>1, <2>2 DEF Holds, NewPack, Pushes
  <2>4. QED
    BY <2>1, <2>3
\* No other step ends where something is held.
<1>8. CASE Begin(p)
  <2>1. PICK kind \in Kinds, local \in Commits :
          /\ op' = [op EXCEPT ![p] = [kind |-> kind, local |-> local]]
          /\ Goto(p, CASE kind \in {"push", "force", "compact"} -> "load"
                       [] kind = "delete" -> "lock"
                       [] OTHER -> "open")
    BY <1>8 DEF Begin
  <2>2. op'[p].kind = kind
    BY <2>1 DEF ClientsOK
  <2>3. Goto(p, "load")
    BY <2>1, <2>2, <1>1, Zenon DEF Writers, Pushes
  <2>4. QED
    BY <2>3, <1>1, <1>i
<1>9. CASE \/ LoadForCompact(p) \/ ReloadForCompact(p) \/ Download(p) \/ Commit(p) \/ WriteIndex(p)
           \/ TombstoneBaseline(p) \/ Open(p) \/ Confirm(p)
  <2>1. pc'[p] \in Held => pc'[p] = "lock" /\ UNCHANGED op
    BY <1>9, <1>i DEF LoadForCompact, ReloadForCompact, Download, Commit, WriteIndex, TombstoneBaseline, Open,
         Confirm, Finish, Leave, Advance
  <2>2. pc'[p] = "lock" => op[p].kind \notin Pushes
    BY <1>9, <1>i DEF LoadForCompact, ReloadForCompact, Download, Commit, WriteIndex, TombstoneBaseline, Open,
         Confirm, Finish, Leave, Advance, StageOK, Stage, Pushes
  <2>3. QED
    BY <2>1, <2>2, <1>1
<1>10. CASE \/ ListForDelete(p) \/ ListForDeleteBranch(p) \/ DeferBaseline(p) \/ Deleted(p)
            \/ Protect(p) \/ Unprotect(p) \/ Release(p) \/ RequestFails(p) \/ Crash(p)
  BY <1>10, <1>1, <1>i DEF ListForDelete, ListForDeleteBranch, DeferBaseline, Deleted, Protect,
       Unprotect, Release, RequestFails, Crash, Finish, Leave
<1>11. CASE DeleteOne(p)
  <2>1. pc[p] = "del" /\ (pc' = pc \/ Goto(p, "release"))
    BY <1>11 DEF DeleteOne
  <2>2. QED
    BY <2>1, <1>1, <1>i
<1>12. QED
  BY <1>2, <1>3, <1>4, <1>5, <1>6, <1>7, <1>8, <1>9, <1>10, <1>11
     DEF Acts, ClientStep, PushStep, CompactStep, ManageStep

LEMMA HoldsFrame ==
  ASSUME NEW p \in Clients, pc'[p] = pc[p], op'[p] = op[p], prior'[p] = prior[p], NEW o
  PROVE  Holds(p, o)' <=> Holds(p, o)
  BY DEF Holds, NewPack

LEMMA StoreActs ==
  ASSUME MaxOp < Grace, StoreInv, [Next]_vars, NEW p \in Clients, Acts(p)
  PROVE  MarkFresh' /\ SweepOK' /\ (hazards' = {} => HoldsOK' /\ SweepSafe' /\ ChainResolvable')
<1> USE DEF StoreInv
<1>1. MarkFresh' /\ SweepOK'
  <2>1. UNCHANGED <<mark, sweep>> /\ tombs \subseteq tombs'
    BY ActsFrame
  <2>2. QED
    BY <2>1 DEF MarkFresh, SweepOK
<1>2. SUFFICES ASSUME hazards' = {} PROVE HoldsOK' /\ SweepSafe' /\ ChainResolvable'
  BY <1>1
<1>3. hazards = {} /\ objs \subseteq objs' /\ Refs(chain) \subseteq objs
  BY <1>2, HazardsStay, ActsFrame DEF ChainResolvable
<1>4. HoldsOK'
  <2> SUFFICES ASSUME NEW q \in Clients, NEW o \in Packs \cup Bundles, Holds(q, o)'
               PROVE  /\ o \in objs'
                      /\ \A t \in tombs' : o \in t.objs => t.age <= age'[q]
                      /\ mark'.at = "put" /\ o \in mark'.seen => mark'.age <= age'[q]
    BY DEF HoldsOK
  <2>1. mark' = mark /\ age[q] \in Nat /\ \A t \in tombs' : t \in tombs \/ t.age = 0
    BY ActsFrame, ConstantsAssumption DEF TypeInv, TypeOK, Typed, ClientsOK
  <2>2. ASSUME Holds(q, o), age'[q] = age[q]
        PROVE  /\ o \in objs'
               /\ \A t \in tombs' : o \in t.objs => t.age <= age'[q]
               /\ mark'.at = "put" /\ o \in mark'.seen => mark'.age <= age'[q]
    BY <1>3, <2>1, <2>2 DEF HoldsOK
  <2>3. CASE q # p
    <3>1. pc'[q] = pc[q] /\ op'[q] = op[q] /\ prior'[q] = prior[q] /\ age'[q] = age[q]
      BY <2>3, ActsFrame
    <3>2. Holds(q, o)
      BY <3>1, HoldsFrame
    <3>3. QED
      BY <2>2, <3>1, <3>2
  <2>4. CASE q = p
    <3>1. age'[p] = age[p]
          /\ (Holds(p, o) \/ (tombs' = tombs /\ o \in objs' \cup Refs(chain) /\ ~Named(o)))
      BY <1>2, <2>4, ActsHolds
    <3>2. CASE tombs' = tombs /\ o \in objs' \cup Refs(chain) /\ ~Named(o)
      BY <1>3, <2>1, <3>2 DEF Named
    <3>3. QED
      BY <2>2, <2>4, <3>1, <3>2
  <2>5. QED
    BY <2>3, <2>4
<1>5. CASE chain' = chain \/ chain' = NoChain
  <2>1. Refs(chain') \subseteq Refs(chain)
    BY <1>5 DEF Refs
  <2>2. sweep' = sweep
    BY ActsFrame
  <2>3. QED
    BY <1>3, <1>4, <2>1, <2>2 DEF SweepSafe, ChainResolvable
<1>6. CASE pc[p] = "commit" /\ chain' = NewChain(p)
  <2>1. \A o \in Refs(chain') : o \in Packs \cup Bundles /\ Holds(p, o)
    BY <1>6, CommitsHeld
  <2>2. Refs(chain') \subseteq objs
    BY <1>3, <2>1 DEF HoldsOK
  <2>3. SweepSafe'
    <3> SUFFICES ASSUME sweep.at = "remove", NEW o \in sweep.cur, o \in Refs(chain') PROVE FALSE
      BY ActsFrame DEF SweepSafe
    <3>1. PICK t \in tombs : t.age >= Grace /\ o \in t.objs
      BY DEF SweepOK
    <3>2. t.age <= age[p] /\ age[p] <= MaxOp /\ age[p] \in Nat /\ t.age \in Nat
      BY <1>3, <2>1, <3>1, ConstantsAssumption DEF HoldsOK, TypeInv, TypeOK, Typed, ClientsOK, StoreOK
    <3>3. QED
      BY <3>1, <3>2, ConstantsAssumption
  <2>4. QED
    BY <1>3, <1>4, <2>2, <2>3 DEF ChainResolvable
<1>7. QED
  BY <1>5, <1>6, ActsFrame

\* What HoldsOK, SweepSafe and ChainResolvable keep when neither the ref nor a
\* client moves.
LEMMA StoreQuiet ==
  ASSUME StoreInv, UNCHANGED <<chain, pc, op, prior, age, hazards>>,
         hazards = {} => \A o \in objs : o \in objs' \/ (o \notin Refs(chain) /\ \A p \in Clients : ~Holds(p, o)),
         \A t \in tombs' : t \in tombs \/ t.age = 0 \/ (mark.at = "put" /\ t.objs = mark.seen /\ t.age = mark.age),
         mark' = mark \/ (mark'.at = "put" => mark'.age = 0),
         hazards = {} /\ sweep'.at = "remove" => sweep'.cur \cap Refs(chain) = {}
  PROVE  hazards' = {} => HoldsOK' /\ SweepSafe' /\ ChainResolvable'
<1> USE DEF StoreInv
<1> SUFFICES ASSUME hazards = {} PROVE HoldsOK' /\ SweepSafe' /\ ChainResolvable'
  OBVIOUS
<1>1. SweepSafe' /\ ChainResolvable'
  BY DEF SweepSafe, ChainResolvable
<1>2. ASSUME NEW q \in Clients, NEW o \in Packs \cup Bundles, Holds(q, o)'
      PROVE  /\ o \in objs'
             /\ \A t \in tombs' : o \in t.objs => t.age <= age'[q]
             /\ mark'.at = "put" /\ o \in mark'.seen => mark'.age <= age'[q]
  <2>1. Holds(q, o) /\ age'[q] = age[q] /\ age[q] \in Nat
    BY <1>2, HoldsFrame, ConstantsAssumption DEF TypeInv, TypeOK, Typed, ClientsOK
  <2>2. /\ o \in objs
        /\ \A t \in tombs : o \in t.objs => t.age <= age[q]
        /\ mark.at = "put" /\ o \in mark.seen => mark.age <= age[q]
    BY <2>1 DEF HoldsOK
  <2>3. QED
    BY <2>1, <2>2
<1>3. HoldsOK'
  BY <1>2 DEF HoldsOK
<1>4. QED
  BY <1>1, <1>3

LEMMA StoreBackground ==
  ASSUME MaxOp < Grace, ~ForceSweep, StoreInv, Background
  PROVE  MarkFresh' /\ SweepOK' /\ (hazards' = {} => HoldsOK' /\ SweepSafe' /\ ChainResolvable')
<1> USE DEF StoreInv
<1>1. UNCHANGED <<chain, pc, op, prior, age, hazards>>
  BY BackgroundFrame DEF client
<1>2. CASE StaleRecovery \/ MarkFails \/ MarkStep
  <2>1. objs' = objs /\ sweep' = sweep
    BY <1>2 DEF StaleRecovery, MarkFails, MarkStep, MarkList, MarkChains, MarkRefs, MarkPut, remote, gc
  <2>2. mark' = mark \/ mark'.age = 0
    <3>1. CASE MarkChains \/ MarkRefs
      <4>1. mark.age = 0
        BY <3>1 DEF MarkFresh, MarkChains, MarkRefs
      <4>2. mark' = NoMark \/ mark'.age = mark.age
        BY <3>1, Fields DEF MarkChains, MarkRefs, TypeInv, TypeOK, Typed, GcOK, MarkType
      <4>3. QED
        BY <4>1, <4>2 DEF NoMark
    <3>2. CASE StaleRecovery
      BY <3>2 DEF StaleRecovery, gc
    <3>3. CASE MarkFails \/ MarkPut
      BY <3>3 DEF MarkFails, MarkPut, NoMark
    <3>4. CASE MarkList
      BY <3>4 DEF MarkList, NoMark
    <3>5. QED
      BY <1>2, <3>1, <3>2, <3>3, <3>4 DEF MarkStep
  <2>3. MarkFresh'
    BY <2>2 DEF MarkFresh
  <2>4. /\ tombs \subseteq tombs'
        /\ \A t \in tombs' : t \in tombs \/ (mark.at = "put" /\ t.objs = mark.seen /\ t.age = mark.age)
    BY <1>2 DEF StaleRecovery, MarkFails, MarkStep, MarkList, MarkChains, MarkRefs, MarkPut, remote
  <2>5. SweepOK'
    BY <2>1, <2>4 DEF SweepOK
  <2>6. hazards = {} /\ sweep'.at = "remove" => sweep'.cur \cap Refs(chain) = {}
    BY <2>1 DEF SweepSafe
  <2>7. QED
    BY <1>1, <2>1, <2>2, <2>3, <2>4, <2>5, <2>6, StoreQuiet
<1>3. CASE FetchStart \/ FetchStep
  <2>1. UNCHANGED <<objs, sweep, mark, tombs>>
    BY <1>3 DEF FetchStart, FetchStep, FetchLoad, FetchGet, FetchInstall, FetchReload, FetchDone, remote, gc
  <2>2. MarkFresh' /\ SweepOK' /\ (hazards = {} /\ sweep'.at = "remove" => sweep'.cur \cap Refs(chain) = {})
    BY <2>1 DEF MarkFresh, SweepOK, SweepSafe
  <2>3. QED
    BY <1>1, <2>1, <2>2, StoreQuiet
<1>4. CASE SweepStep \/ SweepFails
  <2>d. SweepDefer => sweep'.at = "next"
    BY DEF SweepDefer, NoSwp
  <2>e. sweep' = NoSwp => sweep'.at = "idle"
    BY DEF NoSwp
  <2>1. mark' = mark /\ tombs' \subseteq tombs
    BY <1>4 DEF SweepStep, SweepList, SweepRead, SweepCheck, SweepLoad, SweepRecheck, SweepRemove,
                SweepTomb, SweepDone, SweepFails, remote
  <2>2. MarkFresh'
    BY <2>1 DEF MarkFresh
  \* A sweep that is between two tombstones has nothing in its hands.
  <2>3. ASSUME sweep'.at \in {"idle", "next"}, objs' = objs
        PROVE  SweepOK' /\ (hazards' = {} => HoldsOK' /\ SweepSafe' /\ ChainResolvable')
    BY <1>1, <2>1, <2>3, StoreQuiet DEF SweepOK
  \* What it has in its hands is named by the tombstone it is at.
  <2>4. ASSUME tombs' = tombs, objs' = objs, sweep.at \in {"check", "load", "recheck", "remove"},
               sweep'.id = sweep.id, sweep'.left \cup sweep'.cur \subseteq sweep.left \cup sweep.cur,
               sweep'.at \in {"load", "recheck"} => \E o \in Packs \cup Bundles : sweep'.cur = {o},
               sweep'.at = "remove" => sweep'.cur \cap Refs(chain) = {}
        PROVE  SweepOK' /\ (hazards' = {} => HoldsOK' /\ SweepSafe' /\ ChainResolvable')
    <3>1. PICK t \in tombs : t.id = sweep.id /\ t.age >= Grace /\ sweep.left \cup sweep.cur \subseteq t.objs
      BY <2>4 DEF SweepOK
    <3>2. SweepOK'
      BY <2>4, <3>1 DEF SweepOK
    <3>3. QED
      BY <1>1, <2>1, <2>4, <3>2, StoreQuiet
  <2>5. CASE SweepList \/ SweepDone \/ SweepFails
    BY <2>2, <2>3, <2>5, <2>d, <2>e DEF SweepList, SweepDone, SweepFails, NoSwp, remote
  <2>6. CASE SweepRead
    <3>1. PICK id \in sweep.todo :
             sweep' = IF \E t \in tombs : t.id = id /\ (ForceSweep \/ t.age >= Grace)
                THEN [at |-> "check", todo |-> sweep.todo \ {id}, id |-> id, cur |-> {},
                      left |-> (CHOOSE t \in tombs : t.id = id).objs]
                ELSE [sweep EXCEPT !.todo = @ \ {id}]
      BY <2>6 DEF SweepRead
    <3>2. UNCHANGED <<objs, tombs>> /\ sweep.at = "next"
      BY <2>6 DEF SweepRead, remote
    <3>3. CASE \E t \in tombs : t.id = id /\ (ForceSweep \/ t.age >= Grace)
      <4>1. PICK t \in tombs : t.id = id /\ t.age >= Grace
        BY <3>3
      <4>2. t = CHOOSE u \in tombs : u.id = id
        BY <4>1 DEF TypeInv, TypeOK, Typed, StoreOK
      <4>3. sweep'.at = "check" /\ sweep'.id = id /\ sweep'.cur = {} /\ sweep'.left = t.objs
        BY <3>1, <3>3, <4>2
      <4>4. SweepOK'
        BY <3>2, <4>1, <4>3 DEF SweepOK
      <4>5. QED
        BY <1>1, <2>1, <2>2, <3>2, <4>3, <4>4, StoreQuiet
    <3>4. CASE sweep' = [sweep EXCEPT !.todo = @ \ {id}]
      <4>1. sweep'.at = "next"
        BY <3>2, <3>4 DEF TypeInv, TypeOK, Typed, GcOK, SweepType
      <4>2. QED
        BY <2>2, <2>3, <3>2, <4>1
    <3>5. QED
      BY <3>1, <3>3, <3>4
  <2>7. CASE SweepCheck
    <3>1. PICK o \in sweep.left :
           sweep' = IF o \in Packs
                THEN [sweep EXCEPT !.left = @ \ {o}, !.cur = {o},
                                   !.at = IF chain = NoChain THEN "remove" ELSE "load"]
                ELSE [sweep EXCEPT !.left = @ \ {o},
                                   !.cur = {o} \ Refs(chain),
                                   !.at = IF o \in Refs(chain) THEN "check" ELSE "recheck"]
      BY <2>7 DEF SweepCheck
    <3>2. UNCHANGED <<objs, tombs>> /\ sweep.at = "check" /\ sweep \in SweepType /\ o \in Packs \cup Bundles
      BY <2>7, Fields DEF SweepCheck, remote, TypeInv, TypeOK, Typed, GcOK
    <3>3. sweep'.id = sweep.id /\ sweep'.left = sweep.left \ {o} /\ sweep'.cur \subseteq {o}
      BY <3>1, <3>2 DEF SweepType
    <3>4. sweep'.at = "load" => sweep'.cur = {o}
      BY <3>1, <3>2 DEF SweepType
    <3>5. sweep'.at = "recheck" => sweep'.cur = {o}
      BY <3>1, <3>2 DEF SweepType
    <3>6. sweep'.at = "remove" => chain = NoChain
      BY <3>1, <3>2 DEF SweepType
    <3>7. sweep'.at = "remove" => sweep'.cur \cap Refs(chain) = {}
      BY <3>6 DEF Refs
    <3>8. QED
      BY <2>2, <2>4, <3>2, <3>3, <3>4, <3>5, <3>7
  <2>8. CASE SweepLoad \/ SweepRecheck
    <3>1. UNCHANGED <<objs, tombs>> /\ sweep.at \in {"load", "recheck"} /\ sweep \in SweepType
      BY <2>8 DEF SweepLoad, SweepRecheck, remote, TypeInv, TypeOK, Typed, GcOK
    <3>2. \/ SweepDefer \/ sweep' = [sweep EXCEPT !.at = "check", !.cur = {}]
          \/ sweep' = [sweep EXCEPT !.at = "remove"] /\ ~(sweep.cur \subseteq Refs(chain))
      BY <2>8, Zenon DEF SweepLoad, SweepRecheck
    <3>3. CASE SweepDefer
      BY <2>2, <2>3, <2>d, <3>1, <3>3
    <3>4. CASE sweep' = [sweep EXCEPT !.at = "check", !.cur = {}]
      <4>1. sweep'.at = "check" /\ sweep'.id = sweep.id /\ sweep'.left = sweep.left /\ sweep'.cur = {}
        BY <3>1, <3>4 DEF SweepType
      <4>2. QED
        BY <2>2, <2>4, <3>1, <4>1
    <3>5. CASE sweep' = [sweep EXCEPT !.at = "remove"] /\ ~(sweep.cur \subseteq Refs(chain))
      <4>1. sweep'.at = "remove" /\ sweep'.id = sweep.id /\ sweep'.left = sweep.left /\ sweep'.cur = sweep.cur
        BY <3>1, <3>5 DEF SweepType
      <4>2. PICK o \in Packs \cup Bundles : sweep.cur = {o}
        BY <3>1 DEF SweepOK
      <4>3. sweep'.cur \cap Refs(chain) = {}
        BY <3>5, <4>1, <4>2
      <4>4. QED
        BY <2>2, <2>4, <3>1, <4>1, <4>3
    <3>6. QED
      BY <3>2, <3>3, <3>4, <3>5
  <2>9. CASE SweepRemove
    <3>1. tombs' = tombs /\ objs' = objs \ sweep.cur /\ sweep.at = "remove" /\ sweep \in SweepType
          /\ sweep' = [sweep EXCEPT !.at = "check", !.cur = {}]
      BY <2>9 DEF SweepRemove, TypeInv, TypeOK, Typed, GcOK
    <3>2. sweep'.at = "check" /\ sweep'.id = sweep.id /\ sweep'.left = sweep.left /\ sweep'.cur = {}
      BY <3>1 DEF SweepType
    <3>3. SweepOK'
      BY <3>1, <3>2 DEF SweepOK
    <3>4. PICK t \in tombs : t.id = sweep.id /\ t.age >= Grace /\ sweep.left \cup sweep.cur \subseteq t.objs
      BY <3>1 DEF SweepOK
    <3>5. ASSUME hazards = {}, NEW o \in sweep.cur, NEW p \in Clients, Holds(p, o) PROVE FALSE
      <4>1. o \in Packs \cup Bundles /\ o \in t.objs
        BY <3>1, <3>4, Fields
      <4>2. t.age <= age[p]
        BY <3>5, <4>1 DEF HoldsOK
      <4>3. t.age \in Nat /\ age[p] \in Nat /\ age[p] <= MaxOp
        BY ConstantsAssumption DEF TypeInv, TypeOK, Typed, StoreOK, ClientsOK
      <4>4. QED
        BY <3>4, <4>2, <4>3, ConstantsAssumption
    <3>6. hazards = {} => \A o \in sweep.cur : o \notin Refs(chain)
      BY <3>1 DEF SweepSafe
    <3>7. hazards = {} => \A o \in objs : o \in objs' \/ (o \notin Refs(chain) /\ \A p \in Clients : ~Holds(p, o))
      BY <3>1, <3>5, <3>6
    <3>8. QED
      BY <1>1, <2>1, <2>2, <3>1, <3>2, <3>3, <3>7, StoreQuiet
  <2>10. CASE SweepTomb
    BY <2>2, <2>3, <2>10, <2>d DEF SweepTomb
  <2>11. QED
    BY <1>4, <2>5, <2>6, <2>7, <2>8, <2>9, <2>10 DEF SweepStep
<1>5. QED
  BY <1>2, <1>3, <1>4 DEF Background

\* An hour makes nothing older than the operation that holds it.
LEMMA TickTombs ==
  ASSUME StoreOK, Tick, NEW t \in tombs'
  PROVE  \E u \in tombs : t.id = u.id /\ t.objs = u.objs /\ t.age <= u.age + 1 /\ (u.age >= Grace => t.age >= Grace)
<1>1. PICK u \in tombs : t = [u EXCEPT !.age = Older(@)]
  BY DEF Tick
<1>2. t.id = u.id /\ t.objs = u.objs /\ t.age = Older(u.age) /\ u.age \in 0..Grace
  BY <1>1 DEF StoreOK
<1>3. QED
  BY <1>2, ConstantsAssumption DEF Older

LEMMA StoreTick ==
  ASSUME StoreInv, Tick
  PROVE  MarkFresh' /\ SweepOK' /\ (hazards' = {} => HoldsOK' /\ SweepSafe' /\ ChainResolvable')
<1> USE DEF StoreInv
<1>1. UNCHANGED <<chain, objs, pc, op, prior, sweep, hazards>>
  BY DEF Tick
<1>2. mark'.at = mark.at /\ mark'.seen = mark.seen
      /\ mark'.age = IF mark.at = "put" THEN Older(mark.age) ELSE mark.age
  BY DEF Tick, TypeInv, TypeOK, Typed, GcOK, MarkType
<1>3. MarkFresh'
  BY <1>2 DEF MarkFresh
<1>4. SweepOK'
  <2> SUFFICES ASSUME sweep.at \in {"check", "load", "recheck", "remove"}
               PROVE  \E t \in tombs' : t.id = sweep.id /\ t.age >= Grace /\ sweep.left \cup sweep.cur \subseteq t.objs
    BY <1>1 DEF SweepOK
  <2>1. PICK u \in tombs : u.id = sweep.id /\ u.age >= Grace /\ sweep.left \cup sweep.cur \subseteq u.objs
    BY DEF SweepOK
  <2>2. [u EXCEPT !.age = Older(@)] \in tombs' /\ u.age \in 0..Grace
    BY DEF Tick, TypeInv, TypeOK, Typed, StoreOK
  <2>3. [u EXCEPT !.age = Older(@)] = u
    BY <2>1, <2>2, ConstantsAssumption DEF Older, TypeInv, TypeOK, Typed, StoreOK
  <2>4. QED
    BY <2>1, <2>2, <2>3
<1>5. SUFFICES ASSUME hazards = {} PROVE HoldsOK'
  BY <1>1, <1>3, <1>4 DEF SweepSafe, ChainResolvable
<1>6. ASSUME NEW q \in Clients, NEW o \in Packs \cup Bundles, Holds(q, o)'
      PROVE  /\ o \in objs'
             /\ \A t \in tombs' : o \in t.objs => t.age <= age'[q]
             /\ mark'.at = "put" /\ o \in mark'.seen => mark'.age <= age'[q]
  <2>1. Holds(q, o) /\ pc[q] # "idle"
    BY <1>1, <1>6, HoldsFrame DEF Holds
  <2>2. age'[q] = age[q] + 1 /\ age[q] \in Nat
    BY <2>1, ConstantsAssumption DEF Tick, TypeInv, TypeOK, Typed, ClientsOK
  <2>3. ASSUME NEW t \in tombs', o \in t.objs PROVE t.age <= age'[q]
    <3>1. PICK u \in tombs : t.objs = u.objs /\ t.age <= u.age + 1
      BY TickTombs DEF TypeInv, TypeOK, Typed
    <3>2. u.age <= age[q] /\ u.age \in Nat
      BY <1>5, <2>1, <2>3, <3>1, ConstantsAssumption DEF HoldsOK, TypeInv, TypeOK, Typed, StoreOK
    <3>3. t.age \in Int
      <4>1. PICK v \in tombs : t = [v EXCEPT !.age = Older(@)]
        BY DEF Tick
      <4>2. t.age = Older(v.age) /\ v.age \in 0..Grace
        BY <4>1 DEF TypeInv, TypeOK, Typed, StoreOK
      <4>3. QED
        BY <4>2, ConstantsAssumption DEF Older
    <3>4. QED
      BY <2>2, <3>1, <3>2, <3>3
  <2>4. mark'.at = "put" /\ o \in mark'.seen => mark'.age <= age'[q]
    <3>1. SUFFICES ASSUME mark.at = "put", o \in mark.seen PROVE mark'.age <= age'[q]
      BY <1>2
    <3>2. mark.age <= age[q] /\ mark.age \in 0..Grace
      BY <1>5, <2>1, <3>1, Fields DEF HoldsOK, TypeInv, TypeOK, Typed, GcOK
    <3>3. mark'.age = Older(mark.age)
      BY <1>2, <3>1
    <3>4. QED
      BY <2>2, <3>2, <3>3, ConstantsAssumption DEF Older
  <2>5. QED
    BY <1>1, <1>5, <2>1, <2>3, <2>4 DEF HoldsOK
<1>7. QED
  BY <1>6 DEF HoldsOK

LEMMA StoreStep ==
  ASSUME MaxOp < Grace, ~ForceSweep
  PROVE  StoreInv /\ TypeInv' /\ [Next]_vars => StoreInv'
<1> SUFFICES ASSUME StoreInv, TypeInv', [Next]_vars
             PROVE  MarkFresh' /\ SweepOK' /\ (hazards' = {} => HoldsOK' /\ SweepSafe' /\ ChainResolvable')
  BY DEF StoreInv
<1>1. CASE \E p \in Clients : Acts(p)
  BY <1>1, StoreActs
<1>2. CASE Background
  BY <1>2, StoreBackground
<1>3. CASE Tick
  BY <1>3, StoreTick
<1>4. CASE UNCHANGED vars
  <2>1. UNCHANGED <<chain, objs, tombs, pc, op, prior, age, mark, sweep, hazards>>
    BY <1>4 DEF vars, remote, client, gc
  <2>2. MarkFresh' /\ SweepOK' /\ (hazards = {} /\ sweep'.at = "remove" => sweep'.cur \cap Refs(chain) = {})
    BY <2>1 DEF StoreInv, MarkFresh, SweepOK, SweepSafe
  <2>3. QED
    BY <2>1, <2>2, StoreQuiet
<1>5. QED
  BY <1>1, <1>2, <1>3, <1>4 DEF Next, Acts, Background

LEMMA StoreInit == Init => StoreInv
<1> SUFFICES ASSUME Init PROVE StoreInv
  OBVIOUS
<1>1. TypeInv
  BY TypeInit
<1>2. \A p \in Clients, o \in Packs \cup Bundles : ~Holds(p, o)
  BY DEF Init, Holds
<1>3. QED
  BY <1>1, <1>2 DEF Init, StoreInv, MarkFresh, SweepOK, HoldsOK, SweepSafe, ChainResolvable, NoMark, NoSwp,
     Refs

LEMMA StoreInvariant ==
  ASSUME MaxOp < Grace, ~ForceSweep
  PROVE  Spec => []StoreInv
<1>1. Init => StoreInv
  BY StoreInit
<1>2. StoreInv /\ TypeInv' /\ [Next]_vars => StoreInv'
  BY StoreStep
<1>3. QED
  BY <1>1, <1>2, TypeInvariant, PTL DEF Spec

\* Whoever pushes, forces, compacts, deletes, marks or sweeps, and whatever
\* fails on the way: as long as an operation takes less than the grace window
\* and no sweep is forced, every pack and the baseline that chain.json names
\* are in the store, but for the hazards that the model names.
THEOREM ResolvableCorrect ==
  ASSUME MaxOp < Grace, ~ForceSweep
  PROVE  Spec => []ChainResolvable
<1>1. StoreInv => ChainResolvable
  BY DEF StoreInv, ChainResolvable
<1>2. QED
  BY <1>1, StoreInvariant, PTL

-----------------------------------------------------------------------------
(* What a fetch gets.                                                      *)

\* Only the fetch itself and the hours touch what it has read.
LEMMA ReadFrame ==
  /\ \A p \in Clients : TypeInv /\ Acts(p) => read' = read
  /\ StaleRecovery \/ MarkStep \/ MarkFails \/ SweepStep \/ SweepFails => read' = read
  /\ read \in ReadType /\ Tick => \E a \in 0..(MaxFetch + 1) : read' = [read EXCEPT !.age = a]
<1>1. ASSUME StaleRecovery \/ MarkStep \/ MarkFails \/ SweepStep \/ SweepFails PROVE read' = read
  BY <1>1 DEF StaleRecovery, MarkStep, MarkList, MarkChains, MarkRefs, MarkPut, MarkFails,
       SweepStep, SweepList, SweepRead, SweepCheck, SweepLoad, SweepRecheck, SweepRemove, SweepTomb,
       SweepDone, SweepFails
<1>2. ASSUME read \in ReadType, Tick PROVE \E a \in 0..(MaxFetch + 1) : read' = [read EXCEPT !.age = a]
  <2>1. read.age \in 0..(MaxFetch + 1) /\ read.age + 1 \in 0..(MaxFetch + 1)
    BY <1>2, Fields, ConstantsAssumption
  <2>2. read' = [read EXCEPT !.age = IF Reading THEN @ + 1 ELSE @]
    BY <1>2 DEF Tick
  <2>3. QED
    BY <2>1, <2>2
<1>3. QED
  BY <1>1, <1>2, ActsFrame

\* The steps of the fetch: what it has to get next, and how it ends.
LEMMA FetchedStep == TypeInv /\ ReadOK /\ [Next]_vars => ReadOK'
<1> SUFFICES ASSUME TypeInv, ReadOK, [Next]_vars PROVE ReadOK'
  OBVIOUS
<1> USE DEF TypeInv, TypeOK, Typed
<1>1. CASE \/ \E p \in Clients : Acts(p)
           \/ StaleRecovery \/ MarkStep \/ MarkFails \/ SweepStep \/ SweepFails \/ UNCHANGED vars
  BY <1>1, ReadFrame DEF ReadOK, vars
<1>2. CASE Tick
  <2>1. PICK a : read' = [read EXCEPT !.age = a]
    BY <1>2, ReadFrame
  <2>2. QED
    BY <2>1 DEF ReadOK, ReadType
<1>3. CASE FetchStart \/ FetchDone
  <2>1. FetchDone => read'.at = "idle" /\ read'.res = "none"
    BY DEF FetchDone, NoRead
  <2>2. FetchStart => read'.at = "load" /\ read'.res = "none"
    BY DEF FetchStart, NoRead
  <2>3. QED
    BY <1>3, <2>1, <2>2 DEF ReadOK
<1>4. CASE FetchInstall
  BY <1>4 DEF FetchInstall, ReadOK, ReadType
<1>5. ASSUME NEW res, FetchEnds(res) PROVE ReadOK'
  BY <1>5 DEF FetchEnds, ReadOK, ReadType
<1>6. CASE FetchLoad
  <2>1. CASE chain # NoChain
    <3>1. read' = [read EXCEPT !.at = "get", !.chain = chain, !.need = Needed(chain, read.have),
                               !.doomed = Named(Bundle(chain.full))] /\ read.at = "load"
      BY <1>6, <2>1 DEF FetchLoad
    <3>2. read'.at = "get" /\ read'.chain = chain /\ read'.have = read.have /\ read'.res = read.res
          /\ read'.need = Needed(chain, read.have)
      BY <3>1 DEF ReadType
    <3>3. QED
      BY <2>1, <3>1, <3>2 DEF ReadOK
  <2>2. QED
    BY <1>5, <1>6, <2>1 DEF FetchLoad
<1>7. CASE FetchGet
  <2>1. PICK o \in read.need :
         CASE o \in objs     -> read' = [read EXCEPT !.need = @ \ {o}]
           [] o \in Bundles \ objs -> FetchEnds("baselineMissing")
           [] o \in Packs \ objs   -> read' = [read EXCEPT !.at = "reload", !.miss = {o}, !.need = {}]
    BY <1>7, Zenon DEF FetchGet
  <2>2. o \in objs \/ o \in Bundles \ objs \/ o \in Packs \ objs
    BY Fields
  <2>3. \/ read' = [read EXCEPT !.need = @ \ {o}]
        \/ FetchEnds("baselineMissing")
        \/ read' = [read EXCEPT !.at = "reload", !.miss = {o}, !.need = {}]
    BY <2>1, <2>2, Zenon
  <2>4. CASE read' = [read EXCEPT !.need = @ \ {o}]
    <3>1. /\ read'.at = read.at /\ read'.need = read.need \ {o} /\ read'.chain = read.chain
          /\ read'.have = read.have /\ read'.res = read.res
      BY <2>4 DEF ReadType
    <3>2. QED
      BY <3>1 DEF ReadOK
  <2>5. CASE read' = [read EXCEPT !.at = "reload", !.miss = {o}, !.need = {}]
    <3>1. read'.at = "reload" /\ read'.res = read.res /\ read.at = "get"
      BY <1>7, <2>5 DEF ReadType, FetchGet
    <3>2. QED
      BY <3>1 DEF ReadOK
  <2>6. QED
    BY <1>5, <2>3, <2>4, <2>5
<1>8. CASE FetchReload
  <2>1. \/ \E res : FetchEnds(res)
        \/ read' = [read EXCEPT !.at = "load", !.tries = @ + 1, !.miss = {}]
    BY <1>8, Zenon DEF FetchReload
  <2>2. QED
    BY <1>5, <1>8, <2>1 DEF FetchReload, ReadOK, ReadType
<1>9. QED
  BY <1>1, <1>2, <1>3, <1>4, <1>6, <1>7, <1>8 DEF Next, Acts, FetchStep

\* The baseline that the fetch has to get.
LEMMA NeededBaseline ==
  ASSUME TypeInv, ReadOK, read.at = "get"
  PROVE  /\ Bundle(read.chain.full) \in Bundles
         /\ \A o \in read.need \cap Bundles : o = Bundle(read.chain.full)
<1>1. read.chain \in Manifest /\ read.need \subseteq Needed(read.chain, read.have)
  BY Fields DEF TypeInv, TypeOK, Typed, ReadOK
<1>2. read.chain.full \in Commits /\ read.chain.segs \in Seq(Packs)
  BY <1>1 DEF Manifest
<1>3. \A o \in Needed(read.chain, read.have) : o \in Packs \/ o = Bundle(read.chain.full)
  BY <1>2 DEF Needed
<1>4. QED
  BY <1>1, <1>2, <1>3, Disjoint DEF Bundles

LEMMA BaselineStep ==
  ASSUME StoreInv, ReadOK, BaselineOK, [Next]_vars
  PROVE  BaselineOK'
<1> USE DEF StoreInv, TypeInv, TypeOK, Typed
<1> DEFINE b == Bundle(read.chain.full)
<1>h. hazards' = {} => hazards = {}
  BY HazardsStay
\* Nothing that others do takes the baseline away before its time.
<1>1. ASSUME read' = read, hazards' = {} => objs \subseteq objs' \/ (read.at = "get" /\ read.age < Grace /\ ~read.doomed => b \notin objs \ objs'),
             \A t \in tombs' : t \in tombs \/ t.age = 0 \/ t.objs \subseteq Packs
      PROVE  BaselineOK'
  <2>1. SUFFICES ASSUME hazards' = {}, ~read.doomed, read.at = "get"
                 PROVE  /\ read.age < Grace => b \in objs'
                        /\ \A t \in tombs' : b \in t.objs => t.age <= read.age
    BY <1>1 DEF BaselineOK
  <2>2. /\ read.age < Grace => b \in objs
        /\ \A t \in tombs : b \in t.objs => t.age <= read.age
    BY <1>h, <2>1 DEF BaselineOK
  <2>3. b \notin Packs /\ read.age \in Nat
    BY <2>1, NeededBaseline, Disjoint, Fields, ConstantsAssumption
  <2>4. QED
    BY <1>1, <2>1, <2>2, <2>3
<1>2. ASSUME NEW p \in Clients, Acts(p) PROVE BaselineOK'
  BY <1>1, <1>2, ActsFrame
<1>3. CASE StaleRecovery \/ MarkStep \/ MarkFails
  <2>1. read' = read /\ objs' = objs
    BY <1>3, ReadFrame DEF StaleRecovery, MarkFails, MarkStep, MarkList, MarkChains, MarkRefs, MarkPut, remote
  <2>2. \A t \in tombs' : t \in tombs \/ t.objs \subseteq Packs
    BY <1>3, Fields DEF StaleRecovery, MarkFails, MarkStep, MarkList, MarkChains, MarkRefs, MarkPut, remote, GcOK
  <2>3. QED
    BY <1>1, <2>1, <2>2
<1>4. CASE SweepStep \/ SweepFails
  <2>1. read' = read /\ tombs' \subseteq tombs /\ (objs' = objs \/ SweepRemove)
    BY <1>4, ReadFrame DEF SweepStep, SweepList, SweepRead, SweepCheck, SweepLoad, SweepRecheck, SweepRemove,
                SweepTomb, SweepDone, SweepFails, remote
  <2>2. ASSUME SweepRemove, hazards' = {}, ~read.doomed, read.at = "get", b \in objs \ objs', read.age < Grace
        PROVE  FALSE
    <3>1. PICK t \in tombs : t.age >= Grace /\ sweep.cur \subseteq t.objs
      BY <2>2 DEF SweepOK, SweepRemove
    <3>2. b \in t.objs
      BY <2>2, <3>1 DEF SweepRemove
    <3>3. t.age <= read.age /\ read.age \in Nat /\ t.age \in Nat
      BY <1>h, <2>2, <3>2, Fields, ConstantsAssumption DEF BaselineOK, StoreOK
    <3>4. QED
      BY <2>2, <3>1, <3>3, ConstantsAssumption
  <2>3. QED
    BY <1>1, <2>1, <2>2
<1>5. CASE FetchStart \/ FetchInstall \/ FetchReload \/ FetchDone
  <2>1. read'.at # "get"
    <3>1. CASE FetchReload
      <4>1. \/ \E res : FetchEnds(res)
            \/ read' = [read EXCEPT !.at = "load", !.tries = @ + 1, !.miss = {}]
        BY <3>1, Zenon DEF FetchReload
      <4>2. QED
        BY <4>1 DEF FetchEnds, ReadType
    <3>2. CASE FetchStart
      BY <3>2 DEF FetchStart, NoRead
    <3>3. CASE FetchDone
      BY <3>3 DEF FetchDone, NoRead
    <3>4. CASE FetchInstall
      BY <3>4 DEF FetchInstall, ReadType
    <3>5. QED
      BY <1>5, <3>1, <3>2, <3>3, <3>4
  <2>2. QED
    BY <2>1 DEF BaselineOK
<1>6. CASE FetchLoad
  <2>0. UNCHANGED <<chain, objs, tombs, hazards>>
    BY <1>6 DEF FetchLoad, remote
  <2>1. CASE chain # NoChain
    <3>1. read' = [read EXCEPT !.at = "get", !.chain = chain, !.need = Needed(chain, read.have),
                               !.doomed = Named(Bundle(chain.full))]
      BY <1>6, <2>1 DEF FetchLoad
    <3>2. read'.chain = chain /\ read'.doomed = Named(Bundle(chain.full))
      BY <3>1 DEF ReadType
    <3>3. hazards = {} => Bundle(chain.full) \in objs
      BY <2>1 DEF ChainResolvable, Refs
    <3>4. ~read'.doomed => \A t \in tombs : Bundle(chain.full) \notin t.objs
      BY <3>2 DEF Named
    <3>5. QED
      BY <2>0, <3>2, <3>3, <3>4 DEF BaselineOK
  <2>2. CASE FetchEnds("absent")
    BY <2>2 DEF FetchEnds, ReadType, BaselineOK
  <2>3. QED
    BY <1>6, <2>1, <2>2 DEF FetchLoad
<1>7. CASE FetchGet
  <2>1. PICK o \in read.need :
         CASE o \in objs     -> read' = [read EXCEPT !.need = @ \ {o}]
           [] o \in Bundles \ objs -> FetchEnds("baselineMissing")
           [] o \in Packs \ objs   -> read' = [read EXCEPT !.at = "reload", !.miss = {o}, !.need = {}]
    BY <1>7, Zenon DEF FetchGet
  <2>2. o \in objs \/ o \in Bundles \ objs \/ o \in Packs \ objs
    BY Fields
  <2>3. \/ read' = [read EXCEPT !.need = @ \ {o}]
        \/ FetchEnds("baselineMissing")
        \/ read' = [read EXCEPT !.at = "reload", !.miss = {o}, !.need = {}]
    BY <2>1, <2>2, Zenon
  <2>4. UNCHANGED <<objs, tombs, hazards>> /\ read.at = "get"
    BY <1>7 DEF FetchGet, remote
  <2>5. read'.at # "get" \/ (read'.chain = read.chain /\ read'.doomed = read.doomed /\ read'.age = read.age)
    BY <2>3 DEF FetchEnds, ReadType
  <2>6. QED
    BY <2>4, <2>5 DEF BaselineOK
<1>8. CASE Tick
  <2>1. read' = [read EXCEPT !.age = IF Reading THEN @ + 1 ELSE @] /\ UNCHANGED <<objs, hazards>>
    BY <1>8 DEF Tick
  <2>2. read'.at = read.at /\ read'.chain = read.chain /\ read'.doomed = read.doomed
    BY <2>1 DEF ReadType
  <2>3. read.at = "get" => read'.age = read.age + 1 /\ read.age \in Nat
    BY <2>1, ConstantsAssumption DEF ReadType, Reading
  <2>4. SUFFICES ASSUME hazards = {}, ~read.doomed, read.at = "get"
                 PROVE  /\ read.age + 1 < Grace => b \in objs
                        /\ \A t \in tombs' : b \in t.objs => t.age <= read.age + 1
    BY <2>1, <2>2, <2>3 DEF BaselineOK
  <2>5. ASSUME NEW t \in tombs', b \in t.objs PROVE t.age <= read.age + 1
    <3>1. PICK u \in tombs : t = [u EXCEPT !.age = Older(@)]
      BY <1>8 DEF Tick
    <3>2. t.objs = u.objs /\ t.age = Older(u.age) /\ u.age \in 0..Grace
      BY <3>1 DEF StoreOK
    <3>3. u.age <= read.age
      BY <2>4, <2>5, <3>2 DEF BaselineOK
    <3>4. QED
      BY <2>3, <2>4, <3>2, <3>3, ConstantsAssumption DEF Older
  <2>6. QED
    BY <2>3, <2>4, <2>5, ConstantsAssumption DEF BaselineOK
<1>9. CASE UNCHANGED vars
  BY <1>9 DEF vars, remote, BaselineOK
<1>10. QED
  BY <1>2, <1>3, <1>4, <1>5, <1>6, <1>7, <1>8, <1>9 DEF Next, Acts, FetchStep

LEMMA LosesStep ==
  ASSUME StoreInv, ReadOK, BaselineOK, FetchLosesNothing, [Next]_vars
  PROVE  FetchLosesNothing'
<1> USE DEF StoreInv, TypeInv, TypeOK, Typed
<1>h. hazards' = {} => hazards = {}
  BY HazardsStay
<1>1. CASE \/ \E p \in Clients : Acts(p)
           \/ StaleRecovery \/ MarkStep \/ MarkFails \/ SweepStep \/ SweepFails \/ UNCHANGED vars
  BY <1>h, <1>1, ReadFrame DEF FetchLosesNothing, vars
<1>2. CASE Tick
  <2>1. read' = [read EXCEPT !.age = IF Reading THEN @ + 1 ELSE @]
    BY <1>2 DEF Tick
  <2>2. read'.res = read.res /\ read'.doomed = read.doomed /\ (read.at = "done" => read'.age = read.age)
    BY <2>1 DEF ReadType, Reading
  <2>3. QED
    BY <1>h, <2>2 DEF FetchLosesNothing, ReadOK
\* Every other ending has another name.
<1>3. ASSUME NEW res, res # "baselineMissing", FetchEnds(res) PROVE read'.res # "baselineMissing"
  BY <1>3 DEF FetchEnds, ReadType
<1>4. CASE FetchStart \/ FetchDone
  <2>1. read'.res = "none"
    <3>1. CASE FetchStart
      BY <3>1 DEF FetchStart, NoRead
    <3>2. CASE FetchDone
      BY <3>2 DEF FetchDone, NoRead
    <3>3. QED
      BY <1>4, <3>1, <3>2
  <2>2. QED
    BY <2>1 DEF FetchLosesNothing
<1>5. CASE FetchLoad \/ FetchInstall \/ FetchReload
  <2>1. read.at \in {"load", "get", "reload"}
    BY <1>5 DEF FetchLoad, FetchInstall, FetchReload
  <2>2. read.res # "baselineMissing"
    BY <2>1 DEF ReadOK
  <2>3. \/ read'.res \in {"ok", read.res}
        \/ \E res \in {"absent", "packMissing", "exhausted"} : FetchEnds(res)
    <3>1. CASE FetchReload
      <4>1. \/ \E res \in {"absent", "packMissing", "exhausted"} : FetchEnds(res)
            \/ read' = [read EXCEPT !.at = "load", !.tries = @ + 1, !.miss = {}]
        BY <3>1, Zenon DEF FetchReload
      <4>2. QED
        BY <4>1 DEF ReadType
    <3>2. CASE FetchLoad
      BY <3>2 DEF FetchLoad, ReadType
    <3>3. CASE FetchInstall
      BY <3>3 DEF FetchInstall, ReadType
    <3>4. QED
      BY <1>5, <3>1, <3>2, <3>3
  <2>4. QED
    BY <1>3, <2>2, <2>3 DEF FetchLosesNothing
<1>6. CASE FetchGet
  <2>1. PICK o \in read.need :
         CASE o \in objs     -> read' = [read EXCEPT !.need = @ \ {o}]
           [] o \in Bundles \ objs -> FetchEnds("baselineMissing")
           [] o \in Packs \ objs   -> read' = [read EXCEPT !.at = "reload", !.miss = {o}, !.need = {}]
    BY <1>6, Zenon DEF FetchGet
  <2>2. o \in objs \/ o \in Bundles \ objs \/ o \in Packs \ objs
    BY Fields
  <2>3. \/ read' = [read EXCEPT !.need = @ \ {o}]
        \/ o \in Bundles \ objs /\ FetchEnds("baselineMissing")
        \/ read' = [read EXCEPT !.at = "reload", !.miss = {o}, !.need = {}]
    BY <2>1, <2>2, Zenon
  <2>4. read.at = "get" /\ hazards' = hazards /\ read.res # "baselineMissing"
    BY <1>6 DEF FetchGet, ReadOK
  <2>5. CASE o \in Bundles \ objs /\ FetchEnds("baselineMissing")
    <3>1. o = Bundle(read.chain.full)
      BY <2>4, <2>5, NeededBaseline
    <3>2. ~(hazards = {} /\ ~read.doomed /\ read.age < Grace)
      BY <2>4, <2>5, <3>1 DEF BaselineOK
    <3>3. read'.doomed = read.doomed /\ read'.age = read.age
      BY <2>5 DEF FetchEnds, ReadType
    <3>4. QED
      BY <2>4, <3>2, <3>3 DEF FetchLosesNothing
  <2>6. CASE \/ read' = [read EXCEPT !.need = @ \ {o}]
             \/ read' = [read EXCEPT !.at = "reload", !.miss = {o}, !.need = {}]
    <3>1. read'.res = read.res
      BY <2>6 DEF ReadType
    <3>2. QED
      BY <2>4, <3>1 DEF FetchLosesNothing
  <2>7. QED
    BY <2>3, <2>5, <2>6
<1>7. QED
  BY <1>1, <1>2, <1>4, <1>5, <1>6 DEF Next, Acts, FetchStep

\* A fetch that takes less than the grace window never meets a missing
\* baseline, although force pushes and compactions replace it and sweeps go on
\* (issue #134), unless an earlier replacement had condemned that baseline by
\* the time the chain was read.
THEOREM FetchCorrect ==
  ASSUME MaxOp < Grace, ~ForceSweep
  PROVE  Spec => []FetchLosesNothing
<1>1. Init => ReadOK /\ BaselineOK /\ FetchLosesNothing
  BY DEF Init, NoRead, ReadOK, BaselineOK, FetchLosesNothing
<1>2. StoreInv /\ ReadOK /\ BaselineOK /\ FetchLosesNothing /\ [Next]_vars
      => ReadOK' /\ BaselineOK' /\ FetchLosesNothing'
  <2>1. StoreInv => TypeInv
    BY DEF StoreInv
  <2>2. QED
    BY <2>1, FetchedStep, BaselineStep, LosesStep
<1>3. Spec => []StoreInv
  BY StoreInvariant
<1>4. QED
  BY <1>1, <1>2, <1>3, PTL DEF Spec

-----------------------------------------------------------------------------
(* What a fetch installs.                                                  *)

LEMMA Ancestry ==
  /\ \A c \in Commits : c \in Ancestors(c)
  /\ \A a, b, c : a \in Ancestors(b) /\ b \in Ancestors(c) => a \in Ancestors(c)
<1>1. \A c \in Commits : c \in Ancestors(c)
  BY ConstantsAssumption DEF Ancestors
<1>2. ASSUME NEW a, NEW b, NEW c, a \in Ancestors(b), b \in Ancestors(c) PROVE a \in Ancestors(c)
  <2>1. <<a, b>> \in Ancestor /\ <<b, c>> \in Ancestor
    BY <1>2 DEF Ancestors
  <2>2. a \in Commits /\ b \in Commits /\ c \in Commits
    BY <1>2, <2>1, ConstantsAssumption DEF Ancestors
  <2>3. QED
    BY <2>1, <2>2, ConstantsAssumption DEF Ancestors
<1>3. QED
  BY <1>1, <1>2

\* One full segment.
LEMMA LinkedFull ==
  ASSUME NEW c \in Commits, NEW ch, ch.tip = c, ch.segs = <<Pack(None, c)>>
  PROVE  Linked(ch)
<1>1. Segments(ch) = {Pack(None, c)} /\ DOMAIN ch.segs = {1} /\ ch.segs[1].sha = c
  BY DEF Segments, Range, Pack
<1>2. Contents(Pack(None, c)) = Ancestors(c)
  BY DEF Contents, Pack
<1>3. Pack(None, c).sha = c
  BY DEF Pack
<1>4. QED
  BY <1>1, <1>2, <1>3, Ancestry DEF Linked

\* A segment on top of a chain whose tip it descends from.
LEMMA LinkedPush ==
  ASSUME NEW pr \in Manifest, Linked(pr), NEW c \in Commits, pr.tip \in Ancestors(c), NEW ch,
         ch.tip = c, ch.segs = <<Pack(pr.tip, c)>> \o pr.segs
  PROVE  Linked(ch)
<1> DEFINE s == Pack(pr.tip, c)
<1>1. s \in Packs /\ s.sha = c /\ s.base = pr.tip /\ pr.tip \in Commits /\ pr.segs \in Seq(Packs)
  BY DEF Packs, Pack, Manifest
<1>2. Segments(ch) = {s} \cup Segments(pr)
  BY <1>1, Prepend DEF Segments
<1>3. \A x \in Segments(pr) : x.sha \in Ancestors(c)
  BY Ancestry DEF Linked
<1>4. \A x \in Segments(ch) : x.sha \in Ancestors(c)
  BY <1>1, <1>2, <1>3, Ancestry
<1>5. Contents(s) = Ancestors(c) \ Ancestors(pr.tip)
  BY <1>1, ConstantsAssumption DEF Contents
<1>6. ASSUME NEW a \in Ancestors(c) PROVE \E x \in Segments(ch) : a \in Contents(x)
  <2>1. CASE a \in Ancestors(pr.tip)
    <3>1. PICK x \in Segments(pr) : a \in Contents(x)
      BY <2>1 DEF Linked
    <3>2. QED
      BY <1>2, <3>1
  <2>2. CASE a \notin Ancestors(pr.tip)
    BY <1>2, <1>5, <2>2
  <2>3. QED
    BY <2>1, <2>2
<1>7. ASSUME NEW i \in DOMAIN ch.segs, NEW j \in DOMAIN ch.segs, i <= j
      PROVE  ch.segs[j].sha \in Ancestors(ch.segs[i].sha)
  <2> HIDE DEF s
  <2>1. DOMAIN ch.segs = 1..(Len(pr.segs) + 1) /\ Len(pr.segs) \in Nat /\ DOMAIN pr.segs = 1..Len(pr.segs)
    BY <1>1 DEF s
  <2>2. \A k \in DOMAIN ch.segs : ch.segs[k] = IF k = 1 THEN s ELSE pr.segs[k - 1]
    BY <1>1 DEF s
  <2>3. \A k \in DOMAIN ch.segs : k # 1 => k - 1 \in DOMAIN pr.segs
    BY <2>1
  <2>4. \A k \in DOMAIN pr.segs : pr.segs[k] \in Segments(pr)
    BY DEF Segments, Range
  <2>5. CASE i = 1
    <3>1. ch.segs[i].sha = c
      BY <1>1, <2>2, <2>5
    <3>2. ch.segs[j] \in Segments(ch)
      BY <1>2, <2>2, <2>3, <2>4
    <3>3. QED
      BY <1>4, <3>1, <3>2
  <2>6. CASE i # 1
    <3>1. j # 1 /\ i - 1 <= j - 1
      BY <1>7, <2>1, <2>6
    <3>2. ch.segs[i] = pr.segs[i - 1] /\ ch.segs[j] = pr.segs[j - 1]
      BY <2>2, <2>6, <3>1
    <3>3. QED
      BY <2>3, <2>6, <3>1, <3>2 DEF Linked
  <2>7. QED
    BY <2>5, <2>6
<1>8. QED
  BY <1>4, <1>6, <1>7 DEF Linked

LEMMA LinkedNone == Linked(NoChain)
<1>1. Segments(NoChain) = {} /\ DOMAIN NoChain.segs = {}
  BY DEF NoChain, Segments, Range
<1>2. Ancestors(NoChain.tip) = {}
  BY ConstantsAssumption DEF NoChain, Ancestors
<1>3. QED
  BY <1>1, <1>2 DEF Linked

\* The chain that an operation commits is linked if the one it read is.
LEMMA LinkedNew ==
  ASSUME RegisterInv, NEW p \in Clients, pc[p] = "commit", Linked(prior[p])
  PROVE  Linked(NewChain(p))
<1> USE DEF RegisterInv, TypeInv, TypeOK, Typed
<1>1. op[p].kind \in Writers /\ op[p].local \in Commits /\ prior[p] \in Manifest \cup {NoChain}
      /\ (op[p].kind = "compact" => prior[p] # NoChain)
  BY DEF StageOK, Stage, PriorOK, ClientsOK
<1>2. CASE op[p].kind = "compact"
  <2>1. prior[p].tip \in Commits
    BY <1>1, <1>2, ManifestType
  <2>2. NewChain(p).tip = prior[p].tip /\ NewChain(p).segs = <<Pack(None, prior[p].tip)>>
    BY <1>2 DEF NewChain
  <2>3. QED
    BY <2>1, <2>2, LinkedFull
<1>3. CASE op[p].kind = "force" \/ (op[p].kind = "push" /\ prior[p] = NoChain)
  <2>1. NewChain(p).tip = op[p].local /\ NewChain(p).segs = <<Pack(None, op[p].local)>>
    BY <1>3 DEF NewChain, next_manifest, NewPack, Pack
  <2>2. QED
    BY <1>1, <2>1, LinkedFull
<1>4. CASE op[p].kind = "push" /\ prior[p] # NoChain
  <2>1. prior[p].tip \in Ancestors(op[p].local)
    BY <1>4 DEF JudgedOK, Judged, FastForward
  <2>2. NewChain(p).tip = op[p].local /\ NewChain(p).segs = <<Pack(prior[p].tip, op[p].local)>> \o prior[p].segs
    BY <1>4 DEF NewChain, next_manifest, NewPack, Pack
  <2>3. prior[p] \in Manifest
    BY <1>1, <1>4
  <2>4. QED
    BY <1>1, <2>1, <2>2, <2>3, LinkedPush
<1>5. QED
  BY <1>1, <1>2, <1>3, <1>4 DEF Writers, Pushes

\* A step of an operation remembers the chain of this moment, what it
\* remembered, or nothing.
LEMMA ActsPrior ==
  ASSUME TypeInv, NEW p \in Clients, Acts(p), NEW q \in Clients
  PROVE  prior'[q] \in {prior[q], chain, NoChain}
<1> USE DEF TypeInv, TypeOK, Typed
<1>1. prior' = prior \/ prior' = [prior EXCEPT ![p] = chain] \/ prior' = [prior EXCEPT ![p] = NoChain]
  <2>1. CASE PushStep(p) \/ CompactStep(p)
    BY <2>1 DEF PushStep, CompactStep, LoadForPush, UploadPack, UploadBundle, ReloadForPush, Commit, WriteIndex,
         TombstoneBaseline, LoadForCompact, ReloadForCompact, Download, CompactPack, CompactBundle,
         Finish, Forget, Leave, Advance
  <2>2. CASE ManageStep(p)
    BY <2>2 DEF ManageStep, Open, Confirm, ListForDelete, ListForDeleteBranch, DeferBaseline, DeleteOne, Deleted,
         Protect, Unprotect, Finish, Forget, Leave, Advance
  <2>3. CASE Begin(p) \/ AcquireLock(p) \/ Release(p) \/ RequestFails(p) \/ Crash(p)
    BY <2>3 DEF Begin, AcquireLock, Release, RequestFails, Crash, Finish, Forget, Leave, Advance
  <2>4. QED
    BY <2>1, <2>2, <2>3 DEF Acts, ClientStep
<1>2. QED
  BY <1>1 DEF ClientsOK

\* A segment that the reader does not take adds nothing that it lacks.
LEMMA FetchedAll ==
  ASSUME NEW ch \in Manifest, Linked(ch), NEW have, Closed(have)
  PROVE  Ancestors(ch.tip) \subseteq have \cup UNION {Contents(o) : o \in Needed(ch, have)}
<1> SUFFICES ASSUME NEW a \in Ancestors(ch.tip), a \notin have
             PROVE  \E o \in Needed(ch, have) : a \in Contents(o)
  OBVIOUS
<1>1. PICK s \in Segments(ch) : a \in Contents(s)
  BY DEF Linked
<1>2. PICK i \in DOMAIN ch.segs : s = ch.segs[i]
  BY DEF Segments, Range
<1>3. DOMAIN ch.segs = 1..Len(ch.segs) /\ Len(ch.segs) \in Nat
  BY DEF Manifest
<1>4. ASSUME NEW j \in 1..i, ch.segs[j].sha \in have PROVE FALSE
  <2>1. j \in DOMAIN ch.segs /\ j <= i
    BY <1>3
  <2>2. s.sha \in Ancestors(ch.segs[j].sha)
    BY <1>2, <2>1 DEF Linked
  <2>3. s.sha \in have
    BY <1>4, <2>2 DEF Closed
  <2>4. a \in Ancestors(s.sha)
    BY <1>1 DEF Contents
  <2>5. QED
    BY <2>3, <2>4 DEF Closed
<1>5. s \in Needed(ch, have)
  BY <1>2, <1>4 DEF Needed
<1>6. QED
  BY <1>1, <1>5

LEMMA CompleteStep ==
  ASSUME RegisterInv, ReadOK, LinkedOK, FetchComplete, [Next]_vars
  PROVE  LinkedOK' /\ FetchComplete'
<1> USE DEF RegisterInv, TypeInv, TypeOK, Typed
<1>1. ASSUME NEW p \in Clients, Acts(p) PROVE LinkedOK' /\ FetchComplete'
  <2>1. read' = read
    BY <1>1, ReadFrame
  <2>2. Linked(chain')
    BY <1>1, ActsFrame, LinkedNone, LinkedNew DEF LinkedOK
  <2>3. \A q \in Clients : Linked(prior'[q])
    BY <1>1, ActsPrior, LinkedNone DEF LinkedOK
  <2>4. QED
    BY <2>1, <2>2, <2>3 DEF LinkedOK, FetchComplete, Linked
<1>2. CASE Background \/ Tick \/ UNCHANGED vars
  <2>1. chain' = chain /\ prior' = prior
    BY <1>2, BackgroundFrame DEF Tick, vars, remote, client
  \* What the reader remembers of the chain and of its repository.
  <2>2. ASSUME Linked(read'.chain), read'.at # "done" => Closed(read'.have),
               read'.res = "ok" => Ancestors(read'.chain.tip) \subseteq read'.have
        PROVE  LinkedOK' /\ FetchComplete'
    <3>1. Linked(chain') /\ \A q \in Clients : Linked(prior'[q])
      BY <2>1 DEF LinkedOK
    <3>2. QED
      BY <2>2, <3>1 DEF LinkedOK, FetchComplete, Linked
  <2>3. ASSUME read'.chain = read.chain, read'.have = read.have, read'.at # "done" => read.at # "done",
               read'.res = read.res \/ read'.res # "ok"
        PROVE  LinkedOK' /\ FetchComplete'
    BY <2>2, <2>3 DEF LinkedOK, FetchComplete
  <2>4. CASE StaleRecovery \/ MarkStep \/ MarkFails \/ SweepStep \/ SweepFails \/ UNCHANGED vars
    BY <2>3, <2>4, ReadFrame DEF vars
  <2>5. CASE Tick
    <3>1. PICK a : read' = [read EXCEPT !.age = a]
      BY <2>5, ReadFrame
    <3>2. QED
      BY <2>3, <3>1 DEF ReadType
  <2>6. CASE FetchStart
    <3>1. PICK have \in Haves : read' = [NoRead EXCEPT !.at = "load", !.have = have]
      BY <2>6 DEF FetchStart
    <3>2. read'.chain = NoChain /\ read'.have = have /\ read'.res = "none"
      BY <3>1 DEF NoRead
    <3>3. Closed(have)
      BY ConstantsAssumption DEF Closed, Ancestors
    <3>4. QED
      BY <2>2, <3>2, <3>3, LinkedNone
  <2>7. CASE FetchDone
    <3>1. read'.chain = NoChain /\ read'.have = {} /\ read'.res = "none"
      BY <2>7 DEF FetchDone, NoRead
    <3>2. QED
      BY <2>2, <3>1, LinkedNone DEF Closed
  <2>8. ASSUME NEW res, res # "ok", FetchEnds(res) PROVE LinkedOK' /\ FetchComplete'
    <3>1. read'.chain = read.chain /\ read'.have = read.have /\ read'.at = "done" /\ read'.res = res
      BY <2>8 DEF FetchEnds, ReadType
    <3>2. QED
      BY <2>3, <2>8, <3>1
  <2>9. CASE FetchLoad
    <3>1. CASE chain # NoChain
      <4>1. read' = [read EXCEPT !.at = "get", !.chain = chain, !.need = Needed(chain, read.have),
                               !.doomed = Named(Bundle(chain.full))] /\ read.at = "load"
        BY <2>9, <3>1 DEF FetchLoad
      <4>2. read'.chain = chain /\ read'.have = read.have /\ read'.res = read.res
        BY <4>1 DEF ReadType
      <4>3. read.res # "ok"
        BY <4>1 DEF ReadOK
      <4>4. QED
        BY <2>2, <4>1, <4>2, <4>3 DEF LinkedOK
    <3>2. QED
      BY <2>8, <2>9, <3>1 DEF FetchLoad
  <2>10. CASE FetchGet
    <3>1. PICK o \in read.need :
           CASE o \in objs     -> read' = [read EXCEPT !.need = @ \ {o}]
             [] o \in Bundles \ objs -> FetchEnds("baselineMissing")
             [] o \in Packs \ objs   -> read' = [read EXCEPT !.at = "reload", !.miss = {o}, !.need = {}]
      BY <2>10, Zenon DEF FetchGet
    <3>2. o \in objs \/ o \in Bundles \ objs \/ o \in Packs \ objs
      BY Fields
    <3>3. \/ read' = [read EXCEPT !.need = @ \ {o}]
          \/ FetchEnds("baselineMissing")
          \/ read' = [read EXCEPT !.at = "reload", !.miss = {o}, !.need = {}]
      BY <3>1, <3>2, Zenon
    <3>4. read.at = "get"
      BY <2>10 DEF FetchGet
    <3>5. CASE FetchEnds("baselineMissing")
      BY <2>8, <3>5
    <3>6. CASE \/ read' = [read EXCEPT !.need = @ \ {o}]
               \/ read' = [read EXCEPT !.at = "reload", !.miss = {o}, !.need = {}]
      <4>1. read'.chain = read.chain /\ read'.have = read.have /\ read'.res = read.res
        BY <3>6 DEF ReadType
      <4>2. QED
        BY <2>3, <3>4, <4>1
    <3>7. QED
      BY <3>3, <3>5, <3>6
  <2>11. CASE FetchReload
    <3>1. \/ \E res \in {"absent", "packMissing", "exhausted"} : FetchEnds(res)
          \/ read' = [read EXCEPT !.at = "load", !.tries = @ + 1, !.miss = {}]
      BY <2>11, Zenon DEF FetchReload
    <3>2. CASE read' = [read EXCEPT !.at = "load", !.tries = @ + 1, !.miss = {}]
      <4>1. read'.chain = read.chain /\ read'.have = read.have /\ read'.res = read.res /\ read.at = "reload"
        BY <2>11, <3>2 DEF ReadType, FetchReload
      <4>2. QED
        BY <2>3, <4>1
    <3>3. QED
      BY <2>8, <3>1, <3>2
  <2>12. CASE FetchInstall
    <3>1. read.at = "get" /\ read' = [read EXCEPT !.at = "done", !.res = "ok",
             !.have = @ \cup UNION {Contents(o) : o \in Needed(read.chain, read.have)}]
      BY <2>12 DEF FetchInstall
    <3>2. read'.at = "done" /\ read'.chain = read.chain
          /\ read'.have = read.have \cup UNION {Contents(o) : o \in Needed(read.chain, read.have)}
      BY <3>1 DEF ReadType
    <3>3. read.chain \in Manifest
      BY <3>1, Fields DEF ReadOK
    <3>4. Ancestors(read.chain.tip) \subseteq read'.have
      BY <3>1, <3>2, <3>3, FetchedAll DEF LinkedOK
    <3>5. QED
      BY <2>2, <3>2, <3>4 DEF LinkedOK
  <2>13. QED
    BY <1>2, <2>4, <2>5, <2>6, <2>7, <2>9, <2>10, <2>11, <2>12 DEF Background, FetchStep
<1>3. QED
  BY <1>1, <1>2 DEF Next, Acts, Background

\* A fetch that succeeds has the whole history of the tip of the chain it
\* read, from whatever (closed) history it started, whatever was pushed,
\* forced, compacted or deleted meanwhile: select_needed_segments leaves out
\* no segment that the reader lacks.
THEOREM CompleteCorrect == Spec => []FetchComplete
<1>1. Init => ReadOK /\ LinkedOK /\ FetchComplete
  <2> SUFFICES ASSUME Init PROVE ReadOK /\ LinkedOK /\ FetchComplete
    OBVIOUS
  <2>1. chain = NoChain /\ read = NoRead /\ \A p \in Clients : prior[p] = NoChain
    BY DEF Init
  <2>2. NoRead.at = "idle" /\ NoRead.chain = NoChain /\ NoRead.have = {} /\ NoRead.res = "none"
    BY DEF NoRead
  <2>3. QED
    BY <2>1, <2>2, LinkedNone DEF ReadOK, LinkedOK, FetchComplete, Closed
<1>2. RegisterInv /\ ReadOK /\ LinkedOK /\ FetchComplete /\ [Next]_vars
      => ReadOK' /\ LinkedOK' /\ FetchComplete'
  BY FetchedStep, CompleteStep DEF RegisterInv
<1>3. Spec => []RegisterInv
  BY TypeInvariant, JudgedInvariant, PTL DEF RegisterInv
<1>4. QED
  BY <1>1, <1>2, <1>3, PTL DEF Spec

=============================================================================
