--------------------------------- MODULE Gc ---------------------------------
(***************************************************************************)
(* Garbage collection of a packchain remote with several refs: gc mark,    *)
(* any number of gc sweeps at once, and the pushes and deletes they race   *)
(* (packchain/gc.rs, manage/gc.rs).  Packchain has one ref and one sweep,  *)
(* and there the set of live packs is read in one GET; here                *)
(* list_referenced_packs lists the chains and GETs them one by one, while  *)
(* a pack, which is named after its content and shared by the refs that    *)
(* point to it, moves from one ref to another.                             *)
(*                                                                         *)
(* The clients run the operations that replace a whole chain: first push,  *)
(* force push and delete; Maintain adds compact, whose operation on a ref  *)
(* uploads under the lock ("pack", "bundle"). A chain is then one full     *)
(* segment and the baseline bundle of the same tip. A push uploads both    *)
(* before it takes the lock of the ref (prep), and it may never get it, or *)
(* find under it that it is stale; what goes on under the lock (push) has  *)
(* the ref to itself.                                                      *)
(***************************************************************************)
EXTENDS Integers

CONSTANTS Branches, Packs, Sweepers,
          None,       \* no pack: the ref has no chain.json
          Grace,      \* grace window, in hours
          MaxPushes,  \* bound: pushes and deletes started
          MaxMarks,   \* bound: pack tombstones in the store
          MaxFaults   \* bound: crashes and failed requests

ASSUME GcAssumption ==
  /\ None \notin Packs \cup Branches
  /\ Grace \in Nat \ {0}
  /\ {MaxPushes, MaxMarks, MaxFaults} \subseteq Nat

VARIABLES
  chain,    \* chain.json of every ref: the pack it names
  store,    \* packs and baseline bundles
  tombs,    \* gc/tombstones-* and gc/baseline-tomb-*
  prep,     \* the pushes that do not have the lock yet, by number
  push,     \* the operation under the lock of every ref
  mark, sweep,
  pushes, faults,
  stranded, \* history: the baselines that the client which knew of them left
            \* without a chain and without a tombstone
  hazards   \* history: "reused", a condemned object was uploaded again;
            \* "purged", a delete removed the baseline of a push that waits
            \* for the lock; "torn", a delete ended between the baseline
            \* and chain.json

vars == <<chain, store, tombs, prep, push, mark, sweep, pushes, faults, stranded, hazards>>

-----------------------------------------------------------------------------

\* A pack with its idx file.
PackKey(p)      == <<"pack", p>>
BundleKey(r, p) == <<"bundle", r, p>>

PackKeys   == {PackKey(p) : p \in Packs}
BundleKeys == {BundleKey(r, p) : r \in Branches, p \in Packs}

\* The refs whose chain.json a listing shows.
Chains == {r \in Branches : chain[r] # None}

Live == {chain[r] : r \in Chains}

Pushes == 1..MaxPushes

NoPrep  == [at |-> "idle", ref |-> None, sha |-> None, prior |-> None, force |-> FALSE]
NoPush  == [at |-> "idle", n |-> 0, sha |-> None, prior |-> None, todo |-> {}]
NoMark  == [at |-> "idle", seen |-> {}, refs |-> {}, age |-> 0]
NoSweep == [at |-> "idle", todo |-> {}, id |-> <<"none">>, ref |-> None,
            left |-> {}, cur |-> {}, refs |-> {}, named |-> FALSE]

TombIds == ({"base"} \X Branches \X Pushes) \cup ({"packs"} \X (1..MaxMarks))

TombType  == [id : TombIds, ref : Branches \cup {None}, objs : SUBSET Packs, age : 0..Grace]
PrepType  == [at : {"idle", "pack", "bundle", "lock"}, ref : Branches \cup {None},
              sha : Packs \cup {None}, prior : Packs \cup {None}, force : BOOLEAN]
PushType  == [at : {"idle", "pack", "bundle", "commit", "tomb", "defer", "del"}, n : 0..MaxPushes,
              sha : Packs \cup {None}, prior : Packs \cup {None}, todo : SUBSET Packs]
MarkType  == [at : {"idle", "list", "chains", "put"}, seen : SUBSET Packs, refs : SUBSET Branches,
              age : 0..Grace]
SweepType == [at : {"idle", "next", "check", "chains", "recheck", "bundle"}, todo : SUBSET TombIds,
              id : TombIds \cup {NoSweep.id}, ref : Branches \cup {None},
              left : SUBSET Packs, cur : SUBSET Packs, refs : SUBSET Branches, named : BOOLEAN]

\* Types; a tombstone key names one tombstone, of the ref in the key, and a
\* process that is idle holds nothing.
TypeOK ==
  /\ chain \in [Branches -> Packs \cup {None}]
  /\ store \subseteq PackKeys \cup BundleKeys
  /\ tombs \subseteq TombType
  /\ \A t \in tombs : t.ref = IF t.id[1] = "base" THEN t.id[2] ELSE None
  /\ \A t, u \in tombs : t.id = u.id => t = u
  /\ prep \in [Pushes -> PrepType]
  /\ \A n \in Pushes : prep[n].at = "idle" <=> prep[n] = NoPrep
  /\ push \in [Branches -> PushType]
  /\ \A r \in Branches : push[r].at = "idle" <=> push[r] = NoPush
  /\ mark \in MarkType
  /\ sweep \in [Sweepers -> SweepType]
  /\ \A w \in Sweepers : /\ \A p, q \in sweep[w].cur : p = q
                         /\ sweep[w].at = "idle" => sweep[w] = NoSweep
  /\ pushes \in 0..MaxPushes /\ faults \in 0..MaxFaults
  /\ stranded \subseteq Branches \X Packs
  /\ hazards \subseteq {"reused", "purged", "torn"}

\* A remote that was pushed to, and where gc has nothing to do.
Init ==
  /\ chain \in [Branches -> Packs \cup {None}] /\ tombs = {}
  /\ store = UNION {{PackKey(chain[r]), BundleKey(r, chain[r])} : r \in Chains}
  /\ prep = [n \in Pushes |-> NoPrep] /\ push = [r \in Branches |-> NoPush]
  /\ mark = NoMark /\ sweep = [w \in Sweepers |-> NoSweep]
  /\ pushes = 0 /\ faults = 0 /\ stranded = {} /\ hazards = {}

Fault == faults < MaxFaults /\ faults' = faults + 1

-----------------------------------------------------------------------------
(* The clients.                                                            *)

\* What a mark or a sweep has, or may have, judged to be garbage: the packs
\* (ref = None) or the baselines of a ref.
Condemned(ref) ==
  {p \in Packs :
     \/ \E t \in tombs : t.ref = ref /\ p \in t.objs
     \/ \E w \in Sweepers : sweep[w].ref = ref /\ p \in sweep[w].left \cup sweep[w].cur
     \/ ref = None /\ mark.at = "put" /\ p \in mark.seen}

\* A delete is under way that did not find baseline p of r, or has dealt with it.
Passed(r, p) == push[r].at \in {"defer", "del"} /\ p \notin push[r].todo

\* Baseline p, left behind before the lock: the chain does not name it, or
\* is about to go.
Strand(n) ==
  LET r == prep[n].ref  p == prep[n].sha IN
  stranded' = IF prep[n].at = "lock" /\ (chain[r] # p \/ Passed(r, p))
              THEN stranded \cup {<<r, p>>} ELSE stranded

Reuse(p, ref) == hazards' = IF p \in Condemned(ref) THEN hazards \cup {"reused"} ELSE hazards

\* prepare_push: the chain is read before the lock.  A push that is no force
\* push replaces the chain only if there is none.
PushStart(r) ==
  /\ pushes < MaxPushes /\ pushes' = pushes + 1
  /\ \E p \in Packs, force \in BOOLEAN :
       /\ force \/ chain[r] = None
       /\ prep' = [prep EXCEPT ![pushes'] = [at |-> "pack", ref |-> r, sha |-> p,
                                            prior |-> chain[r], force |-> force]]
  /\ UNCHANGED <<chain, store, tombs, push, mark, sweep, faults, stranded, hazards>>

\* upload_pack_idx_baseline: the PUTs, whatever is there already.
UploadPack(p)      == store' = store \cup {PackKey(p)} /\ Reuse(p, None)
UploadBundle(r, p) == store' = store \cup {BundleKey(r, p)} /\ Reuse(p, r)

\* ... of a push, before the lock.
PrepUpload(n) ==
  /\ \/ /\ prep[n].at = "pack" /\ UploadPack(prep[n].sha)
        /\ prep' = [prep EXCEPT ![n].at = "bundle"]
     \/ /\ prep[n].at = "bundle" /\ UploadBundle(prep[n].ref, prep[n].sha)
        /\ prep' = [prep EXCEPT ![n].at = "lock"]
  /\ UNCHANGED <<chain, tombs, push, mark, sweep, pushes, faults, stranded>>

\* The lock is taken, and the chain is the one read before, or force.
PushLock(n) ==
  LET r == prep[n].ref IN
  /\ prep[n].at = "lock" /\ push[r].at = "idle"
  /\ prep[n].force \/ chain[r] = prep[n].prior
  /\ push' = [push EXCEPT ![r] = [at |-> "commit", n |-> n, sha |-> prep[n].sha,
                                  prior |-> prep[n].prior, todo |-> {}]]
  /\ prep' = [prep EXCEPT ![n] = NoPrep]
  /\ UNCHANGED <<chain, store, tombs, mark, sweep, pushes, faults, stranded, hazards>>

\* The lock is held (by protect or unprotect, too), the chain is stale, or
\* the ref is protected and the push no fast-forward.
PushRefused(n) ==
  /\ prep[n].at = "lock"
  /\ prep' = [prep EXCEPT ![n] = NoPrep]
  /\ Strand(n)
  /\ UNCHANGED <<chain, store, tombs, push, mark, sweep, pushes, faults, hazards>>

\* The client dies, or gives up on an error, before the lock.
PrepDies(n) ==
  /\ prep[n].at # "idle" /\ Fault
  /\ prep' = [prep EXCEPT ![n] = NoPrep]
  /\ Strand(n)
  /\ UNCHANGED <<chain, store, tombs, push, mark, sweep, pushes, hazards>>

\* chain.json.  force_push_baseline_cleanup is about the chain read before
\* the lock: what another push committed since is forgotten.
Commit(r) ==
  LET forgotten == {chain[r]} \ {None, push[r].prior, push[r].sha} IN
  /\ push[r].at = "commit"
  /\ chain' = [chain EXCEPT ![r] = push[r].sha]
  /\ push' = [push EXCEPT ![r] = IF @.prior \in {None, @.sha} THEN NoPush
                                     ELSE [@ EXCEPT !.at = "tomb"]]
  /\ stranded' = (stranded \ {<<r, push[r].sha>>}) \cup ({r} \X forgotten)
  /\ UNCHANGED <<store, tombs, prep, mark, sweep, pushes, faults, hazards>>

\* baseline_tombstone_key: a key of its own for every tombstone.
baseline_tombstone_key(r) == <<"base", r, push[r].n>>

\* write_baseline_tombstone_unconditional.
WriteTombstone(r) ==
  LET id == baseline_tombstone_key(r) IN
  tombs' = {t \in tombs : t.id # id} \cup {[id |-> id, ref |-> r, objs |-> {push[r].prior}, age |-> 0]}

\* write_baseline_tombstone_best_effort, after the commit.
TombstonePrior(r) ==
  /\ push[r].at = "tomb"
  /\ \/ WriteTombstone(r) /\ UNCHANGED <<faults, stranded>>
     \/ Fault /\ UNCHANGED tombs /\ stranded' = stranded \cup {<<r, push[r].prior>>}
  /\ push' = [push EXCEPT ![r] = NoPush]
  /\ UNCHANGED <<chain, store, prep, mark, sweep, pushes, hazards>>

\* A delete: the lock, the chain, and the listing of the ref.
DeleteStart(r) ==
  /\ push[r].at = "idle" /\ chain[r] # None
  /\ pushes < MaxPushes /\ pushes' = pushes + 1
  /\ push' = [push EXCEPT ![r] = [at |-> "defer", n |-> pushes', sha |-> None, prior |-> chain[r],
                                  todo |-> {p \in Packs : BundleKey(r, p) \in store}]]
  /\ UNCHANGED <<chain, store, tombs, prep, mark, sweep, faults, stranded, hazards>>

\* try_write_baseline_tombstone.  Without the tombstone, as far as the client
\* knows, the baseline is deleted with the rest.
DeleteDefer(r) ==
  LET prior == push[r].prior IN
  /\ push[r].at = "defer"
  /\ \/ /\ prior \in push[r].todo /\ WriteTombstone(r)
        /\ push' = [push EXCEPT ![r].at = "del", ![r].todo = @ \ {prior}]
        /\ UNCHANGED faults
     \/ /\ prior \notin push[r].todo /\ UNCHANGED <<tombs, faults>>
        /\ push' = [push EXCEPT ![r].at = "del"]
     \/ /\ Fault /\ (UNCHANGED tombs \/ WriteTombstone(r))
        /\ push' = [push EXCEPT ![r].at = "del"]
  /\ UNCHANGED <<chain, store, prep, mark, sweep, pushes, stranded, hazards>>

\* delete_idempotent, the other baselines and chain.json, in the order of
\* the listing.
DeleteBundle(r) ==
  /\ push[r].at = "del"
  /\ \E p \in push[r].todo :
       /\ store' = store \ {BundleKey(r, p)} /\ stranded' = stranded \ {<<r, p>>}
       /\ LET rest == push[r].todo \ {p} IN
          push' = [push EXCEPT ![r] = IF rest = {} /\ chain[r] = None THEN NoPush
                                      ELSE [@ EXCEPT !.todo = rest]]
       /\ hazards' = IF \E n \in Pushes : prep[n].at = "lock" /\ prep[n].ref = r /\ prep[n].sha = p
                     THEN hazards \cup {"purged"} ELSE hazards
  /\ UNCHANGED <<chain, tombs, prep, mark, sweep, pushes, faults>>

DeleteChain(r) ==
  /\ push[r].at = "del" /\ chain[r] # None
  /\ chain' = [chain EXCEPT ![r] = None]
  /\ push' = [push EXCEPT ![r] = IF @.todo = {} THEN NoPush ELSE @]
  /\ UNCHANGED <<store, tombs, prep, mark, sweep, pushes, faults, stranded, hazards>>

\* The client dies, or gives up on an error, under the lock.
PushDies(r) ==
  LET left == CASE push[r].at = "commit" -> {push[r].sha}
                [] push[r].at = "tomb"   -> {push[r].prior}
                [] push[r].at = "del"    -> {push[r].prior} \cap push[r].todo
                [] OTHER                 -> {}
  IN
  /\ push[r].at # "idle" /\ Fault
  /\ push' = [push EXCEPT ![r] = NoPush]
  /\ stranded' = stranded \cup ({r} \X (left \ {chain[r]}))
  /\ hazards' = IF push[r].at = "del" /\ chain[r] # None /\ BundleKey(r, chain[r]) \notin store
                THEN hazards \cup {"torn"} ELSE hazards
  /\ UNCHANGED <<chain, store, tombs, prep, mark, sweep, pushes>>

-----------------------------------------------------------------------------
(* gc mark.                                                                *)

FreeIds == {n \in 1..MaxMarks : \A t \in tombs : t.id # <<"packs", n>>}

list_pack_shas == {p \in Packs : PackKey(p) \in store}

MarkPacks ==
  /\ mark.at = "idle" /\ FreeIds # {} /\ list_pack_shas # {}
  /\ mark' = [NoMark EXCEPT !.at = "list", !.seen = list_pack_shas]
  /\ UNCHANGED <<chain, store, tombs, prep, push, sweep, pushes, faults, stranded, hazards>>

\* list_referenced_packs: the listing ...
MarkRefs ==
  /\ mark.at = "list"
  /\ mark' = [mark EXCEPT !.at = "chains", !.refs = Chains]
  /\ UNCHANGED <<chain, store, tombs, prep, push, sweep, pushes, faults, stranded, hazards>>

\* ... and the chains, in any order: a vanished one aborts the run.
MarkChain ==
  /\ mark.at = "chains"
  /\ \E r \in mark.refs :
       mark' = IF chain[r] = None THEN NoMark
               ELSE [mark EXCEPT !.refs = @ \ {r}, !.seen = @ \ {chain[r]}]
  /\ UNCHANGED <<chain, store, tombs, prep, push, sweep, pushes, faults, stranded, hazards>>

\* The time of the tombstone is now; without an orphan there is none.
MarkStamp ==
  /\ mark.at = "chains" /\ mark.refs = {}
  /\ mark' = IF mark.seen = {} THEN NoMark ELSE [mark EXCEPT !.at = "put"]
  /\ UNCHANGED <<chain, store, tombs, prep, push, sweep, pushes, faults, stranded, hazards>>

MarkPut ==
  /\ mark.at = "put"
  /\ \E n \in FreeIds :
       tombs' = tombs \cup {[id |-> <<"packs", n>>, ref |-> None,
                             objs |-> mark.seen, age |-> mark.age]}
  /\ mark' = NoMark
  /\ UNCHANGED <<chain, store, prep, push, sweep, pushes, faults, stranded, hazards>>

-----------------------------------------------------------------------------
(* gc sweep, run w.                                                        *)

SetSweep(w, s) ==
  /\ sweep' = [sweep EXCEPT ![w] = s]
  /\ UNCHANGED <<chain, prep, push, mark, pushes, stranded, hazards>>

\* On to the next tombstone.
NextTomb(w) == [NoSweep EXCEPT !.at = "next", !.todo = sweep[w].todo]

SweepList(w) ==
  /\ sweep[w].at = "idle" /\ tombs # {}
  /\ SetSweep(w, [NoSweep EXCEPT !.at = "next", !.todo = {t.id : t \in tombs}])
  /\ UNCHANGED <<store, tombs, faults>>

\* A tombstone that is gone (another sweep finished it) or still within its
\* grace window is passed over.
SweepRead(w) ==
  /\ sweep[w].at = "next"
  /\ \E id \in sweep[w].todo :
       /\ id[1] = "packs" => \A other \in sweep[w].todo : other[1] = "packs"
       /\ LET rest == [sweep[w] EXCEPT !.todo = @ \ {id}]
              due  == {t \in tombs : t.id = id /\ t.age >= Grace}
          IN SetSweep(w, IF due = {} THEN rest
                         ELSE LET t == CHOOSE t \in due : TRUE IN
                              [rest EXCEPT !.at = "check", !.id = id, !.ref = t.ref, !.left = t.objs])
  /\ UNCHANGED <<store, tombs, faults>>

SweepDone(w) ==
  /\ sweep[w].at = "next" /\ sweep[w].todo = {}
  /\ SetSweep(w, NoSweep)
  /\ UNCHANGED <<store, tombs, faults>>

\* Mutant: the tombstone is believed.
SweepRefsNone(w) ==
  /\ sweep[w].at = "check" /\ sweep[w].ref = None
  /\ \E p \in sweep[w].left :
       SetSweep(w, [sweep[w] EXCEPT !.at = "chains", !.left = @ \ {p}, !.cur = {p}, !.refs = {}, !.named = FALSE])
  /\ UNCHANGED <<store, tombs, faults>>

\* sweep_one_tombstone, for each pack: the refs that have a chain ...
SweepRefs(w) ==
  /\ sweep[w].at = "check" /\ sweep[w].ref = None
  /\ \E p \in sweep[w].left :
       SetSweep(w, [sweep[w] EXCEPT !.at = "chains", !.left = @ \ {p}, !.cur = {p},
                                    !.refs = Chains])
  /\ UNCHANGED <<store, tombs, faults>>

\* ... what each of them names (a vanished chain fails the tombstone) ...
SweepChain(w) ==
  /\ sweep[w].at = "chains"
  /\ \E r \in sweep[w].refs :
       SetSweep(w, IF chain[r] = None THEN NextTomb(w)
                   ELSE [sweep[w] EXCEPT !.refs = @ \ {r}, !.named = @ \/ chain[r] \in sweep[w].cur])
  /\ UNCHANGED <<store, tombs, faults>>

\* ... and the verdict.
SweepVerdict(w) ==
  /\ sweep[w].at = "chains" /\ sweep[w].refs = {} /\ sweep[w].named
  /\ SetSweep(w, [sweep[w] EXCEPT !.at = "check", !.cur = {}, !.named = FALSE])
  /\ UNCHANGED <<store, tombs, faults>>

\* sweep_one_baseline_tombstone: chain.json of the ref, read twice.
SweepBaseline(w) ==
  /\ sweep[w].at = "check" /\ sweep[w].ref # None /\ sweep[w].left # {}
  /\ SetSweep(w, IF chain[sweep[w].ref] \in sweep[w].left
                 THEN [sweep[w] EXCEPT !.left = {}]
                 ELSE [sweep[w] EXCEPT !.at = "recheck", !.left = {}, !.cur = sweep[w].left])
  /\ UNCHANGED <<store, tombs, faults>>

SweepRecheck(w) ==
  /\ sweep[w].at = "recheck"
  /\ SetSweep(w, IF chain[sweep[w].ref] \in sweep[w].cur THEN NextTomb(w)
                 ELSE [sweep[w] EXCEPT !.at = "bundle"])
  /\ UNCHANGED <<store, tombs, faults>>

\* delete_idempotent: no error if another sweep was first.
SweepDelete(w) ==
  /\ \/ sweep[w].at = "bundle"
     \/ sweep[w].at = "chains" /\ sweep[w].refs = {} /\ ~sweep[w].named
  /\ store' = store \ {IF sweep[w].ref = None THEN PackKey(p) ELSE BundleKey(sweep[w].ref, p) :
                          p \in sweep[w].cur}
  /\ SetSweep(w, [sweep[w] EXCEPT !.at = "check", !.cur = {}])
  /\ UNCHANGED <<tombs, faults>>

\* Mutant: the tombstone goes with its first object.
SweepDropEarly(w) ==
  /\ sweep[w].at = "check"
  /\ tombs' = {t \in tombs : t.id # sweep[w].id}
  /\ SetSweep(w, IF sweep[w].left = {} THEN NextTomb(w) ELSE [NextTomb(w) EXCEPT !.todo = {}])
  /\ UNCHANGED <<store, faults>>

\* The tombstone goes last.
SweepDrop(w) ==
  /\ sweep[w].at = "check" /\ sweep[w].left = {}
  /\ tombs' = {t \in tombs : t.id # sweep[w].id}
  /\ SetSweep(w, NextTomb(w))
  /\ UNCHANGED <<store, faults>>

\* A failed request ends the mark, and the tombstone it meets in a sweep; or
\* the process dies.
GcFails ==
  /\ Fault
  /\ \/ /\ mark.at # "idle" /\ mark' = NoMark
        /\ UNCHANGED <<chain, prep, push, sweep, pushes, stranded, hazards>>
     \/ \E w \in Sweepers : sweep[w].at \notin {"idle", "next"} /\ SetSweep(w, NextTomb(w))
     \/ \E w \in Sweepers : sweep[w].at # "idle" /\ SetSweep(w, NoSweep)
  /\ UNCHANGED <<store, tombs>>

-----------------------------------------------------------------------------

Older(hours) == IF hours < Grace THEN hours + 1 ELSE hours

\* An hour passes.  No push or delete takes that long (Packchain drops this).
Tick ==
  /\ \A r \in Branches : push[r].at = "idle"
  /\ \A n \in Pushes : prep[n].at = "idle"
  /\ tombs' = {[t EXCEPT !.age = Older(@)] : t \in tombs}
  /\ mark' = [mark EXCEPT !.age = IF mark.at = "put" THEN Older(@) ELSE @]
  /\ UNCHANGED <<chain, store, prep, push, sweep, pushes, faults, stranded, hazards>>

PrepStep(n) == PrepUpload(n) \/ PushLock(n) \/ PushRefused(n)

ClientStep(r) ==
  \/ Commit(r) \/ TombstonePrior(r) \/ DeleteDefer(r) \/ DeleteBundle(r) \/ DeleteChain(r)

MarkStep == MarkPacks \/ MarkRefs \/ MarkChain \/ MarkStamp \/ MarkPut

SweepStep(w) ==
  \/ SweepList(w) \/ SweepRead(w) \/ SweepDone(w) \/ SweepRefs(w) \/ SweepChain(w) \/ SweepVerdict(w)
  \/ SweepBaseline(w) \/ SweepRecheck(w) \/ SweepDelete(w) \/ SweepDrop(w)

Next ==
  \/ \E r \in Branches : PushStart(r) \/ DeleteStart(r) \/ ClientStep(r) \/ PushDies(r)
  \/ \E n \in Pushes : PrepStep(n) \/ PrepDies(n)
  \/ MarkStep
  \/ \E w \in Sweepers : SweepStep(w)
  \/ GcFails
  \/ Tick

Spec == Init /\ [][Next]_vars

-----------------------------------------------------------------------------
(* Properties.                                                             *)

\* No chain.json names an object that gc removed, although the live packs
\* are read chain by chain while packs move between refs, and two sweeps
\* work through the same tombstones; unless a condemned object was uploaded
\* again (the window that sweep_one_tombstone documents), or a delete took
\* the baseline.  A delete in progress has the ref to itself.
AllChainsResolvable ==
  \A r \in Chains :
    /\ "reused" \notin hazards => PackKey(chain[r]) \in store
    /\ hazards = {} /\ push[r].at # "del" => BundleKey(r, chain[r]) \in store

\* A push that will still commit r's baseline p, or be refused.
Prepared(r, p) == \E n \in Pushes : prep[n].ref = r /\ prep[n].sha = p

\* A baseline that no chain names has a tombstone until it is gone, or a
\* client at work, or was left behind by the client in one of the ways that
\* stranded records: a push refused or dead after its upload, a force push
\* over a chain it has not read, a tombstone that could not be written.  No
\* interleaving of pushes, deletes and sweeps drops the last record
\* otherwise, and no tombstone is written over another (TypeOK).
NoBaselineLeak ==
  /\ TypeOK
  /\ \A r \in Branches, p \in Packs :
       /\ BundleKey(r, p) \in store /\ chain[r] # p
       /\ push[r].at = "idle" /\ ~Prepared(r, p) /\ <<r, p>> \notin stranded
       => \E t \in tombs : t.ref = r /\ p \in t.objs

\* Whatever is not named by a chain is reclaimed in the end, with every
\* tombstone: each pack, and each baseline but the stranded ones.
GarbageReclaimed ==
  <>[](/\ tombs = {} /\ list_pack_shas \subseteq Live
       /\ \A r \in Branches, p \in Packs :
            BundleKey(r, p) \in store => chain[r] = p \/ <<r, p>> \in stranded)

\* delete_remote_ref_packchain takes the lock so that it cannot race a
\* concurrent push (packchain/push.rs:970-971): no chain is committed whose
\* baseline a delete has removed.
DeleteSparesPushes ==
  \A r \in Chains : hazards \subseteq {"purged"} /\ push[r].at # "del" => BundleKey(r, chain[r]) \in store
=============================================================================
