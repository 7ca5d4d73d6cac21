------------------------------ MODULE Packchain ------------------------------
(***************************************************************************)
(* One ref of a remote that uses the packchain engine: git push (with and  *)
(* without force), git push :ref, compact, the branch management commands, *)
(* gc mark, gc sweep and git fetch, each as the sequence of store requests *)
(* the code makes (packchain/push.rs, compact.rs, manifest.rs, gc.rs,      *)
(* fetch.rs, retry.rs; manage/branch.rs).                                  *)
(*                                                                         *)
(* chain.json is the commit point.  It names packs (packs/<content>.pack,  *)
(* with its .idx) and one baseline bundle (<ref>/<full_at>.bundle), which  *)
(* a push uploads BEFORE it takes the per-ref lock.  A pack is named after *)
(* its content, so that the same (base, tip) is always the same object.    *)
(*                                                                         *)
(* The lock is the atomic one that RefLock implements until a fault.  The  *)
(* FORMAT and HEAD keys are those of BundleEngine and are left out here.   *)
(***************************************************************************)
EXTENDS Integers, Sequences, Functions

CONSTANTS Clients,    \* processes that push, compact or manage the branch
          Commits,
          Ancestor,   \* <<a, b>>: a is an ancestor of b, or b itself
          Kinds,      \* operations the clients run
          None,       \* no commit
          Free,       \* the lock is not held
          Orphan,     \* the lock key of a dead client
          Grace,      \* gc grace window, in hours
          MaxOp,      \* longest push, delete or compact, in hours
          MaxFetch,   \* longest fetch, in hours
          Haves,      \* what a fetching client may have to begin with
          ForceSweep, \* gc sweep --force: skip the grace window
          MaxRetries, \* PACK_MISSING_MAX_RETRIES
          MaxMarks,   \* bound: gc mark runs started
          MaxOps,     \* bound: client operations started
          MaxFaults   \* bound: crashes and failed requests

ASSUME ConstantsAssumption ==
  /\ Commits # {} /\ Ancestor \subseteq Commits \X Commits
  /\ \A c \in Commits : <<c, c>> \in Ancestor
  /\ \A a, b, c \in Commits : <<a, b>> \in Ancestor /\ <<b, c>> \in Ancestor => <<a, c>> \in Ancestor
  /\ None \notin Commits
  /\ Kinds \subseteq {"push", "force", "delete", "deleteBranch", "compact", "protect", "unprotect"}
  /\ Free # Orphan /\ {Free, Orphan} \cap Clients = {}
  /\ Grace \in Nat \ {0} /\ MaxOp \in Nat /\ MaxFetch \in Nat
  /\ Haves \subseteq SUBSET Commits
  /\ \A have \in Haves : \A c \in have : {a \in Commits : <<a, c>> \in Ancestor} \subseteq have
  /\ ForceSweep \in BOOLEAN
  /\ MaxRetries \in Nat /\ MaxMarks \in Nat /\ MaxOps \in Nat /\ MaxFaults \in Nat

VARIABLES
  chain,      \* chain.json
  index,      \* tip recorded in path-index.json, None if absent
  torn,       \* history: see Tear
  objs,       \* packs and baseline bundles in the store
  protected,  \* PROTECTED# marker present
  tombs,      \* gc/tombstones-* and gc/baseline-tomb-* records
  lock,       \* holder of the per-ref lock
  pc, op, num, prior, todo, age,   \* per client; num: of the operation
  mark,       \* a gc mark run
  sweep,      \* a gc sweep run
  marks,      \* gc mark runs started so far
  read,       \* a fetching client
  ops, faults,
  hazards     \* history: see Upload, LoadForPush and DeleteOne

remote == <<chain, index, torn, objs, protected, tombs>>
client == <<pc, op, num, prior, todo, age>>
gc     == <<mark, sweep, marks>>
vars   == <<remote, lock, client, gc, read, ops, faults, hazards>>

-----------------------------------------------------------------------------
(* Objects and manifests.                                                  *)

Pack(base, tip) == [kind |-> "pack", base |-> base, sha |-> tip]
Bundle(tip)     == [kind |-> "bundle", base |-> None, sha |-> tip]

Packs   == {Pack(b, c) : b \in Commits \cup {None}, c \in Commits}
Bundles == {Bundle(c) : c \in Commits}

NoChain  == [tip |-> None, full |-> None, segs |-> <<>>]
Manifest == [tip : Commits, full : Commits, segs : Seq(Packs)]

Segments(ch) == Range(ch.segs)

\* Everything a reader of the manifest may have to GET.
Refs(ch) == IF ch = NoChain THEN {} ELSE Segments(ch) \cup {Bundle(ch.full)}

Ancestors(c) == {a \in Commits : <<a, c>> \in Ancestor}

FastForward(ch, c) == ch = NoChain \/ ch.tip \in Ancestors(c)

\* What installing an object adds to a repository.
Contents(o) == Ancestors(o.sha) \ (IF o.base = None THEN {} ELSE Ancestors(o.base))

\* next_manifest: prepend to the prior chain, or start over.
next_manifest(pr, seg, force) ==
  IF ~force /\ pr # NoChain
  THEN [tip |-> seg.sha, full |-> pr.full, segs |-> <<seg>> \o pr.segs]
  ELSE [tip |-> seg.sha, full |-> seg.sha, segs |-> <<seg>>]

\* Mutant: off by one.
NeededShort(ch, have) ==
  LET new == {i \in DOMAIN ch.segs :
                \A j \in 1..(i + 1) : j \in DOMAIN ch.segs => ch.segs[j].sha \notin have}
  IN {ch.segs[i] : i \in new} \cup IF new = DOMAIN ch.segs THEN {Bundle(ch.full)} ELSE {}

\* select_needed_segments: newest first, down to the first tip the reader
\* has; the baseline too if there is none.
Needed(ch, have) ==
  LET new == {i \in DOMAIN ch.segs : \A j \in 1..i : ch.segs[j].sha \notin have}
  IN {ch.segs[i] : i \in new} \cup IF new = DOMAIN ch.segs THEN {Bundle(ch.full)} ELSE {}

-----------------------------------------------------------------------------

Unlocked  == {"idle", "load", "pack", "bundle", "open", "confirm", "lock"}
UnderLock == {"reload", "get", "cpack", "cbundle", "commit", "index", "tomb", "list", "defer",
              "del", "mark", "unmark", "release"}

\* Keys under the ref that a delete removes.
ChainKey == [kind |-> "chain", base |-> None, sha |-> None]
IndexKey == [kind |-> "index", base |-> None, sha |-> None]
Keys     == Bundles \cup {ChainKey, IndexKey}

TombIds == ({"base"} \X (1..MaxOps)) \cup ({"packs"} \X (1..MaxMarks))

NoOp   == [kind |-> "none", local |-> CHOOSE c \in Commits : TRUE]
NoMark == [at |-> "idle", seen |-> {}, age |-> 0]
NoSwp  == [at |-> "idle", todo |-> {}, id |-> <<"none", 0>>, left |-> {}, cur |-> {}]
NoRead == [at |-> "idle", have |-> {}, chain |-> NoChain, need |-> {},
           miss |-> {}, tries |-> 0, age |-> 0, res |-> "none", doomed |-> FALSE]

FetchResults == {"none", "ok", "absent", "baselineMissing", "packMissing", "exhausted"}

\* Type invariant; a client owns the lock exactly while it runs the part of
\* its operation between acquire and release, a tombstone names objects of
\* one kind and is told from the others by its key.
StoreOK ==
  /\ chain \in Manifest \cup {NoChain}
  /\ index \in Commits \cup {None}
  /\ objs \subseteq Packs \cup Bundles
  /\ protected \in BOOLEAN
  /\ tombs \subseteq [id : TombIds, objs : SUBSET (Packs \cup Bundles), age : 0..Grace]
  /\ \A t \in tombs : t.objs \subseteq IF t.id[1] = "base" THEN Bundles ELSE Packs
  /\ \A t, u \in tombs : t.id = u.id => t = u

ClientsOK ==
  /\ lock \in Clients \cup {Free, Orphan}
  /\ pc \in [Clients -> Unlocked \cup UnderLock]
  /\ \A p \in Clients : lock = p <=> pc[p] \in UnderLock
  /\ op \in [Clients -> [kind : Kinds \cup {"none"}, local : Commits]]
  /\ num \in [Clients -> 0..MaxOps]
  /\ prior \in [Clients -> Manifest \cup {NoChain}]
  /\ todo \in [Clients -> SUBSET Keys]
  /\ age \in [Clients -> 0..MaxOp]

MarkType == [at : {"idle", "chains", "refs", "put"}, seen : SUBSET Packs, age : 0..Grace]

SweepType == [at : {"idle", "next", "check", "load", "recheck", "remove"},
              todo : SUBSET TombIds, id : TombIds \cup {NoSwp.id},
              left : SUBSET (Packs \cup Bundles), cur : SUBSET (Packs \cup Bundles)]

ReadType == [at : {"idle", "load", "get", "reload", "done"}, have : SUBSET Commits,
             chain : Manifest \cup {NoChain}, need : SUBSET (Packs \cup Bundles),
             miss : SUBSET Packs, tries : 0..MaxRetries, age : 0..MaxFetch,
             res : FetchResults, doomed : BOOLEAN]

GcOK == mark \in MarkType /\ sweep \in SweepType /\ marks \in 0..MaxMarks

Typed ==
  /\ StoreOK /\ ClientsOK /\ GcOK /\ read \in ReadType
  /\ ops \in 0..MaxOps /\ faults \in 0..MaxFaults
  /\ hazards \subseteq {"reused", "marked", "purged"}

TypeOK == Typed /\ torn \in BOOLEAN

Init ==
  /\ chain = NoChain /\ index = None /\ torn = FALSE /\ objs = {} /\ protected = FALSE /\ tombs = {}
  /\ lock = Free
  /\ pc = [p \in Clients |-> "idle"]
  /\ op = [p \in Clients |-> NoOp]
  /\ num = [p \in Clients |-> 0]
  /\ prior = [p \in Clients |-> NoChain]
  /\ todo = [p \in Clients |-> {}]
  /\ age = [p \in Clients |-> 0]
  /\ mark = NoMark /\ sweep = NoSwp /\ read = NoRead
  /\ marks = 0 /\ ops = 0 /\ faults = 0 /\ hazards = {}

-----------------------------------------------------------------------------

Goto(p, label) == pc' = [pc EXCEPT ![p] = label]

Fault == faults < MaxFaults /\ faults' = faults + 1

\* The operation is over; what it remembered of the store is gone.
Forget(p) ==
  /\ op' = [op EXCEPT ![p] = NoOp]
  /\ num' = [num EXCEPT ![p] = 0]
  /\ prior' = [prior EXCEPT ![p] = NoChain]
  /\ todo' = [todo EXCEPT ![p] = {}]
  /\ age' = [age EXCEPT ![p] = 0]

\* An operation that ends before it has the lock.  The result is what the
\* user is told; nothing depends on it later, and it is not kept.
Finish(p, result) == Goto(p, "idle") /\ Forget(p)

\* An operation that ends under the lock: the release follows in any case.
Leave(p, result) == Goto(p, "release") /\ UNCHANGED <<op, num, prior, todo, age>>

Advance(p, label) == Goto(p, label) /\ UNCHANGED <<op, num, prior, todo, age>>

\* A tombstone names the object, or the one that a mark run is about to
\* write does.
Named(o) == (\E t \in tombs : o \in t.objs) \/ (mark.at = "put" /\ o \in mark.seen)

\* A PUT of an object under its own name, whatever is there already.
\* History: "reused" if a pending tombstone names the object.
Upload(o) ==
  /\ objs' = objs \cup {o}
  /\ hazards' = hazards \cup (IF Named(o) THEN {"reused"} ELSE {})

\* An operation fails or dies between the two keys that it changes one after
\* the other.  History: torn, until an operation has rewritten or begins to
\* delete them both.  A compaction keeps the tip, and tears nothing.
Tear(p, labels) ==
  torn' = (torn \/ (pc[p] \in labels /\ op[p].kind # "compact"))

-----------------------------------------------------------------------------
(* Before the lock.                                                        *)

Begin(p) ==
  /\ pc[p] = "idle"
  /\ ops < MaxOps
  /\ ops' = ops + 1
  /\ \E kind \in Kinds, local \in Commits :
       /\ kind \notin {"push", "force"} => local = NoOp.local
       /\ op' = [op EXCEPT ![p] = [kind |-> kind, local |-> local]]
       /\ Goto(p, CASE kind \in {"push", "force", "compact"} -> "load"
                    [] kind = "delete" -> "lock"
                    [] OTHER -> "open")
  /\ num' = [num EXCEPT ![p] = ops + 1]
  /\ UNCHANGED <<remote, lock, prior, todo, age, gc, read, faults, hazards>>

\* prepare_push: the chain snapshot, the ancestry probe, and the short cut
\* for a tip that is there already.
\* History: "marked" if a pending tombstone names an object of the chain that
\* the push builds on: a compaction may drop the object from the chain and
\* the sweep may take it before the push, which looks at the tip alone
\* (ReloadForPush), writes it into the chain again.
LoadForPush(p) ==
  /\ pc[p] = "load" /\ op[p].kind \in {"push", "force"}
  /\ \/ op[p].kind = "push" /\ ~FastForward(chain, op[p].local) /\ Finish(p, "notAncestor")
     \/ op[p].kind = "push" /\ chain.tip = op[p].local /\ Finish(p, "ok")
     \/ /\ op[p].kind = "push" => FastForward(chain, op[p].local) /\ chain.tip # op[p].local
        /\ prior' = [prior EXCEPT ![p] = chain]
        /\ Goto(p, "pack")
        /\ UNCHANGED <<op, num, todo, age>>
  /\ hazards' = hazards \cup (IF op[p].kind = "push" /\ \E o \in Refs(chain) : Named(o)
                             THEN {"marked"} ELSE {})
  /\ UNCHANGED <<remote, lock, gc, read, ops, faults>>

\* compact: nothing to do for a missing or minimal chain, nor (without its
\* --force) for one below the size thresholds.
LoadForCompact(p) ==
  /\ pc[p] = "load" /\ op[p].kind = "compact"
  /\ \/ chain = NoChain /\ Finish(p, "absent")
     \/ chain # NoChain /\ Finish(p, "skipped")
     \/ /\ chain # NoChain /\ ~(Len(chain.segs) = 1 /\ chain.tip = chain.full)
        /\ prior' = [prior EXCEPT ![p] = chain]
        /\ Goto(p, "lock")
        /\ UNCHANGED <<op, num, todo, age>>
  /\ UNCHANGED <<remote, lock, gc, read, ops, faults, hazards>>

\* The pack a push builds: full without a base to build on.
NewPack(p) ==
  Pack(IF op[p].kind = "force" \/ prior[p] = NoChain THEN None ELSE prior[p].tip, op[p].local)

UploadPack(p) ==
  /\ pc[p] = "pack"
  /\ Upload(NewPack(p))
  /\ Advance(p, IF NewPack(p).base = None THEN "bundle" ELSE "lock")
  /\ UNCHANGED <<chain, index, torn, protected, tombs, lock, gc, read, ops, faults>>

UploadBundle(p) ==
  /\ pc[p] = "bundle"
  /\ Upload(Bundle(op[p].local))
  /\ Advance(p, "lock")
  /\ UNCHANGED <<chain, index, torn, protected, tombs, lock, gc, read, ops, faults>>

\* The keys a listing of the ref shows, the marker and the lock key apart.
Entries ==
  (objs \cap Bundles) \cup (IF chain = NoChain THEN {} ELSE {ChainKey})
                      \cup (IF index = None THEN {} ELSE {IndexKey})

\* ManageBranch::open: some object, the lock key included, must be there.
Open(p) ==
  /\ pc[p] = "open"
  /\ IF Entries = {} /\ ~protected /\ lock = Free
     THEN Finish(p, "notFound")
     ELSE Advance(p, IF op[p].kind = "deleteBranch" THEN "confirm" ELSE "lock")
  /\ UNCHANGED <<remote, lock, gc, read, ops, faults, hazards>>

\* delete-branch: the protection check and the prompt.
Confirm(p) ==
  /\ pc[p] = "confirm"
  /\ \/ protected /\ Finish(p, "protected")
     \/ ~protected /\ Finish(p, "aborted")
     \/ ~protected /\ Advance(p, "lock")
  /\ UNCHANGED <<remote, lock, gc, read, ops, faults, hazards>>

-----------------------------------------------------------------------------
(* The lock window.                                                        *)

AfterLock(kind) ==
  CASE kind \in {"push", "force", "compact"} -> "reload"
    [] kind \in {"delete", "deleteBranch"} -> "list"
    [] kind = "protect" -> "mark"
    [] kind = "unprotect" -> "unmark"

AcquireLock(p) ==
  /\ pc[p] = "lock"
  /\ \/ lock = Free /\ lock' = p /\ Advance(p, AfterLock(op[p].kind))
     \/ lock # Free /\ Finish(p, "contended") /\ UNCHANGED lock
  /\ UNCHANGED <<remote, gc, read, ops, faults, hazards>>

\* release_lock.  If its DELETE fails the key stays behind; a push or a
\* delete reports that instead of "ok", the others only log it.
Release(p) ==
  /\ pc[p] = "release"
  /\ Goto(p, "idle") /\ Forget(p)
  /\ \/ lock' = Free /\ UNCHANGED faults
     \/ Fault /\ lock' = Orphan
  /\ UNCHANGED <<remote, gc, read, ops, hazards>>

\* acquire_lock of a later client, once the TTL has passed.
StaleRecovery ==
  /\ lock = Orphan
  /\ lock' = Free
  /\ UNCHANGED <<remote, client, gc, read, ops, faults, hazards>>

-----------------------------------------------------------------------------
(* git push: perform_push_under_lock.                                      *)

\* Mutant: protection judged by the pre-lock snapshot (before issue #243).
ReloadPrelock(p) ==
  /\ pc[p] = "reload" /\ op[p].kind \in {"push", "force"}
  /\ IF op[p].kind = "force" /\ protected /\ ~FastForward(prior[p], op[p].local)
     THEN Leave(p, "notAncestor")
     ELSE IF op[p].kind = "push" /\ prior[p].tip # chain.tip
          THEN Leave(p, "stale") ELSE Advance(p, "commit")
  /\ UNCHANGED <<remote, lock, gc, read, ops, faults, hazards>>

\* Mutant: path-index.json is written before chain.json (before issue #114).
ReloadIndexFirst(p) ==
  /\ pc[p] = "reload" /\ op[p].kind \in {"push", "force"}
  /\ op[p].kind = "force" => ~protected \/ FastForward(chain, op[p].local)
  /\ op[p].kind = "push" => prior[p].tip = chain.tip
  /\ index' = op[p].local
  /\ Advance(p, "commit")
  /\ UNCHANGED <<chain, torn, objs, protected, tombs, lock, gc, read, ops, faults, hazards>>

\* chain.json is read again: a force push of a protected ref must move its
\* current tip forward, any other push must find the tip it started from.
ReloadForPush(p) ==
  /\ pc[p] = "reload" /\ op[p].kind \in {"push", "force"}
  /\ \/ /\ op[p].kind = "force" /\ protected /\ ~FastForward(chain, op[p].local)
        /\ Leave(p, "notAncestor")
     \/ op[p].kind = "push" /\ prior[p].tip # chain.tip /\ Leave(p, "stale")
     \/ /\ op[p].kind = "force" => ~protected \/ FastForward(chain, op[p].local)
        /\ op[p].kind = "push" => prior[p].tip = chain.tip
        /\ Advance(p, "commit")
  /\ UNCHANGED <<remote, lock, gc, read, ops, faults, hazards>>

\* The manifest that the operation commits: next_manifest on the chain read
\* BEFORE the lock, or a single full segment at the tip of the chain read
\* under it (compact).
NewChain(p) ==
  IF op[p].kind = "compact"
  THEN [tip |-> prior[p].tip, full |-> prior[p].tip, segs |-> <<Pack(None, prior[p].tip)>>]
  ELSE next_manifest(prior[p], NewPack(p), op[p].kind = "force")

\* chain.json: the commit point.
Commit(p) ==
  /\ pc[p] = "commit"
  /\ chain' = NewChain(p)
  /\ Advance(p, "index")
  /\ UNCHANGED <<index, torn, objs, protected, tombs, lock, gc, read, ops, faults, hazards>>

\* Mutant: a force push does not rebuild the path index.
WriteIndexUnlessForce(p) ==
  /\ pc[p] = "index"
  /\ index' = IF op[p].kind = "force" THEN index ELSE NewChain(p).tip
  /\ torn' = FALSE
  /\ IF op[p].kind = "push" THEN Leave(p, "ok") ELSE Advance(p, "tomb")
  /\ UNCHANGED <<chain, objs, protected, tombs, lock, gc, read, ops, faults, hazards>>

\* path-index.json, after chain.json (issue #114).
WriteIndex(p) ==
  /\ pc[p] = "index"
  /\ index' = NewChain(p).tip
  /\ torn' = FALSE
  /\ IF op[p].kind = "push" THEN Leave(p, "ok") ELSE Advance(p, "tomb")
  /\ UNCHANGED <<chain, objs, protected, tombs, lock, gc, read, ops, faults, hazards>>

\* Mutant: the superseded baseline is deleted at once (before issue #134).
CleanupSync(p) ==
  LET old == {prior[p].full} \ {None, NewChain(p).full} IN
  /\ pc[p] = "tomb"
  /\ objs' = objs \ {Bundle(c) : c \in old}
  /\ Leave(p, "ok")
  /\ UNCHANGED <<chain, index, torn, protected, tombs, lock, gc, read, ops, faults, hazards>>

\* force_push_baseline_cleanup and tombstone_prior_baseline_bundle: best
\* effort, and nothing to do if the baseline stays the same.  An error for a
\* tombstone that was written is logged like any other.
TombstoneBaseline(p) ==
  LET old == {prior[p].full} \ {None, NewChain(p).full} IN
  /\ pc[p] = "tomb"
  /\ \/ /\ tombs' = tombs \cup {[id |-> <<"base", num[p]>>, objs |-> {Bundle(c)}, age |-> 0] :
                                  c \in old}
        /\ UNCHANGED faults
     \/ old # {} /\ Fault /\ UNCHANGED tombs
  /\ Leave(p, "ok")
  /\ UNCHANGED <<chain, index, torn, objs, protected, lock, gc, read, ops, hazards>>

-----------------------------------------------------------------------------
(* compact_under_lock.                                                     *)

ReloadForCompact(p) ==
  /\ pc[p] = "reload" /\ op[p].kind = "compact"
  /\ \/ chain = NoChain /\ Leave(p, "absent")
     \/ /\ chain # NoChain
        /\ prior' = [prior EXCEPT ![p] = chain]
        /\ Goto(p, "get")
        /\ UNCHANGED <<op, num, todo, age>>
  /\ UNCHANGED <<remote, lock, gc, read, ops, faults, hazards>>

\* download_chain_artefacts: a missing pack or bundle ends the compaction.
Download(p) ==
  /\ pc[p] = "get"
  /\ IF Refs(prior[p]) \subseteq objs THEN Advance(p, "cpack") ELSE Leave(p, "failed")
  /\ UNCHANGED <<remote, lock, gc, read, ops, faults, hazards>>

CompactPack(p) ==
  /\ pc[p] = "cpack"
  /\ Upload(Pack(None, prior[p].tip))
  /\ Advance(p, "cbundle")
  /\ UNCHANGED <<chain, index, torn, protected, tombs, lock, gc, read, ops, faults>>

CompactBundle(p) ==
  /\ pc[p] = "cbundle"
  /\ Upload(Bundle(prior[p].tip))
  /\ Advance(p, "commit")
  /\ UNCHANGED <<chain, index, torn, protected, tombs, lock, gc, read, ops, faults>>

-----------------------------------------------------------------------------
(* git push :ref, delete-branch, protect and unprotect, under the lock.    *)

\* Mutant: the early return for a missing chain forgets the lock.
ListLeaksLock(p) ==
  /\ pc[p] = "list" /\ op[p].kind = "delete"
  /\ \/ chain = NoChain /\ Finish(p, "notFound")
     \/ chain # NoChain /\ protected /\ Leave(p, "protected")
     \/ /\ chain # NoChain /\ ~protected
        /\ todo' = [todo EXCEPT ![p] = Entries]
        /\ Goto(p, "defer")
        /\ UNCHANGED <<op, num, prior, age>>
  /\ UNCHANGED <<remote, lock, gc, read, ops, faults, hazards>>

\* delete_remote_ref_packchain: the chain must exist.
ListForDelete(p) ==
  /\ pc[p] = "list" /\ op[p].kind = "delete"
  /\ \/ chain = NoChain /\ Leave(p, "notFound")
     \/ chain # NoChain /\ protected /\ Leave(p, "protected")
     \/ /\ chain # NoChain /\ ~protected
        /\ todo' = [todo EXCEPT ![p] = Entries]
        /\ Goto(p, "defer")
        /\ UNCHANGED <<op, num, prior, age>>
  /\ UNCHANGED <<remote, lock, gc, read, ops, faults, hazards>>

\* ManageBranch::delete_under_lock: whatever is listed goes.
ListForDeleteBranch(p) ==
  /\ pc[p] = "list" /\ op[p].kind = "deleteBranch"
  /\ \/ Entries = {} /\ ~protected /\ Leave(p, "ok")
     \/ protected /\ Leave(p, "protected")
     \/ /\ Entries # {} /\ ~protected
        /\ todo' = [todo EXCEPT ![p] = Entries]
        /\ Goto(p, "defer")
        /\ UNCHANGED <<op, num, prior, age>>
  /\ UNCHANGED <<remote, lock, gc, read, ops, faults, hazards>>

\* try_write_baseline_tombstone: the baseline, if it was listed, is left to
\* the sweep; if the answer is an error it is deleted with the rest, whether
\* or not the tombstone was written.
DeferBaseline(p) ==
  LET live == Refs(chain) \cap todo[p]
      with == tombs \cup {[id |-> <<"base", num[p]>>, objs |-> {b}, age |-> 0] : b \in live}
  IN
  /\ pc[p] = "defer"
  /\ \/ /\ tombs' = with
        /\ todo' = [todo EXCEPT ![p] = @ \ live]
        /\ UNCHANGED faults
     \/ live # {} /\ Fault /\ tombs' \in {tombs, with} /\ UNCHANGED todo
  /\ Goto(p, "del")
  /\ torn' = FALSE
  /\ UNCHANGED <<chain, index, objs, protected, lock, op, num, prior, age, gc, read, ops, hazards>>

\* The DELETE of one listed key.
RemoveKey(k) ==
  /\ objs' = objs \ {k}
  /\ chain' = IF k = ChainKey THEN NoChain ELSE chain
  /\ index' = IF k = IndexKey THEN None ELSE index

\* One DELETE per listed key, in the order of the listing (which puts
\* chain.json before path-index.json and bundles anywhere before that); an
\* error may be reported for one that was applied.  git push :ref gives up
\* at the first error, delete-branch goes on and reports a partial delete.
\* History: "purged" if a bundle goes.
DeleteOne(p) ==
  /\ pc[p] = "del"
  /\ \E k \in todo[p] :
       /\ k = IndexKey => todo[p] = {IndexKey}
       /\ todo' = [todo EXCEPT ![p] = @ \ {k}]
       /\ hazards' = hazards \cup (IF k \in Bundles THEN {"purged"} ELSE {})
       /\ \/ RemoveKey(k) /\ UNCHANGED <<pc, faults, torn>>
          \/ /\ Fault /\ Tear(p, {"del"})
             /\ RemoveKey(k) \/ UNCHANGED <<objs, chain, index>>
             /\ IF op[p].kind = "delete"
                THEN Goto(p, "release") ELSE UNCHANGED pc
  /\ UNCHANGED <<protected, tombs, lock, op, num, prior, age, gc, read, ops>>

Deleted(p) ==
  /\ pc[p] = "del" /\ todo[p] = {}
  /\ Leave(p, "ok")
  /\ UNCHANGED <<remote, lock, gc, read, ops, faults, hazards>>

\* protect_under_lock: the branch must still have data.
Protect(p) ==
  /\ pc[p] = "mark"
  /\ \/ Entries = {} /\ Leave(p, "notFound") /\ UNCHANGED protected
     \/ Entries # {} /\ protected' = TRUE /\ Leave(p, "ok")
  /\ UNCHANGED <<chain, index, torn, objs, tombs, lock, gc, read, ops, faults, hazards>>

Unprotect(p) ==
  /\ pc[p] = "unmark"
  /\ protected' = FALSE
  /\ Leave(p, "ok")
  /\ UNCHANGED <<chain, index, torn, objs, tombs, lock, gc, read, ops, faults, hazards>>

-----------------------------------------------------------------------------
(* Failures.                                                               *)

\* A request answered with an error: the operation ends, through the release
\* if it has the lock.  A PUT that was applied all the same is the request
\* of the next step failing.
RequestFails(p) ==
  /\ Fault
  /\ \/ pc[p] \in Unlocked \ {"idle"} /\ Finish(p, "failed")
     \/ /\ pc[p] \in UnderLock \ {"tomb", "defer", "del", "release"}
        /\ Leave(p, "failed")
  /\ Tear(p, {"index"})
  /\ UNCHANGED <<chain, index, objs, protected, tombs, lock, gc, read, ops, hazards>>

\* The process dies; a lock it held stays in the store.
Crash(p) ==
  /\ pc[p] # "idle"
  /\ Fault
  /\ lock' = IF lock = p THEN Orphan ELSE lock
  /\ Finish(p, "none")
  /\ Tear(p, {"index", "del"})
  /\ UNCHANGED <<chain, index, objs, protected, tombs, gc, read, ops, hazards>>

-----------------------------------------------------------------------------
(* gc mark.                                                                *)

\* Packs first (issue #135) ...
MarkList ==
  /\ mark.at = "idle" /\ marks < MaxMarks /\ objs \cap Packs # {}
  /\ mark' = [NoMark EXCEPT !.at = "chains", !.seen = objs \cap Packs]
  /\ marks' = marks + 1
  /\ UNCHANGED <<remote, lock, client, sweep, read, ops, faults, hazards>>

\* ... then the refs that have a chain.json ...
MarkChains ==
  /\ mark.at = "chains"
  /\ mark' = [mark EXCEPT !.at = IF chain = NoChain THEN "put" ELSE "refs"]
  /\ UNCHANGED <<remote, lock, client, sweep, marks, read, ops, faults, hazards>>

\* ... and what it names: a chain.json that has vanished since aborts the
\* run, and nothing is written if there is no orphan.
MarkRefs ==
  /\ mark.at = "refs"
  /\ mark' = IF chain = NoChain \/ mark.seen \subseteq Refs(chain) THEN NoMark
             ELSE [mark EXCEPT !.at = "put", !.seen = @ \ Refs(chain)]
  /\ UNCHANGED <<remote, lock, client, sweep, marks, read, ops, faults, hazards>>

MarkPut ==
  /\ mark.at = "put"
  /\ tombs' = tombs \cup {[id |-> <<"packs", marks>>, objs |-> mark.seen, age |-> mark.age]}
  /\ mark' = NoMark
  /\ UNCHANGED <<chain, index, torn, objs, protected, lock, client, sweep, marks, read, ops, faults, hazards>>

-----------------------------------------------------------------------------
(* gc sweep.                                                               *)

SweepList ==
  /\ sweep.at = "idle" /\ tombs # {}
  /\ sweep' = [NoSwp EXCEPT !.at = "next", !.todo = {t.id : t \in tombs}]
  /\ UNCHANGED <<remote, lock, client, mark, marks, read, ops, faults, hazards>>

\* In the order of the listing, baseline tombstones first; gone and young
\* ones are passed over.
SweepRead ==
  /\ sweep.at = "next"
  /\ \E id \in sweep.todo :
    /\ id[1] = "packs" => \A other \in sweep.todo : other[1] = "packs"
    /\ sweep' = IF \E t \in tombs : t.id = id /\ (ForceSweep \/ t.age >= Grace)
                THEN [at |-> "check", todo |-> sweep.todo \ {id}, id |-> id, cur |-> {},
                      left |-> (CHOOSE t \in tombs : t.id = id).objs]
                ELSE [sweep EXCEPT !.todo = @ \ {id}]
  /\ UNCHANGED <<remote, lock, client, mark, marks, read, ops, faults, hazards>>

\* On to the next tombstone; this one is left for a later sweep.
SweepDefer == sweep' = [NoSwp EXCEPT !.at = "next", !.todo = sweep.todo]

\* The live-state check, anew for every object (issues #117, #140, #152): a
\* listing of the chains for a pack, chain.json itself for a baseline.
SweepCheck ==
  /\ sweep.at = "check"
  /\ \E o \in sweep.left :
       sweep' = IF o \in Packs
                THEN [sweep EXCEPT !.left = @ \ {o}, !.cur = {o},
                                   !.at = IF chain = NoChain THEN "remove" ELSE "load"]
                ELSE [sweep EXCEPT !.left = @ \ {o},
                                   !.cur = {o} \ Refs(chain),
                                   !.at = IF o \in Refs(chain) THEN "check" ELSE "recheck"]
  /\ UNCHANGED <<remote, lock, client, mark, marks, read, ops, faults, hazards>>

\* Mutant: the tombstone is believed.
SweepUnchecked ==
  /\ sweep.at = "load"
  /\ sweep' = [sweep EXCEPT !.at = "remove"]
  /\ UNCHANGED <<remote, lock, client, mark, marks, read, ops, faults, hazards>>

\* What the listed chain names; if it has vanished, the tombstone fails.
SweepLoad ==
  /\ sweep.at = "load"
  /\ CASE chain = NoChain -> SweepDefer
       [] sweep.cur \subseteq Refs(chain) -> sweep' = [sweep EXCEPT !.at = "check", !.cur = {}]
       [] OTHER -> sweep' = [sweep EXCEPT !.at = "remove"]
  /\ UNCHANGED <<remote, lock, client, mark, marks, read, ops, faults, hazards>>

\* A baseline is checked a second time (issue #153).
SweepRecheck ==
  /\ sweep.at = "recheck"
  /\ IF sweep.cur \subseteq Refs(chain) THEN SweepDefer
     ELSE sweep' = [sweep EXCEPT !.at = "remove"]
  /\ UNCHANGED <<remote, lock, client, mark, marks, read, ops, faults, hazards>>

SweepRemove ==
  /\ sweep.at = "remove"
  /\ objs' = objs \ sweep.cur
  /\ sweep' = [sweep EXCEPT !.at = "check", !.cur = {}]
  /\ UNCHANGED <<chain, index, torn, protected, tombs, lock, client, mark, marks, read, ops, faults, hazards>>

\* The tombstone goes last.
SweepTomb ==
  /\ sweep.at = "check" /\ sweep.left = {}
  /\ tombs' = {t \in tombs : t.id # sweep.id}
  /\ SweepDefer
  /\ UNCHANGED <<chain, index, torn, objs, protected, lock, client, mark, marks, read, ops, faults, hazards>>

SweepDone ==
  /\ sweep.at = "next" /\ sweep.todo = {}
  /\ sweep' = NoSwp
  /\ UNCHANGED <<remote, lock, client, mark, marks, read, ops, faults, hazards>>

\* A failed request ends the mark run, and nothing is left of it.
MarkFails ==
  /\ mark.at # "idle"
  /\ mark' = NoMark
  /\ UNCHANGED <<remote, lock, client, sweep, marks, read, ops, faults, hazards>>

\* In a sweep it is logged and the next tombstone tried; or the run dies.
SweepFails ==
  /\ Fault
  /\ \/ sweep.at \notin {"idle", "next"} /\ SweepDefer
     \/ sweep.at # "idle" /\ sweep' = NoSwp
  /\ UNCHANGED <<remote, lock, client, mark, marks, read, ops, hazards>>

-----------------------------------------------------------------------------
(* git fetch of a ref that list advertised (no depth option).              *)

FetchEnds(result) == read' = [read EXCEPT !.at = "done", !.res = result, !.need = {}, !.miss = {}]

FetchStart ==
  /\ read.at = "idle" /\ chain # NoChain
  /\ \E have \in Haves :
       read' = [NoRead EXCEPT !.at = "load", !.have = have]
  /\ UNCHANGED <<remote, lock, client, gc, ops, faults, hazards>>

\* fetch_once: the chain as it is now, and what of it the reader lacks.
\* History: read.doomed if a tombstone names its baseline at that time.
FetchLoad ==
  /\ read.at = "load"
  /\ IF chain = NoChain THEN FetchEnds("absent")
     ELSE read' = [read EXCEPT !.at = "get", !.chain = chain, !.need = Needed(chain, read.have),
                               !.doomed = Named(Bundle(chain.full))]
  /\ UNCHANGED <<remote, lock, client, gc, ops, faults, hazards>>

\* The parallel downloads, in any order.
FetchGet ==
  /\ read.at = "get"
  /\ \E o \in read.need :
       CASE o \in objs     -> read' = [read EXCEPT !.need = @ \ {o}]
         [] o \in Bundles \ objs -> FetchEnds("baselineMissing")
         [] o \in Packs \ objs   -> read' = [read EXCEPT !.at = "reload", !.miss = {o}, !.need = {}]
  /\ UNCHANGED <<remote, lock, client, gc, ops, faults, hazards>>

\* fetch_full installs once everything is there.
FetchInstall ==
  LET got == Needed(read.chain, read.have) IN
  /\ read.at = "get" /\ read.need = {}
  /\ read' = [read EXCEPT !.at = "done", !.res = "ok",
                          !.have = @ \cup UNION {Contents(o) : o \in got}]
  /\ UNCHANGED <<remote, lock, client, gc, ops, faults, hazards>>

\* fetch_with_pack_missing_retries: a pack that the chain still names is
\* lost; otherwise it was swept, and the new chain is tried.
FetchReload ==
  /\ read.at = "reload"
  /\ CASE chain = NoChain -> FetchEnds("absent")
       [] read.miss \subseteq Segments(chain) -> FetchEnds("packMissing")
       [] OTHER -> IF read.tries = MaxRetries THEN FetchEnds("exhausted")
                   ELSE read' = [read EXCEPT !.at = "load", !.tries = @ + 1, !.miss = {}]
  /\ UNCHANGED <<remote, lock, client, gc, ops, faults, hazards>>

FetchDone ==
  /\ read.at = "done"
  /\ read' = NoRead
  /\ UNCHANGED <<remote, lock, client, gc, ops, faults, hazards>>

-----------------------------------------------------------------------------

Older(hours) == IF hours < Grace THEN hours + 1 ELSE hours

Reading == read.at \in {"load", "get", "reload"}

\* An hour passes, unless an operation or a fetch has taken as long as it
\* may.
Tick ==
  /\ \A p \in Clients : pc[p] # "idle" => age[p] < MaxOp
  /\ Reading => read.age < MaxFetch
  /\ tombs' = {[t EXCEPT !.age = Older(@)] : t \in tombs}
  /\ mark' = [mark EXCEPT !.age = IF mark.at = "put" THEN Older(@) ELSE @]
  /\ age' = [p \in Clients |-> IF pc[p] = "idle" THEN 0 ELSE age[p] + 1]
  /\ read' = [read EXCEPT !.age = IF Reading THEN @ + 1 ELSE @]
  /\ UNCHANGED <<chain, index, torn, objs, protected, lock, pc, op, num, prior, todo, sweep, marks,
                 ops, faults, hazards>>

PushStep(p) ==
  \/ LoadForPush(p) \/ UploadPack(p) \/ UploadBundle(p) \/ ReloadForPush(p) \/ Commit(p)
  \/ WriteIndex(p) \/ TombstoneBaseline(p)

CompactStep(p) ==
  LoadForCompact(p) \/ ReloadForCompact(p) \/ Download(p) \/ CompactPack(p) \/ CompactBundle(p)

ManageStep(p) ==
  \/ Open(p) \/ Confirm(p) \/ ListForDelete(p) \/ ListForDeleteBranch(p) \/ DeferBaseline(p)
  \/ DeleteOne(p) \/ Deleted(p) \/ Protect(p) \/ Unprotect(p)

ClientStep(p) ==
  PushStep(p) \/ CompactStep(p) \/ ManageStep(p) \/ AcquireLock(p) \/ Release(p)

MarkStep  == MarkList \/ MarkChains \/ MarkRefs \/ MarkPut
SweepStep == SweepList \/ SweepRead \/ SweepCheck \/ SweepLoad \/ SweepRecheck \/ SweepRemove \/ SweepTomb
             \/ SweepDone
FetchStep == FetchLoad \/ FetchGet \/ FetchInstall \/ FetchReload \/ FetchDone

Next ==
  \/ \E p \in Clients : Begin(p) \/ ClientStep(p) \/ RequestFails(p) \/ Crash(p)
  \/ StaleRecovery
  \/ MarkStep \/ MarkFails \/ SweepStep \/ SweepFails
  \/ FetchStart \/ FetchStep
  \/ Tick

Spec == Init /\ [][Next]_vars

-----------------------------------------------------------------------------
(* Properties.                                                             *)

\* Every pack and the baseline that chain.json names are in the store: what
\* a fresh clone needs.  Pre-lock uploads, lost races, compaction, gc mark
\* and sweep, and any fault may not break it, unless a hazard happened: an
\* object uploaded again while a tombstone named it ("reused"), a push that
\* builds on a chain of which a tombstone names an object ("marked"), or a
\* delete that removes bundles ("purged").
ChainResolvable == hazards = {} => Refs(chain) \subseteq objs

\* The ref as its users see it: chain.json is the commit point of a push and
\* of a delete, and nothing else moves the tip.
Register ==
  INSTANCE RefRegister WITH tip <- chain.tip, want <- op

\* The packchain engine implements the register: a push without force never
\* replaces a tip that is no ancestor of it, compaction keeps the tip
\* (the chain is read again under the lock), a protected ref only moves
\* forward and is not deleted (force is judged by the tip read under the
\* lock, issue #243), a commit writes the commit of a push under way, and
\* uploads, lost races, path index, tombstones, gc, failed requests and
\* crashes change nothing that a user sees.
ImplementsRegister == Register!Spec

\* The path index names the tip of the chain whenever nobody holds the lock,
\* unless a push, a force push or a delete was cut short between chain.json
\* and path-index.json and no operation has rewritten or deleted both since.
\* Crashes and failed requests anywhere else leave the two in step, and the
\* next operation that writes both puts them in step again; the push run once
\* more does not (it ends at the short cut for an equal tip).
IndexFollowsChain == lock = Free /\ ~torn => index = chain.tip

\* path-index.json is never ahead of the commit point: what is written names
\* the tip that chain.json has at that moment, whatever others have done
\* since the writer committed, and whatever has failed (issue #114).
IndexNeverAhead == [][index' # index => index' \in {None, chain'.tip}]_index

\* A fetch that takes less than the grace window never finds the baseline
\* of its chain gone, although force pushes and compactions replace that
\* baseline and sweeps go on meanwhile (issue #134), unless a tombstone of
\* an earlier replacement named the baseline when the chain was read.
FetchLosesNothing ==
  hazards = {} /\ read.age < Grace /\ ~read.doomed => read.res # "baselineMissing"

\* A fetch that succeeds has the whole history of the tip of the chain it
\* read: the segments down to the first known one, or all and the baseline.
FetchComplete ==
  read.res = "ok" => Ancestors(read.chain.tip) \subseteq read.have

=============================================================================
