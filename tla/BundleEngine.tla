----------------------------- MODULE BundleEngine -----------------------------
(***************************************************************************)
(* One ref of a remote that uses the bundle engine: git push (with and     *)
(* without force), git push :ref, the branch management commands, git      *)
(* fetch, and gc sweep, each as the sequence of store requests the code    *)
(* makes (protocol/push.rs, protocol/list.rs, protocol/fetch.rs,           *)
(* manage/branch.rs, packchain/gc.rs).                                     *)
(*                                                                         *)
(* The bundle engine keeps no manifest: the ref's value IS the set of      *)
(* <ref>/<sha>.bundle keys, minus the keys some baseline tombstone names.  *)
(* The per-ref lock is the atomic one RefLock implements until a fault; a  *)
(* client that dies in it leaves it to the stale recovery.                 *)
(***************************************************************************)
EXTENDS Integers

CONSTANTS Clients,    \* processes that push or manage the branch
          Shas,       \* commits
          Ancestor,   \* <<a, b>>: a is an ancestor of b, or b itself
          Kinds,      \* operations the clients run
          Free,       \* the lock is not held
          Orphan,     \* the lock key of a dead client
          Grace,      \* gc grace window, in hours
          MaxFetch,   \* longest fetch, in hours
          ForceSweep, \* gc sweep --force: skip the grace window
          MaxOps,     \* bound: client operations started
          MaxFaults   \* bound: crashes and failed requests

ASSUME ConstantsAssumption ==
  /\ Shas # {}
  /\ Ancestor \subseteq Shas \X Shas
  /\ \A s \in Shas : <<s, s>> \in Ancestor
  /\ Kinds \subseteq {"push", "force", "delete", "deleteBranch", "protect", "unprotect"}
  /\ Free # Orphan /\ {Free, Orphan} \cap Clients = {}
  /\ Grace \in Nat \ {0} /\ MaxFetch \in Nat /\ MaxFetch < Grace
  /\ ForceSweep \in BOOLEAN
  /\ MaxOps \in Nat /\ MaxFaults \in Nat

VARIABLES
  bundles,    \* <sha>.bundle keys under the ref
  protected,  \* PROTECTED# marker present
  meta,       \* HEAD and FORMAT, whichever exist
  tombs,      \* gc/baseline-tomb-<uuid>.json records of this ref
  lock,       \* holder of the per-ref lock
  pc, op, hidden, pre, todo,   \* per client
  fetch,      \* a fetching client
  gc,         \* a gc sweep run
  ops, faults,
  live,       \* history: the value of the ref, {} or one commit
  hazards     \* history: see Relist and PutBundle

store   == <<bundles, protected, meta, tombs>>
client  == <<pc, op, hidden, pre, todo>>
history == <<live, hazards>>
vars    == <<store, lock, client, fetch, gc, ops, faults, history>>

Unlocked  == {"idle", "tombs", "prelist", "open", "confirm", "lock"}
UnderLock == {"check", "relist", "put", "head", "format", "tomb", "untomb", "list", "del",
              "mark", "unmark", "release"}

Tombstones == [id : 1..MaxOps, sha : Shas, age : 0..Grace]
OpType     == [id : 0..MaxOps, kind : Kinds \cup {"none"}, local : Shas]
FetchType  == [at : {"idle", "tombs", "get", "done"}, seen : SUBSET Shas, dead : SUBSET Shas,
               age : 0..MaxFetch, found : BOOLEAN]
GcType     == [at : {"idle", "next", "bundle", "tomb"}, todo : SUBSET (1..MaxOps), id : 0..MaxOps]

\* More than one bundle.
Several(shas) == \E s, t \in shas : s # t

\* Type invariant; a client owns the lock exactly while it runs the part of
\* its operation that push_one and ManageBranch put between acquire and
\* release, whichever early return, error or crash ends that part.
TypeOK ==
  /\ bundles \subseteq Shas
  /\ protected \in BOOLEAN
  /\ meta \subseteq {"HEAD", "FORMAT"}
  /\ tombs \subseteq Tombstones
  /\ lock \in Clients \cup {Free, Orphan}
  /\ pc \in [Clients -> Unlocked \cup UnderLock]
  /\ \A p \in Clients : lock = p <=> pc[p] \in UnderLock
  /\ op \in [Clients -> OpType]
  /\ hidden \in [Clients -> SUBSET Shas]
  /\ pre \in [Clients -> SUBSET Shas]
  /\ todo \in [Clients -> SUBSET Shas]
  /\ fetch \in FetchType /\ gc \in GcType
  /\ ops \in 0..MaxOps /\ faults \in 0..MaxFaults
  /\ live \subseteq Shas /\ ~Several(live)
  /\ hazards \subseteq {"revived", "masked"}

NoOp == [id |-> 0, kind |-> "none", local |-> CHOOSE s \in Shas : TRUE]

\* No process runs and nothing has failed yet.
Quiet ==
  /\ protected = FALSE /\ tombs = {}
  /\ lock = Free
  /\ pc = [p \in Clients |-> "idle"]
  /\ op = [p \in Clients |-> NoOp]
  /\ hidden = [p \in Clients |-> {}]
  /\ pre = [p \in Clients |-> {}]
  /\ todo = [p \in Clients |-> {}]
  /\ fetch = [at |-> "idle", seen |-> {}, dead |-> {}, age |-> 0, found |-> TRUE]
  /\ gc = [at |-> "idle", todo |-> {}, id |-> 0]
  /\ ops = 0 /\ faults = 0
  /\ hazards = {}

Init == bundles = {} /\ live = {} /\ meta = {} /\ Quiet

-----------------------------------------------------------------------------

\* The bundle keys named by the baseline tombstones (tombstoned_bundle_keys).
Tombstoned == {t.sha : t \in tombs}

\* bundles_for_ref with a given hide set.
Visible(hide) == bundles \ hide

FastForward(from, sha) == \A s \in from : <<s, sha>> \in Ancestor

Goto(p, label) == pc' = [pc EXCEPT ![p] = label]

Fault == faults < MaxFaults /\ faults' = faults + 1

\* The operation is over; what it remembered of the store is gone.
Forget(p) ==
  /\ hidden' = [hidden EXCEPT ![p] = {}]
  /\ pre' = [pre EXCEPT ![p] = {}]
  /\ todo' = [todo EXCEPT ![p] = {}]
  /\ op' = [op EXCEPT ![p] = NoOp]

\* An operation that ends before it has the lock.  The result is what the
\* user is told; nothing depends on it later, and it is not kept.
Finish(p, result) == Goto(p, "idle") /\ Forget(p)

\* An operation that ends under the lock: the release follows in any case.
Leave(p, result) == Goto(p, "release") /\ UNCHANGED <<op, hidden, pre, todo>>

Advance(p, label) == Goto(p, label) /\ UNCHANGED <<op, hidden, pre, todo>>

\* History: what a delete takes from under a fetch.
FetchersLose(gone) ==
  fetch' = IF fetch.at \in {"tombs", "get"} THEN [fetch EXCEPT !.dead = @ \cup (gone \cap fetch.seen)]
           ELSE fetch

-----------------------------------------------------------------------------
(* git push: prepare_push.                                                 *)

\* git push :ref is deferred to the lock; the management commands open the
\* branch first.
Begin(p) ==
  /\ pc[p] = "idle"
  /\ ops < MaxOps
  /\ ops' = ops + 1
  /\ \E kind \in Kinds, local \in Shas :
       /\ kind \notin {"push", "force"} => local = NoOp.local
       /\ op' = [op EXCEPT ![p] = [id |-> ops + 1, kind |-> kind, local |-> local]]
       /\ Goto(p, CASE kind \in {"push", "force"} -> "tombs"
                    [] kind = "delete" -> "lock"
                    [] OTHER -> "open")
  /\ UNCHANGED <<store, lock, hidden, pre, todo, fetch, gc, faults, history>>

\* The hide set, read once and reused under the lock (issue #165).
ReadTombs(p) ==
  /\ pc[p] = "tombs"
  /\ hidden' = [hidden EXCEPT ![p] = Tombstoned]
  /\ Goto(p, "prelist")
  /\ UNCHANGED <<store, lock, op, pre, todo, fetch, gc, ops, faults, history>>

\* The pre-lock listing, the ancestry probe and the local bundle.
Prelist(p) ==
  LET seen == Visible(hidden[p]) IN
  /\ pc[p] = "prelist"
  /\ \/ Several(seen) /\ Finish(p, "multiple")
     \/ /\ ~Several(seen)
        /\ op[p].kind = "push" /\ ~FastForward(seen, op[p].local)
        /\ Finish(p, "notAncestor")
     \/ /\ ~Several(seen)
        /\ op[p].kind = "force" \/ FastForward(seen, op[p].local)
        /\ pre' = [pre EXCEPT ![p] = seen]
        /\ Goto(p, "lock")
        /\ UNCHANGED <<op, hidden, todo>>
  /\ UNCHANGED <<store, lock, fetch, gc, ops, faults, history>>

\* ManageBranch::open: some object, the lock key included, must be there.
Open(p) ==
  /\ pc[p] = "open"
  /\ IF bundles = {} /\ ~protected /\ lock = Free
     THEN Finish(p, "notFound")
     ELSE Advance(p, IF op[p].kind = "deleteBranch" THEN "confirm" ELSE "lock")
  /\ UNCHANGED <<store, lock, fetch, gc, ops, faults, history>>

\* delete-branch: protection is checked before the prompt, which may be
\* answered with no.
Confirm(p) ==
  /\ pc[p] = "confirm"
  /\ \/ protected /\ Finish(p, "protected")
     \/ ~protected /\ Finish(p, "aborted")
     \/ ~protected /\ Advance(p, "lock")
  /\ UNCHANGED <<store, lock, fetch, gc, ops, faults, history>>

-----------------------------------------------------------------------------
(* The lock window.                                                        *)

AfterLock(kind) ==
  CASE kind \in {"push", "force"} -> "check"
    [] kind \in {"delete", "deleteBranch"} -> "list"
    [] kind = "protect" -> "mark"
    [] kind = "unprotect" -> "unmark"

AcquireLock(p) ==
  /\ pc[p] = "lock"
  /\ \/ lock = Free /\ lock' = p /\ Advance(p, AfterLock(op[p].kind))
     \/ lock # Free /\ Finish(p, "contended") /\ UNCHANGED lock
  /\ UNCHANGED <<store, fetch, gc, ops, faults, history>>

\* release_lock.  If its DELETE fails the key stays behind; a push reports
\* that instead of "ok", the management commands only log it.
Release(p) ==
  /\ pc[p] = "release"
  /\ Goto(p, "idle") /\ Forget(p)
  /\ \/ lock' = Free /\ UNCHANGED faults
     \/ Fault /\ lock' = Orphan
  /\ UNCHANGED <<store, fetch, gc, ops, history>>

\* acquire_lock of a later client, once the TTL has passed.
StaleRecovery ==
  /\ lock = Orphan
  /\ lock' = Free
  /\ UNCHANGED <<store, client, fetch, gc, ops, faults, history>>

-----------------------------------------------------------------------------
(* git push: perform_push_under_lock.                                      *)

\* A force push that is no fast-forward yields to the PROTECTED# marker.
Rewinds(p) == op[p].kind = "force" /\ ~FastForward(pre[p], op[p].local)

\* Mutant: the refusal returns without going through the release.
CheckLeaksLock(p) ==
  /\ pc[p] = "check"
  /\ IF Rewinds(p) /\ protected
     THEN Finish(p, "notAncestor")
     ELSE Advance(p, "relist")
  /\ UNCHANGED <<store, lock, fetch, gc, ops, faults, history>>

CheckProtected(p) ==
  /\ pc[p] = "check"
  /\ IF Rewinds(p) /\ protected
     THEN Leave(p, "notAncestor")
     ELSE Advance(p, "relist")
  /\ UNCHANGED <<store, lock, fetch, gc, ops, faults, history>>

\* Mutant: the pre-lock snapshot is not compared with the new listing.
RelistUnchecked(p) ==
  LET seen == Visible(hidden[p]) IN
  /\ pc[p] = "relist"
  /\ IF Several(seen) THEN Leave(p, "multiple") ELSE Advance(p, "put")
  /\ UNCHANGED <<store, lock, fetch, gc, ops, faults, history>>

\* The listing is read again, through the hide set of ReadTombs.
\* History: "masked" if that set hides a bundle that is not tombstoned (any
\* more): the push cannot see it.
Relist(p) ==
  LET seen == Visible(hidden[p]) IN
  /\ pc[p] = "relist"
  /\ \/ Several(seen) /\ Leave(p, "multiple")
     \/ ~Several(seen) /\ seen # pre[p] /\ Leave(p, "stale")
     \/ ~Several(seen) /\ seen = pre[p] /\ Advance(p, "put")
  /\ hazards' = hazards \cup
       (IF bundles \cap hidden[p] \subseteq Tombstoned THEN {} ELSE {"masked"})
  /\ UNCHANGED <<store, lock, fetch, gc, ops, faults, live>>

\* The durable commit.  An error may be reported for a PUT that was applied.
\* History: "revived" if a pending tombstone names the pushed commit.
PutBundle(p) ==
  /\ pc[p] = "put"
  /\ bundles' = bundles \cup {op[p].local}
  /\ live' = {op[p].local}
  /\ hazards' = hazards \cup (IF op[p].local \in Tombstoned THEN {"revived"} ELSE {})
  /\ \/ Advance(p, "head") /\ UNCHANGED faults
     \/ Fault /\ Leave(p, "failed")
  /\ UNCHANGED <<protected, meta, tombs, lock, fetch, gc, ops>>

PutHead(p) ==
  /\ pc[p] = "head"
  /\ meta' = meta \cup {"HEAD"}
  /\ Advance(p, "format")
  /\ UNCHANGED <<bundles, protected, tombs, lock, fetch, gc, ops, faults, history>>

PutFormat(p) ==
  /\ pc[p] = "format"
  /\ meta' = meta \cup {"FORMAT"}
  /\ Advance(p, "tomb")
  /\ UNCHANGED <<bundles, protected, tombs, lock, fetch, gc, ops, faults, history>>

\* Mutant: the superseded bundle gets no tombstone.
DeferNothing(p) ==
  /\ pc[p] = "tomb"
  /\ Leave(p, "ok")
  /\ UNCHANGED <<store, lock, fetch, gc, ops, faults, history>>

\* Mutant: the superseded bundle is deleted at once (before issue #157).
DeferSync(p) ==
  /\ pc[p] = "tomb"
  /\ bundles' = bundles \ (pre[p] \ {op[p].local})
  /\ Leave(p, "ok")
  /\ UNCHANGED <<protected, meta, tombs, lock, fetch, gc, ops, faults, history>>

\* defer_prior_bundle_via_tombstone: the superseded bundle is left to the
\* sweep; if the answer is an error it is deleted at once (Untomb), whether
\* or not the tombstone was written.  Either way the push has succeeded.
DeferPrior(p) ==
  LET prior == pre[p] \ {op[p].local}
      with  == tombs \cup {[id |-> op[p].id, sha |-> s, age |-> 0] : s \in prior}
  IN
  /\ pc[p] = "tomb"
  /\ \/ tombs' = with /\ Leave(p, "ok") /\ UNCHANGED faults
     \/ /\ prior # {} /\ Fault
        /\ tombs' \in {tombs, with}
        /\ Advance(p, "untomb")
  /\ UNCHANGED <<bundles, protected, meta, lock, fetch, gc, ops, history>>

\* delete_prior_bundle_best_effort.
Untomb(p) ==
  /\ pc[p] = "untomb"
  /\ \/ bundles' = bundles \ pre[p] /\ FetchersLose(pre[p]) /\ UNCHANGED faults
     \/ Fault /\ UNCHANGED <<bundles, fetch>>
  /\ Leave(p, "ok")
  /\ UNCHANGED <<protected, meta, tombs, lock, gc, ops, history>>

-----------------------------------------------------------------------------
(* git push :ref, delete-branch, protect and unprotect, under the lock.    *)

\* delete_remote_ref_under_lock counts every <sha>.bundle key of the ref.
ListForDelete(p) ==
  /\ pc[p] = "list" /\ op[p].kind = "delete"
  /\ \/ protected /\ Leave(p, "protected")
     \/ ~protected /\ bundles = {} /\ Leave(p, "notFound")
     \/ ~protected /\ Several(bundles) /\ Leave(p, "multiple")
     \/ /\ ~protected /\ bundles # {} /\ ~Several(bundles)
        /\ todo' = [todo EXCEPT ![p] = bundles]
        /\ Goto(p, "del")
        /\ UNCHANGED <<op, hidden, pre>>
  /\ UNCHANGED <<store, lock, fetch, gc, ops, faults, history>>

\* ManageBranch::delete_under_lock sweeps whatever the fresh listing holds.
ListForDeleteBranch(p) ==
  /\ pc[p] = "list" /\ op[p].kind = "deleteBranch"
  /\ \/ bundles = {} /\ ~protected /\ Leave(p, "ok")
     \/ protected /\ Leave(p, "protected")
     \/ /\ bundles # {} /\ ~protected
        /\ todo' = [todo EXCEPT ![p] = bundles]
        /\ Goto(p, "del")
        /\ UNCHANGED <<op, hidden, pre>>
  /\ UNCHANGED <<store, lock, fetch, gc, ops, faults, history>>

\* One DELETE per listed key; an error may be reported for one that was
\* applied.  git push :ref gives up at the first error, delete-branch goes
\* on and reports a partial delete.
DeleteOne(p) ==
  /\ pc[p] = "del"
  /\ \E s \in todo[p] :
       /\ todo' = [todo EXCEPT ![p] = @ \ {s}]
       /\ \/ /\ bundles' = bundles \ {s} /\ live' = live \ {s} /\ FetchersLose({s})
             /\ UNCHANGED <<pc, faults>>
          \/ /\ Fault
             /\ \E gone \in {{}, {s}} :
                  bundles' = bundles \ gone /\ live' = live \ gone /\ FetchersLose(gone)
             /\ IF op[p].kind = "delete"
                THEN Goto(p, "release") ELSE UNCHANGED pc
  /\ UNCHANGED <<protected, meta, tombs, lock, op, hidden, pre, gc, ops, hazards>>

Deleted(p) ==
  /\ pc[p] = "del" /\ todo[p] = {}
  /\ Leave(p, "ok")
  /\ UNCHANGED <<store, lock, fetch, gc, ops, faults, history>>

\* Mutant: protect trusts the listing of ManageBranch::open.
ProtectNoRelist(p) ==
  /\ pc[p] = "mark"
  /\ protected' = TRUE /\ Leave(p, "ok")
  /\ UNCHANGED <<bundles, meta, tombs, lock, fetch, gc, ops, faults, history>>

\* protect_under_lock: the branch must still have data (issue #137).
Protect(p) ==
  /\ pc[p] = "mark"
  /\ \/ bundles = {} /\ Leave(p, "notFound") /\ UNCHANGED protected
     \/ bundles # {} /\ protected' = TRUE /\ Leave(p, "ok")
  /\ UNCHANGED <<bundles, meta, tombs, lock, fetch, gc, ops, faults, history>>

Unprotect(p) ==
  /\ pc[p] = "unmark"
  /\ protected' = FALSE
  /\ Leave(p, "ok")
  /\ UNCHANGED <<bundles, meta, tombs, lock, fetch, gc, ops, faults, history>>

-----------------------------------------------------------------------------
(* Failures.                                                               *)

\* A request answered with an error and not applied: the operation ends,
\* through the release if it has the lock.
RequestFails(p) ==
  /\ Fault
  /\ \/ pc[p] \in Unlocked \ {"idle"} /\ Finish(p, "failed")
     \/ /\ \/ pc[p] \in {"relist", "put", "head", "format", "list", "mark", "unmark"}
           \/ pc[p] = "check" /\ Rewinds(p)
        /\ Leave(p, "failed")
  /\ UNCHANGED <<store, lock, fetch, gc, ops, history>>

\* The process dies; a lock it held stays in the store.
Crash(p) ==
  /\ pc[p] # "idle"
  /\ Fault
  /\ lock' = IF lock = p THEN Orphan ELSE lock
  /\ Finish(p, "none")
  /\ UNCHANGED <<store, fetch, gc, ops, history>>

-----------------------------------------------------------------------------
(* git fetch: list, then the exact key it advertised.                      *)

\* collect_bundles lists the keys first ...
\* History: fetch.dead is what a tombstone names at that time.
FetchList ==
  /\ fetch.at = "idle"
  /\ bundles # {}
  /\ fetch' = [fetch EXCEPT !.at = "tombs", !.seen = bundles, !.dead = bundles \cap Tombstoned,
                            !.age = 0]
  /\ UNCHANGED <<store, lock, client, gc, ops, faults, history>>

\* ... and the tombstones after that; what is left is advertised.
FetchTombs ==
  /\ fetch.at = "tombs"
  /\ fetch' = IF fetch.seen \subseteq Tombstoned
              THEN [fetch EXCEPT !.at = "idle", !.seen = {}, !.dead = {}]
              ELSE [fetch EXCEPT !.at = "get", !.seen = @ \ Tombstoned]
  /\ UNCHANGED <<store, lock, client, gc, ops, faults, history>>

\* fetch_one: the GET of one advertised bundle, by its exact key.
FetchGet ==
  /\ fetch.at = "get"
  /\ \E s \in fetch.seen :
       fetch' = [at |-> "done", seen |-> {}, dead |-> {}, age |-> 0,
                 found |-> s \in bundles \/ s \in fetch.dead]
  /\ UNCHANGED <<store, lock, client, gc, ops, faults, history>>

FetchDone ==
  /\ fetch.at = "done"
  /\ fetch' = [fetch EXCEPT !.at = "idle", !.found = TRUE]
  /\ UNCHANGED <<store, lock, client, gc, ops, faults, history>>

-----------------------------------------------------------------------------
(* gc sweep, the baseline tombstones.                                      *)

SweepList ==
  /\ gc.at = "idle" /\ tombs # {}
  /\ gc' = [gc EXCEPT !.at = "next", !.todo = {t.id : t \in tombs}]
  /\ UNCHANGED <<store, lock, client, fetch, ops, faults, history>>

\* sweep_one_baseline_tombstone: gone and young tombstones are passed over.
\* There is no chain.json, so the live-state recheck finds nothing.
SweepRead ==
  /\ gc.at = "next"
  /\ \E id \in gc.todo :
       IF \E t \in tombs : t.id = id /\ (ForceSweep \/ t.age >= Grace)
       THEN gc' = [gc EXCEPT !.at = "bundle", !.id = id, !.todo = @ \ {id}]
       ELSE gc' = [gc EXCEPT !.todo = @ \ {id}]
  /\ UNCHANGED <<store, lock, client, fetch, ops, faults, history>>

SweepBundle ==
  /\ gc.at = "bundle"
  /\ bundles' = bundles \ {t.sha : t \in {u \in tombs : u.id = gc.id}}
  /\ gc' = [gc EXCEPT !.at = "tomb"]
  /\ UNCHANGED <<protected, meta, tombs, lock, client, fetch, ops, faults, history>>

SweepTomb ==
  /\ gc.at = "tomb"
  /\ tombs' = {t \in tombs : t.id # gc.id}
  /\ gc' = [gc EXCEPT !.at = "next", !.id = 0]
  /\ UNCHANGED <<bundles, protected, meta, lock, client, fetch, ops, faults, history>>

\* A failed request is logged and the next tombstone tried; or the run dies.
SweepFails ==
  /\ gc.at # "idle"
  /\ Fault
  /\ \/ /\ gc.at = "next"
        /\ \E id \in gc.todo : gc' = [gc EXCEPT !.todo = @ \ {id}]
     \/ gc.at # "next" /\ gc' = [gc EXCEPT !.at = "next", !.id = 0]
     \/ gc' = [at |-> "idle", todo |-> {}, id |-> 0]
  /\ UNCHANGED <<store, lock, client, fetch, ops, history>>

SweepDone ==
  /\ gc.at = "next" /\ gc.todo = {}
  /\ gc' = [gc EXCEPT !.at = "idle"]
  /\ UNCHANGED <<store, lock, client, fetch, ops, faults, history>>

-----------------------------------------------------------------------------

\* An hour passes, unless a fetch has taken as long as it may.
Tick ==
  /\ fetch.at \in {"tombs", "get"} => fetch.age < MaxFetch
  /\ \/ \E t \in tombs : t.age < Grace
     \/ fetch.at \in {"tombs", "get"}
  /\ tombs' = {[t EXCEPT !.age = IF @ < Grace THEN @ + 1 ELSE @] : t \in tombs}
  /\ fetch' = [fetch EXCEPT !.age = IF fetch.at \in {"tombs", "get"} THEN @ + 1 ELSE @]
  /\ UNCHANGED <<bundles, protected, meta, lock, client, gc, ops, faults, history>>

PushStep(p) ==
  \/ ReadTombs(p) \/ Prelist(p) \/ CheckProtected(p) \/ Relist(p) \/ PutBundle(p)
  \/ PutHead(p) \/ PutFormat(p) \/ DeferPrior(p) \/ Untomb(p)

ManageStep(p) ==
  \/ Open(p) \/ Confirm(p) \/ ListForDelete(p) \/ ListForDeleteBranch(p)
  \/ DeleteOne(p) \/ Deleted(p) \/ Protect(p) \/ Unprotect(p)

ClientStep(p) == PushStep(p) \/ ManageStep(p) \/ AcquireLock(p) \/ Release(p)

FetchStep == FetchList \/ FetchTombs \/ FetchGet \/ FetchDone

SweepStep == SweepList \/ SweepRead \/ SweepBundle \/ SweepTomb \/ SweepDone

Next ==
  \/ \E p \in Clients : Begin(p) \/ ClientStep(p) \/ RequestFails(p) \/ Crash(p)
  \/ StaleRecovery
  \/ FetchStep
  \/ SweepStep \/ SweepFails
  \/ Tick

Spec == Init /\ [][Next]_vars

-----------------------------------------------------------------------------
(* Properties.                                                             *)

\* No push, delete, fallback or sweep removes the bundle the ref's current
\* value is stored in, whatever requests fail; and with no operation under
\* way and no request failed, the listing rule (bundle keys minus tombstoned
\* ones) yields exactly that value.  Unless a hazard happened.
ValueKept ==
  hazards = {} =>
    /\ live \subseteq bundles
    /\ lock = Free /\ faults = 0 => Visible(Tombstoned) = live

\* The value's bundle is there, with no exception: what sweep's live-state
\* recheck is for.
SweepKeepsLiveBundle == live \subseteq bundles

\* The ref only moves as it may, however many clients push, delete, protect
\* or crash: a push without force never replaces a value that is no ancestor
\* of it (the stale-remote guard), and once PROTECTED# is there the ref only
\* moves forward and is not deleted (issues #128, #129: the checks run under
\* the lock that protect takes).
UpdateAllowed ==
  [][ live' # live /\ hazards' = {} =>
        /\ \A p \in Clients : pc[p] = "put" /\ op[p].kind = "push" => FastForward(live, op[p].local)
        /\ protected => live' # {} /\ \A s \in live' : FastForward(live, s) ]_vars

\* The marker never outlives its branch: protect looks for branch data again
\* under the lock (issue #137), and every delete looks for the marker there
\* (issues #128, #151), so that no marker is left to block a later branch of
\* the same name.
NoOrphanMarker ==
  protected /\ faults = 0 /\ hazards = {} => bundles # {}

\* A fetch that takes less than the grace window finds the bundle it saw
\* advertised, although pushes supersede it and sweeps run meanwhile (issue
\* #157), unless the bundle had been superseded when it was listed or was
\* deleted with its ref.
AdvertisedIsFetchable == fetch.found

=============================================================================
