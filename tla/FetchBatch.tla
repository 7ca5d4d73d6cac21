------------------------------ MODULE FetchBatch ------------------------------
(***************************************************************************)
(* The local side of git fetch: the batches of fetch commands of a helper  *)
(* session, each ref of a batch a concurrent task, for both engines, with  *)
(* and without option depth (protocol/fetch.rs, packchain/fetch.rs), and   *)
(* what they leave in the repository: its objects and .git/shallow         *)
(* (git.rs, bundle.rs, packchain/pack.rs).                                 *)
(*                                                                         *)
(* The remote is reduced to what the tasks read: the chain of each ref and *)
(* the packs and bundles that are there.  Packchain and BundleEngine model *)
(* how they get there; here each push, compaction and sweep is one step.   *)
(***************************************************************************)
EXTENDS Integers, Sequences, FiniteSets, FiniteSetsExt, Functions

CONSTANTS Commits, Blobs,
          Parents,     \* the parents of each commit
          Files,       \* the blobs in the tree of each commit
          Refs,
          Engines,     \* the engines a remote may have
          Depths,      \* values of option depth; 0 stands for no option
          None,
          Permits,     \* MAX_FETCH_CONCURRENCY
          MaxRetries,  \* PACK_MISSING_MAX_RETRIES
          MaxMoves,    \* bound: changes of the remote
          MaxBatches,  \* bound: fetch batches
          MaxFaults    \* bound: crashes of the helper

\* Hashes cover the parents of a commit, so that histories have an end.
ASSUME ConstantsAssumption ==
  /\ IsFiniteSet(Commits) /\ IsFiniteSet(Refs)
  /\ Parents \in [Commits -> SUBSET Commits]
  /\ \A S \in (SUBSET Commits) \ {{}} : \E c \in S : Parents[c] \cap S = {}
  /\ Files \in [Commits -> SUBSET Blobs]
  /\ Commits \cap Blobs = {} /\ None \notin Commits
  /\ Engines \subseteq {"bundle", "packchain"}
  /\ Depths \subseteq Nat
  /\ Permits \in Nat \ {0} /\ MaxRetries \in Nat
  /\ MaxMoves \in Nat /\ MaxBatches \in Nat /\ MaxFaults \in Nat

VARIABLES
  engine,     \* of the remote, resolved when the helper connects
  chain,      \* per ref: the manifest; the bundle engine only has its tip
  store,      \* packs and bundles
  odb,        \* the repository: commits and blobs
  shallow,    \* the repository: .git/shallow
  adv,        \* what list advertised to git
  fetched,    \* FetchedRefs: the session's set of fetched commits
  depth,      \* of the batch that runs
  task,       \* per ref: the task of the batch
  edges,      \* ShallowBoundaries of the batch
  loads,      \* per ref: the downloads of a full fetch
  moves, batches, faults,
  partial,    \* history: a shallow packchain fetch has installed a segment
  dropped     \* history: commits that a force push took off a ref

remote  == <<engine, chain, store>>
local   == <<odb, shallow>>
session == <<adv, fetched, depth, task, edges>>
bounds  == <<moves, batches, faults>>
vars    == <<remote, local, session, bounds, partial, dropped, loads>>

-----------------------------------------------------------------------------
(* History, packs and manifests.                                           *)

\* The commits at most n - 1 parent links away from one of tips; a walk does
\* not go on from the commits in cut.
Within(tips, cut, n) ==
  LET W[i \in 0..n] ==
        IF i <= 1 THEN IF i = 0 THEN {} ELSE tips
        ELSE W[i - 1] \cup UNION {Parents[c] : c \in W[i - 1] \ cut}
  IN W[n]

Ball(tip, n) == Within({tip}, {}, n)

Reachable(tips, cut) == Within(tips, cut, Cardinality(Commits))

Ancestors(c) == Reachable({c}, {})

Pack(base, tip) == [kind |-> "pack", ref |-> None, base |-> base, sha |-> tip]
Bundle(r, tip)  == [kind |-> "bundle", ref |-> r, base |-> None, sha |-> tip]

\* bundle::create and build_baseline_pack: every reachable commit, its tree
\* and its blobs.
FullPack(tip) == Ancestors(tip) \cup UNION {Files[c] : c \in Ancestors(tip)}

\* build_incremental_pack: the commits since base, the parents their trees
\* are compared with, and the blobs that differ from a parent's.
IncrementalPack(base, tip) ==
  LET new == Ancestors(tip) \ Ancestors(base)
  IN new \cup (UNION {Parents[c] : c \in new})
         \cup (UNION {{b \in Files[c] : Parents[c] = {} \/ \E p \in Parents[c] : b \notin Files[p]} :
                        c \in new})

Contents(o) == IF o.base = None THEN FullPack(o.sha) ELSE IncrementalPack(o.base, o.sha)

NoChain == [tip |-> None, full |-> None, segs |-> <<>>]

Named(r, ch) ==
  IF ch = NoChain THEN {}
  ELSE {Bundle(r, ch.full)} \cup (IF engine = "packchain" THEN Range(ch.segs) ELSE {})

\* select_needed_segments: the segments down to the first tip the repository
\* has, newest first, and whether the baseline is needed as well.
select_needed_segments(ch) ==
  LET known == {i \in DOMAIN ch.segs : ch.segs[i].sha \in odb}
  IN [segs |-> IF known = {} THEN ch.segs ELSE SubSeq(ch.segs, 1, Min(known) - 1),
      base |-> known = {}]

\* shallow_boundaries: the commits that a breadth-first walk from the tip
\* meets at depth n.  The tip and what the walk goes through must be there.
shallow_boundaries(tip, n) == Ball(tip, n) \ Ball(tip, n - 1)
WalkFails(tip, n, objects) == ~((Ball(tip, n - 1) \cup {tip}) \subseteq objects)

\* entry_remains_a_boundary: a commit that lacks one of its parents.
entry_remains_a_boundary(c) == c \in odb /\ Parents[c] # {} /\ ~(Parents[c] \subseteq odb)

\* Mutant: entries are only ever added (before issue #78).
write_shallow_merge(new) == shallow' = shallow \cup new

\* write_shallow_file: the new boundaries and the old ones that still are.
write_shallow_file(new) ==
  shallow' = new \cup {c \in shallow \ new : entry_remains_a_boundary(c)}

-----------------------------------------------------------------------------

Idle == [at |-> "none", sha |-> None, chain |-> NoChain, todo |-> <<>>, miss |-> {}, tries |-> 0]

States == {"none", "queued", "load", "get", "install", "next", "reload", "walk", "done", "failed"}

Running == {r \in Refs : task[r].at # "none"}

Objects == [kind : {"pack", "bundle"}, ref : Refs \cup {None}, base : Commits \cup {None}, sha : Commits]

\* Downloads that wait for a permit, those that have one, and the first of
\* those whose object was not there.
NoLoads == [queue |-> {}, busy |-> {}, lost |-> {}]

LoadsOK ==
  loads \in [Refs -> [queue : SUBSET Objects, busy : SUBSET Objects, lost : SUBSET Objects]]

\* Mutant: packchain tasks hold a permit as well, while their downloads ask
\* for one.
HeldByTasks ==
  {<<r, None>> : r \in {q \in Refs : task[q].at \in {"load", "get", "install", "walk"}}}
    \cup UNION {{r} \X loads[r].busy : r \in Refs}

\* Bundle tasks hold a permit from their start to their end, a download of a
\* packchain task one of its own; a shallow fetch downloads without one.
Held ==
  {<<r, None>> : r \in {q \in Refs : engine = "bundle" /\ task[q].at \in {"get", "walk"}}}
    \cup UNION {{r} \X loads[r].busy : r \in Refs}

\* Types; the boundaries that a batch collects come from the walks
\* of its own tasks, and it has none without a depth.
Typed ==
  /\ engine \in Engines
  /\ chain \in [Refs -> [tip : Commits \cup {None}, full : Commits \cup {None},
                         segs : Seq([kind : {"pack"}, ref : {None}, base : Commits \cup {None},
                                     sha : Commits])]]
  /\ \A o \in store : o.sha \in Commits
  /\ odb \subseteq Commits \cup Blobs /\ shallow \subseteq Commits
  /\ adv \in [Refs -> Commits \cup {None}]
  /\ fetched \subseteq Commits
  /\ depth \in Depths \cup {0}
  /\ \A r \in Refs : task[r].at \in States
  /\ edges \subseteq Commits
  /\ depth = 0 \/ Running = {} => edges = {}
  /\ moves \in 0..MaxMoves /\ batches \in 0..MaxBatches /\ faults \in 0..MaxFaults
  /\ partial \in BOOLEAN /\ dropped \subseteq Commits

TypeOK == Typed /\ LoadsOK

Init ==
  /\ engine \in Engines
  /\ chain = [r \in Refs |-> NoChain] /\ store = {}
  /\ odb = {} /\ shallow = {}
  /\ adv = [r \in Refs |-> None] /\ fetched = {} /\ depth = 0
  /\ task = [r \in Refs |-> Idle] /\ edges = {}
  /\ moves = 0 /\ batches = 0 /\ faults = 0
  /\ partial = FALSE /\ dropped = {} /\ loads = [r \in Refs |-> NoLoads]

-----------------------------------------------------------------------------
(* The remote: what a push, a compaction and a sweep leave behind.         *)

Move(r, ch) ==
  /\ moves < MaxMoves /\ moves' = moves + 1
  /\ chain' = [chain EXCEPT ![r] = ch]
  /\ store' = store \cup Named(r, ch)
  /\ UNCHANGED <<engine, local, session, batches, faults, partial, loads>>

FullChain(c) == [tip |-> c, full |-> c, segs |-> <<Pack(None, c)>>]

\* A first or a fast-forward push.
RemotePush(r) ==
  /\ \E c \in Commits :
       /\ c # chain[r].tip
       /\ chain[r] # NoChain => chain[r].tip \in Ancestors(c)
       /\ Move(r, IF chain[r] = NoChain \/ engine = "bundle" THEN FullChain(c)
                  ELSE [tip |-> c, full |-> chain[r].full,
                        segs |-> <<Pack(chain[r].tip, c)>> \o chain[r].segs])
  /\ UNCHANGED dropped

RemoteForce(r) ==
  \E c \in Commits :
    /\ chain[r] # NoChain /\ c # chain[r].tip
    /\ dropped' = dropped \cup (Ancestors(chain[r].tip) \ Ancestors(c))
    /\ Move(r, FullChain(c))

RemoteCompact(r) ==
  /\ engine = "packchain" /\ Len(chain[r].segs) > 1
  /\ Move(r, FullChain(chain[r].tip))
  /\ UNCHANGED dropped

\* A sweep after the grace window.
RemoteSweep ==
  LET live == UNION {Named(r, chain[r]) : r \in Refs} IN
  /\ store # live
  /\ store' = live
  /\ UNCHANGED <<engine, chain, local, session, bounds, partial, dropped, loads>>

-----------------------------------------------------------------------------
(* A batch: list, then the fetch commands, then the blank line.            *)

List ==
  /\ Running = {}
  /\ adv' = [r \in Refs |-> chain[r].tip]
  /\ adv' # adv
  /\ UNCHANGED <<remote, local, fetched, depth, task, edges, bounds, partial, dropped, loads>>

\* fetch_batch spawns one task per command.
StartBatch ==
  /\ Running = {} /\ batches < MaxBatches /\ batches' = batches + 1
  /\ \E wanted \in (SUBSET {r \in Refs : adv[r] # None}) \ {{}}, d \in Depths :
       /\ depth' = d
       /\ task' = [r \in Refs |-> IF r \in wanted
                                  THEN [Idle EXCEPT !.at = "queued", !.sha = adv[r]] ELSE Idle]
  /\ edges' = {}
  /\ UNCHANGED <<remote, local, adv, fetched, moves, faults, partial, dropped, loads>>

Goto(r, label) == task' = [task EXCEPT ![r].at = label]

\* fetch_one: what the session has fetched is not fetched again.
After(r) == IF task[r].sha \in fetched THEN "walk" ELSE IF engine = "bundle" THEN "get" ELSE "load"

\* A packchain task asks for no permit.
TakePermit(r) ==
  /\ task[r].at = "queued"
  /\ engine = "bundle" => Cardinality(Held) < Permits
  /\ Goto(r, After(r))
  /\ UNCHANGED <<remote, local, adv, fetched, depth, edges, bounds, partial, dropped, loads>>

\* fetch_one of the bundle engine: GET, unbundle, record.
GetBundle(r) ==
  /\ task[r].at = "get" /\ engine = "bundle"
  /\ IF Bundle(r, task[r].sha) \in store
     THEN /\ odb' = odb \cup FullPack(task[r].sha)
          /\ fetched' = fetched \cup {task[r].sha}
          /\ Goto(r, "walk")
     ELSE Goto(r, "failed") /\ UNCHANGED <<odb, fetched>>
  /\ UNCHANGED <<remote, shallow, adv, depth, edges, bounds, partial, dropped, loads>>

-----------------------------------------------------------------------------
(* fetch_once of the packchain engine.                                     *)

\* Mutant: newest first.
InstallOrderNewest(r, ch) ==
  LET need == select_needed_segments(ch)
  IN need.segs \o (IF need.base THEN <<Bundle(r, ch.full)>> ELSE <<>>)

\* fetch_full installs oldest first, the baseline before the segments;
\* fetch_shallow the other way round.
InstallOrder(r, ch) ==
  LET need == select_needed_segments(ch)
      base == IF need.base THEN <<Bundle(r, ch.full)>> ELSE <<>>
  IN IF depth > 0 THEN need.segs \o base
     ELSE base \o [i \in 1..Len(need.segs) |-> need.segs[Len(need.segs) + 1 - i]]

\* The chain, what is needed of it, and for a full fetch
\* spawn_full_downloads.
LoadChain(r) ==
  /\ task[r].at = "load"
  /\ IF chain[r] = NoChain THEN Goto(r, "failed") /\ UNCHANGED loads
     ELSE /\ task' = [task EXCEPT ![r].at = IF depth > 0 THEN "next" ELSE "get",
                                  ![r].chain = chain[r], ![r].todo = InstallOrder(r, chain[r])]
          /\ loads' = IF depth > 0 THEN loads
                      ELSE [loads EXCEPT ![r].queue = Range(InstallOrder(r, chain[r]))]
  /\ UNCHANGED <<remote, local, adv, fetched, depth, edges, bounds, partial, dropped>>

\* A missing baseline fails the fetch, a missing pack may have been swept.
Missing(r, o) ==
  task' = IF o.kind = "bundle" THEN [task EXCEPT ![r].at = "failed"]
          ELSE [task EXCEPT ![r].at = "reload", ![r].miss = {o}]

\* A download: its permit, then the GET.
DownloadStart(r) ==
  /\ task[r].at = "get" /\ Cardinality(Held) < Permits
  /\ \E o \in loads[r].queue :
       loads' = [loads EXCEPT ![r].queue = @ \ {o}, ![r].busy = @ \cup {o}]
  /\ UNCHANGED <<remote, local, session, bounds, partial, dropped>>

DownloadEnd(r) ==
  /\ task[r].at = "get"
  /\ \E o \in loads[r].busy :
       loads' = [loads EXCEPT ![r].busy = @ \ {o},
                              ![r].lost = IF o \in store \/ @ # {} THEN @ ELSE {o}]
  /\ UNCHANGED <<remote, local, session, bounds, partial, dropped>>

\* drain_full_downloads: all of them are awaited, the first error wins, and
\* nothing is installed before the last.
Drain(r) ==
  /\ task[r].at = "get" /\ engine = "packchain" /\ loads[r].queue \cup loads[r].busy = {}
  /\ IF loads[r].lost = {} THEN Goto(r, "install")
     ELSE \E o \in loads[r].lost : Missing(r, o)
  /\ loads' = [loads EXCEPT ![r] = NoLoads]
  /\ UNCHANGED <<remote, local, adv, fetched, depth, edges, bounds, partial, dropped>>

Recorded(r) == fetched' = fetched \cup {task[r].sha}

\* install_pack and unbundle_at, one pack after the other.
Install(r) ==
  /\ task[r].at = "install"
  /\ IF task[r].todo = <<>> THEN Recorded(r) /\ Goto(r, "walk") /\ UNCHANGED odb
     ELSE /\ odb' = odb \cup Contents(Head(task[r].todo))
          /\ task' = [task EXCEPT ![r].todo = Tail(@)]
          /\ UNCHANGED fetched
  /\ UNCHANGED <<remote, shallow, adv, depth, edges, bounds, partial, dropped, loads>>

\* fetch_shallow: one segment at a time, newest first, with a walk after
\* each; it stops at the first walk that meets the depth.
ShallowNext(r) ==
  LET todo == task[r].todo
      now  == odb \cup Contents(Head(todo))
      tip  == task[r].sha
  IN
  /\ task[r].at = "next"
  /\ CASE todo = <<>> -> Recorded(r) /\ Goto(r, "walk") /\ UNCHANGED <<odb, partial>>
       [] todo # <<>> /\ Head(todo) \notin store ->
            Missing(r, Head(todo)) /\ UNCHANGED <<odb, fetched, partial>>
       [] todo # <<>> /\ Head(todo) \in store /\ Head(todo).kind = "bundle" ->
            /\ odb' = now
            /\ task' = [task EXCEPT ![r].todo = <<>>]
            /\ UNCHANGED <<fetched, partial>>
       [] OTHER ->
            /\ odb' = now
            /\ partial' = TRUE
            /\ IF WalkFails(tip, depth, now) THEN Goto(r, "failed") /\ UNCHANGED fetched
               ELSE IF shallow_boundaries(tip, depth) # {} THEN Recorded(r) /\ Goto(r, "walk")
               ELSE task' = [task EXCEPT ![r].todo = Tail(@)] /\ UNCHANGED fetched
  /\ UNCHANGED <<remote, shallow, adv, depth, edges, bounds, dropped, loads>>

\* fetch_with_pack_missing_retries: a pack that the chain still names is
\* lost; another was swept, and the new chain is tried.
ReloadChain(r) ==
  /\ task[r].at = "reload"
  /\ IF \/ chain[r] = NoChain
        \/ task[r].miss \subseteq Range(chain[r].segs)
        \/ task[r].tries = MaxRetries
     THEN Goto(r, "failed")
     ELSE task' = [task EXCEPT ![r].at = "load", ![r].tries = @ + 1, ![r].miss = {}]
  /\ UNCHANGED <<remote, local, adv, fetched, depth, edges, bounds, partial, dropped, loads>>

\* The shallow boundary of the ref, whether or not it was downloaded.
Walk(r) ==
  /\ task[r].at = "walk"
  /\ CASE depth = 0 -> Goto(r, "done") /\ UNCHANGED edges
       [] depth > 0 /\ WalkFails(task[r].sha, depth, odb) -> Goto(r, "failed") /\ UNCHANGED edges
       [] OTHER -> /\ edges' = edges \cup shallow_boundaries(task[r].sha, depth)
                   /\ Goto(r, "done")
  /\ UNCHANGED <<remote, local, adv, fetched, depth, bounds, partial, dropped, loads>>

-----------------------------------------------------------------------------

Outcome == IF \E r \in Running : task[r].at = "failed" THEN "failed" ELSE "ok"

Ended == Running # {} /\ \A r \in Running : task[r].at \in {"done", "failed"}

NewSession ==
  /\ task' = [r \in Refs |-> Idle] /\ edges' = {} /\ depth' = 0
  /\ fetched' = {} /\ adv' = [r \in Refs |-> None]
  /\ loads' = [r \in Refs |-> NoLoads]

\* Every task is joined; .git/shallow is written once, and only if the whole
\* batch succeeded.  A failure ends the helper.
EndBatch ==
  /\ Ended
  /\ IF Outcome = "ok"
     THEN /\ IF depth > 0 THEN write_shallow_file(edges) ELSE UNCHANGED shallow
          /\ task' = [r \in Refs |-> Idle] /\ edges' = {} /\ depth' = 0
          /\ UNCHANGED <<adv, fetched, loads>>
     ELSE NewSession /\ UNCHANGED shallow
  /\ UNCHANGED <<remote, odb, bounds, partial, dropped>>

\* git or the operator kills the helper; the next one starts anew.
Crash ==
  /\ Running # {} /\ faults < MaxFaults /\ faults' = faults + 1
  /\ NewSession
  /\ UNCHANGED <<remote, local, moves, batches, partial, dropped>>

TaskStep(r) ==
  \/ TakePermit(r) \/ GetBundle(r) \/ LoadChain(r)
  \/ DownloadStart(r) \/ DownloadEnd(r) \/ Drain(r) \/ Install(r)
  \/ ShallowNext(r) \/ ReloadChain(r) \/ Walk(r)

RemoteStep == (\E r \in Refs : RemotePush(r) \/ RemoteForce(r) \/ RemoteCompact(r)) \/ RemoteSweep

Next ==
  \/ RemoteStep
  \/ List \/ StartBatch \/ (\E r \in Refs : TaskStep(r)) \/ EndBatch \/ Crash

Spec == Init /\ [][Next]_vars

\* tokio polls every task of the batch; nothing is assumed of the remote.
FairSpec == Spec /\ (\A r \in Refs : WF_vars(TaskStep(r))) /\ WF_vars(EndBatch)

-----------------------------------------------------------------------------
(* Properties.                                                             *)

\* Until a shallow packchain fetch: a commit is never there without its tree
\* and its history, whatever crash, failed download or other task comes
\* between two installs: select_needed_segments relies on it.  And a commit
\* that the session will not fetch again is there, unless a force push has
\* taken it off the ref that was fetched.
OdbClosed ==
  /\ TypeOK
  /\ ~partial => /\ \A c \in odb \cap Commits : (Files[c] \cup Parents[c]) \subseteq odb
                 /\ fetched \subseteq odb \cup dropped

\* A batch with a depth that succeeds for a single ref shows exactly that many
\* generations of it, whatever .git/shallow said before; one without leaves
\* .git/shallow alone.
DepthExact ==
  [][EndBatch /\ Outcome = "ok" /\ ~partial =>
       /\ depth = 0 => shallow' = shallow
       /\ depth > 0 /\ Cardinality(Running) = 1 =>
            \A r \in Running : Reachable({task[r].sha}, shallow') = Ball(task[r].sha, depth)]_vars

\* Every batch ends, also with as many downloads as there are objects and a
\* single permit for all of them: no task keeps a permit that its own
\* downloads, or another's, wait for.
BatchEnds == (Running # {}) ~> (Running = {})

=============================================================================
