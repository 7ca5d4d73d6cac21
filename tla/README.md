# A TLA+ model of git-remote-object-store

git-remote-object-store lets git push to and fetch from an S3 or Azure bucket.
There is no server: every client, every management command and every garbage
collection run is a process that talks to the bucket by itself, and the only
things they share are keys in it.  What makes the program correct is the order in
which each operation reads and writes those keys, one lock object per ref, and a
grace window before anything superseded is deleted.  That is what these modules
model: each operation as the sequence of store requests the code makes, any
interleaving of them, crashes, failed requests, slow requests, clock skew and time.

All paths below are relative to `src/` (the repository); line numbers of every
definition are in `PROJECT.json`.

## The system

| Component | State in the bucket | State in a process | Operations |
|---|---|---|---|
| Per-ref lock (`protocol/push.rs`, `manage/doctor.rs`) | `<ref>/LOCK#.lock` (empty body; only its `last_modified` matters) | the guard, its heartbeat task | `acquire_lock` with stale recovery, heartbeat, `LockGuard::release`, `Drop`, `doctor --delete-stale-locks` |
| Bundle engine (`protocol/push.rs`, `list.rs`, `fetch.rs`) | `<ref>/<sha>.bundle`, `PROTECTED#`, `HEAD`, `FORMAT`, `gc/baseline-tomb-*` | pre-lock listing, cached hide set | push, force push, `git push :ref`, list, fetch |
| Packchain engine (`packchain/push.rs`, `manifest.rs`, `fetch.rs`, `retry.rs`, `list.rs`) | `<ref>/chain.json`, `path-index.json`, `packs/*`, baseline bundle | pre-lock chain snapshot; the fetcher's chain, pending downloads and retry count | push, force push, delete, list, fetch |
| Compaction (`packchain/compact.rs`, `manage/compact.rs`, `packchain/audit.rs`) | the same | the audit's listing, the chain read under the lock | `compact` of one ref or of those the audit picks |
| Garbage collection (`packchain/gc.rs`) | `gc/tombstones-*`, `gc/baseline-tomb-*` | the packs seen by mark; the tombstone being swept | `mark`, `sweep` |
| Branch management (`manage/branch.rs`) | `PROTECTED#` | the listing of `open` | delete-branch, protect, unprotect |
| Doctor repairs (`manage/doctor.rs`, `snapshot.rs`) | bundles, `HEAD` | a snapshot of the bucket | fix multiple bundles, fix HEAD, report |
| Local side of a fetch (`protocol/fetch.rs`, `packchain/fetch.rs`, `git.rs`, `bundle.rs`) | reads bundles, chains, packs | the repository's objects and `.git/shallow`; the batch's tasks and permits; the session's fetched set | fetch batches with and without depth |
| Direct reads (`packchain/read.rs`, `pack.rs`) | reads chain, path index, packs | the pack index cache | `read_blob` |
| Engine choice (`protocol/backend.rs`) | `FORMAT` | the engine asked for | read or claim the format |
| Helper loop (`protocol/mod.rs`, `option.rs`, `bundle_uri.rs`) | `HEAD`, `FORMAT`, the refs | options, batches, replies | the remote helper protocol |
| URLs (`url.rs`, the constructors of `object_store/`) | none | endpoint, region, credentials | parse, canonical form, address of an object |
| Store backends (`object_store/`) | everything, open multipart uploads, staged blocks | the operation under way | get, put, put_if_absent, head, copy, delete |
| LFS agent (`lfs/`) | LFS objects | the transfer in progress; `.git/config` | upload, download, install, enable-debug, disable-debug |
| CLI and tooling (`cli/`, `xtask/`) | none | none | argument parsing, installation |

How they interact: pushes, deletes, compactions and the branch commands exclude
each other with the lock of their ref.  Fetch, list, gc and doctor take no lock.  A
packchain push uploads its pack and baseline *before* it takes the lock, so that
uploads of losers, gc, and deletes of the same ref all see objects no manifest
names yet.  Superseded objects are not deleted but named in a tombstone, and a sweep
deletes them once the grace window has passed.  git drives one helper per command through
a pipe; git-lfs drives one or several agents through theirs.

What is hard here, and what the properties are about: state read before the lock
and used under it; the staleness verdict on a lock whose owner is alive; a late
heartbeat; the same key being superseded and current again; gc between an upload and
its commit; chains of several refs that are read one by one while packs move between them;
a fetch that meets a force push, a compaction or a sweep half way, or dies between two
installs; an object that is replaced while it is transferred in parts; one request of several
failing; a request that fails after it took effect; two helpers that both found no `FORMAT`;
a batch that is abandoned half way; a reply that never comes; garbage that must be
reclaimed in the end.  `PROJECT.json` lists these hazards at the lines where they bite.

What each component must guarantee: the lock, exclusion and recovery; the engines, no
lost update, no rewind of a protected ref, everything the ref's value names present;
compact, the same tip; a read, the blob of the tip or an error; gc, nothing live deleted
and everything dead reclaimed; fetch, either an error or a complete history, and never a
commit in the repository without its history; management, no marker without a branch;
doctor, no commit lost by a repair that moves bundles; the helper, one answer for every line git waits for;
the store, whole objects; the agent, a true answer for every transfer.

## The modules

| Module | Models | Extends |
|---|---|---|
| `RefLock` | the lock protocol, in seconds of relative time | |
| `BundleEngine` | one ref stored as bundles, with sweep and fetch | |
| `Doctor` | doctor's repairs, composed with the bundle engine | `BundleEngine` |
| `RefRegister` | abstract: what a remote promises for one ref | |
| `Packchain` | one ref stored as a chain of packs, with compact, mark, sweep and fetch | (instantiates `RefRegister`) |
| `PathIndex` | the path index, as it is built and searched, and (`GitBlobs`) what git finds at a path | |
| `PackEntry` | entries of a pack and deltas | |
| `DirectRead` | `read_blob` and the pack index cache, composed with the writers and gc of `Packchain` | `Packchain`, `PathIndex`, `PackEntry` |
| `Gc` | several refs that share packs, mark, sweeps at once | |
| `Maintain` | `compact` over several refs and the audit, composed with gc | `Gc` |
| `FetchBatch` | fetch batches and what they leave in the repository | |
| `RemoteUrl` | URLs and what is derived from them | |
| `Session` | helper processes on one bucket | `RemoteUrl` |
| `ObjectStore` | the two store backends over their services | |
| `GitConfig` | commands that write `.git/config` | |
| `LfsAgent` | LFS agents and other clients of the store | `ObjectStore`, `GitConfig` |
| `MC...` | constants for TLC (`MCTransfer` is the one of `LfsAgent`) | the module of that name |
| `RefLockProofs`, `BundleProofs`, `PackchainProofs`, `DirectReadProofs`, `GcProofs`, `FetchProofs`, `TransferProofs`, `SessionProofs` | theorems about `RefLock`, `Doctor` (with `BundleEngine`), `Packchain`, `DirectRead`, `Maintain` (with `Gc`), `FetchBatch`, `LfsAgent` (with `ObjectStore` and `GitConfig`), `Session` | that module and `TLAPS`; `DirectReadProofs` also `PackchainProofs` |

### RefLock

`lock` and `age` are the object and the time since its `last_modified`.  `pc[c]` says
where client `c` is: `put` and `head` in `acquire_lock`, `steal` and `retry` in its
stale recovery, `won` between the store applying the PUT and the client learning of it,
`held` in the critical section, `releasing` while `LockGuard::release` awaits the
heartbeat, `deleting` before its DELETE.  `hb`, `hbWait` and `misses` are the heartbeat
task; `ghosts` are heartbeat PUTs that nobody awaits any more and the network may still
deliver; `lag` is how long ago the client read the `now` that it later compares with
`last_modified`, and includes the clock skew.  The doctor is a process of its own,
assumed to be run with the clients' TTL.

The body of the object is empty, so every DELETE is unconditional and a refresh
creates the key if it is gone: the model keeps no owner in the store either.

### BundleEngine

The value of a ref is its bundle keys minus those a baseline tombstone names
(`Visible`).  A push runs `ReadTombs` and `Prelist` (`prepare_push`), `AcquireLock`,
`CheckProtected`, `Relist`, `PutBundle`, `PutHead`, `PutFormat`, `DeferPrior` (with
`Untomb` as the fallback of a failed tombstone write) and `Release`.  `hidden` is the
hide set that the push reads once, before the lock, and uses in both listings.
`ListForDelete` / `DeleteOne` / `Deleted` are `git push :ref` and delete-branch;
`FetchList`, `FetchTombs` and `FetchGet` are the two requests of list and the download.
`SweepRead`, `SweepBundle` and `SweepTomb` are one tombstone of a sweep.  The live-state
recheck of the sweep reads chain.json, which a bundle-engine ref does not have, so that
here it never keeps a bundle.

`live` is a history variable: the last value a push put or a delete removed.

### Packchain

`chain` is the manifest: tip, baseline (`full`) and segments, newest first.  A pack is
`Pack(base, tip)`, named after what it contains, as packs are content-addressed: the
same range pushed twice is the same object.  A pack and its idx are one object, written
and deleted together.  A push runs `LoadForPush`, `UploadPack`, `UploadBundle` (full
packs only), `AcquireLock`, `ReloadForPush`, `Commit`, `WriteIndex`,
`TombstoneBaseline`, `Release`; `NewChain` builds the manifest on the snapshot read
before the lock, as `perform_push_under_lock` does.  Compact runs `LoadForCompact`, then under the lock `ReloadForCompact`,
`Download`, `CompactPack`, `CompactBundle` and the same `Commit`.  Mark lists the packs first, then the
chains, then reads them; sweep takes tombstones in listing order and checks the live
state anew for each object.  A fetch loads the chain, downloads what `Needed` selects in
any order, and starts over if a pack is gone that the new chain no longer names.

`index` is the tip in path-index.json.  It and the chain are two keys, written one after the other by a push and
deleted one after the other by a delete: `torn` is a history variable that says that an operation was cut short between the two
(`Tear`), until one has rewritten or begins to delete both.  A request may fail after it was applied, that of a
tombstone as well (`DeferBaseline`, and `DeferPrior` of `BundleEngine`): the client then removes the baseline at once, with the
tombstone in place.

`RefRegister` says what all of that comes to for one ref: `tip` changes in one step, in
`Update` or `Delete`, of an operation that wants it and is allowed to; everything else is a stutter.
`Packchain` instantiates it with the chain's tip and, for the wishes, the operations under
way; `ImplementsRegister` is its specification as a property.  The steps that change the tip
are `Commit` of a push and the DELETE of chain.json; a commit of compact must be a stutter,
and nothing a sweep, a mark, a crash or a failed request does is visible.

### DirectRead

Each reader is one call of `read_blob`; all share `cache`, the `PackIndexCache` with its map,
its LRU order and its byte count.  `ReadChain` and `ReadIndex` are the two manifest
requests, with the comparison of the tips; `ReadScan` is one segment of
`read_object_from_chain` with the cache lookup, `ReadIdx` the download after a miss and the
insert, `ReadEntry` the requests for the pack entry, and `ReadReload` the reload of
chain.json after a missing pack.  `ReadNext` is a step of a reader or of anybody in `Packchain`.
Cache methods are atomic (a mutex), the lookup and the insert are not one step.
The path index a push writes and the search in it are those of `PathIndex`: the tree walk of
`packchain/git.rs`, with directories that share a tree, links and submodules.  A request that fails otherwise
ends the read with an error and changes nothing.

Deltas stay within one pack, so an entry concerns one object.  `PackEntry` decodes it: the
byte range up to the next entry or the end of the pack, the recursion to the base with its
depth limit, and the delta with its operands whose zero bytes are left out.  It is
checked against what git writes (`Stored`, packs laid out from a plan) for every pack of
three objects, and proved against it for packs of any number.

### Doctor

`head`, `quarantine` and `doc` are added to the state of `BundleEngine`.  A run takes one
listing (`DoctorList`), asks the operator which bundle of a ref to keep, checks the keeper with
a HEAD, copies every other bundle to a quarantine ref and deletes it (or only deletes it,
`--delete-bundle`), and then repairs HEAD with a new check that the branch exists.  Between
any two of these steps clients push and delete and a sweep runs.  The operator's answers are
free, and so is the time they take.

### Gc and Maintain

`Packchain` has one ref, for which the set of live packs is one GET.  In `Gc` it is what
`list_referenced_packs` does: a listing of the chains and one GET after the other, in any order.
A chain is reduced to one pack and its baseline; pushes replace it whole, since only that takes a
pack off a chain.  `prep[n]` is push `n` before it has the lock: it reads the chain and uploads its pack and its baseline, as any
number of others of the same ref may at the same time; then `PushLock` takes it on to the operation under the lock of its ref,
`push[r]`, or `PushRefused` ends it (contended lock, stale chain, protected ref).  A delete lists the baselines of its
ref and removes them one after the other, all but the one it has written a tombstone for, and chain.json among them in any order.
`stranded` is a history variable: baselines left behind by the one client that knew of them.  Any number of sweeps go through the tombstones at once; each works on
its own copy of the listing, and a tombstone or an object that another sweep has removed is
passed over, as in the code.  A tombstone has the key that the code gives it
(`baseline_tombstone_key`), so that two may meet under one.

`Maintain` adds the command `compact`: a named ref, or those the audit recommends.  The audit
compares one listing with chains that it reads later, which is why it can only be sound for
refs that were not written since (`run.moved`).  From its lock on a compaction is an
operation of `Gc` under the lock, for the pack `Compacted[p]`, that begins with the uploads (`CompactUpload`).

### FetchBatch

One helper's fetches.  `task[r]` is the task of the batch for a ref, in the states of
`fetch_one` of its engine: waiting for a permit, reading the chain, downloading, installing, recording.  `loads[r]` are its downloads in packchain: those that wait for
a permit, those that have one (`DownloadStart`, `DownloadEnd`), and the first that failed; `Drain` awaits all of
them before anything is installed.  A bundle task holds its permit from start to end, a packchain task none but those of its
downloads (`Held`).  Installs follow `InstallOrder`, baseline
first and then the segments from old to new, and a crash may come between any two of them.
`odb` and `shallow` are the repository; `edges` collects the boundaries that
`write_shallow_file` writes at the end of the batch.  The remote moves in single steps: it
is pushed to, forced, compacted, deleted and swept, and between two batches git lists it again.

### Session and RemoteUrl

`h[p]` is a helper: where it is, the URL's engine, the engine it settled on, the line it is
answering, the commands waiting for the blank line, the depth, and the outcomes of the batch
so far.  `owed` says that git waits for a reply.  `Connect` and `Resolve` are `run_main` and
`backend::build`; the handlers are an action each, for lines of each kind; `PushWrite` makes the visible
writes of a push, in the order of its engine, one request after the other.  `hist` is what git
said, `ran` what the helper ran.  git sends `bundle-uri` whether or not it was advertised.

`RemoteUrl` is a set of operators.  Hosts, buckets and path segments are sequences of labels
(what is between two dots), because all the questions here are about where a search for
`.s3.` or `.s3-` cuts.  `parse` is the parser with all its refusals; `Display` prints the canonical form; `normalize_endpoint`, `extract_aws_region`, `build_container_url`
and the credentials are the constructors of the clients; `bundle_url_for_emission` is what bundle-uri
answers, which leaves out refs that `is_safe_for_bundle_uri_emission` rejects.  `path_segments` keeps the prefix
percent-encoded as the URL has it, and the SDKs encode a key once more when they put it in a request: `encoded` is what
a segment becomes there and `decoded` what the service reads, both constants, tables of the few segments that encoding changes;
`canonical_bundle_url` interpolates the key as it is.  The object at an address is its path with each segment decoded (`ObjectAt`).

### ObjectStore, LfsAgent and GitConfig

An object is the sequence of parts that it was put together from, with the operation that wrote it
as its version (Azure's ETag; S3's follows the content) and whether it was put together from blocks,
which Azure keeps by name: a later commit may take a block of the object that is there.  A task runs
one operation at a time.  A put below the threshold is one request, above it an upload is
created (S3) or blocks are staged (Azure), the parts go in any order, and the list
that completes it is sorted.  A download above its threshold is a HEAD and one GET for each range, pinned to
the ETag on both backends; when the object changed the download starts over, a bounded number
of times.  `copy` is one request or one per part.  Every request may fail, applied or not;
one whose answer was lost the SDK may send once more (`Unanswered`), which for a creation leaves an upload nobody knows, and for
`put_if_absent` meets the caller's own object.  A task that is dropped or whose completion fails leaves its guard to abort the upload in a detached
task (`Detach`, `AbortDetached`); one that is killed has no chance to.

An LFS agent reads an event, checks the oid, asks for the object with a HEAD if it is an upload, transfers,
writes the queued progress and then `complete`; closed pipes and malformed events end it or are answered
as in `run`.  The other tasks are clients as the engines are.  Before the agents start, in phase
`setup`, two processes run `install`, `enable-debug` and `disable-debug` (`GitConfig`): read, take
`config.lock` without waiting, write, rename.  A key has the values in the last section of its name, which is the only
one the commands look at, and those in earlier ones (`Lines`).  The configuration is dropped from the state once the
agents run.

### What was abstracted

- Commits are tips with an ancestry relation; a pack or bundle is what it contains.
- The engines use an atomic lock.  `RefLock` shows that this is what `acquire_lock`
  provides until a fault; an orphaned lock is freed by `StaleRecovery`.  What two owners
  at once could do to an engine after a fault is not explored.
- `HEAD` and `FORMAT` are written in `BundleEngine`, `Doctor` and `Session` only; `repo.zip` is left out.
- Tips are commits: a tip that is a blob has no path index at all (`packchain/push.rs:836-853` deletes it instead of writing it).
- The HEAD request for `PROTECTED#` and the LIST of a delete are one step (both under
  the lock that protect takes).
- One ref, one mark and one sweep at a time (any number in a row) in the engines; several in `Gc`.
- Outside `ObjectStore` the store is an atomic key-value store whose requests may fail, applied or not.
  `WholeObjects` is what justifies that.
- In `Gc` a delete's listing is one step with its lock, and what else the ref has there (`path-index.json`, `PROTECTED#`) is left out.
- A listing is one step everywhere: the few keys of a small instance fit in one page.

### Deliberate exemptions

Some interleavings do break the promise; they are under Known divergences below.  So that
the other properties still say something, history variables record that such an
interleaving has happened, and the property is required of all others.

- `hazards` of `BundleEngine`: `"revived"` (a commit pushed while a tombstone names its
  bundle: run `BundleRevive`) and `"masked"` (the cached hide set hides the current value).
- `hazards` of `Packchain`: `"purged"` (a delete removes a bundle that is not its own
  baseline), `"reused"` (an upload of an object that a pending tombstone names;
  `packchain/gc.rs:934-935` says of the check before each delete that "A
  residual TOCTOU window remains between this listing and the delete that follows") and `"marked"`
  (a push builds on a chain of which a pending tombstone names an object: the push looks at the tip
  alone under the lock, and may write back what a compaction has dropped and a sweep has taken).
- `torn` of `Packchain`: an operation other than a compaction was cut short between chain.json and path-index.json, and none has rewritten
  or begun to delete both since.  Everything else that fails leaves the two in step, and the next complete operation restores it.
- `hazards` of `Gc`: `"reused"` as above, `"purged"` (a delete removes the baseline of a push that waits for the lock: run `GcDelete`) and `"torn"`
  (a delete dies with the baseline gone and chain.json there).
- `stranded` of `Gc`: a baseline whose push was refused or died after its upload, that a force push replaced without
  having read that chain, or whose tombstone could not be written.  Nobody else knows of such a baseline; `NoBaselineLeak` and `GarbageReclaimed`
  are about all others, with and without faults.
- `read.doomed` and `fetch.dead`: the object was superseded, its tombstone written,
  before the fetch saw it, so that the grace window does not cover the fetch.
- `partial` and `dropped` of `FetchBatch`: a shallow packchain fetch has installed a segment
  whose base is missing, after which "everything older is also present" is no longer true and a commit may
  be recorded as fetched without being there; commits that a force push took off a ref between list and fetch.
- `Mixed` of `Session`: helpers that both found no `FORMAT` and chose different engines.
- `moved` of `Maintain`: refs written since the audit's listing.
- `orphans` and `shared` of `ObjectStore`: uploads of a killed process, whose abort failed or that the SDK's first request created; Azure keys to which
  two tasks stage blocks at once.
- `lost` of `GitConfig`: a command wrote back what it had read before another one wrote.
- `PlainPrefix` of `RemoteUrl`: a prefix without percent-encoding, to which the claim about unsigned bundle addresses is confined.
- `Shadowed` of `RemoteUrl`: hosts in which the bucket's own name ends in `s3`, so that the region found is a label of the name.

## The runs

`tlc -config <Run>.cfg <MC module>`; each takes between a second and two and a half minutes on two cores.  The
type invariant is a conjunct of a property in `Doctor`, `FetchBatch`, `Session`, `Transfer` and `Gc`.

| Run | Checks | Shows |
|---|---|---|
| `RefLock` | `TypeOK`, `LeaseInv`, `MutexUntilFault`, `NoOrphanUntilFault`, `NoLiveLockJudgedStale`, `DeadLockReclaimed` | with lost refreshes, latency, skew, the doctor, and two faults: no live owner's lock is ever judged stale; exclusion and no orphan until the first fault; a dead client's lock is reclaimed |
| `BundleEngine` | `TypeOK`, `ValueKept`, `NoOrphanMarker`, `AdvertisedIsFetchable`, `UpdateAllowed` | any three operations of two clients, one fault, sweeps and a fetch: the listing rule yields the value, the value's bundle stays, what was advertised can be fetched within the grace window, no update is lost, protected refs only move forward |
| `BundleRevive` (violated) | `SweepKeepsLiveBundle` | s1 pushed, s2 forced over it, s1 forced again while the tombstone of its first bundle waits: the sweep deletes the current bundle |
| `Doctor` | `EvictedIsKept`, `HeadNamesBranch` | a doctor that acts on an old listing while a client pushes and deletes: the value of the ref is in its bundle or in a quarantined copy; HEAD is only set to a branch that was there after the prompt |
| `Packchain` | `TypeOK`, `IndexFollowsChain`, `IndexNeverAhead`, `ImplementsRegister`, `ChainResolvable`, `FetchLosesNothing`, `FetchComplete` | in one scene, any three operations of two clients, of all seven kinds, one fault anywhere, and the sweep of what they leave: the lock is where its holder is; the path index names the tip of a free ref unless an operation was cut short between the two keys, and is never written ahead of the chain; and the whole is a register.  In the other, clones and incremental fetches shorter and longer than the grace window against three pushes, force pushes and compactions, a mark and sweeps: whatever chain.json names is there, the baseline outlasts the fetch, retries are bounded, nothing is skipped (1.7 million states in all) |
| `DirectRead` | `CacheConsistent`, `ReadIsTip`, `EntryDecodes` | two reads at once, with a cache that holds one full index, against pushes, compactions and sweeps without a grace window: the cache keeps its books, a success or a "path not found" speaks of the tip the read began with, and packs that vanish lead to a retry and not to "blob not in chain"; entries decode to what was packed |
| `FetchBatch` | `OdbClosed`, `DepthExact`, `BatchEnds` | two refs, one permit for all downloads, both engines, a crash: every commit in the repository has its history down to `.git/shallow`, which shows the depth asked for; every batch ends |
| `Session` | `OkIsListed`, `EveryLineAnswered`, `RunsWhatIsAsked`, `OneAddress` | two helpers, any dialogue of four lines (five with a depth): a push answered ok is what list shows, every line git waits on is answered, every push of a batch has its line, batches and depths are those git asked for; for thousands of URLs, with and without percent-encoding, printing, addressing and signing agree |
| `Transfer` | `WholeObjects`, `TransferIsSnapshot`, `CreatedOnce`, `UploadsReclaimed`, `LfsTold`, `InstallKept` | two tasks on either backend, three operations, one fault: no torn object, no mixed download or copy, of the callers of `put_if_absent` one at most is told true for one object, no upload stays open, agents tell the truth in the right order, `install` is complete and stays |
| `Gc` | `AllChainsResolvable`, `NoBaselineLeak` | two refs, two sweeps, pushes prepared before the lock and refused under it, a crash: see `Gc` above; no baseline but the stranded ones loses its last tombstone while it is there |
| `GcDelete` (violated) | `DeleteSparesPushes` | one ref, no fault: a delete removes the baseline of a push that waits for the lock and commits after it |
| `GcLive` | `MaintenanceSound`, `GarbageReclaimed` | one run of compact among pushes, deletes and gc: it does not fail for a ref that changed under it, the audit blames nothing that gc did, and all garbage but the stranded baselines goes in the end, also after a crash |

Every property of a passing run has a mutant in `PROJECT.json`: a definition changed
the way a plausible bug would change it (often the bug of an issue that the code cites),
under which TLC finds the property violated.

### Bounds

Two clients suffice for every interleaving the hazards need (one prepares, the other
changes the ref under it); symmetry is used in the safety runs.  Three operations
allow a value to be replaced and come back.  One fault
separates "a fault" from "no fault"; two in `RefLock`, because a robbery needs a dead
owner and a second failure to interact with it.  Commits: two in a row, where a force push back to the
older one is the rewind, and depth 1 leaves something out; merges and longer histories are covered by the theorems.  `Grace` is 1
(in or over) and 2 where a fetch takes an hour of it.
In `Packchain`, `MaxOp = 0` says that an operation takes less than the grace window:
no hour passes while one is under way, so that a tombstone written during an operation
does not expire during it.  A tombstone that expires in the middle of an operation
is covered by one that had expired before it and was swept late.  `MaxMarks` bounds the mark runs
started in `Packchain` (one, in the scene in which there is one client at a time; `MCPackchain` keeps the two scenes apart, as their product is too large),
and in `Gc` and `Maintain` the pack tombstones in the store, whatever the number of runs.  The TTL of 8 seconds is the smallest
that leaves room for one lost refresh, latency and skew with a period of 2
(`TimingAssumption`); the theorems cover the others.

`DirectRead` has one client and no force push, to leave room for two readers: a chain of two
segments, its compaction and the sweep of both old packs are three operations.  A read is
retried at most once there (`MaxRetries = 1`).  `Base = 2` makes a byte of a delta
operand a bit, so that every pattern of bytes left out occurs with short payloads.

`Permits = 1` in `FetchBatch` makes every wait for a permit happen; two batches let the second
meet what the first, or a crash, left behind.  In `Session` one helper is sent any kind of line
and the other pushes; four lines are two batches, or an abandoned one and another, and
a fifth follows where a depth was given first, for a second batch after that of the depth.  `Urls`
are all hosts of up to three labels, followed by nothing or by a partition of AWS, with each
addressing style and several paths, and all queries of up to two flags.  Bodies in `Transfer` have
up to two parts, both thresholds lie within, and three commands allow an `install` between two
others; an event with a malformed oid counts as an operation, as nothing else bounds it.  `Gc` needs two packs and
two refs for a pack to move, and two pushes to move one; it starts with both refs without a chain or with the same pack, the
cases that two pushes can tell apart.  `GcLive` starts with a ref that can be compacted and one that
cannot; `MaxOthers` keeps the pushes and deletes of others among the three operations to the first, so that
compactions follow it.

`GcDelete` needs one ref, two operations and no fault.

`CHECK_DEADLOCK FALSE` is set where the system may come to rest: when the bounded number
of operations, lines or batches is used up and everything is swept.

### Fairness

`RefLock`: weak fairness on each client's steps (the async runtime polls every ready task), on the
clock, and on the users, who retry after contention as the error message tells them to.
`FetchBatch`: weak fairness on the steps of each task and on the end of the batch, since
tokio polls every task and requests end; nothing is assumed of the remote.  `Maintain`: weak fairness
on the steps of operations under way (they end), on the clock, and on mark and each
sweep: the operator runs gc again and again, as its documentation asks; `compact`
is not fair.  No fairness is assumed of faults, ghosts, the doctor, or of starting
operations.

## The proofs

Eight modules hold theorems.  Each is about every value of the constants that satisfies the assumptions of
the module it is about (`ConstantsAssumption` and the like: finitely many operations, a reflexive and
transitive ancestry, and so on; the bounds on the numbers of operations and faults may be any natural numbers).  What
else a theorem assumes is said here.  A property that a run checks on a small instance is thus
proved for any number of clients, refs, commits, packs and operations.

| Module | Theorem | Property |
|---|---|---|
| `RefLockProofs` | `TypeCorrect`, `LeaseCorrect`, `StaleVerdictSound`, `MutexCorrect`, `NoOrphanCorrect` | `TypeOK`, `LeaseInv`, `NoLiveLockJudgedStale` (of steps), `MutexUntilFault`, `NoOrphanUntilFault` |
| `BundleProofs` | `TypeCorrect`, `MoveCorrect`, `ValueCorrect`, `MarkerCorrect`, `FetchCorrect`, `EvictCorrect`, `HeadCorrect` | `TypeOK`, `UpdateAllowed` (of steps), `ValueKept`, `NoOrphanMarker`, `AdvertisedIsFetchable`, `EvictedIsKept` (of `DoctorSpec`), `HeadNamesBranch` (of steps) |
| `PackchainProofs` | `TypeCorrect`, `RegisterCorrect`, `IndexCorrect`, `IndexAfterCommit`, `ResolvableCorrect`, `FetchCorrect`, `CompleteCorrect` | `TypeOK`, `ImplementsRegister` (refinement), `IndexFollowsChain`, `IndexNeverAhead` (of steps), `ChainResolvable`, `FetchLosesNothing`, `FetchComplete` |
| `DirectReadProofs` | `CacheCorrect`, `ReadCorrect`, `EntriesDecode` | `CacheConsistent`, `ReadIsTip` (of steps), `EntryDecodes` |
| `GcProofs` | `TypeCorrect`, `ResolvableCorrect`, `LeakCorrect`, `CompactResolvable`, `MaintainCorrect` | `TypeOK`, `AllChainsResolvable`, `NoBaselineLeak`, `AllChainsResolvable` (of `MaintainSpec`), `MaintenanceSound` |
| `TransferProofs` | `WholeCorrect`, `ReclaimCorrect`, `SnapshotCorrect`, `CreatedCorrect`, `InstallCorrect`, `LfsCorrect` | `WholeObjects`, `UploadsReclaimed`, `TransferIsSnapshot`, `CreatedOnce`, `InstallKept`, `LfsTold` |
| `FetchProofs` | `OdbCorrect`, `DepthCorrect` | `OdbClosed`, `DepthExact` (of steps) |
| `SessionProofs` | `LinesAreAnswered`, `OkListed`, `BatchesAreAsked`, `AddressesAreOne` | `EveryLineAnswered`, `OkIsListed`, `RunsWhatIsAsked`, `OneAddress` |

Every proof has the same outline: an inductive invariant, a lemma for each kind of step, and the theorem that
puts them together.  What follows says why the property is not inductive by itself.

### The lock

The timing assumption (`TimingAssumption`) is what the period of a third of the TTL is meant to provide: a
request takes at most `Latency`, which is at most a period, and `MaxMisses + 1` periods,
three latencies and the skew fit in the TTL.

That a verdict of staleness is sound depends on how old the
object can be at each point of its owner's life.  `LeaseInv` bounds that: `Fresh(c)` gives
the age as a sum of the acquisition's latency, the missed refreshes and the current wait, and
`Timely(c)` that no request in flight is older than its latency.  It holds for each owner
separately, whatever the others do to the object (a DELETE removes the subject of the
claim, a PUT only makes the object younger), so it survives faults and two owners at once.
`OwnedIsYoung` and `VerdictIsOld` then contradict each other for any step that judges an
owned lock stale.  Exclusion is not inductive by itself: a client in `steal` or `retry`, a ghost, or a
doctor about to delete would break it in one step.  `FaultFreeInv` (`FaultFreeAlways`) adds that none of these exist
before the first fault, which follows from the soundness of the verdict.

### The bundle engine and the doctor

The invariants build on each other, and each adds what the next step of the argument needs.  `TypeInv`
says which operation can be at which step (`StageOK`).  `NumberInv` adds that operations are told
apart by their numbers, so that the tombstone of an operation under way is its own.  `ValueInv`: while no hazard has
happened the last value is among the bundles and no tombstone names it, and the bundles that an
operation is about to condemn are not it.  `MoveInv` (`JudgedOK`): an operation that may still change the ref has judged the
value as it is now, since what it read under the lock cannot change before its
release; `MoveCorrect` follows for each writing step.  `ListInv`: until the first fault a free ref lists
exactly its value, and a push or delete in progress lists what it has still to replace; `NoOrphanMarker`
follows from its `EmptyOK`.  `FetchInv` is about times: a bundle the
fetch saw is in no tombstone older than the fetch, so that no sweep within the grace window has it in
its hands.  `FetchCorrect` assumes `~ForceSweep`.

The doctor takes no lock.  `KeptInv` says that what it is about to delete is in quarantine already, or is
not the value; the quarantined copies only grow, so that no client's step disturbs it.  The clients' side is that of
`BundleProofs`, taken over by the fact that each doctor step leaves their state alone or only removes bundles.
`HeadInv` says that a branch the doctor has confirmed was there at some time after the choice.

### The packchain engine

`RegisterCorrect` is the refinement: `Init` maps to `RefRegister`'s, and a step maps to `Update`, `Delete` or a
stutter.  The commit of a push reads nothing, it trusts what was judged before; `JudgedOK` (the
fast-forward of a push by the chain it read, which under the lock has the tip of the chain; the fast-forward of a
force push to a protected ref; that a ref being deleted is not protected; for a compaction, that its
snapshot is the chain) is what makes its update allowed, and the lock, which
`TypeOK` ties to the steps under it, keeps what was judged true.

`IndexOK` says how far the index may lag: if nothing is `torn`, only while a commit or a delete is under way, and
the delete then has on its list each manifest object that is there.  Faults need no case of their own: one at any other step leaves the
two keys alone, and one between them sets `torn`.  It also says that who is about to write the index has just written the
chain, and that nobody else has since, which gives `IndexAfterCommit`.

`StoreInv` is the invariant of `ChainResolvable`: without a hazard, what an operation holds for its commit
(`Holds`: the objects of the chain it builds on and those it has uploaded) is in the store, and every tombstone that names
it, and every mark run that has seen it, is younger than the operation.  With `MaxOp < Grace`, the
assumption that an operation takes less than the grace window, no sweep has what is held; with the live-state check anew
for each object (`SweepSafe`) no sweep has what the chain names.  `~ForceSweep` is assumed too: both are what
the documentation of gc asks of its operator.  `BaselineOK` carries the same argument to the
fetch.  `Linked`, that the segments of a chain lead from the tip to the root and that
each holds what the older ones lack, gives `CompleteCorrect`.

### Direct reads

`Kept` is the invariant of the cache: no key twice in the order, the map is the keys of the order, and the
byte count is the sum over the map.  The sum is a recursive definition of `FiniteSetsExt`; that it unfolds (`Unrolled`) is
proved from `WFMin` (see The fetch), and what is left is that an eviction subtracts just the bytes of the keys that
go (`SumMinus`), and that the first prefix that makes room exists (`Smallest`).

`Knows` is the invariant of a read.  The scan loop may begin anew against another chain, so what it says of the segments passed
concerns the chain in hand; what makes a scan to the end mean something is that every chain, the ones that a
push still has in its hands and those that a read holds included, is stacked (`Stacked`): its first segment is the tip's, each has the
next as its base, and the last has none.  The blob of a path at any commit in the history of the tip is then in the
oldest segment whose tip has it in its history (`BlobInChain`).

That `walk_tree` and `walk_path` find what git finds (`IndexFound`) is proved against a definition without recursion,
`GitBlobs`: the entries that the names of the path lead to.  `ReadCorrect` assumes `GitHistory`: finitely many trees, each with its
subtrees and none below itself, as content addressing has it, and `BlobAt` the blob that `GitBlobs` names.  TLC evaluates
the assumption on the trees of `MCDirectRead`.  The recursive functions are shown to exist by the largest closed set of trees on
which they do (`WalkExists`), the check for cycles is shown to find none (`NoCycle`), and
the search and the trail of entries are compared at the first name at which they would part (`SearchFinds`, `SearchSound`).

`EntriesDecode` is about data alone: `PacksDecode` and `DeltasDecode` hold whatever the state.  `EntryAssumption` says what it
needs: a payload is shorter than the three bytes of a copy's size can say, and an entry with the trailer fits in `MAX_RANGE_BYTES`.
An operand is read back because the digits that are left out are the zeros (`OperandRead`), a size of `GIT_DELTA_DEFAULT_COPY_SIZE`
because it is the one that is left out whole.  The result of a delta follows its script operation by operation, for a script of any
length (`DeltaDecodes`; `EntryDecodes` has those of up to two); without one of its operations it is shorter from there on, and
ends short of the size announced (`TextShorter`).  The entries of a pack lie one behind the other
(`Offsets`), so that the range fetched is the entry's own, with the trailer for the last (`Fetched`).  `EveryLevel` goes up from the
deepest level of the recursion: `m` levels above the limit an object decodes exactly if a whole one is fewer than `m` deltas below it.
The contents of the objects are those of `Object`, and a delta is the one that `Planned` writes.

### Garbage collection over several refs

`ResolvableInv` says of each sweep that the chains that name what it is judging are those it has still to
read (`VerdictOK`), and of each upload, of the pushes prepared before the lock and of compactions under it, that the tombstones
that name it are within the grace window and in no sweep's hands until its client is done (`UploadsOK`): no hour passes
during an operation here, and what was condemned before is `reused`.  A pack can then only move to a chain that the sweep
has read if it was uploaded for that.  For a baseline there is the delete of the ref besides: what it has on its list is not what a
push waits to commit, unless it was `purged`.  `LeakInv` says where the record of a dead baseline is: in a tombstone, in the
hands of the operation under the lock that is about to write one or to delete it, in those of a push that is still before the lock (`RecordsOK`),
or nowhere, when it is `stranded`; and that a sweep drops a tombstone only after the objects it named are gone or live (`SweepsOK`).
The invariant has no case for faults: each is one of the ways to strand a baseline, or leaves the records alone.
The lemmas are about the steps of `Gc` and the uploads of a
compaction together (`RemoteNext`), so that they serve both specifications.  `MaintainInv` adds what a run of
compact knows: the refs not written since its listing have the chain that the audit judged.

### The store and the agent

`WholeInv` says of each operation under way what it has put together so far: each part that
is done is the part of its number of one body, which in S3 is the one its ETag names (`DoneOK`, `BodyOK`); and a block that a task has
staged is still what a commit would take, or gone, as long as the key is not `shared` (`PendingOK`).  An upload is told from that of an earlier request of the same operation by the number of tries (`UploadId`).  `SnapshotInv` adds what the key held while the operation ran; `AgentInv` what the agent has promised
git-lfs; `SetupInv` the two commands that write the configuration.  For `CreatedOnce` the invariant says that an object that somebody was told to have created is there: the next
creation can only follow a delete.

### The fetch

`FetchInv` says that a chain leads from pack to pack (`ChainOK`), that the history of a chain's tip has every commit that
was ever advertised and not taken off (`Has`), that the repository is closed (`LocalOK`), and that what a task has still to
install follows what is there, pack by pack, oldest first (`TodoOK`).  An install then keeps the repository
closed, wherever a crash stops it, since a pack has all that the history of its tip adds to that of its base.

`DepthCorrect` says that after a batch the walk from the tip down to `.git/shallow` is exactly the ball of that depth.
It needs that an entry left over from an earlier batch is dropped if it lies within the ball and is not one of its boundaries, and
that every path out of the ball crosses a boundary.  Histories are acyclic (`ConstantsAssumption`: every set of
commits has one without a parent in it), of any size, with merges.  The induction
along the history, and the one over the number of generations, are those of the library's `WFMin`:
a nonempty set of finite sets has a minimal one.  Applied to the set of counterexamples it
needs no theorem with an operator as parameter, and the recursive function `Within` is unrolled one
level at a time (`Levels`, `WithinStep`).

### The helper

A step of a helper changes that helper only, so each action is shown to take it from one
state to the next (`Goes`): what it owes git is in order (`Dutiful`), and what it does to the bucket is one of
four things (`Does`): nothing, the probe of `FORMAT`, a write, the end of a push.  `Dutiful` says that the outcomes collected so far are those of
the commands before the next one, in order, which is why a failed request in the middle of a batch
leaves no push without its line.

`OkIsListed` is about several helpers at once.  `LockOK`: one helper at most is at its writes for a ref; `WrittenOK`: the
writes it has made are there, since no other writes that ref, and `FORMAT` is never removed; `EngineOK`: a helper's engine
is what `FORMAT` says or was assumed for want of one, and what the first push wrote to `FORMAT` was assumed
as well.  If a push ends in the keys of an engine that is not the one of `FORMAT`, two engines were assumed.

`RunsWhatIsAsked` compares what runs with the whole dialogue.  `BatchInv` says the same of what waits (`Follows`): a helper about
to read holds what git has asked for so far (`Told`: the commands of the lines since the last blank line or
change of mode, in order, and the last depth since the last fetch); one that is handling a line that changes this, what git had asked for
before it; and a batch that runs, what git had asked for before the blank line.  A line then adds its command to both sides or ends both, which is
what `Asked` and `AskedDepth` do when the dialogue grows by it (`AskedGrows`, `GivenGrows`), and a command that fails half-way leaves nothing
behind for the next batch.

### Addresses

`OneAddress` is three statements about every URL.  That a remote shown is read back as itself (`RoundTripsAll`) goes through the parser for either
store and both addressing styles: the segments of a path are its nonempty ones, so that printing them gives the same again
(`SegmentsSame`), and the flags of the query are printed so that they are found again.  That the clients, the presigned requests and
`bundle-uri` agree on where an object is (`AddressesAll`) rests on `BucketEnds`: the bucket is taken off the host exactly if it was put in
front of it.  `EncodingAssumption` says of the encoding what RFC 3986 does: what an SDK has written is decoded to the same segment, and only a segment
with a `%` in it is decoded to another, so that no bucket, container or account, and no ref that bundle-uri names, is.  The claim about an address
without a signature then needs a prefix without percent-encoding, and the others do not.  The region (`RegionsAll`) is the hard part, since `extract_aws_region` searches for `.s3.` and `.s3-` in a host of any
length: its rightmost match is shown to lie behind the bucket, label by label, for each form of endpoint that `RegionOf` knows; the exemption is
`Shadowed`, where it does not.  `UrlAssumption` asks that hosts, paths and queries are sequences, that the label `s3` is not one of
those with a hyphen, and that the markers of the model are no values of the code's.

### What was found on the way

Two properties that the runs had passed turned out not to hold in general: the `fetched` clause of `OdbClosed` (three commits
in a row and a shallow fetch) and `ChainResolvable` for a push that builds on a chain whose objects are in a tombstone
(`"marked"`).  Both are behaviours of the code (see Known divergences) and are exempted under a named history variable.  `FetchInv` and `EdgesOK` were model-checked before they were proved, on the bounds of the run
`FetchBatch` and on three commits with a merge; the other inductive invariants on the bounds of the run of their property.
Nothing of the kind was found in `Session`, `RemoteUrl` and `PackEntry`; the proofs there asked for assumptions that the runs had satisfied
unsaid (`UrlAssumption`, `EntryAssumption`).

### Only model-checked

- Liveness, `DeadLockReclaimed`, `BatchEnds` and `GarbageReclaimed`: out of the prover's reach, as is everything with ENABLED.
- The violations (`BundleRevive`, `GcDelete`), which need a behaviour and not a proof.

All safety and action properties of the passing runs are theorems.

## Known divergences

The violated runs are findings; `PROJECT.json` quotes the comments they contradict, and the run is named
below.  Modelling met others, for which no run is kept.  Each is a behaviour of the modules that contradicts
the sentence quoted.

The lock and the bundle engine:

- `protocol/push.rs:660-663`, "the retry `put_if_absent` will return `Ok(false)`": two clients
  that both saw the stale lock delete it one after the other; the second DELETE removes the lock that the
  first has just taken, and both hold it.
- `protocol/push.rs:279-281`, "so no new tombstone for this ref can land between the pre-lock
  and under-lock calls": a whole push of another client fits in between.  The result
  is "multiple bundles" instead of a stale remote or, if the hide set hides a commit that
  the other client makes current again, a guard that compares equal and an update that is
  "silently overwritten" (`push.rs:1503-1504`).
- `protocol/list.rs:127-128`, "`list` must not advertise it again": the keys are listed
  before the tombstones are read; if a sweep drops a tombstone in between, the superseded
  bundle is advertised.
- `protocol/push.rs:1734-1735`, two bundles are "genuine multi-bundle corruption": a delete
  counts tombstoned bundles too and refuses a healthy ref within the grace window of a push.
- `manage/doctor.rs:337-344` re-checks the keeper so that the last live bundle is not evicted: a listing
  taken between a push's PUT and its tombstone shows two bundles of a healthy ref, and the operator
  may keep the superseded one, which the sweep then takes.  The other is in quarantine.
- `protocol/push.rs:1541-1545`, first pushes "both write the same `bundle` value", and
  `protocol/mod.rs:371-375`, a wrong engine "can never cross the wires": two helpers with
  different `?engine=` both find no `FORMAT`; the loser's push is answered ok and is not listed.

Packchain:

- `packchain/push.rs:970-971`, delete "cannot race a concurrent push": it removes the
  baseline that a push uploaded before it waited for the lock, and the push commits a chain
  that names it (run `GcDelete`).
- `packchain/manifest.rs:114`, "`prior` is the under-lock chain snapshot": it is the
  pre-lock one; a compaction in between leaves the tip alone, the guard (`packchain/push.rs:764`) passes, and
  the push brings back the old segments, which are in a tombstone by then if mark has run; if a sweep has taken them,
  the chain is broken.
- `packchain/mod.rs:32-35`, orphans are "reaped" by gc: a baseline bundle whose push never
  commits, refused or dead, has no tombstone and mark looks at packs only.
- `packchain/gc.rs:81-83`, "The bundle stays in place for the entire grace window": a ref
  deleted, pushed and deleted again loses the first baseline at once.
- `packchain/mod.rs:35-37`, the path index "may be retried by re-running the push": the
  re-run takes the short cut for an equal tip and does not write it.
- `packchain/gc.rs:86-91`, the live-pack check "closes the race" with an upload that is not
  committed: with `gc sweep --force` the sweep may come before the commit, and the
  pack of the push in progress is deleted.
- `packchain/gc.rs:709-713`, a pack in the snapshot is "also in the chain set (saved) or genuinely
  orphan": with two refs, a pack that moves from the chain read last to the one read first is in neither.  The
  check before each delete saves it.
- `manage/gc.rs:41-42`, force bypasses "grace window and the orphan re-check": the sweep
  bypasses the window only.
- `gc sweep --force` between a delete's tombstone and its removal of chain.json keeps the
  baseline, which is still named, and drops the tombstone: the baseline is never found again.
- A push that uploads a pack again which an expired tombstone still names can lose it to the
  sweep until it commits (the window of `packchain/gc.rs:934-935`, without `--force`).
- `packchain/audit.rs:168`: the listing is older than the chains, so a push in between makes its own new pack
  "dangling"; and a chain that could not be read counts as none, so its packs show as orphans.
- `manage/compact.rs:91-92`, `BranchNotFound` "when a named ref has no chain.json": the run
  treats it as a ref that vanished and succeeds.

Fetches and reads:

- `packchain/fetch.rs:267-268`, "the bucket is genuinely missing data the chain still
  references": the pack may have been swept and uploaded again by a push of the same range.
- `protocol/fetch.rs:78`, "SHAs already fetched": after a rewind between list and fetch the
  advertised commit is recorded as fetched although it is not there.  The same after a shallow packchain fetch:
  with three commits in a row, a fetch with depth 1 of one ref installs the last; a later fetch of a second ref, which
  was advertised at the first commit and has moved to the last since, finds its tip present, installs nothing, and
  records the first commit.
- `packchain/fetch.rs:412-413`, "everything older is also present": after a shallow fetch that
  installed a segment and not its base it is not, and a later full fetch stops there.
- `packchain/fetch.rs:77-79`, "each pack download (and the baseline bundle when applicable)
  acquires one permit": the downloads of a shallow fetch take none.
- `git.rs:541`: boundaries are computed for each ref of a batch; the boundary of one ref
  may lie in the history that another asked for, and truncates it.
- `packchain/mod.rs:261`, `BlobNotInChain` "Indicates a corrupted bucket": a read that is
  retried after a force push behind the tip at which it resolved the path reports it on
  a healthy bucket.  `ReadIsTip` allows exactly that.

Store, agent and URLs:

- `object_store/azure.rs:1034`: block ids depend on the index only, so two uploads of one key at
  once stage over each other, and one commits a mix.  Keys named after their content are not affected.
- `object_store/mod.rs:217-218`, `Ok(false)` "if the key already existed": a `put_if_absent` that the SDK retries after it
  took effect answers false for the caller's own object, and one that fails for want of an answer may have created it: a lock nobody
  holds until the TTL passes.  `CreatedOnce` is what remains: never two callers told true.
- The abort of a dropped upload runs in a detached task, which the end of the process may overtake.
- `git.rs:957-959`, "parity with `git config`'s on-disk concurrency contract": the file is read before the lock is
  taken, so of two commands at once one may undo the other; a lock left by a killed process blocks later ones.
- `git.rs:1146-1148`, "every existing value for the key is removed": only those in the last section of the name are.
- `protocol/bundle_uri.rs:306-309`, an address that "Works for public-read buckets": it does not if the prefix has a percent-encoding, which
  the SDKs encode once more and `canonical_bundle_url` does not.
- `lfs/install.rs:93`, "clear `lfs.customtransfer.<agent>.args`": only the last line of a key goes,
  while `git.rs:1146-1147` speaks of "legacy multi-valued state" of such keys.
- `url.rs:896-898` keeps bucket names that contain `.s3.` whole; for one that ends in `.s3`
  the region found in the host is the label `s3` itself.

## Not modelled

- Formatting, logging, prompts' wording, exit codes, argument parsing, the report of the doctor: no
  state that processes share.
- HTTP, the bytes of signatures, inflation, the byte encoding of bundles, packs and JSON: I/O or
  libraries; the modules use what they return.
- The pages of a listing: with keys few enough for TLC a listing is one page.
- The validity of ref names and keys; `repo.zip`; `xtask`, installation and build tooling; the in-memory store used by tests.

## Plan

Done: the modules above, and a theorem for each safety and action property of the passing runs.  What could follow: the derivation
of keys from a URL, objects of any content in the packs of `EntryDecodes`, and blob tips, which have no path index.
