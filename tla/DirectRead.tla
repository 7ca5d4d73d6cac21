------------------------------ MODULE DirectRead ------------------------------
(***************************************************************************)
(* read_blob (packchain/read.rs): threads of one process that read single  *)
(* files of a packchain ref straight from the store, and the pack index    *)
(* cache they share, composed with the writers and gc of Packchain.        *)
(*                                                                         *)
(* A read makes one request for chain.json, one for path-index.json, one   *)
(* for the index of each segment that is not in the cache, and then those  *)
(* for the pack entry.  It takes no lock.  Deltas are resolved within a    *)
(* pack (packchain/pack.rs), so that an entry is its one pack's business:  *)
(* PackEntry decodes it.  PathIndex builds path-index.json and looks paths *)
(* up in it.                                                               *)
(***************************************************************************)
EXTENDS Packchain, PathIndex, PackEntry, FiniteSetsExt

CONSTANTS Readers,   \* calls of read_blob, in threads that share a PackIndexCache
          Paths,
          TreeOf,    \* TreeOf[c]: the tree of commit c
          BlobAt,    \* BlobAt[c][path]: the blob there in commit c, or None
          IdxBytes,  \* IdxBytes[b]: bytes of the index of a pack with base b
          Capacity   \* capacity_bytes of the cache

ASSUME ReadAssumption ==
  /\ BlobAt \in [Commits -> [Paths -> UNION {{BlobAt[c][x] : x \in Paths} : c \in Commits}]]
  /\ IdxBytes \in [Commits \cup {None} -> Nat]
  /\ Capacity \in Nat

VARIABLES cache,  \* PackIndexCache
          rd      \* per reader

readVars == <<cache, rd>>
allVars  == <<vars, readVars>>

-----------------------------------------------------------------------------
(* PackIndexCache: keys from the least to the most recently used, the      *)
(* keys of its map, and the bytes it accounts for.                         *)

EmptyCache == [order |-> <<>>, map |-> {}, total |-> 0]

Bytes(o)      == IdxBytes[o.base]
BytesOf(set)  == MapThenSumSet(Bytes, set)

\* PackIndexCache::get of a key that is there.
Touch(c, o) == [c EXCEPT !.order = Append(RemoveFirst(@, o), o)]

\* The entry of the same key makes way first.
Without(c, o) ==
  IF o \in c.map
  THEN [order |-> RemoveFirst(c.order, o), map |-> c.map \ {o}, total |-> c.total - Bytes(o)]
  ELSE c

\* The oldest entries go, no more of them than it takes to fit bytes in.
Evict(c, bytes) ==
  LET old(n) == {c.order[i] : i \in 1..n} \cap c.map
      n == Min({k \in 0..Len(c.order) :
                  k = Len(c.order) \/ c.total - BytesOf(old(k)) + bytes <= Capacity})
  IN [order |-> SubSeq(c.order, n + 1, Len(c.order)),
      map   |-> c.map \ old(n),
      total |-> c.total - BytesOf(old(n))]

\* Mutant: two readers that missed the same index both add it.
InsertTwice(c, o) ==
  LET room == Evict(c, Bytes(o))
  IN IF Bytes(o) > Capacity THEN c
     ELSE [order |-> Append(room.order, o), map |-> room.map \cup {o},
           total |-> room.total + Bytes(o)]

\* PackIndexCache::insert; an index over the whole budget is not kept.
Insert(c, o) ==
  LET clean == Without(c, o)
      room  == Evict(clean, Bytes(o))
  IN IF Bytes(o) > Capacity THEN clean
     ELSE [order |-> Append(room.order, o), map |-> room.map \cup {o},
           total |-> room.total + Bytes(o)]

-----------------------------------------------------------------------------
(* read_blob.                                                              *)

\* The blobs in a pack: those of its commits that the history of its base
\* does not have (one that comes back is in an older segment as well).
BlobsIn(o) ==
  {BlobAt[c][x] : c \in Contents(o), x \in Paths}
    \ {BlobAt[a][x] : a \in IF o.base = None THEN {} ELSE Ancestors(o.base), x \in Paths}

\* What the index of commit c, as the push wrote it, has at a path.
IndexAt == [c \in Commits |-> [x \in Paths |->
              IF parse_path(x) THEN walk_path(extract_path_index(TreeOf[c]), x) ELSE "malformed"]]

\* The trees of the commits, the paths, and the blobs there are those of git.
GitHistory ==
  /\ GitTrees /\ TreeOf \in [Commits -> DOMAIN Trees] /\ Paths \subseteq Seq(STRING)
  /\ \A e \in TreeEntries : e.id # None
  /\ \A c \in Commits, x \in Paths :
       parse_path(x) => GitBlobs(TreeOf[c], x) = {BlobAt[c][x]} \ {None}

\* tip: that of the first chain; chain, pos: the segment to look at.
NoBlobRead == [at |-> "idle", path |-> CHOOSE x \in Paths : TRUE, tip |-> None, chain |-> NoChain,
               pos |-> 1, blob |-> None, tries |-> 0, res |-> "none"]

\* The read is over.  Of the errors, only those that say something of the
\* history are told apart later.
Ended(result) ==
  [NoBlobRead EXCEPT !.at = "done",
     !.res = IF result \in {"ok", "pathNotFound", "notInChain"} THEN result ELSE "failed"]

ReadEnds(r, result) == rd' = [rd EXCEPT ![r] = Ended(result)]

Cursor(r) == rd[r].chain.segs[rd[r].pos]

\* parse_path and load_chain.
ReadChain(r) ==
  /\ rd[r].at = "idle"
  /\ \E x \in Paths :
       rd' = [rd EXCEPT ![r] =
                IF ~parse_path(x) THEN Ended("malformedPath")
                ELSE IF chain = NoChain THEN Ended("chainAbsent")
                ELSE [NoBlobRead EXCEPT !.at = "index", !.path = x, !.tip = chain.tip,
                                        !.chain = chain]]
  /\ UNCHANGED <<vars, cache>>

\* What follows from walk_path.
Walked(r, found) ==
  CASE found = "absent" -> ReadEnds(r, "pathNotFound")
    [] found = "tree"   -> ReadEnds(r, "pathNotABlob")
    [] OTHER            -> rd' = [rd EXCEPT ![r].at = "scan", ![r].blob = found]

\* Mutant: no comparison of the two tips (before issue #114).
ReadIndexUnchecked(r) ==
  /\ rd[r].at = "index"
  /\ CASE index = None -> ReadEnds(r, "indexAbsent")
       [] OTHER          -> Walked(r, IndexAt[index][rd[r].path])
  /\ UNCHANGED <<vars, cache>>

\* load_path_index, the comparison of the two tips, walk_path.
ReadIndex(r) ==
  /\ rd[r].at = "index"
  /\ CASE index = None -> ReadEnds(r, "indexAbsent")
       [] index \notin {None, rd[r].tip} -> ReadEnds(r, "mismatch")
       [] OTHER                          -> Walked(r, IndexAt[index][rd[r].path])
  /\ UNCHANGED <<vars, cache>>

\* The index of a segment is known: its entry, or on to the next segment.
LookUp(r) ==
  rd' = IF rd[r].blob \in BlobsIn(Cursor(r)) THEN [rd EXCEPT ![r].at = "entry"]
        ELSE [rd EXCEPT ![r].at = "scan", ![r].pos = @ + 1]

\* read_object_from_chain and the cache lookup of load_index.
ReadScan(r) ==
  /\ rd[r].at = "scan"
  /\ IF rd[r].pos > Len(rd[r].chain.segs) THEN ReadEnds(r, "notInChain") /\ UNCHANGED cache
     ELSE IF Cursor(r) \in cache.map THEN LookUp(r) /\ cache' = Touch(cache, Cursor(r))
     ELSE rd' = [rd EXCEPT ![r].at = "idx"] /\ UNCHANGED cache
  /\ UNCHANGED vars

\* load_index after a miss: the GET, and the insert.
ReadIdx(r) ==
  /\ rd[r].at = "idx"
  /\ IF Cursor(r) \in objs THEN LookUp(r) /\ cache' = Insert(cache, Cursor(r))
     ELSE rd' = [rd EXCEPT ![r].at = "reload"] /\ UNCHANGED cache
  /\ UNCHANGED vars

\* fetch_entry_bytes, decode_entry and the hash check: the pack is immutable,
\* so that its requests either all find it or the last one does not.
ReadEntry(r) ==
  /\ rd[r].at = "entry"
  /\ IF Cursor(r) \in objs THEN ReadEnds(r, "ok") ELSE rd' = [rd EXCEPT ![r].at = "reload"]
  /\ UNCHANGED <<vars, cache>>

\* read_with_pack_missing_retries: the path index is not read again.
ReadReload(r) ==
  /\ rd[r].at = "reload"
  /\ CASE chain = NoChain -> ReadEnds(r, "chainAbsent")
       [] Cursor(r) \in Segments(chain) -> ReadEnds(r, "packMissing")
       [] OTHER -> IF rd[r].tries = MaxRetries THEN ReadEnds(r, "exhausted")
                   ELSE rd' = [rd EXCEPT ![r].at = "scan", ![r].chain = chain, ![r].pos = 1,
                                         ![r].tries = @ + 1]
  /\ UNCHANGED <<vars, cache>>

ReadStep(r) ==
  \/ ReadChain(r) \/ ReadIndex(r) \/ ReadScan(r) \/ ReadIdx(r) \/ ReadEntry(r) \/ ReadReload(r)

-----------------------------------------------------------------------------

ReadInit ==
  /\ Init
  /\ cache = EmptyCache
  /\ rd = [r \in Readers |-> NoBlobRead]

ReadNext ==
  \/ Next /\ UNCHANGED readVars
  \/ \E r \in Readers : ReadStep(r)

ReadSpec == ReadInit /\ [][ReadNext]_allVars

-----------------------------------------------------------------------------
(* Properties.                                                             *)

\* The cache never exceeds its budget and never loses count of it: its map,
\* its order and its total agree, although readers look up and insert the
\* same index in any order and evictions come in between.
CacheConsistent ==
  /\ Range(cache.order) = cache.map
  /\ Len(cache.order) = Cardinality(cache.map)
  /\ cache.total = BytesOf(cache.map)
  /\ cache.total <= Capacity

\* A read that succeeds, or that says the path does not exist, speaks of the
\* tip that the chain had when the read began: chain.json and path-index.json
\* are two requests, and a writer may be between its two writes (issue #114),
\* and the index has what git finds at the path, submodules apart.  And
\* BlobNotInChain is no race: pushes, compactions and sweeps that take packs
\* from under a read never make it miss the blob (issue #136), unless the
\* chain it was retried against was rewound behind the tip it had resolved
\* the path at.
ReadIsTip ==
  [][ \A r \in Readers :
        LET ends(result) == rd[r].at # "done" /\ rd'[r].res = result IN
        /\ ends("ok") => rd[r].blob = BlobAt[rd[r].tip][rd[r].path]
        /\ ends("pathNotFound") => BlobAt[rd[r].tip][rd[r].path] = None
        /\ ends("notInChain") => ~FastForward([tip |-> rd[r].tip], rd[r].chain.tip)
    ]_allVars

\* An object is read from its pack wherever its entry is, the last one too,
\* and whatever it is a delta of, up to the depth that MAX_DELTA_DEPTH
\* names; deeper chains are refused, and cycles with them (issue #83).  A
\* delta decodes to the text it was made for, with operands of any size, the
\* default among them, and one that has lost an operation is refused
\* (apply_delta).
EntryDecodes == \A r \in Readers : rd[r].at = "entry" => PacksDecode /\ DeltasDecode
=============================================================================
