------------------------------ MODULE Maintain ------------------------------
(***************************************************************************)
(* git-remote-object-store compact (manage/compact.rs) over the refs of a  *)
(* packchain remote, and the audit that picks the refs (packchain/         *)
(* audit.rs, which doctor runs as well), composed with the pushes, deletes *)
(* and gc of Gc.                                                           *)
(*                                                                         *)
(* The audit works on one listing of the bucket, taken before it GETs the  *)
(* chains.  The compactions follow one another, each under the lock of its *)
(* ref: from there on a compaction is an operation of Gc on the ref.       *)
(***************************************************************************)
EXTENDS Gc

CONSTANTS Compacted,  \* Compacted[p]: the pack of the one segment that compact
                      \* makes of a chain with pack p; p if it has just that
          Long,       \* packs of chains over one of the two thresholds
          MaxOthers   \* bound: an operation of another client than compact is
                      \* one of the first so many

ASSUME CompactedAssumption ==
  /\ Compacted \in [Packs -> Packs]
  /\ \A p \in Packs : Compacted[Compacted[p]] = Compacted[p]
  /\ Long \subseteq Packs
  /\ MaxOthers \in Nat

VARIABLE run        \* a run of compact

allVars == <<vars, run>>

NoRun ==
  [at |-> "idle",
   seen |-> {}, refs |-> {}, orphans |-> {}, dangling |-> {},  \* the audit
   moved |-> {},    \* history: refs whose chain.json was written since the listing
   todo |-> {}, cur |-> None, res |-> "none"]

SetRun(new) == run' = new /\ UNCHANGED <<chain, store, tombs, prep, mark, sweep, stranded, hazards>>

RunEnds(result) == [NoRun EXCEPT !.at = "ended", !.res = result]

\* Done with a ref of the list: compacted, minimal, contended or vanished.
\* CompactOutcome is only printed.
Outcome(r) == [NoRun EXCEPT !.at = "next", !.todo = run.todo \ {r}]

-----------------------------------------------------------------------------
(* resolve_targets.                                                        *)

\* --ref: the named ref and no audit.
CompactOne(r) ==
  /\ run.at = "idle"
  /\ SetRun([run EXCEPT !.at = "next", !.todo = {r}])
  /\ UNCHANGED <<push, pushes, faults>>

\* audit_for_compaction_candidates: the listing, packs and chains.
CompactList ==
  /\ run.at = "idle"
  /\ SetRun([run EXCEPT !.at = "audit", !.seen = list_pack_shas, !.refs = Chains,
                          !.orphans = list_pack_shas])
  /\ UNCHANGED <<push, pushes, faults>>

\* audit_branch.
recommend_compact(p) == p \in Long

pack_present(p) == p \in run.seen

\* load_chains, audit_branch, the packs that no chain names and the chains
\* that name no pack of the listing; a chain that vanished or cannot be
\* fetched is passed over.
AuditChain ==
  /\ run.at = "audit"
  /\ \E r \in run.refs :
       LET rest == [run EXCEPT !.refs = @ \ {r}] IN
       \/ /\ chain[r] = None /\ SetRun(rest) /\ UNCHANGED faults
       \/ /\ Fault /\ SetRun(rest)
       \/ /\ chain[r] # None
          /\ SetRun([rest EXCEPT
               !.todo = IF recommend_compact(chain[r]) THEN @ \cup {r} ELSE @,
               !.orphans = @ \ {chain[r]},
               !.dangling = IF pack_present(chain[r]) THEN @ ELSE @ \cup {r}])
          /\ UNCHANGED faults
  /\ UNCHANGED <<push, pushes>>

\* The operator may refuse the list.
CompactConfirm ==
  /\ run.at = "audit" /\ run.refs = {}
  /\ \/ run.todo = {} /\ SetRun(RunEnds("ok"))
     \/ run.todo # {} /\ SetRun(RunEnds("cancelled"))
     \/ run.todo # {} /\ SetRun([NoRun EXCEPT !.at = "next", !.todo = run.todo])
  /\ UNCHANGED <<push, pushes, faults>>

-----------------------------------------------------------------------------
(* compact_targets_into and, for each ref, compact.                        *)

\* Mutant: a ref that has vanished ends the run (before issue #160).
VanishedFails(r) == RunEnds("failed")

\* ChainAbsent, before the lock or under it.
Vanished(r) == Outcome(r)

\* The chain before the lock: minimal, under the thresholds (which --force
\* passes over), or to be compacted.
CompactLoad ==
  /\ run.at = "next"
  /\ \E r \in run.todo :
       \/ chain[r] = None /\ SetRun(Vanished(r))
       \/ /\ chain[r] # None
          /\ Compacted[chain[r]] = chain[r] \/ ~recommend_compact(chain[r])
          /\ SetRun(Outcome(r))
       \/ /\ chain[r] # None /\ Compacted[chain[r]] # chain[r]
          /\ SetRun([run EXCEPT !.at = "lock", !.cur = r])
  /\ UNCHANGED <<push, pushes, faults>>

\* acquire_lock; compact_under_lock reads the chain again, and compacts
\* whatever it finds.
CompactLock ==
  LET r == run.cur IN
  /\ run.at = "lock"
  /\ \/ /\ push[r].at # "idle" /\ SetRun(Outcome(r)) /\ UNCHANGED <<push, pushes>>
     \/ /\ push[r].at = "idle" /\ chain[r] = None /\ SetRun(Vanished(r)) /\ UNCHANGED <<push, pushes>>
     \/ /\ push[r].at = "idle" /\ chain[r] # None /\ pushes < MaxPushes
        /\ SetRun([run EXCEPT !.at = "work"])
        /\ pushes' = pushes + 1
        /\ push' = [push EXCEPT ![r] = [at |-> "pack", n |-> pushes', sha |-> Compacted[chain[r]],
                                        prior |-> chain[r], todo |-> {}]]
  /\ UNCHANGED faults

\* upload_pack_idx_baseline: compact uploads under the lock.
CompactUpload(r) ==
  /\ \/ /\ push[r].at = "pack" /\ UploadPack(push[r].sha)
        /\ push' = [push EXCEPT ![r].at = "bundle"]
     \/ /\ push[r].at = "bundle" /\ UploadBundle(r, push[r].sha)
        /\ push' = [push EXCEPT ![r].at = "commit"]
  /\ UNCHANGED <<chain, tombs, prep, mark, sweep, pushes, faults, stranded>>

\* All refs have had their turn; gc follows if it was asked for (Gc).
CompactDone ==
  /\ run.at = "next" /\ run.todo = {}
  /\ SetRun(RunEnds("ok"))
  /\ UNCHANGED <<push, pushes, faults>>

\* Any other error ends the run.
CompactFails ==
  /\ run.at \in {"next", "lock"} /\ Fault
  /\ SetRun(RunEnds("failed"))
  /\ UNCHANGED <<push, pushes>>

\* A step of the operation on r: the compaction goes on when it was its own.
Follow(r) ==
  IF run.at = "work" /\ run.cur = r /\ push'[r].at = "idle" THEN Outcome(r)
  ELSE IF run.at = "audit" /\ chain'[r] # chain[r] THEN [run EXCEPT !.moved = @ \cup {r}]
  ELSE run

-----------------------------------------------------------------------------

MaintainInit == Init /\ run = NoRun

Operation(r) == (CompactUpload(r) \/ ClientStep(r)) /\ run' = Follow(r)

Dies(r) ==
  /\ PushDies(r)
  /\ run' = IF run.at = "work" /\ run.cur = r THEN RunEnds("failed") ELSE run

CompactStep ==
  \/ AuditChain \/ CompactConfirm \/ CompactLoad \/ CompactLock \/ CompactDone

MaintainNext ==
  \/ \E r \in Branches : pushes < MaxOthers /\ (PushStart(r) \/ DeleteStart(r)) /\ UNCHANGED run
  \/ (\E n \in Pushes : PrepStep(n) \/ PrepDies(n)) /\ UNCHANGED run
  \/ \E r \in Branches : Operation(r) \/ Dies(r)
  \/ (MarkStep \/ (\E w \in Sweepers : SweepStep(w)) \/ GcFails \/ Tick) /\ UNCHANGED run
  \/ CompactList \/ (\E r \in Branches : CompactOne(r))
  \/ CompactStep \/ CompactFails

\* Operations end, time passes, and the operator runs gc mark and gc sweep
\* again and again; compact need not be run.
MaintainFairness ==
  /\ \A r \in Branches : WF_allVars(Operation(r))
  /\ \A n \in Pushes : WF_allVars(PrepStep(n) /\ UNCHANGED run)
  /\ WF_allVars(MarkStep /\ UNCHANGED run)
  /\ \A w \in Sweepers : WF_allVars(SweepStep(w) /\ UNCHANGED run)
  /\ WF_allVars(Tick /\ UNCHANGED run)

MaintainSpec == MaintainInit /\ [][MaintainNext]_allVars /\ MaintainFairness

-----------------------------------------------------------------------------
(* Properties.                                                             *)

\* Without a fault a run of compact never fails: refs that are deleted,
\* pushed to or locked by others between the audit, the first read and the
\* lock cost it no other ref (issue #160).  And what the audit reports is
\* what the listing showed: a dangling reference is a chain that was written
\* after the listing, and so is a chain with a pack that is counted as an
\* orphan.  gc, however it overlaps with the audit, makes no such row, unless
\* a condemned pack was uploaded again.
MaintenanceSound ==
  /\ run.at = "ended" /\ faults = 0 => run.res # "failed"
  /\ "reused" \notin hazards => run.dangling \subseteq run.moved
  /\ run.at = "audit" /\ run.refs = {} /\ faults = 0 =>
       \A r \in Chains : chain[r] \in run.orphans => r \in run.moved
=============================================================================
