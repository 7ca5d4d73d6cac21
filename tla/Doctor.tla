-------------------------------- MODULE Doctor --------------------------------
(***************************************************************************)
(* doctor (manage/doctor.rs, manage/snapshot.rs) on a ref of the bundle    *)
(* engine: one listing, the repair of a ref with several bundles, the      *)
(* repair of HEAD.  Doctor takes no lock: pushes, deletes and sweeps go on *)
(* while it waits for the operator's answers.  The repair of stale locks   *)
(* is in RefLock.                                                          *)
(***************************************************************************)
EXTENDS BundleEngine

CONSTANTS Modes   \* "move": losing bundles are quarantined; "delete": --delete-bundle

ASSUME ModesAssumption == Modes \subseteq {"move", "delete"}

VARIABLES
  head,        \* HEAD: "none", this ref, or the other branch of the repository
  quarantine,  \* bundles copied to <ref>_<uuid>
  doc          \* the doctor run

docVars == <<head, quarantine, doc>>
allVars == <<vars, docVars>>

Off == [at |-> "off", mode |-> "none", objs |-> {}, head |-> "none", snap |-> {}, keep |-> {},
        todo |-> {}, pick |-> "none", existed |-> FALSE, res |-> "none"]

DocSteps == {"off", "analyze", "select", "recheck", "evict", "del", "head", "headcheck", "puthead"}
DocModes == Modes \cup {"none"}
DocHeads == {"none", "ref", "other"}
DocPicks == Shas \cup {"none", "ref", "other"}
Results  == {"none", "ok", "stale", "failed"}

DocType ==
  [at : DocSteps, mode : DocModes, objs : SUBSET Shas, head : DocHeads, snap : SUBSET Shas,
   keep : SUBSET Shas, todo : SUBSET Shas, pick : DocPicks, existed : BOOLEAN, res : Results]

\* Types; HEAD is there exactly when it has a content, and a doctor
\* that is evicting has a keeper that is none of the losers.
DoctorTypeOK ==
  /\ TypeOK
  /\ head \in {"none", "ref", "other"}
  /\ ("HEAD" \in meta) <=> (head # "none")
  /\ quarantine \subseteq Shas
  /\ doc \in DocType
  /\ doc.at \in {"evict", "del"} => doc.keep # {} /\ doc.keep \cap doc.todo = {}

\* A repository in use, or one in which a push could neither tombstone nor
\* delete the bundle it superseded (Untomb), with an unprotected ref.
DoctorInit ==
  /\ Quiet
  /\ bundles \in {b \in SUBSET Shas : \E s, t \in Shas : b \subseteq {s, t}}
  /\ live \in {l \in SUBSET bundles : ~Several(l) /\ (l = {} <=> bundles = {})}
  /\ \A s \in bundles, t \in live : <<s, t>> \in Ancestor
  /\ head \in {"none", "ref", "other"}
  /\ meta = (IF head = "none" THEN {} ELSE {"HEAD"}) \cup {"FORMAT"}
  /\ quarantine = {}
  /\ doc = Off

Done(result) == doc' = [Off EXCEPT !.res = result, !.mode = doc.mode]

-----------------------------------------------------------------------------
(* analyze_objects.                                                        *)

\* run_into: the listing every part of the run works from.
DoctorList(mode) ==
  /\ doc.at = "off" /\ doc.res = "none"
  /\ doc' = [doc EXCEPT !.at = "analyze", !.mode = mode, !.objs = bundles, !.head = head]
  /\ UNCHANGED <<vars, head, quarantine>>

\* The duplicate repair is over: fix_head follows unless is_head_valid on the
\* snapshot.
Proceed(d) ==
  IF d.head = "other" \/ (d.head = "ref" /\ d.snap # {}) THEN Done("ok")
  ELSE doc' = [Off EXCEPT !.at = "head", !.mode = d.mode, !.head = d.head, !.snap = d.snap]

\* classify_into: the tombstoned bundles are no part of the snapshot, and HEAD
\* is read if it was listed.
DoctorAnalyze ==
  /\ doc.at = "analyze"
  /\ LET d == [doc EXCEPT !.objs = {}, !.snap = doc.objs \ Tombstoned,
                          !.head = IF doc.head = "none" THEN "none" ELSE head]
     IN IF Several(d.snap) THEN doc' = [d EXCEPT !.at = "select"] ELSE Proceed(d)
  /\ UNCHANGED <<vars, head, quarantine>>

-----------------------------------------------------------------------------
(* fix_multiple_bundles and evict_losing_bundle.                           *)

\* The operator chooses the bundle to keep, and confirms or declines.
DoctorSelect ==
  /\ doc.at = "select"
  /\ \/ Proceed(doc)
     \/ \E s \in doc.snap : doc' = [doc EXCEPT !.at = "recheck", !.keep = {s}]
  /\ UNCHANGED <<vars, head, quarantine>>

\* The partition of the snapshot's bundles.
Losers == doc.snap \ doc.keep

\* HEAD of the keeper's key: gone means that the snapshot is stale (#155).
DoctorRecheck ==
  /\ doc.at = "recheck"
  /\ IF doc.keep \subseteq bundles
     THEN doc' = [doc EXCEPT !.at = "evict", !.todo = Losers, !.snap = doc.keep]
     ELSE Done("stale")
  /\ UNCHANGED <<vars, head, quarantine>>

\* Mutant: the copy is skipped.
QuarantineSkipped(s) == UNCHANGED quarantine

Quarantine(s) == quarantine' = quarantine \cup {s}

\* A loser is copied to a ref of its own, unless --delete-bundle is given; one
\* that has gone meanwhile is passed over.
DoctorEvict ==
  /\ doc.at = "evict"
  /\ \/ /\ doc.todo = {} /\ Proceed(doc) /\ UNCHANGED quarantine
     \/ \E s \in doc.todo :
          IF doc.mode = "move" /\ s \notin bundles
          THEN doc' = [doc EXCEPT !.todo = @ \ {s}] /\ UNCHANGED quarantine
          ELSE /\ doc' = [doc EXCEPT !.at = "del", !.pick = s]
               /\ IF doc.mode = "move" THEN Quarantine(s) ELSE UNCHANGED quarantine
  /\ UNCHANGED <<vars, head>>

\* The unconditional DELETE; NotFound is success.
DoctorDelete ==
  /\ doc.at = "del"
  /\ bundles' = bundles \ {doc.pick}
  /\ doc' = [doc EXCEPT !.at = "evict", !.todo = @ \ {doc.pick}, !.pick = "none"]
  /\ UNCHANGED <<protected, meta, tombs, lock, client, fetch, gc, ops, faults, history, head, quarantine>>

-----------------------------------------------------------------------------
(* fix_head.                                                               *)

\* The operator chooses among the branches of the snapshot.
DoctorHead ==
  /\ doc.at = "head"
  /\ \E pick \in {"other"} \cup (IF doc.snap # {} THEN {"ref"} ELSE {}) :
       doc' = [doc EXCEPT !.at = "headcheck", !.pick = pick,
                          !.existed = (pick = "other" \/ bundles # {})]
  /\ UNCHANGED <<vars, head, quarantine>>

\* Mutant: the branch is not listed again.
BranchExistsStale == TRUE

\* has_branch_data of a fresh listing (issue #138): tombstoned bundles count.
BranchExists == doc.pick = "other" \/ bundles # {}

DoctorHeadCheck ==
  /\ doc.at = "headcheck"
  /\ IF BranchExists THEN doc' = [doc EXCEPT !.at = "puthead"] ELSE Done("stale")
  /\ UNCHANGED <<vars, head, quarantine>>

DoctorPutHead ==
  /\ doc.at = "puthead"
  /\ head' = doc.pick /\ meta' = meta \cup {"HEAD"}
  /\ Done("ok")
  /\ UNCHANGED <<bundles, protected, tombs, lock, client, fetch, gc, ops, faults, history, quarantine>>

\* Any request may fail: the run ends, and what it has changed stays.
DoctorFails ==
  /\ doc.at \notin {"off", "select", "head"}
  /\ Fault
  /\ Done("failed")
  /\ UNCHANGED <<store, lock, client, fetch, gc, ops, history, head, quarantine>>

DoctorStep ==
  \/ \E mode \in Modes : DoctorList(mode)
  \/ DoctorAnalyze \/ DoctorSelect \/ DoctorRecheck \/ DoctorEvict \/ DoctorDelete
  \/ DoctorHead \/ DoctorHeadCheck \/ DoctorPutHead \/ DoctorFails

\* The others: HEAD is created by the first push, and it is remembered
\* whether the branch a doctor chose had data at some time since.
EngineStep ==
  /\ \/ \E p \in Clients : Begin(p) \/ ClientStep(p) \/ RequestFails(p) \/ Crash(p)
     \/ StaleRecovery \/ SweepStep \/ SweepFails \/ Tick
  /\ head' = IF head = "none" /\ "HEAD" \in meta' THEN "ref" ELSE head
  /\ doc' = [doc EXCEPT !.existed = @ \/ (doc.at \in {"headcheck", "puthead"} /\ bundles' # {})]
  /\ UNCHANGED quarantine

DoctorNext == DoctorStep \/ EngineStep

DoctorSpec == DoctorInit /\ [][DoctorNext]_allVars

-----------------------------------------------------------------------------
(* Properties.                                                             *)

\* The default repair never loses a commit: whichever pushes, deletes and
\* sweeps run while doctor waits for its operator, the value of the ref is
\* in the ref's bundle or in a quarantined copy (evict_losing_bundle: the
\* copy first, the DELETE after it).  A doctor that evicts has a keeper
\* (DoctorTypeOK).
EvictedIsKept ==
  /\ DoctorTypeOK
  /\ hazards = {} /\ doc.mode # "delete" => live \subseteq bundles \cup quarantine

\* HEAD is never set to a branch that was gone from the operator's choice on
\* (issue #138).
HeadNamesBranch ==
  [][ doc.at = "puthead" /\ head' # head => doc.existed ]_allVars
=============================================================================
