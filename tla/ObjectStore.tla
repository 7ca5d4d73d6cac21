----------------------------- MODULE ObjectStore ------------------------------
(***************************************************************************)
(* The object-store trait as its two backends implement it over their      *)
(* services (object_store/mod.rs, s3.rs, azure.rs, multipart.rs): uploads  *)
(* in one request or in parts, downloads in one request or in ranges,      *)
(* conditional creation, copy, deletion, ranged reads.  Several processes  *)
(* call it at once and any request may fail, before or after it has taken  *)
(* effect.                                                                 *)
(*                                                                         *)
(* Bodies are measured in parts: an object is the sequence of the parts it *)
(* was put together from.  Upload parts and download ranges have the same  *)
(* size here; in the code both are 16 MiB.                                 *)
(***************************************************************************)
EXTENDS Integers, Sequences

CONSTANTS Tasks, Keys, Bodies,
          Size,          \* the number of parts of each body
          Backends,      \* the backends a bucket may have
          PutThreshold,  \* MULTIPART_PUT_THRESHOLD, in parts
          GetThreshold,  \* MULTIPART_THRESHOLD, in parts
          None,
          MaxOps,        \* bound: operations, and requests refused without one
          MaxFaults      \* bound: failed requests and killed processes

\* A part of a body, or none; what a key may hold.
Pieces     == (Bodies \X Nat) \cup {None}
ObjectType == [parts : Seq(Pieces), ver : 0..MaxOps, blocks : BOOLEAN]

ASSUME StoreAssumption ==
  /\ None \notin Keys \cup Bodies \cup ObjectType \cup Seq(Pieces)
  /\ Size \in [Bodies -> Nat]
  /\ Backends \subseteq {"s3", "azure"}
  /\ PutThreshold \in Nat \ {0} /\ GetThreshold \in Nat \ {0}
  /\ MaxOps \in Nat /\ MaxFaults \in Nat

VARIABLES
  backend,
  obj,      \* the service: the object of each key
  uploads,  \* the service: open multipart uploads (S3)
  aborting, \* uploads that a detached task of a guard is about to abort
  staged,   \* the service: uncommitted blocks of each key (Azure)
  op,       \* per task: the operation it is in, or its last one
  file,     \* per task: the destination of get_to_file
  chan,     \* per task: parts reported to the progress sink
  ops, faults,
  seen,     \* history, per task: what the key held during the operation
  created,  \* history, per key: who was told that it has created the object there is
  orphans,  \* history: uploads whose process had no chance to abort them
  shared    \* history: keys whose staged blocks came from two tasks at once

service == <<backend, obj, uploads, staged>>
history == <<orphans, shared>>
storeVars == <<service, aborting, op, file, chan, ops, faults, seen, created, history>>

-----------------------------------------------------------------------------
(* Bodies, parts and plans.                                                *)

Content(b) == [i \in 1..Size[b] |-> <<b, i>>]

\* blocks: put together from blocks, which Azure keeps by name.
Object(parts, ver, blocks) == [parts |-> parts, ver |-> ver, blocks |-> blocks]

\* should_use_multipart.
should_use_multipart(n) == n >= PutThreshold

\* plan_upload_parts and plan_ranges: the parts of a body of n.
Parts(n) == 1..n

\* The ETag: S3 derives it from the content, Azure from the write.
Etag(o) == IF backend = "s3" THEN <<0, o.parts>> ELSE <<o.ver, <<>>>>

Bytes(o) == IF o = None THEN None ELSE o.parts

Whole(parts) == \E b \in Bodies : parts = Content(b)

-----------------------------------------------------------------------------

Idle == [kind |-> "none", at |-> "idle", id |-> 0, key |-> None, to |-> None, parts |-> <<>>,
         done |-> <<>>, ends |-> <<0, 0>>, etag |-> <<0, <<>>>>, tries |-> 0, res |-> "none"]

Kinds  == {"put", "get", "copy", "absent", "delete", "range", "lfsput", "lfsget"}
Stages == {"idle", "head", "single", "create", "parts", "complete", "abort", "getone", "ranges",
           "copyone", "absent", "delete", "range"}

Running(t) == op[t].at # "idle"

Results == {"none", "ok", "error", "notfound", "changed", "range", "skipped", "true", "false",
            "cancelled", "killed"}

\* done: parts with their numbers; ends: those of a range that was read;
\* tries: the operation, or the SDK with its request, is at its second attempt.
OpType ==
  [kind : Kinds \cup {"none"}, at : Stages, id : 0..MaxOps, key : Keys \cup {None},
   to : Keys \cup {None}, parts : Seq(Pieces), done : Seq(Nat \X Pieces), ends : Nat \X Nat,
   etag : Nat \X Seq(Pieces), tries : 0..1, res : Results]

\* Types of the store.
StoreTypeOK ==
  /\ backend \in Backends
  /\ obj \in [Keys -> ObjectType \cup {None}]
  /\ uploads \subseteq (1..ops) \X {0, 1}
  /\ aborting \subseteq (1..ops) \X {0, 1}
  /\ op \in [Tasks -> OpType] /\ chan \in [Tasks -> Nat]
  /\ ops \in 0..MaxOps /\ faults \in 0..MaxFaults
  /\ orphans \subseteq (1..ops) \X {0, 1} /\ shared \subseteq Keys
  /\ created \in [Keys -> SUBSET Tasks]
  /\ backend = "azure" => uploads = {}

StoreInit ==
  /\ backend \in Backends
  /\ obj = [k \in Keys |-> None]
  /\ uploads = {} /\ aborting = {}
  /\ staged = [k \in Keys |-> <<>>]
  /\ op = [t \in Tasks |-> Idle]
  /\ file = [t \in Tasks |-> None]
  /\ chan = [t \in Tasks |-> 0]
  /\ ops = 0 /\ faults = 0
  /\ seen = [t \in Tasks |-> {}]
  /\ created = [k \in Keys |-> {}]
  /\ orphans = {} /\ shared = {}

Fault == faults < MaxFaults /\ faults' = faults + 1

\* What the key held while a download, a copy or a conditional put ran is
\* remembered.
TrackSeen ==
  seen' = [t \in Tasks |->
             IF op[t].at = "idle" /\ op'[t].at = "idle" THEN seen[t]
             ELSE IF op'[t].kind \notin {"get", "lfsget", "copy", "absent"} THEN {}
             ELSE LET k == IF op[t].at = "idle" THEN op'[t].key ELSE op[t].key
                  IN (IF op[t].at = "idle" THEN {} ELSE seen[t]) \cup {Bytes(obj[k]), Bytes(obj'[k])}]

\* So are the callers of put_if_absent that were told "true", for as long as
\* the key holds an object.
TrackCreated ==
  created' = [k \in Keys |->
                (IF obj'[k] = None THEN {} ELSE created[k])
                \cup {t \in Tasks : /\ op[t].at = "absent" /\ op[t].key = k
                                   /\ op'[t].at = "idle" /\ op'[t].res = "true"}]

Track == TrackSeen /\ TrackCreated

Goto(t, stage)  == op' = [op EXCEPT ![t].at = stage]

\* The operation returns: its result, and what it read or wrote.
FinishWith(t, res, parts, ends) ==
  op' = [op EXCEPT ![t] = [Idle EXCEPT !.kind = op[t].kind, !.res = res, !.parts = parts, !.ends = ends]]
Finish(t, res)  == FinishWith(t, res, <<>>, <<0, 0>>)
Wrote(t, parts) == FinishWith(t, "ok", parts, <<0, 0>>)

\* ProgressSink::report: only the LFS agent passes a sink.
Report(t, n) ==
  chan' = IF op[t].kind \in {"lfsput", "lfsget"} THEN [chan EXCEPT ![t] = @ + n] ELSE chan

\* A write takes effect: the version is new.
Write(t, k, parts) ==
  obj' = [obj EXCEPT ![k] =
            IF backend = "s3" THEN Object(parts, 0, FALSE)
            ELSE Object(parts, op[t].id, op[t].at = "complete")]

-----------------------------------------------------------------------------
(* Begin.  put_bytes and put_path: one request below the threshold; in the *)
(* S3 backend an upload id first, in Azure blocks right away.              *)

PutStage(n) ==
  IF ~should_use_multipart(n) THEN "single"
  ELSE IF backend = "s3" THEN "create" ELSE "parts"

Begin(t, kind, k, to, b) ==
  /\ ~Running(t) /\ ops < MaxOps
  /\ ops' = ops + 1
  /\ op' = [op EXCEPT ![t] =
       [Idle EXCEPT !.kind = kind, !.id = ops + 1, !.key = k, !.to = to,
                    !.parts = IF b = None THEN <<>> ELSE Content(b),
                    !.at = CASE kind = "put"                             -> PutStage(Size[b])
                             [] kind = "delete" /\ backend = "azure"     -> "delete"
                             [] kind \in {"absent", "range"}             -> kind
                             [] OTHER                                    -> "head"]]
  /\ chan' = [chan EXCEPT ![t] = 0]
  /\ file' = [file EXCEPT ![t] = None]
  /\ UNCHANGED <<service, aborting, faults, history>>

-----------------------------------------------------------------------------
(* Uploads.                                                                *)

At(t, stage) == op[t].at = stage

\* The parts that stream out of the body; a copy takes them from its source.
Target(t) == IF op[t].to = None THEN op[t].key ELSE op[t].to

\* put_body, Put Blob: the object changes at once, uncommitted blocks of the
\* key are gone, and the whole size is reported.  A failed request may have
\* taken effect.
PutSingle(t) ==
  /\ At(t, "single")
  /\ \/ /\ Write(t, Target(t), op[t].parts)
        /\ staged' = [staged EXCEPT ![Target(t)] = <<>>]
        /\ \/ Wrote(t, op[t].parts) /\ Report(t, Len(op[t].parts)) /\ UNCHANGED faults
           \/ Fault /\ Finish(t, "error") /\ UNCHANGED chan
     \/ Fault /\ Finish(t, "error") /\ UNCHANGED <<obj, staged, chan>>
  /\ UNCHANGED <<backend, uploads, aborting, file, ops, history>>

\* A request has no answer: the SDK sends it once more, or gives up.
Unanswered(t) ==
  /\ Fault
  /\ \/ Finish(t, "error")
     \/ op[t].tries = 0 /\ op' = [op EXCEPT ![t].tries = 1]

\* Each request that the service carries out opens an upload of its own.
UploadId(t) == <<op[t].id, op[t].tries>>

\* start_multipart_upload.  When the answer is lost nobody knows the id, and
\* the operation goes on, if it does, with the upload of the next request.
CreateUpload(t) ==
  /\ At(t, "create")
  /\ \/ /\ uploads' = uploads \cup {UploadId(t)}
        /\ \/ Goto(t, "parts") /\ UNCHANGED <<faults, orphans>>
           \/ Unanswered(t) /\ orphans' = orphans \cup {UploadId(t)}
     \/ Unanswered(t) /\ UNCHANGED <<uploads, orphans>>
  /\ UNCHANGED <<backend, obj, staged, aborting, file, chan, ops, shared>>

\* Another task is staging other bytes for the same key.
Contended(t) ==
  \E u \in Tasks \ {t} : /\ op[u].at \in {"parts", "complete"} /\ Target(u) = Target(t)
                         /\ op[u].parts # op[t].parts

\* Every part of a server-side copy names the ETag of the source.
SourceUnchanged(t) ==
  op[t].kind # "copy" \/ (obj[op[t].key] # None /\ Etag(obj[op[t].key]) = op[t].etag)

PartBody(t, i) ==
  IF op[t].kind = "copy" /\ backend = "s3"
  THEN (IF i \in DOMAIN obj[op[t].key].parts THEN obj[op[t].key].parts[i] ELSE None)
  ELSE op[t].parts[i]

\* A block of an Azure blob is named by its index alone, so that two writers
\* of one key fill the same list.
StageBlock(t, i) ==
  staged' = [staged EXCEPT ![Target(t)] =
               [j \in DOMAIN @ \cup {i} |-> IF j = i THEN op[t].parts[i] ELSE @[j]]]

\* upload_parts_*, stage_blocks_*: one task per part, in any order.  Any
\* failure ends the upload; S3 is told to abort.
UploadPart(t, i) ==
  /\ At(t, "parts")
  /\ i \in Parts(Len(op[t].parts)) /\ \A j \in DOMAIN op[t].done : op[t].done[j][1] # i
  /\ \/ /\ SourceUnchanged(t) \/ backend = "azure"
        /\ LET done == Append(op[t].done, <<i, PartBody(t, i)>>)
           IN op' = [op EXCEPT ![t].done = done,
                               ![t].at = IF Len(done) = Len(op[t].parts) THEN "complete" ELSE "parts"]
        /\ IF backend = "s3" THEN UNCHANGED staged ELSE StageBlock(t, i)
        /\ shared' = IF backend = "azure" /\ Contended(t)
                     THEN shared \cup {Target(t)} ELSE shared
        /\ Report(t, 1)
        /\ UNCHANGED faults
     \/ /\ \/ Fault
           \/ ~SourceUnchanged(t) /\ backend = "s3" /\ UNCHANGED faults
        /\ IF backend = "s3" THEN Goto(t, "abort") ELSE Finish(t, "error")
        /\ UNCHANGED <<staged, shared, chan>>
  /\ UNCHANGED <<backend, obj, uploads, aborting, file, ops, orphans>>

\* Mutant: the parts are completed in the order in which they arrived.
CompletedUnsorted(t) == [j \in DOMAIN op[t].done |-> op[t].done[j][2]]

\* join_completed_parts sorts the parts by number; join_staged_blocks keeps
\* a slot for each.
Completed(t) ==
  [i \in DOMAIN op[t].done |->
     op[t].done[CHOOSE j \in DOMAIN op[t].done : op[t].done[j][1] = i][2]]

\* commit_block_list names the blocks "latest": the uncommitted block of
\* that name, or else the committed one.
Latest(k, i) ==
  IF i \in DOMAIN staged[k] THEN staged[k][i]
  ELSE IF obj[k] # None /\ obj[k].blocks /\ i \in DOMAIN obj[k].parts
       THEN obj[k].parts[i] ELSE None

\* MultipartUploadGuard::drop: the abort is a task of its own, which nobody
\* waits for.
Detach(t) == aborting' = aborting \cup ({UploadId(t)} \cap uploads)

\* finish_multipart_upload.  When completion fails, or is repeated after its
\* answer was lost and finds no such upload, the armed guard is dropped.
CompleteUpload(t) ==
  /\ At(t, "complete") /\ backend = "s3"
  /\ \/ /\ Write(t, Target(t), Completed(t))
        /\ uploads' = uploads \ {UploadId(t)}
        /\ \/ Wrote(t, Completed(t)) /\ UNCHANGED faults
           \/ Fault /\ Finish(t, "error")
        /\ UNCHANGED aborting
     \/ Fault /\ Finish(t, "error") /\ Detach(t) /\ UNCHANGED <<obj, uploads>>
  /\ UNCHANGED <<backend, staged, file, chan, ops, history>>

CommitBlocks(t) ==
  /\ At(t, "complete") /\ backend = "azure"
  /\ LET k    == Target(t)
         list == [i \in Parts(Len(op[t].parts)) |-> Latest(k, i)]
     IN \/ /\ \A i \in DOMAIN list : list[i] # None
           /\ Write(t, k, list)
           /\ staged' = [staged EXCEPT ![k] = <<>>]
           /\ \/ Wrote(t, list) /\ UNCHANGED faults
              \/ Fault /\ Finish(t, "error")
        \/ /\ \E i \in DOMAIN list : list[i] = None
           /\ Finish(t, "error") /\ UNCHANGED <<obj, staged, faults>>
        \/ Fault /\ Finish(t, "error") /\ UNCHANGED <<obj, staged>>
  /\ UNCHANGED <<backend, uploads, aborting, file, chan, ops, history>>

\* Mutant: the guard is disarmed and the abort forgotten.
AbortForgotten(t) ==
  /\ At(t, "abort")
  /\ Finish(t, "error")
  /\ UNCHANGED <<service, aborting, file, chan, ops, faults, history>>

\* The abort after a failed part is awaited; when it fails too the upload
\* stays behind, with a warning.
AbortUpload(t) ==
  /\ At(t, "abort")
  /\ \/ uploads' = uploads \ {UploadId(t)} /\ UNCHANGED <<faults, orphans>>
     \/ Fault /\ orphans' = orphans \cup {UploadId(t)} /\ UNCHANGED uploads
  /\ Finish(t, "error")
  /\ UNCHANGED <<backend, obj, staged, aborting, file, chan, ops, shared>>

\* The detached task reclaims the upload, or fails with a warning, or ends
\* with its process before it has sent the request.
AbortDetached(u) ==
  /\ u \in aborting /\ aborting' = aborting \ {u}
  /\ \/ uploads' = uploads \ {u} /\ UNCHANGED orphans
     \/ orphans' = orphans \cup {u} /\ UNCHANGED uploads
  /\ UNCHANGED <<backend, obj, staged, op, file, chan, ops, faults, shared>>

-----------------------------------------------------------------------------
(* Downloads, copies and the small operations.                             *)

\* Mutant: whatever head answers but "not found" means that the object is there.
HeadFailsLenient(t) == Finish(t, IF op[t].kind = "lfsput" THEN "skipped" ELSE "error")

\* head fails with anything but "not found".
HeadFails(t) == Finish(t, "error")

\* The key is not there: the LFS agent uploads, everybody else is told.
HeadMissing(t) ==
  IF op[t].kind = "lfsput" THEN Goto(t, PutStage(Len(op[t].parts))) ELSE Finish(t, "notfound")

\* The size and the ETag of this moment decide how the operation goes on.
Looked(t, o, stage) ==
  op' = [op EXCEPT ![t].etag = Etag(o), ![t].parts = o.parts, ![t].done = <<>>, ![t].at = stage]

\* copy in the S3 backend: one request, or part by part.
StartCopy(t, o) ==
  Looked(t, o, IF should_use_multipart(Len(o.parts)) THEN "create" ELSE "copyone")

\* head_then_download; Azure's copy is a download and an upload.
StartDownload(t, o) ==
  Looked(t, o, IF backend = "s3" /\ Len(o.parts) > GetThreshold THEN "ranges" ELSE "getone")

\* An empty object is not fetched; the LFS agent does not upload what is
\* there.
HeadFound(t, o) ==
  LET k     == op[t].kind
      empty == k \in {"get", "lfsget"} /\ o.parts = <<>>
  IN
  /\ CASE k = "lfsput"                   -> Finish(t, "skipped")
       [] k = "delete"                   -> Goto(t, "delete")
       [] k = "copy" /\ backend = "s3"   -> StartCopy(t, o)
       [] empty                          -> Finish(t, "ok")
       [] OTHER                          -> StartDownload(t, o)
  /\ file' = IF empty THEN [file EXCEPT ![t] = <<>>] ELSE file

HeadObject(t) ==
  LET o == obj[op[t].key] IN
  /\ At(t, "head")
  /\ \/ o = None /\ HeadMissing(t) /\ UNCHANGED <<file, faults>>
     \/ o # None /\ HeadFound(t, o) /\ UNCHANGED faults
     \/ Fault /\ HeadFails(t) /\ UNCHANGED file
  /\ UNCHANGED <<service, aborting, chan, ops, history>>

\* Mutant: the ranges of a download do not name the version.
SameAny(t) == TRUE

\* Each GET carries If-Match.
SameVersion(t) == Etag(obj[op[t].key]) = op[t].etag

\* A request of the attempt fails: gone, changed (one more attempt, from
\* head), or a fault.  Progress that was reported stays reported.
GetFails(t) ==
  \/ obj[op[t].key] = None /\ Finish(t, "notfound") /\ UNCHANGED faults
  \/ /\ obj[op[t].key] # None /\ ~SameVersion(t)
     /\ IF op[t].tries = 0 THEN op' = [op EXCEPT ![t].at = "head", ![t].tries = 1]
        ELSE Finish(t, "changed")
     /\ UNCHANGED faults
  \/ Fault /\ Finish(t, "error")

\* persist_temp: the destination changes once the temporary file is whole.
\* Azure's copy uploads it instead.
Persist(t, parts) ==
  IF op[t].kind = "copy"
  THEN op' = [op EXCEPT ![t].parts = parts, ![t].done = <<>>, ![t].at = PutStage(Len(parts))] /\ UNCHANGED file
  ELSE Finish(t, "ok") /\ file' = [file EXCEPT ![t] = parts]

\* download_single, download_streaming.
GetOne(t) ==
  /\ At(t, "getone")
  /\ \/ /\ obj[op[t].key] # None /\ SameVersion(t)
        /\ Persist(t, obj[op[t].key].parts)
        /\ Report(t, Len(op[t].parts))
        /\ UNCHANGED faults
     \/ GetFails(t) /\ UNCHANGED <<file, chan>>
  /\ UNCHANGED <<service, aborting, ops, history>>

\* download_multipart: the ranges in any order, each written at its place.
GetRange(t, i) ==
  /\ At(t, "ranges")
  /\ i \in Parts(Len(op[t].parts)) /\ \A j \in DOMAIN op[t].done : op[t].done[j][1] # i
  /\ \/ /\ obj[op[t].key] # None /\ SameVersion(t)
        /\ i \in DOMAIN obj[op[t].key].parts
        /\ LET done == Append(op[t].done, <<i, obj[op[t].key].parts[i]>>)
           IN IF Len(done) < Len(op[t].parts)
              THEN op' = [op EXCEPT ![t].done = done] /\ UNCHANGED file
              ELSE Persist(t, [n \in DOMAIN done |-> done[CHOOSE j \in DOMAIN done : done[j][1] = n][2]])
        /\ Report(t, 1)
        /\ UNCHANGED faults
     \/ GetFails(t) /\ UNCHANGED <<file, chan>>
  /\ UNCHANGED <<service, aborting, ops, history>>

\* CopyObject with x-amz-copy-source-if-match.
CopyOne(t) ==
  /\ At(t, "copyone")
  /\ \/ /\ SourceUnchanged(t)
        /\ Write(t, op[t].to, obj[op[t].key].parts)
        /\ \/ Wrote(t, obj[op[t].key].parts) /\ UNCHANGED faults
           \/ Fault /\ Finish(t, "error")
     \/ ~SourceUnchanged(t) /\ Finish(t, "changed") /\ UNCHANGED <<obj, faults>>
     \/ Fault /\ Finish(t, "error") /\ UNCHANGED obj
  /\ UNCHANGED <<backend, uploads, staged, aborting, file, chan, ops, history>>

\* Mutant: a second request that finds an object takes it for the one that
\* the first has written.
PutIfAbsentOwn(t) ==
  /\ At(t, "absent")
  /\ \/ obj[op[t].key] = None /\ Write(t, op[t].key, op[t].parts) /\ Finish(t, "true") /\ UNCHANGED faults
     \/ obj[op[t].key] # None /\ Finish(t, IF op[t].tries = 1 THEN "true" ELSE "false")
        /\ UNCHANGED <<obj, faults>>
     \/ Unanswered(t) /\ UNCHANGED obj
  /\ UNCHANGED <<backend, uploads, staged, aborting, file, chan, ops, history>>

\* put_if_absent: 412 and 409 are "false".  A request without an answer may
\* have taken effect; the SDK's next one then finds the caller's own object,
\* "false" as well, unless that is gone by then.
PutIfAbsent(t) ==
  /\ At(t, "absent")
  /\ \/ /\ obj[op[t].key] = None /\ Write(t, op[t].key, op[t].parts)
        /\ staged' = [staged EXCEPT ![op[t].key] = <<>>]
        /\ \/ Finish(t, "true") /\ UNCHANGED faults
           \/ Unanswered(t)
     \/ obj[op[t].key] # None /\ Finish(t, "false") /\ UNCHANGED <<obj, staged, faults>>
     \/ Unanswered(t) /\ UNCHANGED <<obj, staged>>
  /\ UNCHANGED <<backend, uploads, aborting, file, chan, ops, history>>

\* delete: S3 has looked with HEAD, Azure's request reports a missing key.
Delete(t) ==
  /\ At(t, "delete")
  /\ \/ /\ obj[op[t].key] # None \/ backend = "s3"
        /\ obj' = [obj EXCEPT ![op[t].key] = None]
        /\ \/ Finish(t, "ok") /\ UNCHANGED faults
           \/ Fault /\ Finish(t, "error")
     \/ obj[op[t].key] = None /\ backend = "azure" /\ Finish(t, "notfound") /\ UNCHANGED <<obj, faults>>
     \/ Fault /\ Finish(t, "error") /\ UNCHANGED obj
  /\ UNCHANGED <<backend, uploads, staged, aborting, file, chan, ops, history>>

\* The ends of ranges, one part past the longest body included.
RangeEnds == UNION {0..(Size[b] + 1) : b \in Bodies}

\* What the service answers to a range of parts [from, to): cut at the end
\* of the object, and 416 past it.
Served(o, from, to) == SubSeq(o.parts, from + 1, IF to < Len(o.parts) THEN to ELSE Len(o.parts))

\* verify_range_response_length.
RangeOk(parts, from, to) == Len(parts) = to - from

\* get_bytes_range, with precheck_range before the request.
GetBytesRange(t, from, to) ==
  /\ At(t, "range")
  /\ LET o    == obj[op[t].key]
         body == Served(o, from, to)
     IN IF from = to THEN Finish(t, "ok") /\ file' = [file EXCEPT ![t] = <<>>] /\ UNCHANGED faults
        ELSE IF from > to THEN Finish(t, "range") /\ UNCHANGED <<file, faults>>
        ELSE \/ o = None /\ Finish(t, "notfound") /\ UNCHANGED <<file, faults>>
             \/ /\ o # None /\ from >= Len(o.parts)
                /\ Finish(t, "range") /\ UNCHANGED <<file, faults>>
             \/ /\ o # None /\ from < Len(o.parts)
                /\ IF RangeOk(body, from, to)
                   THEN FinishWith(t, "ok", <<>>, <<from, to>>)
                        /\ file' = [file EXCEPT ![t] = body]
                   ELSE Finish(t, "range") /\ UNCHANGED file
                /\ UNCHANGED faults
             \/ Fault /\ Finish(t, "error") /\ UNCHANGED file
  /\ UNCHANGED <<service, aborting, chan, ops, history>>

\* The future of the operation is dropped, and its guard with it.
Cancel(t) ==
  /\ Running(t) /\ Fault
  /\ Finish(t, "cancelled")
  /\ Detach(t)
  /\ UNCHANGED <<service, file, chan, ops, history>>

\* The process is killed: no guard runs.
Kill(t) ==
  /\ Running(t) /\ Fault
  /\ Finish(t, "killed")
  /\ orphans' = orphans \cup ({UploadId(t)} \cap uploads)
  /\ UNCHANGED <<service, aborting, file, chan, ops, shared>>

StoreStep(t) ==
  \/ PutSingle(t) \/ CreateUpload(t) \/ CompleteUpload(t) \/ CommitBlocks(t) \/ AbortUpload(t)
  \/ \E i \in 1..Len(op[t].parts) : UploadPart(t, i) \/ GetRange(t, i)
  \/ HeadObject(t) \/ GetOne(t) \/ CopyOne(t) \/ PutIfAbsent(t) \/ Delete(t)
  \/ \E from, to \in RangeEnds : GetBytesRange(t, from, to)

-----------------------------------------------------------------------------
(* Properties.                                                             *)

\* Readers see whole bodies only: an object is one body, with its parts in
\* order, whoever wrote it.  In Azure this needs writers that do not stage
\* different blocks for one key at the same time (azure.rs, block_id_for).
WholeObjects ==
  shared = {} => \A k \in Keys : obj[k] = None \/ Whole(obj[k].parts)

\* A download or a copy that succeeds has what the key held at some time
\* while it ran, never a mixture of two versions (the ETag of HEAD on every
\* range, copy_source_if_match on every part; copies in Azure with the
\* proviso of WholeObjects), a ranged read that succeeds returns all of what
\* was asked for, and a download that fails leaves the destination alone.
TransferIsSnapshot ==
  \A t \in Tasks :
    op[t].at = "idle" =>
      CASE op[t].kind \in {"get", "lfsget"} ->
             IF op[t].res = "ok" THEN file[t] \in seen[t] \ {None} ELSE file[t] = None
        [] op[t].kind = "copy" ->
             shared = {} /\ op[t].res = "ok" => op[t].parts \in seen[t]
        [] op[t].kind = "range" ->
             op[t].res = "ok" => Len(file[t]) = op[t].ends[2] - op[t].ends[1]
        [] OTHER -> TRUE

\* One object, one creator: of the callers of put_if_absent that are told
\* "true" there is at most one for the object a key holds, however their
\* requests are repeated and interleaved with deletions, and the lock goes to
\* nobody else.  "false" promises less: the key held an object while the
\* call ran, which may be the caller's own, written by a request whose answer
\* was lost; and a failed call may have created it as well.
CreatedOnce ==
  /\ \A k \in Keys : \A t, u \in created[k] : t = u
  /\ \A t \in Tasks :
       op[t].at = "idle" /\ op[t].kind = "absent" /\ op[t].res = "false" => seen[t] # {None}

\* An upload that is still open belongs to an operation that runs or to a
\* guard that is about to abort it; the exceptions are the ones whose
\* process could not (MultipartUploadGuard).
UploadsReclaimed ==
  \A u \in uploads : \/ u \in aborting \cup orphans
                     \/ \E t \in Tasks : Running(t) /\ UploadId(t) = u

=============================================================================
