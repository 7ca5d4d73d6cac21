---------------------------- MODULE TransferProofs ----------------------------
(***************************************************************************)
(* Proofs about ObjectStore, LfsAgent and GitConfig, for every number of   *)
(* tasks, keys, bodies and parts: uploads and downloads in parts, what     *)
(* git-lfs is told of them, and the configuration that starts its agents.  *)
(***************************************************************************)
EXTENDS LfsAgent, FiniteSetTheorems, TLAPS

LfsKinds == {"lfsput", "lfsget"}
Reads    == {"get", "lfsget"}
Writes   == {"put", "lfsput", "copy"}

\* Where an operation of each kind may be.
StageOK(o, b) ==
  /\ o.at = "head" => o.kind \in {"get", "lfsget", "copy", "delete", "lfsput"}
  /\ o.at = "getone" => o.kind \in Reads \/ (o.kind = "copy" /\ b = "azure")
  /\ o.at = "ranges" => o.kind \in Reads /\ b = "s3"
  /\ o.at = "single" => o.kind \in {"put", "lfsput"} \/ (o.kind = "copy" /\ b = "azure")
  /\ o.at \in {"create", "abort"} => o.kind \in Writes /\ b = "s3"
  /\ o.at \in {"parts", "complete"} => o.kind \in Writes
  /\ o.at = "copyone" => o.kind = "copy" /\ b = "s3"
  /\ o.at \in {"absent", "delete", "range"} => o.kind = o.at

\* Its keys: the LFS object is for the agents, and nothing is copied to it.
KeysOK(o, n) ==
  o.at # "idle" =>
    /\ o.id \in 1..n /\ o.key \in Keys
    /\ (o.kind \in LfsKinds) <=> (o.key = LfsKey)
    /\ IF o.kind = "copy" THEN o.to \in Keys \ {LfsKey} ELSE o.to = None

\* The parts that are done are parts of its body, each once.
DoneOK(o) ==
  /\ o.at \in {"parts", "complete", "ranges"} =>
       /\ \A j \in 1..Len(o.done) : /\ o.done[j][1] \in 1..Len(o.parts)
                                    /\ o.done[j][2] = o.parts[o.done[j][1]]
       /\ \A i, j \in 1..Len(o.done) : o.done[i][1] = o.done[j][1] => i = j
  /\ o.at \in {"parts", "ranges"} => Len(o.done) < Len(o.parts)
  /\ o.at = "complete" => Len(o.done) = Len(o.parts)
  /\ o.at \in {"single", "create"} \/ (o.at = "head" /\ o.kind = "lfsput") => o.done = <<>>
  /\ o.at = "create" => Len(o.parts) > 0

\* What it writes, and the ETag of what it reads in S3.
BodyOK(o, b) ==
  o.at # "idle" =>
    /\ o.kind \in {"put", "absent"} => Whole(o.parts)
    /\ o.kind = "lfsput" => o.parts = Content(LfsBody)
    /\ o.kind = "lfsget" /\ o.at \in {"getone", "ranges"} => o.parts = Content(LfsBody)
    /\ o.kind \in {"get", "lfsget", "copy"} /\ b = "s3" /\ o.at # "head" => o.etag = <<0, o.parts>>

OpOK(t) ==
  StageOK(op[t], backend) /\ KeysOK(op[t], ops) /\ DoneOK(op[t]) /\ BodyOK(op[t], backend)

Uploading == {"parts", "complete", "abort"}

\* Numbers of operations are their own; an upload is open from its first part
\* on, at most, or the answer to the request that has opened it was lost.
IdsOK ==
  /\ \A t, u \in Tasks : Running(t) /\ Running(u) /\ op[t].id = op[u].id => t = u
  /\ \A t \in Tasks, n \in {0, 1} :
       Running(t) /\ op[t].at \notin Uploading /\ (op[t].at = "create" => op[t].tries <= n) =>
         <<op[t].id, n>> \notin uploads

ShapesOK ==
  /\ DOMAIN staged = Keys /\ DOMAIN file = Tasks /\ DOMAIN seen = Tasks
  /\ \A k \in Keys : \A i \in DOMAIN staged[k] : staged[k][i] \in Pieces

StoreInv == TypeOK /\ ShapesOK /\ IdsOK /\ \A t \in Tasks : OpOK(t)

-----------------------------------------------------------------------------
(* Whole objects.                                                          *)

Staging == {"parts", "complete"}

\* Blocks that a task has staged and nobody has overwritten: they are still
\* there, or a rival with the same body has committed them, or they are gone
\* with a write or a delete in between.
PendingOK(t) ==
  LET k == Target(t) IN
  backend = "azure" /\ op[t].at \in Staging /\ k \notin shared =>
    \A j \in 1..Len(op[t].done) :
      Latest(k, op[t].done[j][1]) \in {None, op[t].done[j][2]}

\* What is there, and what is copied, is whole until two tasks stage different
\* bodies for a key; the LFS object always is.
ObjectsOK ==
  /\ shared = {} => \A k \in Keys : obj[k] = None \/ Whole(obj[k].parts)
  /\ shared = {} => \A t \in Tasks :
       op[t].kind = "copy" /\ op[t].at \in {"single", "create", "parts", "complete"} => Whole(op[t].parts)
  /\ LfsKey \notin shared
  /\ obj[LfsKey] = None \/ obj[LfsKey].parts = Content(LfsBody)

WholeInv == StoreInv /\ ObjectsOK /\ \A t \in Tasks : PendingOK(t)

-----------------------------------------------------------------------------
(* Snapshots.                                                              *)

\* The body of a transfer in parts was there while it ran.
SeenOK(t) ==
  /\ /\ op[t].kind \in {"get", "lfsget", "copy"}
     /\ op[t].at \in {"single", "create", "parts", "complete", "ranges", "copyone"}
     => op[t].parts \in seen[t]
  /\ op[t].at # "idle" => file[t] = None

\* What an operation has left behind.
ResultOK(t) ==
  op[t].at = "idle" =>
    /\ op[t].kind \in Reads => IF op[t].res = "ok" THEN file[t] \in seen[t] \ {None} ELSE file[t] = None
    /\ op[t].kind = "copy" /\ shared = {} /\ op[t].res = "ok" => op[t].parts \in seen[t]
    /\ op[t].kind = "range" /\ op[t].res = "ok" => Len(file[t]) = op[t].ends[2] - op[t].ends[1]
    /\ op[t].kind = "absent" /\ op[t].res = "false" => seen[t] # {None}

SnapshotInv == WholeInv /\ \A t \in Tasks : SeenOK(t) /\ ResultOK(t)

-----------------------------------------------------------------------------
(* The agents.                                                             *)

\* Parts that the operation of an agent has reported.
Reported(o) ==
  IF o.at \in {"parts", "complete", "ranges"} THEN Len(o.done)
  ELSE IF o.at = "idle" THEN Size[LfsBody] ELSE 0

\* An agent that is busy owes one answer.
RoleOK(t) ==
  /\ phase[t] = "setup" => role[t] = "none" /\ op[t].kind \notin LfsKinds
  /\ phase[t] \in {"ready", "busy"} => role[t] = "lfs"
  /\ role[t] = "client" => phase[t] = "start" /\ op[t].kind \notin LfsKinds
  /\ role[t] = "lfs" /\ phase[t] # "busy" => op[t].at = "idle"
  /\ role[t] = "none" => op[t].at = "idle"
  /\ phase[t] \in {"setup", "start", "ready"} => asked[t] = completed[t]
  /\ phase[t] = "busy" => asked[t] = completed[t] + 1 /\ op[t].kind \in LfsKinds

\* What it has written adds up, and what it says is there is there.
TransferOK(t) ==
  phase[t] = "busy" =>
    /\ op[t].at \in {"getone", "ranges"} \/ (op[t].at = "idle" /\ op[t].res \in {"ok", "skipped"}) =>
         obj[LfsKey] # None
    /\ op[t].at \notin {"idle", "abort"} \/ (op[t].at = "idle" /\ op[t].res = "ok") =>
         sofar[t] + chan[t] = Reported(op[t])

LastOK(t) ==
  /\ last[t] \in {"ok", "skipped"} => obj[LfsKey] # None
  /\ phase[t] = "ready" /\ last[t] = "ok" => sofar[t] = Size[LfsBody]
  /\ phase[t] \in {"setup", "start"} => last[t] = "none"

AgentOK(t) == RoleOK(t) /\ TransferOK(t) /\ LastOK(t)

AgentInv == WholeInv /\ \A t \in Tasks : AgentOK(t)

-----------------------------------------------------------------------------
(* Bodies and operations.                                                  *)

LEMMA ContentSeq ==
  \A b \in Bodies : Content(b) \in Seq(Pieces) /\ Len(Content(b)) = Size[b]
  BY StoreAssumption DEF Content, Pieces

InOrder(done) == [i \in DOMAIN done |-> done[CHOOSE j \in DOMAIN done : done[j][1] = i][2]]

\* Once all the parts are done, putting them in order gives the body.
LEMMA AllDone ==
  ASSUME NEW parts \in Seq(Pieces), NEW done \in Seq(Nat \X Pieces), Len(done) = Len(parts),
         \A j \in 1..Len(done) : done[j][1] \in 1..Len(parts) /\ done[j][2] = parts[done[j][1]],
         \A i, j \in 1..Len(done) : done[i][1] = done[j][1] => i = j
  PROVE  /\ \A i \in 1..Len(parts) : \E j \in 1..Len(done) : done[j][1] = i
         /\ InOrder(done) = parts
<1> PICK n \in Nat : n = Len(parts)
  OBVIOUS
<1>0. DOMAIN done = 1..n /\ DOMAIN parts = 1..n
  OBVIOUS
<1>1. PICK f : f \in [1..n -> 1..n] /\ \A j \in 1..n : f[j] = done[j][1]
  <2> DEFINE h == [j \in 1..n |-> done[j][1]]
  <2>1. h \in [1..n -> 1..n] /\ \A j \in 1..n : h[j] = done[j][1]
    OBVIOUS
  <2> QED BY <2>1
<1>2. \A i, j \in 1..n : f[i] = f[j] => i = j
  BY <1>1
<1>3. \A i \in 1..n : \E j \in 1..n : done[j][1] = i
  <2>1. f \in Injection(1..n, 1..n)
    BY <1>1, <1>2 DEF Injection, IsInjective
  <2>2. f \in Surjection(1..n, 1..n)
    BY <2>1, FS_Interval, FS_Injection
  <2> SUFFICES ASSUME NEW i \in 1..n PROVE \E j \in 1..n : done[j][1] = i
    OBVIOUS
  <2>3. PICK j \in 1..n : f[j] = i
    BY <2>2 DEF Surjection
  <2>4. f[j] = done[j][1]
    BY <1>1
  <2> QED BY <2>3, <2>4, Zenon
<1> DEFINE pick(i) == CHOOSE j \in DOMAIN done : done[j][1] = i
<1>5. ASSUME NEW i \in 1..n PROVE done[pick(i)][2] = parts[i]
  <2>1. pick(i) \in DOMAIN done /\ done[pick(i)][1] = i
    BY <1>0, <1>3
  <2> QED BY <1>0, <2>1
<1>6. parts = [i \in 1..n |-> parts[i]]
  BY <1>0
<1>7. InOrder(done) = parts
  <2>1. InOrder(done) = [i \in 1..n |-> done[pick(i)][2]]
    BY <1>0 DEF InOrder
  <2>2. \A i \in 1..n : done[pick(i)][2] = parts[i]
    BY <1>5
  <2> HIDE DEF pick
  <2>3. [i \in 1..n |-> done[pick(i)][2]] = [i \in 1..n |-> parts[i]]
    BY <2>2, Zenon
  <2> QED BY <2>1, <2>3, <1>6, Zenon
<1>8. \A i \in 1..Len(parts) : \E j \in 1..Len(done) : done[j][1] = i
  BY <1>3
<1> QED BY <1>7, <1>8

LEMMA IdleOp == Idle \in OpType
<1>1. /\ "none" \in Kinds \cup {"none"} /\ "idle" \in Stages /\ 0 \in 0..MaxOps /\ None \in Keys \cup {None}
      /\ <<>> \in Seq(Pieces) /\ <<>> \in Seq(Nat \X Pieces) /\ <<0, 0>> \in Nat \X Nat
      /\ 0 \in 0..1 /\ "none" \in Results
  BY StoreAssumption DEF Stages, Results
<1>2. <<0, <<>>>> \in Nat \X Seq(Pieces)
  BY <1>1
<1> QED BY <1>1, <1>2, Zenon DEF Idle, OpType

LEMMA OpParts ==
  ASSUME NEW o \in OpType
  PROVE  /\ o.kind \in Kinds \cup {"none"} /\ o.at \in Stages /\ o.id \in 0..MaxOps
         /\ o.key \in Keys \cup {None} /\ o.to \in Keys \cup {None}
         /\ o.parts \in Seq(Pieces) /\ o.done \in Seq(Nat \X Pieces) /\ o.ends \in Nat \X Nat
         /\ o.etag \in Nat \X Seq(Pieces) /\ o.tries \in 0..1 /\ o.res \in Results
  BY DEF OpType

\* The tasks go on with their operations while t has a new one.
Moves(t, s) ==
  /\ op' \in [Tasks -> OpType] /\ op'[t] = s
  /\ \A u \in Tasks : u # t => op'[u] = op[u]

LEMMA Moving ==
  ASSUME op \in [Tasks -> OpType], NEW t \in Tasks, NEW s \in OpType, op' = [op EXCEPT ![t] = s]
  PROVE  Moves(t, s)
  BY DEF Moves

\* An operation that ends.
Ended(t, res, parts) ==
  /\ op' \in [Tasks -> OpType] /\ \A u \in Tasks : u # t => op'[u] = op[u]
  /\ op'[t].at = "idle" /\ op'[t].kind = op[t].kind /\ op'[t].res = res /\ op'[t].parts = parts

LEMMA EndsWith ==
  ASSUME op \in [Tasks -> OpType], NEW t \in Tasks, NEW res \in Results, NEW parts \in Seq(Pieces),
         NEW ends \in Nat \X Nat, FinishWith(t, res, parts, ends)
  PROVE  Ended(t, res, parts) /\ op'[t].ends = ends
<1> PICK i \in OpType : i = Idle
  BY IdleOp
<1>1. i.at = "idle"
  BY DEF Idle
<1>2. op[t].kind \in Kinds \cup {"none"}
  BY OpParts
<1> DEFINE s == [i EXCEPT !.kind = op[t].kind, !.res = res, !.parts = parts, !.ends = ends]
<1>3. s \in OpType /\ s.at = "idle" /\ s.kind = op[t].kind /\ s.res = res /\ s.parts = parts /\ s.ends = ends
  BY <1>1, <1>2 DEF OpType
<1> HIDE DEF s
<1>4. op' = [op EXCEPT ![t] = s]
  BY DEF FinishWith, s
<1> QED BY <1>3, <1>4 DEF Ended

LEMMA Ends ==
  ASSUME op \in [Tasks -> OpType], NEW t \in Tasks, NEW res \in Results, Finish(t, res)
  PROVE  Ended(t, res, <<>>)
<1>1. <<>> \in Seq(Pieces) /\ <<0, 0>> \in Nat \X Nat
  OBVIOUS
<1> QED BY <1>1, EndsWith DEF Finish

\* An operation that goes on to another stage.
LEMMA Goes ==
  ASSUME op \in [Tasks -> OpType], NEW t \in Tasks, NEW stage \in Stages, Goto(t, stage)
  PROVE  /\ op' \in [Tasks -> OpType] /\ \A u \in Tasks : u # t => op'[u] = op[u]
         /\ op'[t] = [op[t] EXCEPT !.at = stage]
         /\ op'[t].at = stage /\ op'[t].kind = op[t].kind /\ op'[t].id = op[t].id
         /\ op'[t].key = op[t].key /\ op'[t].to = op[t].to /\ op'[t].parts = op[t].parts
         /\ op'[t].done = op[t].done /\ op'[t].etag = op[t].etag /\ op'[t].res = op[t].res
         /\ op'[t].tries = op[t].tries
<1> PICK o \in OpType : o = op[t]
  OBVIOUS
<1> DEFINE s == [o EXCEPT !.at = stage]
<1>1. /\ s \in OpType
      /\ s.at = stage /\ s.kind = o.kind /\ s.id = o.id /\ s.key = o.key /\ s.to = o.to
      /\ s.parts = o.parts /\ s.done = o.done /\ s.etag = o.etag /\ s.res = o.res /\ s.tries = o.tries
  BY DEF OpType
<1>2. s = [op[t] EXCEPT !.at = stage]
  OBVIOUS
<1> HIDE DEF s
<1>3. op' = [op EXCEPT ![t] = s]
  BY <1>2 DEF Goto
<1> QED BY <1>1, <1>2, <1>3

-----------------------------------------------------------------------------
(* The steps of an operation.                                              *)

\* What a step of the operation of t leaves of it.
Walks(t) ==
  /\ op' \in [Tasks -> OpType] /\ \A u \in Tasks : u # t => op'[u] = op[u]
  /\ op'[t].kind = op[t].kind
  /\ op'[t].at # "idle" =>
       op'[t].id = op[t].id /\ op'[t].key = op[t].key /\ op'[t].to = op[t].to
  /\ OpOK(t)'

\* A request that is sent once more.
Again(t) ==
  /\ op' \in [Tasks -> OpType] /\ \A u \in Tasks : u # t => op'[u] = op[u]
  /\ op[t].tries = 0 /\ op'[t].tries = 1
  /\ op'[t].at = op[t].at /\ op'[t].kind = op[t].kind /\ op'[t].id = op[t].id
  /\ op'[t].key = op[t].key /\ op'[t].to = op[t].to /\ op'[t].parts = op[t].parts
  /\ op'[t].done = op[t].done /\ op'[t].etag = op[t].etag

LEMMA Unanswers ==
  ASSUME op \in [Tasks -> OpType], NEW t \in Tasks, Unanswered(t)
  PROVE  Ended(t, "error", <<>>) \/ Again(t)
<1>1. CASE Finish(t, "error")
  <2>1. "error" \in Results
    BY DEF Results
  <2> QED BY <1>1, <2>1, Ends
<1>2. CASE op[t].tries = 0 /\ op' = [op EXCEPT ![t].tries = 1]
  <2> PICK o \in OpType : o = op[t]
    OBVIOUS
  <2> DEFINE s == [o EXCEPT !.tries = 1]
  <2>0. 1 \in 0..1
    OBVIOUS
  <2>1. /\ s \in OpType /\ s.tries = 1
        /\ s.at = o.at /\ s.kind = o.kind /\ s.id = o.id /\ s.key = o.key /\ s.to = o.to
        /\ s.parts = o.parts /\ s.done = o.done /\ s.etag = o.etag
    <3>1. s \in OpType
      BY <2>0 DEF OpType
    <3> QED BY <3>1 DEF OpType
  <2>2. s = [op[t] EXCEPT !.tries = 1]
    OBVIOUS
  <2> HIDE DEF s
  <2>3. op' = [op EXCEPT ![t] = s]
    BY <1>2, <2>2
  <2> QED BY <1>2, <2>1, <2>3 DEF Again
<1> QED BY <1>1, <1>2 DEF Unanswered

LEMMA AgainWalks ==
  ASSUME NEW t \in Tasks, Again(t), OpOK(t), UNCHANGED <<backend, ops>>
  PROVE  Walks(t)
<1> PICK o, s : o = op[t] /\ s = op'[t]
  OBVIOUS
<1>0. /\ s.at = o.at /\ s.kind = o.kind /\ s.id = o.id /\ s.key = o.key /\ s.to = o.to
      /\ s.parts = o.parts /\ s.done = o.done /\ s.etag = o.etag
      /\ StageOK(o, backend) /\ KeysOK(o, ops) /\ DoneOK(o) /\ BodyOK(o, backend)
  BY DEF Again, OpOK
<1>1. StageOK(s, backend) /\ KeysOK(s, ops) /\ DoneOK(s) /\ BodyOK(s, backend)
  <2>1. StageOK(s, backend)
    BY <1>0 DEF StageOK
  <2>2. KeysOK(s, ops)
    BY <1>0 DEF KeysOK
  <2>3. DoneOK(s)
    BY <1>0 DEF DoneOK
  <2>4. BodyOK(s, backend)
    BY <1>0 DEF BodyOK
  <2> QED BY <2>1, <2>2, <2>3, <2>4
<1>2. OpOK(t)'
  BY <1>1 DEF OpOK
<1> QED BY <1>2 DEF Again, Walks

LEMMA EndWalks ==
  ASSUME NEW t \in Tasks, NEW res, NEW parts, Ended(t, res, parts)
  PROVE  Walks(t)
  BY DEF Ended, Walks, OpOK, StageOK, KeysOK, DoneOK, BodyOK

\* The facts that the steps start from.
LEMMA Start ==
  ASSUME WholeInv, NEW t \in Tasks
  PROVE  /\ op \in [Tasks -> OpType] /\ op[t] \in OpType /\ backend \in {"s3", "azure"}
         /\ obj \in [Keys -> ObjectType \cup {None}] /\ None \notin ObjectType /\ None \notin Keys
         /\ ops \in 0..MaxOps /\ MaxOps \in Nat /\ uploads \subseteq (1..ops) \X {0, 1}
         /\ chan \in [Tasks -> Nat] /\ PutThreshold \in Nat \ {0}
         /\ DOMAIN staged = Keys /\ DOMAIN file = Tasks /\ DOMAIN seen = Tasks
         /\ StageOK(op[t], backend) /\ KeysOK(op[t], ops) /\ DoneOK(op[t]) /\ BodyOK(op[t], backend)
         /\ obj[LfsKey] = None \/ obj[LfsKey].parts = Content(LfsBody)
  BY StoreAssumption DEF WholeInv, StoreInv, TypeOK, StoreTypeOK, ShapesOK, OpOK, ObjectsOK

\* One more on either side.
LEMMA OneOver == \A n \in Nat, c \in Nat : (n + 1) + c = n + (c + 1)
  OBVIOUS

\* What DoneOK says of one part that is done, and of a stage without any.
LEMMA DonePart ==
  ASSUME NEW o, DoneOK(o), o.at \in {"parts", "complete", "ranges"}, NEW j \in 1..Len(o.done)
  PROVE  o.done[j][1] \in 1..Len(o.parts) /\ o.done[j][2] = o.parts[o.done[j][1]]
  BY DEF DoneOK

LEMMA DoneNone ==
  ASSUME NEW o, DoneOK(o), o.at \in {"single", "create"} \/ (o.at = "head" /\ o.kind = "lfsput")
  PROVE  o.done = <<>>
  BY DEF DoneOK

LEMMA OneMore ==
  ASSUME NEW n \in Nat, NEW c \in Nat
  PROVE  (n + 1) + c = n + (c + 1)
  OBVIOUS

LEMMA TargetKey ==
  ASSUME WholeInv, NEW t \in Tasks, Running(t)
  PROVE  Target(t) \in Keys /\ op[t].key \in Keys
  BY Start DEF Target, KeysOK, Running

LEMMA PutSingleWalks ==
  ASSUME WholeInv, NEW t \in Tasks, PutSingle(t)
  PROVE  Walks(t)
<1>1. op[t].parts \in Seq(Pieces) /\ <<0, 0>> \in Nat \X Nat /\ {"ok", "error"} \subseteq Results
  BY Start, OpParts DEF Results
<1>2. Wrote(t, op[t].parts) => Ended(t, "ok", op[t].parts)
  BY <1>1, Start, EndsWith DEF Wrote
<1>3. Finish(t, "error") => Ended(t, "error", <<>>)
  BY <1>1, Start, Ends
<1> QED BY <1>2, <1>3, EndWalks DEF PutSingle

LEMMA CreateWalks ==
  ASSUME WholeInv, NEW t \in Tasks, CreateUpload(t)
  PROVE  /\ Walks(t)
         /\ \/ op'[t].at = "parts" /\ op'[t].done = <<>> /\ op'[t].tries = op[t].tries
            \/ op'[t].at = "idle" /\ op'[t].res = "error"
            \/ op'[t].at = "create" /\ Again(t)
<1>1. {"parts"} \subseteq Stages /\ "error" \in Results
  BY DEF Results, Stages
<1>2. CASE Goto(t, "parts")
  <2>1. op'[t].at = "parts" /\ op'[t].done = op[t].done /\ op'[t].parts = op[t].parts
    BY <1>1, <1>2, Start, Goes
  <2>2. op[t].at = "create" /\ backend' = backend /\ ops' = ops
    BY DEF CreateUpload, At
  <2>3. op[t].done = <<>> /\ Len(op[t].parts) > 0
    BY <2>2, Start DEF DoneOK
  <2>4. DoneOK(op'[t])
    BY <2>1, <2>3 DEF DoneOK
  <2>a. /\ op' \in [Tasks -> OpType] /\ \A u \in Tasks : u # t => op'[u] = op[u]
        /\ op'[t].kind = op[t].kind /\ op'[t].id = op[t].id /\ op'[t].key = op[t].key
        /\ op'[t].to = op[t].to /\ op'[t].etag = op[t].etag /\ op'[t].tries = op[t].tries
    BY <1>1, <1>2, Start, Goes
  <2>b. StageOK(op[t], backend) /\ KeysOK(op[t], ops) /\ BodyOK(op[t], backend)
    BY Start
  <2> PICK o, s : o = op[t] /\ s = op'[t]
    OBVIOUS
  <2>c. StageOK(s, backend)
    BY <2>1, <2>2, <2>a, <2>b DEF StageOK
  <2>d. KeysOK(s, ops) /\ BodyOK(s, backend)
    BY <2>1, <2>2, <2>a, <2>b DEF KeysOK, BodyOK
  <2>5. OpOK(t)'
    BY <2>2, <2>4, <2>c, <2>d DEF OpOK
  <2>6. Walks(t)
    BY <2>1, <2>2, <2>5, <2>a DEF Walks
  <2> QED BY <2>1, <2>3, <2>6, <2>a
<1>3. CASE Unanswered(t)
  <2>1. op[t].at = "create" /\ UNCHANGED <<backend, ops>> /\ OpOK(t)
    BY DEF CreateUpload, At, WholeInv, StoreInv
  <2>2. Ended(t, "error", <<>>) \/ Again(t)
    BY <1>3, Start, Unanswers
  <2>3. CASE Ended(t, "error", <<>>)
    BY <2>3, EndWalks DEF Ended
  <2>4. CASE Again(t)
    BY <2>1, <2>4, AgainWalks DEF Again
  <2> QED BY <2>2, <2>3, <2>4
<1> QED BY <1>2, <1>3 DEF CreateUpload

LEMMA AbortWalks ==
  ASSUME WholeInv, NEW t \in Tasks, AbortUpload(t)
  PROVE  Walks(t) /\ Ended(t, "error", <<>>)
<1>1. "error" \in Results
  BY DEF Results
<1> QED BY <1>1, Start, Ends, EndWalks DEF AbortUpload

LEMMA CancelWalks ==
  ASSUME WholeInv, NEW t \in Tasks, Cancel(t) \/ Kill(t)
  PROVE  Walks(t) /\ op'[t].at = "idle" /\ op'[t].res \in {"cancelled", "killed"} /\ op'[t].parts = <<>>
<1>1. {"cancelled", "killed"} \subseteq Results
  BY DEF Results
<1> QED BY <1>1, Start, Ends, EndWalks DEF Cancel, Kill, Ended

\* An upload in S3 that is complete has its body.
LEMMA CompletedBody ==
  ASSUME WholeInv, NEW t \in Tasks, op[t].at = "complete"
  PROVE  Completed(t) = op[t].parts
<1>1. /\ op[t].parts \in Seq(Pieces) /\ op[t].done \in Seq(Nat \X Pieces)
      /\ DoneOK(op[t])
  BY Start, OpParts
<1>2. InOrder(op[t].done) = op[t].parts
  BY <1>1, AllDone DEF DoneOK
<1> QED BY <1>2, Zenon DEF Completed, InOrder

LEMMA CompleteWalks ==
  ASSUME WholeInv, NEW t \in Tasks, CompleteUpload(t)
  PROVE  Walks(t) /\ (Ended(t, "ok", op[t].parts) \/ Ended(t, "error", <<>>))
<1>1. op[t].parts \in Seq(Pieces) /\ <<0, 0>> \in Nat \X Nat /\ {"ok", "error"} \subseteq Results
  BY Start, OpParts DEF Results
<1>2. Completed(t) = op[t].parts
  BY CompletedBody DEF CompleteUpload, At
<1>3. Wrote(t, op[t].parts) => Ended(t, "ok", op[t].parts)
  BY <1>1, Start, EndsWith DEF Wrote
<1>4. Finish(t, "error") => Ended(t, "error", <<>>)
  BY <1>1, Start, Ends
<1> QED BY <1>2, <1>3, <1>4, EndWalks DEF CompleteUpload

\* The list that a commit names.
ListOf(t) == [i \in Parts(Len(op[t].parts)) |-> Latest(Target(t), i)]

LEMMA LatestPiece ==
  ASSUME WholeInv, NEW k \in Keys, NEW i
  PROVE  Latest(k, i) \in Pieces
<1>1. i \in DOMAIN staged[k] => staged[k][i] \in Pieces
  BY DEF WholeInv, StoreInv, ShapesOK
<1>2. obj[k] \in ObjectType \cup {None}
  BY DEF WholeInv, StoreInv, TypeOK, StoreTypeOK
<1>3. obj[k] # None /\ i \in DOMAIN obj[k].parts => obj[k].parts[i] \in Pieces
  <2> SUFFICES ASSUME obj[k] # None, i \in DOMAIN obj[k].parts PROVE obj[k].parts[i] \in Pieces
    OBVIOUS
  <2>1. obj[k].parts \in Seq(Pieces)
    BY <1>2 DEF ObjectType
  <2> QED BY <2>1
<1>4. None \in Pieces
  BY DEF Pieces
<1> QED BY <1>1, <1>3, <1>4 DEF Latest

LEMMA ListTyped ==
  ASSUME WholeInv, NEW t \in Tasks, op[t].at = "complete"
  PROVE  ListOf(t) \in Seq(Pieces)
<1> PICK n \in Nat : n = Len(op[t].parts)
  <2>1. op[t].parts \in Seq(Pieces)
    BY Start, OpParts
  <2> QED BY <2>1
<1>1. \A i \in 1..n : Latest(Target(t), i) \in Pieces
  BY LatestPiece, TargetKey DEF Running
<1>2. ListOf(t) = [i \in 1..n |-> Latest(Target(t), i)]
  BY DEF ListOf, Parts
<1> QED BY <1>1, <1>2

LEMMA CommitWalks ==
  ASSUME WholeInv, NEW t \in Tasks, CommitBlocks(t)
  PROVE  Walks(t) /\ (Ended(t, "ok", ListOf(t)) \/ Ended(t, "error", <<>>))
<1>1. ListOf(t) \in Seq(Pieces) /\ <<0, 0>> \in Nat \X Nat /\ {"ok", "error"} \subseteq Results
  BY ListTyped DEF Results, CommitBlocks, At
<1>2. Wrote(t, ListOf(t)) => Ended(t, "ok", ListOf(t))
  BY <1>1, Start, EndsWith DEF Wrote
<1>3. Finish(t, "error") => Ended(t, "error", <<>>)
  BY <1>1, Start, Ends
<1>4. Wrote(t, ListOf(t)) \/ Finish(t, "error")
  BY DEF CommitBlocks, ListOf
<1> QED BY <1>2, <1>3, <1>4, EndWalks

LEMMA CopyOneWalks ==
  ASSUME WholeInv, NEW t \in Tasks, CopyOne(t)
  PROVE  /\ Walks(t)
         /\ \/ Ended(t, "ok", obj[op[t].key].parts) /\ SourceUnchanged(t)
            \/ \E res \in {"error", "changed"} : Ended(t, res, <<>>)
<1>1. <<0, 0>> \in Nat \X Nat /\ {"ok", "error", "changed"} \subseteq Results
  BY DEF Results
<1>2. ASSUME SourceUnchanged(t), Wrote(t, obj[op[t].key].parts) PROVE Ended(t, "ok", obj[op[t].key].parts)
  <2>1. obj[op[t].key].parts \in Seq(Pieces)
    <3>1. op[t].kind = "copy" /\ op[t].key \in Keys
      BY Start DEF CopyOne, At, StageOK, KeysOK
    <3> QED BY <1>2, <3>1, Start DEF SourceUnchanged, ObjectType
  <2> QED BY <1>1, <1>2, <2>1, Start, EndsWith DEF Wrote
<1>3. ASSUME NEW res \in {"error", "changed"}, Finish(t, res) PROVE Ended(t, res, <<>>)
  BY <1>1, <1>3, Start, Ends
<1>4. \/ SourceUnchanged(t) /\ Wrote(t, obj[op[t].key].parts)
      \/ Finish(t, "changed") \/ Finish(t, "error")
  BY DEF CopyOne
<1>5. \/ Ended(t, "ok", obj[op[t].key].parts) /\ SourceUnchanged(t)
      \/ \E res \in {"error", "changed"} : Ended(t, res, <<>>)
  BY <1>2, <1>3, <1>4
<1> QED BY <1>5, EndWalks

LEMMA AbsentWalks ==
  ASSUME WholeInv, NEW t \in Tasks, PutIfAbsent(t)
  PROVE  /\ Walks(t)
         /\ \/ (\E res \in {"true", "false", "error"} : Ended(t, res, <<>>))
            \/ Again(t)
<1>1. {"true", "false", "error"} \subseteq Results
  BY DEF Results
<1>2. CASE Unanswered(t)
  <2>1. UNCHANGED <<backend, ops>> /\ OpOK(t)
    BY DEF PutIfAbsent, WholeInv, StoreInv
  <2> QED BY <1>2, <2>1, Start, Unanswers, AgainWalks, EndWalks
<1>3. ASSUME NEW res \in {"true", "false"}, Finish(t, res) PROVE Walks(t) /\ Ended(t, res, <<>>)
  BY <1>1, <1>3, Start, Ends, EndWalks
<1> QED BY <1>2, <1>3 DEF PutIfAbsent

LEMMA DeleteWalks ==
  ASSUME WholeInv, NEW t \in Tasks, Delete(t)
  PROVE  Walks(t) /\ \E res \in {"ok", "notfound", "error"} : Ended(t, res, <<>>)
<1>1. {"ok", "notfound", "error"} \subseteq Results
  BY DEF Results
<1>2. PICK res \in {"ok", "notfound", "error"} : Finish(t, res)
  BY DEF Delete
<1> QED BY <1>1, <1>2, Start, Ends, EndWalks

LEMMA RangeWalks ==
  ASSUME WholeInv, NEW t \in Tasks, NEW from \in RangeEnds, NEW to \in RangeEnds, GetBytesRange(t, from, to)
  PROVE  Walks(t) /\ \E res \in Results : Ended(t, res, <<>>)
<1>1. {"ok", "range", "notfound", "error"} \subseteq Results /\ <<>> \in Seq(Pieces)
  BY DEF Results
<1>2. <<from, to>> \in Nat \X Nat
  BY StoreAssumption DEF RangeEnds
<1>3. \/ \E res \in {"ok", "range", "notfound", "error"} : Finish(t, res)
      \/ FinishWith(t, "ok", <<>>, <<from, to>>)
  BY DEF GetBytesRange
<1>4. \E res \in Results : Ended(t, res, <<>>)
  BY <1>1, <1>2, <1>3, Start, Ends, EndsWith
<1> QED BY <1>4, EndWalks

\* An upload that starts.
LEMMA PutStarts ==
  ASSUME WholeInv, NEW s \in OpType, s.kind \in Writes, s.at = PutStage(Len(s.parts)), s.done = <<>>,
         s.kind = "copy" => backend = "azure"
  PROVE  /\ StageOK(s, backend) /\ DoneOK(s)
         /\ s.at \in {"single", "create", "parts"} /\ s.at \in Stages
<1>1. s.parts \in Seq(Pieces) /\ backend \in {"s3", "azure"} /\ PutThreshold \in Nat \ {0}
  BY OpParts, StoreAssumption DEF WholeInv, StoreInv, TypeOK, StoreTypeOK
<1>2. Len(s.parts) \in Nat
  BY <1>1
<1>3. /\ s.at \in {"single", "create", "parts"}
      /\ s.at = "create" => backend = "s3" /\ Len(s.parts) > 0
      /\ s.at = "parts" => backend = "azure" /\ Len(s.parts) > 0
  BY <1>1, <1>2 DEF PutStage, should_use_multipart
<1>4. StageOK(s, backend)
  BY <1>1, <1>3 DEF StageOK, Writes
<1>5. DoneOK(s)
  BY <1>2, <1>3 DEF DoneOK
<1> QED BY <1>3, <1>4, <1>5 DEF Stages

LEMMA PutStageStages ==
  ASSUME NEW n PROVE PutStage(n) \in Stages
  BY DEF PutStage, Stages

\* A request that takes the size and the ETag of the object that it finds.
LEMMA Looks ==
  ASSUME WholeInv, NEW t \in Tasks, NEW o \in ObjectType, NEW stage \in Stages, Looked(t, o, stage)
  PROVE  /\ op' \in [Tasks -> OpType] /\ \A u \in Tasks : u # t => op'[u] = op[u]
         /\ op'[t].at = stage /\ op'[t].kind = op[t].kind /\ op'[t].id = op[t].id
         /\ op'[t].key = op[t].key /\ op'[t].to = op[t].to /\ op'[t].parts = o.parts
         /\ op'[t].done = <<>> /\ op'[t].res = op[t].res /\ op'[t].etag = Etag(o)
<1> PICK p \in OpType : p = op[t]
  BY Start
<1>1. o.parts \in Seq(Pieces) /\ o.ver \in Nat /\ <<>> \in Seq(Pieces) /\ <<>> \in Seq(Nat \X Pieces)
  BY StoreAssumption DEF ObjectType
<1>2. Etag(o) \in Nat \X Seq(Pieces)
  BY <1>1 DEF Etag
<1> PICK e \in Nat \X Seq(Pieces) : e = Etag(o)
  BY <1>2
<1> DEFINE s == [p EXCEPT !.etag = e, !.parts = o.parts, !.done = <<>>, !.at = stage]
<1>3. /\ s \in OpType
      /\ s.at = stage /\ s.kind = p.kind /\ s.id = p.id /\ s.key = p.key /\ s.to = p.to
      /\ s.parts = o.parts /\ s.done = <<>> /\ s.etag = e /\ s.res = p.res
  BY <1>1 DEF OpType
<1>4. op'= [op EXCEPT ![t] = s]
  BY DEF Looked
<1> HIDE DEF s
<1> QED BY <1>3, <1>4, Start

\* What a request that looks finds.
LEMMA FoundWalks ==
  ASSUME WholeInv, NEW t \in Tasks, At(t, "head"), NEW o \in ObjectType, obj[op[t].key] = o,
         NEW stage \in {"create", "copyone", "ranges", "getone"}, Looked(t, o, stage),
         UNCHANGED <<backend, ops>>,
         stage \in {"create", "copyone"} => op[t].kind = "copy" /\ backend = "s3",
         stage = "create" => Len(o.parts) > 0,
         stage = "ranges" => op[t].kind \in Reads /\ backend = "s3" /\ Len(o.parts) > 0,
         stage = "getone" => op[t].kind \in Reads \/ (op[t].kind = "copy" /\ backend = "azure")
  PROVE  Walks(t)
<1> PICK s : s = op'[t]
  OBVIOUS
<1>1. /\ stage \in Stages /\ op[t].at = "head"
      /\ StageOK(op[t], backend) /\ KeysOK(op[t], ops) /\ BodyOK(op[t], backend)
      /\ obj[LfsKey] = None \/ obj[LfsKey].parts = Content(LfsBody)
      /\ None \notin ObjectType
  BY Start DEF At, Stages
<1>2. /\ op' \in [Tasks -> OpType] /\ \A u \in Tasks : u # t => op'[u] = op[u]
      /\ s.at = stage /\ s.kind = op[t].kind /\ s.id = op[t].id
      /\ s.key = op[t].key /\ s.to = op[t].to /\ s.parts = o.parts
      /\ s.done = <<>> /\ s.etag = Etag(o)
  BY <1>1, Looks
<1>3. StageOK(s, backend)
  BY <1>2 DEF StageOK, Writes
<1>4. KeysOK(s, ops)
  BY <1>1, <1>2 DEF KeysOK
<1>5. DoneOK(s)
  BY <1>2 DEF DoneOK
<1>6. BodyOK(s, backend)
  <2>1. s.kind = "lfsget" => s.parts = Content(LfsBody)
    BY <1>1, <1>2 DEF KeysOK, LfsKinds
  <2>2. backend = "s3" => s.etag = <<0, s.parts>>
    BY <1>2 DEF Etag
  <2>3. s.kind \notin {"put", "absent", "lfsput"}
    BY <1>1, <1>2 DEF Reads
  <2> QED BY <2>1, <2>2, <2>3 DEF BodyOK
<1> QED BY <1>2, <1>3, <1>4, <1>5, <1>6 DEF Walks, OpOK

\* Where a request that looks leads.
HeadLeads(t) ==
  LET o == obj[op[t].key] IN
  \/ \E res \in {"notfound", "error"} : Ended(t, res, <<>>) /\ UNCHANGED file
  \/ o # None /\ op[t].kind = "lfsput" /\ Ended(t, "skipped", <<>>) /\ UNCHANGED file
  \/ /\ o # None /\ op[t].kind \in Reads /\ o.parts = <<>> /\ Ended(t, "ok", <<>>)
     /\ file' = [file EXCEPT ![t] = <<>>]
  \/ o # None /\ op[t].kind = "delete" /\ Goto(t, "delete") /\ UNCHANGED file
  \/ /\ o = None /\ op[t].kind = "lfsput" /\ Goto(t, PutStage(Len(op[t].parts)))
     /\ op'[t].at \in {"single", "create", "parts"} /\ UNCHANGED file
  \/ /\ o # None /\ UNCHANGED file
     /\ \/ op[t].kind = "copy" /\ \E stage \in {"create", "copyone", "getone"} : Looked(t, o, stage)
        \/ op[t].kind \in Reads /\ \E stage \in {"ranges", "getone"} : Looked(t, o, stage)

LEMMA HeadWalks ==
  ASSUME WholeInv, NEW t \in Tasks, HeadObject(t)
  PROVE  Walks(t) /\ HeadLeads(t)
<1> PICK o : o = obj[op[t].key]
  OBVIOUS
<1>0. {"notfound", "error", "skipped", "ok"} \subseteq Results /\ {"delete"} \subseteq Stages
  BY DEF Results, Stages
<1>1. /\ op[t].at = "head" /\ op \in [Tasks -> OpType] /\ op[t] \in OpType /\ ops' = ops /\ backend' = backend
      /\ StageOK(op[t], backend) /\ KeysOK(op[t], ops) /\ DoneOK(op[t]) /\ BodyOK(op[t], backend)
      /\ backend \in {"s3", "azure"} /\ op[t].key \in Keys
  BY Start, TargetKey DEF HeadObject, At, Running, service
<1>2. o # None => o \in ObjectType /\ o.parts \in Seq(Pieces)
  BY <1>1, Start DEF ObjectType
<1>3. ASSUME NEW res \in Results, Finish(t, res) PROVE Walks(t) /\ Ended(t, res, <<>>)
  BY <1>1, <1>3, Ends, EndWalks
<1>4. CASE o = None /\ HeadMissing(t) /\ UNCHANGED <<file, faults>>
  <2>1. CASE op[t].kind = "lfsput"
    <3>1. Goto(t, PutStage(Len(op[t].parts)))
      BY <1>4, <2>1 DEF HeadMissing
    <3>2. /\ op' \in [Tasks -> OpType] /\ \A u \in Tasks : u # t => op'[u] = op[u]
          /\ op'[t].at = PutStage(Len(op[t].parts)) /\ op'[t].kind = op[t].kind /\ op'[t].id = op[t].id
          /\ op'[t].key = op[t].key /\ op'[t].to = op[t].to /\ op'[t].parts = op[t].parts
          /\ op'[t].done = <<>>
      <4>1. op[t].done = <<>>
        BY <1>1, <2>1, DoneNone
      <4> QED BY <1>1, <3>1, <4>1, PutStageStages, Goes
    <3> PICK s \in OpType : s = op'[t]
      BY <3>2
    <3>3. /\ StageOK(s, backend) /\ DoneOK(s)
          /\ s.at \in {"single", "create", "parts"}
      BY <3>2, <2>1, PutStarts DEF Writes
    <3>4. KeysOK(s, ops) /\ BodyOK(s, backend)
      BY <1>1, <2>1, <3>2, <3>3 DEF KeysOK, BodyOK
    <3> QED BY <1>1, <1>4, <2>1, <3>1, <3>2, <3>3, <3>4 DEF Walks, OpOK, HeadLeads
  <2>2. CASE op[t].kind # "lfsput"
    BY <1>0, <1>3, <1>4, <2>2 DEF HeadMissing, HeadLeads
  <2> QED BY <2>1, <2>2
<1>5. CASE o # None /\ HeadFound(t, o) /\ UNCHANGED faults
  <2>0. op[t].kind \in {"get", "lfsget", "copy", "delete", "lfsput"}
    BY <1>1 DEF StageOK
  <2>1. CASE op[t].kind = "lfsput"
    <3>1. Finish(t, "skipped") /\ UNCHANGED file
      BY <1>5, <2>1 DEF HeadFound
    <3> QED BY <1>0, <1>3, <1>5, <2>1, <3>1 DEF HeadLeads
  <2>2. CASE op[t].kind = "delete"
    <3>1. Goto(t, "delete") /\ UNCHANGED file
      BY <1>5, <2>2 DEF HeadFound
    <3>2. /\ op' \in [Tasks -> OpType] /\ \A u \in Tasks : u # t => op'[u] = op[u]
          /\ op'[t].at = "delete" /\ op'[t].kind = op[t].kind /\ op'[t].id = op[t].id
          /\ op'[t].key = op[t].key /\ op'[t].to = op[t].to
      BY <1>0, <1>1, <3>1, Goes
    <3>3. OpOK(t)'
      BY <1>1, <2>2, <3>2 DEF OpOK, StageOK, KeysOK, DoneOK, BodyOK
    <3> QED BY <1>5, <2>2, <3>1, <3>2, <3>3 DEF Walks, HeadLeads
  <2>3. CASE op[t].kind = "copy" /\ backend = "s3"
    <3>1. StartCopy(t, o) /\ UNCHANGED file
      BY <1>5, <2>3 DEF HeadFound
    <3> DEFINE stage == IF should_use_multipart(Len(o.parts)) THEN "create" ELSE "copyone"
    <3>2. Looked(t, o, stage) /\ stage \in {"create", "copyone"}
      BY <3>1 DEF StartCopy
    <3>3. stage = "create" => Len(o.parts) > 0
      BY <1>2, <1>5, Start DEF should_use_multipart
    <3> HIDE DEF stage
    <3>4. Walks(t)
      BY <1>1, <1>2, <1>5, <2>3, <3>2, <3>3, FoundWalks DEF At
    <3> QED BY <1>5, <2>3, <3>1, <3>2, <3>4 DEF HeadLeads
  <2>4. CASE op[t].kind \in Reads /\ o.parts = <<>>
    <3>1. Finish(t, "ok") /\ file' = [file EXCEPT ![t] = <<>>]
      BY <1>5, <2>4 DEF HeadFound, Reads
    <3> QED BY <1>0, <1>3, <1>5, <2>4, <3>1 DEF HeadLeads
  <2>5. CASE \/ op[t].kind \in Reads /\ o.parts # <<>>
             \/ op[t].kind = "copy" /\ backend = "azure"
    <3>1. StartDownload(t, o) /\ UNCHANGED file
      BY <1>5, <2>5 DEF HeadFound, Reads
    <3> DEFINE stage == IF backend = "s3" /\ Len(o.parts) > GetThreshold THEN "ranges" ELSE "getone"
    <3>2. Looked(t, o, stage) /\ stage \in {"ranges", "getone"}
      BY <3>1 DEF StartDownload
    <3>3. stage = "ranges" => backend = "s3" /\ Len(o.parts) > 0
      BY <1>2, <1>5, StoreAssumption
    <3>a. stage = "ranges" => op[t].kind \in Reads
      BY <2>5
    <3> HIDE DEF stage
    <3>4. Walks(t)
      BY <1>1, <1>2, <1>5, <2>5, <3>2, <3>3, <3>a, FoundWalks DEF At
    <3> QED BY <1>5, <2>5, <3>1, <3>2, <3>a, <3>4 DEF HeadLeads
  <2> QED BY <1>1, <2>0, <2>1, <2>2, <2>3, <2>4, <2>5 DEF Reads
<1>6. CASE HeadFails(t) /\ UNCHANGED file
  BY <1>0, <1>3, <1>6 DEF HeadFails, HeadLeads
<1> QED BY <1>4, <1>5, <1>6 DEF HeadObject

\* A part more.
DistinctParts(done, parts) ==
  /\ \A j \in 1..Len(done) : done[j][1] \in 1..Len(parts) /\ done[j][2] = parts[done[j][1]]
  /\ \A i, j \in 1..Len(done) : done[i][1] = done[j][1] => i = j

LEMMA PartsInOrder ==
  ASSUME NEW parts \in Seq(Pieces), NEW done \in Seq(Nat \X Pieces), Len(done) = Len(parts),
         DistinctParts(done, parts)
  PROVE  InOrder(done) = parts
<1>1. /\ \A j \in 1..Len(done) : done[j][1] \in 1..Len(parts) /\ done[j][2] = parts[done[j][1]]
      /\ \A i, j \in 1..Len(done) : done[i][1] = done[j][1] => i = j
  BY DEF DistinctParts
<1> QED BY <1>1, AllDone

Grown(more, done) ==
  /\ more \in Seq(Nat \X Pieces) /\ Len(more) = Len(done) + 1
  /\ \A j \in 1..Len(more) : j \in 1..Len(done) \/ j = Len(more)
  /\ \A j \in 1..Len(done) : more[j] = done[j]

Missing(done, n) == \A j \in DOMAIN done : done[j][1] # n

LEMMA DoneAppends ==
  ASSUME NEW parts \in Seq(Pieces), NEW done \in Seq(Nat \X Pieces),
         DistinctParts(done, parts), NEW n \in 1..Len(parts), Missing(done, n),
         NEW more, more = Append(done, <<n, parts[n]>>)
  PROVE  Grown(more, done) /\ more[Len(more)] = <<n, parts[n]>> /\ DistinctParts(more, parts)
<1>0. parts[n] \in Pieces /\ n \in Nat
  OBVIOUS
<1> PICK e \in Nat \X Pieces : e = <<n, parts[n]>>
  BY <1>0
<1>1. e[1] = n /\ e[2] = parts[n] /\ DOMAIN done = 1..Len(done)
  OBVIOUS
<1>2. /\ more \in Seq(Nat \X Pieces) /\ Len(more) = Len(done) + 1
      /\ \A j \in 1..Len(done) : more[j] = done[j]
      /\ more[Len(more)] = e
  <2>1. more = Append(done, e)
    OBVIOUS
  <2> QED BY <2>1
<1>3. \A j \in 1..Len(more) : j \in 1..Len(done) \/ j = Len(more)
  BY <1>2
<1>4. ASSUME NEW j \in 1..Len(more) PROVE more[j][1] \in 1..Len(parts) /\ more[j][2] = parts[more[j][1]]
  BY <1>1, <1>2, <1>3 DEF DistinctParts
<1>5. ASSUME NEW i \in 1..Len(more), NEW j \in 1..Len(more), more[i][1] = more[j][1] PROVE i = j
  <2>1. CASE i \in 1..Len(done) /\ j \in 1..Len(done)
    <3>1. done[i][1] = done[j][1]
      BY <1>2, <1>5, <2>1
    <3> QED BY <2>1, <3>1 DEF DistinctParts
  <2>2. ASSUME NEW k \in 1..Len(done), more[k][1] = more[Len(more)][1] PROVE FALSE
    <3>1. done[k][1] = e[1]
      BY <1>2, <2>2
    <3> QED BY <1>1, <3>1 DEF Missing
  <2>3. CASE i = Len(more) \/ j = Len(more)
    BY <1>3, <1>5, <2>2, <2>3
  <2> QED BY <1>3, <2>1, <2>3
<1>6. more[Len(more)] = <<n, parts[n]>>
  BY <1>2
<1> QED BY <1>2, <1>3, <1>4, <1>5, <1>6, Zenon DEF Grown, DistinctParts

\* A request of a download that fails.
GetFailed(t) ==
  \/ \E res \in {"notfound", "changed", "error"} : Ended(t, res, <<>>)
  \/ op'[t].at = "head"

LEMMA GetFailsWalks ==
  ASSUME WholeInv, NEW t \in Tasks, op[t].at \in {"getone", "ranges"}, GetFails(t),
         UNCHANGED <<backend, ops>>
  PROVE  Walks(t) /\ GetFailed(t)
<1>1. {"notfound", "changed", "error"} \subseteq Results /\ "head" \in Stages /\ 1 \in 0..1
  BY DEF Results, Stages
<1>2. ASSUME NEW res \in {"notfound", "changed", "error"}, Finish(t, res) PROVE Walks(t) /\ GetFailed(t)
  BY <1>1, <1>2, Start, Ends, EndWalks DEF GetFailed
<1>3. CASE op' = [op EXCEPT ![t].at = "head", ![t].tries = 1]
  <2> PICK o \in OpType : o = op[t]
    BY Start
  <2> DEFINE s == [o EXCEPT !.at = "head", !.tries = 1]
  <2>1. s \in OpType /\ s.at = "head" /\ s.kind = o.kind /\ s.id = o.id /\ s.key = o.key /\ s.to = o.to
    BY <1>1 DEF OpType
  <2>2. s = [op[t] EXCEPT !.at = "head", !.tries = 1]
    OBVIOUS
  <2> HIDE DEF s
  <2>3. op' = [op EXCEPT ![t] = s]
    BY <1>3, <2>2
  <2>4. Moves(t, s)
    BY <2>1, <2>3, Start, Moving
  <2>5. o.kind \in {"get", "lfsget", "copy"} /\ KeysOK(o, ops)
    BY Start DEF StageOK, Reads
  <2>6. StageOK(s, backend) /\ KeysOK(s, ops) /\ DoneOK(s) /\ BodyOK(s, backend)
    BY <2>1, <2>5 DEF StageOK, KeysOK, DoneOK, BodyOK
  <2> QED BY <2>1, <2>4, <2>6 DEF Walks, OpOK, Moves, GetFailed
<1> QED BY <1>2, <1>3 DEF GetFails

\* The body has arrived.
Persisted(t, parts) ==
  \/ /\ op[t].kind \in Reads /\ Ended(t, "ok", <<>>)
     /\ file' = [file EXCEPT ![t] = parts]
  \/ /\ op[t].kind = "copy" /\ backend = "azure" /\ UNCHANGED file
     /\ op'[t].at \in {"single", "create", "parts"} /\ op'[t].parts = parts /\ op'[t].done = <<>>

LEMMA PersistWalks ==
  ASSUME WholeInv, NEW t \in Tasks, op[t].at \in {"getone", "ranges"}, NEW parts \in Seq(Pieces),
         Persist(t, parts), UNCHANGED <<backend, ops>>
  PROVE  Walks(t) /\ Persisted(t, parts)
<1>1. op[t].kind \in Reads \/ (op[t].kind = "copy" /\ backend = "azure")
  BY Start DEF StageOK, Reads
<1>2. CASE op[t].kind \in Reads
  <2>1. Finish(t, "ok") /\ file' = [file EXCEPT ![t] = parts] /\ "ok" \in Results
    BY <1>2 DEF Persist, Reads, Results
  <2> QED BY <1>2, <2>1, Start, Ends, EndWalks DEF Persisted
<1>3. CASE op[t].kind = "copy" /\ backend = "azure"
  <2> PICK o \in OpType : o = op[t]
    BY Start
  <2> PICK stage \in Stages : stage = PutStage(Len(parts))
    BY PutStageStages
  <2> DEFINE s == [o EXCEPT !.parts = parts, !.done = <<>>, !.at = stage]
  <2>1. /\ s \in OpType /\ s.at = stage /\ s.kind = o.kind /\ s.id = o.id /\ s.key = o.key /\ s.to = o.to
        /\ s.parts = parts /\ s.done = <<>>
    <3>1. <<>> \in Seq(Nat \X Pieces)
      OBVIOUS
    <3> QED BY <3>1 DEF OpType
  <2>2. s = [op[t] EXCEPT !.parts = parts, !.done = <<>>, !.at = stage]
    OBVIOUS
  <2> HIDE DEF s
  <2>3. op' = [op EXCEPT ![t] = s] /\ UNCHANGED file
    BY <1>3, <2>2 DEF Persist
  <2>4. Moves(t, s)
    BY <2>1, <2>3, Start, Moving
  <2>5. /\ StageOK(s, backend) /\ DoneOK(s)
        /\ s.at \in {"single", "create", "parts"}
    BY <1>3, <2>1, PutStarts DEF Writes
  <2>6. KeysOK(s, ops)
    BY <1>3, <2>1, Start DEF KeysOK
  <2>7. BodyOK(s, backend)
    BY <1>3, <2>1 DEF BodyOK
  <2> QED BY <1>3, <2>1, <2>3, <2>4, <2>5, <2>6, <2>7 DEF Walks, OpOK, Moves, Persisted
<1> QED BY <1>1, <1>2, <1>3

LEMMA GetOneWalks ==
  ASSUME WholeInv, NEW t \in Tasks, GetOne(t)
  PROVE  /\ Walks(t)
         /\ \/ GetFailed(t) /\ UNCHANGED <<file, chan>>
            \/ /\ obj[op[t].key] # None /\ SameVersion(t) /\ Report(t, Len(op[t].parts))
               /\ Persisted(t, obj[op[t].key].parts)
<1>1. op[t].at = "getone" /\ UNCHANGED <<backend, ops>>
  BY DEF GetOne, At, service
<1>2. CASE GetFails(t) /\ UNCHANGED <<file, chan>>
  BY <1>1, <1>2, GetFailsWalks
<1>3. CASE /\ obj[op[t].key] # None /\ SameVersion(t) /\ Report(t, Len(op[t].parts))
           /\ Persist(t, obj[op[t].key].parts)
  <2>1. obj[op[t].key].parts \in Seq(Pieces)
    BY <1>1, <1>3, Start, TargetKey DEF ObjectType, Running
  <2> QED BY <1>1, <1>3, <2>1, PersistWalks
<1> QED BY <1>2, <1>3 DEF GetOne

\* In S3 the ETag tells what is there.
LEMMA SameBody ==
  ASSUME WholeInv, NEW t \in Tasks, backend = "s3", op[t].kind \in {"get", "lfsget", "copy"},
         op[t].at \notin {"idle", "head"}, Etag(obj[op[t].key]) = op[t].etag
  PROVE  obj[op[t].key].parts = op[t].parts
<1>1. op[t].etag = <<0, op[t].parts>>
  BY Start DEF BodyOK
<1>2. Etag(obj[op[t].key]) = <<0, obj[op[t].key].parts>>
  BY DEF Etag
<1> QED BY <1>1, <1>2

\* A part that is done while others are not.
Continues(t, stage) ==
  op'[t].at = stage /\ op'[t].parts = op[t].parts /\ Grown(op'[t].done, op[t].done)

LEMMA GetRangeWalks ==
  ASSUME WholeInv, NEW t \in Tasks, NEW i, GetRange(t, i)
  PROVE  /\ Walks(t)
         /\ \/ GetFailed(t) /\ UNCHANGED <<file, chan>>
            \/ Report(t, 1) /\ UNCHANGED file /\ Continues(t, "ranges")
            \/ /\ Report(t, 1) /\ Len(op[t].done) + 1 = Len(op[t].parts)
               /\ op[t].kind \in Reads /\ Ended(t, "ok", <<>>)
               /\ file' = [file EXCEPT ![t] = op[t].parts]
<1> PICK o \in OpType : o = op[t]
  BY Start
<1>1. /\ o.at = "ranges" /\ UNCHANGED <<backend, ops>> /\ o.kind \in Reads /\ backend = "s3"
      /\ i \in 1..Len(o.parts) /\ \A j \in DOMAIN o.done : o.done[j][1] # i
      /\ StageOK(o, backend) /\ KeysOK(o, ops) /\ DoneOK(o) /\ BodyOK(o, backend)
  BY Start DEF GetRange, At, service, Parts, StageOK
<1>2. CASE GetFails(t) /\ UNCHANGED <<file, chan>>
  BY <1>1, <1>2, GetFailsWalks
<1> DEFINE done == Append(op[t].done, <<i, obj[op[t].key].parts[i]>>)
<1>3. CASE /\ SameVersion(t) /\ Report(t, 1)
           /\ IF Len(done) < Len(op[t].parts)
              THEN op' = [op EXCEPT ![t].done = done] /\ UNCHANGED file
              ELSE Persist(t, InOrder(done))
  <2>1. obj[o.key].parts = o.parts
    BY <1>1, <1>3, SameBody DEF SameVersion, Reads
  <2> PICK more : more = Append(o.done, <<i, o.parts[i]>>)
    OBVIOUS
  <2>2. done = more
    BY <2>1
  <2>3. o.parts \in Seq(Pieces) /\ o.done \in Seq(Nat \X Pieces) /\ Len(o.parts) \in Nat /\ Len(o.done) \in Nat
    BY OpParts
  <2>a. DistinctParts(o.done, o.parts) /\ Len(o.done) < Len(o.parts) /\ Missing(o.done, i)
    BY <1>1 DEF DoneOK, DistinctParts, Missing
  <2>4. Grown(more, o.done) /\ DistinctParts(more, o.parts)
    BY <1>1, <2>3, <2>a, DoneAppends
  <2>b. more \in Seq(Nat \X Pieces) /\ Len(more) = Len(o.done) + 1
    BY <2>4 DEF Grown
  <2> HIDE DEF done
  <2>5. CASE Len(more) < Len(o.parts)
    <3> DEFINE s == [o EXCEPT !.done = more]
    <3>1. /\ s \in OpType /\ s.at = o.at /\ s.kind = o.kind /\ s.id = o.id /\ s.key = o.key /\ s.to = o.to
          /\ s.parts = o.parts /\ s.done = more /\ s.etag = o.etag
      <4>1. more \in Seq(Nat \X Pieces)
        BY <2>b
      <4> QED BY <4>1 DEF OpType
    <3>2. s = [op[t] EXCEPT !.done = done]
      BY <2>2
    <3> HIDE DEF s
    <3>3. op' = [op EXCEPT ![t] = s] /\ UNCHANGED file
      BY <1>3, <2>2, <2>5, <3>2
    <3>4. Moves(t, s)
      BY <3>1, <3>3, Start, Moving
    <3>5. DoneOK(s)
      <4>1. /\ \A j \in 1..Len(s.done) : s.done[j][1] \in 1..Len(s.parts) /\ s.done[j][2] = s.parts[s.done[j][1]]
            /\ \A h, j \in 1..Len(s.done) : s.done[h][1] = s.done[j][1] => h = j
        BY <2>4, <3>1 DEF DistinctParts
      <4>2. s.at = "ranges" /\ Len(s.done) < Len(s.parts)
        BY <1>1, <2>5, <3>1
      <4> QED BY <4>1, <4>2 DEF DoneOK
    <3>6. StageOK(s, backend) /\ KeysOK(s, ops) /\ BodyOK(s, backend)
      BY <1>1, <3>1 DEF StageOK, KeysOK, BodyOK
    <3>7. Walks(t)
      BY <1>1, <3>1, <3>4, <3>5, <3>6 DEF Walks, OpOK, Moves
    <3>8. Continues(t, "ranges")
      BY <1>1, <2>4, <3>1, <3>4 DEF Continues, Moves
    <3> QED BY <1>3, <3>3, <3>7, <3>8
  <2>6. CASE ~(Len(more) < Len(o.parts))
    <3>1. Len(more) = Len(o.parts)
      BY <2>3, <2>a, <2>b, <2>6
    <3>2. InOrder(more) = o.parts
      <4>1. DistinctParts(more, o.parts) /\ more \in Seq(Nat \X Pieces) /\ o.parts \in Seq(Pieces)
        BY <2>3, <2>4, <2>b
      <4> QED BY <3>1, <4>1, PartsInOrder, Zenon
    <3>3. Persist(t, o.parts)
      BY <1>3, <2>2, <2>6, <3>2
    <3>4. Walks(t) /\ Persisted(t, o.parts)
      BY <1>1, <2>3, <3>3, PersistWalks
    <3> QED BY <1>1, <1>3, <2>b, <3>1, <3>4 DEF Persisted, Reads
  <2> QED BY <2>5, <2>6
<1>4. \/ GetFails(t) /\ UNCHANGED <<file, chan>>
      \/ /\ SameVersion(t) /\ Report(t, 1)
         /\ IF Len(done) < Len(op[t].parts)
            THEN op' = [op EXCEPT ![t].done = done] /\ UNCHANGED file
            ELSE Persist(t, InOrder(done))
  BY DEF GetRange, InOrder
<1> HIDE DEF done
<1> QED BY <1>2, <1>3, <1>4

\* A part goes up, or the upload fails.
Uploaded(t, i) ==
  /\ op[t].at = "parts" /\ op'[t].at \in Staging /\ Continues(t, op'[t].at)
  /\ op'[t].tries = op[t].tries
  /\ op'[t].done[Len(op'[t].done)] = <<i, op[t].parts[i]>>
  /\ IF backend = "s3" THEN UNCHANGED staged ELSE StageBlock(t, i)
  /\ shared' = IF backend = "azure" /\ Contended(t) THEN shared \cup {Target(t)} ELSE shared
  /\ Report(t, 1)

UploadFailed(t) ==
  /\ IF backend = "s3" THEN op'[t].at = "abort" /\ op'[t].tries = op[t].tries ELSE Ended(t, "error", <<>>)
  /\ UNCHANGED <<staged, shared, chan>>

LEMMA UploadWalks ==
  ASSUME WholeInv, NEW t \in Tasks, NEW i, UploadPart(t, i)
  PROVE  Walks(t) /\ i \in 1..Len(op[t].parts) /\ (Uploaded(t, i) \/ UploadFailed(t))
<1> PICK o \in OpType : o = op[t]
  BY Start
<1>1. /\ o.at = "parts" /\ UNCHANGED <<backend, ops>> /\ o.kind \in Writes /\ backend \in {"s3", "azure"}
      /\ i \in 1..Len(o.parts) /\ Missing(o.done, i)
      /\ StageOK(o, backend) /\ KeysOK(o, ops) /\ DoneOK(o) /\ BodyOK(o, backend)
  BY Start DEF UploadPart, At, service, Parts, StageOK, Missing
<1> DEFINE done  == Append(op[t].done, <<i, PartBody(t, i)>>)
           stage == IF Len(done) = Len(op[t].parts) THEN "complete" ELSE "parts"
           Sent  == /\ SourceUnchanged(t) \/ backend = "azure"
                    /\ op' = [op EXCEPT ![t].done = done, ![t].at = stage]
                    /\ IF backend = "s3" THEN UNCHANGED staged ELSE StageBlock(t, i)
                    /\ shared' = IF backend = "azure" /\ Contended(t)
                                 THEN shared \cup {Target(t)} ELSE shared
                    /\ Report(t, 1)
           Fails == /\ IF backend = "s3" THEN Goto(t, "abort") ELSE Finish(t, "error")
                    /\ UNCHANGED <<staged, shared, chan>>
<1>2. Sent \/ Fails
  BY DEF UploadPart
<1>3. CASE Sent
  <2>1. PartBody(t, i) = o.parts[i]
    <3>1. CASE o.kind = "copy" /\ backend = "s3"
      <4>1. obj[o.key].parts = o.parts
        BY <1>1, <1>3, <3>1, SameBody DEF SourceUnchanged
      <4> QED BY <1>1, <3>1, <4>1, OpParts DEF PartBody
    <3>2. CASE ~(o.kind = "copy" /\ backend = "s3")
      BY <3>2 DEF PartBody
    <3> QED BY <3>1, <3>2
  <2> PICK more : more = Append(o.done, <<i, o.parts[i]>>)
    OBVIOUS
  <2>2. done = more
    BY <2>1
  <2>3. o.parts \in Seq(Pieces) /\ o.done \in Seq(Nat \X Pieces) /\ Len(o.parts) \in Nat /\ Len(o.done) \in Nat
    BY OpParts
  <2>4. DistinctParts(o.done, o.parts) /\ Len(o.done) < Len(o.parts)
    BY <1>1 DEF DoneOK, DistinctParts
  <2>5. Grown(more, o.done) /\ DistinctParts(more, o.parts) /\ more[Len(more)] = <<i, o.parts[i]>>
    BY <1>1, <2>3, <2>4, DoneAppends
  <2>6. more \in Seq(Nat \X Pieces) /\ Len(more) = Len(o.done) + 1
    BY <2>5 DEF Grown
  <2>7. stage \in {"parts", "complete"} /\ (stage = "complete" <=> Len(more) = Len(o.parts))
    BY <2>2
  <2>8. op' = [op EXCEPT ![t].done = more, ![t].at = stage]
    BY <1>3, <2>2
  <2> HIDE DEF done, stage
  <2> DEFINE s == [o EXCEPT !.done = more, !.at = stage]
  <2>9. /\ s \in OpType /\ s.at = stage /\ s.kind = o.kind /\ s.id = o.id /\ s.key = o.key /\ s.to = o.to
        /\ s.parts = o.parts /\ s.done = more /\ s.etag = o.etag /\ s.tries = o.tries
    <3>1. stage \in Stages
      BY <2>7 DEF Stages
    <3> QED BY <2>6, <3>1 DEF OpType
  <2>10. s = [op[t] EXCEPT !.done = more, !.at = stage]
    OBVIOUS
  <2> HIDE DEF s
  <2>11. op' = [op EXCEPT ![t] = s]
    BY <2>8, <2>10
  <2>12. Moves(t, s)
    BY <2>9, <2>11, Start, Moving
  <2>13. DoneOK(s)
    <3>1. DistinctParts(s.done, s.parts)
      BY <2>5, <2>9
    <3>2. /\ s.at = "parts" => Len(s.done) < Len(s.parts)
          /\ s.at = "complete" => Len(s.done) = Len(s.parts)
      BY <2>3, <2>4, <2>6, <2>7, <2>9
    <3> QED BY <2>7, <2>9, <3>1, <3>2 DEF DoneOK, DistinctParts
  <2>14. StageOK(s, backend) /\ KeysOK(s, ops) /\ BodyOK(s, backend)
    BY <1>1, <2>7, <2>9 DEF StageOK, KeysOK, BodyOK
  <2>15. Walks(t)
    BY <1>1, <2>9, <2>12, <2>13, <2>14 DEF Walks, OpOK, Moves
  <2>16. /\ Continues(t, op'[t].at) /\ op'[t].at \in Staging /\ op'[t].done = more
         /\ op'[t].tries = o.tries
    BY <2>5, <2>7, <2>9, <2>12 DEF Continues, Moves, Staging
  <2> QED BY <1>1, <1>3, <2>5, <2>15, <2>16 DEF Uploaded
<1>4. CASE Fails
  <2>1. CASE backend = "s3"
    <3>1. Goto(t, "abort") /\ "abort" \in Stages
      BY <1>4, <2>1 DEF Stages
    <3>2. /\ op' \in [Tasks -> OpType] /\ \A u \in Tasks : u # t => op'[u] = op[u]
          /\ op'[t].at = "abort" /\ op'[t].kind = o.kind /\ op'[t].id = o.id /\ op'[t].key = o.key
          /\ op'[t].to = o.to /\ op'[t].parts = o.parts /\ op'[t].etag = o.etag
          /\ op'[t].tries = o.tries
      BY <3>1, Start, Goes
    <3>3. OpOK(t)'
      BY <1>1, <2>1, <3>2 DEF OpOK, StageOK, KeysOK, DoneOK, BodyOK
    <3> QED BY <1>1, <1>4, <2>1, <3>2, <3>3 DEF Walks, UploadFailed
  <2>2. CASE backend # "s3"
    <3>1. Finish(t, "error") /\ "error" \in Results
      BY <1>4, <2>2 DEF Results
    <3>2. Ended(t, "error", <<>>)
      BY <3>1, Start, Ends
    <3> QED BY <1>1, <1>4, <2>2, <3>2, EndWalks DEF UploadFailed
  <2> QED BY <2>1, <2>2
<1> QED BY <1>2, <1>3, <1>4

\* An operation that begins.
CallOK(kind, k, to, b) ==
  /\ kind \in Kinds /\ k \in Keys
  /\ (kind \in LfsKinds) <=> (k = LfsKey)
  /\ IF kind = "copy" THEN to \in Keys \ {LfsKey} ELSE to = None
  /\ IF kind \in {"put", "absent"} THEN b \in Bodies ELSE b = (IF kind = "lfsput" THEN LfsBody ELSE None)

Begun(t, kind, k) ==
  /\ op[t].at = "idle" /\ ops' = ops + 1 /\ ops' \in 0..MaxOps
  /\ op' \in [Tasks -> OpType] /\ \A u \in Tasks : u # t => op'[u] = op[u]
  /\ op'[t].kind = kind /\ op'[t].key = k /\ op'[t].id = ops + 1 /\ op'[t].done = <<>>
  /\ op'[t].at \in {"head", "single", "create", "parts", "absent", "delete", "range"}
  /\ kind \in LfsKinds \cup {"copy", "get"} => op'[t].at = "head"
  /\ chan' = [chan EXCEPT ![t] = 0] /\ file' = [file EXCEPT ![t] = None]
  /\ OpOK(t)'

LEMMA BeginWalks ==
  ASSUME WholeInv, NEW t \in Tasks, NEW kind, NEW k, NEW to, NEW b, CallOK(kind, k, to, b),
         Begin(t, kind, k, to, b)
  PROVE  Begun(t, kind, k)
<1> PICK o \in OpType : o = Idle
  BY IdleOp
<1>1. /\ ops \in 0..MaxOps /\ MaxOps \in Nat /\ ops < MaxOps /\ ops' = ops + 1
      /\ op[t].at = "idle" /\ op \in [Tasks -> OpType] /\ UNCHANGED backend
      /\ chan' = [chan EXCEPT ![t] = 0] /\ file' = [file EXCEPT ![t] = None]
      /\ None \notin Keys \cup Bodies /\ LfsBody \in Bodies
  BY Start, StoreAssumption, LfsAssumption DEF Begin, Running, service
<1>2. /\ kind \in Kinds /\ k \in Keys /\ to \in Keys \cup {None}
      /\ kind \in {"put", "absent", "lfsput"} => b \in Bodies
      /\ kind \notin {"put", "absent", "lfsput"} => b = None
      /\ kind = "lfsput" => b = LfsBody
  BY <1>1 DEF CallOK
<1> PICK body \in Seq(Pieces) : body = IF b = None THEN <<>> ELSE Content(b)
  <2>1. <<>> \in Seq(Pieces) /\ (b # None => b \in Bodies)
    BY <1>2
  <2> QED BY <2>1, ContentSeq
<1> DEFINE stage == CASE kind = "put"                          -> PutStage(Size[b])
                      [] kind = "delete" /\ backend = "azure"  -> "delete"
                      [] kind \in {"absent", "range"}          -> kind
                      [] OTHER                                 -> "head"
<1>3. /\ kind = "put" => stage = PutStage(Len(body))
      /\ kind = "put" => Whole(body)
      /\ kind = "absent" => stage = "absent" /\ Whole(body)
      /\ kind = "range" => stage = "range"
      /\ kind = "delete" => stage \in {"delete", "head"}
      /\ kind \in LfsKinds \cup {"copy", "get"} => stage = "head"
      /\ kind = "lfsput" => body = Content(LfsBody)
  BY <1>1, <1>2, ContentSeq DEF Whole, LfsKinds
<1>4. stage \in Stages
  BY <1>2, <1>3, PutStageStages DEF Kinds, Stages, LfsKinds
<1> HIDE DEF stage
<1> DEFINE s == [o EXCEPT !.kind = kind, !.id = ops + 1, !.key = k, !.to = to, !.parts = body, !.at = stage]
<1>5. /\ s \in OpType /\ s.kind = kind /\ s.id = ops + 1 /\ s.key = k /\ s.to = to /\ s.parts = body
      /\ s.at = stage /\ s.done = o.done
  <2>1. ops + 1 \in 0..MaxOps /\ kind \in Kinds \cup {"none"} /\ k \in Keys \cup {None}
    BY <1>1, <1>2
  <2> QED BY <1>2, <1>4, <2>1 DEF OpType
<1>6. s = [Idle EXCEPT !.kind = kind, !.id = ops + 1, !.key = k, !.to = to,
                       !.parts = IF b = None THEN <<>> ELSE Content(b), !.at = stage]
  OBVIOUS
<1>7. o.done = <<>>
  BY DEF Idle
<1> HIDE DEF s
<1>8. op' = [op EXCEPT ![t] = s]
  BY <1>6 DEF Begin, stage
<1>9. Moves(t, s)
  BY <1>1, <1>5, <1>8, Moving
<1>10. KeysOK(s, ops')
  BY <1>1, <1>2, <1>5 DEF KeysOK, CallOK
<1>11. BodyOK(s, backend)
  BY <1>3, <1>5 DEF BodyOK, LfsKinds
<1>12. /\ StageOK(s, backend) /\ DoneOK(s)
       /\ s.at \in {"head", "single", "create", "parts", "absent", "delete", "range"}
  <2>1. CASE kind = "put"
    BY <1>3, <1>5, <1>7, <2>1, PutStarts DEF Writes
  <2>2. CASE kind # "put"
    BY <1>2, <1>3, <1>5, <1>7, <2>2 DEF StageOK, DoneOK, LfsKinds, Kinds
  <2> QED BY <2>1, <2>2
<1> QED BY <1>1, <1>3, <1>5, <1>7, <1>9, <1>10, <1>11, <1>12 DEF Begun, OpOK, Moves

-----------------------------------------------------------------------------
(* What the steps do to the bucket.                                        *)

\* A step of an operation, its end without an answer included.
Works(t) == StoreStep(t) \/ Cancel(t) \/ Kill(t)

LEMMA WorkWalks ==
  ASSUME WholeInv, NEW t \in Tasks, Works(t)
  PROVE  Walks(t) /\ Running(t) /\ UNCHANGED <<backend, ops>>
<1>1. ASSUME StoreStep(t) PROVE Walks(t)
  BY <1>1, PutSingleWalks, CreateWalks, CompleteWalks, CommitWalks, AbortWalks, UploadWalks, GetRangeWalks,
     HeadWalks, GetOneWalks, CopyOneWalks, AbsentWalks, DeleteWalks, RangeWalks DEF StoreStep
<1>2. ASSUME StoreStep(t) PROVE Running(t) /\ UNCHANGED <<backend, ops>>
  BY <1>2 DEF StoreStep, PutSingle, CreateUpload, CompleteUpload, CommitBlocks, AbortUpload, UploadPart,
     GetRange, HeadObject, GetOne, CopyOne, PutIfAbsent, Delete, GetBytesRange, At, Running, service
<1>3. ASSUME Cancel(t) \/ Kill(t) PROVE Walks(t) /\ Running(t) /\ UNCHANGED <<backend, ops>>
  BY <1>3, CancelWalks DEF Cancel, Kill, service
<1> QED BY <1>1, <1>2, <1>3 DEF Works

\* Its upload, if it has one, goes on, is gone, is left to a guard or is left
\* behind.
UploadsMove(t) ==
  /\ uploads' \subseteq uploads \cup {UploadId(t)}
  /\ orphans \subseteq orphans' /\ orphans' \subseteq orphans \cup {UploadId(t)}
  /\ aborting \subseteq aborting' /\ aborting' \subseteq aborting \cup {UploadId(t)}
  /\ UploadId(t) \in uploads' =>
       (op'[t].at \in Uploading /\ op'[t].tries = op[t].tries) \/ UploadId(t) \in orphans' \cup aborting'
  /\ \A n \in {0, 1} :
       op'[t].at \notin Uploading \cup {"idle"} /\ (op'[t].at = "create" => op'[t].tries <= n) =>
         <<op[t].id, n>> \notin uploads'
  /\ backend = "azure" => uploads' = {}

\* An upload that is not there stays away.
LEMMA UploadsStay ==
  ASSUME WholeInv, NEW t \in Tasks, op[t].at \notin Uploading \cup {"create", "idle"},
         UNCHANGED <<uploads, aborting, orphans>>
  PROVE  UploadsMove(t)
<1>1. \A n \in {0, 1} : <<op[t].id, n>> \notin uploads
  BY DEF WholeInv, StoreInv, IdsOK, Running
<1>2. op[t].tries \in {0, 1} /\ (backend = "azure" => uploads = {})
  BY Start DEF OpType, WholeInv, StoreInv, TypeOK, StoreTypeOK
<1> QED BY <1>1, <1>2 DEF UploadsMove, UploadId

LEMMA UploadSteps ==
  ASSUME WholeInv, NEW t \in Tasks, Works(t)
  PROVE  UploadsMove(t)
<1>0. /\ backend \in {"s3", "azure"} /\ (backend = "azure" => uploads = {})
      /\ Walks(t) /\ Running(t) /\ StageOK(op[t], backend)
  BY WorkWalks, Start DEF WholeInv, StoreInv, TypeOK, StoreTypeOK
<1>1. CASE PutSingle(t) \/ CopyOne(t) \/ PutIfAbsent(t) \/ Delete(t) \/ HeadObject(t) \/ GetOne(t)
           \/ (\E i \in 1..Len(op[t].parts) : GetRange(t, i))
           \/ (\E from, to \in RangeEnds : GetBytesRange(t, from, to))
  <2>1. op[t].at \notin Uploading \cup {"create", "idle"} /\ UNCHANGED <<uploads, aborting, orphans>>
    BY <1>1 DEF PutSingle, CopyOne, PutIfAbsent, Delete, HeadObject, GetOne, GetRange, GetBytesRange, At, service,
       history, Uploading
  <2> QED BY <2>1, UploadsStay
<1>2. CASE CreateUpload(t)
  <2>1. op[t].at = "create" /\ backend = "s3" /\ aborting' = aborting
    BY <1>0, <1>2 DEF CreateUpload, At, StageOK
  <2>2. /\ \/ op'[t].at = "parts" /\ op'[t].tries = op[t].tries
           \/ op'[t].at = "idle"
           \/ op'[t].at = "create" /\ op[t].tries = 0 /\ op'[t].tries = 1
        /\ Goto(t, "parts") => op'[t].at = "parts"
        /\ Unanswered(t) => op'[t].at # "parts"
    <3>1. Unanswered(t) => op'[t].at # "parts"
      BY <2>1, Start, Unanswers DEF Ended, Again
    <3> QED BY <1>2, <3>1, CreateWalks, Start, Goes DEF Stages, Again
  <2>3. op[t].tries \in {0, 1} /\ \A n \in {0, 1} : op[t].tries <= n => <<op[t].id, n>> \notin uploads
    <3>1. op[t].tries \in {0, 1}
      BY Start DEF OpType
    <3>2. IdsOK /\ Running(t) /\ op[t].at \notin Uploading
      BY <1>0, <2>1 DEF WholeInv, StoreInv, Uploading
    <3> QED BY <3>1, <3>2 DEF IdsOK
  <2>4. \/ uploads' = uploads \cup {UploadId(t)} /\ op'[t].at = "parts" /\ orphans' = orphans
        \/ /\ uploads' = uploads \cup {UploadId(t)} /\ orphans' = orphans \cup {UploadId(t)}
           /\ op'[t].at # "parts"
        \/ UNCHANGED <<uploads, orphans>> /\ op'[t].at # "parts"
    BY <1>2, <2>2 DEF CreateUpload
  <2> PICK n \in {0, 1} : n = op[t].tries
    BY <2>3
  <2>5. UploadId(t) = <<op[t].id, n>>
    BY DEF UploadId
  <2>6. ASSUME NEW m \in {0, 1}, op'[t].at = "create", op'[t].tries <= m PROVE <<op[t].id, m>> \notin uploads'
    <3>1. m = 1 /\ n = 0
      BY <2>2, <2>6
    <3>2. <<op[t].id, m>> \notin uploads /\ <<op[t].id, m>> # <<op[t].id, n>>
      BY <2>3, <3>1
    <3> QED BY <2>4, <2>5, <3>2
  <2>7. op'[t].at \notin Uploading \cup {"idle"} => op'[t].at = "create"
    BY <2>2 DEF Uploading
  <2>8. op'[t].at = "parts" => op'[t].at \in Uploading /\ op'[t].tries = op[t].tries
    BY <2>1, <2>2 DEF Uploading
  <2>9. UploadId(t) \in uploads' => op'[t].at = "parts" \/ UploadId(t) \in orphans'
    <3>1. UploadId(t) \notin uploads
      BY <2>3, <2>5
    <3> QED BY <2>4, <3>1
  <2> QED BY <2>1, <2>4, <2>6, <2>7, <2>8, <2>9 DEF UploadsMove
<1>3. CASE CompleteUpload(t) \/ AbortUpload(t) \/ Cancel(t) \/ Kill(t)
  <2>1. op'[t].at = "idle"
    BY <1>3, CompleteWalks, AbortWalks, CancelWalks DEF Ended
  <2>2. \/ uploads' = uploads \ {UploadId(t)} /\ UNCHANGED <<aborting, orphans>>
        \/ uploads' = uploads /\ orphans' = orphans \cup {UploadId(t)} /\ UNCHANGED aborting
        \/ uploads' = uploads /\ orphans' = orphans \cup ({UploadId(t)} \cap uploads) /\ UNCHANGED aborting
        \/ uploads' = uploads /\ aborting' = aborting \cup ({UploadId(t)} \cap uploads) /\ UNCHANGED orphans
    BY <1>3 DEF CompleteUpload, AbortUpload, Cancel, Kill, Detach, service, history
  <2> QED BY <1>0, <2>1, <2>2 DEF UploadsMove
<1>4. CASE CommitBlocks(t)
  <2>1. op'[t].at = "idle" /\ backend = "azure" /\ UNCHANGED <<uploads, aborting, orphans>>
    BY <1>4, CommitWalks DEF CommitBlocks, Ended, history
  <2> QED BY <1>0, <2>1 DEF UploadsMove
<1>5. CASE \E i \in 1..Len(op[t].parts) : UploadPart(t, i)
  <2>1. UNCHANGED <<uploads, aborting, orphans>>
    BY <1>5 DEF UploadPart
  <2>2. (op'[t].at \in Uploading /\ op'[t].tries = op[t].tries) \/ backend = "azure"
    <3>1. PICK i \in 1..Len(op[t].parts) : UploadPart(t, i)
      BY <1>5
    <3>2. CASE Uploaded(t, i)
      BY <3>2 DEF Uploaded, Staging, Uploading
    <3>3. CASE UploadFailed(t)
      BY <1>0, <3>3 DEF UploadFailed, Uploading
    <3> QED BY <3>1, <3>2, <3>3, UploadWalks
  <2> QED BY <1>0, <2>1, <2>2 DEF UploadsMove, Uploading
<1> QED BY <1>1, <1>2, <1>3, <1>4, <1>5 DEF Works, StoreStep

LEMMA WriteEffect ==
  ASSUME WholeInv, NEW t \in Tasks, NEW k \in Keys, NEW parts \in Seq(Pieces), Write(t, k, parts)
  PROVE  /\ obj' \in [Keys -> ObjectType \cup {None}] /\ obj'[k] # None
         /\ obj'[k].parts = parts /\ obj'[k].blocks = (backend # "s3" /\ op[t].at = "complete")
         /\ \A j \in Keys : j # k => obj'[j] = obj[j]
<1>1. op[t].id \in 0..MaxOps /\ 0 \in 0..MaxOps
  BY Start, OpParts
<1> DEFINE o == IF backend = "s3" THEN Object(parts, 0, FALSE) ELSE Object(parts, op[t].id, op[t].at = "complete")
<1>2. o \in ObjectType /\ o.parts = parts /\ o.blocks = (backend # "s3" /\ op[t].at = "complete")
  BY <1>1 DEF Object, ObjectType
<1>3. obj' = [obj EXCEPT ![k] = o]
  BY DEF Write
<1> HIDE DEF o
<1> QED BY <1>2, <1>3, Start

\* What is written, and when.
Writing(t, parts) ==
  /\ Target(t) \in Keys /\ parts \in Seq(Pieces) /\ Write(t, Target(t), parts) /\ shared' = shared
  /\ backend = "azure" => staged' = [staged EXCEPT ![Target(t)] = <<>>]
  /\ staged' \in {staged, [staged EXCEPT ![Target(t)] = <<>>]}
  /\ op'[t].at \in {"idle", "absent"}
  /\ \/ op[t].at \in {"single", "absent"} /\ parts = op[t].parts
     \/ op[t].at = "complete" /\ backend = "s3" /\ parts = op[t].parts
     \/ op[t].at = "copyone" /\ SourceUnchanged(t) /\ parts = obj[op[t].key].parts
     \/ /\ op[t].at = "complete" /\ backend = "azure" /\ parts = ListOf(t)
        /\ \A i \in 1..Len(op[t].parts) : Latest(Target(t), i) # None

Changes(t) ==
  \/ UNCHANGED <<obj, staged, shared>>
  \/ \E parts : Writing(t, parts)
  \/ /\ op[t].at = "delete" /\ obj' = [obj EXCEPT ![op[t].key] = None]
     /\ UNCHANGED <<staged, shared>> /\ op'[t].at = "idle"
  \/ /\ op[t].at = "parts" /\ UNCHANGED obj
     /\ \E i \in 1..Len(op[t].parts) : Uploaded(t, i)

LEMMA ChangeSteps ==
  ASSUME WholeInv, NEW t \in Tasks, Works(t)
  PROVE  Changes(t)
<1>0. /\ Walks(t) /\ Running(t) /\ Target(t) \in Keys /\ op[t].parts \in Seq(Pieces)
      /\ StageOK(op[t], backend) /\ KeysOK(op[t], ops) /\ backend \in {"s3", "azure"}
  BY WorkWalks, TargetKey, Start, OpParts
<1>1. CASE HeadObject(t) \/ GetOne(t) \/ (\E i \in 1..Len(op[t].parts) : GetRange(t, i))
           \/ (\E from, to \in RangeEnds : GetBytesRange(t, from, to))
           \/ CreateUpload(t) \/ AbortUpload(t) \/ Cancel(t) \/ Kill(t)
  BY <1>1 DEF HeadObject, GetOne, GetRange, GetBytesRange, CreateUpload, AbortUpload, Cancel, Kill, service,
     history, Changes
<1>2. CASE PutSingle(t)
  <2>1. op'[t].at = "idle"
    <3>1. op[t].parts \in Seq(Pieces) /\ <<0, 0>> \in Nat \X Nat /\ {"ok", "error"} \subseteq Results
      BY <1>0 DEF Results
    <3> QED BY <1>2, <3>1, Start, Ends, EndsWith DEF PutSingle, Wrote, Ended
  <2> QED BY <1>0, <1>2, <2>1 DEF PutSingle, At, history, Changes, Writing
<1>3. CASE CompleteUpload(t)
  <2>1. op[t].at = "complete" /\ backend = "s3" /\ UNCHANGED <<staged, shared>>
    BY <1>3 DEF CompleteUpload, At, history
  <2>2. Completed(t) = op[t].parts /\ op'[t].at = "idle"
    BY <1>3, <2>1, CompletedBody, CompleteWalks DEF Ended
  <2> QED BY <1>0, <1>3, <2>1, <2>2 DEF CompleteUpload, Changes, Writing
<1>4. CASE CommitBlocks(t)
  <2>1. op[t].at = "complete" /\ backend = "azure" /\ UNCHANGED shared
    BY <1>4 DEF CommitBlocks, At, history
  <2>2. ListOf(t) \in Seq(Pieces) /\ op'[t].at = "idle"
    BY <1>4, <2>1, ListTyped, CommitWalks DEF Ended
  <2>3. \/ UNCHANGED <<obj, staged>>
        \/ /\ Write(t, Target(t), ListOf(t)) /\ staged' = [staged EXCEPT ![Target(t)] = <<>>]
           /\ \A i \in DOMAIN ListOf(t) : ListOf(t)[i] # None
    BY <1>4 DEF CommitBlocks, ListOf
  <2>4. /\ DOMAIN ListOf(t) = 1..Len(op[t].parts)
        /\ \A i \in 1..Len(op[t].parts) : ListOf(t)[i] = Latest(Target(t), i)
    BY DEF ListOf, Parts
  <2> QED BY <1>0, <2>1, <2>2, <2>3, <2>4 DEF Changes, Writing
<1>5. CASE CopyOne(t)
  <2>1. op[t].at = "copyone" /\ op[t].kind = "copy" /\ backend = "s3" /\ UNCHANGED <<staged, shared>>
    BY <1>0, <1>5 DEF CopyOne, At, StageOK, history
  <2>2. op'[t].at = "idle"
    BY <1>5, CopyOneWalks DEF Ended
  <2>3. op[t].to \in Keys /\ op[t].to # None /\ Target(t) = op[t].to
    BY <1>0, <2>1, Start DEF KeysOK, Target
  <2>4. \/ UNCHANGED obj
        \/ SourceUnchanged(t) /\ Write(t, op[t].to, obj[op[t].key].parts)
    BY <1>5 DEF CopyOne
  <2>5. SourceUnchanged(t) => obj[op[t].key].parts \in Seq(Pieces)
    BY <1>0, <2>1, Start, TargetKey DEF SourceUnchanged, ObjectType
  <2> QED BY <1>0, <2>1, <2>2, <2>3, <2>4, <2>5 DEF Changes, Writing
<1>6. CASE PutIfAbsent(t)
  <2>1. op[t].at = "absent" /\ op[t].kind = "absent" /\ UNCHANGED shared
    BY <1>0, <1>6 DEF PutIfAbsent, At, StageOK, history
  <2>2. op'[t].at \in {"idle", "absent"}
    BY <1>6, <2>1, AbsentWalks DEF Ended, Again
  <2>3. Target(t) = op[t].key
    BY <1>0, <2>1 DEF KeysOK, Target
  <2>4. \/ UNCHANGED <<obj, staged>>
        \/ Write(t, op[t].key, op[t].parts) /\ staged' = [staged EXCEPT ![op[t].key] = <<>>]
    BY <1>6 DEF PutIfAbsent
  <2> QED BY <1>0, <2>1, <2>2, <2>3, <2>4 DEF Changes, Writing
<1>7. CASE Delete(t)
  <2>1. op'[t].at = "idle"
    BY <1>7, DeleteWalks DEF Ended
  <2> QED BY <1>7, <2>1 DEF Delete, At, history, Changes
<1>8. CASE \E i \in 1..Len(op[t].parts) : UploadPart(t, i)
  <2> PICK i \in 1..Len(op[t].parts) : UploadPart(t, i)
    BY <1>8
  <2>1. op[t].at = "parts" /\ UNCHANGED obj
    BY DEF UploadPart, At
  <2>2. Uploaded(t, i) \/ UNCHANGED <<staged, shared>>
    BY UploadWalks DEF UploadFailed
  <2> QED BY <2>1, <2>2 DEF Changes
<1> QED BY <1>1, <1>2, <1>3, <1>4, <1>5, <1>6, <1>7, <1>8 DEF Works, StoreStep

\* Types.
LEMMA ObjectTypes ==
  ASSUME WholeInv, NEW t \in Tasks, Works(t)
  PROVE  /\ obj' \in [Keys -> ObjectType \cup {None}] /\ shared' \subseteq Keys
         /\ DOMAIN staged' = Keys /\ \A k \in Keys : \A i \in DOMAIN staged'[k] : staged'[k][i] \in Pieces
         /\ \A k \in Keys : k # Target(t) => obj'[k] = obj[k] \/ (op[t].at = "delete" /\ obj'[k] = None)
<1>0. /\ obj \in [Keys -> ObjectType \cup {None}] /\ shared \subseteq Keys
      /\ DOMAIN staged = Keys /\ \A k \in Keys : \A i \in DOMAIN staged[k] : staged[k][i] \in Pieces
      /\ Target(t) \in Keys
  BY WorkWalks, TargetKey DEF WholeInv, StoreInv, TypeOK, StoreTypeOK, ShapesOK
<1>1. CASE UNCHANGED <<obj, staged, shared>>
  BY <1>0, <1>1
<1>2. CASE \E parts : Writing(t, parts)
  <2> PICK parts : Writing(t, parts)
    BY <1>2
  <2>1. parts \in Seq(Pieces) /\ Write(t, Target(t), parts) /\ UNCHANGED shared
        /\ staged' \in {staged, [staged EXCEPT ![Target(t)] = <<>>]}
    BY DEF Writing
  <2>2. obj' \in [Keys -> ObjectType \cup {None}] /\ \A j \in Keys : j # Target(t) => obj'[j] = obj[j]
    BY <1>0, <2>1, WriteEffect
  <2>3. DOMAIN staged' = Keys /\ \A k \in Keys : \A i \in DOMAIN staged'[k] : staged'[k][i] \in Pieces
    BY <1>0, <2>1
  <2> QED BY <1>0, <2>1, <2>2, <2>3
<1>3. CASE /\ op[t].at = "delete" /\ obj' = [obj EXCEPT ![op[t].key] = None]
           /\ UNCHANGED <<staged, shared>>
  BY <1>0, <1>3
<1>4. CASE UNCHANGED obj /\ \E i \in 1..Len(op[t].parts) : Uploaded(t, i)
  <2> PICK i \in 1..Len(op[t].parts) : Uploaded(t, i)
    BY <1>4
  <2>1. op[t].parts[i] \in Pieces
    BY Start, OpParts
  <2>2. shared' \subseteq Keys /\ (UNCHANGED staged \/ StageBlock(t, i))
    BY <1>0 DEF Uploaded
  <2>3. ASSUME StageBlock(t, i)
        PROVE  DOMAIN staged' = Keys /\ \A k \in Keys : \A j \in DOMAIN staged'[k] : staged'[k][j] \in Pieces
    <3> DEFINE f == [j \in DOMAIN staged[Target(t)] \cup {i} |->
                       IF j = i THEN op[t].parts[i] ELSE staged[Target(t)][j]]
    <3>1. staged' = [staged EXCEPT ![Target(t)] = f]
      BY <2>3 DEF StageBlock
    <3>2. \A j \in DOMAIN f : f[j] \in Pieces
      BY <1>0, <2>1
    <3> HIDE DEF f
    <3> QED BY <1>0, <3>1, <3>2
  <2> QED BY <1>0, <1>4, <2>2, <2>3
<1> QED BY <1>1, <1>2, <1>3, <1>4, ChangeSteps DEF Changes

LEMMA Reports ==
  ASSUME WholeInv, NEW t \in Tasks, NEW n \in Nat, Report(t, n)
  PROVE  /\ chan' \in [Tasks -> Nat] /\ \A u \in Tasks : u # t => chan'[u] = chan[u]
         /\ chan'[t] = IF op[t].kind \in LfsKinds THEN chan[t] + n ELSE chan[t]
  BY Start DEF Report, LfsKinds

LEMMA WorkFrame ==
  ASSUME WholeInv, NEW t \in Tasks, Works(t)
  PROVE  /\ chan' \in [Tasks -> Nat] /\ \A u \in Tasks : u # t => chan'[u] = chan[u]
         /\ DOMAIN file' = Tasks /\ \A u \in Tasks : u # t => file'[u] = file[u]
         /\ faults' \in 0..MaxFaults
<1>0. /\ chan \in [Tasks -> Nat] /\ DOMAIN file = Tasks /\ faults \in 0..MaxFaults /\ MaxFaults \in Nat
      /\ 1 \in Nat /\ Len(op[t].parts) \in Nat
  <2>1. op[t].parts \in Seq(Pieces)
    BY Start, OpParts
  <2>2. chan \in [Tasks -> Nat] /\ DOMAIN file = Tasks
    BY Start
  <2>3. faults \in 0..MaxFaults /\ MaxFaults \in Nat
    BY StoreAssumption DEF WholeInv, StoreInv, TypeOK, StoreTypeOK
  <2>4. Len(op[t].parts) \in Nat
    BY <2>1
  <2> QED BY <2>2, <2>3, <2>4
<1>1. UNCHANGED chan \/ \E n \in Nat : Report(t, n)
  BY <1>0 DEF Works, StoreStep, PutSingle, CreateUpload, CompleteUpload, CommitBlocks, AbortUpload, UploadPart,
     GetRange, HeadObject, GetOne, CopyOne, PutIfAbsent, Delete, GetBytesRange, Cancel, Kill
<1>2. UNCHANGED file \/ \E x : file' = [file EXCEPT ![t] = x]
  BY DEF Works, StoreStep, PutSingle, CreateUpload, CompleteUpload, CommitBlocks, AbortUpload, UploadPart,
     GetRange, HeadObject, HeadFound, GetOne, CopyOne, PutIfAbsent, Delete, GetBytesRange, Cancel, Kill, Persist
<1>3. UNCHANGED faults \/ Fault
  <2>1. ASSUME GetFails(t) PROVE UNCHANGED faults \/ Fault
    BY <2>1 DEF GetFails
  <2> QED BY <2>1 DEF Works, StoreStep, PutSingle, CreateUpload, CompleteUpload, CommitBlocks, AbortUpload,
     UploadPart, GetRange, HeadObject, GetOne, CopyOne, PutIfAbsent, Delete, GetBytesRange, Cancel, Kill, Unanswered
<1>4. faults' \in 0..MaxFaults
  BY <1>0, <1>3 DEF Fault
<1>5. chan' \in [Tasks -> Nat] /\ \A u \in Tasks : u # t => chan'[u] = chan[u]
  BY <1>0, <1>1, Reports
<1> QED BY <1>0, <1>2, <1>4, <1>5

-----------------------------------------------------------------------------
(* The steps of the system.                                                *)

\* A guard's abort of an upload.
Reclaims(u) ==
  /\ u \in aborting /\ aborting' = aborting \ {u}
  /\ \/ uploads' = uploads \ {u} /\ UNCHANGED orphans
     \/ orphans' = orphans \cup {u} /\ UNCHANGED uploads

\* No operation takes a step.
Still ==
  /\ UNCHANGED <<op, file, backend, obj, staged, shared>>
  /\ UNCHANGED <<uploads, aborting, orphans>> \/ \E u \in aborting : Reclaims(u)
  /\ ops' \in {ops, ops + 1} /\ ops' \in 0..MaxOps /\ faults' \in 0..MaxFaults
  /\ chan' \in [Tasks -> Nat]

Begins(t) == \E kind, k, to, b : CallOK(kind, k, to, b) /\ Begin(t, kind, k, to, b)

LEMMA CallBegins ==
  ASSUME WholeInv, NEW t \in Tasks, Call(t)
  PROVE  /\ \E kind \in Kinds \ LfsKinds, k \in Keys : \E to, b : CallOK(kind, k, to, b) /\ Begin(t, kind, k, to, b)
         /\ role[t] = "client" /\ UNCHANGED agentVars
<1>1. PICK k \in Keys \ {LfsKey}, b \in Bodies \ {LfsBody} :
        \/ \E kind \in {"put", "absent"} : Begin(t, kind, k, None, b)
        \/ \E kind \in {"get", "delete", "range"} : Begin(t, kind, k, None, None)
        \/ \E to \in Keys \ {LfsKey, k} : Begin(t, "copy", k, to, None)
  BY DEF Call
<1>2. /\ {"put", "absent", "get", "delete", "range", "copy"} \subseteq Kinds \ LfsKinds
      /\ \A kind \in {"put", "absent"} : CallOK(kind, k, None, b)
      /\ \A kind \in {"get", "delete", "range"} : CallOK(kind, k, None, None)
      /\ \A to \in Keys \ {LfsKey, k} : CallOK("copy", k, to, None)
  BY <1>1 DEF CallOK, Kinds, LfsKinds
<1> QED BY <1>1, <1>2 DEF Call

LEMMA TransferBegins ==
  ASSUME WholeInv, NEW t \in Tasks, NEW kind \in LfsKinds, Transfer(t, kind)
  PROVE  LET b == IF kind = "lfsput" THEN LfsBody ELSE None
         IN  CallOK(kind, LfsKey, None, b) /\ Begin(t, kind, LfsKey, None, b)
  BY LfsAssumption DEF Transfer, CallOK, Kinds, LfsKinds

\* A step of the loops that no operation takes part in.
Talks(t) == FirstEvent(t) \/ BadOid(t) \/ LastEvent(t) \/ Progress(t) \/ Complete(t)

LEMMA TalksStill ==
  ASSUME WholeInv, NEW t \in Tasks, Talks(t)
  PROVE  Still
<1>1. /\ ops \in 0..MaxOps /\ MaxOps \in Nat /\ faults \in 0..MaxFaults /\ chan \in [Tasks -> Nat]
  BY Start DEF WholeInv, StoreInv, TypeOK, StoreTypeOK
<1>2. CASE FirstEvent(t) \/ LastEvent(t)
  BY <1>1, <1>2 DEF FirstEvent, LastEvent, Still, service, history
<1>3. CASE BadOid(t)
  BY <1>1, <1>3 DEF BadOid, Still, service, history
<1>4. CASE Progress(t) \/ Complete(t)
  BY <1>1, <1>4 DEF Progress, Complete, Still, service, history
<1> QED BY <1>2, <1>3, <1>4 DEF Talks

LEMMA ConfigStill ==
  ASSUME WholeInv, Configure \/ Launch \/ UNCHANGED vars
  PROVE  Still /\ UNCHANGED <<chan, seen, created, ops>>
<1>1. /\ ops \in 0..MaxOps /\ MaxOps \in Nat /\ faults \in 0..MaxFaults /\ chan \in [Tasks -> Nat]
      /\ MaxFaults \in Nat
  BY Start, StoreAssumption DEF WholeInv, StoreInv, TypeOK, StoreTypeOK
<1>2. UNCHANGED <<op, file, chan, ops, seen, created, service, aborting, history>>
  BY DEF Configure, Launch, vars, storeVars
<1>3. UNCHANGED faults \/ Fault
  BY DEF Configure, Launch, vars, storeVars
<1>4. faults' \in 0..MaxFaults
  BY <1>1, <1>3 DEF Fault
<1> QED BY <1>1, <1>2, <1>4 DEF Still, service, history

LEMMA DetachedStill ==
  ASSUME WholeInv, NEW u \in aborting, AbortDetached(u)
  PROVE  Still
<1>1. /\ ops \in 0..MaxOps /\ MaxOps \in Nat /\ faults \in 0..MaxFaults /\ chan \in [Tasks -> Nat]
  BY StoreAssumption DEF WholeInv, StoreInv, TypeOK, StoreTypeOK
<1>2. UNCHANGED <<op, file, chan, ops, faults, backend, obj, staged, shared>> /\ Reclaims(u)
  BY DEF AbortDetached, Reclaims
<1> QED BY <1>1, <1>2 DEF Still

LEMMA StepKinds ==
  ASSUME WholeInv, [Next]_vars
  PROVE  /\ Still \/ \E t \in Tasks : Begins(t) \/ Works(t)
         /\ DOMAIN seen' = Tasks /\ (Track \/ (Still /\ UNCHANGED <<seen, created>>))
<1>1. CASE Configure \/ Launch \/ UNCHANGED vars
  <2>1. Still /\ seen' = seen /\ created' = created
    BY <1>1, ConfigStill, Zenon
  <2>2. DOMAIN seen = Tasks
    BY DEF WholeInv, StoreInv, ShapesOK
  <2> QED BY <2>1, <2>2
<1>2. ASSUME NEW t \in Tasks, Talks(t) \/ (\E kind \in {"lfsput", "lfsget"} : Transfer(t, kind))
                              \/ BrokenPipe(t) \/ Die(t) \/ Call(t) \/ Step(t)
      PROVE  Still \/ \E u \in Tasks : Begins(u) \/ Works(u)
  <2>1. CASE Talks(t)
    BY <2>1, TalksStill
  <2>2. CASE \E kind \in {"lfsput", "lfsget"} : Transfer(t, kind)
    BY <2>2, TransferBegins DEF Begins, LfsKinds
  <2>3. CASE Call(t)
    BY <2>3, CallBegins DEF Begins
  <2>4. CASE BrokenPipe(t) \/ Die(t) \/ Step(t)
    BY <2>4 DEF BrokenPipe, Die, Step, Works
  <2> QED BY <1>2, <2>1, <2>2, <2>3, <2>4
<1>3. Track => DOMAIN seen' = Tasks
  BY DEF Track, TrackSeen
<1>4. (\E u \in aborting : AbortDetached(u)) => Still
  BY DetachedStill
<1> QED BY <1>1, <1>2, <1>3, <1>4 DEF Next, Talks

LEMMA CreatedTyped ==
  ASSUME WholeInv, [Next]_vars
  PROVE  created' \in [Keys -> SUBSET Tasks]
<1>1. created \in [Keys -> SUBSET Tasks]
  BY DEF WholeInv, StoreInv, TypeOK, StoreTypeOK
<1>2. CASE Track
  BY <1>1, <1>2 DEF Track, TrackCreated
<1> QED BY <1>1, <1>2, StepKinds

LEMMA AgentTypes ==
  ASSUME TypeOK, [Next]_vars
  PROVE  /\ role' \in [Tasks -> {"none", "lfs", "client"}] /\ phase' \in [Tasks -> Phases]
         /\ sofar' \in [Tasks -> Nat] /\ last' \in [Tasks -> {"none", "ok", "skipped", "error"}]
         /\ asked' \in [Tasks -> Nat] /\ completed' \in [Tasks -> Nat]
<1>0. /\ role \in [Tasks -> {"none", "lfs", "client"}] /\ phase \in [Tasks -> Phases]
      /\ sofar \in [Tasks -> Nat] /\ last \in [Tasks -> {"none", "ok", "skipped", "error"}]
      /\ asked \in [Tasks -> Nat] /\ completed \in [Tasks -> Nat] /\ chan \in [Tasks -> Nat]
      /\ {"setup", "start", "ready", "busy", "exit", "failed"} \subseteq Phases
  BY DEF TypeOK, StoreTypeOK, Phases
<1>1. CASE Configure \/ UNCHANGED vars
  BY <1>0, <1>1 DEF Configure, vars, agentVars
<1>2. CASE Launch
  BY <1>0, <1>2 DEF Launch
<1>3. ASSUME NEW t \in Tasks, FirstEvent(t) \/ LastEvent(t)
      PROVE  phase' \in [Tasks -> Phases] /\ UNCHANGED <<role, sofar, last, asked, completed>>
  BY <1>0, <1>3 DEF FirstEvent, LastEvent
<1>4. ASSUME NEW t \in Tasks, BadOid(t)
      PROVE  /\ asked' \in [Tasks -> Nat] /\ completed' \in [Tasks -> Nat]
             /\ UNCHANGED <<role, phase, sofar, last>>
  BY <1>0, <1>4 DEF BadOid
<1>5. ASSUME NEW t \in Tasks, Progress(t)
      PROVE  sofar' \in [Tasks -> Nat] /\ UNCHANGED <<role, phase, last, asked, completed>>
  BY <1>0, <1>5 DEF Progress
<1>6. ASSUME NEW t \in Tasks, Complete(t)
      PROVE  /\ sofar' \in [Tasks -> Nat] /\ last' \in [Tasks -> {"none", "ok", "skipped", "error"}]
             /\ completed' \in [Tasks -> Nat] /\ phase' \in [Tasks -> Phases] /\ UNCHANGED <<role, asked>>
  BY <1>0, <1>6 DEF Complete, Drain
<1>7. ASSUME NEW t \in Tasks, \E kind \in {"lfsput", "lfsget"} : Transfer(t, kind)
      PROVE  /\ sofar' \in [Tasks -> Nat] /\ last' \in [Tasks -> {"none", "ok", "skipped", "error"}]
             /\ asked' \in [Tasks -> Nat] /\ phase' \in [Tasks -> Phases] /\ UNCHANGED <<role, completed>>
  BY <1>0, <1>7 DEF Transfer
<1>8. ASSUME NEW t \in Tasks, BrokenPipe(t) \/ Die(t)
      PROVE  phase' \in [Tasks -> Phases] /\ UNCHANGED <<role, sofar, last, asked, completed>>
  BY <1>0, <1>8 DEF BrokenPipe, Die
<1>9. ASSUME NEW t \in Tasks, Call(t) \/ Step(t)
      PROVE  UNCHANGED agentVars
  BY <1>9 DEF Call, Step
<1> QED
  BY <1>0, <1>1, <1>2, <1>3, <1>4, <1>5, <1>6, <1>7, <1>8, <1>9 DEF Next, agentVars

LEMMA TypesKept ==
  ASSUME WholeInv, [Next]_vars
  PROVE  TypeOK' /\ ShapesOK'
<1>0. /\ TypeOK /\ StoreTypeOK /\ ShapesOK /\ MaxOps \in Nat
  BY StoreAssumption DEF WholeInv, StoreInv, TypeOK
<1>a. created' \in [Keys -> SUBSET Tasks]
  BY CreatedTyped
<1>1. DOMAIN seen' = Tasks
  BY StepKinds
<1>2. StoreTypeOK' /\ DOMAIN staged' = Keys /\ DOMAIN file' = Tasks
      /\ \A k \in Keys : \A i \in DOMAIN staged'[k] : staged'[k][i] \in Pieces
  <2>1. CASE Still
    <3>1. UNCHANGED <<backend, obj, staged, op, file, shared>>
      BY <2>1 DEF Still
    <3>0. uploads' \subseteq uploads /\ aborting' \subseteq aborting /\ orphans' \subseteq orphans \cup aborting
      BY <2>1 DEF Still, Reclaims
    <3>2. 1..ops \subseteq 1..ops' /\ ops' \in 0..MaxOps /\ faults' \in 0..MaxFaults /\ chan' \in [Tasks -> Nat]
      BY <1>0, <2>1 DEF Still, StoreTypeOK
    <3>3. (1..ops) \X {0, 1} \subseteq (1..ops') \X {0, 1}
      BY <3>2
    <3>4. /\ uploads' \subseteq (1..ops') \X {0, 1} /\ aborting' \subseteq (1..ops') \X {0, 1}
          /\ orphans' \subseteq (1..ops') \X {0, 1} /\ (backend' = "azure" => uploads' = {})
      BY <1>0, <3>0, <3>1, <3>3 DEF StoreTypeOK
    <3> QED BY <1>0, <1>a, <3>1, <3>2, <3>4 DEF StoreTypeOK, ShapesOK
  <2>2. CASE \E t \in Tasks : Begins(t)
    <3> PICK t \in Tasks : Begins(t)
      BY <2>2
    <3> PICK kind, k, to, b : CallOK(kind, k, to, b) /\ Begin(t, kind, k, to, b)
      BY DEF Begins
    <3>1. /\ ops' = ops + 1 /\ ops' \in 0..MaxOps /\ op' \in [Tasks -> OpType]
          /\ chan' = [chan EXCEPT ![t] = 0] /\ file' = [file EXCEPT ![t] = None]
      BY BeginWalks DEF Begun
    <3>2. UNCHANGED <<backend, obj, uploads, aborting, staged, orphans, shared, faults>>
      BY DEF Begin, service, history
    <3>3. 1..ops \subseteq 1..ops' /\ chan' \in [Tasks -> Nat] /\ DOMAIN file' = Tasks
      BY <1>0, <3>1 DEF StoreTypeOK, ShapesOK
    <3>4. (1..ops) \X {0, 1} \subseteq (1..ops') \X {0, 1}
      BY <3>3
    <3>5. /\ uploads' \subseteq (1..ops') \X {0, 1} /\ aborting' \subseteq (1..ops') \X {0, 1}
          /\ orphans' \subseteq (1..ops') \X {0, 1}
      BY <1>0, <3>2, <3>4 DEF StoreTypeOK
    <3> QED BY <1>0, <1>a, <3>1, <3>2, <3>3, <3>5 DEF StoreTypeOK, ShapesOK
  <2>3. CASE \E t \in Tasks : Works(t)
    <3> PICK t \in Tasks : Works(t)
      BY <2>3
    <3>1. op' \in [Tasks -> OpType] /\ Running(t) /\ UNCHANGED <<backend, ops>>
      BY WorkWalks DEF Walks
    <3>2. UploadId(t) \in (1..ops) \X {0, 1}
      <4> PICK o \in OpType : o = op[t]
        BY Start, Zenon
      <4>1. o.at # "idle" /\ KeysOK(o, ops)
        BY <3>1, Start, Zenon DEF Running
      <4>2. o.id \in 1..ops
        BY <4>1 DEF KeysOK
      <4>3. o.tries \in {0, 1}
        BY DEF OpType
      <4> QED BY <4>2, <4>3 DEF UploadId
    <3>3. /\ uploads' \subseteq (1..ops) \X {0, 1} /\ orphans' \subseteq (1..ops) \X {0, 1}
          /\ aborting' \subseteq (1..ops) \X {0, 1} /\ (backend = "azure" => uploads' = {})
      BY <1>0, <3>2, UploadSteps DEF UploadsMove, StoreTypeOK
    <3>4. /\ obj' \in [Keys -> ObjectType \cup {None}] /\ shared' \subseteq Keys /\ DOMAIN staged' = Keys
          /\ \A k \in Keys : \A i \in DOMAIN staged'[k] : staged'[k][i] \in Pieces
      BY ObjectTypes
    <3>5. chan' \in [Tasks -> Nat] /\ DOMAIN file' = Tasks /\ faults' \in 0..MaxFaults
      BY WorkFrame
    <3> QED BY <1>0, <1>a, <3>1, <3>3, <3>4, <3>5 DEF StoreTypeOK
  <2> QED BY <2>1, <2>2, <2>3, StepKinds
<1> QED BY <1>0, <1>1, <1>2, AgentTypes DEF TypeOK, ShapesOK

LEMMA OpsKept ==
  ASSUME WholeInv, [Next]_vars
  PROVE  \A u \in Tasks : OpOK(u)'
<1> SUFFICES ASSUME NEW u \in Tasks PROVE OpOK(u)'
  OBVIOUS
<1>0. OpOK(u) /\ ops \in Nat /\ MaxOps \in Nat
  BY StoreAssumption DEF WholeInv, StoreInv, TypeOK, StoreTypeOK
<1>1. ASSUME op'[u] = op[u], backend' = backend, ops' \in Nat, ops <= ops' PROVE OpOK(u)'
  <2>1. KeysOK(op[u], ops') = KeysOK(op'[u], ops')
    BY <1>1
  <2>2. KeysOK(op[u], ops')
    BY <1>0, <1>1 DEF OpOK, KeysOK
  <2> QED BY <1>0, <1>1, <2>2 DEF OpOK
<1>2. CASE Still
  <2>1. op' = op /\ backend' = backend /\ ops' \in {ops, ops + 1}
    BY <1>2 DEF Still, service
  <2> QED BY <1>0, <1>1, <2>1
<1>3. ASSUME NEW t \in Tasks, Begins(t) PROVE OpOK(u)'
  <2> PICK kind, k, to, b : CallOK(kind, k, to, b) /\ Begin(t, kind, k, to, b)
    BY <1>3 DEF Begins
  <2>1. Begun(t, kind, k) /\ backend' = backend
    BY BeginWalks DEF Begin, service
  <2> QED BY <1>0, <1>1, <2>1 DEF Begun
<1>4. ASSUME NEW t \in Tasks, Works(t) PROVE OpOK(u)'
  BY <1>0, <1>1, <1>4, WorkWalks DEF Walks
<1> QED BY <1>2, <1>3, <1>4, StepKinds

LEMMA UploadsKept ==
  ASSUME WholeInv, [Next]_vars
  PROVE  IdsOK' /\ (UploadsReclaimed => UploadsReclaimed')
<1>0. IdsOK /\ op \in [Tasks -> OpType] /\ uploads \subseteq (1..ops) \X {0, 1} /\ ops \in Nat /\ MaxOps \in Nat
      /\ \A t \in Tasks : Running(t) => op[t].id \in 1..ops
  <2>1. \A t \in Tasks : Running(t) => op[t].id \in 1..ops
    BY DEF WholeInv, StoreInv, OpOK, KeysOK, Running
  <2> QED BY <2>1, StoreAssumption DEF WholeInv, StoreInv, TypeOK, StoreTypeOK
<1>1. CASE Still
  <2>1. op' = op /\ (UNCHANGED <<uploads, aborting, orphans>> \/ \E u \in aborting : Reclaims(u))
    BY <1>1 DEF Still
  <2>2. uploads' \subseteq uploads
    BY <2>1 DEF Reclaims
  <2>3. ASSUME NEW x \in uploads', x \in aborting \cup orphans PROVE x \in aborting' \cup orphans'
    BY <2>1, <2>3 DEF Reclaims
  <2> QED BY <1>0, <2>1, <2>2, <2>3 DEF IdsOK, UploadsReclaimed, Running, UploadId
<1>2. ASSUME NEW t \in Tasks, Begins(t) PROVE IdsOK' /\ (UploadsReclaimed => UploadsReclaimed')
  <2> PICK kind, k, to, b : CallOK(kind, k, to, b) /\ Begin(t, kind, k, to, b)
    BY <1>2 DEF Begins
  <2>1. /\ \A u \in Tasks : u # t => op'[u] = op[u]
        /\ op[t].at = "idle" /\ op'[t].id = ops + 1
    BY BeginWalks DEF Begun
  <2>2. UNCHANGED <<uploads, aborting, orphans>>
    BY DEF Begin, service, history
  <2>3. (\A n \in {0, 1} : <<ops + 1, n>> \notin uploads) /\ \A u \in Tasks : Running(u) => op[u].id # ops + 1
    BY <1>0
  <2> QED BY <1>0, <2>1, <2>2, <2>3 DEF IdsOK, UploadsReclaimed, Running, UploadId
<1>3. ASSUME NEW t \in Tasks, Works(t) PROVE IdsOK' /\ (UploadsReclaimed => UploadsReclaimed')
  <2>1. /\ \A u \in Tasks : u # t => op'[u] = op[u]
        /\ op'[t].at # "idle" => op'[t].id = op[t].id
        /\ Running(t)
    BY <1>3, WorkWalks DEF Walks
  <2>2. UploadsMove(t)
    BY <1>3, UploadSteps
  <2>3. ASSUME NEW u \in Tasks, u # t, Running(u) PROVE op[u].id # op[t].id
    BY <1>0, <2>1, <2>3 DEF IdsOK
  <2>4. IdsOK'
    <3>1. ASSUME NEW u \in Tasks, NEW v \in Tasks, Running(u)', Running(v)', op'[u].id = op'[v].id
          PROVE  u = v
      BY <1>0, <2>1, <2>3, <3>1 DEF IdsOK, Running
    <3>2. ASSUME NEW u \in Tasks, NEW n \in {0, 1}, Running(u)', op'[u].at \notin Uploading,
                 op'[u].at = "create" => op'[u].tries <= n
          PROVE  <<op'[u].id, n>> \notin uploads'
      <4>1. CASE u = t
        <5>1. op'[t].at \notin Uploading \cup {"idle"} /\ op'[t].id = op[t].id
          BY <2>1, <3>2, <4>1 DEF Running
        <5>2. <<op[t].id, n>> \notin uploads'
          BY <2>2, <3>2, <4>1, <5>1 DEF UploadsMove
        <5> QED BY <4>1, <5>1, <5>2
      <4>2. CASE u # t
        <5>1. op'[u] = op[u] /\ Running(u)
          BY <2>1, <3>2, <4>2 DEF Running
        <5>2. <<op[u].id, n>> \notin uploads
          BY <1>0, <3>2, <5>1 DEF IdsOK
        <5>3. <<op[u].id, n>> # UploadId(t)
          BY <2>3, <4>2, <5>1 DEF UploadId
        <5> QED BY <2>2, <5>1, <5>2, <5>3 DEF UploadsMove
      <4> QED BY <4>1, <4>2
    <3> QED BY <3>1, <3>2 DEF IdsOK
  <2>5. ASSUME UploadsReclaimed, NEW x \in uploads'
        PROVE  x \in aborting' \cup orphans' \/ \E u \in Tasks : Running(u)' /\ UploadId(u)' = x
    <3>1. CASE x = UploadId(t)
      BY <2>1, <2>2, <2>5, <3>1 DEF UploadsMove, Uploading, Running, UploadId
    <3>2. CASE x # UploadId(t)
      <4>1. x \in aborting \cup orphans \/ \E u \in Tasks : Running(u) /\ UploadId(u) = x
        BY <2>2, <2>5, <3>2 DEF UploadsMove, UploadsReclaimed
      <4>2. ASSUME NEW u \in Tasks, Running(u), UploadId(u) = x PROVE Running(u)' /\ UploadId(u)' = x
        <5>1. op'[u] = op[u]
          BY <2>1, <3>2, <4>2
        <5> QED BY <4>2, <5>1 DEF Running, UploadId
      <4> QED BY <2>2, <4>1, <4>2 DEF UploadsMove
    <3> QED BY <3>1, <3>2
  <2> QED BY <2>4, <2>5 DEF UploadsReclaimed
<1> QED BY <1>1, <1>2, <1>3, StepKinds

-----------------------------------------------------------------------------
(* Whole objects.                                                          *)

\* A commit of blocks that no other body was staged for has its body.
LEMMA ListBody ==
  ASSUME WholeInv, NEW t \in Tasks, op[t].at = "complete", backend = "azure", Target(t) \notin shared,
         \A i \in 1..Len(op[t].parts) : Latest(Target(t), i) # None
  PROVE  ListOf(t) = op[t].parts
<1>1. /\ op[t].parts \in Seq(Pieces) /\ op[t].done \in Seq(Nat \X Pieces)
      /\ DoneOK(op[t]) /\ PendingOK(t)
  BY Start, OpParts DEF WholeInv
<1> PICK parts \in Seq(Pieces), done \in Seq(Nat \X Pieces) : parts = op[t].parts /\ done = op[t].done
  BY <1>1
<1>2. /\ Len(done) = Len(parts)
      /\ \A j \in 1..Len(done) : done[j][1] \in 1..Len(parts) /\ done[j][2] = parts[done[j][1]]
      /\ \A i, j \in 1..Len(done) : done[i][1] = done[j][1] => i = j
  BY <1>1 DEF DoneOK
<1>3. \A i \in 1..Len(parts) : \E j \in 1..Len(done) : done[j][1] = i
  BY <1>2, AllDone
<1>4. \A j \in 1..Len(done) : Latest(Target(t), done[j][1]) \in {None, done[j][2]}
  BY <1>1 DEF PendingOK, Staging
<1>5. ASSUME NEW i \in 1..Len(parts) PROVE Latest(Target(t), i) = parts[i]
  <2> PICK j \in 1..Len(done) : done[j][1] = i
    BY <1>3
  <2> QED BY <1>2, <1>4
<1>6. ListOf(t) = [i \in 1..Len(parts) |-> Latest(Target(t), i)]
  BY DEF ListOf, Parts
<1>7. parts = [i \in 1..Len(parts) |-> parts[i]]
  OBVIOUS
<1> QED BY <1>5, <1>6, <1>7

LEMMA LfsWhole == Whole(Content(LfsBody))
  BY LfsAssumption DEF Whole

LEMMA WrittenBody ==
  ASSUME WholeInv, NEW t \in Tasks, NEW parts, Writing(t, parts)
  PROVE  /\ Target(t) = LfsKey => parts = Content(LfsBody) /\ op[t].kind = "lfsput"
         /\ shared = {} => Whole(parts)
<1> PICK o \in OpType : o = op[t]
  BY Start
<1>1. /\ StageOK(o, backend) /\ KeysOK(o, ops) /\ BodyOK(o, backend) /\ backend \in {"s3", "azure"}
      /\ o.at \in {"single", "absent", "complete", "copyone"} /\ None \notin Keys /\ LfsKey \in Keys
      /\ LfsKey \notin shared
  BY Start, LfsAssumption DEF Writing, WholeInv, ObjectsOK
<1>2. o.kind \in {"put", "lfsput", "copy", "absent"}
  BY <1>1 DEF StageOK, Writes
<1>3. Target(t) = LfsKey => o.kind = "lfsput"
  BY <1>1, <1>2 DEF Target, KeysOK, LfsKinds
<1>4. shared = {} \/ Target(t) = LfsKey => parts = o.parts \/ (o.kind = "copy" /\ o.at = "copyone")
  BY <1>1, ListBody DEF Writing, StageOK
<1>5. o.kind = "copy" /\ o.at = "copyone" /\ shared = {} => Whole(parts)
  <2> SUFFICES ASSUME o.kind = "copy", o.at = "copyone", shared = {} PROVE Whole(parts)
    OBVIOUS
  <2>1. obj[o.key] # None /\ parts = obj[o.key].parts /\ o.key \in Keys
    BY <1>1 DEF Writing, SourceUnchanged, KeysOK
  <2> QED BY <2>1 DEF WholeInv, ObjectsOK
<1>6. /\ o.kind = "lfsput" => o.parts = Content(LfsBody)
      /\ o.kind \in {"put", "absent"} => Whole(o.parts)
      /\ o.kind = "copy" /\ o.at # "copyone" /\ shared = {} => Whole(o.parts)
  <2>1. o.kind = "copy" => o.at # "absent"
    BY <1>1 DEF StageOK
  <2> QED BY <1>1, <2>1 DEF BodyOK, WholeInv, ObjectsOK
<1> QED BY <1>2, <1>3, <1>4, <1>5, <1>6, LfsWhole

\* The agents all stage the same body for their key.
LEMMA LfsUncontended ==
  ASSUME WholeInv, NEW t \in Tasks, op[t].at \in Staging, Target(t) = LfsKey
  PROVE  ~Contended(t)
<1>1. ASSUME NEW u \in Tasks, op[u].at \in Staging, Target(u) = LfsKey PROVE op[u].parts = Content(LfsBody)
  <2>1. op[u].kind = "lfsput"
    BY <1>1, Start, LfsAssumption DEF StageOK, KeysOK, Target, LfsKinds, Staging, Writes
  <2> QED BY <1>1, <2>1, Start DEF BodyOK, Staging
<1> QED BY <1>1 DEF Contended, Staging

\* The body of an operation is the one it had, or what its key holds.
Bodied == {"single", "create", "parts", "complete", "getone", "ranges", "copyone"}

LEMMA BodyMoves ==
  ASSUME WholeInv, NEW t \in Tasks, Works(t), op'[t].at \in Bodied
  PROVE  \/ /\ op'[t].parts = op[t].parts
            /\ op[t].at \in {"create", "parts", "ranges"} \/ (op[t].at = "head" /\ op[t].kind = "lfsput")
         \/ /\ op[t].at \in {"head", "getone"} /\ op[t].kind \in {"get", "lfsget", "copy"}
            /\ obj[op[t].key] # None /\ op'[t].parts = obj[op[t].key].parts
<1>0. op'[t].at \notin {"idle", "head", "abort", "delete"}
  BY DEF Bodied
<1>1. CASE CreateUpload(t)
  <2>1. op[t].at = "create" /\ (Goto(t, "parts") \/ Unanswered(t))
    BY <1>1 DEF CreateUpload, At
  <2>2. CASE Goto(t, "parts")
    BY <2>1, <2>2, Start, Goes DEF Stages
  <2>3. CASE Unanswered(t)
    BY <1>0, <2>1, <2>3, Start, Unanswers DEF Ended, Again
  <2> QED BY <2>1, <2>2, <2>3
<1>2. CASE \E i \in 1..Len(op[t].parts) : UploadPart(t, i)
  <2> PICK i \in 1..Len(op[t].parts) : UploadPart(t, i)
    BY <1>2
  <2>1. backend = "s3" \/ backend = "azure"
    BY Start
  <2>2. Uploaded(t, i)
    BY <1>0, <2>1, UploadWalks DEF UploadFailed, Ended
  <2> QED BY <2>2 DEF Uploaded, Continues, UploadPart, At
<1>3. CASE \E i \in 1..Len(op[t].parts) : GetRange(t, i)
  <2> PICK i \in 1..Len(op[t].parts) : GetRange(t, i)
    BY <1>3
  <2> QED BY <1>0, GetRangeWalks DEF GetFailed, Ended, Continues, GetRange, At
<1>4. CASE GetOne(t)
  <2>1. op[t].at = "getone" /\ op[t].kind \in {"get", "lfsget", "copy"}
    BY <1>4, Start DEF GetOne, At, StageOK, Reads
  <2> QED BY <1>0, <1>4, <2>1, GetOneWalks DEF GetFailed, Ended, Persisted
<1>5. CASE HeadObject(t)
  <2>1. op[t].at = "head" /\ HeadLeads(t)
    BY <1>5, HeadWalks DEF HeadObject, At
  <2> PICK o : o = obj[op[t].key]
    OBVIOUS
  <2>2. CASE Goto(t, PutStage(Len(op[t].parts))) /\ op[t].kind = "lfsput"
    BY <2>1, <2>2, Start, Goes, PutStageStages
  <2>3. CASE \E stage \in {"create", "copyone", "ranges", "getone"} :
               Looked(t, o, stage) /\ o # None /\ op[t].kind \in {"get", "lfsget", "copy"}
    <3>1. o \in ObjectType
      BY <2>1, <2>3, Start, TargetKey DEF Running
    <3> QED BY <2>1, <2>3, <3>1, Looks DEF Stages
  <2>4. op'[t].at = "delete" \/ ~Goto(t, "delete")
    BY Start, Goes DEF Stages
  <2> QED BY <1>0, <2>1, <2>2, <2>3, <2>4 DEF HeadLeads, Ended, Reads
<1>6. CASE PutSingle(t) \/ CompleteUpload(t) \/ CommitBlocks(t) \/ AbortUpload(t) \/ CopyOne(t) \/ PutIfAbsent(t)
           \/ Delete(t) \/ (\E from, to \in RangeEnds : GetBytesRange(t, from, to)) \/ Cancel(t) \/ Kill(t)
  <2>1. PutSingle(t) => op'[t].at = "idle"
    <3>1. op[t].parts \in Seq(Pieces) /\ <<0, 0>> \in Nat \X Nat /\ {"ok", "error"} \subseteq Results
      BY Start, OpParts DEF Results
    <3> QED BY <3>1, Start, Ends, EndsWith DEF PutSingle, Wrote, Ended
  <2>2. op'[t].at \in {"idle", "absent"}
    BY <1>6, <2>1, CompleteWalks, CommitWalks, AbortWalks, CopyOneWalks, AbsentWalks, DeleteWalks, RangeWalks,
       CancelWalks DEF Ended, Again, PutIfAbsent, At
  <2> QED BY <1>0, <2>2 DEF Bodied
<1> QED BY <1>1, <1>2, <1>3, <1>4, <1>5, <1>6 DEF Works, StoreStep

LEMMA SharedGrows ==
  ASSUME WholeInv, NEW t \in Tasks, Works(t)
  PROVE  shared \subseteq shared' /\ LfsKey \notin shared'
<1>1. LfsKey \notin shared
  BY DEF WholeInv, ObjectsOK
<1>2. ASSUME NEW i, op[t].at = "parts", Uploaded(t, i) PROVE shared \subseteq shared' /\ LfsKey \notin shared'
  BY <1>1, <1>2, LfsUncontended DEF Uploaded, Staging
<1> QED BY <1>1, <1>2, ChangeSteps DEF Changes, Writing

LEMMA ObjectsKept ==
  ASSUME WholeInv, [Next]_vars
  PROVE  ObjectsOK'
<1>0. /\ ObjectsOK /\ op \in [Tasks -> OpType] /\ obj \in [Keys -> ObjectType \cup {None}] /\ LfsKey \in Keys
      /\ None \notin ObjectType
  BY LfsAssumption, StoreAssumption DEF WholeInv, StoreInv, TypeOK, StoreTypeOK
<1>1. CASE Still
  <2>1. UNCHANGED <<op, obj, shared>>
    BY <1>1 DEF Still, service, history
  <2> QED BY <1>0, <2>1 DEF ObjectsOK
<1>2. ASSUME NEW t \in Tasks, Begins(t) PROVE ObjectsOK'
  <2> PICK kind, k, to, b : CallOK(kind, k, to, b) /\ Begin(t, kind, k, to, b)
    BY <1>2 DEF Begins
  <2>1. /\ \A u \in Tasks : u # t => op'[u] = op[u]
        /\ op'[t].kind = "copy" => op'[t].at = "head"
    BY BeginWalks DEF Begun
  <2>2. UNCHANGED <<obj, shared>>
    BY DEF Begin, service, history
  <2> QED BY <1>0, <2>1, <2>2 DEF ObjectsOK
<1>3. ASSUME NEW t \in Tasks, Works(t) PROVE ObjectsOK'
  <2>0. /\ Walks(t) /\ shared \subseteq shared' /\ LfsKey \notin shared' /\ Changes(t) /\ Running(t)
        /\ Target(t) \in Keys /\ op[t].key \in Keys
    BY <1>3, WorkWalks, SharedGrows, ChangeSteps, TargetKey
  <2>1. ASSUME NEW k \in Keys, obj'[k] # obj[k], obj'[k] # None
        PROVE  /\ k = LfsKey => obj'[k].parts = Content(LfsBody)
               /\ shared = {} => Whole(obj'[k].parts)
    <3>1. CASE UNCHANGED obj
      BY <2>1, <3>1
    <3>2. CASE \E parts : Writing(t, parts)
      <4> PICK parts : Writing(t, parts)
        BY <3>2
      <4>1. k = Target(t) /\ obj'[k].parts = parts
        BY <2>0, <2>1, WriteEffect DEF Writing
      <4> QED BY <4>1, WrittenBody
    <3>3. CASE obj' = [obj EXCEPT ![op[t].key] = None]
      BY <1>0, <2>1, <3>3
    <3> QED BY <2>0, <3>1, <3>2, <3>3 DEF Changes
  <2>2. ASSUME shared = {}, op'[t].kind = "copy", op'[t].at \in {"single", "create", "parts", "complete"}
        PROVE  Whole(op'[t].parts)
    <3>1. op[t].kind = "copy"
      BY <2>0, <2>2 DEF Walks
    <3>2. \/ op'[t].parts = op[t].parts /\ op[t].at \in {"create", "parts", "ranges"}
          \/ obj[op[t].key] # None /\ op'[t].parts = obj[op[t].key].parts
      BY <1>3, <2>2, <3>1, BodyMoves DEF Bodied
    <3>3. op[t].at # "ranges"
      BY <3>1, Start DEF StageOK, Reads
    <3> QED BY <1>0, <2>0, <2>2, <3>1, <3>2, <3>3 DEF ObjectsOK
  <2>3. shared' = {} => shared = {}
    BY <2>0
  <2>4. \A u \in Tasks : u # t => op'[u] = op[u]
    BY <2>0 DEF Walks
  <2>5. shared' = {} => \A k \in Keys : obj'[k] = None \/ Whole(obj'[k].parts)
    BY <1>0, <2>1, <2>3 DEF ObjectsOK
  <2>6. obj'[LfsKey] = None \/ obj'[LfsKey].parts = Content(LfsBody)
    BY <1>0, <2>1 DEF ObjectsOK
  <2>7. shared' = {} => \A u \in Tasks :
          op'[u].kind = "copy" /\ op'[u].at \in {"single", "create", "parts", "complete"} => Whole(op'[u].parts)
    BY <1>0, <2>2, <2>3, <2>4 DEF ObjectsOK
  <2> QED BY <2>0, <2>5, <2>6, <2>7 DEF ObjectsOK
<1> QED BY <1>1, <1>2, <1>3, StepKinds

\* What a commit would find under a name in Azure changes by a block that is
\* staged for it; otherwise it stays or goes.
LEMMA LatestMoves ==
  ASSUME WholeInv, NEW t \in Tasks, Works(t), backend = "azure", NEW k \in Keys, NEW n
  PROVE  \/ Latest(k, n)' \in {None, Latest(k, n)}
         \/ k = Target(t) /\ Uploaded(t, n) /\ Latest(k, n)' = op[t].parts[n]
<1>0. /\ obj \in [Keys -> ObjectType \cup {None}] /\ DOMAIN staged = Keys /\ Target(t) \in Keys
      /\ op[t].key \in Keys
  BY WorkWalks, TargetKey DEF WholeInv, StoreInv, TypeOK, StoreTypeOK, ShapesOK
<1>1. CASE UNCHANGED <<obj, staged>>
  BY <1>1 DEF Latest
<1>2. CASE \E parts : Writing(t, parts)
  <2> PICK parts : Writing(t, parts)
    BY <1>2
  <2>1. /\ parts \in Seq(Pieces) /\ staged' = [staged EXCEPT ![Target(t)] = <<>>]
        /\ obj'[Target(t)].parts = parts
        /\ obj'[Target(t)].blocks = (backend # "s3" /\ op[t].at = "complete")
        /\ \A j \in Keys : j # Target(t) => obj'[j] = obj[j]
    BY WriteEffect DEF Writing
  <2>2. CASE k # Target(t)
    <3>1. obj'[k] = obj[k] /\ staged'[k] = staged[k]
      BY <1>0, <2>1, <2>2
    <3> QED BY <3>1 DEF Latest
  <2>3. CASE k = Target(t)
    <3>1. staged'[k] = <<>> /\ obj'[k].parts = parts
      BY <1>0, <2>1, <2>3
    <3>2. n \notin DOMAIN staged'[k]
      BY <3>1
    <3>3. obj'[k].blocks => op[t].at = "complete" /\ parts = ListOf(t)
      BY <2>1, <2>3 DEF Writing
    <3>4. n \in DOMAIN ListOf(t) => ListOf(t)[n] = Latest(k, n)
      BY <2>3 DEF ListOf
    <3>5. Latest(k, n)' = IF obj'[k] # None /\ obj'[k].blocks /\ n \in DOMAIN parts THEN parts[n] ELSE None
      BY <3>1, <3>2 DEF Latest
    <3> QED BY <3>3, <3>4, <3>5
  <2> QED BY <2>2, <2>3
<1>3. CASE obj' = [obj EXCEPT ![op[t].key] = None] /\ UNCHANGED staged
  <2>1. obj'[k] = None \/ obj'[k] = obj[k]
    BY <1>0, <1>3
  <2> QED BY <1>3, <2>1 DEF Latest
<1>4. CASE UNCHANGED obj /\ \E i \in 1..Len(op[t].parts) : Uploaded(t, i)
  <2> PICK i \in 1..Len(op[t].parts) : Uploaded(t, i)
    BY <1>4
  <2> DEFINE f == [j \in DOMAIN staged[Target(t)] \cup {i} |->
                     IF j = i THEN op[t].parts[i] ELSE staged[Target(t)][j]]
  <2>1. staged' = [staged EXCEPT ![Target(t)] = f]
    BY DEF Uploaded, StageBlock
  <2>2. /\ DOMAIN f = DOMAIN staged[Target(t)] \cup {i} /\ f[i] = op[t].parts[i]
        /\ \A j \in DOMAIN staged[Target(t)] : j # i => f[j] = staged[Target(t)][j]
    OBVIOUS
  <2> HIDE DEF f
  <2>3. CASE k # Target(t)
    <3>1. staged'[k] = staged[k]
      BY <1>0, <2>1, <2>3
    <3> QED BY <1>4, <3>1 DEF Latest
  <2>4. CASE k = Target(t)
    <3>1. staged'[k] = f
      BY <1>0, <2>1, <2>4
    <3>2. CASE n = i
      BY <2>2, <2>4, <3>1, <3>2 DEF Latest
    <3>3. CASE n # i
      BY <1>4, <2>2, <2>4, <3>1, <3>3 DEF Latest
    <3> QED BY <3>2, <3>3
  <2> QED BY <2>3, <2>4
<1> QED BY <1>1, <1>2, <1>3, <1>4, ChangeSteps DEF Changes

LEMMA StagingMoves ==
  ASSUME WholeInv, NEW t \in Tasks, Works(t), op'[t].at \in Staging
  PROVE  op'[t].done = <<>> \/ \E i \in 1..Len(op[t].parts) : Uploaded(t, i)
<1>0. op'[t].at \in {"parts", "complete"}
  BY DEF Staging
<1>1. CASE HeadObject(t)
  <2>1. op[t].at = "head" /\ HeadLeads(t)
    BY <1>1, HeadWalks DEF HeadObject, At
  <2>2. CASE op[t].kind = "lfsput" /\ Goto(t, PutStage(Len(op[t].parts)))
    <3>1. op'[t].done = op[t].done
      BY <2>2, Start, Goes, PutStageStages
    <3>2. op[t].done = <<>>
      BY <2>1, <2>2, Start DEF DoneOK
    <3> QED BY <3>1, <3>2
  <2>3. ASSUME NEW o, NEW stage \in {"create", "copyone", "ranges", "getone"}, Looked(t, o, stage),
               o = obj[op[t].key], o # None
        PROVE  FALSE
    <3>1. o \in ObjectType
      BY <2>1, <2>3, Start, TargetKey DEF Running
    <3> QED BY <1>0, <2>3, <3>1, Looks DEF Stages
  <2>4. op'[t].at = "delete" \/ ~Goto(t, "delete")
    BY Start, Goes DEF Stages
  <2> QED BY <1>0, <2>1, <2>2, <2>3, <2>4 DEF HeadLeads, Ended
<1>2. CASE GetOne(t)
  BY <1>0, <1>2, GetOneWalks DEF GetFailed, Ended, Persisted
<1>3. CASE \E i \in 1..Len(op[t].parts) : GetRange(t, i)
  BY <1>0, <1>3, GetRangeWalks DEF GetFailed, Ended, Continues
<1>4. CASE \E i \in 1..Len(op[t].parts) : UploadPart(t, i)
  <2> PICK i \in 1..Len(op[t].parts) : UploadPart(t, i)
    BY <1>4
  <2> QED BY <1>0, UploadWalks DEF UploadFailed, Ended
<1>5. CASE CreateUpload(t)
  BY <1>0, <1>5, CreateWalks DEF CreateUpload, At
<1>6. CASE ~(HeadObject(t) \/ GetOne(t) \/ CreateUpload(t) \/ \E i \in 1..Len(op[t].parts) : GetRange(t, i) \/ UploadPart(t, i))
  <2>1. op[t].at \in Bodied \cup {"absent", "delete", "range", "abort", "head"}
    BY Start, WorkWalks DEF Running, Stages, OpType, Bodied
  <2>2. \/ op'[t].parts = op[t].parts /\ (op[t].at \in {"create", "parts", "ranges"} \/ op[t].at = "head")
        \/ op[t].at \in {"head", "getone"}
    BY <1>0, BodyMoves DEF Bodied
  <2>3. op[t].at \in {"create", "parts", "ranges", "head", "getone"}
    BY <2>2
  <2>4. Cancel(t) \/ Kill(t)
    BY <1>6, <2>3 DEF Works, StoreStep, PutSingle, CompleteUpload, CommitBlocks, AbortUpload, CopyOne, PutIfAbsent,
       Delete, GetBytesRange, At
  <2> QED BY <1>0, <2>4, CancelWalks
<1> QED BY <1>1, <1>2, <1>3, <1>4, <1>5, <1>6

LEMMA PendingKept ==
  ASSUME WholeInv, [Next]_vars
  PROVE  \A u \in Tasks : PendingOK(u)'
<1> SUFFICES ASSUME NEW u \in Tasks, backend' = "azure", op'[u].at \in Staging, Target(u)' \notin shared',
                    NEW j \in 1..Len(op'[u].done)
             PROVE  Latest(Target(u), op[u].done[j][1])' \in {None, op'[u].done[j][2]}
  BY DEF PendingOK, Staging
<1>1. CASE Still
  <2>1. UNCHANGED <<op, obj, staged, shared, backend>>
    BY <1>1 DEF Still, service, history
  <2> QED BY <2>1 DEF WholeInv, PendingOK, Target, Latest
<1>2. ASSUME NEW t \in Tasks, Begins(t)
      PROVE  Latest(Target(u), op[u].done[j][1])' \in {None, op'[u].done[j][2]}
  <2> PICK kind, k, to, b : CallOK(kind, k, to, b) /\ Begin(t, kind, k, to, b)
    BY <1>2 DEF Begins
  <2>1. /\ \A v \in Tasks : v # t => op'[v] = op[v]
        /\ op'[t].done = <<>>
    BY BeginWalks DEF Begun
  <2>2. UNCHANGED <<obj, staged, shared, backend>>
    BY DEF Begin, service, history
  <2>3. u # t
    BY <2>1
  <2> QED BY <2>1, <2>2, <2>3 DEF WholeInv, PendingOK, Target, Latest
<1>3. ASSUME NEW t \in Tasks, Works(t)
      PROVE  Latest(Target(u), op[u].done[j][1])' \in {None, op'[u].done[j][2]}
  <2>0. /\ Walks(t) /\ backend = "azure" /\ shared \subseteq shared' /\ Target(t) \in Keys
    BY <1>3, WorkWalks, SharedGrows, TargetKey
  <2> PICK k : k = Target(u)'
    OBVIOUS
  <2> PICK n : n = op'[u].done[j][1]
    OBVIOUS
  <2>1. CASE u # t
    <3>1. op'[u] = op[u] /\ Target(u)' = k /\ k \notin shared' /\ k \notin shared
      BY <2>0, <2>1 DEF Walks, Target
    <3>2. k \in Keys /\ Latest(k, n) \in {None, op[u].done[j][2]}
      <4>1. k = Target(u) /\ op[u].at \in Staging /\ j \in 1..Len(op[u].done) /\ n = op[u].done[j][1]
        BY <3>1 DEF Target
      <4>2. PendingOK(u) /\ k \in Keys
        BY <4>1, TargetKey DEF WholeInv, Staging, Running
      <4> QED BY <2>0, <3>1, <4>1, <4>2 DEF PendingOK
    <3>3. CASE Latest(k, n)' \in {None, Latest(k, n)}
      BY <3>1, <3>2, <3>3 DEF Latest
    <3>4. CASE k = Target(t) /\ Uploaded(t, n) /\ Latest(k, n)' = op[t].parts[n]
      <4>1. op[u].done[j][2] = op[u].parts[n]
        <5>1. DoneOK(op[u])
          BY Start
        <5>2. /\ op[u].at \in {"parts", "complete", "ranges"} /\ j \in 1..Len(op[u].done)
              /\ n = op[u].done[j][1]
          BY <3>1 DEF Staging
        <5> QED BY <5>1, <5>2, DonePart
      <4>2. ~Contended(t)
        BY <2>0, <3>1, <3>4 DEF Uploaded
      <4>3. op[u].parts = op[t].parts
        <5>1. Target(u) = Target(t) /\ op[u].at \in Staging /\ u \in Tasks \ {t}
          BY <2>1, <3>1, <3>4 DEF Target
        <5> QED BY <4>2, <5>1 DEF Contended, Staging
      <4> QED BY <3>1, <3>4, <4>1, <4>3 DEF Latest
    <3> QED BY <1>3, <2>0, <3>2, <3>3, <3>4, LatestMoves
  <2>2. CASE u = t
    <3>1. PICK i \in 1..Len(op[t].parts) : Uploaded(t, i)
      BY <1>3, <2>2, StagingMoves
    <3>2. /\ Target(t)' = Target(t) /\ op'[t].at \in Staging /\ k = Target(t) /\ k \notin shared
          /\ Grown(op'[t].done, op[t].done) /\ op'[t].done[Len(op'[t].done)] = <<i, op[t].parts[i]>>
          /\ op'[t].parts = op[t].parts
      BY <2>0, <2>2, <3>1 DEF Walks, Target, Uploaded, Continues, Staging
    <3>3. op'[t].done[j][2] = op[t].parts[n]
      BY <2>0, <2>2, <3>2 DEF Walks, OpOK, DoneOK, Staging
    <3>4. Latest(k, n)' \in {None, op[t].parts[n]}
      <4>1. StageBlock(t, i) /\ DOMAIN staged = Keys
        BY <2>0, <3>1, Start DEF Uploaded
      <4>2. CASE n = i
        BY <2>0, <3>2, <4>1, <4>2 DEF StageBlock, Latest
      <4>3. CASE n # i
        <5>1. j \in 1..Len(op[t].done) /\ op'[t].done[j] = op[t].done[j]
          <6>1. n = op'[t].done[j][1] /\ j \in 1..Len(op'[t].done)
            BY <2>2
          <6>2. j # Len(op'[t].done)
            BY <3>2, <4>3, <6>1
          <6> QED BY <3>2, <6>1, <6>2 DEF Grown
        <5>2. Latest(k, n) \in {None, op[t].done[j][2]}
          BY <2>0, <2>2, <3>1, <3>2, <5>1 DEF WholeInv, PendingOK, Staging, Uploaded
        <5>3. Latest(k, n)' \in {None, Latest(k, n)} \/ Latest(k, n)' = op[t].parts[n]
          BY <1>3, <2>0, <3>2, LatestMoves
        <5> QED BY <2>2, <3>3, <5>1, <5>2, <5>3
      <4> QED BY <4>2, <4>3
    <3> QED BY <2>2, <3>2, <3>3, <3>4 DEF Latest
  <2> QED BY <2>1, <2>2
<1> QED BY <1>1, <1>2, <1>3, StepKinds

LEMMA WholeKept == WholeInv /\ [Next]_vars => WholeInv'
  BY TypesKept, OpsKept, UploadsKept, ObjectsKept, PendingKept DEF WholeInv, StoreInv

LEMMA WholeInit == Init => WholeInv /\ UploadsReclaimed
<1> SUFFICES ASSUME Init PROVE WholeInv /\ UploadsReclaimed
  OBVIOUS
<1>1. /\ backend \in Backends /\ obj = [k \in Keys |-> None] /\ uploads = {} /\ aborting = {}
      /\ created = [k \in Keys |-> {}] /\ staged = [k \in Keys |-> <<>>] /\ op = [t \in Tasks |-> Idle]
      /\ file = [t \in Tasks |-> None] /\ chan = [t \in Tasks |-> 0] /\ ops = 0 /\ faults = 0
      /\ seen = [t \in Tasks |-> {}] /\ orphans = {} /\ shared = {}
      /\ role = [t \in Tasks |-> "none"] /\ phase = [t \in Tasks |-> "setup"]
      /\ sofar = [t \in Tasks |-> 0] /\ last = [t \in Tasks |-> "none"]
      /\ asked = [t \in Tasks |-> 0] /\ completed = [t \in Tasks |-> 0]
  BY DEF Init, StoreInit
<1>2. \A t \in Tasks : op[t].at = "idle" /\ op[t].kind = "none"
  BY <1>1 DEF Idle
<1>3. op \in [Tasks -> OpType]
  <2> PICK i \in OpType : i = Idle
    BY IdleOp
  <2> QED BY <1>1
<1>4. TypeOK
  <2>1. MaxOps \in Nat /\ MaxFaults \in Nat
    BY StoreAssumption
  <2>2. StoreTypeOK
    BY <1>1, <1>3, <2>1 DEF StoreTypeOK
  <2> QED BY <1>1, <2>2 DEF TypeOK, Phases
<1>5. ShapesOK
  BY <1>1 DEF ShapesOK
<1>6. IdsOK /\ UploadsReclaimed
  BY <1>1, <1>2 DEF IdsOK, UploadsReclaimed, Running
<1>7. ASSUME NEW t \in Tasks PROVE OpOK(t) /\ PendingOK(t)
  BY <1>2, <1>7 DEF OpOK, StageOK, KeysOK, DoneOK, BodyOK, PendingOK, Staging
<1>8. ObjectsOK
  BY <1>1, <1>2, LfsAssumption DEF ObjectsOK
<1> QED BY <1>4, <1>5, <1>6, <1>7, <1>8 DEF WholeInv, StoreInv

\* Objects are whole: uploads in parts, copies and commits of blocks put the
\* parts of one body in order, whoever else is at work on the key and
\* whatever fails in between.
THEOREM WholeCorrect == Spec => []WholeObjects
<1>1. Init => WholeInv
  BY WholeInit
<1>2. WholeInv => WholeObjects
  BY DEF WholeInv, ObjectsOK, WholeObjects
<1> QED BY <1>1, <1>2, WholeKept, PTL DEF Spec

\* No upload stays open without an operation that runs, but for the ones
\* whose process could not abort them.
THEOREM ReclaimCorrect == Spec => []UploadsReclaimed
<1>1. WholeInv /\ UploadsReclaimed /\ [Next]_vars => UploadsReclaimed'
  BY UploadsKept
<1> QED BY <1>1, WholeInit, WholeKept, PTL DEF Spec

-----------------------------------------------------------------------------
(* The configuration.                                                      *)

Commands == {"install", "enable-debug", "disable-debug"}

\* Half an agent is never there to be found.
FileOK(f) == DOMAIN f = ConfigKeys /\ f.path = f.standalone

SetupShape ==
  /\ DOMAIN setup = {"file", "lock", "by", "commands", "installed", "lost"}
  /\ DOMAIN setup.by = Writers
  /\ \A t \in Writers : DOMAIN setup.by[t] = {"at", "cmd", "seen"}
  /\ setup.installed \in BOOLEAN /\ setup.lost \in BOOLEAN

\* A command that has read the agent finds it when it reports success, or
\* else something was lost.
SetupInv ==
  /\ SetupShape /\ FileOK(setup.file)
  /\ \A t \in Writers : setup.by[t].at # "idle" => setup.by[t].cmd \in Commands /\ FileOK(setup.by[t].seen)
  /\ ~setup.lost =>
       /\ setup.installed => setup.file.path.last = <<"own">>
       /\ \A t \in Writers : setup.by[t].at # "idle" /\ setup.by[t].seen.path.last = <<"own">> =>
            setup.file.path.last = <<"own">>

LEMMA Mutated ==
  ASSUME NEW f, FileOK(f), NEW cmd \in Commands
  PROVE  /\ FileOK(Mutate(cmd, f))
         /\ IF cmd = "install" THEN Mutate(cmd, f).path.last = <<"own">> ELSE Mutate(cmd, f).path = f.path
<1>1. CASE cmd = "install"
  BY <1>1 DEF Mutate, install, config_set_many, Lines, FileOK, ConfigKeys
<1>2. CASE cmd = "enable-debug"
  BY <1>2 DEF Mutate, enable_debug, config_set_many, FileOK, ConfigKeys
<1>3. CASE cmd = "disable-debug"
  BY <1>3 DEF Mutate, disable_debug, config_unset, FileOK, ConfigKeys
<1> QED BY <1>1, <1>2, <1>3 DEF Commands

\* A new repository, or one after the agents have started.
LEMMA Unconfigured ==
  ASSUME NEW f, FileOK(f), setup' = Repository(f)
  PROVE  SetupInv'
  BY DEF Repository, NoWriter, SetupInv, SetupShape, FileOK

LEMMA SetupStarts == Init => SetupInv
<1> SUFFICES ASSUME Init PROVE SetupInv
  OBVIOUS
<1> PICK cfg \in Files : setup = Repository(cfg)
  BY DEF Init, SetupInit
<1>1. FileOK(cfg)
  BY DEF Files, ConfigFile, FileOK, ConfigKeys
<1> QED BY <1>1 DEF Repository, NoWriter, SetupInv, SetupShape, FileOK

LEMMA ConfigKept ==
  ASSUME SetupInv, NEW t \in Writers, ConfigStep(t) \/ ConfigFails(t)
  PROVE  SetupInv'
<1> PICK w : w = setup.by[t]
  OBVIOUS
<1>0. /\ SetupShape /\ FileOK(setup.file)
      /\ w.at # "idle" => w.cmd \in Commands /\ FileOK(w.seen)
  BY DEF SetupInv
<1>1. CASE ReadConfig(t)
  <2> PICK cmd \in Commands :
        setup' = [setup EXCEPT !.commands = @ + 1, !.by[t] = [at |-> "read", cmd |-> cmd, seen |-> setup.file]]
    BY <1>1 DEF ReadConfig, Commands
  <2> DEFINE v == [at |-> "read", cmd |-> cmd, seen |-> setup.file]
  <2>1. /\ setup'.file = setup.file /\ setup'.installed = setup.installed /\ setup'.lost = setup.lost
        /\ setup'.by = [setup.by EXCEPT ![t] = v]
        /\ DOMAIN setup' = DOMAIN setup
    BY <1>0 DEF SetupShape
  <2>2. v.cmd \in Commands /\ v.seen = setup.file /\ DOMAIN v = {"at", "cmd", "seen"}
    OBVIOUS
  <2> HIDE DEF v
  <2>3. setup'.by[t] = v /\ (\A u \in Writers : u # t => setup'.by[u] = setup.by[u]) /\ DOMAIN setup'.by = Writers
    BY <1>0, <2>1 DEF SetupShape
  <2> QED BY <1>0, <2>1, <2>2, <2>3 DEF SetupInv, SetupShape
<1>2. CASE ConfigSame(t)
  <2>1. /\ w.at = "read" /\ Mutate(w.cmd, w.seen) = w.seen
        /\ setup' = [setup EXCEPT !.by[t] = NoWriter, !.installed = @ \/ w.cmd = "install"]
    BY <1>2 DEF ConfigSame
  <2>2. /\ setup'.file = setup.file /\ setup'.installed = (setup.installed \/ w.cmd = "install")
        /\ setup'.lost = setup.lost /\ setup'.by = [setup.by EXCEPT ![t] = NoWriter]
        /\ DOMAIN setup' = DOMAIN setup
    BY <1>0, <2>1 DEF SetupShape
  <2>3. setup'.by[t] = NoWriter /\ (\A u \in Writers : u # t => setup'.by[u] = setup.by[u])
        /\ DOMAIN setup'.by = Writers
    BY <1>0, <2>2 DEF SetupShape
  <2>4. w.cmd = "install" /\ ~setup.lost => setup.file.path.last = <<"own">>
    BY <1>0, <2>1, Mutated DEF SetupInv
  <2>5. NoWriter.at = "idle" /\ DOMAIN NoWriter = {"at", "cmd", "seen"}
    BY DEF NoWriter
  <2> QED BY <1>0, <2>2, <2>3, <2>4, <2>5 DEF SetupInv, SetupShape
<1>3. CASE LockConfig(t)
  <2>1. /\ w.at = "read"
        /\ setup' = IF setup.lock = {} THEN [setup EXCEPT !.lock = {t}, !.by[t].at = "write"]
                    ELSE [setup EXCEPT !.by[t] = NoWriter]
    BY <1>3 DEF LockConfig
  <2>2. PICK v \in {NoWriter, [w EXCEPT !.at = "write"]} :
          /\ setup'.file = setup.file /\ setup'.installed = setup.installed
          /\ setup'.lost = setup.lost /\ setup'.by = [setup.by EXCEPT ![t] = v]
          /\ DOMAIN setup' = DOMAIN setup
    BY <1>0, <2>1 DEF SetupShape
  <2>3. DOMAIN v = {"at", "cmd", "seen"} /\ (v.at = "idle" \/ (v.cmd = w.cmd /\ v.seen = w.seen))
    <3>1. DOMAIN w = {"at", "cmd", "seen"}
      BY <1>0 DEF SetupShape
    <3>2. CASE v = NoWriter
      BY <3>2 DEF NoWriter
    <3>3. CASE v = [w EXCEPT !.at = "write"]
      BY <3>1, <3>3
    <3> QED BY <3>2, <3>3
  <2>4. setup'.by[t] = v /\ (\A u \in Writers : u # t => setup'.by[u] = setup.by[u]) /\ DOMAIN setup'.by = Writers
    BY <1>0, <2>2 DEF SetupShape
  <2> QED BY <1>0, <2>1, <2>2, <2>3, <2>4 DEF SetupInv, SetupShape
<1>4. CASE Rename(t)
  <2>1. /\ w.at = "write"
        /\ setup' = [setup EXCEPT !.file = Mutate(w.cmd, w.seen), !.lock = {}, !.by[t] = NoWriter,
                                  !.installed = @ \/ w.cmd = "install",
                                  !.lost = @ \/ w.seen # setup.file]
    BY <1>4 DEF Rename
  <2> PICK g : g = Mutate(w.cmd, w.seen)
    OBVIOUS
  <2>2. /\ setup'.file = g /\ setup'.installed = (setup.installed \/ w.cmd = "install")
        /\ setup'.lost = (setup.lost \/ w.seen # setup.file)
        /\ setup'.by = [setup.by EXCEPT ![t] = NoWriter] /\ DOMAIN setup' = DOMAIN setup
    BY <1>0, <2>1 DEF SetupShape
  <2>3. setup'.by[t] = NoWriter /\ (\A u \in Writers : u # t => setup'.by[u] = setup.by[u])
        /\ DOMAIN setup'.by = Writers
    BY <1>0, <2>2 DEF SetupShape
  <2>4. FileOK(g) /\ IF w.cmd = "install" THEN g.path.last = <<"own">> ELSE g.path = w.seen.path
    BY <1>0, <2>1, Mutated
  <2>5. NoWriter.at = "idle" /\ DOMAIN NoWriter = {"at", "cmd", "seen"}
    BY DEF NoWriter
  <2> QED BY <1>0, <2>2, <2>3, <2>4, <2>5 DEF SetupInv, SetupShape
<1>5. CASE ConfigFails(t)
  <2>1. PICK left : setup' = [setup EXCEPT !.lock = left, !.by[t] = NoWriter]
    BY <1>5 DEF ConfigFails
  <2>2. /\ setup'.file = setup.file /\ setup'.installed = setup.installed
        /\ setup'.lost = setup.lost /\ setup'.by = [setup.by EXCEPT ![t] = NoWriter]
        /\ DOMAIN setup' = DOMAIN setup
    BY <1>0, <2>1 DEF SetupShape
  <2>3. setup'.by[t] = NoWriter /\ (\A u \in Writers : u # t => setup'.by[u] = setup.by[u])
        /\ DOMAIN setup'.by = Writers
    BY <1>0, <2>2 DEF SetupShape
  <2>4. NoWriter.at = "idle" /\ DOMAIN NoWriter = {"at", "cmd", "seen"}
    BY DEF NoWriter
  <2> QED BY <1>0, <2>2, <2>3, <2>4 DEF SetupInv, SetupShape
<1> QED BY <1>1, <1>2, <1>3, <1>4, <1>5 DEF ConfigStep

LEMMA SetupKept == SetupInv /\ [Next]_vars => SetupInv'
<1> SUFFICES ASSUME SetupInv, [Next]_vars PROVE SetupInv'
  OBVIOUS
<1>1. CASE Configure
  BY <1>1, ConfigKept DEF Configure
<1>2. CASE Launch
  <2>1. FileOK(ConfigFile(Lines(<<>>, <<>>), Lines(<<>>, <<>>)))
    BY DEF ConfigFile, FileOK, ConfigKeys
  <2> QED BY <1>2, <2>1, Unconfigured DEF Launch
<1>3. CASE UNCHANGED setup
  BY <1>3 DEF SetupInv, SetupShape
<1> QED BY <1>1, <1>2, <1>3 DEF Next, vars

\* The keys of the agent change together, and a successful install lasts, but
\* for what a command writes back that had read the file before.
THEOREM InstallCorrect == Spec => []InstallKept
<1>1. SetupInv => InstallKept
  BY DEF SetupInv, FileOK, InstallKept
<1> QED BY <1>1, SetupStarts, SetupKept, PTL DEF Spec

-----------------------------------------------------------------------------
(* Snapshots.                                                              *)

\* The file changes when the operation ends.
LEMMA FileMoves ==
  ASSUME WholeInv, NEW t \in Tasks, Works(t), op'[t].at # "idle"
  PROVE  file' = file
<1>1. HeadObject(t) => file' = file
  BY HeadWalks DEF HeadLeads, Ended
<1>2. GetOne(t) => file' = file
  BY GetOneWalks DEF Persisted, Ended
<1>3. \A i : GetRange(t, i) => file' = file
  BY GetRangeWalks DEF Ended
<1>4. \A from, to \in RangeEnds : ~GetBytesRange(t, from, to)
  BY RangeWalks DEF Ended
<1> QED
  BY <1>1, <1>2, <1>3, <1>4 DEF Works, StoreStep, PutSingle, CreateUpload, CompleteUpload, CommitBlocks, AbortUpload,
     UploadPart, CopyOne, PutIfAbsent, Delete, Cancel, Kill

\* What a download leaves.
LEMMA ReadResult ==
  ASSUME WholeInv, NEW t \in Tasks, Works(t), op'[t].at = "idle", op[t].kind \in Reads
  PROVE  IF op'[t].res = "ok"
         THEN \/ op[t].at = "ranges" /\ file'[t] = op[t].parts
              \/ obj[op[t].key] # None /\ file'[t] = obj[op[t].key].parts
         ELSE file'[t] = file[t]
<1>0. op[t].at \in {"head", "getone", "ranges"} /\ DOMAIN file = Tasks /\ obj[op[t].key] = obj[op[t].key]
  BY WorkWalks, Start DEF Running, StageOK, Reads, OpType, Stages, Writes
<1>1. CASE HeadObject(t)
  <2>1. HeadLeads(t)
    BY <1>1, HeadWalks
  <2>2. CASE \E res \in {"notfound", "error"} : Ended(t, res, <<>>) /\ UNCHANGED file
    BY <2>2 DEF Ended
  <2>3. CASE obj[op[t].key] # None /\ obj[op[t].key].parts = <<>> /\ Ended(t, "ok", <<>>)
             /\ file' = [file EXCEPT ![t] = <<>>]
    BY <1>0, <2>3 DEF Ended
  <2>4. ASSUME NEW stage \in {"create", "copyone", "ranges", "getone"}, Looked(t, obj[op[t].key], stage),
               obj[op[t].key] # None
        PROVE  FALSE
    <3>1. obj[op[t].key] \in ObjectType
      BY <2>4, Start, WorkWalks, TargetKey
    <3> QED BY <2>4, <3>1, Looks DEF Stages
  <2> QED BY <2>1, <2>2, <2>3, <2>4 DEF HeadLeads, Reads
<1>2. CASE GetOne(t)
  BY <1>0, <1>2, GetOneWalks DEF GetFailed, Ended, Persisted, Reads
<1>3. CASE \E i \in 1..Len(op[t].parts) : GetRange(t, i)
  <2> PICK i \in 1..Len(op[t].parts) : GetRange(t, i)
    BY <1>3
  <2>1. op[t].at = "ranges"
    BY DEF GetRange, At
  <2> QED BY <1>0, <2>1, GetRangeWalks DEF GetFailed, Ended, Continues
<1>4. CASE Cancel(t) \/ Kill(t)
  <2>1. op'[t].res # "ok" /\ file' = file
    BY <1>4, CancelWalks DEF Cancel, Kill
  <2> QED BY <2>1
<1> QED
  BY <1>0, <1>1, <1>2, <1>3, <1>4 DEF Works, StoreStep, PutSingle, CreateUpload, CompleteUpload, CommitBlocks,
     AbortUpload, UploadPart, CopyOne, PutIfAbsent, Delete, GetBytesRange, At

\* What a copy has copied.
LEMMA CopyResult ==
  ASSUME WholeInv, NEW t \in Tasks, Works(t), op'[t].at = "idle", op[t].kind = "copy", op'[t].res = "ok", shared = {}
  PROVE  \/ op[t].at \in {"single", "complete"} /\ op'[t].parts = op[t].parts
         \/ obj[op[t].key] # None /\ op'[t].parts = obj[op[t].key].parts
<1>0. op[t].parts \in Seq(Pieces) /\ <<0, 0>> \in Nat \X Nat /\ {"ok", "error"} \subseteq Results
  BY Start, OpParts DEF Results
<1>1. CASE PutSingle(t)
  BY <1>0, <1>1, Start, Ends, EndsWith DEF PutSingle, Wrote, Ended, At
<1>2. CASE CompleteUpload(t)
  BY <1>2, CompleteWalks DEF CompleteUpload, Ended, At
<1>3. CASE CommitBlocks(t)
  <2>1. op[t].at = "complete" /\ backend = "azure" /\ op'[t].parts = ListOf(t)
    BY <1>3, CommitWalks DEF CommitBlocks, Ended, At
  <2>2. \A i \in DOMAIN ListOf(t) : ListOf(t)[i] # None
    <3>1. \/ \A i \in DOMAIN ListOf(t) : ListOf(t)[i] # None
          \/ Finish(t, "error")
      BY <1>3 DEF CommitBlocks, ListOf
    <3>2. Finish(t, "error") => op'[t].res = "error"
      BY <1>0, Start, Ends DEF Ended
    <3> QED BY <3>1, <3>2
  <2>3. \A i \in 1..Len(op[t].parts) : Latest(Target(t), i) # None
    BY <2>2 DEF ListOf, Parts
  <2> QED BY <2>1, <2>3, ListBody
<1>4. CASE CopyOne(t)
  BY <1>4, CopyOneWalks DEF Ended, SourceUnchanged
<1>5. CASE HeadObject(t)
  <2>1. HeadLeads(t)
    BY <1>5, HeadWalks
  <2>2. ASSUME NEW stage \in {"create", "copyone", "ranges", "getone"}, Looked(t, obj[op[t].key], stage),
               obj[op[t].key] # None
        PROVE  FALSE
    <3>1. obj[op[t].key] \in ObjectType
      BY <2>2, Start, WorkWalks, TargetKey
    <3> QED BY <2>2, <3>1, Looks DEF Stages
  <2> QED BY <2>1, <2>2 DEF HeadLeads, Ended, Reads
<1>6. CASE GetOne(t)
  BY <1>6, GetOneWalks DEF GetFailed, Ended, Persisted, Reads
<1>7. CASE CreateUpload(t) \/ AbortUpload(t) \/ (\E i \in 1..Len(op[t].parts) : UploadPart(t, i)) \/ Cancel(t) \/ Kill(t)
  <2>1. op'[t].res # "ok" \/ op'[t].at # "idle"
    BY <1>7, CreateWalks, AbortWalks, UploadWalks, CancelWalks DEF Ended, Uploaded, UploadFailed, Staging
  <2> QED BY <2>1
<1>8. op[t].at \notin {"ranges", "absent", "delete", "range"}
  BY Start DEF StageOK, Reads
<1> QED
  BY <1>1, <1>2, <1>3, <1>4, <1>5, <1>6, <1>7, <1>8 DEF Works, StoreStep, GetRange, PutIfAbsent, Delete,
     GetBytesRange, At

\* What a ranged read and a conditional creation answer.
LEMMA RangeResult ==
  ASSUME WholeInv, NEW t \in Tasks, Works(t), op'[t].at = "idle", op[t].kind = "range", op'[t].res = "ok"
  PROVE  Len(file'[t]) = op'[t].ends[2] - op'[t].ends[1]
<1>0. op[t].at = "range" /\ DOMAIN file = Tasks /\ op \in [Tasks -> OpType]
  BY WorkWalks, Start DEF Running, StageOK, Reads, OpType, Stages, Writes
<1>1. ASSUME NEW from \in RangeEnds, NEW to \in RangeEnds, GetBytesRange(t, from, to)
      PROVE  Len(file'[t]) = op'[t].ends[2] - op'[t].ends[1]
  <2>0. from \in Nat /\ to \in Nat /\ <<>> \in Seq(Pieces) /\ <<from, to>> \in Nat \X Nat
        /\ {"ok", "error", "range", "notfound"} \subseteq Results
    BY StoreAssumption DEF RangeEnds, Results
  <2>1. ASSUME NEW res \in Results, Finish(t, res) PROVE op'[t].res = res /\ op'[t].ends = <<0, 0>>
    <3>1. <<0, 0>> \in Nat \X Nat
      OBVIOUS
    <3> QED BY <1>0, <2>0, <2>1, <3>1, EndsWith DEF Finish, Ended
  <2>2. \/ Finish(t, "ok") /\ file' = [file EXCEPT ![t] = <<>>]
        \/ \E res \in {"error", "range", "notfound"} : Finish(t, res)
        \/ \E body : /\ RangeOk(body, from, to) /\ FinishWith(t, "ok", <<>>, <<from, to>>)
                     /\ file' = [file EXCEPT ![t] = body]
    BY <1>1 DEF GetBytesRange
  <2>3. CASE Finish(t, "ok") /\ file' = [file EXCEPT ![t] = <<>>]
    BY <1>0, <2>0, <2>1, <2>3
  <2>4. CASE \E res \in {"error", "range", "notfound"} : Finish(t, res)
    BY <2>0, <2>1, <2>4
  <2>5. ASSUME NEW body, RangeOk(body, from, to), FinishWith(t, "ok", <<>>, <<from, to>>),
               file' = [file EXCEPT ![t] = body]
        PROVE  Len(file'[t]) = op'[t].ends[2] - op'[t].ends[1]
    <3>1. op'[t].ends = <<from, to>>
      <4> PICK none \in Seq(Pieces), ends \in Nat \X Nat : none = <<>> /\ ends = <<from, to>>
        BY <2>0
      <4>1. FinishWith(t, "ok", none, ends) /\ "ok" \in Results
        BY <2>0, <2>5
      <4>2. op'[t].ends = ends
        <5>1. op \in [Tasks -> OpType]
          BY <1>0
        <5> QED BY <4>1, <5>1, EndsWith, Zenon
      <4> QED BY <4>2
    <3>2. Len(body) = to - from
      BY <2>5 DEF RangeOk
    <3>3. file'[t] = body
      BY <1>0, <2>5
    <3> QED BY <3>1, <3>2, <3>3
  <2> QED BY <2>2, <2>3, <2>4, <2>5
<1>2. CASE Cancel(t) \/ Kill(t)
  BY <1>2, CancelWalks
<1> QED
  BY <1>0, <1>1, <1>2 DEF Works, StoreStep, PutSingle, CreateUpload, CompleteUpload, CommitBlocks, AbortUpload,
     UploadPart, GetRange, HeadObject, GetOne, CopyOne, PutIfAbsent, Delete, At

LEMMA AbsentResult ==
  ASSUME WholeInv, NEW t \in Tasks, Works(t), op'[t].at = "idle", op[t].kind = "absent", op'[t].res = "false"
  PROVE  obj[op[t].key] # None \/ obj'[op[t].key] # None
<1>0. op[t].at = "absent" /\ op[t].key \in Keys /\ op[t].parts \in Seq(Pieces)
  BY WorkWalks, Start, OpParts DEF Running, StageOK, Reads, OpType, Stages, Writes, KeysOK
<1>1. CASE PutIfAbsent(t)
  <2>1. Unanswered(t) => op'[t].at = op[t].at \/ op'[t].res = "error"
    BY Start, Unanswers DEF Ended, Again
  <2>2. obj[op[t].key] # None \/ Write(t, op[t].key, op[t].parts)
    BY <1>0, <1>1, <2>1 DEF PutIfAbsent
  <2> QED BY <1>0, <2>2, WriteEffect
<1>2. CASE Cancel(t) \/ Kill(t)
  BY <1>2, CancelWalks
<1> QED
  BY <1>0, <1>1, <1>2 DEF Works, StoreStep, PutSingle, CreateUpload, CompleteUpload, CommitBlocks, AbortUpload,
     UploadPart, GetRange, HeadObject, GetOne, CopyOne, GetBytesRange, Delete, At

\* What is remembered of a key.
Tracked == {"get", "lfsget", "copy", "absent"}

LEMMA Tracks ==
  ASSUME Track, NEW u \in Tasks
  PROVE  /\ op[u].at = "idle" /\ op'[u].at = "idle" => seen'[u] = seen[u]
         /\ op[u].at # "idle" /\ op'[u].kind \in Tracked =>
              /\ seen[u] \subseteq seen'[u]
              /\ Bytes(obj[op[u].key]) \in seen'[u] /\ Bytes(obj'[op[u].key]) \in seen'[u]
<1>1. ASSUME op[u].at = "idle", op'[u].at = "idle" PROVE seen'[u] = seen[u]
  BY <1>1 DEF Track, TrackSeen
<1>2. ASSUME op[u].at # "idle", op'[u].kind \in Tracked
      PROVE  seen'[u] = seen[u] \cup {Bytes(obj[op[u].key]), Bytes(obj'[op[u].key])}
  BY <1>2 DEF Track, TrackSeen, Tracked
<1> QED BY <1>1, <1>2

LEMMA SnapSame ==
  ASSUME NEW u \in Tasks, SeenOK(u), ResultOK(u), op'[u] = op[u], file'[u] = file[u], shared \subseteq shared',
         seen'[u] = seen[u] \/ Track
  PROVE  SeenOK(u)' /\ ResultOK(u)'
<1>1. shared' = {} => shared = {}
  OBVIOUS
<1>2. CASE op[u].at = "idle"
  <2>1. seen'[u] = seen[u]
    BY <1>2, Tracks
  <2> QED BY <1>1, <1>2, <2>1 DEF SeenOK, ResultOK
<1>3. CASE op[u].at # "idle"
  <2>1. op[u].kind \in Tracked => seen[u] \subseteq seen'[u]
    BY <1>3, Tracks
  <2> QED BY <1>3, <2>1 DEF SeenOK, ResultOK, Tracked
<1> QED BY <1>2, <1>3

LEMMA SnapWorks ==
  ASSUME SnapshotInv, NEW t \in Tasks, Works(t), Track
  PROVE  SeenOK(t)' /\ ResultOK(t)'
<1>0. /\ WholeInv /\ SeenOK(t) /\ ResultOK(t) /\ Walks(t) /\ Running(t) /\ file[t] = None
      /\ op'[t].kind = op[t].kind /\ op[t].at # "idle" /\ shared \subseteq shared'
  BY WorkWalks, SharedGrows DEF SnapshotInv, SeenOK, Running, Walks
<1> PICK k \in Keys : k = op[t].key
  BY <1>0, TargetKey
<1>1. op[t].kind \in Tracked =>
        seen[t] \subseteq seen'[t] /\ Bytes(obj[k]) \in seen'[t] /\ Bytes(obj'[k]) \in seen'[t]
  BY <1>0, Tracks
<1>2. /\ obj[k] # None => Bytes(obj[k]) = obj[k].parts /\ obj[k].parts # None
      /\ obj'[k] # None => Bytes(obj'[k]) = obj'[k].parts /\ obj'[k].parts # None
  <2>1. obj[k] \in ObjectType \cup {None} /\ obj'[k] \in ObjectType \cup {None}
    BY <1>0, Start, ObjectTypes
  <2>2. \A o \in ObjectType : o.parts \in Seq(Pieces)
    BY DEF ObjectType
  <2> QED BY <2>1, <2>2, StoreAssumption DEF Bytes
<1>3. CASE op'[t].at # "idle"
  <2>1. file'[t] = None
    BY <1>0, <1>3, FileMoves
  <2>2. ASSUME op[t].kind \in {"get", "lfsget", "copy"},
               op'[t].at \in {"single", "create", "parts", "complete", "ranges", "copyone"}
        PROVE  op'[t].parts \in seen'[t]
    <3>1. \/ op'[t].parts = op[t].parts /\ op[t].at \in {"create", "parts", "ranges"}
          \/ obj[k] # None /\ op'[t].parts = obj[k].parts
      BY <1>0, <2>2, BodyMoves DEF Bodied
    <3> QED BY <1>0, <1>1, <1>2, <2>2, <3>1 DEF SeenOK, Tracked
  <2> QED BY <1>0, <1>3, <2>1, <2>2 DEF SeenOK, ResultOK
<1>4. CASE op'[t].at = "idle"
  <2>1. ASSUME op[t].kind \in Reads
        PROVE  IF op'[t].res = "ok" THEN file'[t] \in seen'[t] \ {None} ELSE file'[t] = None
    <3>1. IF op'[t].res = "ok"
          THEN \/ op[t].at = "ranges" /\ file'[t] = op[t].parts
               \/ obj[k] # None /\ file'[t] = obj[k].parts
          ELSE file'[t] = None
      BY <1>0, <1>4, <2>1, ReadResult
    <3>2. op[t].at = "ranges" => op[t].parts \in seen[t]
      BY <1>0, <2>1 DEF SeenOK, Reads
    <3>3. op[t].parts # None
      BY <1>0, Start, OpParts, StoreAssumption
    <3> QED BY <1>1, <1>2, <2>1, <3>1, <3>2, <3>3 DEF Reads, Tracked
  <2>2. ASSUME op[t].kind = "copy", shared' = {}, op'[t].res = "ok" PROVE op'[t].parts \in seen'[t]
    <3>1. \/ op[t].at \in {"single", "complete"} /\ op'[t].parts = op[t].parts
          \/ obj[k] # None /\ op'[t].parts = obj[k].parts
      <4>1. shared = {}
        BY <1>0, <2>2
      <4> QED BY <1>0, <1>4, <2>2, <4>1, CopyResult
    <3> QED BY <1>0, <1>1, <1>2, <2>2, <3>1 DEF SeenOK, Tracked
  <2>3. op[t].kind = "range" /\ op'[t].res = "ok" => Len(file'[t]) = op'[t].ends[2] - op'[t].ends[1]
    BY <1>0, <1>4, RangeResult
  <2>4. ASSUME op[t].kind = "absent", op'[t].res = "false" PROVE seen'[t] # {None}
    <3>1. obj[k] # None \/ obj'[k] # None
      BY <1>0, <1>4, <2>4, AbsentResult
    <3> QED BY <1>1, <1>2, <2>4, <3>1 DEF Tracked
  <2> QED BY <1>0, <1>4, <2>1, <2>2, <2>3, <2>4 DEF SeenOK, ResultOK
<1> QED BY <1>3, <1>4

LEMMA SnapshotKept == SnapshotInv /\ [Next]_vars => SnapshotInv'
<1> SUFFICES ASSUME SnapshotInv, [Next]_vars, NEW u \in Tasks PROVE SeenOK(u)' /\ ResultOK(u)'
  BY WholeKept DEF SnapshotInv
<1>0. WholeInv /\ SeenOK(u) /\ ResultOK(u)
  BY DEF SnapshotInv
<1>1. seen'[u] = seen[u] \/ Track
  <2>1. CASE Configure \/ Launch \/ UNCHANGED vars
    <3>1. seen' = seen
      BY <1>0, <2>1, ConfigStill, Zenon
    <3> QED BY <3>1
  <2> QED BY <2>1 DEF Next
<1>2. CASE Still
  <2>1. UNCHANGED <<op, file, shared>>
    BY <1>2 DEF Still, history
  <2> QED BY <1>0, <1>1, <2>1, SnapSame
<1>3. ASSUME NEW t \in Tasks, Begins(t) PROVE SeenOK(u)' /\ ResultOK(u)'
  <2> PICK kind, k, to, b : CallOK(kind, k, to, b) /\ Begin(t, kind, k, to, b)
    BY <1>3 DEF Begins
  <2>1. Begun(t, kind, k) /\ UNCHANGED shared
    BY <1>0, BeginWalks DEF Begin, history
  <2>2. CASE u = t
    <3>1. /\ op'[t].at \in {"head", "single", "create", "parts", "absent", "delete", "range"} /\ op'[t].kind = kind
          /\ kind \in {"get", "lfsget", "copy"} => op'[t].at = "head"
          /\ file'[t] = None
      BY <1>0, <2>1, Start DEF Begun, LfsKinds
    <3> QED BY <2>2, <3>1 DEF SeenOK, ResultOK
  <2>3. CASE u # t
    <3>1. op'[u] = op[u] /\ file'[u] = file[u] /\ shared' = shared
      BY <1>0, <2>1, <2>3, Start DEF Begun
    <3> QED BY <1>0, <1>1, <3>1, SnapSame
  <2> QED BY <2>2, <2>3
<1>4. ASSUME NEW t \in Tasks, Works(t) PROVE SeenOK(u)' /\ ResultOK(u)'
  <2>1. CASE u # t
    <3>1. op'[u] = op[u] /\ file'[u] = file[u] /\ shared \subseteq shared'
      BY <1>0, <1>4, <2>1, WorkWalks, WorkFrame, SharedGrows DEF Walks
    <3> QED BY <1>0, <1>1, <3>1, SnapSame
  <2>2. CASE u = t
    <3>1. CASE Track
      BY <1>4, <2>2, <3>1, SnapWorks
    <3>2. CASE ~Track
      <4>1. Still
        BY <1>0, <3>2, ConfigStill, Zenon DEF Next
      <4>2. UNCHANGED <<op, file, shared>> /\ seen'[u] = seen[u]
        BY <1>1, <3>2, <4>1 DEF Still, history
      <4> QED BY <1>0, <4>2, SnapSame
    <3> QED BY <3>1, <3>2
  <2> QED BY <2>1, <2>2
<1> QED BY <1>0, <1>2, <1>3, <1>4, StepKinds

LEMMA SnapshotInit == Init => SnapshotInv
<1> SUFFICES ASSUME Init PROVE SnapshotInv
  OBVIOUS
<1>1. \A t \in Tasks : op[t].at = "idle" /\ op[t].kind = "none"
  BY DEF Init, StoreInit, Idle
<1> QED BY <1>1, WholeInit DEF SnapshotInv, SeenOK, ResultOK, Reads

\* A transfer gives what the key held while it ran, a ranged read all of its
\* range, and a download that fails leaves the file alone.
THEOREM SnapshotCorrect == Spec => []TransferIsSnapshot
<1>1. SnapshotInv => TransferIsSnapshot
  <2> SUFFICES ASSUME NEW t \in Tasks, ResultOK(t), op[t].at = "idle"
               PROVE  CASE op[t].kind \in {"get", "lfsget"} ->
                             IF op[t].res = "ok" THEN file[t] \in seen[t] \ {None} ELSE file[t] = None
                        [] op[t].kind = "copy" ->
                             shared = {} /\ op[t].res = "ok" => op[t].parts \in seen[t]
                        [] op[t].kind = "range" ->
                             op[t].res = "ok" => Len(file[t]) = op[t].ends[2] - op[t].ends[1]
                        [] OTHER -> TRUE
    BY DEF SnapshotInv, TransferIsSnapshot
  <2> QED BY DEF ResultOK, Reads
<1> QED BY <1>1, SnapshotInit, SnapshotKept, PTL DEF Spec

\* Who is told that it has created an object met none, and is the only one.
OneCreator ==
  \A k \in Keys : /\ obj[k] = None => created[k] = {}
                  /\ \A t, u \in created[k] : t = u

LEMMA TrueCreates ==
  ASSUME WholeInv, NEW t \in Tasks, Works(t), op[t].at = "absent", op'[t].at = "idle", op'[t].res = "true"
  PROVE  obj[op[t].key] = None
<1>1. CASE PutIfAbsent(t)
  <2>1. "false" \in Results /\ (Unanswered(t) => op'[t].at = op[t].at \/ op'[t].res = "error")
    BY Start, Unanswers DEF Ended, Again, Results
  <2>2. Finish(t, "false") => op'[t].res = "false"
    BY <2>1, Start, Ends DEF Ended
  <2> QED BY <1>1, <2>1, <2>2 DEF PutIfAbsent
<1>2. CASE Cancel(t) \/ Kill(t)
  BY <1>2, CancelWalks
<1> QED
  BY <1>1, <1>2 DEF Works, StoreStep, PutSingle, CreateUpload, CompleteUpload, CommitBlocks, AbortUpload,
     UploadPart, GetRange, HeadObject, GetOne, CopyOne, GetBytesRange, Delete, At

LEMMA TrueWrites ==
  ASSUME WholeInv, NEW t \in Tasks, Works(t), op[t].at = "absent", op'[t].at = "idle", op'[t].res = "true"
  PROVE  obj'[op[t].key] # None
<1>0. op[t].key \in Keys /\ op[t].parts \in Seq(Pieces)
  BY Start, OpParts DEF KeysOK
<1>1. CASE PutIfAbsent(t)
  <2>1. "false" \in Results /\ (Unanswered(t) => op'[t].at = op[t].at \/ op'[t].res = "error")
    BY Start, Unanswers DEF Ended, Again, Results
  <2>2. Finish(t, "false") => op'[t].res = "false"
    BY <2>1, Start, Ends DEF Ended
  <2>3. Write(t, op[t].key, op[t].parts)
    BY <1>1, <2>1, <2>2 DEF PutIfAbsent
  <2> QED BY <1>0, <2>3, WriteEffect
<1>2. CASE Cancel(t) \/ Kill(t)
  BY <1>2, CancelWalks
<1> QED
  BY <1>1, <1>2 DEF Works, StoreStep, PutSingle, CreateUpload, CompleteUpload, CommitBlocks, AbortUpload,
     UploadPart, GetRange, HeadObject, GetOne, CopyOne, GetBytesRange, Delete, At

\* The callers that a step answers with "true".
Told(k) == {t \in Tasks : op[t].at = "absent" /\ op[t].key = k /\ op'[t].at = "idle" /\ op'[t].res = "true"}

LEMMA OneCreatorKept ==
  ASSUME WholeInv, OneCreator, [Next]_vars
  PROVE  OneCreator'
<1> SUFFICES ASSUME NEW k \in Keys
             PROVE  (obj'[k] = None => created'[k] = {}) /\ \A t, u \in created'[k] : t = u
  BY DEF OneCreator
<1>0. (obj[k] = None => created[k] = {}) /\ \A t, u \in created[k] : t = u
  BY DEF OneCreator
<1>1. CASE ~Track
  <2>1. UNCHANGED <<obj, created>>
    BY <1>1, StepKinds DEF Still
  <2> QED BY <1>0, <2>1
<1>2. ASSUME Track, Told(k) = {} PROVE (obj'[k] = None => created'[k] = {}) /\ \A t, u \in created'[k] : t = u
  <2>1. created'[k] = IF obj'[k] = None THEN {} ELSE created[k]
    BY <1>2 DEF Track, TrackCreated, Told
  <2> QED BY <1>0, <2>1
<1>3. ASSUME Track, NEW t \in Told(k)
      PROVE  (obj'[k] = None => created'[k] = {}) /\ \A v, u \in created'[k] : v = u
  <2>1. t \in Tasks /\ op[t].at = "absent" /\ op[t].key = k /\ op'[t].at = "idle" /\ op'[t].res = "true"
    BY <1>3 DEF Told
  <2>2. Works(t)
    <3>1. CASE Still
      BY <2>1, <3>1 DEF Still
    <3>2. ASSUME NEW v \in Tasks, Begins(v) PROVE FALSE
      BY <2>1, <3>2, BeginWalks DEF Begins, Begun
    <3>3. ASSUME NEW v \in Tasks, Works(v) PROVE v = t
      BY <2>1, <3>3, WorkWalks DEF Walks
    <3> QED BY <3>1, <3>2, <3>3, StepKinds
  <2>3. \A v \in Tasks : v # t => op'[v] = op[v]
    BY <2>1, <2>2, WorkWalks DEF Walks
  <2>4. obj[k] = None /\ Told(k) = {t}
    BY <2>1, <2>2, <2>3, TrueCreates DEF Told
  <2>5. obj'[k] # None
    BY <2>1, <2>2, TrueWrites
  <2>6. created'[k] = created[k] \cup Told(k)
    BY <1>3, <2>5 DEF Track, TrackCreated, Told
  <2> QED BY <1>0, <2>4, <2>5, <2>6
<1> QED BY <1>1, <1>2, <1>3

\* Of the callers of put_if_absent that are told "true" there is one for the
\* object that a key holds; whoever is told "false" has met an object there.
THEOREM CreatedCorrect == Spec => []CreatedOnce
<1>1. Init => OneCreator
  BY DEF Init, StoreInit, OneCreator
<1>2. SnapshotInv /\ OneCreator /\ [Next]_vars => OneCreator'
  BY OneCreatorKept DEF SnapshotInv
<1>3. SnapshotInv /\ OneCreator => CreatedOnce
  BY DEF SnapshotInv, ResultOK, OneCreator, CreatedOnce
<1> QED BY <1>1, <1>2, <1>3, SnapshotInit, SnapshotKept, PTL DEF Spec

-----------------------------------------------------------------------------
(* The agents.                                                             *)

\* The LFS object is not deleted.
LEMMA LfsStays ==
  ASSUME WholeInv, [Next]_vars, obj[LfsKey] # None
  PROVE  obj'[LfsKey] # None
<1>1. Still => UNCHANGED obj
  BY DEF Still, service
<1>2. ASSUME NEW t \in Tasks, Begins(t) PROVE UNCHANGED obj
  BY <1>2 DEF Begins, Begin, service
<1>3. ASSUME NEW t \in Tasks, Works(t) PROVE obj'[LfsKey] # None
  <2>1. ASSUME NEW parts, Writing(t, parts) PROVE obj'[LfsKey] # None
    <3>1. LfsKey = Target(t) => obj'[LfsKey] # None
      BY <2>1, WriteEffect DEF Writing
    <3>2. LfsKey # Target(t) => obj'[LfsKey] = obj[LfsKey]
      BY <2>1, WriteEffect, LfsAssumption DEF Writing
    <3> QED BY <3>1, <3>2
  <2>2. op[t].at = "delete" => op[t].key # LfsKey
    BY Start DEF StageOK, KeysOK, LfsKinds
  <2>3. DOMAIN obj = Keys
    BY Start, <1>3
  <2> QED BY <1>3, <2>1, <2>2, <2>3, ChangeSteps, LfsAssumption DEF Changes
<1> QED BY <1>1, <1>2, <1>3, StepKinds

\* A transfer that reads or writes the LFS object knows its body.
LEMMA LfsBodies ==
  ASSUME WholeInv, NEW t \in Tasks, op[t].kind \in LfsKinds, Running(t)
  PROVE  /\ op[t].key = LfsKey /\ Target(t) = LfsKey
         /\ op[t].kind = "lfsput" => op[t].parts = Content(LfsBody)
         /\ op[t].at \in {"getone", "ranges"} => op[t].kind = "lfsget" /\ op[t].parts = Content(LfsBody)
         /\ Len(Content(LfsBody)) = Size[LfsBody] /\ Size[LfsBody] \in Nat
<1>1. Len(Content(LfsBody)) = Size[LfsBody] /\ Size[LfsBody] \in Nat
  BY ContentSeq, LfsAssumption, StoreAssumption
<1>2. op[t].key = LfsKey /\ Target(t) = LfsKey
  BY Start DEF KeysOK, LfsKinds, Running, Target
<1>3. op[t].at \in {"getone", "ranges"} => op[t].kind = "lfsget"
  BY Start DEF StageOK, Reads, LfsKinds
<1> QED BY <1>1, <1>2, <1>3, Start DEF BodyOK, Running

\* The object that an agent reads in ranges does not change.
LEMMA LfsRanges ==
  ASSUME WholeInv, NEW t \in Tasks, op[t].kind \in LfsKinds, op[t].at = "ranges", obj[LfsKey] # None
  PROVE  SameVersion(t)
<1>1. op[t].key = LfsKey /\ op[t].parts = Content(LfsBody) /\ op[t].kind = "lfsget"
  BY LfsBodies DEF Running
<1>2. backend = "s3" /\ op[t].etag = <<0, op[t].parts>>
  BY <1>1, Start DEF StageOK, BodyOK
<1>3. obj[LfsKey].parts = Content(LfsBody)
  BY Start
<1> QED BY <1>1, <1>2, <1>3 DEF SameVersion, Etag

\* What a step of a transfer does to the sum of what it has reported.
Adds(t) ==
  /\ op'[t].at \in {"getone", "ranges"} \/ (op'[t].at = "idle" /\ op'[t].res \in {"ok", "skipped"}) =>
       obj'[LfsKey] # None
  /\ op'[t].at \notin {"idle", "abort"} \/ (op'[t].at = "idle" /\ op'[t].res = "ok") =>
       Reported(op'[t]) + chan[t] = Reported(op[t]) + chan'[t]

LEMMA UploadAdds ==
  ASSUME WholeInv, NEW t \in Tasks, op[t].kind \in LfsKinds,
         PutSingle(t) \/ CreateUpload(t) \/ AbortUpload(t) \/ CompleteUpload(t) \/ CommitBlocks(t)
           \/ \E i \in 1..Len(op[t].parts) : UploadPart(t, i)
  PROVE  Adds(t)
<1>0. /\ Running(t) /\ op[t].parts \in Seq(Pieces) /\ op[t].done \in Seq(Nat \X Pieces)
      /\ chan[t] \in Nat /\ op[t].kind \in {"lfsput", "lfsget"} /\ Works(t)
      /\ Len(op[t].parts) \in Nat /\ Len(op[t].done) \in Nat
  <2>1. Works(t)
    BY DEF Works, StoreStep
  <2>2. op[t].parts \in Seq(Pieces) /\ op[t].done \in Seq(Nat \X Pieces)
    BY Start, OpParts
  <2> QED BY <2>1, <2>2, WorkWalks, Start DEF LfsKinds
<1>1. /\ op[t].key = LfsKey /\ Target(t) = LfsKey /\ LfsKey \in Keys
      /\ op[t].kind = "lfsput" => op[t].parts = Content(LfsBody)
      /\ Len(Content(LfsBody)) = Size[LfsBody] /\ Size[LfsBody] \in Nat
  BY <1>0, LfsBodies, LfsAssumption
<1>2. CASE PutSingle(t)
  <2>1. op[t].at = "single" /\ op[t].kind = "lfsput" /\ {"ok", "error"} \subseteq Results /\ <<0, 0>> \in Nat \X Nat
    BY <1>0, <1>2, Start DEF PutSingle, At, StageOK, Results
  <2>2. CASE Finish(t, "error")
    BY <2>1, <2>2, Start, Ends DEF Ended, Adds
  <2>3. CASE Write(t, LfsKey, op[t].parts) /\ Wrote(t, op[t].parts) /\ Report(t, Len(op[t].parts))
    <3>1. obj'[LfsKey] # None
      BY <1>0, <1>1, <2>3, WriteEffect
    <3>2. op'[t].at = "idle" /\ op'[t].res = "ok"
      BY <1>0, <2>1, <2>3, Start, EndsWith DEF Wrote, Ended
    <3>3. chan'[t] = chan[t] + Len(op[t].parts)
      BY <1>0, <2>3, Reports DEF LfsKinds
    <3> QED BY <1>0, <1>1, <2>1, <3>1, <3>2, <3>3 DEF Adds, Reported
  <2> QED BY <1>1, <1>2, <2>2, <2>3 DEF PutSingle
<1>3. CASE CreateUpload(t)
  <2>1. chan' = chan /\ op[t].at = "create"
    BY <1>3 DEF CreateUpload, At
  <2> QED BY <1>0, <1>3, <2>1, CreateWalks DEF Adds, Reported
<1>4. CASE AbortUpload(t)
  BY <1>4, AbortWalks DEF Ended, Adds
<1>5. CASE CompleteUpload(t) \/ CommitBlocks(t)
  <2>1. chan' = chan /\ op[t].at = "complete" /\ op[t].kind = "lfsput"
    BY <1>0, <1>5, Start DEF CompleteUpload, CommitBlocks, At, StageOK, Writes
  <2>2. Len(op[t].done) = Len(op[t].parts)
    BY <2>1, Start DEF DoneOK
  <2>3. op'[t].at = "idle"
    BY <1>5, CompleteWalks, CommitWalks DEF Ended
  <2>4. op'[t].res = "ok" => \E parts \in Seq(Pieces) : Write(t, LfsKey, parts)
    <3>1. Finish(t, "error") => op'[t].res = "error"
      BY Start, Ends DEF Ended, Results
    <3>2. CASE CompleteUpload(t)
      <4>1. Write(t, LfsKey, Completed(t)) \/ Finish(t, "error")
        BY <1>1, <3>2 DEF CompleteUpload
      <4> QED BY <1>0, <2>1, <3>1, <4>1, CompletedBody
    <3>3. CASE CommitBlocks(t)
      <4>1. Write(t, LfsKey, ListOf(t)) \/ Finish(t, "error")
        BY <1>1, <3>3 DEF CommitBlocks, ListOf
      <4> QED BY <2>1, <3>1, <4>1, ListTyped
    <3> QED BY <1>5, <3>2, <3>3
  <2>5. op'[t].res = "ok" => obj'[LfsKey] # None
    BY <1>1, <2>4, WriteEffect
  <2>6. op'[t].res # "skipped"
    BY <1>5, CompleteWalks, CommitWalks DEF Ended
  <2> QED BY <1>0, <1>1, <2>1, <2>2, <2>3, <2>5, <2>6 DEF Adds, Reported
<1>6. CASE \E i \in 1..Len(op[t].parts) : UploadPart(t, i)
  <2> PICK i \in 1..Len(op[t].parts) : UploadPart(t, i)
    BY <1>6
  <2>1. op[t].at = "parts"
    BY DEF UploadPart, At
  <2>2. CASE Uploaded(t, i)
    <3>1. op'[t].at \in {"parts", "complete"} /\ Len(op'[t].done) = Len(op[t].done) + 1 /\ chan'[t] = chan[t] + 1
      BY <1>0, <2>2, Reports DEF Uploaded, Staging, Continues, Grown, LfsKinds
    <3>2. Reported(op'[t]) = Len(op[t].done) + 1 /\ Reported(op[t]) = Len(op[t].done)
      BY <2>1, <3>1 DEF Reported
    <3>3. Reported(op'[t]) + chan[t] = Reported(op[t]) + chan'[t]
      <4> PICK n \in Nat, c \in Nat : n = Len(op[t].done) /\ c = chan[t]
        BY <1>0
      <4> PICK a, b, d : a = Reported(op[t]) /\ b = Reported(op'[t]) /\ d = chan'[t]
        OBVIOUS
      <4>1. a = n 
        BY <3>2
      <4>2. b = n + 1
        BY <3>2
      <4>3. d = c + 1
        BY <3>1
      <4>4. (n + 1) + c = n + (c + 1)
        BY OneMore
      <4>5. b + c = a + d
        BY <4>1, <4>2, <4>3, <4>4, Zenon
      <4> QED BY <4>5
    <3> QED BY <3>1, <3>3 DEF Adds
  <2>3. CASE UploadFailed(t)
    BY <2>3 DEF UploadFailed, Ended, Adds
  <2> QED BY <2>2, <2>3, UploadWalks
<1> QED BY <1>2, <1>3, <1>4, <1>5, <1>6

LEMMA DownloadAdds ==
  ASSUME WholeInv, NEW t \in Tasks, op[t].kind \in LfsKinds,
         op[t].at = "ranges" => obj[LfsKey] # None,
         HeadObject(t) \/ GetOne(t) \/ \E i \in 1..Len(op[t].parts) : GetRange(t, i)
  PROVE  Adds(t)
<1>0. /\ Running(t) /\ op[t].parts \in Seq(Pieces) /\ op[t].done \in Seq(Nat \X Pieces)
      /\ chan[t] \in Nat /\ op[t].kind \in {"lfsput", "lfsget"} /\ Works(t)
      /\ Len(op[t].parts) \in Nat /\ Len(op[t].done) \in Nat /\ UNCHANGED obj
  <2>1. Works(t) /\ UNCHANGED obj
    BY DEF Works, StoreStep, HeadObject, GetOne, GetRange, service
  <2>2. op[t].parts \in Seq(Pieces) /\ op[t].done \in Seq(Nat \X Pieces)
    BY Start, OpParts
  <2> QED BY <2>1, <2>2, WorkWalks, Start DEF LfsKinds
<1>1. /\ op[t].key = LfsKey /\ LfsKey \in Keys
      /\ op[t].at \in {"getone", "ranges"} => op[t].kind = "lfsget" /\ op[t].parts = Content(LfsBody)
      /\ Len(Content(LfsBody)) = Size[LfsBody] /\ Size[LfsBody] \in Nat
  BY <1>0, LfsBodies, LfsAssumption
<1>2. CASE HeadObject(t)
  <2>1. chan' = chan /\ op[t].at = "head" /\ HeadLeads(t) /\ Reported(op[t]) = 0
    BY <1>2, HeadWalks DEF HeadObject, At, Reported
  <2> PICK o : o = obj[LfsKey]
    OBVIOUS
  <2>2. CASE \E res \in {"notfound", "error"} : Ended(t, res, <<>>)
    BY <2>2 DEF Ended, Adds
  <2>3. CASE o # None /\ Ended(t, "skipped", <<>>)
    BY <1>0, <2>3 DEF Ended, Adds
  <2>4. CASE o # None /\ o.parts = <<>> /\ Ended(t, "ok", <<>>)
    <3>1. Size[LfsBody] = 0
      BY <1>1, <2>4, Start
    <3> QED BY <1>0, <2>1, <2>4, <3>1 DEF Ended, Adds, Reported
  <2>5. CASE op[t].kind = "lfsput" /\ Goto(t, PutStage(Len(op[t].parts))) /\ op'[t].at \in {"single", "create", "parts"}
    <3>1. op'[t].done = op[t].done
      BY <2>5, Start, Goes, PutStageStages
    <3>2. op[t].done = <<>>
      BY <2>1, <2>5, Start DEF DoneOK
    <3>3. Reported(op'[t]) = 0
      BY <2>5, <3>1, <3>2 DEF Reported
    <3> QED BY <1>0, <2>1, <2>5, <3>3 DEF Adds
  <2>6. ASSUME o # None, NEW stage \in {"ranges", "getone"}, Looked(t, o, stage) PROVE Adds(t)
    <3>1. o \in ObjectType
      BY <1>1, <2>6, Start
    <3>2. op'[t].at = stage /\ op'[t].done = <<>>
      BY <2>6, <3>1, Looks DEF Stages
    <3>3. Reported(op'[t]) = 0
      BY <3>2 DEF Reported
    <3> QED BY <1>0, <2>1, <2>6, <3>2, <3>3 DEF Adds
  <2> QED BY <1>0, <1>1, <2>1, <2>2, <2>3, <2>4, <2>5, <2>6 DEF HeadLeads, Reads
<1>3. CASE GetOne(t)
  <2>1. op[t].at = "getone" /\ Reported(op[t]) = 0
    BY <1>3 DEF GetOne, At, Reported
  <2>2. CASE GetFailed(t) /\ UNCHANGED chan
    BY <1>0, <2>1, <2>2 DEF GetFailed, Ended, Adds, Reported
  <2>3. CASE obj[LfsKey] # None /\ Report(t, Len(op[t].parts)) /\ Persisted(t, obj[LfsKey].parts)
    <3>1. op'[t].at = "idle" /\ op'[t].res = "ok" /\ chan'[t] = chan[t] + Len(op[t].parts)
      BY <1>0, <2>3, Reports DEF Persisted, Ended, LfsKinds
    <3> QED BY <1>0, <1>1, <2>1, <2>3, <3>1 DEF Adds, Reported
  <2> QED BY <1>1, <1>3, <2>2, <2>3, GetOneWalks
<1>4. CASE \E i \in 1..Len(op[t].parts) : GetRange(t, i)
  <2> PICK i \in 1..Len(op[t].parts) : GetRange(t, i)
    BY <1>4
  <2>1. op[t].at = "ranges" /\ obj[LfsKey] # None /\ Reported(op[t]) = Len(op[t].done)
    BY DEF GetRange, At, Reported
  <2>2. SameVersion(t) /\ obj[op[t].key] # None
    BY <1>1, <2>1, LfsRanges
  <2>3. CASE GetFails(t)
    <3>1. Finish(t, "error")
      BY <2>2, <2>3 DEF GetFails
    <3> QED BY <3>1, Start, Ends DEF Ended, Adds, Results
  <2>4. CASE ~GetFails(t) /\ Report(t, 1)
    <3>1. chan'[t] = chan[t] + 1
      BY <1>0, <2>4, Reports DEF LfsKinds
    <3>2. CASE Continues(t, "ranges")
      <4>1. op'[t].at = "ranges" /\ Reported(op'[t]) = Len(op[t].done) + 1
        BY <3>2 DEF Continues, Grown, Reported
      <4>2. Reported(op'[t]) + chan[t] = Reported(op[t]) + chan'[t]
        <5> PICK n \in Nat, c \in Nat : n = Len(op[t].done) /\ c = chan[t]
          BY <1>0
        <5> PICK a, b, d : a = Reported(op[t]) /\ b = Reported(op'[t]) /\ d = chan'[t]
          OBVIOUS
        <5>1. a = n
          BY <2>1
        <5>2. b = n + 1
          BY <4>1
        <5>3. d = c + 1
          BY <3>1
        <5>4. (n + 1) + c = n + (c + 1)
          BY OneOver, Zenon
        <5>5. b + c = a + d
          BY <5>1, <5>2, <5>3, <5>4, Zenon
        <5> QED BY <5>5
      <4> QED BY <1>0, <2>1, <4>1, <4>2 DEF Adds
    <3>3. CASE Len(op[t].done) + 1 = Len(op[t].parts) /\ Ended(t, "ok", <<>>)
      <4>1. op'[t].at = "idle" /\ Reported(op'[t]) = Size[LfsBody]
        BY <3>3 DEF Ended, Reported
      <4>2. Reported(op'[t]) + chan[t] = Reported(op[t]) + chan'[t]
        <5> PICK n \in Nat, c \in Nat : n = Len(op[t].done) /\ c = chan[t]
          BY <1>0
        <5> PICK a, b, d : a = Reported(op[t]) /\ b = Reported(op'[t]) /\ d = chan'[t]
          OBVIOUS
        <5>1. a = n
          BY <2>1
        <5>2. b = n + 1
          BY <1>1, <2>1, <3>3, <4>1
        <5>3. d = c + 1
          BY <3>1
        <5>4. (n + 1) + c = n + (c + 1)
          BY OneOver, Zenon
        <5>5. b + c = a + d
          BY <5>1, <5>2, <5>3, <5>4, Zenon
        <5> QED BY <5>5
      <4> QED BY <1>0, <2>1, <4>1, <4>2 DEF Adds
    <3>4. CASE GetFailed(t) /\ UNCHANGED chan
      BY <1>0, <3>1, <3>4
    <3> QED BY <3>2, <3>3, <3>4, GetRangeWalks
  <2> QED BY <2>3, <2>4 DEF GetRange
<1> QED BY <1>2, <1>3, <1>4

LEMMA TransferAdds ==
  ASSUME WholeInv, NEW t \in Tasks, op[t].kind \in LfsKinds,
         op[t].at = "ranges" => obj[LfsKey] # None, StoreStep(t)
  PROVE  Adds(t)
<1>1. op[t].at \notin {"copyone", "absent", "delete", "range"}
  BY Start DEF StageOK, LfsKinds
<1> QED
  BY <1>1, UploadAdds, DownloadAdds DEF StoreStep, CopyOne, PutIfAbsent, Delete, GetBytesRange, At

\* An agent that nothing happens to.
LEMMA AgentSame ==
  ASSUME WholeInv, [Next]_vars, NEW u \in Tasks, AgentOK(u), op'[u] = op[u], chan'[u] = chan[u],
         role'[u] = role[u], phase'[u] = phase[u], sofar'[u] = sofar[u], last'[u] = last[u],
         asked'[u] = asked[u], completed'[u] = completed[u]
  PROVE  AgentOK(u)'
<1>1. RoleOK(u)'
  BY DEF AgentOK, RoleOK
<1>2. TransferOK(u)'
  <2>1. Reported(op'[u]) = Reported(op[u])
    OBVIOUS
  <2> QED BY <2>1, LfsStays DEF AgentOK, TransferOK
<1>3. LastOK(u)'
  BY LfsStays DEF AgentOK, LastOK
<1> QED BY <1>1, <1>2, <1>3 DEF AgentOK

\* The types of an agent.
LEMMA AgentStart ==
  ASSUME WholeInv, NEW t \in Tasks
  PROVE  /\ role \in [Tasks -> {"none", "lfs", "client"}] /\ phase \in [Tasks -> Phases]
         /\ sofar \in [Tasks -> Nat] /\ last \in [Tasks -> {"none", "ok", "skipped", "error"}]
         /\ asked \in [Tasks -> Nat] /\ completed \in [Tasks -> Nat] /\ chan \in [Tasks -> Nat]
         /\ Size[LfsBody] \in Nat
  BY LfsAssumption, StoreAssumption DEF WholeInv, StoreInv, TypeOK, StoreTypeOK

\* A step of the loop of t: the others are left alone.
LEMMA OthersSame ==
  ASSUME AgentInv, [Next]_vars, NEW t \in Tasks, NEW u \in Tasks, u # t,
         op'[u] = op[u], chan'[u] = chan[u],
         FirstEvent(t) \/ BadOid(t) \/ LastEvent(t) \/ Progress(t) \/ Complete(t)
           \/ (\E kind \in LfsKinds : Transfer(t, kind)) \/ BrokenPipe(t) \/ Die(t) \/ Call(t) \/ Step(t)
  PROVE  AgentOK(u)'
<1>1. /\ role'[u] = role[u] /\ phase'[u] = phase[u] /\ sofar'[u] = sofar[u] /\ last'[u] = last[u]
      /\ asked'[u] = asked[u] /\ completed'[u] = completed[u]
  BY AgentStart DEF AgentInv, FirstEvent, BadOid, LastEvent, Progress, Complete, Transfer, BrokenPipe, Die, Call,
     Step, agentVars
<1> QED BY <1>1, AgentSame DEF AgentInv

\* Events that no operation takes part in.
LEMMA EventsKept ==
  ASSUME AgentInv, [Next]_vars, NEW t \in Tasks, FirstEvent(t) \/ BadOid(t) \/ LastEvent(t)
  PROVE  AgentOK(t)'
<1>0. WholeInv /\ RoleOK(t) /\ LastOK(t)
  BY DEF AgentInv, AgentOK
<1>1. /\ op' = op /\ chan' = chan /\ role' = role /\ sofar' = sofar /\ last' = last
      /\ asked'[t] = completed'[t] /\ role[t] = "lfs" /\ op[t].at = "idle"
      /\ phase'[t] \in {"ready", "exit", "failed"}
  <2>1. CASE FirstEvent(t) \/ LastEvent(t)
    BY <1>0, <2>1, AgentStart DEF FirstEvent, LastEvent, RoleOK
  <2>2. CASE BadOid(t)
    <3>1. asked'[t] = asked[t] + 1 /\ completed'[t] = completed[t] + 1 /\ asked[t] = completed[t]
      BY <1>0, <2>2, AgentStart DEF BadOid, RoleOK
    <3> QED BY <1>0, <2>2, <3>1 DEF BadOid, RoleOK
  <2> QED BY <2>1, <2>2
<1>2. RoleOK(t)' /\ TransferOK(t)'
  BY <1>1 DEF RoleOK, TransferOK
<1>3. phase[t] \in {"start", "ready"}
  BY DEF FirstEvent, BadOid, LastEvent
<1>4. LastOK(t)'
  BY <1>0, <1>1, <1>3, LfsStays DEF LastOK
<1> QED BY <1>2, <1>4 DEF AgentOK

\* The progress that is written was queued.
LEMMA ProgressKept ==
  ASSUME AgentInv, [Next]_vars, NEW t \in Tasks, Progress(t)
  PROVE  AgentOK(t)'
<1>0. WholeInv /\ RoleOK(t) /\ LastOK(t) /\ TransferOK(t)
  BY DEF AgentInv, AgentOK
<1>1. /\ op' = op /\ role' = role /\ phase' = phase /\ last' = last /\ asked' = asked /\ completed' = completed
      /\ phase[t] = "busy"
  BY DEF Progress
<1>2. sofar'[t] + chan'[t] = sofar[t] + chan[t]
  <2>1. sofar'[t] = sofar[t] + chan[t] /\ chan'[t] = 0
    BY <1>0, AgentStart DEF Progress
  <2>2. sofar[t] \in Nat /\ chan[t] \in Nat
    BY <1>0, AgentStart
  <2> QED BY <2>1, <2>2
<1>3. RoleOK(t)'
  BY <1>0, <1>1 DEF RoleOK
<1>4. TransferOK(t)'
  <2>1. Reported(op'[t]) = Reported(op[t])
    BY <1>1
  <2> QED BY <1>0, <1>1, <1>2, <2>1, LfsStays DEF TransferOK
<1>5. LastOK(t)'
  BY <1>0, <1>1, LfsStays DEF LastOK
<1> QED BY <1>3, <1>4, <1>5 DEF AgentOK

\* The answer says what the operation has done.
LEMMA CompleteKept ==
  ASSUME AgentInv, [Next]_vars, NEW t \in Tasks, Complete(t)
  PROVE  AgentOK(t)'
<1>0. WholeInv /\ RoleOK(t) /\ LastOK(t) /\ TransferOK(t)
  BY DEF AgentInv, AgentOK
<1>1. /\ op' = op /\ role' = role /\ asked' = asked /\ op[t].at = "idle" /\ phase[t] = "busy" /\ phase'[t] = "ready"
  BY <1>0, AgentStart DEF Complete, Running
<1>2. /\ last'[t] = IF op[t].res \in {"ok", "skipped"} THEN op[t].res ELSE "error"
      /\ completed'[t] = completed[t] + 1 /\ sofar'[t] = sofar[t] + chan[t]
  BY <1>0, AgentStart DEF Complete, Drain
<1>3. RoleOK(t)'
  BY <1>0, <1>1, <1>2 DEF RoleOK
<1>4. LastOK(t)'
  <2>1. last'[t] \in {"ok", "skipped"} => obj'[LfsKey] # None
    BY <1>0, <1>1, <1>2, LfsStays DEF TransferOK
  <2>2. last'[t] = "ok" => sofar'[t] = Size[LfsBody]
    BY <1>0, <1>1, <1>2 DEF TransferOK, Reported
  <2> QED BY <1>1, <2>1, <2>2 DEF LastOK
<1> QED BY <1>1, <1>3, <1>4 DEF AgentOK, TransferOK

\* The processes start.
LEMMA LaunchKept ==
  ASSUME AgentInv, [Next]_vars, Launch, NEW u \in Tasks
  PROVE  AgentOK(u)'
<1>0. WholeInv /\ RoleOK(u) /\ LastOK(u)
  BY DEF AgentInv, AgentOK
<1>1. /\ phase[u] = "setup" /\ phase'[u] = "start" /\ role'[u] \in {"lfs", "client"}
      /\ op' = op /\ last' = last /\ asked' = asked /\ completed' = completed
  BY <1>0, AgentStart DEF Launch
<1>2. RoleOK(u)' /\ TransferOK(u)'
  BY <1>0, <1>1 DEF RoleOK, TransferOK
<1>3. LastOK(u)'
  BY <1>0, <1>1 DEF LastOK
<1> QED BY <1>2, <1>3 DEF AgentOK

\* A transfer event.
LEMMA TransferKept ==
  ASSUME AgentInv, [Next]_vars, NEW t \in Tasks, NEW kind \in LfsKinds, Transfer(t, kind), NEW u \in Tasks
  PROVE  AgentOK(u)'
<1>0. WholeInv /\ RoleOK(t) /\ chan \in [Tasks -> Nat]
  BY AgentStart DEF AgentInv, AgentOK
<1>1. Begun(t, kind, LfsKey)
  BY <1>0, TransferBegins, BeginWalks
<1>2. CASE u # t
  <2>1. op'[u] = op[u] /\ chan'[u] = chan[u]
    BY <1>0, <1>1, <1>2 DEF Begun
  <2> QED BY <1>2, <2>1, OthersSame
<1>3. CASE u = t
  <2>1. /\ role' = role /\ role[t] = "lfs" /\ phase[t] = "ready" /\ phase'[t] = "busy" /\ last'[t] = "none"
        /\ sofar'[t] = 0 /\ asked'[t] = asked[t] + 1 /\ completed' = completed /\ asked[t] = completed[t]
    BY <1>0, AgentStart DEF Transfer, RoleOK
  <2>2. op'[t].kind \in LfsKinds /\ op'[t].at = "head" /\ chan'[t] = 0
    BY <1>0, <1>1 DEF Begun
  <2>3. Reported(op'[t]) = 0
    BY <2>2 DEF Reported
  <2>4. RoleOK(t)'
    BY <2>1, <2>2 DEF RoleOK
  <2>5. TransferOK(t)'
    BY <2>1, <2>2, <2>3 DEF TransferOK
  <2>6. LastOK(t)'
    BY <2>1 DEF LastOK
  <2> QED BY <1>3, <2>4, <2>5, <2>6 DEF AgentOK
<1> QED BY <1>2, <1>3

\* A call of a client.
LEMMA CallKept ==
  ASSUME AgentInv, [Next]_vars, NEW t \in Tasks, Call(t), NEW u \in Tasks
  PROVE  AgentOK(u)'
<1>0. WholeInv /\ RoleOK(t) /\ LastOK(t) /\ chan \in [Tasks -> Nat]
  BY AgentStart DEF AgentInv, AgentOK
<1> PICK kind \in Kinds \ LfsKinds, k \in Keys : \E to, b : CallOK(kind, k, to, b) /\ Begin(t, kind, k, to, b)
  BY <1>0, CallBegins
<1>1. Begun(t, kind, k) /\ role[t] = "client" /\ UNCHANGED agentVars
  BY <1>0, BeginWalks, CallBegins
<1>2. CASE u # t
  <2>1. op'[u] = op[u] /\ chan'[u] = chan[u]
    BY <1>0, <1>1, <1>2 DEF Begun
  <2> QED BY <1>2, <2>1, OthersSame
<1>3. CASE u = t
  <2>1. phase[t] = "start" /\ op'[t].kind \notin LfsKinds
    BY <1>0, <1>1 DEF RoleOK, Begun
  <2>2. RoleOK(t)' /\ TransferOK(t)'
    BY <1>0, <1>1, <2>1 DEF RoleOK, TransferOK, agentVars
  <2>3. LastOK(t)'
    BY <1>0, <1>1, <2>1, LfsStays DEF LastOK, agentVars
  <2> QED BY <1>3, <2>2, <2>3 DEF AgentOK
<1> QED BY <1>2, <1>3

\* The operation is dropped, or the process is killed.
LEMMA StopKept ==
  ASSUME AgentInv, [Next]_vars, NEW t \in Tasks, BrokenPipe(t) \/ Die(t), NEW u \in Tasks
  PROVE  AgentOK(u)'
<1>0. WholeInv /\ RoleOK(t) /\ LastOK(t) /\ Works(t)
  BY DEF AgentInv, AgentOK, BrokenPipe, Die, Works
<1>1. Walks(t) /\ op'[t].at = "idle" /\ Running(t)
  BY <1>0, WorkWalks, CancelWalks DEF BrokenPipe, Die
<1>2. CASE u # t
  <2>1. op'[u] = op[u] /\ chan'[u] = chan[u]
    BY <1>0, <1>1, <1>2, WorkFrame DEF Walks
  <2> QED BY <1>2, <2>1, OthersSame
<1>3. CASE u = t
  <2>1. /\ UNCHANGED <<role, sofar, last, asked, completed>> /\ op'[t].kind = op[t].kind /\ op[t].at # "idle"
        /\ role[t] \in {"lfs", "client"}
    BY <1>0, <1>1, AgentStart DEF BrokenPipe, Die, Walks, Running, RoleOK
  <2>2. \/ role[t] = "lfs" /\ phase'[t] \in {"exit", "failed"}
        \/ role[t] = "client" /\ phase'[t] = "start" /\ phase[t] = "start"
    BY <1>0, <2>1, AgentStart DEF BrokenPipe, Die, RoleOK
  <2>3. RoleOK(t)' /\ TransferOK(t)'
    BY <1>0, <1>1, <2>1, <2>2 DEF RoleOK, TransferOK
  <2>4. LastOK(t)'
    BY <1>0, <2>1, <2>2, LfsStays DEF LastOK
  <2> QED BY <1>3, <2>3, <2>4 DEF AgentOK
<1> QED BY <1>2, <1>3

\* A step of an operation.
LEMMA StepKept ==
  ASSUME AgentInv, [Next]_vars, NEW t \in Tasks, Step(t), NEW u \in Tasks
  PROVE  AgentOK(u)'
<1>0. WholeInv /\ RoleOK(t) /\ TransferOK(t) /\ LastOK(t) /\ Works(t) /\ StoreStep(t) /\ UNCHANGED agentVars
  BY DEF AgentInv, AgentOK, Step, Works
<1>1. /\ Walks(t) /\ Running(t) /\ op'[t].kind = op[t].kind /\ op[t].at # "idle"
      /\ role[t] \in {"lfs", "client"}
  BY <1>0, WorkWalks, AgentStart DEF Walks, Running, RoleOK
<1>2. CASE u # t
  <2>1. op'[u] = op[u] /\ chan'[u] = chan[u]
    BY <1>0, <1>1, <1>2, WorkFrame DEF Walks
  <2> QED BY <1>2, <2>1, OthersSame
<1>3. CASE u = t
  <2>1. RoleOK(t)'
    BY <1>0, <1>1 DEF RoleOK, agentVars
  <2>2. LastOK(t)'
    BY <1>0, LfsStays DEF LastOK, agentVars
  <2>3. ASSUME phase[t] = "busy" PROVE TransferOK(t)'
    <3>1. op[t].kind \in LfsKinds /\ (op[t].at = "ranges" => obj[LfsKey] # None)
      BY <1>0, <2>3 DEF RoleOK, TransferOK
    <3>2. Adds(t)
      BY <1>0, <3>1, TransferAdds
    <3>3. ASSUME op[t].at \notin {"idle", "abort"}
          PROVE  sofar[t] + chan[t] = Reported(op[t])
      BY <1>0, <2>3, <3>3 DEF TransferOK
    <3>4. op[t].at = "abort" => op'[t].at \in {"idle", "abort"} /\ ~(op'[t].at = "idle" /\ op'[t].res = "ok")
      BY <1>0, AbortWalks DEF StoreStep, PutSingle, CreateUpload, CompleteUpload, CommitBlocks, AbortUpload,
         UploadPart, GetRange, HeadObject, GetOne, CopyOne, PutIfAbsent, Delete, GetBytesRange, At, Ended
    <3>5. ASSUME op'[t].at \notin {"idle", "abort"} \/ (op'[t].at = "idle" /\ op'[t].res = "ok")
          PROVE  sofar'[t] + chan'[t] = Reported(op'[t])
      <4>1. Reported(op'[t]) + chan[t] = Reported(op[t]) + chan'[t]
        BY <3>2, <3>5 DEF Adds
      <4>2. sofar[t] + chan[t] = Reported(op[t])
        BY <1>1, <3>3, <3>4, <3>5
      <4> PICK a \in Nat, b \in Nat, d \in Nat : a = sofar[t] /\ b = chan[t] /\ d = chan'[t]
        BY <1>0, AgentStart, WorkFrame
      <4> PICK r \in Nat : r = Reported(op'[t])
        BY <1>1, StoreAssumption, LfsAssumption, OpParts DEF Reported, Walks
      <4>3. a + b = Reported(op[t]) /\ r + b = Reported(op[t]) + d
        BY <4>1, <4>2
      <4>4. sofar'[t] = a
        BY <1>0 DEF agentVars
      <4>5. r = a + d
        <5> PICK x : x = Reported(op[t])
          OBVIOUS
        <5>1. a + b = x /\ r + b = x + d
          BY <4>3
        <5> QED BY <5>1
      <4> QED BY <4>4, <4>5
    <3> QED BY <3>2, <3>5 DEF TransferOK, Adds
  <2>4. ASSUME phase[t] # "busy" PROVE TransferOK(t)'
    BY <1>0, <2>4 DEF TransferOK, agentVars
  <2> QED BY <1>3, <2>1, <2>2, <2>3, <2>4 DEF AgentOK
<1> QED BY <1>2, <1>3

LEMMA AgentKept == AgentInv /\ [Next]_vars => AgentInv'
<1> SUFFICES ASSUME AgentInv, [Next]_vars, NEW u \in Tasks PROVE AgentOK(u)'
  BY WholeKept DEF AgentInv
<1>1. CASE Configure \/ UNCHANGED vars
  <2>1. UNCHANGED <<op, chan>>
    BY <1>1 DEF Configure, vars, storeVars
  <2>2. UNCHANGED agentVars
    BY <1>1 DEF Configure, vars
  <2> QED BY <2>1, <2>2, AgentSame DEF AgentInv, agentVars
<1>2. CASE Launch
  BY <1>2, LaunchKept
<1>3. ASSUME NEW t \in Tasks, Talks(t) PROVE AgentOK(u)'
  <2>1. CASE u # t
    <3>1. op'[u] = op[u] /\ chan'[u] = chan[u]
      BY <1>3, <2>1, AgentStart DEF AgentInv, Talks, FirstEvent, BadOid, LastEvent, Progress, Complete
    <3> QED BY <1>3, <2>1, <3>1, OthersSame DEF Talks
  <2>2. CASE u = t
    BY <1>3, <2>2, EventsKept, ProgressKept, CompleteKept DEF Talks
  <2> QED BY <2>1, <2>2
<1>4. ASSUME NEW t \in Tasks, NEW kind \in LfsKinds, Transfer(t, kind) PROVE AgentOK(u)'
  BY <1>4, TransferKept
<1>5. ASSUME NEW t \in Tasks, BrokenPipe(t) \/ Die(t) PROVE AgentOK(u)'
  BY <1>5, StopKept
<1>6. ASSUME NEW t \in Tasks, Call(t) PROVE AgentOK(u)'
  BY <1>6, CallKept
<1>7. ASSUME NEW t \in Tasks, Step(t) PROVE AgentOK(u)'
  BY <1>7, StepKept
<1>8. ASSUME NEW x \in aborting, AbortDetached(x) /\ UNCHANGED agentVars PROVE AgentOK(u)'
  <2>1. UNCHANGED <<op, chan>>
    BY <1>8 DEF AbortDetached
  <2> QED BY <1>8, <2>1, AgentSame DEF AgentInv, agentVars
<1> QED BY <1>1, <1>2, <1>3, <1>4, <1>5, <1>6, <1>7, <1>8 DEF Next, Talks, LfsKinds

LEMMA AgentInit == Init => AgentInv
<1> SUFFICES ASSUME Init, NEW t \in Tasks PROVE AgentOK(t)
  BY WholeInit DEF AgentInv
<1>1. op[t].at = "idle" /\ op[t].kind = "none"
  BY DEF Init, StoreInit, Idle
<1>2. role[t] = "none" /\ phase[t] = "setup" /\ last[t] = "none" /\ asked[t] = completed[t]
  BY DEF Init
<1> QED BY <1>1, <1>2 DEF AgentOK, RoleOK, TransferOK, LastOK, LfsKinds

\* What git-lfs is told is true.
THEOREM LfsCorrect == Spec => []LfsTold
<1>1. AgentInv => LfsTold
  <2> SUFFICES ASSUME AgentInv PROVE LfsTold
    OBVIOUS
  <2>1. TypeOK
    BY DEF AgentInv, WholeInv, StoreInv
  <2>2. ASSUME NEW t \in Tasks
        PROVE  /\ phase[t] = "ready" => asked[t] = completed[t]
               /\ phase[t] = "ready" /\ last[t] = "ok" => sofar[t] = Size[LfsBody]
               /\ last[t] \in {"ok", "skipped"} =>
                    obj[LfsKey] # None /\ obj[LfsKey].parts = Content(LfsBody)
    <3>1. WholeInv /\ RoleOK(t) /\ LastOK(t)
      BY DEF AgentInv, AgentOK
    <3> QED BY <3>1, Start DEF RoleOK, LastOK
  <2> QED BY <2>1, <2>2 DEF LfsTold
<1> QED BY <1>1, AgentInit, AgentKept, PTL DEF Spec

=============================================================================
