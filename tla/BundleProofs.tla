----------------------------- MODULE BundleProofs -----------------------------
(***************************************************************************)
(* Proofs about BundleEngine, for every set of clients, every history of   *)
(* commits and every value of the bounds: its types and the lock, that the *)
(* value of the ref is kept, how it may move, the protection marker, and   *)
(* what a fetch finds.  Then about Doctor: its types, that the repair of a *)
(* ref loses no value, and which branch it sets HEAD to.                   *)
(***************************************************************************)
EXTENDS Doctor, TLAPS

Pushes  == {"push", "force"}
Deletes == {"delete", "deleteBranch"}

\* The operation that is at each step, and its number.
Stage(label, o) ==
  /\ label # "idle" => o.kind \in Kinds /\ o.id \in 1..ops
  /\ label \in {"tombs", "prelist", "check", "relist", "put", "head", "format", "tomb", "untomb"} =>
       o.kind \in Pushes
  /\ label \in {"open", "confirm"} => o.kind \notin Pushes \cup {"delete"}
  /\ label = "confirm" => o.kind = "deleteBranch"
  /\ label \in {"list", "del"} => o.kind \in Deletes
  /\ label = "mark" => o.kind = "protect"
  /\ label = "unmark" => o.kind = "unprotect"

At(p) == Stage(pc[p], op[p])

StageOK == \A p \in Clients : At(p)

TypeInv == TypeOK /\ StageOK

-----------------------------------------------------------------------------
(* The numbers of the operations and of their tombstones.                  *)

\* An operation that is under way and has not tried to write its tombstone.
Unwritten(p) == pc[p] \notin {"idle", "untomb", "release"}

NumbersOK ==
  /\ \A p, q \in Clients : pc[p] # "idle" /\ pc[q] # "idle" /\ op[p].id = op[q].id => p = q
  /\ \A t \in tombs : t.id <= ops
  /\ \A p \in Clients : Unwritten(p) => \A t \in tombs : t.id # op[p].id
  /\ gc.at \in {"bundle", "tomb"} => gc.id \in 1..ops /\ \A p \in Clients : Unwritten(p) => op[p].id # gc.id

NumberInv == TypeInv /\ NumbersOK

-----------------------------------------------------------------------------
(* The value of the ref.                                                   *)

\* A push has seen at most one bundle, and from its commit on the value is
\* what it has pushed; the bundle it then defers is another one.
PushedOK ==
  \A p \in Clients :
    /\ ~Several(pre[p])
    /\ pc[p] \in {"head", "format", "tomb", "untomb"} => live = {op[p].local}
    /\ pc[p] = "untomb" => op[p].local \notin pre[p]

\* The bundle of the value has no tombstone.
LiveUntombed == live \cap Tombstoned = {}

\* What a sweep drops the tombstone of is gone.
SweptOK == gc.at = "tomb" => \A t \in tombs : t.id = gc.id => t.sha \notin bundles

Values == PushedOK /\ LiveUntombed /\ SweptOK

ValueInv == NumberInv /\ (hazards = {} => Values /\ live \subseteq bundles)

\* Until the first fault: what the listing rule yields while an operation
\* holds the lock is the value, and between the commit of a push and its
\* tombstone also the old bundle.
Listing(p) ==
  /\ pc[p] # "untomb"
  /\ pc[p] \in {"check", "relist", "put", "list", "del", "mark", "unmark", "release"} =>
       Visible(Tombstoned) = live
  /\ pc[p] \in {"head", "format", "tomb"} => Visible(Tombstoned) \subseteq live \cup pre[p]

ListingOK ==
  faults = 0 =>
    /\ lock # Orphan
    /\ lock = Free => Visible(Tombstoned) = live
    /\ \A p \in Clients : Listing(p)

-----------------------------------------------------------------------------
(* The moves of the ref.                                                   *)

\* What has been judged of a push: its fast-forward from the bundle it saw,
\* which is the value when it writes, and the protection; and that of a delete.
Judged(p) ==
  /\ pc[p] \in {"lock", "check", "relist", "put"} /\ op[p].kind = "push" => FastForward(pre[p], op[p].local)
  /\ pc[p] \in {"relist", "put"} /\ protected => FastForward(pre[p], op[p].local)
  /\ pc[p] = "put" => live \subseteq pre[p]
  /\ pc[p] = "del" => ~protected

JudgedOK == \A p \in Clients : Judged(p)

MoveInv == ValueInv /\ (hazards = {} => JudgedOK)

\* A ref without a value has no bundle either, once its delete is through; and
\* a delete has still to do with every bundle.
EmptyOK ==
  faults = 0 =>
    /\ \A p \in Clients : pc[p] = "del" => bundles \subseteq todo[p]
    /\ (\A p \in Clients : pc[p] # "del") /\ bundles # {} => live # {}
    /\ protected => bundles # {}

ListInv == MoveInv /\ (hazards = {} => ListingOK /\ EmptyOK)

-----------------------------------------------------------------------------
(* A fetch.                                                                *)

\* A sweep without --force is at an old tombstone; the tombstones of one
\* operation are as old as each other.
SweepsOld ==
  /\ \A t, u \in tombs : t.id = u.id => t.age = u.age
  /\ gc.at \in {"bundle", "tomb"} => \A t \in tombs : t.id = gc.id => t.age >= Grace

\* What a fetch has seen, and was neither superseded at that time nor deleted,
\* is there, and was not superseded before.
SeenOK ==
  /\ fetch.found
  /\ fetch.at \in {"tombs", "get"} =>
       \A s \in fetch.seen \ fetch.dead :
         s \in bundles /\ \A t \in tombs : t.sha = s => t.age <= fetch.age

FetchInv == NumberInv /\ SweepsOld /\ SeenOK

-----------------------------------------------------------------------------
(* The types.                                                              *)

\* The parts of TypeOK that a step of a client, and that of another process,
\* leave.
StoreTyped ==
  /\ bundles \subseteq Shas
  /\ protected \in BOOLEAN
  /\ meta \subseteq {"HEAD", "FORMAT"}
  /\ tombs \subseteq Tombstones

ClientsTyped ==
  /\ pc \in [Clients -> Unlocked \cup UnderLock]
  /\ op \in [Clients -> OpType]
  /\ hidden \in [Clients -> SUBSET Shas]
  /\ pre \in [Clients -> SUBSET Shas]
  /\ todo \in [Clients -> SUBSET Shas]

LockTyped ==
  /\ lock \in Clients \cup {Free, Orphan}
  /\ \A p \in Clients : lock = p <=> pc[p] \in UnderLock

HistoryTyped ==
  /\ live \subseteq Shas /\ ~Several(live)
  /\ hazards \subseteq {"revived", "masked"}

CountsTyped == ops \in 0..MaxOps /\ faults \in 0..MaxFaults

Typed == /\ StoreTyped /\ ClientsTyped /\ LockTyped /\ HistoryTyped /\ CountsTyped
         /\ fetch \in FetchType /\ gc \in GcType

\* TypeOK by its parts.
LEMMA TypeParts == (TypeOK <=> Typed) /\ (TypeOK' <=> Typed')
  BY Zenon DEF TypeOK, StoreTyped, ClientsTyped, LockTyped, HistoryTyped, CountsTyped, Typed

LEMMA NoOpTyped == NoOp \in OpType /\ NoOp.local \in Shas
<1>1. (CHOOSE s \in Shas : TRUE) \in Shas
  BY ConstantsAssumption
<1> QED BY <1>1, ConstantsAssumption DEF NoOp, OpType

\* A step of one client.
MyStep(p) == Begin(p) \/ ClientStep(p) \/ RequestFails(p) \/ Crash(p)

\* What it leaves alone.
Others(p) ==
  /\ UNCHANGED gc
  /\ \A q \in Clients \ {p} :
       /\ pc'[q] = pc[q] /\ op'[q] = op[q] /\ hidden'[q] = hidden[q]
       /\ pre'[q] = pre[q] /\ todo'[q] = todo[q]

\* The state of a client at the next label.
LEMMA GotoTyped ==
  ASSUME ClientsTyped, NEW p \in Clients, NEW l \in Unlocked \cup UnderLock, Goto(p, l)
  PROVE  /\ pc' \in [Clients -> Unlocked \cup UnderLock]
         /\ pc'[p] = l
         /\ \A q \in Clients \ {p} : pc'[q] = pc[q]
  BY DEF Goto, ClientsTyped

LEMMA ForgetTyped ==
  ASSUME ClientsTyped, NEW p \in Clients, Forget(p)
  PROVE  /\ op' \in [Clients -> OpType]
         /\ hidden' \in [Clients -> SUBSET Shas]
         /\ pre' \in [Clients -> SUBSET Shas]
         /\ todo' \in [Clients -> SUBSET Shas]
         /\ pre'[p] = {} /\ op'[p] = NoOp
         /\ \A q \in Clients \ {p} :
              /\ op'[q] = op[q] /\ hidden'[q] = hidden[q]
              /\ pre'[q] = pre[q] /\ todo'[q] = todo[q]
  BY NoOpTyped DEF Forget, ClientsTyped

\* A step of a client keeps the types of what the clients have.
LEMMA ClientsStay ==
  ASSUME TypeInv, NEW p \in Clients, MyStep(p)
  PROVE  ClientsTyped' /\ Others(p)
<1> USE TypeParts DEF TypeInv, Typed, Others
<1>l. ClientsTyped
  OBVIOUS
<1> USE DEF Unlocked, UnderLock
<1>0. ASSUME NEW l \in Unlocked \cup UnderLock, Goto(p, l), UNCHANGED <<op, hidden, pre, todo, gc>>
      PROVE  ClientsTyped' /\ Others(p)
  BY <1>0, GotoTyped DEF ClientsTyped
<1>e. ASSUME Goto(p, "idle"), Forget(p), UNCHANGED gc
      PROVE  ClientsTyped' /\ Others(p)
  BY <1>e, GotoTyped, ForgetTyped DEF ClientsTyped
<1>1. CASE Begin(p)
  <2> PICK kind \in Kinds, local \in Shas :
           /\ op' = [op EXCEPT ![p] = [id |-> ops + 1, kind |-> kind, local |-> local]]
           /\ Goto(p, CASE kind \in {"push", "force"} -> "tombs"
                        [] kind = "delete" -> "lock"
                        [] OTHER -> "open")
    BY <1>1 DEF Begin
  <2>1. [id |-> ops + 1, kind |-> kind, local |-> local] \in OpType
    BY <1>1, ConstantsAssumption DEF Begin, CountsTyped, OpType
  <2> DEFINE l == CASE kind \in {"push", "force"} -> "tombs"
                    [] kind = "delete" -> "lock"
                    [] OTHER -> "open"
  <2>2. l \in Unlocked
    OBVIOUS
  <2>3. Goto(p, l)
    OBVIOUS
  <2> HIDE DEF l
  <2> QED BY <1>1, <2>1, <2>2, <2>3, GotoTyped DEF Begin, ClientsTyped
<1>2. CASE ReadTombs(p)
  <2>1. Tombstoned \subseteq Shas
    BY DEF Tombstoned, StoreTyped, Tombstones
  <2> QED BY <1>2, <2>1, GotoTyped DEF ReadTombs, ClientsTyped
<1>3. CASE Prelist(p)
  <2>1. Visible(hidden[p]) \subseteq Shas
    BY DEF Visible, StoreTyped
  <2> QED BY <1>3, <1>e, <2>1, GotoTyped DEF Prelist, Finish, ClientsTyped
<1>4. CASE CheckProtected(p)
  BY <1>0, <1>4 DEF CheckProtected, Leave, Advance
<1>5. CASE Relist(p)
  BY <1>0, <1>5 DEF Relist, Leave, Advance
<1>6. CASE PutBundle(p)
  BY <1>0, <1>6 DEF PutBundle, Leave, Advance
<1>7. CASE PutHead(p) \/ PutFormat(p)
  BY <1>0, <1>7 DEF PutHead, PutFormat, Advance
<1>8. CASE DeferPrior(p) \/ Untomb(p)
  BY <1>0, <1>8 DEF DeferPrior, Untomb, Leave, Advance
<1>9. CASE Open(p)
  BY <1>0, <1>e, <1>9 DEF Open, Finish, Advance
<1>10. CASE Confirm(p)
  BY <1>0, <1>e, <1>10 DEF Confirm, Finish, Advance
<1>11. CASE ListForDelete(p) \/ ListForDeleteBranch(p)
  <2>1. \/ \E l \in {"release"} : Goto(p, l) /\ UNCHANGED <<op, hidden, pre, todo, gc>>
        \/ /\ todo' = [todo EXCEPT ![p] = bundles]
           /\ Goto(p, "del")
           /\ UNCHANGED <<op, hidden, pre, gc>>
    BY <1>11 DEF ListForDelete, ListForDeleteBranch, Leave
  <2> QED BY <1>0, <2>1, GotoTyped DEF ClientsTyped, StoreTyped
<1>12. CASE DeleteOne(p)
  <2> PICK s \in todo[p] : todo' = [todo EXCEPT ![p] = @ \ {s}]
    BY <1>12 DEF DeleteOne
  <2>1. (UNCHANGED pc \/ Goto(p, "release")) /\ UNCHANGED <<op, hidden, pre, gc>>
    BY <1>12 DEF DeleteOne
  <2> QED BY <2>1, GotoTyped DEF ClientsTyped
<1>13. CASE Deleted(p) \/ Protect(p) \/ Unprotect(p)
  BY <1>0, <1>13 DEF Deleted, Protect, Unprotect, Leave
<1>14. CASE AcquireLock(p)
  <2>1. op[p].kind \in {"push", "force", "delete", "deleteBranch", "protect", "unprotect"}
    BY <1>14, ConstantsAssumption DEF AcquireLock, StageOK, At, Stage
  <2>2. AfterLock(op[p].kind) \in UnderLock
    BY <2>1 DEF AfterLock
  <2>3. \/ Goto(p, "idle") /\ Forget(p)
        \/ Goto(p, AfterLock(op[p].kind)) /\ UNCHANGED <<op, hidden, pre, todo>>
    BY <1>14 DEF AcquireLock, Finish, Advance
  <2>4. UNCHANGED gc
    BY <1>14 DEF AcquireLock
  <2> QED BY <1>0, <1>e, <2>2, <2>3, <2>4
<1>15. CASE Release(p)
  BY <1>e, <1>15 DEF Release
<1>16. CASE RequestFails(p)
  BY <1>0, <1>e, <1>16 DEF RequestFails, Finish, Leave
<1>17. CASE Crash(p)
  BY <1>e, <1>17 DEF Crash, Finish
<1> QED BY <1>1, <1>2, <1>3, <1>4, <1>5, <1>6, <1>7, <1>8, <1>9, <1>10, <1>11, <1>12, <1>13, <1>14,
          <1>15, <1>16, <1>17 DEF MyStep, ClientStep, PushStep, ManageStep

\* The lock is taken from Free, and given back, by its holder only.
LEMMA LockMoves ==
  ASSUME TypeInv, NEW p \in Clients, MyStep(p)
  PROVE  \/ UNCHANGED lock /\ (pc[p] \in UnderLock <=> pc'[p] \in UnderLock)
         \/ lock = Free /\ lock' = p /\ pc'[p] \in UnderLock
         \/ /\ lock = p /\ lock' \in {Free, Orphan} /\ pc'[p] = "idle"
            /\ faults' # faults \/ (pc[p] = "release" /\ lock' = Free)
<1> USE TypeParts DEF TypeInv, Typed, ClientsTyped, Goto, Unlocked, UnderLock
<1>f. faults \in Nat
  BY DEF CountsTyped
<1>k. pc[p] # "idle" =>
        op[p].kind \in {"push", "force", "delete", "deleteBranch", "protect", "unprotect"}
  BY ConstantsAssumption DEF StageOK, At, Stage
<1>1. CASE Begin(p)
  BY <1>1 DEF Begin
<1>2. CASE ReadTombs(p) \/ Prelist(p) \/ Open(p) \/ Confirm(p)
  BY <1>2 DEF ReadTombs, Prelist, Open, Confirm, Finish, Advance
<1>3. CASE CheckProtected(p) \/ Relist(p) \/ PutBundle(p) \/ PutHead(p) \/ PutFormat(p)
  BY <1>3 DEF CheckProtected, Relist, PutBundle, PutHead, PutFormat, Leave, Advance
<1>4. CASE DeferPrior(p) \/ Untomb(p) \/ Deleted(p) \/ Protect(p) \/ Unprotect(p)
  BY <1>4 DEF DeferPrior, Untomb, Deleted, Protect, Unprotect, Leave, Advance
<1>5. CASE ListForDelete(p) \/ ListForDeleteBranch(p) \/ DeleteOne(p)
  BY <1>5 DEF ListForDelete, ListForDeleteBranch, DeleteOne, Leave
<1>6. CASE AcquireLock(p)
  <2>1. AfterLock(op[p].kind) \in UnderLock
    BY <1>k, <1>6 DEF AcquireLock, AfterLock
  <2> QED BY <1>6, <2>1 DEF AcquireLock, Finish, Advance
<1>7. CASE Release(p)
  BY <1>7, <1>f DEF Release, LockTyped, Fault
<1>8. CASE RequestFails(p)
  BY <1>8 DEF RequestFails, Finish, Leave
<1>9. CASE Crash(p)
  BY <1>9, <1>f, ConstantsAssumption DEF Crash, Finish, LockTyped, Fault
<1> QED BY <1>1, <1>2, <1>3, <1>4, <1>5, <1>6, <1>7, <1>8, <1>9
        DEF MyStep, ClientStep, PushStep, ManageStep

LEMMA LockStays ==
  ASSUME TypeInv, NEW p \in Clients, MyStep(p)
  PROVE  LockTyped'
<1>1. LockTyped
  BY TypeParts DEF TypeInv, Typed
<1>2. \A q \in Clients \ {p} : pc'[q] = pc[q]
  BY ClientsStay DEF Others
<1>3. "idle" \notin UnderLock
  BY DEF UnderLock
<1> QED BY LockMoves, <1>1, <1>2, <1>3, ConstantsAssumption DEF LockTyped

\* Only one client is under the lock.
LEMMA OneHolder ==
  ASSUME TypeOK
  PROVE  \A p, q \in Clients : pc[p] \in UnderLock /\ pc[q] \in UnderLock => p = q
  BY TypeParts DEF Typed, LockTyped

\* A client at work keeps its operation until it is done.
LEMMA OpStays ==
  ASSUME TypeInv, NEW p \in Clients, MyStep(p), ~Begin(p)
  PROVE  pc[p] # "idle" /\ (op'[p] = op[p] \/ pc'[p] = "idle") /\ UNCHANGED ops
<1>t. ClientsTyped
  BY TypeParts DEF TypeInv, Typed
<1> USE <1>t DEF ClientsTyped, Goto, Unlocked
<1>2. CASE ReadTombs(p) \/ Prelist(p) \/ Open(p) \/ Confirm(p)
  BY <1>2 DEF ReadTombs, Prelist, Open, Confirm, Finish, Advance
<1>3. CASE CheckProtected(p) \/ Relist(p) \/ PutBundle(p) \/ PutHead(p) \/ PutFormat(p)
  BY <1>3 DEF CheckProtected, Relist, PutBundle, PutHead, PutFormat, Leave, Advance
<1>4. CASE DeferPrior(p) \/ Untomb(p) \/ Deleted(p) \/ Protect(p) \/ Unprotect(p)
  BY <1>4 DEF DeferPrior, Untomb, Deleted, Protect, Unprotect, Leave, Advance
<1>5. CASE ListForDelete(p) \/ ListForDeleteBranch(p) \/ DeleteOne(p)
  BY <1>5 DEF ListForDelete, ListForDeleteBranch, DeleteOne, Leave
<1>6. CASE AcquireLock(p) \/ Release(p) \/ RequestFails(p) \/ Crash(p)
  BY <1>6 DEF AcquireLock, Release, RequestFails, Crash, Finish, Leave, Advance
<1> QED BY <1>2, <1>3, <1>4, <1>5, <1>6 DEF MyStep, ClientStep, PushStep, ManageStep

\* Each step of an operation is one of its kind.
KindOK(label, kind) ==
  /\ label \in {"tombs", "prelist", "check", "relist", "put", "head", "format", "tomb", "untomb"} =>
       kind \in Pushes
  /\ label \in {"open", "confirm"} => kind \notin Pushes \cup {"delete"}
  /\ label = "confirm" => kind = "deleteBranch"
  /\ label \in {"list", "del"} => kind \in Deletes
  /\ label = "mark" => kind = "protect"
  /\ label = "unmark" => kind = "unprotect"

LEMMA KindStays ==
  ASSUME TypeInv, NEW p \in Clients, MyStep(p), ~Begin(p)
  PROVE  KindOK(pc'[p], op[p].kind)
<1>t. pc \in [Clients -> Unlocked \cup UnderLock]
  BY TypeParts DEF TypeInv, Typed, ClientsTyped
<1>k. pc[p] # "idle" =>
        op[p].kind \in {"push", "force", "delete", "deleteBranch", "protect", "unprotect"}
  BY ConstantsAssumption DEF TypeInv, StageOK, At, Stage
<1>s. KindOK(pc[p], op[p].kind)
  BY DEF TypeInv, StageOK, At, Stage, KindOK
<1> PICK k : k = op[p].kind
  OBVIOUS
<1> USE <1>t, <1>k, <1>s DEF Goto, KindOK, Pushes, Deletes
<1>2. CASE ReadTombs(p) \/ Prelist(p) \/ Open(p) \/ Confirm(p)
  BY <1>2 DEF ReadTombs, Prelist, Open, Confirm, Finish, Advance
<1>3. CASE CheckProtected(p) \/ Relist(p) \/ PutBundle(p) \/ PutHead(p) \/ PutFormat(p)
  BY <1>3 DEF CheckProtected, Relist, PutBundle, PutHead, PutFormat, Leave, Advance
<1>4. CASE DeferPrior(p) \/ Untomb(p) \/ Deleted(p) \/ Protect(p) \/ Unprotect(p)
  BY <1>4 DEF DeferPrior, Untomb, Deleted, Protect, Unprotect, Leave, Advance
<1>5. CASE ListForDelete(p) \/ ListForDeleteBranch(p) \/ DeleteOne(p)
  BY <1>5 DEF ListForDelete, ListForDeleteBranch, DeleteOne, Leave
<1>6. CASE AcquireLock(p)
  BY <1>6 DEF AcquireLock, AfterLock, Finish, Advance
<1>7. CASE Release(p) \/ RequestFails(p) \/ Crash(p)
  BY <1>7 DEF Release, RequestFails, Crash, Finish, Leave
<1> QED BY <1>2, <1>3, <1>4, <1>5, <1>6, <1>7 DEF MyStep, ClientStep, PushStep, ManageStep

LEMMA StageStays ==
  ASSUME TypeInv, NEW p \in Clients, MyStep(p)
  PROVE  StageOK'
<1>t. ClientsTyped /\ ops \in Nat
  BY TypeParts DEF TypeInv, Typed, CountsTyped
<1>k. \A q \in Clients : At(q)
  BY DEF TypeInv, StageOK
<1>n. ops' \in {ops, ops + 1}
  BY OpStays DEF Begin
<1>o. ASSUME NEW q \in Clients \ {p} PROVE At(q)'
  <2>1. pc'[q] = pc[q] /\ op'[q] = op[q]
    BY ClientsStay DEF Others
  <2> QED BY <2>1, <1>k, <1>n, <1>t DEF At, Stage
<1>1. ASSUME Begin(p) PROVE At(p)'
  <2> USE <1>1
  <2> PICK kind \in Kinds, local \in Shas :
           /\ op' = [op EXCEPT ![p] = [id |-> ops + 1, kind |-> kind, local |-> local]]
           /\ Goto(p, CASE kind \in {"push", "force"} -> "tombs"
                        [] kind = "delete" -> "lock"
                        [] OTHER -> "open")
    BY DEF Begin
  <2> DEFINE l == CASE kind \in {"push", "force"} -> "tombs"
                    [] kind = "delete" -> "lock"
                    [] OTHER -> "open"
  <2>1. op'[p].id = ops + 1 /\ op'[p].kind = kind /\ pc'[p] = l /\ ops' = ops + 1
    BY <1>t DEF Begin, ClientsTyped, Goto
  <2>2. \/ kind \in {"push", "force"} /\ l = "tombs"
        \/ kind = "delete" /\ l = "lock"
        \/ kind \notin {"push", "force", "delete"} /\ l = "open"
    OBVIOUS
  <2> HIDE DEF l
  <2> QED BY <2>1, <2>2, <1>t DEF At, Stage, Pushes, Deletes
<1>2. ASSUME ~Begin(p) PROVE At(p)'
  <2>1. pc[p] # "idle" /\ (op'[p] = op[p] \/ pc'[p] = "idle") /\ UNCHANGED ops
    BY <1>2, OpStays
  <2>2. KindOK(pc'[p], op[p].kind)
    BY <1>2, KindStays
  <2> QED BY <2>1, <2>2, <1>k DEF At, Stage, KindOK
<1> QED BY <1>o, <1>1, <1>2 DEF StageOK

\* A tombstone that a push writes is well formed.
LEMMA NewTombs ==
  ASSUME TypeInv, NEW p \in Clients, pc[p] = "tomb"
  PROVE  {[id |-> op[p].id, sha |-> s, age |-> 0] : s \in pre[p] \ {op[p].local}} \subseteq Tombstones
<1>1. pre[p] \subseteq Shas /\ ops \in 0..MaxOps /\ op[p].id \in 1..ops
  BY TypeParts DEF TypeInv, Typed, ClientsTyped, CountsTyped, StageOK, At, Stage
<1>2. op[p].id \in 1..MaxOps /\ 0 \in 0..Grace
  BY <1>1, ConstantsAssumption
<1> QED BY <1>1, <1>2 DEF Tombstones

\* What a fetch may lose is what it has seen.
LEMMA LoseTyped ==
  ASSUME fetch \in FetchType, NEW gone, FetchersLose(gone)
  PROVE  fetch' \in FetchType
<1> PICK f \in FetchType : f = fetch
  OBVIOUS
<1>1. [f EXCEPT !.dead = @ \cup (gone \cap f.seen)] \in FetchType
  BY DEF FetchType
<1> QED BY <1>1 DEF FetchersLose

LEMMA RestStays ==
  ASSUME TypeInv, NEW p \in Clients, MyStep(p)
  PROVE  StoreTyped' /\ HistoryTyped' /\ CountsTyped' /\ fetch' \in FetchType
<1>t. /\ StoreTyped /\ HistoryTyped /\ fetch \in FetchType
      /\ ops \in 0..MaxOps /\ faults \in 0..MaxFaults
      /\ op \in [Clients -> OpType] /\ pre \in [Clients -> SUBSET Shas]
  BY TypeParts DEF TypeInv, Typed, ClientsTyped, CountsTyped
<1>f. Fault => faults' \in 0..MaxFaults
  BY <1>t, ConstantsAssumption DEF Fault
<1>l. op[p].local \in Shas
  BY <1>t DEF OpType
<1> USE <1>t, <1>f DEF StoreTyped, HistoryTyped, CountsTyped
<1>1. CASE Begin(p)
  <2>1. ops' \in 0..MaxOps
    BY <1>1, ConstantsAssumption DEF Begin
  <2> QED BY <1>1, <2>1 DEF Begin, store, history
<1>2. CASE ReadTombs(p) \/ Prelist(p) \/ Open(p) \/ Confirm(p)
  BY <1>2 DEF ReadTombs, Prelist, Open, Confirm, store, history
<1>3. CASE CheckProtected(p)
  BY <1>3 DEF CheckProtected, store, history
<1>4. CASE Relist(p)
  BY <1>4 DEF Relist, store
<1>5. CASE PutBundle(p)
  <2>1. ~Several({op[p].local})
    BY DEF Several
  <2> QED BY <1>5, <1>l, <2>1 DEF PutBundle
<1>6. CASE PutHead(p) \/ PutFormat(p)
  BY <1>6 DEF PutHead, PutFormat, history
<1>7. CASE DeferPrior(p)
  BY <1>7, NewTombs DEF DeferPrior, history
<1>8. CASE Untomb(p)
  BY <1>8, LoseTyped DEF Untomb, history
<1>9. CASE Deleted(p) \/ ListForDelete(p) \/ ListForDeleteBranch(p)
  BY <1>9 DEF Deleted, ListForDelete, ListForDeleteBranch, store, history
<1>10. CASE Protect(p) \/ Unprotect(p)
  BY <1>10 DEF Protect, Unprotect, history
<1>11. CASE DeleteOne(p)
  <2> PICK s \in todo[p] :
           \/ bundles' = bundles \ {s} /\ live' = live \ {s} /\ FetchersLose({s})
           \/ \E gone \in {{}, {s}} : bundles' = bundles \ gone /\ live' = live \ gone /\ FetchersLose(gone)
    BY <1>11 DEF DeleteOne
  <2>1. PICK gone \in {{}, {s}} : bundles' = bundles \ gone /\ live' = live \ gone /\ FetchersLose(gone)
    OBVIOUS
  <2>2. ~Several(live \ gone)
    BY DEF Several
  <2>3. faults' \in 0..MaxFaults /\ UNCHANGED <<protected, meta, tombs, ops, hazards>>
    BY <1>11 DEF DeleteOne
  <2> QED BY <2>1, <2>2, <2>3, LoseTyped
<1>12. CASE AcquireLock(p) \/ Release(p)
  BY <1>12 DEF AcquireLock, Release, store, history
<1>13. CASE RequestFails(p) \/ Crash(p)
  BY <1>13 DEF RequestFails, Crash, store, history
<1> QED BY <1>1, <1>2, <1>3, <1>4, <1>5, <1>6, <1>7, <1>8, <1>9, <1>10, <1>11, <1>12, <1>13
        DEF MyStep, ClientStep, PushStep, ManageStep

LEMMA ClientTyped ==
  ASSUME TypeInv, NEW p \in Clients, MyStep(p)
  PROVE  TypeInv'
<1>1. ClientsTyped' /\ UNCHANGED gc
  BY ClientsStay DEF Others
<1>2. gc \in GcType
  BY TypeParts DEF TypeInv, Typed
<1> QED BY <1>1, <1>2, LockStays, StageStays, RestStays, TypeParts DEF TypeInv, Typed

LEMMA FetchTyped ==
  ASSUME TypeInv, FetchStep
  PROVE  fetch' \in FetchType /\ UNCHANGED <<store, lock, client, gc, ops, faults, history>>
<1>1. fetch \in FetchType /\ bundles \subseteq Shas
  BY TypeParts DEF TypeInv, Typed, StoreTyped
<1> PICK f \in FetchType : f = fetch
  BY <1>1
<1>2. CASE FetchList
  <2>0. 0 \in 0..MaxFetch
    BY ConstantsAssumption
  <2>1. ASSUME NEW b \in SUBSET Shas, NEW d \in SUBSET Shas
        PROVE  [f EXCEPT !.at = "tombs", !.seen = b, !.dead = d, !.age = 0] \in FetchType
    BY <2>0 DEF FetchType
  <2>2. bundles \in SUBSET Shas /\ bundles \cap Tombstoned \in SUBSET Shas
    BY <1>1
  <2>3. [fetch EXCEPT !.at = "tombs", !.seen = bundles, !.dead = bundles \cap Tombstoned, !.age = 0] \in FetchType
    BY <2>1, <2>2
  <2> QED BY <1>2, <2>3 DEF FetchList
<1>3. CASE FetchTombs
  <2>1. /\ [f EXCEPT !.at = "idle", !.seen = {}, !.dead = {}] \in FetchType
        /\ [f EXCEPT !.at = "get", !.seen = @ \ Tombstoned] \in FetchType
    BY DEF FetchType
  <2> QED BY <1>3, <2>1 DEF FetchTombs
<1>4. CASE FetchGet
  <2>1. \A b \in BOOLEAN : [at |-> "done", seen |-> {}, dead |-> {}, age |-> 0, found |-> b] \in FetchType
    BY ConstantsAssumption DEF FetchType
  <2> QED BY <1>4, <2>1 DEF FetchGet
<1>5. CASE FetchDone
  <2>1. [f EXCEPT !.at = "idle", !.found = TRUE] \in FetchType
    BY DEF FetchType
  <2> QED BY <1>5, <2>1 DEF FetchDone
<1> QED BY <1>2, <1>3, <1>4, <1>5 DEF FetchStep, FetchList, FetchTombs, FetchGet, FetchDone

LEMMA SweepTyped ==
  ASSUME TypeInv, SweepStep \/ SweepFails
  PROVE  /\ gc' \in GcType /\ bundles' \subseteq bundles /\ tombs' \subseteq tombs
         /\ UNCHANGED <<protected, meta, lock, client, fetch, ops, history>>
         /\ UNCHANGED faults \/ Fault
<1>1. gc \in GcType /\ tombs \subseteq Tombstones
  BY TypeParts DEF TypeInv, Typed, StoreTyped
<1> PICK g \in GcType : g = gc
  BY <1>1
<1>2. \A t \in tombs : t.id \in 1..MaxOps
  BY <1>1 DEF Tombstones
<1>0. 0 \in 0..MaxOps /\ \A id \in 1..MaxOps : id \in 0..MaxOps
  BY ConstantsAssumption
<1>3. CASE SweepList
  <2>1. [g EXCEPT !.at = "next", !.todo = {t.id : t \in tombs}] \in GcType
    BY <1>2 DEF GcType
  <2> QED BY <1>3, <2>1 DEF SweepList, store
<1>4. CASE SweepRead
  <2> PICK id \in gc.todo :
           gc' = [gc EXCEPT !.at = "bundle", !.id = id, !.todo = @ \ {id}] \/ gc' = [gc EXCEPT !.todo = @ \ {id}]
    BY <1>4 DEF SweepRead
  <2>1. id \in 0..MaxOps
    BY <1>0 DEF GcType
  <2>2. [g EXCEPT !.at = "bundle", !.id = id, !.todo = @ \ {id}] \in GcType /\ [g EXCEPT !.todo = @ \ {id}] \in GcType
    BY <2>1 DEF GcType
  <2> QED BY <1>4, <2>2 DEF SweepRead, store
<1>5. CASE SweepBundle
  <2>1. [g EXCEPT !.at = "tomb"] \in GcType
    BY DEF GcType
  <2> QED BY <1>5, <2>1 DEF SweepBundle
<1>6. CASE SweepTomb
  <2>1. [g EXCEPT !.at = "next", !.id = 0] \in GcType
    BY <1>0 DEF GcType
  <2> QED BY <1>6, <2>1 DEF SweepTomb
<1>7. CASE SweepDone
  <2>1. [g EXCEPT !.at = "idle"] \in GcType
    BY DEF GcType
  <2> QED BY <1>7, <2>1 DEF SweepDone, store
<1>8. CASE SweepFails
  <2>1. \A id \in g.todo : [g EXCEPT !.todo = @ \ {id}] \in GcType
    BY DEF GcType
  <2>2. [g EXCEPT !.at = "next", !.id = 0] \in GcType /\ [at |-> "idle", todo |-> {}, id |-> 0] \in GcType
    BY <1>0 DEF GcType
  <2> QED BY <1>8, <2>1, <2>2 DEF SweepFails, store
<1> QED BY <1>3, <1>4, <1>5, <1>6, <1>7, <1>8 DEF SweepStep

LEMMA TickTyped ==
  ASSUME TypeInv, Tick
  PROVE  fetch' \in FetchType /\ tombs' \subseteq Tombstones
<1>1. fetch \in FetchType /\ tombs \subseteq Tombstones
  BY TypeParts DEF TypeInv, Typed, StoreTyped
<1> PICK f \in FetchType : f = fetch
  BY <1>1
<1>2. f.at \in {"tombs", "get"} => [f EXCEPT !.age = @ + 1] \in FetchType
  BY ConstantsAssumption DEF Tick, FetchType
<1>3. [f EXCEPT !.age = @] \in FetchType
  BY DEF FetchType
<1>4. \A t \in Tombstones : [t EXCEPT !.age = IF @ < Grace THEN @ + 1 ELSE @] \in Tombstones
  BY ConstantsAssumption DEF Tombstones
<1> QED BY <1>1, <1>2, <1>3, <1>4 DEF Tick

LEMMA NextTyped ==
  ASSUME TypeInv, [Next]_vars
  PROVE  TypeInv'
<1>a. StoreTyped /\ ClientsTyped /\ LockTyped /\ HistoryTyped /\ CountsTyped /\ fetch \in FetchType /\ gc \in GcType
  BY TypeParts DEF TypeInv, Typed
<1>b. ASSUME UNCHANGED client, UNCHANGED ops PROVE ClientsTyped' /\ StageOK'
  BY <1>a, <1>b DEF client, ClientsTyped, TypeInv, StageOK, At, Stage
<1>1. CASE \E p \in Clients : Begin(p) \/ ClientStep(p) \/ RequestFails(p) \/ Crash(p)
  BY <1>1, ClientTyped DEF MyStep
<1>2. CASE StaleRecovery
  <2>1. LockTyped'
    BY <1>2, <1>a, ConstantsAssumption DEF StaleRecovery, LockTyped, client
  <2> QED BY <1>2, <1>a, <1>b, <2>1, TypeParts
          DEF StaleRecovery, TypeInv, Typed, store, history, StoreTyped, HistoryTyped, CountsTyped
<1>3. CASE FetchStep
  BY <1>3, <1>a, <1>b, FetchTyped, TypeParts
     DEF TypeInv, Typed, client, store, history, StoreTyped, HistoryTyped, CountsTyped, LockTyped
<1>4. CASE SweepStep \/ SweepFails
  <2>1. CountsTyped'
    BY <1>4, <1>a, SweepTyped, ConstantsAssumption DEF CountsTyped, Fault
  <2> QED BY <1>4, <1>a, <1>b, <2>1, SweepTyped, TypeParts
          DEF TypeInv, Typed, client, history, StoreTyped, HistoryTyped, LockTyped
<1>5. CASE Tick
  BY <1>5, <1>a, <1>b, TickTyped, TypeParts
     DEF Tick, TypeInv, Typed, client, history, StoreTyped, HistoryTyped, CountsTyped, LockTyped
<1>6. CASE UNCHANGED vars
  BY <1>6, <1>a, <1>b, TypeParts
     DEF vars, TypeInv, Typed, client, store, history, StoreTyped, HistoryTyped, CountsTyped, LockTyped
<1> QED BY <1>1, <1>2, <1>3, <1>4, <1>5, <1>6 DEF Next

LEMMA InitTyped == Init => TypeInv
<1> SUFFICES ASSUME Init PROVE TypeInv
  OBVIOUS
<1> USE DEF Init, Quiet
<1>1. \A p \in Clients : pc[p] = "idle"
  OBVIOUS
<1>2. StoreTyped /\ HistoryTyped
  BY DEF StoreTyped, HistoryTyped, Several
<1>3. ClientsTyped
  BY NoOpTyped DEF ClientsTyped, Unlocked
<1>4. LockTyped
  BY <1>1, ConstantsAssumption DEF LockTyped, UnderLock
<1>5. CountsTyped /\ fetch \in FetchType /\ gc \in GcType
  BY ConstantsAssumption DEF CountsTyped, FetchType, GcType
<1>6. StageOK
  BY <1>1 DEF StageOK, At, Stage
<1> QED BY <1>2, <1>3, <1>4, <1>5, <1>6, TypeParts DEF TypeInv, Typed

\* The lock is held by the one operation that is between its acquire and its
\* release, whatever fails or dies: the type invariant of BundleEngine.
THEOREM TypeCorrect == Spec => []TypeOK
<1>1. TypeInv /\ [Next]_vars => TypeInv'
  BY NextTyped
<1>2. TypeInv => TypeOK
  BY DEF TypeInv
<1> QED BY InitTyped, <1>1, <1>2, PTL DEF Spec

-----------------------------------------------------------------------------
(* What a step of a client changes, for all the invariants below.          *)

Puts(p) ==
  /\ pc[p] = "put" /\ pc'[p] \in {"head", "release"}
  /\ bundles' = bundles \cup {op[p].local} /\ live' = {op[p].local}
  /\ UNCHANGED <<protected, tombs, fetch>>
  /\ hazards' = {} => op[p].local \notin Tombstoned
  /\ pc'[p] = "release" => faults' # faults

Defers(p) ==
  /\ pc[p] = "tomb" /\ pc'[p] \in {"release", "untomb"}
  /\ tombs' = tombs \cup {[id |-> op[p].id, sha |-> s, age |-> 0] : s \in pre[p] \ {op[p].local}}
  /\ UNCHANGED <<bundles, protected, live, fetch>>
  /\ pc'[p] = "release" => faults' = faults

Untombs(p) ==
  /\ pc[p] = "untomb" /\ pc'[p] = "release"
  /\ \/ bundles' = bundles \ pre[p] /\ FetchersLose(pre[p])
     \/ UNCHANGED <<bundles, fetch>>
  /\ UNCHANGED <<protected, tombs, live>>

Deletes1(p) ==
  /\ pc[p] = "del" /\ pc'[p] \in {"del", "release"}
  /\ \E s \in todo[p] : \E gone \in SUBSET {s} :
       /\ bundles' = bundles \ gone /\ live' = live \ gone /\ FetchersLose(gone)
       /\ todo'[p] = todo[p] \ {s}
       /\ faults' = faults => gone = {s} /\ pc'[p] = "del"
  /\ UNCHANGED <<protected, tombs>>

Marks(p) ==
  /\ pc[p] \in {"mark", "unmark"} /\ pc'[p] = "release"
  /\ pc[p] = "mark" /\ protected' /\ ~protected => bundles # {}
  /\ pc[p] = "unmark" => ~protected'
  /\ pc[p] = "mark" /\ protected => protected'
  /\ UNCHANGED <<bundles, tombs, live, fetch>>

StoreStays == UNCHANGED <<bundles, protected, tombs, live, fetch>>

\* Where a client comes from, and what it has judged there.
Edges(p) ==
  /\ pc'[p] = "lock" =>
       \/ op'[p].kind \notin Pushes
       \/ /\ pc[p] = "prelist" /\ pre'[p] = Visible(hidden[p]) /\ ~Several(pre'[p])
          /\ op'[p].kind = "force" \/ FastForward(pre'[p], op[p].local)
  /\ pc'[p] = "check" => pc[p] = "lock"
  /\ pc'[p] = "relist" => pc[p] = "check" /\ ~(Rewinds(p) /\ protected)
  /\ pc'[p] = "put" =>
       /\ pc[p] = "relist" /\ pre[p] = Visible(hidden[p])
       /\ hazards' = {} => bundles \cap hidden[p] \subseteq Tombstoned
  /\ pc'[p] = "head" => Puts(p)
  /\ pc'[p] = "format" => pc[p] = "head"
  /\ pc'[p] = "tomb" => pc[p] = "format"
  /\ pc'[p] = "untomb" => pc[p] = "tomb" /\ pre[p] \ {op[p].local} # {} /\ faults' # faults
  /\ pc'[p] = "list" => pc[p] = "lock"
  /\ pc'[p] = "del" => Deletes1(p) \/ (pc[p] = "list" /\ ~protected /\ todo'[p] = bundles)
  /\ pc'[p] \in {"mark", "unmark"} => pc[p] = "lock"
  /\ pc[p] = "release" => pc'[p] = "idle"
  /\ pc[p] = "untomb" => pc'[p] \in {"idle", "release"}
  /\ pc[p] = "del" /\ faults' = faults => pc'[p] \in {"del", "release"}
  /\ pc'[p] = "release" =>
       /\ pc[p] \in UnderLock /\ pc[p] # "release"
       /\ pc[p] \in {"head", "format"} => faults' # faults
       /\ pc[p] = "tomb" => Defers(p)
       /\ pc[p] = "del" /\ faults' = faults => todo[p] = {}

LEMMA ClientEdges ==
  ASSUME TypeInv, NEW p \in Clients, MyStep(p)
  PROVE  /\ Edges(p) /\ hazards \subseteq hazards' /\ faults' \in {faults, faults + 1}
         /\ StoreStays \/ Puts(p) \/ Defers(p) \/ Untombs(p) \/ Deletes1(p) \/ Marks(p)
<1>t. ClientsTyped /\ faults \in Nat
  BY TypeParts DEF TypeInv, Typed, CountsTyped
<1>k. pc[p] # "idle" =>
        op[p].kind \in {"push", "force", "delete", "deleteBranch", "protect", "unprotect"}
  BY ConstantsAssumption DEF TypeInv, StageOK, At, Stage
<1> USE <1>t DEF ClientsTyped, Goto, Edges, StoreStays, UnderLock
<1>1. CASE Begin(p)
  <2> PICK kind \in Kinds, local \in Shas :
           /\ op' = [op EXCEPT ![p] = [id |-> ops + 1, kind |-> kind, local |-> local]]
           /\ Goto(p, CASE kind \in {"push", "force"} -> "tombs"
                        [] kind = "delete" -> "lock"
                        [] OTHER -> "open")
    BY <1>1 DEF Begin
  <2> DEFINE l == CASE kind \in {"push", "force"} -> "tombs"
                    [] kind = "delete" -> "lock"
                    [] OTHER -> "open"
  <2>1. op'[p].kind = kind /\ pc'[p] = l
    OBVIOUS
  <2>2. l \in {"tombs", "open"} \/ (kind = "delete" /\ l = "lock")
    OBVIOUS
  <2> HIDE DEF l
  <2> QED BY <1>1, <2>1, <2>2 DEF Begin, store, history, Pushes
<1>2. CASE ReadTombs(p)
  BY <1>2 DEF ReadTombs, store, history
<1>3. CASE Prelist(p)
  BY <1>3 DEF Prelist, Finish, store, history
<1>4. CASE Open(p) \/ Confirm(p)
  BY <1>4 DEF Open, Confirm, Finish, Advance, store, history, TypeInv, StageOK, At, Stage, Pushes
<1>5. CASE CheckProtected(p)
  BY <1>5 DEF CheckProtected, Leave, Advance, store, history
<1>6. CASE Relist(p)
  BY <1>6 DEF Relist, Leave, Advance, store
<1>7. CASE PutBundle(p)
  BY <1>7 DEF PutBundle, Leave, Advance, Fault, Puts
<1>8. CASE PutHead(p) \/ PutFormat(p)
  BY <1>8 DEF PutHead, PutFormat, Advance, history
<1>9. CASE DeferPrior(p)
  <2>1. CASE Leave(p, "ok")
    BY <1>9, <2>1 DEF DeferPrior, Leave, Advance, Fault, history, Defers
  <2>2. CASE Advance(p, "untomb")
    <3>1. pc[p] = "tomb" /\ pre[p] \ {op[p].local} # {} /\ faults' = faults + 1
          /\ UNCHANGED <<bundles, protected, live, fetch, hazards, op, pre, todo>>
      BY <1>9, <2>2 DEF DeferPrior, Leave, Advance, Fault, history
    <3>2. tombs' = tombs \/ Defers(p)
      BY <1>9, <2>2, <3>1 DEF DeferPrior, Leave, Advance, Fault, history, Defers
    <3> QED BY <2>2, <3>1, <3>2 DEF Advance
  <2> QED BY <1>9, <2>1, <2>2 DEF DeferPrior
<1>10. CASE Untomb(p)
  BY <1>10 DEF Untomb, Leave, Fault, history, Untombs
<1>11. CASE ListForDelete(p) \/ ListForDeleteBranch(p)
  BY <1>11 DEF ListForDelete, ListForDeleteBranch, Leave, store, history
<1>12. CASE DeleteOne(p)
  <2> PICK s \in todo[p] :
           /\ todo' = [todo EXCEPT ![p] = @ \ {s}]
           /\ \/ /\ bundles' = bundles \ {s} /\ live' = live \ {s} /\ FetchersLose({s})
                 /\ UNCHANGED <<pc, faults>>
              \/ /\ Fault
                 /\ \E gone \in {{}, {s}} :
                      bundles' = bundles \ gone /\ live' = live \ gone /\ FetchersLose(gone)
                 /\ IF op[p].kind = "delete"
                    THEN Goto(p, "release") ELSE UNCHANGED pc
    BY <1>12 DEF DeleteOne
  <2>2. PICK gone \in SUBSET {s} :
             /\ bundles' = bundles \ gone /\ live' = live \ gone /\ FetchersLose(gone)
             /\ faults' = faults => gone = {s} /\ UNCHANGED pc
    BY DEF Fault
  <2>3. pc[p] = "del" /\ pc'[p] \in {"del", "release"} /\ UNCHANGED <<protected, tombs>>
    BY <1>12 DEF DeleteOne
  <2>4. todo'[p] = todo[p] \ {s}
    OBVIOUS
  <2>1. Deletes1(p)
    BY <2>2, <2>3, <2>4 DEF Deletes1
  <2> QED BY <1>12, <2>1 DEF DeleteOne, Deletes1, Fault
<1>13. CASE Deleted(p)
  BY <1>13 DEF Deleted, Leave, store, history
<1>14. CASE Protect(p) \/ Unprotect(p)
  BY <1>14 DEF Protect, Unprotect, Leave, history, Marks
<1>15. CASE AcquireLock(p)
  BY <1>15, <1>k DEF AcquireLock, AfterLock, Finish, Advance, store, history, Pushes
<1>16. CASE Release(p) \/ Crash(p)
  BY <1>16 DEF Release, Crash, Fault, Finish, store, history
<1>17. CASE RequestFails(p)
  BY <1>17 DEF RequestFails, Fault, Finish, Leave, store, history
<1> QED BY <1>1, <1>2, <1>3, <1>4, <1>5, <1>6, <1>7, <1>8, <1>9, <1>10, <1>11, <1>12, <1>13,
          <1>14, <1>15, <1>16, <1>17 DEF MyStep, ClientStep, PushStep, ManageStep

\* What a client has read, it keeps to the end.
LEMMA ReadsStay ==
  ASSUME TypeInv, NEW p \in Clients, MyStep(p)
  PROVE  /\ pc'[p] \notin {"idle", "lock"} => pre'[p] = pre[p]
         /\ pre'[p] \in {pre[p], {}} \/ ~Several(pre'[p])
<1>t. ClientsTyped
  BY TypeParts DEF TypeInv, Typed
<1> USE <1>t DEF ClientsTyped, Goto, Forget
<1>1. CASE Begin(p)
  BY <1>1 DEF Begin
<1>2. CASE ReadTombs(p) \/ Prelist(p) \/ Open(p) \/ Confirm(p)
  BY <1>2 DEF ReadTombs, Prelist, Open, Confirm, Finish, Advance
<1>3. CASE CheckProtected(p) \/ Relist(p) \/ PutBundle(p) \/ PutHead(p) \/ PutFormat(p)
  BY <1>3 DEF CheckProtected, Relist, PutBundle, PutHead, PutFormat, Leave, Advance
<1>4. CASE DeferPrior(p) \/ Untomb(p) \/ Deleted(p) \/ Protect(p) \/ Unprotect(p)
  BY <1>4 DEF DeferPrior, Untomb, Deleted, Protect, Unprotect, Leave, Advance
<1>5. CASE ListForDelete(p) \/ ListForDeleteBranch(p) \/ DeleteOne(p)
  BY <1>5 DEF ListForDelete, ListForDeleteBranch, DeleteOne, Leave
<1>6. CASE AcquireLock(p) \/ Release(p) \/ RequestFails(p) \/ Crash(p)
  BY <1>6 DEF AcquireLock, Release, RequestFails, Crash, Finish, Leave, Advance
<1> QED BY <1>1, <1>2, <1>3, <1>4, <1>5, <1>6 DEF MyStep, ClientStep, PushStep, ManageStep

-----------------------------------------------------------------------------
(* The numbers.                                                            *)

LEMMA ClientNumbers ==
  ASSUME NumberInv, NEW p \in Clients, MyStep(p)
  PROVE  NumbersOK'
<1> USE DEF NumberInv, Unwritten
<1>n. ops \in Nat /\ \A q \in Clients : pc[q] # "idle" => op[q].id \in 1..ops
  BY TypeParts DEF TypeInv, Typed, CountsTyped, StageOK, At, Stage
<1>o. \A q \in Clients \ {p} : pc'[q] = pc[q] /\ op'[q] = op[q]
  BY ClientsStay DEF Others
<1>g. gc' = gc
  BY ClientsStay DEF Others
<1>i. \A t \in tombs : t.id \in 1..MaxOps
  BY TypeParts DEF TypeInv, Typed, StoreTyped, Tombstones
<1>t. \/ tombs' = tombs
      \/ /\ Defers(p)
         /\ \A t \in tombs' : t \in tombs \/ t.id = op[p].id
  <2>1. Defers(p) => \A t \in tombs' : t \in tombs \/ t.id = op[p].id
    BY DEF Defers
  <2> QED BY <2>1, ClientEdges DEF StoreStays, Puts, Untombs, Deletes1, Marks
<1>1. CASE Begin(p)
  <2>1. ops' = ops + 1 /\ pc[p] = "idle" /\ op'[p].id = ops + 1 /\ tombs' = tombs
    <3>1. op \in [Clients -> OpType]
      BY TypeParts DEF TypeInv, Typed, ClientsTyped
    <3> QED BY <1>1, <3>1 DEF Begin, store
  <2>2. \A q, r \in Clients : pc'[q] # "idle" /\ pc'[r] # "idle" /\ op'[q].id = op'[r].id => q = r
    BY <1>n, <1>o, <2>1 DEF NumbersOK
  <2>3. \A t \in tombs' : t.id <= ops'
    BY <1>n, <1>i, <2>1 DEF NumbersOK
  <2>4. \A q \in Clients : Unwritten(q)' => \A t \in tombs' : t.id # op'[q].id
    BY <1>n, <1>o, <1>i, <2>1 DEF NumbersOK
  <2>5. gc'.at \in {"bundle", "tomb"} =>
          gc'.id \in 1..ops' /\ \A q \in Clients : Unwritten(q)' => op'[q].id # gc'.id
    BY <1>n, <1>o, <1>g, <2>1 DEF NumbersOK
  <2> QED BY <2>2, <2>3, <2>4, <2>5, Zenon DEF NumbersOK
<1>2. CASE ~Begin(p)
  <2>1. pc[p] # "idle" /\ (op'[p] = op[p] \/ pc'[p] = "idle") /\ ops' = ops
    BY <1>2, OpStays
  <2>e. /\ pc'[p] \notin {"idle", "untomb", "release"} => pc[p] \notin {"untomb", "release"}
        /\ Defers(p) => pc'[p] \in {"untomb", "release"}
    BY ClientEdges DEF Edges, Puts, Deletes1, TypeInv, Defers
  <2>2. \A q, r \in Clients : pc'[q] # "idle" /\ pc'[r] # "idle" /\ op'[q].id = op'[r].id => q = r
    BY <1>o, <2>1 DEF NumbersOK
  <2>3. \A t \in tombs' : t.id <= ops'
    BY <1>n, <1>t, <2>1 DEF NumbersOK
  <2>4. ASSUME NEW q \in Clients, Unwritten(q)', NEW t \in tombs' PROVE t.id # op'[q].id
    BY <1>o, <1>t, <2>1, <2>e, <2>4 DEF NumbersOK, Defers
  <2>5. gc'.at \in {"bundle", "tomb"} =>
          gc'.id \in 1..ops' /\ \A q \in Clients : Unwritten(q)' => op'[q].id # gc'.id
    BY <1>o, <1>g, <2>1, <2>e DEF NumbersOK
  <2> QED BY <2>2, <2>3, <2>4, <2>5, Zenon DEF NumbersOK
<1> QED BY <1>1, <1>2

\* A step of anything else leaves the clients and takes no new number.
LEMMA OtherNumbers ==
  ASSUME NumberInv, StaleRecovery \/ FetchStep \/ SweepStep \/ SweepFails \/ Tick \/ UNCHANGED vars
  PROVE  NumbersOK'
<1> USE DEF NumberInv
<1>t. gc \in GcType /\ tombs \subseteq Tombstones /\ ops \in Nat
  BY TypeParts DEF TypeInv, Typed, StoreTyped, CountsTyped
<1>c. pc' = pc /\ op' = op /\ ops' = ops
  BY FetchTyped, SweepTyped DEF StaleRecovery, Tick, vars, client
<1>i. \A t \in tombs' : \E u \in tombs : t.id = u.id
  <2>1. CASE Tick
    <3>1. \A u \in tombs : [u EXCEPT !.age = IF @ < Grace THEN @ + 1 ELSE @].id = u.id
      BY <1>t DEF Tombstones
    <3> QED BY <2>1, <3>1 DEF Tick
  <2>2. CASE ~Tick
    BY <2>2, FetchTyped, SweepTyped DEF StaleRecovery, vars, store
  <2> QED BY <2>1, <2>2
<1>g. gc'.at \in {"bundle", "tomb"} =>
        \/ gc.at \in {"bundle", "tomb"} /\ gc'.id = gc.id
        \/ \E t \in tombs : gc'.id = t.id
  <2>1. CASE SweepStep \/ SweepFails
    <3> USE <1>t DEF GcType
    <3>1. CASE SweepList \/ SweepDone \/ SweepTomb
      BY <3>1 DEF SweepList, SweepDone, SweepTomb
    <3>4. CASE SweepFails
      <4>1. CASE gc' = [at |-> "idle", todo |-> {}, id |-> 0]
        <5>1. gc'.at = "idle"
          BY <4>1
        <5> QED BY <5>1
      <4>3. CASE gc' = [gc EXCEPT !.at = "next", !.id = 0]
        <5>1. gc'.at = "next"
          BY <4>3
        <5> QED BY <5>1
      <4>2. CASE gc.at = "next" /\ \E id \in gc.todo : gc' = [gc EXCEPT !.todo = @ \ {id}]
        BY <4>2
      <4> QED BY <3>4, <4>1, <4>2, <4>3 DEF SweepFails
    <3>2. CASE SweepRead
      <4> PICK id \in gc.todo :
               IF \E t \in tombs : t.id = id /\ (ForceSweep \/ t.age >= Grace)
               THEN gc' = [gc EXCEPT !.at = "bundle", !.id = id, !.todo = @ \ {id}]
               ELSE gc' = [gc EXCEPT !.todo = @ \ {id}]
        BY <3>2 DEF SweepRead
      <4>1. gc.at = "next"
        BY <3>2 DEF SweepRead
      <4>2. \/ gc'.at = "bundle" /\ gc'.id = id /\ \E t \in tombs : t.id = id
            \/ gc'.at = gc.at
        OBVIOUS
      <4> QED BY <4>1, <4>2
    <3>3. CASE SweepBundle
      BY <3>3 DEF SweepBundle
    <3> QED BY <2>1, <3>1, <3>2, <3>3, <3>4 DEF SweepStep
  <2>2. CASE ~(SweepStep \/ SweepFails)
    BY <2>2, FetchTyped DEF StaleRecovery, Tick, vars
  <2> QED BY <2>1, <2>2
<1>d. \A t \in tombs : t.id \in 1..ops
  BY <1>t DEF NumbersOK, Tombstones
<1> QED BY <1>c, <1>i, <1>g, <1>d DEF NumbersOK, Unwritten

LEMMA NumberStep ==
  ASSUME NumberInv, [Next]_vars
  PROVE  NumberInv'
<1>1. TypeInv'
  BY NextTyped DEF NumberInv
<1>2. NumbersOK'
  BY ClientNumbers, OtherNumbers DEF Next, MyStep
<1> QED BY <1>1, <1>2 DEF NumberInv

LEMMA InitNumbers == Init => NumberInv
  BY InitTyped DEF Init, Quiet, NumberInv, NumbersOK, Unwritten

-----------------------------------------------------------------------------
(* The value of the ref.                                                   *)

\* A client changes the value only while it holds the lock.
LEMMA LiveMoves ==
  ASSUME TypeInv, NEW p \in Clients, MyStep(p), NEW q \in Clients \ {p}, pc[q] \in UnderLock
  PROVE  live' = live
<1>1. ~(pc[p] \in UnderLock)
  BY OneHolder DEF TypeInv
<1> QED BY <1>1, ClientEdges DEF StoreStays, Puts, Defers, Untombs, Deletes1, Marks, UnderLock

LEMMA ClientValues ==
  ASSUME NumberInv, Values, NEW p \in Clients, MyStep(p), hazards' = {}
  PROVE  Values'
<1> USE DEF NumberInv, Values
<1>o. \A q \in Clients \ {p} : pc'[q] = pc[q] /\ op'[q] = op[q] /\ pre'[q] = pre[q]
  BY ClientsStay DEF Others
<1>g. gc' = gc
  BY ClientsStay DEF Others
<1>l. \A q \in Clients \ {p} : pc[q] \in UnderLock => live' = live
  BY LiveMoves
<1>e. Edges(p) /\ (StoreStays \/ Puts(p) \/ Defers(p) \/ Untombs(p) \/ Deletes1(p) \/ Marks(p))
  BY ClientEdges
<1>1. PushedOK'
  <2>1. ASSUME NEW q \in Clients \ {p}
        PROVE  /\ ~Several(pre'[q])
               /\ pc'[q] \in {"head", "format", "tomb", "untomb"} => live' = {op'[q].local}
               /\ pc'[q] = "untomb" => op'[q].local \notin pre'[q]
    BY <1>o, <1>l DEF PushedOK, UnderLock
  <2>2. ~Several(pre'[p])
    <3>1. ~Several({})
      BY DEF Several
    <3> QED BY <3>1, ReadsStay DEF PushedOK
  <2>3. ASSUME pc'[p] \in {"head", "format", "tomb", "untomb"}
        PROVE  live' = {op'[p].local} /\ (pc'[p] = "untomb" => op'[p].local \notin pre'[p])
    <3>1. ~Begin(p)
      <4>1. CASE Begin(p)
        <5>1. pc[p] = "idle"
          BY <4>1 DEF Begin
        <5> QED BY <2>3, <5>1, <1>e DEF Edges, Puts
      <4> QED BY <4>1
    <3>2. op'[p] = op[p] /\ pre'[p] = pre[p]
      BY <2>3, <3>1, OpStays, ReadsStay
    <3>3. pc'[p] = "head" => Puts(p)
      BY <1>e DEF Edges
    <3>4. pc'[p] # "head" => pc[p] \in {"head", "format", "tomb"} /\ live' = live
      BY <2>3, <1>e DEF Edges, StoreStays, Puts, Defers, Untombs, Deletes1, Marks
    <3>5. pc'[p] = "untomb" => pre[p] \ {op[p].local} # {}
      BY <1>e DEF Edges
    <3> QED BY <3>2, <3>3, <3>4, <3>5 DEF PushedOK, Puts, Several
  <2> QED BY <2>1, <2>2, <2>3 DEF PushedOK
<1>2. LiveUntombed'
  <2>1. CASE StoreStays \/ Untombs(p) \/ Deletes1(p) \/ Marks(p)
    BY <2>1 DEF StoreStays, Untombs, Deletes1, Marks, LiveUntombed, Tombstoned
  <2>2. CASE Puts(p)
    BY <2>2 DEF Puts, LiveUntombed, Tombstoned
  <2>3. CASE Defers(p)
    <3>1. live = {op[p].local} /\ live' = live
      BY <2>3 DEF Defers, PushedOK
    <3>2. ASSUME NEW t \in tombs' PROVE t \in tombs \/ t.sha # op[p].local
      BY <2>3 DEF Defers
    <3> QED BY <3>1, <3>2 DEF LiveUntombed, Tombstoned
  <2> QED BY <1>e, <2>1, <2>2, <2>3
<1>3. SweptOK'
  <2> SUFFICES ASSUME gc.at = "tomb", NEW t \in tombs', t.id = gc.id
               PROVE  t.sha \notin bundles'
    BY <1>g DEF SweptOK
  <2>1. t \in tombs
    <3>1. CASE Defers(p)
      <4>1. op[p].id # gc.id
        BY <3>1 DEF Defers, NumbersOK, Unwritten
      <4> QED BY <3>1, <4>1 DEF Defers
    <3> QED BY <3>1, <1>e DEF StoreStays, Puts, Untombs, Deletes1, Marks
  <2>2. t.sha \notin bundles
    BY <2>1 DEF SweptOK
  <2>3. \A s \in bundles' : s \in bundles \/ (s \notin Tombstoned)
    BY <1>e DEF StoreStays, Puts, Defers, Untombs, Deletes1, Marks
  <2> QED BY <2>1, <2>2, <2>3 DEF Tombstoned
<1> QED BY <1>1, <1>2, <1>3

\* Nothing a client deletes is the value.
LEMMA ClientKeeps ==
  ASSUME NumberInv, Values, NEW p \in Clients, MyStep(p), NEW Q, live \subseteq bundles \cup Q
  PROVE  live' \subseteq bundles' \cup Q
<1>1. CASE Untombs(p)
  <2>1. live = {op[p].local} /\ op[p].local \notin pre[p] /\ live' = live
    BY <1>1 DEF Untombs, Values, PushedOK
  <2> QED BY <1>1, <2>1 DEF Untombs
<1>2. CASE ~Untombs(p)
  BY <1>2, ClientEdges DEF NumberInv, StoreStays, Puts, Defers, Deletes1, Marks
<1> QED BY <1>1, <1>2

\* A sweep deletes what is tombstoned.
LEMMA OtherValues ==
  ASSUME NumberInv, Values, NEW Q, live \subseteq bundles \cup Q,
         StaleRecovery \/ FetchStep \/ SweepStep \/ SweepFails \/ Tick \/ UNCHANGED vars
  PROVE  Values' /\ live' \subseteq bundles' \cup Q /\ hazards' = hazards
<1>t. gc \in GcType /\ tombs \subseteq Tombstones
  BY TypeParts DEF NumberInv, TypeInv, Typed, StoreTyped
<1>c. pc' = pc /\ op' = op /\ pre' = pre /\ live' = live /\ hazards' = hazards
  BY FetchTyped, SweepTyped DEF NumberInv, StaleRecovery, Tick, vars, client, history
<1>b. bundles' = bundles \/ bundles' = bundles \ {t.sha : t \in {u \in tombs : u.id = gc.id}}
  BY FetchTyped DEF NumberInv, StaleRecovery, Tick, vars, store, SweepStep, SweepFails, SweepList, SweepRead,
     SweepBundle, SweepTomb, SweepDone
<1>i. \A t \in tombs' : \E u \in tombs : t.id = u.id /\ t.sha = u.sha
  <2>1. CASE Tick
    <3>1. \A u \in tombs : /\ [u EXCEPT !.age = IF @ < Grace THEN @ + 1 ELSE @].id = u.id
                           /\ [u EXCEPT !.age = IF @ < Grace THEN @ + 1 ELSE @].sha = u.sha
      BY <1>t DEF Tombstones
    <3>2. tombs' = {[u EXCEPT !.age = IF @ < Grace THEN @ + 1 ELSE @] : u \in tombs}
      BY <2>1 DEF Tick
    <3> SUFFICES ASSUME NEW t \in tombs' PROVE \E u \in tombs : t.id = u.id /\ t.sha = u.sha
      OBVIOUS
    <3>3. PICK u \in tombs : t = [u EXCEPT !.age = IF @ < Grace THEN @ + 1 ELSE @]
      BY <3>2, Zenon
    <3> QED BY <3>1, <3>3
  <2>2. CASE ~Tick
    BY <2>2, FetchTyped, SweepTyped DEF NumberInv, StaleRecovery, vars, store
  <2> QED BY <2>1, <2>2
<1>1. PushedOK'
  BY <1>c DEF Values, PushedOK
<1>2. LiveUntombed'
  BY <1>c, <1>i DEF Values, LiveUntombed, Tombstoned
<1>3. live' \subseteq bundles' \cup Q
  BY <1>c, <1>b DEF Values, LiveUntombed, Tombstoned
<1>4. SweptOK'
  <2>1. gc'.at = "tomb" =>
          \/ gc.at = "tomb" /\ gc'.id = gc.id
          \/ SweepBundle /\ gc'.id = gc.id
    <3>1. CASE SweepRead
      <4> PICK id \in gc.todo :
               gc' = [gc EXCEPT !.at = "bundle", !.id = id, !.todo = @ \ {id}] \/ gc' = [gc EXCEPT !.todo = @ \ {id}]
        BY <3>1 DEF SweepRead
      <4>1. gc.at = "next" /\ gc'.at \in {"bundle", gc.at}
        BY <3>1, <1>t DEF SweepRead, GcType
      <4> QED BY <4>1
    <3>2. CASE SweepFails
      <4>1. CASE gc' = [at |-> "idle", todo |-> {}, id |-> 0]
        <5>1. gc'.at = "idle"
          BY <4>1
        <5> QED BY <5>1
      <4>2. CASE gc' = [gc EXCEPT !.at = "next", !.id = 0]
        <5>1. gc'.at = "next"
          BY <4>2, <1>t DEF GcType
        <5> QED BY <5>1
      <4>3. CASE gc.at = "next" /\ \E id \in gc.todo : gc' = [gc EXCEPT !.todo = @ \ {id}]
        BY <4>3, <1>t DEF GcType
      <4> QED BY <3>2, <4>1, <4>2, <4>3 DEF SweepFails
    <3>3. CASE SweepList \/ SweepTomb \/ SweepDone
      BY <3>3, <1>t DEF SweepList, SweepTomb, SweepDone, GcType
    <3>4. CASE SweepBundle
      BY <3>4, <1>t DEF SweepBundle, GcType
    <3>5. CASE ~(SweepStep \/ SweepFails)
      BY <3>5, FetchTyped DEF NumberInv, StaleRecovery, Tick, vars
    <3> QED BY <3>1, <3>2, <3>3, <3>4, <3>5 DEF SweepStep
  <2>2. SweepBundle => bundles' = bundles \ {t.sha : t \in {u \in tombs : u.id = gc.id}}
    BY DEF SweepBundle
  <2> QED BY <2>1, <2>2, <1>i, <1>b DEF Values, SweptOK
<1> QED BY <1>1, <1>2, <1>3, <1>4, <1>c DEF Values

LEMMA ValueStep ==
  ASSUME ValueInv, [Next]_vars
  PROVE  ValueInv'
<1>1. NumberInv'
  BY NumberStep DEF ValueInv
<1>2. ASSUME hazards' = {} PROVE Values' /\ live' \subseteq bundles'
  <2>1. CASE \E p \in Clients : MyStep(p)
    <3> PICK p \in Clients : MyStep(p)
      BY <2>1
    <3>1. hazards = {}
      BY <1>2, ClientEdges DEF ValueInv, NumberInv
    <3>2. live \subseteq bundles \cup {}
      BY <3>1 DEF ValueInv
    <3>3. live' \subseteq bundles' \cup {}
      BY <3>1, <3>2, ClientKeeps DEF ValueInv
    <3> QED BY <1>2, <3>1, <3>3, ClientValues DEF ValueInv
  <2>2. CASE StaleRecovery \/ FetchStep \/ SweepStep \/ SweepFails \/ Tick \/ UNCHANGED vars
    <3>1. hazards' = hazards
      BY <2>2, FetchTyped, SweepTyped DEF ValueInv, NumberInv, StaleRecovery, Tick, vars, history
    <3>2. live \subseteq bundles \cup {} /\ Values
      BY <1>2, <3>1 DEF ValueInv
    <3>3. Values' /\ live' \subseteq bundles' \cup {}
      BY <2>2, <3>2, OtherValues DEF ValueInv
    <3> QED BY <3>3
  <2> QED BY <2>1, <2>2 DEF Next, MyStep
<1> QED BY <1>1, <1>2 DEF ValueInv

LEMMA InitValue == Init => ValueInv
<1> SUFFICES ASSUME Init PROVE ValueInv
  OBVIOUS
<1>1. PushedOK /\ LiveUntombed /\ SweptOK
  BY DEF Init, Quiet, PushedOK, LiveUntombed, SweptOK, Several, Tombstoned
<1> QED BY <1>1, InitNumbers DEF Init, ValueInv, Values

-----------------------------------------------------------------------------
(* How the ref moves.                                                      *)

\* What a client has judged still holds while another one steps: the other
\* one has not the lock.
LEMMA OthersJudged ==
  ASSUME NumberInv, NEW p \in Clients, MyStep(p), NEW q \in Clients \ {p}, Judged(q)
  PROVE  Judged(q)'
<1>1. pc'[q] = pc[q] /\ op'[q] = op[q] /\ pre'[q] = pre[q]
  BY ClientsStay DEF Others, NumberInv
<1>2. pc[q] \in UnderLock => ~(pc[p] \in UnderLock)
  BY OneHolder DEF NumberInv, TypeInv
<1>3. pc[q] \in UnderLock => protected' = protected /\ live' = live
  BY <1>2, ClientEdges DEF NumberInv, StoreStays, Puts, Defers, Untombs, Deletes1, Marks, UnderLock
<1> QED BY <1>1, <1>3 DEF Judged, UnderLock

LEMMA ClientJudged ==
  ASSUME ValueInv, hazards = {}, JudgedOK, NEW p \in Clients, MyStep(p), hazards' = {}
  PROVE  JudgedOK'
<1>v. NumberInv /\ TypeInv /\ Values /\ live \subseteq bundles
  BY DEF ValueInv, NumberInv
<1>e. Edges(p) /\ (StoreStays \/ Puts(p) \/ Defers(p) \/ Untombs(p) \/ Deletes1(p) \/ Marks(p))
  BY <1>v, ClientEdges
<1>j. Judged(p)
  BY DEF JudgedOK
<1>k. pc'[p] # "idle" => op'[p].kind \in Kinds /\ (pc'[p] \in {"check", "relist", "put"} => op'[p].kind \in Pushes)
  <2>1. At(p)'
    BY <1>v, StageStays DEF StageOK
  <2> QED BY <2>1 DEF At, Stage
<1>1. CASE Begin(p)
  <2>1. pc'[p] \notin {"check", "relist", "put", "del"} /\ pc[p] = "idle"
    BY <1>1, <1>e DEF Begin, Edges, Deletes1
  <2>2. pc'[p] = "lock" => op'[p].kind \notin Pushes
    BY <2>1, <1>e DEF Edges
  <2> QED BY <2>1, <2>2, <1>v, OthersJudged DEF JudgedOK, Judged, Pushes
<1>2. CASE ~Begin(p)
  <2>o. pc[p] # "idle" /\ (op'[p] = op[p] \/ pc'[p] = "idle")
    BY <1>2, <1>v, OpStays
  <2>p. pc'[p] \notin {"idle", "lock"} => pre'[p] = pre[p]
    BY <1>v, ReadsStay
  <2>1. pc'[p] \in {"lock", "check", "relist", "put"} /\ op'[p].kind = "push" => FastForward(pre'[p], op'[p].local)
    BY <1>e, <1>j, <2>o, <2>p DEF Edges, Judged, Pushes, FastForward
  <2>2. ASSUME pc'[p] \in {"relist", "put"}, protected'
        PROVE  FastForward(pre'[p], op'[p].local)
    <3>1. op'[p] = op[p] /\ pre'[p] = pre[p]
      BY <2>2, <2>o, <2>p
    <3>2. protected
      BY <2>2, <1>e DEF Edges, StoreStays, Puts, Defers, Untombs, Deletes1, Marks
    <3>3. CASE pc'[p] = "relist"
      <4>1. pc[p] = "check" /\ ~Rewinds(p)
        BY <3>2, <3>3, <1>e DEF Edges
      <4>2. op[p].kind \in Pushes
        BY <1>k, <3>1, <3>3
      <4> QED BY <3>1, <4>1, <4>2, <1>j DEF Rewinds, Judged, Pushes
    <3>4. CASE pc'[p] = "put"
      BY <3>1, <3>2, <3>4, <1>e, <1>j DEF Edges, Judged
    <3> QED BY <2>2, <3>3, <3>4
  <2>3. ASSUME pc'[p] = "put" PROVE live' \subseteq pre'[p]
    <3>1. pc[p] = "relist" /\ pre[p] = Visible(hidden[p]) /\ bundles \cap hidden[p] \subseteq Tombstoned
      BY <2>3, <1>e DEF Edges
    <3>2. live' = live /\ pre'[p] = pre[p]
      BY <2>3, <2>p, <3>1, <1>e DEF StoreStays, Puts, Defers, Untombs, Deletes1, Marks
    <3> QED BY <3>1, <3>2, <1>v DEF Visible, Values, LiveUntombed
  <2>4. pc'[p] = "del" => ~protected'
    BY <1>e, <1>j DEF Edges, Judged, StoreStays, Puts, Defers, Untombs, Deletes1, Marks
  <2>5. Judged(p)'
    BY <2>1, <2>2, <2>3, <2>4 DEF Judged
  <2> QED BY <2>5, <1>v, OthersJudged DEF JudgedOK
<1> QED BY <1>1, <1>2

LEMMA MoveStep ==
  ASSUME MoveInv, [Next]_vars
  PROVE  MoveInv'
<1>1. ValueInv'
  BY ValueStep DEF MoveInv
<1>2. ASSUME hazards' = {} PROVE JudgedOK'
  <2>1. CASE \E p \in Clients : MyStep(p)
    <3> PICK p \in Clients : MyStep(p)
      BY <2>1
    <3>1. hazards = {}
      BY <1>2, ClientEdges DEF MoveInv, ValueInv, NumberInv
    <3> QED BY <1>2, <3>1, ClientJudged DEF MoveInv
  <2>2. CASE StaleRecovery \/ FetchStep \/ SweepStep \/ SweepFails \/ Tick \/ UNCHANGED vars
    <3>1. UNCHANGED <<pc, op, pre, live, hazards, protected>>
      BY <2>2, FetchTyped, SweepTyped
         DEF MoveInv, ValueInv, NumberInv, StaleRecovery, Tick, vars, history, store, client
    <3> QED BY <1>2, <3>1 DEF MoveInv, JudgedOK, Judged
  <2> QED BY <2>1, <2>2 DEF Next, MyStep
<1> QED BY <1>1, <1>2 DEF MoveInv

LEMMA InitMove == Init => MoveInv
  BY InitValue DEF Init, Quiet, MoveInv, JudgedOK, Judged

\* What UpdateAllowed says of one step.
MoveAllowed ==
  live' # live /\ hazards' = {} =>
    /\ \A p \in Clients : pc[p] = "put" /\ op[p].kind = "push" => FastForward(live, op[p].local)
    /\ protected => live' # {} /\ \A s \in live' : FastForward(live, s)

LEMMA MoveIsAllowed ==
  ASSUME MoveInv, [Next]_vars
  PROVE  MoveAllowed
<1> SUFFICES ASSUME live' # live, hazards' = {} PROVE MoveAllowed
  BY DEF MoveAllowed
<1>v. TypeInv
  BY DEF MoveInv, ValueInv, NumberInv
<1>1. PICK p \in Clients : MyStep(p)
  BY <1>v, FetchTyped, SweepTyped DEF Next, MyStep, StaleRecovery, Tick, vars, history
<1>e. Puts(p) \/ Deletes1(p)
  BY <1>v, <1>1, ClientEdges DEF StoreStays, Defers, Untombs, Marks
<1>j. JudgedOK
  BY <1>v, <1>1, ClientEdges DEF MoveInv
<1>2. \A q \in Clients : pc[q] = "put" /\ op[q].kind = "push" => FastForward(live, op[q].local)
  BY <1>j DEF JudgedOK, Judged, FastForward
<1>3. protected => Puts(p) /\ live \subseteq pre[p] /\ FastForward(pre[p], op[p].local)
  BY <1>e, <1>j DEF JudgedOK, Judged, Deletes1, Puts
<1> QED BY <1>2, <1>3 DEF MoveAllowed, Puts, FastForward

\* The stale-remote guard and the protection marker hold whatever the clients
\* interleave, fail at or die at: BundleEngine's UpdateAllowed.
THEOREM MoveCorrect == Spec => UpdateAllowed
<1>1. MoveInv /\ [Next]_vars => MoveInv'
  BY MoveStep
<1>2. MoveInv /\ [Next]_vars => [MoveAllowed]_vars
  BY MoveIsAllowed
<1>3. Spec => [][MoveAllowed]_vars
  BY InitMove, <1>1, <1>2, PTL DEF Spec
<1> QED BY <1>3 DEF UpdateAllowed, MoveAllowed

-----------------------------------------------------------------------------
(* What the listing rule yields.                                           *)

\* While a client has the lock, another one changes nothing that is listed.
LEMMA OthersList ==
  ASSUME TypeInv, NEW p \in Clients, MyStep(p), NEW q \in Clients \ {p}, pc'[q] \in UnderLock
  PROVE  pc'[q] = pc[q] /\ StoreStays /\ todo'[q] = todo[q] /\ pre'[q] = pre[q]
<1>1. pc'[q] = pc[q] /\ todo'[q] = todo[q] /\ pre'[q] = pre[q]
  BY ClientsStay DEF Others
<1>2. ~(pc[p] \in UnderLock)
  BY <1>1, OneHolder DEF TypeInv
<1> QED BY <1>1, <1>2, ClientEdges DEF StoreStays, Puts, Defers, Untombs, Deletes1, Marks, UnderLock

LEMMA ClientListing ==
  ASSUME MoveInv, JudgedOK, ListingOK, NEW p \in Clients, MyStep(p),
         hazards = {}, hazards' = {}, faults' = 0
  PROVE  ListingOK'
<1>v. TypeInv /\ NumberInv /\ Values /\ live \subseteq bundles
  BY DEF MoveInv, ValueInv, NumberInv
<1>e. Edges(p) /\ (StoreStays \/ Puts(p) \/ Defers(p) \/ Untombs(p) \/ Deletes1(p) \/ Marks(p))
  BY <1>v, ClientEdges
<1>f. faults = 0
  <2>1. faults \in Nat /\ faults' \in {faults, faults + 1}
    BY <1>v, ClientEdges, TypeParts DEF TypeInv, Typed, CountsTyped
  <2> QED BY <2>1
<1>w. Values'
  BY <1>v, ClientValues
<1>l. lock # Orphan /\ (lock = Free => Visible(Tombstoned) = live) /\ \A q \in Clients : Listing(q)
  BY <1>f DEF ListingOK
<1>m. \/ lock' = lock /\ (pc[p] \in UnderLock <=> pc'[p] \in UnderLock)
      \/ lock = Free /\ lock' = p /\ pc'[p] \in UnderLock
      \/ lock = p /\ lock' = Free /\ pc'[p] = "idle" /\ pc[p] = "release"
  BY <1>v, <1>f, LockMoves
<1>t. LockTyped /\ Free \notin Clients
  BY <1>v, TypeParts, ConstantsAssumption DEF TypeInv, Typed
<1>s. StoreStays \/ Marks(p) => Visible(Tombstoned)' = Visible(Tombstoned) /\ live' = live
  BY DEF StoreStays, Marks, Visible, Tombstoned
<1>1. ASSUME lock' = Free PROVE Visible(Tombstoned)' = live'
  <2>1. pc[p] \notin UnderLock \ {"release"}
    BY <1>1, <1>m, <1>t DEF LockTyped
  <2>2. StoreStays
    BY <2>1, <1>e DEF Puts, Defers, Untombs, Deletes1, Marks, UnderLock
  <2>3. Visible(Tombstoned) = live
    <3>1. pc[p] = "release" => Visible(Tombstoned) = live
      BY <1>l DEF Listing
    <3> QED BY <1>1, <1>m, <1>l, <3>1
  <2> QED BY <2>2, <2>3, <1>s
<1>2. ASSUME NEW q \in Clients \ {p} PROVE Listing(q)'
  <2>1. CASE pc'[q] \in UnderLock
    BY <2>1, <1>v, <1>l, <1>s, OthersList DEF Listing
  <2>2. CASE pc'[q] \notin UnderLock
    BY <2>2 DEF Listing, UnderLock
  <2> QED BY <2>1, <2>2
<1>3. Listing(p)'
  <2>b. pc'[p] \in {"head", "format", "tomb"} => pre'[p] = pre[p]
    BY <1>v, ReadsStay
  <2>1. CASE pc'[p] \notin UnderLock
    BY <2>1 DEF Listing, UnderLock
  <2>2. CASE pc[p] \notin UnderLock /\ pc'[p] \in UnderLock
    <3>1. lock = Free
      BY <2>2, <1>m, <1>t DEF LockTyped
    <3>2. StoreStays
      BY <2>2, <1>e DEF Puts, Defers, Untombs, Deletes1, Marks, UnderLock
    <3>3. pc'[p] # "untomb"
      BY <2>2, <1>e DEF Edges, UnderLock
    <3> QED BY <3>1, <3>2, <3>3, <1>l, <1>s DEF Listing
  <2>3. CASE pc[p] \in UnderLock /\ pc'[p] \in UnderLock
    <3>l. Listing(p)
      BY <1>l
    <3>u. pc[p] # "untomb" /\ pc'[p] # "untomb"
      BY <1>f, <3>l, <1>e DEF Listing, Edges
    <3>1. CASE Puts(p)
      <4>1. pc'[p] = "head"
        BY <3>1, <1>f DEF Puts
      <4>2. Visible(Tombstoned) = live /\ live \subseteq pre[p]
        BY <3>1, <3>l DEF Puts, Listing, JudgedOK, Judged
      <4>3. Visible(Tombstoned)' \subseteq Visible(Tombstoned) \cup live'
        BY <3>1 DEF Puts, Visible, Tombstoned
      <4> QED BY <4>1, <4>2, <4>3, <2>b DEF Listing
    <3>2. CASE Defers(p)
      <4>1. live = {op[p].local} /\ live' = live /\ Visible(Tombstoned) \subseteq live \cup pre[p]
        BY <3>2, <1>v, <3>l DEF Defers, Values, PushedOK, Listing
      <4> DEFINE New(s) == [id |-> op[p].id, sha |-> s, age |-> 0]
      <4>a. \A s : New(s).sha = s
        OBVIOUS
      <4>b. bundles' = bundles /\ tombs' = tombs \cup {New(s) : s \in pre[p] \ {op[p].local}}
        BY <3>2 DEF Defers
      <4> HIDE DEF New
      <4>2. Tombstoned' = Tombstoned \cup (pre[p] \ {op[p].local}) /\ bundles' = bundles
        BY <4>a, <4>b DEF Tombstoned
      <4>3. live \cap Tombstoned' = {}
        BY <1>w, <4>1 DEF Values, LiveUntombed
      <4>4. bundles' \ Tombstoned' = live'
        BY <4>1, <4>2, <4>3, <1>v DEF Visible
      <4> QED BY <3>2, <3>u, <4>4 DEF Listing, Visible, Defers
    <3>3. CASE Deletes1(p)
      <4>1. pc'[p] = "del"
        BY <3>3, <1>f DEF Deletes1
      <4>2. Visible(Tombstoned) = live
        BY <3>3, <3>l DEF Deletes1, Listing
      <4>3. Visible(Tombstoned)' = live'
        BY <3>3, <4>2 DEF Deletes1, Visible, Tombstoned
      <4> QED BY <4>1, <4>3 DEF Listing
    <3>4. CASE Marks(p)
      BY <3>4, <3>l, <1>s DEF Marks, Listing
    <3>5. CASE StoreStays
      <4>1. CASE pc'[p] \in {"format", "tomb"}
        BY <4>1, <3>5, <3>l, <1>e, <1>s, <2>b DEF Edges, Listing
      <4>2. CASE pc'[p] = "release"
        <5>1. pc[p] \notin {"head", "format"}
          BY <4>2, <1>f, <1>e DEF Edges
        <5>2. CASE pc[p] = "tomb"
          BY <5>2, <4>2, <3>2, <1>e DEF Edges
        <5>3. CASE pc[p] # "tomb"
          BY <4>2, <5>1, <5>3, <2>3, <3>u, <3>5, <3>l, <1>s, <1>e DEF Listing, Edges, UnderLock
        <5> QED BY <5>2, <5>3
      <4>3. CASE pc'[p] \in {"relist", "put"}
        BY <4>3, <3>5, <3>l, <1>e, <1>s DEF Edges, Listing
      <4>4. CASE pc'[p] = "del"
        BY <4>4, <3>5, <3>l, <1>e, <1>s DEF Edges, Deletes1, Listing
      <4>5. pc'[p] \notin {"check", "list", "mark", "unmark"}
        BY <2>3, <1>e DEF Edges, UnderLock
      <4>6. CASE pc'[p] = "head"
        BY <4>6, <1>e, <3>1 DEF Edges
      <4> QED BY <4>1, <4>2, <4>3, <4>4, <4>5, <4>6, <2>3, <3>u DEF UnderLock
    <3> QED BY <1>e, <3>1, <3>2, <3>3, <3>4, <3>5, <3>u DEF Untombs
  <2> QED BY <2>1, <2>2, <2>3
<1>4. lock' # Orphan
  BY <1>m, <1>l, <1>t, ConstantsAssumption
<1> QED BY <1>1, <1>2, <1>3, <1>4 DEF ListingOK

LEMMA ClientEmpty ==
  ASSUME MoveInv, JudgedOK, ListingOK, EmptyOK, NEW p \in Clients, MyStep(p),
         hazards = {}, hazards' = {}, faults' = 0
  PROVE  EmptyOK'
<1>v. TypeInv /\ Values /\ live \subseteq bundles
  BY DEF MoveInv, ValueInv, NumberInv
<1>e. Edges(p) /\ (StoreStays \/ Puts(p) \/ Defers(p) \/ Untombs(p) \/ Deletes1(p) \/ Marks(p))
  BY <1>v, ClientEdges
<1>f. faults = 0
  <2>1. faults \in Nat /\ faults' \in {faults, faults + 1}
    BY <1>v, ClientEdges, TypeParts DEF TypeInv, Typed, CountsTyped
  <2> QED BY <2>1
<1>u. ~Untombs(p)
  BY <1>f DEF ListingOK, Listing, Untombs
<1>m. \A q \in Clients : pc[q] = "del" => bundles \subseteq todo[q]
  BY <1>f DEF EmptyOK
<1>o. \A q \in Clients \ {p} : pc'[q] = pc[q]
  BY <1>v, ClientsStay DEF Others
<1>1. ASSUME NEW q \in Clients, pc'[q] = "del" PROVE bundles' \subseteq todo'[q]
  <2>1. CASE q # p
    BY <1>1, <2>1, <1>v, <1>m, OthersList DEF StoreStays, UnderLock
  <2>2. CASE q = p
    <3>1. CASE Deletes1(p)
      BY <1>1, <2>2, <3>1, <1>f, <1>m DEF Deletes1
    <3>2. CASE ~Deletes1(p)
      <4>1. pc[p] = "list" /\ todo'[p] = bundles
        BY <1>1, <2>2, <3>2, <1>e DEF Edges
      <4>2. bundles' = bundles
        BY <4>1, <1>e DEF StoreStays, Puts, Defers, Untombs, Deletes1, Marks
      <4> QED BY <2>2, <4>1, <4>2
    <3> QED BY <3>1, <3>2
  <2> QED BY <2>1, <2>2
<1>2. ASSUME \A q \in Clients : pc'[q] # "del", bundles' # {} PROVE live' # {}
  <2>1. ~Deletes1(p)
    BY <1>2, <1>f DEF Deletes1
  <2>2. CASE Puts(p)
    BY <2>2 DEF Puts
  <2>3. CASE StoreStays \/ Defers(p) \/ Marks(p)
    <3>1. bundles' = bundles /\ live' = live
      BY <2>3 DEF StoreStays, Defers, Marks
    <3>2. pc[p] = "del" => bundles = {}
      <4>1. pc[p] = "del" => pc'[p] = "release"
        BY <1>2, <1>f, <1>e DEF Edges
      <4> QED BY <4>1, <1>f, <1>e, <1>m DEF Edges
    <3> QED BY <1>2, <3>1, <3>2, <1>f, <1>o DEF EmptyOK
  <2> QED BY <2>1, <2>2, <2>3, <1>e, <1>u
<1>3. protected' => bundles' # {}
  <2>1. protected => bundles # {}
    BY <1>f DEF EmptyOK
  <2>2. Deletes1(p) => ~protected
    BY DEF Deletes1, JudgedOK, Judged
  <2>3. Marks(p) => (protected' => bundles' # {})
    BY <2>1 DEF Marks
  <2> QED BY <2>1, <2>2, <2>3, <1>e, <1>u DEF StoreStays, Puts, Defers, Deletes1
<1> QED BY <1>1, <1>2, <1>3 DEF EmptyOK

\* A step of anything else leaves the listing as it is.
LEMMA OtherList ==
  ASSUME MoveInv, JudgedOK, ListingOK, EmptyOK, hazards = {}, faults' = 0,
         StaleRecovery \/ FetchStep \/ SweepStep \/ SweepFails \/ Tick \/ UNCHANGED vars
  PROVE  ListingOK' /\ EmptyOK'
<1>v. TypeInv /\ NumberInv /\ Values /\ live \subseteq bundles
  BY DEF MoveInv, ValueInv, NumberInv
<1>t. faults \in Nat /\ tombs \subseteq Tombstones
  BY <1>v, TypeParts DEF TypeInv, Typed, CountsTyped, StoreTyped
<1>f. faults = 0
  BY <1>t, <1>v, FetchTyped, SweepTyped DEF StaleRecovery, Tick, vars, Fault
<1>c. UNCHANGED <<pc, op, pre, todo, live, protected>>
  BY <1>v, FetchTyped, SweepTyped DEF StaleRecovery, Tick, vars, client, history, store
<1>n. lock # Orphan
  BY <1>f DEF ListingOK
<1>k. lock' = lock
  BY <1>v, <1>n, FetchTyped, SweepTyped DEF StaleRecovery, Tick, vars
<1>b. bundles' \subseteq bundles
  BY <1>v, FetchTyped, SweepTyped DEF StaleRecovery, Tick, vars, store
<1>l. live' \subseteq bundles'
  <2>1. live \subseteq bundles \cup {}
    BY <1>v
  <2>2. live' \subseteq bundles' \cup {}
    BY <1>v, <2>1, OtherValues
  <2> QED BY <2>2
<1>w. Visible(Tombstoned)' = Visible(Tombstoned)
  <2>1. CASE StaleRecovery \/ FetchStep \/ UNCHANGED vars
    BY <2>1, <1>v, FetchTyped DEF StaleRecovery, vars, store, Visible, Tombstoned
  <2>2. CASE Tick
    <3> DEFINE Older(u) == [u EXCEPT !.age = IF @ < Grace THEN @ + 1 ELSE @]
    <3>1. \A u \in tombs : Older(u).sha = u.sha
      BY <1>t DEF Tombstones
    <3>2. tombs' = {Older(u) : u \in tombs} /\ bundles' = bundles
      BY <2>2 DEF Tick
    <3> HIDE DEF Older
    <3>3. Tombstoned' = Tombstoned
      BY <3>1, <3>2 DEF Tombstoned
    <3> QED BY <3>2, <3>3 DEF Visible
  <2>3. CASE SweepBundle
    BY <2>3 DEF SweepBundle, Visible, Tombstoned
  <2>4. CASE SweepTomb
    BY <2>4, <1>v DEF SweepTomb, Values, SweptOK, Visible, Tombstoned
  <2>5. CASE SweepList \/ SweepRead \/ SweepDone \/ SweepFails
    BY <2>5 DEF SweepList, SweepRead, SweepDone, SweepFails, store, Visible, Tombstoned
  <2> QED BY <2>1, <2>2, <2>3, <2>4, <2>5 DEF SweepStep
<1>1. ListingOK'
  BY <1>f, <1>c, <1>k, <1>w DEF ListingOK, Listing
<1>2. EmptyOK'
  <2>1. \A p \in Clients : pc'[p] = "del" => bundles' \subseteq todo'[p]
    BY <1>f, <1>c, <1>b DEF EmptyOK
  <2>2. (\A p \in Clients : pc'[p] # "del") /\ bundles' # {} => live' # {}
    BY <1>f, <1>c, <1>b DEF EmptyOK
  <2>3. protected' => bundles' # {}
    <3>1. protected => bundles # {} /\ \A p \in Clients : pc[p] # "del"
      BY <1>f DEF EmptyOK, JudgedOK, Judged
    <3>2. protected => live # {}
      BY <3>1, <1>f DEF EmptyOK
    <3> QED BY <3>2, <1>c, <1>l
  <2> QED BY <2>1, <2>2, <2>3 DEF EmptyOK
<1> QED BY <1>1, <1>2

LEMMA ListStep ==
  ASSUME ListInv, [Next]_vars
  PROVE  ListInv'
<1>1. MoveInv'
  BY MoveStep DEF ListInv
<1>2. ASSUME hazards' = {} PROVE ListingOK' /\ EmptyOK'
  <2>v. TypeInv
    BY DEF ListInv, MoveInv, ValueInv, NumberInv
  <2>h. hazards = {}
    BY <1>2, <2>v, ClientEdges, FetchTyped, SweepTyped DEF Next, MyStep, StaleRecovery, Tick, vars, history
  <2>i. MoveInv /\ JudgedOK /\ ListingOK /\ EmptyOK
    BY <2>h DEF ListInv, MoveInv
  <2>1. CASE faults' # 0
    BY <2>1 DEF ListingOK, EmptyOK
  <2>2. CASE faults' = 0 /\ \E p \in Clients : MyStep(p)
    BY <1>2, <2>2, <2>h, <2>i, ClientListing, ClientEmpty
  <2>3. CASE faults' = 0 /\ (StaleRecovery \/ FetchStep \/ SweepStep \/ SweepFails \/ Tick \/ UNCHANGED vars)
    BY <2>3, <2>h, <2>i, OtherList
  <2> QED BY <2>1, <2>2, <2>3 DEF Next, MyStep
<1> QED BY <1>1, <1>2 DEF ListInv

LEMMA InitList == Init => ListInv
<1> SUFFICES ASSUME Init PROVE ListInv
  OBVIOUS
<1>1. ListingOK /\ EmptyOK
  BY ConstantsAssumption DEF Init, Quiet, ListingOK, Listing, EmptyOK, Visible, Tombstoned
<1> QED BY <1>1, InitMove DEF ListInv

\* No push, delete, fallback or sweep removes the value of the ref, and until
\* the first fault a free ref lists exactly its value: BundleEngine's
\* ValueKept.
THEOREM ValueCorrect == Spec => []ValueKept
<1>1. ListInv /\ [Next]_vars => ListInv'
  BY ListStep
<1>2. ListInv => ValueKept
  BY DEF ListInv, MoveInv, ValueInv, ValueKept, ListingOK
<1> QED BY InitList, <1>1, <1>2, PTL DEF Spec

\* The protection marker never outlives its branch: BundleEngine's
\* NoOrphanMarker.
THEOREM MarkerCorrect == Spec => []NoOrphanMarker
<1>1. ListInv /\ [Next]_vars => ListInv'
  BY ListStep
<1>2. ListInv => NoOrphanMarker
  BY DEF ListInv, EmptyOK, NoOrphanMarker
<1> QED BY InitList, <1>1, <1>2, PTL DEF Spec

-----------------------------------------------------------------------------
(* What a fetch finds.                                                     *)

LEMMA ClientFetch ==
  ASSUME FetchInv, NEW p \in Clients, MyStep(p)
  PROVE  SweepsOld' /\ SeenOK'
<1>v. TypeInv /\ NumberInv
  BY DEF FetchInv, NumberInv
<1>t. fetch \in FetchType
  BY <1>v, TypeParts DEF TypeInv, Typed
<1>a. fetch.age \in Nat
  BY <1>t DEF FetchType
<1>g. gc' = gc
  BY <1>v, ClientsStay DEF Others
<1>e. StoreStays \/ Puts(p) \/ Defers(p) \/ Untombs(p) \/ Deletes1(p) \/ Marks(p)
  BY <1>v, ClientEdges
<1>1. CASE StoreStays \/ Marks(p) \/ Puts(p)
  BY <1>1, <1>g DEF StoreStays, Marks, Puts, FetchInv, SweepsOld, SeenOK
<1>2. CASE Defers(p)
  <2>1. \A t \in tombs' : t \in tombs \/ (t.id = op[p].id /\ t.age = 0)
    BY <1>2 DEF Defers
  <2>2. \A t \in tombs : t.id # op[p].id
    BY <1>2, <1>v DEF Defers, NumberInv, NumbersOK, Unwritten
  <2>3. gc.at \in {"bundle", "tomb"} => gc.id # op[p].id
    BY <1>2, <1>v DEF Defers, NumberInv, NumbersOK, Unwritten
  <2>4. SweepsOld'
    BY <2>1, <2>2, <2>3, <1>g DEF FetchInv, SweepsOld
  <2>5. fetch' = fetch /\ bundles' = bundles
    BY <1>2 DEF Defers
  <2>6. SeenOK'
    BY <2>1, <2>5, <1>a DEF FetchInv, SeenOK
  <2> QED BY <2>4, <2>6
<1>3. CASE Untombs(p) \/ Deletes1(p)
  <2>1. \/ bundles' = bundles /\ fetch' = fetch
        \/ \E gone : bundles' = bundles \ gone /\ FetchersLose(gone)
    BY <1>3 DEF Untombs, Deletes1
  <2>2. tombs' = tombs
    BY <1>3 DEF Untombs, Deletes1
  <2>3. SweepsOld'
    BY <2>2, <1>g DEF FetchInv, SweepsOld
  <2>4. ASSUME NEW gone, bundles' = bundles \ gone, FetchersLose(gone) PROVE SeenOK'
    <3> PICK f \in FetchType : f = fetch
      BY <1>t
    <3>1. CASE f.at \in {"tombs", "get"}
      <4> DEFINE h == [f EXCEPT !.dead = @ \cup (gone \cap f.seen)]
      <4>1. /\ h.found = f.found /\ h.at = f.at /\ h.seen = f.seen /\ h.age = f.age
            /\ h.dead = f.dead \cup (gone \cap f.seen)
        BY DEF FetchType
      <4>2. fetch' = h
        BY <2>4, <3>1 DEF FetchersLose
      <4> HIDE DEF h
      <4> QED BY <2>2, <2>4, <4>1, <4>2 DEF FetchInv, SeenOK
    <3>2. CASE f.at \notin {"tombs", "get"}
      BY <2>4, <3>2 DEF FetchersLose, FetchInv, SeenOK
    <3> QED BY <3>1, <3>2
  <2>5. bundles' = bundles /\ fetch' = fetch => SeenOK'
    BY <2>2 DEF FetchInv, SeenOK
  <2> QED BY <2>1, <2>3, <2>4, <2>5
<1> QED BY <1>e, <1>1, <1>2, <1>3

LEMMA FetchSees ==
  ASSUME FetchInv, FetchStep
  PROVE  SweepsOld' /\ SeenOK'
<1>v. TypeInv
  BY DEF FetchInv, NumberInv
<1>t. fetch \in FetchType
  BY <1>v, TypeParts DEF TypeInv, Typed
<1> PICK f \in FetchType : f = fetch
  BY <1>t
<1>u. UNCHANGED <<bundles, tombs, gc>>
  BY <1>v, FetchTyped DEF store
<1>s. SeenOK /\ SweepsOld
  BY DEF FetchInv
<1>1. SweepsOld'
  BY <1>s, <1>u DEF SweepsOld
<1>2. CASE FetchList
  <2> DEFINE h == [f EXCEPT !.at = "tombs", !.seen = bundles, !.dead = bundles \cap Tombstoned, !.age = 0]
  <2>1. h.found = f.found /\ h.seen = bundles /\ h.dead = bundles \cap Tombstoned
    BY DEF FetchType
  <2>2. fetch' = h
    BY <1>2 DEF FetchList
  <2> HIDE DEF h
  <2> QED BY <1>1, <1>s, <1>u, <2>1, <2>2 DEF SeenOK, Tombstoned
<1>3. CASE FetchTombs
  <2> DEFINE a == [f EXCEPT !.at = "idle", !.seen = {}, !.dead = {}]
             b == [f EXCEPT !.at = "get", !.seen = @ \ Tombstoned]
  <2>1. a.found = f.found /\ a.at = "idle"
    BY DEF FetchType
  <2>2. b.found = f.found /\ b.seen = f.seen \ Tombstoned /\ b.dead = f.dead /\ b.age = f.age
    BY DEF FetchType
  <2>3. (fetch' = a \/ fetch' = b) /\ f.at = "tombs"
    BY <1>3 DEF FetchTombs
  <2> HIDE DEF a, b
  <2> QED BY <1>1, <1>s, <1>u, <2>1, <2>2, <2>3 DEF SeenOK
<1>4. CASE FetchGet
  <2> PICK s \in f.seen : fetch' = [at |-> "done", seen |-> {}, dead |-> {}, age |-> 0,
                                    found |-> s \in bundles \/ s \in f.dead]
    BY <1>4 DEF FetchGet
  <2>1. s \in bundles \/ s \in f.dead
    BY <1>4, <1>s DEF FetchGet, SeenOK
  <2>2. fetch'.at = "done" /\ (fetch'.found = (s \in bundles \/ s \in f.dead))
    OBVIOUS
  <2> QED BY <1>1, <2>1, <2>2 DEF SeenOK
<1>5. CASE FetchDone
  <2>1. fetch'.at = "idle" /\ fetch'.found = TRUE
    BY <1>5 DEF FetchDone, FetchType
  <2> QED BY <1>1, <2>1 DEF SeenOK
<1> QED BY <1>2, <1>3, <1>4, <1>5 DEF FetchStep

\* Without --force a sweep deletes nothing that a fetch still wants: what it
\* is at is older than any fetch.
LEMMA SweepFetch ==
  ASSUME FetchInv, SweepStep \/ SweepFails, ~ForceSweep
  PROVE  SweepsOld' /\ SeenOK'
<1>v. TypeInv
  BY DEF FetchInv, NumberInv
<1>t. fetch \in FetchType /\ gc \in GcType /\ tombs \subseteq Tombstones
  BY <1>v, TypeParts DEF TypeInv, Typed, StoreTyped
<1>s. SeenOK /\ SweepsOld
  BY DEF FetchInv
<1>u. fetch' = fetch /\ tombs' \subseteq tombs /\ bundles' \subseteq bundles
  BY <1>v, SweepTyped
<1> PICK g \in GcType : g = gc
  BY <1>t
<1>1. SweepsOld'
  <2>1. gc'.at \in {"bundle", "tomb"} =>
          \/ gc.at \in {"bundle", "tomb"} /\ gc'.id = gc.id
          \/ \E t \in tombs : gc'.id = t.id /\ t.age >= Grace
    <3>1. CASE SweepRead
      <4> PICK id \in gc.todo :
               IF \E t \in tombs : t.id = id /\ (ForceSweep \/ t.age >= Grace)
               THEN gc' = [gc EXCEPT !.at = "bundle", !.id = id, !.todo = @ \ {id}]
               ELSE gc' = [gc EXCEPT !.todo = @ \ {id}]
        BY <3>1 DEF SweepRead
      <4>1. gc.at = "next"
        BY <3>1 DEF SweepRead
      <4>2. \/ gc'.at = "bundle" /\ gc'.id = id /\ \E t \in tombs : t.id = id /\ t.age >= Grace
            \/ gc'.at = gc.at
        BY DEF GcType
      <4> QED BY <4>1, <4>2
    <3>2. CASE SweepFails
      <4>1. CASE gc' = [at |-> "idle", todo |-> {}, id |-> 0]
        <5>1. gc'.at = "idle"
          BY <4>1
        <5> QED BY <5>1
      <4>2. CASE gc' = [gc EXCEPT !.at = "next", !.id = 0]
        <5>1. gc'.at = "next"
          BY <4>2 DEF GcType
        <5> QED BY <5>1
      <4>3. CASE gc.at = "next" /\ \E id \in gc.todo : gc' = [gc EXCEPT !.todo = @ \ {id}]
        BY <4>3 DEF GcType
      <4> QED BY <3>2, <4>1, <4>2, <4>3 DEF SweepFails
    <3>3. CASE SweepList \/ SweepTomb \/ SweepDone
      BY <3>3 DEF SweepList, SweepTomb, SweepDone, GcType
    <3>4. CASE SweepBundle
      BY <3>4 DEF SweepBundle, GcType
    <3> QED BY <3>1, <3>2, <3>3, <3>4 DEF SweepStep
  <2> QED BY <2>1, <1>u, <1>s DEF SweepsOld
<1>2. SeenOK'
  <2> SUFFICES ASSUME fetch.at \in {"tombs", "get"}, NEW s \in fetch.seen \ fetch.dead
               PROVE  s \in bundles'
    BY <1>s, <1>u DEF SeenOK
  <2>1. s \in bundles /\ \A t \in tombs : t.sha = s => t.age <= fetch.age
    BY <1>s DEF SeenOK
  <2>2. fetch.age \in 0..MaxFetch
    BY <1>t DEF FetchType
  <2>3. CASE SweepBundle
    <3>1. ASSUME NEW t \in tombs, t.id = gc.id PROVE t.sha # s
      <4>1. t.age >= Grace /\ t.age \in Nat
        BY <2>3, <3>1, <1>s, <1>t DEF SweepBundle, SweepsOld, Tombstones
      <4> QED BY <2>1, <2>2, <4>1, ConstantsAssumption
    <3> QED BY <2>1, <2>3, <3>1 DEF SweepBundle
  <2>4. CASE ~SweepBundle
    BY <2>1, <2>4 DEF SweepStep, SweepFails, SweepList, SweepRead, SweepTomb, SweepDone, store
  <2> QED BY <2>3, <2>4
<1> QED BY <1>1, <1>2

LEMMA TickFetch ==
  ASSUME FetchInv, Tick
  PROVE  SweepsOld' /\ SeenOK'
<1>t. fetch \in FetchType /\ tombs \subseteq Tombstones
  BY TypeParts DEF FetchInv, NumberInv, TypeInv, Typed, StoreTyped
<1> PICK f \in FetchType : f = fetch
  BY <1>t
<1>s. SeenOK /\ SweepsOld
  BY DEF FetchInv
<1> DEFINE Older(u) == [u EXCEPT !.age = IF @ < Grace THEN @ + 1 ELSE @]
<1>1. \A u \in tombs :
        /\ Older(u).sha = u.sha /\ Older(u).id = u.id
        /\ Older(u).age = IF u.age < Grace THEN u.age + 1 ELSE u.age
        /\ u.age \in Nat
  BY <1>t DEF Tombstones
<1>2. tombs' = {Older(u) : u \in tombs} /\ bundles' = bundles /\ gc' = gc
  BY DEF Tick
<1> DEFINE h == [f EXCEPT !.age = IF f.at \in {"tombs", "get"} THEN @ + 1 ELSE @]
<1>3. /\ h.at = f.at /\ h.seen = f.seen /\ h.dead = f.dead /\ h.found = f.found
      /\ f.at \in {"tombs", "get"} => h.age = f.age + 1
      /\ f.age \in Nat
  BY DEF FetchType
<1>4. fetch' = h
  BY DEF Tick
<1> HIDE DEF Older, h
<1>5. SweepsOld'
  BY <1>1, <1>2, <1>s, ConstantsAssumption DEF SweepsOld
<1>6. SeenOK'
  <2>1. f.found
    BY <1>s DEF SeenOK
  <2>2. ASSUME h.at \in {"tombs", "get"}, NEW s \in h.seen \ h.dead
        PROVE  s \in bundles /\ \A u \in tombs : Older(u).sha = s => Older(u).age <= h.age
    <3>1. s \in bundles /\ \A u \in tombs : u.sha = s => u.age <= f.age
      BY <1>3, <1>s, <2>2 DEF SeenOK
    <3>2. h.age = f.age + 1
      BY <1>3, <2>2
    <3>3. ASSUME NEW u \in tombs, Older(u).sha = s PROVE Older(u).age <= h.age
      <4>1. u.age <= f.age /\ Older(u).age \in {u.age, u.age + 1} /\ u.age \in Nat
        BY <1>1, <3>1, <3>3
      <4> QED BY <1>3, <3>2, <4>1
    <3> QED BY <3>1, <3>3
  <2> QED BY <1>2, <1>3, <1>4, <2>1, <2>2 DEF SeenOK
<1> QED BY <1>5, <1>6

LEMMA SeenStep ==
  ASSUME FetchInv, [Next]_vars, ~ForceSweep
  PROVE  FetchInv'
<1>1. NumberInv'
  BY NumberStep DEF FetchInv
<1>2. SweepsOld' /\ SeenOK'
  <2>1. CASE StaleRecovery \/ UNCHANGED vars
    BY <2>1 DEF StaleRecovery, vars, store, FetchInv, SweepsOld, SeenOK
  <2> QED BY <2>1, ClientFetch, FetchSees, SweepFetch, TickFetch DEF Next, MyStep
<1> QED BY <1>1, <1>2 DEF FetchInv

LEMMA InitFetch == Init => FetchInv
  BY InitNumbers DEF Init, Quiet, FetchInv, SweepsOld, SeenOK

\* While no sweep is forced, a fetch within the grace window finds every
\* bundle it saw advertised and that was current then: BundleEngine's
\* AdvertisedIsFetchable.
THEOREM FetchCorrect ==
  ASSUME ~ForceSweep
  PROVE  Spec => []AdvertisedIsFetchable
<1>1. FetchInv /\ [Next]_vars => FetchInv'
  BY SeenStep
<1>2. FetchInv => AdvertisedIsFetchable
  BY DEF FetchInv, SeenOK, AdvertisedIsFetchable
<1> QED BY InitFetch, <1>1, <1>2, PTL DEF Spec

-----------------------------------------------------------------------------
(* The doctor among the clients.                                           *)

\* What a doctor is at: it has a mode, a keeper when it evicts, and none of the
\* losers is the keeper.
DocOK ==
  /\ (doc.at # "off" \/ doc.res # "none") <=> doc.mode \in Modes
  /\ doc.at \in {"recheck", "evict", "del"} => doc.keep # {}
  /\ doc.at \in {"evict", "del"} => doc.keep \cap doc.todo = {}
  /\ doc.at \in {"headcheck", "puthead"} => doc.pick \in {"ref", "other"}

DoctorTypes == NumberInv /\ DoctorTypeOK /\ DocOK

\* The value is in the ref or in a copy, and so is what a doctor is about to
\* delete.
KeptOK ==
  doc.mode # "delete" =>
    /\ live \subseteq bundles \cup quarantine
    /\ doc.at = "del" => doc.pick \in quarantine

KeptInv == DoctorTypes /\ (hazards = {} => Values /\ KeptOK)

\* A branch that is there now was there at some time since the choice.
ExistedOK ==
  /\ doc.at \in {"headcheck", "puthead"} /\ BranchExists => doc.existed
  /\ doc.at = "puthead" => doc.existed

HeadInv == DoctorTypes /\ ExistedOK

-----------------------------------------------------------------------------
(* The steps of a doctor.                                                  *)

\* What a doctor's step may change of the rest.
Outside ==
  /\ bundles' \subseteq bundles /\ meta' \subseteq {"HEAD", "FORMAT"} /\ faults' \in 0..MaxFaults
  /\ UNCHANGED <<protected, tombs, lock, client, fetch, gc, ops, history>>

LEMMA OutsideStep ==
  ASSUME NumberInv, Outside
  PROVE  NumberInv' /\ (Values => Values')
<1>t. StoreTyped /\ ClientsTyped /\ LockTyped /\ HistoryTyped /\ CountsTyped /\ fetch \in FetchType /\ gc \in GcType
  BY TypeParts DEF NumberInv, TypeInv, Typed
<1> USE DEF Outside, client, history
<1>1. StoreTyped' /\ ClientsTyped' /\ LockTyped' /\ HistoryTyped' /\ CountsTyped' /\ fetch' \in FetchType /\ gc' \in GcType
  BY <1>t DEF StoreTyped, ClientsTyped, LockTyped, HistoryTyped, CountsTyped
<1>2. StageOK'
  BY DEF NumberInv, TypeInv, StageOK, At, Stage
<1>3. NumbersOK'
  BY DEF NumberInv, NumbersOK, Unwritten
<1>4. Values => Values'
  BY DEF Values, PushedOK, LiveUntombed, SweptOK, Tombstoned
<1> QED BY <1>1, <1>2, <1>3, <1>4, TypeParts DEF NumberInv, TypeInv, Typed

\* The run that has not started, or is over.
LEMMA OffTyped ==
  /\ Off \in DocType /\ Off.at = "off" /\ Off.mode = "none" /\ Off.keep = {} /\ Off.res = "none"
  BY DEF Off, DocType, DocSteps, DocModes, DocHeads, DocPicks, Results

LEMMA DoneTyped ==
  ASSUME doc \in DocType, NEW r \in Results, Done(r)
  PROVE  doc' \in DocType /\ doc'.at = "off" /\ doc'.mode = doc.mode /\ doc'.res = r
<1> PICK o \in DocType : o = Off
  BY OffTyped
<1> PICK m \in DocModes : m = doc.mode
  BY DEF DocType
<1>1. [o EXCEPT !.res = r, !.mode = m] \in DocType
  BY DEF DocType
<1>2. /\ [o EXCEPT !.res = r, !.mode = m].at = o.at
      /\ [o EXCEPT !.res = r, !.mode = m].mode = m
      /\ [o EXCEPT !.res = r, !.mode = m].res = r
  BY DEF DocType
<1> QED BY <1>1, <1>2, OffTyped DEF Done

\* After the duplicates: nothing is evicted any more.
LEMMA ProceedTyped ==
  ASSUME doc \in DocType, NEW d \in DocType, d.mode = doc.mode, Proceed(d)
  PROVE  /\ doc' \in DocType /\ doc'.mode = doc.mode
         /\ doc'.at = "head" \/ (doc'.at = "off" /\ doc'.res # "none")
<1> PICK o \in DocType : o = Off
  BY OffTyped
<1> DEFINE h == [o EXCEPT !.at = "head", !.mode = d.mode, !.head = d.head, !.snap = d.snap]
<1>0. "head" \in DocSteps /\ "ok" \in Results
  BY DEF DocSteps, Results
<1>1. h \in DocType /\ h.at = "head" /\ h.mode = d.mode
  BY <1>0 DEF DocType
<1>2. doc' = h \/ Done("ok")
  BY DEF Proceed
<1> HIDE DEF h
<1> QED BY <1>0, <1>1, <1>2, DoneTyped

\* What a step of a doctor does to its own state.
DocStep ==
  /\ doc' \in DocType /\ DocOK'
  /\ doc.mode # "none" => doc'.mode = doc.mode
  /\ doc'.at = "headcheck" => doc.at = "head" /\ (BranchExists' => doc'.existed)
  /\ doc'.at = "puthead" => doc.at = "headcheck" /\ BranchExists /\ doc'.existed = doc.existed /\ doc'.pick = doc.pick

LEMMA DocKeeps ==
  ASSUME DoctorTypes, DoctorStep
  PROVE  DocStep /\ (doc'.at = "del" => DoctorEvict)
<1>t. doc \in DocType /\ bundles \subseteq Shas /\ head \in {"none", "ref", "other"}
  BY DEF DoctorTypes, DoctorTypeOK, TypeOK
<1>o. DocOK
  BY DEF DoctorTypes
<1> PICK d \in DocType : d = doc
  BY <1>t
<1>s. DocSteps = {"off", "analyze", "select", "recheck", "evict", "del", "head", "headcheck", "puthead"}
  BY DEF DocSteps
<1>r. {"ok", "stale", "failed"} \subseteq Results /\ Modes \subseteq DocModes /\ "none" \notin Modes
  BY ModesAssumption DEF Results, DocModes
<1>h. DocHeads = {"none", "ref", "other"} /\ Shas \cup {"none", "ref", "other"} \subseteq DocPicks
  BY DEF DocHeads, DocPicks
<1> DEFINE Goal == DocStep /\ (doc'.at = "del" => DoctorEvict)
<1>m. ASSUME doc' \in DocType, doc'.mode = doc.mode, doc.at # "off",
             doc'.at = "head" \/ (doc'.at = "off" /\ doc'.res # "none")
      PROVE  Goal
  <2>1. DocOK'
    BY <1>m, <1>o DEF DocOK
  <2> QED BY <1>m, <2>1 DEF DocStep
<1>1. CASE \E mode \in Modes : DoctorList(mode)
  <2> PICK mode \in Modes : DoctorList(mode)
    BY <1>1
  <2> DEFINE e == [d EXCEPT !.at = "analyze", !.mode = mode, !.objs = bundles, !.head = head]
  <2>1. e \in DocType /\ e.at = "analyze" /\ e.mode = mode
    BY <1>t, <1>s, <1>r, <1>h DEF DocType
  <2>2. doc' = e /\ doc.at = "off" /\ doc.res = "none"
    BY DEF DoctorList
  <2>3. doc.mode = "none"
    <3>1. d.mode \in DocModes
      BY DEF DocType
    <3> QED BY <2>2, <3>1, <1>o DEF DocOK, DocModes
  <2> HIDE DEF e
  <2> QED BY <2>1, <2>2, <2>3 DEF DocStep, DocOK
<1>2. CASE DoctorAnalyze
  <2> DEFINE h == IF d.head = "none" THEN "none" ELSE head
             e == [d EXCEPT !.objs = {}, !.snap = d.objs \ Tombstoned, !.head = h]
             s == [e EXCEPT !.at = "select"]
  <2>0. h \in {"none", "ref", "other"}
    BY <1>t
  <2> HIDE DEF h
  <2>1. e \in DocType /\ e.mode = d.mode /\ s \in DocType /\ s.at = "select" /\ s.mode = d.mode
    BY <2>0, <1>s, <1>h DEF DocType
  <2>2. (doc' = s \/ Proceed(e)) /\ doc.at = "analyze"
    BY <1>2 DEF DoctorAnalyze, h
  <2> HIDE DEF e, s
  <2>3. CASE doc' = s
    BY <2>1, <2>2, <2>3, <1>o DEF DocStep, DocOK
  <2>4. CASE Proceed(e)
    BY <2>1, <2>2, <2>4, <1>m, <1>t, ProceedTyped
  <2> QED BY <2>2, <2>3, <2>4
<1>3. CASE DoctorSelect
  <2>1. doc.at = "select"
    BY <1>3 DEF DoctorSelect
  <2>2. CASE Proceed(doc)
    BY <2>1, <2>2, <1>m, <1>t, ProceedTyped
  <2>3. CASE ~Proceed(doc)
    <3> PICK s \in d.snap : doc' = [d EXCEPT !.at = "recheck", !.keep = {s}]
      BY <1>3, <2>3 DEF DoctorSelect
    <3> DEFINE e == [d EXCEPT !.at = "recheck", !.keep = {s}]
    <3>1. e \in DocType /\ e.at = "recheck" /\ e.keep # {} /\ e.mode = d.mode
      BY <1>s, <1>h DEF DocType
    <3>2. doc' = e
      OBVIOUS
    <3> HIDE DEF e
    <3> QED BY <2>1, <3>1, <3>2, <1>o DEF DocStep, DocOK
  <2> QED BY <2>2, <2>3
<1>4. CASE DoctorRecheck
  <2>1. doc.at = "recheck"
    BY <1>4 DEF DoctorRecheck
  <2> DEFINE e == [d EXCEPT !.at = "evict", !.todo = d.snap \ d.keep, !.snap = d.keep]
  <2>2. e \in DocType /\ e.at = "evict" /\ e.keep = d.keep /\ e.todo = d.snap \ d.keep /\ e.mode = d.mode
    BY <1>s, <1>h DEF DocType
  <2>3. doc' = e \/ Done("stale")
    BY <1>4 DEF DoctorRecheck, Losers
  <2> HIDE DEF e
  <2>4. CASE doc' = e
    BY <2>1, <2>2, <2>4, <1>o DEF DocStep, DocOK
  <2>5. CASE Done("stale")
    BY <2>1, <2>5, <1>m, <1>t, <1>r, DoneTyped
  <2> QED BY <2>3, <2>4, <2>5
<1>5. CASE DoctorEvict
  <2>1. doc.at = "evict"
    BY <1>5 DEF DoctorEvict
  <2>2. CASE Proceed(doc)
    BY <2>1, <2>2, <1>m, <1>t, ProceedTyped
  <2>3. CASE ~Proceed(doc)
    <3> PICK s \in d.todo : doc' = [d EXCEPT !.todo = @ \ {s}] \/ doc' = [d EXCEPT !.at = "del", !.pick = s]
      BY <1>5, <2>3 DEF DoctorEvict
    <3> DEFINE e == [d EXCEPT !.todo = @ \ {s}]
               f == [d EXCEPT !.at = "del", !.pick = s]
    <3>1. e \in DocType /\ e.at = d.at /\ e.keep = d.keep /\ e.todo = d.todo \ {s} /\ e.mode = d.mode
      BY <1>s, <1>h DEF DocType
    <3>2. f \in DocType /\ f.at = "del" /\ f.keep = d.keep /\ f.todo = d.todo /\ f.mode = d.mode
      BY <1>s, <1>h DEF DocType
    <3>3. doc' = e \/ doc' = f
      OBVIOUS
    <3> HIDE DEF e, f
    <3> QED BY <2>1, <3>1, <3>2, <3>3, <1>o, <1>5 DEF DocStep, DocOK
  <2> QED BY <2>2, <2>3
<1>6. CASE DoctorDelete
  <2> DEFINE e == [d EXCEPT !.at = "evict", !.todo = @ \ {d.pick}, !.pick = "none"]
  <2>1. e \in DocType /\ e.at = "evict" /\ e.keep = d.keep /\ e.todo \subseteq d.todo /\ e.mode = d.mode
    BY <1>s, <1>h DEF DocType
  <2>2. doc' = e /\ doc.at = "del"
    BY <1>6 DEF DoctorDelete
  <2> HIDE DEF e
  <2> QED BY <2>1, <2>2, <1>o DEF DocStep, DocOK
<1>7. CASE DoctorHead
  <2> PICK pick \in {"other", "ref"} : doc' = [d EXCEPT !.at = "headcheck", !.pick = pick,
                                                       !.existed = (pick = "other" \/ bundles # {})]
    BY <1>7 DEF DoctorHead
  <2> PICK b \in BOOLEAN : b = (pick = "other" \/ bundles # {})
    OBVIOUS
  <2> DEFINE e == [d EXCEPT !.at = "headcheck", !.pick = pick, !.existed = b]
  <2>1. e \in DocType /\ e.at = "headcheck" /\ e.existed = b /\ e.pick = pick /\ e.mode = d.mode
    BY <1>s, <1>h DEF DocType
  <2>2. doc' = e /\ doc.at = "head" /\ bundles' = bundles
    BY <1>7 DEF DoctorHead, vars, store
  <2> HIDE DEF e
  <2> QED BY <2>1, <2>2, <1>o DEF DocStep, DocOK, BranchExists
<1>8. CASE DoctorHeadCheck
  <2> DEFINE e == [d EXCEPT !.at = "puthead"]
  <2>1. e \in DocType /\ e.at = "puthead" /\ e.existed = d.existed /\ e.pick = d.pick /\ e.mode = d.mode
    BY <1>s, <1>h DEF DocType
  <2>2. doc.at = "headcheck" /\ ((doc' = e /\ BranchExists) \/ Done("stale"))
    BY <1>8 DEF DoctorHeadCheck
  <2> HIDE DEF e
  <2>3. CASE doc' = e /\ BranchExists
    BY <2>1, <2>2, <2>3, <1>o DEF DocStep, DocOK
  <2>4. CASE Done("stale")
    BY <2>2, <2>4, <1>m, <1>t, <1>r, DoneTyped
  <2> QED BY <2>2, <2>3, <2>4
<1>9. CASE DoctorPutHead \/ DoctorFails
  <2>1. doc.at # "off" /\ (Done("ok") \/ Done("failed"))
    BY <1>9 DEF DoctorPutHead, DoctorFails
  <2> QED BY <2>1, <1>m, <1>t, <1>r, DoneTyped
<1> QED BY <1>1, <1>2, <1>3, <1>4, <1>5, <1>6, <1>7, <1>8, <1>9 DEF DoctorStep

\* A doctor's step on the store.
LEMMA DoctorEffect ==
  ASSUME DoctorTypes, DoctorStep
  PROVE  /\ (UNCHANGED vars) \/ Outside
         /\ UNCHANGED <<live, hazards>>
         /\ quarantine \subseteq quarantine' /\ quarantine' \subseteq Shas
         /\ head' \in DocHeads /\ (("HEAD" \in meta') <=> (head' # "none"))
         /\ bundles' = bundles \/ (DoctorDelete /\ bundles' = bundles \ {doc.pick})
         /\ head' # head => DoctorPutHead
<1>t. /\ doc \in DocType /\ head \in DocHeads /\ quarantine \subseteq Shas
      /\ meta \subseteq {"HEAD", "FORMAT"} /\ (("HEAD" \in meta) <=> (head # "none"))
  BY DEF DoctorTypes, DoctorTypeOK, TypeOK, DocHeads
<1>f. faults \in 0..MaxFaults /\ (Fault => faults' \in 0..MaxFaults)
  BY ConstantsAssumption DEF DoctorTypes, DoctorTypeOK, TypeOK, Fault
<1>1. CASE (\E mode \in Modes : DoctorList(mode)) \/ DoctorAnalyze \/ DoctorSelect \/ DoctorRecheck
           \/ DoctorHead \/ DoctorHeadCheck
  <2>1. UNCHANGED <<vars, head, quarantine>>
    BY <1>1 DEF DoctorList, DoctorAnalyze, DoctorSelect, DoctorRecheck, DoctorHead, DoctorHeadCheck
  <2> QED BY <2>1, <1>t DEF vars, store, history
<1>2. CASE DoctorEvict
  <2>1. UNCHANGED <<vars, head>> /\ (quarantine' = quarantine \/ \E s \in doc.todo : quarantine' = quarantine \cup {s})
    BY <1>2 DEF DoctorEvict, Quarantine
  <2>2. doc.todo \subseteq Shas
    BY <1>t DEF DocType
  <2> QED BY <2>1, <2>2, <1>t DEF vars, store, history
<1>3. CASE DoctorDelete
  BY <1>3, <1>t, <1>f DEF DoctorDelete, Outside, history
<1>4. CASE DoctorPutHead
  <2>1. doc.pick \in {"ref", "other"}
    BY <1>4 DEF DoctorPutHead, DoctorTypes, DocOK
  <2> QED BY <1>4, <2>1, <1>t, <1>f DEF DoctorPutHead, Outside, history, DocHeads
<1>5. CASE DoctorFails
  BY <1>5, <1>t, <1>f DEF DoctorFails, Outside, history, store, client
<1> QED BY <1>1, <1>2, <1>3, <1>4, <1>5 DEF DoctorStep

\* The engine never removes HEAD or FORMAT.
LEMMA MetaGrows ==
  ASSUME TypeInv, [Next]_vars
  PROVE  meta \subseteq meta'
<1>1. CASE \E p \in Clients : MyStep(p)
  <2> PICK p \in Clients : MyStep(p)
    BY <1>1
  <2> USE DEF store
  <2>1. CASE Begin(p) \/ RequestFails(p) \/ Crash(p) \/ AcquireLock(p) \/ Release(p)
    BY <2>1 DEF Begin, RequestFails, Crash, AcquireLock, Release
  <2>2. CASE PushStep(p)
    BY <2>2 DEF PushStep, ReadTombs, Prelist, CheckProtected, Relist, PutBundle, PutHead, PutFormat,
      DeferPrior, Untomb
  <2>3. CASE ManageStep(p)
    BY <2>3 DEF ManageStep, Open, Confirm, ListForDelete, ListForDeleteBranch, DeleteOne, Deleted,
      Protect, Unprotect
  <2> QED BY <2>1, <2>2, <2>3 DEF MyStep, ClientStep
<1>2. CASE ~\E p \in Clients : MyStep(p)
  BY <1>2, FetchTyped, SweepTyped DEF Next, MyStep, StaleRecovery, Tick, vars, store
<1> QED BY <1>1, <1>2

\* A step of the engine leaves a doctor as it is, but for what it remembers.
LEMMA EngineEffect ==
  ASSUME DoctorTypes, EngineStep
  PROVE  /\ [Next]_vars /\ quarantine' = quarantine
         /\ doc' \in DocType /\ DocOK'
         /\ doc'.at = doc.at /\ doc'.mode = doc.mode /\ doc'.pick = doc.pick /\ doc'.keep = doc.keep /\ doc'.todo = doc.todo
         /\ doc'.existed = (doc.existed \/ (doc.at \in {"headcheck", "puthead"} /\ bundles' # {}))
<1>t. doc \in DocType
  BY DEF DoctorTypes, DoctorTypeOK
<1> PICK d \in DocType : d = doc
  BY <1>t
<1> PICK b \in BOOLEAN : b = (doc.existed \/ (doc.at \in {"headcheck", "puthead"} /\ bundles' # {}))
  OBVIOUS
<1> DEFINE e == [d EXCEPT !.existed = b]
<1>1. /\ e \in DocType /\ e.at = d.at /\ e.mode = d.mode /\ e.pick = d.pick /\ e.keep = d.keep
      /\ e.todo = d.todo /\ e.res = d.res /\ e.existed = b
  BY DEF DocType
<1>2. doc' = e
  BY DEF EngineStep
<1>3. [Next]_vars /\ quarantine' = quarantine
  BY DEF EngineStep, Next
<1> HIDE DEF e
<1>4. DocOK'
  BY <1>1, <1>2 DEF DoctorTypes, DocOK
<1> QED BY <1>1, <1>2, <1>3, <1>4

LEMMA DoctorTyped ==
  ASSUME DoctorTypes, [DoctorNext]_allVars
  PROVE  DoctorTypes'
<1>n. NumberInv
  BY DEF DoctorTypes
<1>e. ASSUME NumberInv', DocOK', doc' \in DocType, head' \in DocHeads, quarantine' \in SUBSET Shas,
             ("HEAD" \in meta') <=> (head' # "none")
      PROVE  DoctorTypes'
  <2>1. TypeOK'
    BY <1>e DEF NumberInv, TypeInv
  <2> QED BY <1>e, <2>1 DEF DoctorTypes, DoctorTypeOK, DocOK, DocHeads
<1>t. /\ doc \in DocType /\ head \in DocHeads /\ quarantine \subseteq Shas /\ DocOK
      /\ ("HEAD" \in meta) <=> (head # "none")
  BY DEF DoctorTypes, DoctorTypeOK, DocHeads
<1>m. meta \subseteq {"HEAD", "FORMAT"}
  BY DEF DoctorTypes, DoctorTypeOK, TypeOK
<1>1. CASE DoctorStep
  <2>1. NumberInv'
    BY <1>1, <1>n, DoctorEffect, OutsideStep, NumberStep
  <2> QED BY <1>1, <2>1, <1>e, DoctorEffect, DocKeeps DEF DocStep
<1>2. CASE EngineStep
  <2>1. NumberInv' /\ quarantine' = quarantine /\ doc' \in DocType /\ DocOK'
    BY <1>2, <1>n, EngineEffect, NumberStep
  <2>2. meta \subseteq meta'
    BY <1>2, <1>n, EngineEffect, MetaGrows DEF NumberInv
  <2>3. head' \in DocHeads /\ (("HEAD" \in meta') <=> (head' # "none"))
    BY <1>2, <1>t, <2>2 DEF EngineStep, DocHeads
  <2> QED BY <2>1, <2>3, <1>e, <1>t
<1>3. CASE UNCHANGED allVars
  <2>1. UNCHANGED vars /\ UNCHANGED <<head, quarantine, doc>>
    BY <1>3 DEF allVars, docVars
  <2>2. NumberInv'
    BY <1>n, <2>1, NumberStep
  <2>3. DocOK' /\ meta' = meta
    BY <1>t, <2>1 DEF DocOK, vars, store
  <2> QED BY <2>1, <2>2, <2>3, <1>e, <1>t
<1> QED BY <1>1, <1>2, <1>3 DEF DoctorNext

LEMMA DoctorInitTyped == DoctorInit => DoctorTypes /\ KeptInv /\ HeadInv
<1> SUFFICES ASSUME DoctorInit PROVE DoctorTypes /\ KeptInv /\ HeadInv
  OBVIOUS
<1> USE DEF DoctorInit, Quiet
<1>a. /\ bundles \subseteq Shas /\ live \subseteq bundles /\ ~Several(live)
      /\ head \in DocHeads /\ meta \subseteq {"HEAD", "FORMAT"} /\ (("HEAD" \in meta) <=> (head # "none"))
  BY DEF DocHeads
<1>b. \A p \in Clients : pc[p] = "idle"
  OBVIOUS
<1>1. StoreTyped /\ HistoryTyped
  BY <1>a DEF StoreTyped, HistoryTyped
<1>2. ClientsTyped
  BY NoOpTyped DEF ClientsTyped, Unlocked
<1>3. LockTyped
  BY <1>b, ConstantsAssumption DEF LockTyped, UnderLock
<1>4. CountsTyped /\ fetch \in FetchType /\ gc \in GcType
  BY ConstantsAssumption DEF CountsTyped, FetchType, GcType
<1>5. StageOK
  BY <1>b DEF StageOK, At, Stage
<1>6. NumberInv
  BY <1>1, <1>2, <1>3, <1>4, <1>5, TypeParts DEF TypeInv, Typed, NumberInv, NumbersOK, Unwritten
<1>7. DocOK /\ doc \in DocType /\ doc.at = "off" /\ quarantine = {}
  BY OffTyped, ModesAssumption DEF DocOK
<1>8. DoctorTypes
  BY <1>a, <1>6, <1>7 DEF DoctorTypes, DoctorTypeOK, NumberInv, TypeInv, DocHeads
<1>9. Values
  BY DEF Values, PushedOK, LiveUntombed, SweptOK, Several, Tombstoned
<1>10. KeptOK /\ ExistedOK
  BY <1>a, <1>7 DEF KeptOK, ExistedOK
<1> QED BY <1>8, <1>9, <1>10 DEF KeptInv, HeadInv

-----------------------------------------------------------------------------
(* The repair of a ref.                                                    *)

LEMMA DoctorKeeps ==
  ASSUME DoctorTypes, Values, KeptOK, DoctorStep
  PROVE  Values' /\ KeptOK'
<1>t. doc \in DocType /\ DocOK
  BY DEF DoctorTypes, DoctorTypeOK
<1>1. Values'
  <2>1. CASE UNCHANGED vars
    BY <2>1 DEF Values, PushedOK, LiveUntombed, SweptOK, Tombstoned, vars, store, client, history
  <2> QED BY <2>1, DoctorEffect, OutsideStep DEF DoctorTypes
<1>2. ASSUME doc'.mode # "delete"
      PROVE  live' \subseteq bundles' \cup quarantine' /\ (doc'.at = "del" => doc'.pick \in quarantine')
  <2>1. doc.mode # "delete"
    BY <1>2, DocKeeps DEF DocStep
  <2>2. live \subseteq bundles \cup quarantine /\ (doc.at = "del" => doc.pick \in quarantine)
    BY <2>1 DEF KeptOK
  <2>3. live' \subseteq bundles' \cup quarantine'
    BY <2>2, DoctorEffect DEF DoctorDelete
  <2>4. doc'.at = "del" => doc'.pick \in quarantine'
    <3> SUFFICES ASSUME doc'.at = "del" PROVE doc'.pick \in quarantine'
      OBVIOUS
    <3>1. DoctorEvict
      BY DocKeeps
    <3>2. doc.mode = "move"
      BY <2>1, <3>1, <1>t, ModesAssumption DEF DoctorEvict, DocOK
    <3> PICK d \in DocType : d = doc
      BY <1>t
    <3>3. ~Proceed(doc)
      BY <1>t, ProceedTyped
    <3>4. PICK s \in d.todo :
            \/ doc' = [d EXCEPT !.todo = @ \ {s}]
            \/ doc' = [d EXCEPT !.at = "del", !.pick = s] /\ Quarantine(s)
      BY <3>1, <3>2, <3>3 DEF DoctorEvict
    <3>5. doc' # [d EXCEPT !.todo = @ \ {s}]
      <4>1. [d EXCEPT !.todo = @ \ {s}].at = d.at /\ d.at = "evict"
        BY <3>1 DEF DoctorEvict, DocType
      <4> QED BY <4>1
    <3>6. [d EXCEPT !.at = "del", !.pick = s].pick = s
      BY DEF DocType
    <3> QED BY <3>4, <3>5, <3>6 DEF Quarantine
  <2> QED BY <2>3, <2>4
<1> QED BY <1>1, <1>2 DEF KeptOK

LEMMA EngineKeeps ==
  ASSUME DoctorTypes, Values, KeptOK, EngineStep, hazards' = {}
  PROVE  Values' /\ KeptOK'
<1>n. NumberInv
  BY DEF DoctorTypes
<1>d. doc'.at = doc.at /\ doc'.mode = doc.mode /\ doc'.pick = doc.pick /\ quarantine' = quarantine
  BY EngineEffect
<1>1. CASE \E p \in Clients : MyStep(p)
  <2> PICK p \in Clients : MyStep(p)
    BY <1>1
  <2>1. Values'
    BY <1>n, ClientValues
  <2>2. ASSUME NEW Q, live \subseteq bundles \cup Q PROVE live' \subseteq bundles' \cup Q
    BY <1>n, <2>2, ClientKeeps
  <2>3. \A Q : Q = quarantine /\ doc.mode # "delete" => live' \subseteq bundles' \cup Q
    BY <2>2 DEF KeptOK
  <2> QED BY <2>1, <2>3, <1>d DEF KeptOK
<1>2. CASE StaleRecovery \/ SweepStep \/ SweepFails \/ Tick
  <2>1. ASSUME NEW Q, live \subseteq bundles \cup Q PROVE Values' /\ live' \subseteq bundles' \cup Q
    BY <1>n, <1>2, <2>1, OtherValues
  <2>2. live \subseteq bundles \cup live
    OBVIOUS
  <2>3. Values'
    BY <2>1, <2>2
  <2>4. \A Q : Q = quarantine /\ doc.mode # "delete" => live' \subseteq bundles' \cup Q
    BY <2>1 DEF KeptOK
  <2> QED BY <2>3, <2>4, <1>d DEF KeptOK
<1> QED BY <1>1, <1>2 DEF EngineStep, MyStep

LEMMA KeptStep ==
  ASSUME KeptInv, [DoctorNext]_allVars
  PROVE  KeptInv'
<1>1. DoctorTypes /\ DoctorTypes'
  BY DoctorTyped DEF KeptInv
<1>2. ASSUME hazards' = {} PROVE Values' /\ KeptOK'
  <2>1. CASE DoctorStep
    <3>1. hazards = {}
      BY <1>1, <1>2, <2>1, DoctorEffect
    <3> QED BY <1>1, <2>1, <3>1, DoctorKeeps DEF KeptInv
  <2>2. CASE EngineStep
    <3>1. TypeInv
      BY <1>1 DEF DoctorTypes, NumberInv
    <3>2. hazards = {}
      BY <1>2, <2>2, <3>1, ClientEdges, SweepTyped DEF EngineStep, MyStep, StaleRecovery, Tick, history
    <3> QED BY <1>1, <1>2, <2>2, <3>2, EngineKeeps DEF KeptInv
  <2>3. CASE UNCHANGED allVars
    BY <1>2, <2>3 DEF allVars, docVars, KeptInv, Values, PushedOK, LiveUntombed, SweptOK, Tombstoned, KeptOK,
      vars, store, client, history
  <2> QED BY <2>1, <2>2, <2>3 DEF DoctorNext
<1> QED BY <1>1, <1>2 DEF KeptInv

\* The default repair loses no value, whatever runs beside it, fails or dies:
\* Doctor's EvictedIsKept.
THEOREM EvictCorrect == DoctorSpec => []EvictedIsKept
<1>1. KeptInv /\ [DoctorNext]_allVars => KeptInv'
  BY KeptStep
<1>2. KeptInv => EvictedIsKept
  BY DEF KeptInv, DoctorTypes, KeptOK, EvictedIsKept
<1> QED BY DoctorInitTyped, <1>1, <1>2, PTL DEF DoctorSpec

-----------------------------------------------------------------------------
(* The repair of HEAD.                                                     *)

LEMMA HeadStep ==
  ASSUME HeadInv, [DoctorNext]_allVars
  PROVE  HeadInv'
<1>1. DoctorTypes /\ DoctorTypes' /\ ExistedOK
  BY DoctorTyped DEF HeadInv
<1>2. ExistedOK'
  <2>1. CASE DoctorStep
    BY <1>1, <2>1, DocKeeps DEF DocStep, ExistedOK, BranchExists
  <2>2. CASE EngineStep
    <3>1. /\ doc'.at = doc.at /\ doc'.pick = doc.pick
          /\ doc'.existed = (doc.existed \/ (doc.at \in {"headcheck", "puthead"} /\ bundles' # {}))
      BY <1>1, <2>2, EngineEffect
    <3> QED BY <1>1, <3>1 DEF ExistedOK, BranchExists
  <2>3. CASE UNCHANGED allVars
    BY <1>1, <2>3 DEF allVars, docVars, vars, store, ExistedOK, BranchExists
  <2> QED BY <2>1, <2>2, <2>3 DEF DoctorNext
<1> QED BY <1>1, <1>2 DEF HeadInv

\* HEAD is never set to a branch that was gone from the operator's choice on:
\* Doctor's HeadNamesBranch.
THEOREM HeadCorrect == DoctorSpec => HeadNamesBranch
<1>1. HeadInv /\ [DoctorNext]_allVars => HeadInv'
  BY HeadStep
<1>2. HeadInv => (doc.at = "puthead" /\ head' # head => doc.existed)
  BY DEF HeadInv, ExistedOK
<1>3. DoctorSpec => [][doc.at = "puthead" /\ head' # head => doc.existed]_allVars
  BY DoctorInitTyped, <1>1, <1>2, PTL DEF DoctorSpec
<1> QED BY <1>3 DEF HeadNamesBranch
=============================================================================
