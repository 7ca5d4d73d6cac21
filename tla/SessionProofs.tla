---------------------------- MODULE SessionProofs ----------------------------
(***************************************************************************)
(* Proofs about Session, for every number of helpers, refs, lines and      *)
(* faults: no line and no push is left without its answer, what a push was *)
(* answered ok for is listed, a batch is what git asked for, and a URL of  *)
(* any length names one address.                                           *)
(***************************************************************************)
EXTENDS Session, FiniteSetTheorems, SequenceTheorems, TLAPS

OutType == [ref : Refs \cup {None}, ok : BOOLEAN]

HelperType ==
  [at : Places, url : Engines \cup {None}, engine : Engines \cup {None}, line : Lines,
   owed : BOOLEAN, cmds : Seq(Batching), depth : Depths \cup {0}, next : Nat \ {0},
   step : Nat \ {0}, outs : Seq(OutType)]

RanType == [cmds : Seq(Batching), depth : Depths \cup {0}, told : Seq(OutType)]

BucketTypes ==
  /\ format \in Engines \cup {None, "unknown"}
  /\ head \in Refs \cup {None}
  /\ refs \in [Refs -> [Engines -> Shas \cup {None}]]
  /\ acked \in [Refs -> Shas \cup {None}]
  /\ assumed \subseteq Engines

Types ==
  /\ BucketTypes
  /\ h \in [Helpers -> HelperType]
  /\ ran \in [Helpers -> RanType]

-----------------------------------------------------------------------------
(* Answers.                                                                *)

\* The outcomes of a batch so far are those of the commands before the next
\* one, in order.
Following(outs, cmds, n) ==
  /\ Len(outs) = n - 1 /\ n <= Len(cmds) + 1
  /\ \A i \in 1..Len(outs) : outs[i].ref = cmds[i].ref

\* The mode of the batch that waits: that of its first command.
Batch(cmds, c) == cmds # <<>> /\ cmds[1].c = c

\* What a helper owes at each place, and what it remembers of its batch.
Dutiful(x, b) ==
  /\ x.at \in {"read", "handle", "push", "fetch"} => x.engine # None
  /\ x.at \in {"start", "format", "read"} => ~x.owed
  /\ x.at = "handle" => (x.owed <=> x.line \notin Batching)
  /\ x.at \in {"start", "format", "handle"} => b = NoBatch
  /\ x.at = "push" =>
       Batch(x.cmds, "push") /\ b.cmds = x.cmds /\ Following(x.outs, x.cmds, x.next)
  /\ x.at = "fetch" => Batch(b.cmds, "fetch")
  /\ x.at = "read" => b = NoBatch \/ Batch(b.cmds, "fetch")
                        \/ Following(b.told, b.cmds, Len(b.cmds) + 1)

AnswerInv == Types /\ \A p \in Helpers : Dutiful(h[p], ran[p])

-----------------------------------------------------------------------------
(* What is listed.                                                         *)

\* A helper that is at its writes for a ref.
At(p, r) == Pushing(p) /\ Cmd(p).ref = r /\ h[p].step > 1

\* One push of a ref at a time is at its writes, and those that it has made
\* are there.
LockOK == \A p, q \in Helpers, r \in Refs : At(p, r) /\ At(q, r) => p = q

Wrote(p, w) == \E i \in 1..Len(Writes(p)) : i < h[p].step /\ Writes(p)[i] = w

WrittenOK ==
  \A p \in Helpers : Pushing(p) /\ Cmd(p).ref # None =>
    /\ Wrote(p, "ref") => refs[Cmd(p).ref][h[p].engine] = Cmd(p).arg
    /\ Wrote(p, "FORMAT") => format # None

\* An engine that is not the bucket's was assumed for want of a FORMAT, and
\* so was the one that the first push wrote there.
EngineOK ==
  /\ \A p \in Helpers : h[p].engine # None => h[p].engine = format \/ h[p].engine \in assumed
  /\ format \in Engines => assumed = {} \/ format \in assumed
  /\ format = "unknown" => assumed = {} /\ \A p \in Helpers : h[p].engine = None

ListInv == AnswerInv /\ LockOK /\ WrittenOK /\ EngineOK /\ OkIsListed

-----------------------------------------------------------------------------
(* The engine of a URL.                                                    *)

LEMMA Smallest ==
  ASSUME NEW T, T \subseteq Nat, T # {}
  PROVE  \E x \in T : \A y \in T : x <= y
<1> DEFINE D == {0..x : x \in T}
<1>1. D \subseteq FiniteSubsetsOf(Nat) /\ D # {}
  <2>1. \A x \in T : 0..x \in FiniteSubsetsOf(Nat)
    <3> SUFFICES ASSUME NEW x \in T PROVE IsFiniteSet(0..x) /\ 0..x \subseteq Nat
      BY DEF FiniteSubsetsOf
    <3>1. x \in Int /\ 0 \in Int
      OBVIOUS
    <3> QED BY <3>1, FS_Interval
  <2> QED BY <2>1
<1>2. PICK d \in D : \A e \in D : <<e, d>> \notin StrictSubsetOrdering(Nat)
  <2> HIDE DEF D
  <2> QED BY <1>1, FS_StrictSubsetOrderingWellFounded, WFMin
<1>3. PICK x \in T : d = 0..x
  OBVIOUS
<1> SUFFICES ASSUME NEW y \in T, y < x PROVE FALSE
  BY <1>3
<1>4. 0..y \in D /\ 0..y \subseteq 0..x /\ 0..y # 0..x /\ 0..x \subseteq Nat
  OBVIOUS
<1> QED BY <1>2, <1>3, <1>4 DEF StrictSubsetOrdering

LEMMA Greatest ==
  ASSUME NEW n \in Nat, NEW T, T \subseteq 1..n, T # {}
  PROVE  Max(T) \in T /\ \A y \in T : Max(T) >= y
<1> DEFINE D == {n - i : i \in T}
<1>1. D \subseteq Nat /\ D # {}
  OBVIOUS
<1>2. PICK d \in D : \A e \in D : d <= e
  <2> HIDE DEF D
  <2> QED BY <1>1, Smallest
<1>3. PICK i \in T : d = n - i
  OBVIOUS
<1>4. \A j \in T : i >= j
  <2> SUFFICES ASSUME NEW j \in T PROVE i >= j
    OBVIOUS
  <2>1. n - j \in D /\ i \in Int /\ j \in Int
    OBVIOUS
  <2>2. n - i <= n - j
    BY <1>2, <1>3, <2>1
  <2> HIDE DEF D
  <2> QED BY <2>1, <2>2
<1>5. \E x \in T : \A y \in T : x >= y
  BY <1>4
<1> QED BY <1>5 DEF Max

LEMMA FlagEngine ==
  ASSUME NEW u \in Urls, \A i \in DOMAIN u.query : FlagOk(u.query[i])
  PROVE  extract_flags(u.query).engine \in Engines \cup {None}
<1> DEFINE T == {i \in DOMAIN u.query : u.query[i].key = "engine"}
<1>1. extract_flags(u.query).engine = IF T = {} THEN None ELSE u.query[Max(T)].value
  BY DEF extract_flags, FlagKeys
<1>2. CASE T = {}
  BY <1>1, <1>2
<1>3. CASE T # {}
  <2>1. PICK n \in Nat : DOMAIN u.query = 1..n
    BY UrlAssumption
  <2>2. Max(T) \in T
    <3>1. T \subseteq 1..n
      BY <2>1
    <3> HIDE DEF T
    <3> QED BY <1>3, <3>1, Greatest
  <2>3. PICK i \in DOMAIN u.query : i = Max(T) /\ u.query[i].key = "engine"
    BY <2>2
  <2>4. u.query[i].value \in Engines
    BY <2>3 DEF FlagOk
  <2> QED BY <1>1, <1>3, <2>3, <2>4
<1> QED BY <1>2, <1>3

LEMMA StartEngine ==
  ASSUME NEW s \in Starts, s.ok
  PROVE  s.engine \in Engines \cup {None}
<1>1. PICK u \in HelperUrls, env \in Envs : s = Start(u, env)
  BY DEF Starts
<1> DEFINE r == parse(u, env.http)
<1>2. u \in Urls
  BY SessionAssumption
<1>3. r # Refused /\ s.engine = r.flags.engine
  BY <1>1 DEF Start
<1>4. (\A i \in DOMAIN u.query : FlagOk(u.query[i])) /\ r.flags = extract_flags(u.query)
  BY <1>3 DEF parse, finish_s3, finish_azure, Refused
<1> QED BY <1>2, <1>3, <1>4, FlagEngine

-----------------------------------------------------------------------------
(* The steps of a helper.                                                  *)

\* The fields that a batch changes keep their types.
LEMMA BatchFields ==
  ASSUME NEW y \in HelperType, NEW a \in Places, NEW n \in Nat \ {0}, NEW os \in Seq(OutType),
         NEW d \in Depths \cup {0}
  PROVE  [y EXCEPT !.at = a, !.next = n, !.step = 1, !.outs = os, !.depth = d] \in HelperType
<1> DEFINE O == Seq(OutType) C == Seq(Batching) D == Depths \cup {0} N == Nat \ {0}
           E == Engines \cup {None}
<1>1. HelperType = [at : Places, url : E, engine : E, line : Lines, owed : BOOLEAN, cmds : C,
                    depth : D, next : N, step : N, outs : O]
  BY DEF HelperType
<1>2. 1 \in N /\ n \in N /\ d \in D /\ os \in O
  OBVIOUS
<1> HIDE DEF O, C, D, N, E
<1> QED BY <1>1, <1>2

\* The process and its memory of its batch become these.
Becomes(p, x, b) == h' = [h EXCEPT ![p] = x] /\ ran' = [ran EXCEPT ![p] = b]

LEMMA LineKinds ==
  /\ \A l \in Lines : l \in Batching <=> l.c \in {"fetch", "push"}
  /\ Blank \in Lines /\ Batching \subseteq Lines
  /\ \A l \in Batching : l.ref \in Refs \cup {None} /\ l.arg \in Shas \cup {None} /\ l.c \in {"fetch", "push"}
  /\ \A l \in Lines : l.c = "depth" => l.arg \in Depths
  BY DEF Lines, Batching, Blank, Line, Push, Fetch

LEMMA FreshTyped ==
  /\ \A a \in Places : [Fresh EXCEPT !.at = a] \in HelperType
  /\ Fresh \in HelperType /\ NoBatch \in RanType
<1>1. <<>> \in Seq(Batching) /\ <<>> \in Seq(OutType)
  OBVIOUS
<1>2. Blank \in Lines
  BY LineKinds
<1>3. Fresh \in HelperType
  BY <1>1, <1>2 DEF Fresh, HelperType, Places
<1>5. \A a \in Places : [Fresh EXCEPT !.at = a] \in HelperType
  BY <1>3 DEF HelperType
<1>4. NoBatch \in RanType
  BY <1>1 DEF NoBatch, RanType
<1> QED BY <1>3, <1>4, <1>5

\* What a step does to the bucket and its promises: nothing, or it is the
\* probe of FORMAT, a write or the end of a push.
Silent(x) == x.at # "push" \/ x.step = 1

Probes(p, x) ==
  /\ x.engine = Resolve(h[p].url) /\ x.engine # None
  /\ assumed' = IF format = None THEN assumed \cup {x.engine} ELSE assumed
  /\ UNCHANGED <<bucket, acked>>

Does(p, x) ==
  \/ Silent(x) /\ x.engine \in {None, h[p].engine} /\ UNCHANGED <<bucket, acked, assumed>>
  \/ Silent(x) /\ Probes(p, x)
  \/ PushWrite(p) /\ x = [h[p] EXCEPT !.step = @ + 1]
  \/ PushOk(p) /\ Silent(x) /\ x.engine = h[p].engine

\* A helper goes from one state to the next, as the invariant asks.
Goes(p) ==
  \E x \in HelperType, b \in RanType : Becomes(p, x, b) /\ Dutiful(x, b) /\ Does(p, x)

\* What is known of the helper that acts.
Acts(p) == Types /\ h[p] \in HelperType /\ ran[p] \in RanType /\ Dutiful(h[p], ran[p])

LEMMA Acting ==
  ASSUME AnswerInv, NEW p \in Helpers
  PROVE  Acts(p)
  BY DEF AnswerInv, Types, Acts

LEMMA Keeps ==
  ASSUME Types, NEW p \in Helpers, NEW x, h' = [h EXCEPT ![p] = x], UNCHANGED ran
  PROVE  Becomes(p, x, ran[p])
  BY DEF Becomes, Types

LEMMA Ends ==
  ASSUME Types, NEW p \in Helpers, NEW how \in {"failed", "ended"}, End(p, how),
         UNCHANGED <<bucket, acked, assumed>>
  PROVE  Goes(p)
<1> DEFINE x == [Fresh EXCEPT !.at = how]
<1>1. x \in HelperType /\ NoBatch \in RanType
  BY FreshTyped DEF Places
<1>2. Becomes(p, x, NoBatch)
  BY DEF End, Goto, Becomes
<1>3. Dutiful(x, NoBatch) /\ x.at = how /\ x.engine = None
  BY DEF Dutiful, Fresh
<1> HIDE DEF x
<1> QED BY <1>1, <1>2, <1>3 DEF Goes, Does, Silent

LEMMA Connects ==
  ASSUME AnswerInv, NEW p \in Helpers, Connect(p)
  PROVE  Goes(p)
<1>0. Acts(p) /\ h[p].at = "start" /\ UNCHANGED <<bucket, acked, assumed>>
  BY Acting DEF Connect, results
<1>1. CASE Fail(p)
  BY <1>0, <1>1, Ends DEF Fail, Acts
<1>2. ASSUME NEW s \in Starts, s.ok, Goto(p, [h[p] EXCEPT !.at = "format", !.url = s.engine]), UNCHANGED ran
      PROVE  Goes(p)
  <2> DEFINE x == [h[p] EXCEPT !.at = "format", !.url = s.engine]
  <2>1. x \in HelperType
    BY <1>0, <1>2, StartEngine DEF HelperType, Places, Acts
  <2>2. Becomes(p, x, ran[p])
    BY <1>0, <1>2, Keeps DEF Goto, Acts
  <2>3. x.at = "format" /\ x.owed = h[p].owed /\ x.engine = h[p].engine
    BY <1>0 DEF HelperType, Acts
  <2>4. Dutiful(x, ran[p])
    BY <1>0, <2>3 DEF Dutiful, Acts
  <2> HIDE DEF x
  <2> QED BY <1>0, <2>1, <2>2, <2>3, <2>4 DEF Goes, Does, Silent, Acts
<1> QED BY <1>1, <1>2 DEF Connect

LEMMA Reads ==
  ASSUME AnswerInv, NEW p \in Helpers, ReadFormat(p)
  PROVE  Goes(p)
<1>0. Acts(p) /\ h[p].at = "format" /\ UNCHANGED <<bucket, acked>>
  BY Acting DEF ReadFormat
<1> DEFINE e == Resolve(h[p].url)
<1>1. CASE Fail(p) /\ UNCHANGED assumed
  BY <1>0, <1>1, Ends DEF Fail, Acts
<1>2. CASE /\ e # None /\ Goto(p, [h[p] EXCEPT !.at = "read", !.url = None, !.engine = e])
           /\ assumed' = IF format = None THEN assumed \cup {e} ELSE assumed
           /\ UNCHANGED ran
  <2> DEFINE x == [h[p] EXCEPT !.at = "read", !.url = None, !.engine = e]
  <2>1. e \in Engines
    BY <1>0, <1>2 DEF Resolve, HelperType, Types, BucketTypes, Engines, Acts
  <2> HIDE DEF e
  <2>2. x \in HelperType
    BY <1>0, <2>1 DEF HelperType, Places, Acts
  <2>3. Becomes(p, x, ran[p])
    BY <1>0, <1>2, Keeps DEF Goto, Acts
  <2>4. x.at = "read" /\ x.owed = h[p].owed /\ x.engine = e
    BY <1>0 DEF HelperType, Acts
  <2>5. Dutiful(x, ran[p])
    BY <1>0, <1>2, <2>4 DEF Dutiful, Acts
  <2>6. Probes(p, x)
    BY <1>0, <1>2, <2>4 DEF e, Probes
  <2>7. Silent(x)
    BY <2>4 DEF Silent
  <2> HIDE DEF x
  <2> QED BY <1>0, <2>2, <2>3, <2>5, <2>6, <2>7 DEF Goes, Does, Acts
<1> QED BY <1>1, <1>2 DEF ReadFormat

LEMMA Sends ==
  ASSUME AnswerInv, NEW p \in Helpers, NEW l \in Lines, GitSends(p, l)
  PROVE  Goes(p)
<1>0. Acts(p) /\ h[p].at = "read" /\ UNCHANGED <<bucket, acked, assumed>>
  BY Acting DEF GitSends, results
<1> DEFINE x == [h[p] EXCEPT !.at = "handle", !.line = l, !.owed = l \notin Batching]
<1>1. x \in HelperType
  BY <1>0 DEF HelperType, Places, Acts
<1>2. Becomes(p, x, NoBatch)
  BY DEF GitSends, Goto, Becomes
<1>3. x.at = "handle" /\ x.engine = h[p].engine /\ x.line = l /\ (x.owed <=> l \notin Batching)
  BY <1>0 DEF HelperType, Acts
<1> HIDE DEF x
<1>4. Dutiful(x, NoBatch)
  BY <1>0, <1>3 DEF Dutiful, Acts
<1> QED BY <1>0, <1>1, <1>2, <1>3, <1>4, FreshTyped DEF Goes, Does, Silent

\* A reply: the helper reads on, with what the handler has left.
LEMMA Replies ==
  ASSUME Types, NEW p \in Helpers, NEW y \in HelperType, Ready(p, y),
         NEW b \in RanType, ran' = [ran EXCEPT ![p] = b],
         y.engine # None, y.engine = h[p].engine,
         b = NoBatch \/ Batch(b.cmds, "fetch") \/ Following(b.told, b.cmds, Len(b.cmds) + 1),
         UNCHANGED <<bucket, acked, assumed>>
  PROVE  Goes(p)
<1> DEFINE x == [y EXCEPT !.at = "read", !.owed = FALSE, !.line = Blank, !.outs = <<>>]
<1>1. x \in HelperType
  <2>1. Blank \in Lines /\ <<>> \in Seq(OutType)
    BY LineKinds
  <2> QED BY <2>1 DEF HelperType, Places
<1>2. Becomes(p, x, b)
  BY DEF Ready, Goto, Becomes
<1>3. x.at = "read" /\ x.engine = y.engine /\ x.owed = FALSE
  BY DEF HelperType
<1> HIDE DEF x
<1>4. Dutiful(x, b)
  BY <1>3 DEF Dutiful
<1> QED BY <1>1, <1>2, <1>3, <1>4 DEF Goes, Does, Silent

LEMMA Answers ==
  ASSUME AnswerInv, NEW p \in Helpers, Answer(p) \/ BundleUri(p) \/ SetOption(p)
  PROVE  Goes(p)
<1>0. Acts(p) /\ h[p].at = "handle" /\ UNCHANGED <<bucket, acked, assumed>>
  BY Acting DEF Answer, BundleUri, SetOption, Handling, results
<1>1. CASE Fail(p)
  BY <1>0, <1>1, Ends DEF Fail, Acts
<1>2. ASSUME NEW y \in HelperType, y.engine = h[p].engine, Reply(p, y)
      PROVE  Goes(p)
  <2>1. ran[p] = NoBatch /\ h[p].engine # None /\ ran' = [ran EXCEPT ![p] = NoBatch]
    BY <1>0, <1>2 DEF Reply, Acts, Dutiful, Types
  <2>2. Ready(p, y) /\ Types
    BY <1>0, <1>2 DEF Reply, Acts
  <2> QED BY <1>0, <1>2, <2>1, <2>2, Replies, FreshTyped
<1>3. CASE Reply(p, h[p])
  BY <1>0, <1>2, <1>3 DEF Acts
<1>4. CASE SetOption(p)
  <2> DEFINE y == [h[p] EXCEPT !.depth = IF h[p].line.arg # 0 THEN h[p].line.arg ELSE @]
  <2>1. h[p].line \in Lines /\ h[p].line.c = "depth"
    BY <1>0, <1>4 DEF SetOption, Handling, Acts, HelperType
  <2>2. y \in HelperType /\ y.engine = h[p].engine
    BY <1>0, <2>1, LineKinds DEF Acts, HelperType
  <2> QED BY <1>2, <1>4, <2>2 DEF SetOption
<1> QED BY <1>1, <1>3, <1>4 DEF Answer, BundleUri

LEMMA Fails ==
  ASSUME AnswerInv, NEW p \in Helpers, Invalid(p) \/ PushMalformed(p) \/ GitCloses(p)
  PROVE  Goes(p)
<1>1. Acts(p) /\ UNCHANGED <<bucket, acked, assumed>>
  BY Acting DEF Invalid, PushMalformed, GitCloses, results
<1>2. End(p, "failed") \/ End(p, "ended")
  BY DEF Invalid, PushMalformed, GitCloses, Fail
<1> QED BY <1>1, <1>2, Ends DEF Acts

LEMMA Accumulates ==
  ASSUME AnswerInv, NEW p \in Helpers, Accumulate(p)
  PROVE  Goes(p)
<1>0. Acts(p) /\ h[p].at = "handle" /\ UNCHANGED <<bucket, acked, assumed>>
  BY Acting DEF Accumulate, Handling, ghosts
<1> DEFINE cs == IF Mode(p) = h[p].line.c THEN Append(h[p].cmds, h[p].line) ELSE <<h[p].line>>
           x  == [h[p] EXCEPT !.at = "read", !.line = Blank, !.cmds = cs]
<1>1. h[p].line \in Batching /\ Blank \in Lines
  BY <1>0, LineKinds DEF Accumulate, Handling, Acts, HelperType
<1>6. h[p].cmds \in Seq(Batching)
  BY <1>0 DEF Acts, HelperType
<1>7. cs \in Seq(Batching)
  BY <1>1, <1>6
<1>3. Becomes(p, x, ran[p])
  BY <1>0, Keeps DEF Accumulate, Goto, Acts, ghosts
<1> HIDE DEF cs
<1>2. x \in HelperType
  BY <1>0, <1>1, <1>7 DEF Acts, HelperType, Places
<1>4. x.at = "read" /\ x.owed = h[p].owed /\ x.engine = h[p].engine
  BY <1>0 DEF Acts, HelperType
<1> HIDE DEF x
<1>5. Dutiful(x, ran[p])
  <2>1. ~h[p].owed
    BY <1>0, <1>1 DEF Acts, Dutiful, HelperType
  <2> QED BY <1>0, <1>4, <2>1 DEF Acts, Dutiful
<1> QED BY <1>0, <1>2, <1>3, <1>4, <1>5 DEF Goes, Does, Silent, Acts

LEMMA Flushes ==
  ASSUME AnswerInv, NEW p \in Helpers, Flush(p)
  PROVE  Goes(p)
<1>0. Acts(p) /\ h[p].at = "handle" /\ UNCHANGED <<bucket, acked, assumed>>
  BY Acting DEF Flush, Handling, results
<1>1. h[p].engine # None /\ ran[p] = NoBatch
  BY <1>0 DEF Acts, Dutiful
<1>2. CASE h[p].cmds = <<>>
  <2>1. Ready(p, h[p]) /\ ran' = [ran EXCEPT ![p] = NoBatch]
    BY <1>0, <1>1, <1>2 DEF Flush, Reply, Acts, Types
  <2> QED BY <1>0, <1>1, <2>1, Replies, FreshTyped DEF Acts
<1>3. CASE h[p].cmds # <<>>
  <2> DEFINE m == Mode(p)
             x == [h[p] EXCEPT !.at = m, !.next = 1, !.step = 1, !.outs = <<>>,
                               !.depth = IF m = "fetch" THEN 0 ELSE @]
             b == [cmds |-> h[p].cmds, depth |-> IF m = "fetch" THEN h[p].depth ELSE 0, told |-> <<>>]
  <2>1. h[p].cmds[1] \in Batching /\ h[p].cmds \in Seq(Batching)
    BY <1>0, <1>3 DEF Acts, HelperType
  <2>2. m \in {"fetch", "push"} /\ Batch(h[p].cmds, m)
    BY <1>3, <2>1, LineKinds DEF Mode, Batch
  <2>3. Becomes(p, x, b)
    BY <1>3 DEF Flush, Becomes, Goto
  <2> HIDE DEF m
  <2>4. x \in HelperType
    <3> DEFINE d == IF m = "fetch" THEN 0 ELSE h[p].depth
    <3>1. <<>> \in Seq(OutType) /\ m \in Places /\ 1 \in Nat \ {0}
      BY <2>2 DEF Places
    <3>2. d \in Depths \cup {0} /\ h[p] \in HelperType
      BY <1>0 DEF Acts, HelperType
    <3>3. x = [h[p] EXCEPT !.at = m, !.next = 1, !.step = 1, !.outs = <<>>, !.depth = d]
      BY <3>2 DEF HelperType
    <3> HIDE DEF d, x
    <3> QED BY <3>1, <3>2, <3>3, BatchFields
  <2>5. b \in RanType
    <3>1. <<>> \in Seq(OutType)
      OBVIOUS
    <3> QED BY <1>0, <2>1, <3>1 DEF Acts, HelperType, RanType
  <2>6. x.at = m /\ x.step = 1 /\ x.engine = h[p].engine /\ x.cmds = h[p].cmds /\ x.outs = <<>>
          /\ x.next = 1
    BY <1>0 DEF Acts, HelperType
  <2>7. b.cmds = h[p].cmds
    OBVIOUS
  <2> HIDE DEF x, b
  <2>8. Following(<<>>, h[p].cmds, 1)
    BY <2>1 DEF Following
  <2>9. Dutiful(x, b)
    BY <1>1, <2>2, <2>6, <2>7, <2>8 DEF Dutiful
  <2> QED BY <1>0, <2>3, <2>4, <2>5, <2>6, <2>9 DEF Goes, Does, Silent
<1> QED BY <1>2, <1>3

LEMMA Fetches ==
  ASSUME AnswerInv, NEW p \in Helpers, RunFetch(p)
  PROVE  Goes(p)
<1>0. Acts(p) /\ h[p].at = "fetch" /\ UNCHANGED <<bucket, acked, assumed>>
  BY Acting DEF RunFetch, results
<1>1. CASE Fail(p)
  BY <1>0, <1>1, Ends DEF Fail, Acts
<1>2. CASE Reply(p, [h[p] EXCEPT !.cmds = <<>>])
  <2> DEFINE y == [h[p] EXCEPT !.cmds = <<>>]
  <2>1. y \in HelperType /\ y.engine = h[p].engine
    <3>1. <<>> \in Seq(Batching)
      OBVIOUS
    <3> QED BY <1>0, <3>1 DEF Acts, HelperType
  <2>2. Ready(p, y) /\ ran' = [ran EXCEPT ![p] = ran[p]]
    BY <1>0, <1>2 DEF Reply, Acts, Types
  <2>3. Batch(ran[p].cmds, "fetch") /\ y.engine # None
    BY <1>0, <2>1 DEF Acts, Dutiful
  <2> HIDE DEF y
  <2> QED BY <1>0, <2>1, <2>2, <2>3, Replies DEF Acts
<1> QED BY <1>1, <1>2 DEF RunFetch

-----------------------------------------------------------------------------
(* Pushes.                                                                 *)

LEMMA CommandTypes ==
  ASSUME Types, NEW p \in Helpers, h[p] \in HelperType, Pushing(p)
  PROVE  /\ h[p].next \in 1..Len(h[p].cmds) /\ Cmd(p) \in Batching
         /\ Cmd(p).ref \in Refs \cup {None} /\ Cmd(p).arg \in Shas \cup {None}
<1>1. h[p].next \in 1..Len(h[p].cmds) /\ Cmd(p) \in Batching
  BY DEF Pushing, HelperType, Cmd
<1> QED BY <1>1, LineKinds

\* The next command's outcome is told.
LEMMA Outcomes ==
  ASSUME AnswerInv, NEW p \in Helpers, Pushing(p), Cmd(p).ref # None, NEW ok \in BOOLEAN,
         Outcome(p, ok), UNCHANGED ran
  PROVE  \E x \in HelperType :
           Becomes(p, x, ran[p]) /\ Dutiful(x, ran[p]) /\ Silent(x) /\ x.engine = h[p].engine
<1>0. Acts(p) /\ h[p].at = "push" /\ h[p].next \in 1..Len(h[p].cmds) /\ Cmd(p).ref \in Refs
  BY Acting, CommandTypes DEF Acts, Pushing
<1> DEFINE o  == [ref |-> Cmd(p).ref, ok |-> ok]
           os == Append(h[p].outs, o)
           n  == h[p].next + 1
           x  == [h[p] EXCEPT !.next = n, !.step = 1, !.outs = os]
<1>1. h[p].outs \in Seq(OutType) /\ h[p].cmds \in Seq(Batching) /\ h[p].next \in Nat \ {0}
  BY <1>0 DEF Acts, HelperType
<1>2. o \in OutType
  BY <1>0 DEF OutType
<1>3. os \in Seq(OutType) /\ n \in Nat \ {0}
  BY <1>1, <1>2
<1>4. Becomes(p, x, ran[p])
  BY <1>0, Keeps DEF Outcome, Goto, Acts
<1>5. Following(h[p].outs, h[p].cmds, h[p].next)
  BY <1>0 DEF Acts, Dutiful
<1>6. Following(os, h[p].cmds, n)
  <2> HIDE DEF o
  <2>1. Len(os) = Len(h[p].outs) + 1 /\ Len(h[p].outs) \in Nat
    BY <1>1, <1>2
  <2>2. Len(h[p].outs) = h[p].next - 1 /\ h[p].next <= Len(h[p].cmds)
    BY <1>0, <1>5 DEF Following
  <2>3. Len(os) = n - 1 /\ n <= Len(h[p].cmds) + 1
    BY <1>0, <1>1, <2>1, <2>2
  <2>4. ASSUME NEW i \in 1..Len(os) PROVE os[i].ref = h[p].cmds[i].ref
    <3>1. CASE i \in 1..Len(h[p].outs)
      BY <1>1, <1>2, <1>5, <3>1 DEF Following
    <3>2. CASE i = Len(h[p].outs) + 1
      <4>1. os[i] = o /\ i = h[p].next
        BY <1>1, <1>2, <2>2, <3>2
      <4> QED BY <4>1 DEF o, Cmd
    <3> QED BY <2>1, <3>1, <3>2
  <2> QED BY <2>3, <2>4 DEF Following
<1> HIDE DEF os, n
<1>7. x \in HelperType
  <2>1. h[p].at \in Places /\ h[p].depth \in Depths \cup {0} /\ h[p] \in HelperType
    BY <1>0 DEF Acts, HelperType
  <2>2. x = [h[p] EXCEPT !.at = h[p].at, !.next = n, !.step = 1, !.outs = os, !.depth = h[p].depth]
    BY <2>1 DEF HelperType
  <2> HIDE DEF x
  <2> QED BY <1>3, <2>1, <2>2, BatchFields
<1>8. x.at = "push" /\ x.step = 1 /\ x.engine = h[p].engine /\ x.cmds = h[p].cmds
        /\ x.outs = os /\ x.next = n
  BY <1>0 DEF Acts, HelperType
<1> HIDE DEF x
<1>9. Dutiful(x, ran[p])
  BY <1>0, <1>6, <1>8 DEF Acts, Dutiful
<1> QED BY <1>4, <1>7, <1>8, <1>9 DEF Silent

LEMMA Outcomed ==
  ASSUME AnswerInv, NEW p \in Helpers, PushRefused(p) \/ PushOk(p) \/ PushFails(p)
  PROVE  Goes(p)
<1>1. UNCHANGED ran /\ Acts(p)
  BY Acting DEF PushRefused, PushOk, PushFails, ghosts
<1>2. PICK x \in HelperType :
        Becomes(p, x, ran[p]) /\ Dutiful(x, ran[p]) /\ Silent(x) /\ x.engine = h[p].engine
  BY <1>1, Outcomes DEF PushRefused, PushOk, PushFails
<1>3. PushOk(p) \/ UNCHANGED <<bucket, acked, assumed>>
  BY DEF PushRefused, PushFails, ghosts
<1> QED BY <1>1, <1>2, <1>3 DEF Goes, Does, Acts

LEMMA Writing ==
  ASSUME AnswerInv, NEW p \in Helpers, PushWrite(p)
  PROVE  Goes(p)
<1>0. Acts(p) /\ h[p].at = "push"
  BY Acting DEF PushWrite, Pushing
<1> DEFINE x == [h[p] EXCEPT !.step = @ + 1]
<1>1. x \in HelperType
  BY <1>0 DEF Acts, HelperType
<1>2. Becomes(p, x, ran[p])
  BY <1>0, Keeps DEF PushWrite, Goto, Acts
<1>3. x.at = h[p].at /\ x.engine = h[p].engine /\ x.cmds = h[p].cmds /\ x.outs = h[p].outs
        /\ x.next = h[p].next
  BY <1>0 DEF Acts, HelperType
<1>4. Dutiful(x, ran[p])
  <2> HIDE DEF x
  <2> QED BY <1>0, <1>3 DEF Acts, Dutiful
<1> QED BY <1>0, <1>1, <1>2, <1>4 DEF Goes, Does, Acts

LEMMA Reports ==
  ASSUME AnswerInv, NEW p \in Helpers, PushReport(p)
  PROVE  Goes(p)
<1>0. Acts(p) /\ h[p].at = "push" /\ UNCHANGED <<bucket, acked, assumed>>
  BY Acting DEF PushReport, results
<1>1. CASE End(p, "ended")
  BY <1>0, <1>1, Ends DEF Acts
<1>2. CASE Ready(p, [h[p] EXCEPT !.cmds = <<>>]) /\ ran' = [ran EXCEPT ![p].told = h[p].outs]
  <2> DEFINE y == [h[p] EXCEPT !.cmds = <<>>]
             b == [ran[p] EXCEPT !.told = h[p].outs]
  <2>1. y \in HelperType /\ y.engine = h[p].engine
    <3>1. <<>> \in Seq(Batching)
      OBVIOUS
    <3> QED BY <1>0, <3>1 DEF Acts, HelperType
  <2>2. b \in RanType /\ b.told = h[p].outs /\ b.cmds = ran[p].cmds
    BY <1>0 DEF Acts, HelperType, RanType
  <2>3. Ready(p, y) /\ ran' = [ran EXCEPT ![p] = b]
    BY <1>2
  <2>4. h[p].engine # None /\ ran[p].cmds = h[p].cmds /\ Following(h[p].outs, h[p].cmds, h[p].next)
    BY <1>0 DEF Acts, Dutiful
  <2>5. h[p].next = Len(h[p].cmds) + 1
    <3>1. h[p].next \in Nat /\ Len(h[p].cmds) \in Nat /\ h[p].next > Len(h[p].cmds)
      BY <1>0 DEF Acts, HelperType, PushReport
    <3> QED BY <2>4, <3>1 DEF Following
  <2> HIDE DEF y, b
  <2>6. Following(b.told, b.cmds, Len(b.cmds) + 1)
    BY <2>2, <2>4, <2>5
  <2> QED BY <1>0, <2>1, <2>2, <2>3, <2>4, <2>6, Replies DEF Acts
<1> QED BY <1>1, <1>2 DEF PushReport

LEMMA EveryStep ==
  ASSUME AnswerInv, Next
  PROVE  \E p \in Helpers : Goes(p)
BY Connects, Reads, Sends, Answers, Fails, Accumulates, Flushes, Fetches, Outcomed, Writing, Reports
   DEF Next, Work

-----------------------------------------------------------------------------
(* Every line is answered.                                                 *)

\* A step of p, by what it leaves.
Turn(p, x, b) ==
  x \in HelperType /\ b \in RanType /\ Becomes(p, x, b) /\ Dutiful(x, b) /\ Does(p, x)

LEMMA Turning ==
  ASSUME AnswerInv, Next
  PROVE  \E p \in Helpers, x \in HelperType, b \in RanType : Turn(p, x, b)
BY EveryStep DEF Goes, Turn

LEMMA Moves ==
  ASSUME Types, NEW p \in Helpers, NEW x, NEW b, Becomes(p, x, b)
  PROVE  /\ h'[p] = x /\ ran'[p] = b
         /\ \A q \in Helpers \ {p} : h'[q] = h[q] /\ ran'[q] = ran[q]
BY DEF Types, Becomes

LEMMA BucketStep ==
  ASSUME AnswerInv, NEW p \in Helpers, NEW x \in HelperType, NEW b \in RanType, Turn(p, x, b)
  PROVE  BucketTypes'
<1>0. BucketTypes /\ Acts(p)
  BY Acting DEF AnswerInv, Types
<1>1. CASE UNCHANGED <<bucket, acked, assumed>>
  BY <1>0, <1>1 DEF BucketTypes, bucket
<1>2. CASE Probes(p, x)
  BY <1>0, <1>2 DEF BucketTypes, bucket, Probes, HelperType
<1>3. CASE PushWrite(p)
  <2>1. Cmd(p).ref \in Refs /\ Cmd(p).arg \in Shas \cup {None}
    BY <1>0, <1>3, CommandTypes DEF PushWrite, Acts
  <2>2. h[p].engine \in Engines
    BY <1>0, <1>3 DEF PushWrite, Pushing, Acts, HelperType, Dutiful
  <2>3. UNCHANGED assumed
    BY <1>3 DEF PushWrite
  <2> DEFINE w == Writes(p)[h[p].step]
             c == Cmd(p)
  <2>4. /\ refs' = IF w = "ref" THEN [refs EXCEPT ![c.ref][h[p].engine] = c.arg] ELSE refs
        /\ head' = IF w = "HEAD" /\ head = None THEN c.ref ELSE head
        /\ format' = IF w = "FORMAT" /\ format = None THEN h[p].engine ELSE format
        /\ acked' = IF w = "ref" THEN [acked EXCEPT ![c.ref] = None] ELSE acked
    BY <1>3 DEF PushWrite
  <2> HIDE DEF w
  <2>5. refs' \in [Refs -> [Engines -> Shas \cup {None}]]
    BY <1>0, <2>1, <2>2, <2>4 DEF BucketTypes
  <2> QED BY <1>0, <2>1, <2>2, <2>3, <2>4, <2>5 DEF BucketTypes
<1>4. CASE PushOk(p)
  <2>1. Cmd(p).ref \in Refs /\ Cmd(p).arg \in Shas \cup {None}
    BY <1>0, <1>4, CommandTypes DEF PushOk, Acts
  <2> QED BY <1>0, <1>4, <2>1 DEF PushOk, BucketTypes, bucket
<1> QED BY <1>1, <1>2, <1>3, <1>4 DEF Turn, Does

LEMMA AnswerStep ==
  ASSUME AnswerInv, Next
  PROVE  AnswerInv'
<1>1. PICK p \in Helpers, x \in HelperType, b \in RanType : Turn(p, x, b)
  BY Turning
<1>2. BucketTypes'
  BY <1>1, BucketStep
<1>3. Becomes(p, x, b) /\ Dutiful(x, b) /\ Types
  BY <1>1 DEF Turn, AnswerInv
<1>4. h' \in [Helpers -> HelperType] /\ ran' \in [Helpers -> RanType]
  BY <1>3 DEF Becomes, Types
<1>5. \A q \in Helpers : Dutiful(h'[q], ran'[q])
  BY <1>3, Moves DEF AnswerInv
<1> QED BY <1>2, <1>4, <1>5 DEF AnswerInv, Types, BucketTypes

LEMMA AnswerInit ==
  ASSUME Init
  PROVE  AnswerInv
<1>1. BucketTypes
  BY SessionAssumption DEF Init, BucketTypes
<1>2. h \in [Helpers -> HelperType] /\ ran \in [Helpers -> RanType]
  BY FreshTyped DEF Init
<1>3. Dutiful(Fresh, NoBatch)
  BY DEF Dutiful, Fresh
<1> QED BY <1>1, <1>2, <1>3 DEF AnswerInv, Types, Init

LEMMA AnswerStutter ==
  ASSUME AnswerInv, UNCHANGED vars
  PROVE  AnswerInv'
BY DEF AnswerInv, Types, BucketTypes, vars, bucket, ghosts

LEMMA AnswerOf ==
  ASSUME AnswerInv
  PROVE  EveryLineAnswered
<1> SUFFICES ASSUME NEW p \in Helpers, h[p].at = "read"
             PROVE  /\ ~h[p].owed
                    /\ ran[p].cmds # <<>> /\ ran[p].cmds[1].c = "push" =>
                         /\ Len(ran[p].told) = Len(ran[p].cmds)
                         /\ \A i \in DOMAIN ran[p].told : ran[p].told[i].ref = ran[p].cmds[i].ref
  BY DEF EveryLineAnswered
<1>1. Dutiful(h[p], ran[p]) /\ ran[p] \in RanType
  BY DEF AnswerInv, Types
<1>2. ASSUME ran[p].cmds # <<>>, ran[p].cmds[1].c = "push"
      PROVE  Following(ran[p].told, ran[p].cmds, Len(ran[p].cmds) + 1)
  BY <1>1, <1>2 DEF Dutiful, Batch, NoBatch
<1> QED BY <1>1, <1>2 DEF Dutiful, Following, RanType

\* A helper that reads the next line has flushed the answer to the last one,
\* and has told git one outcome for each command of the batch of pushes it
\* ran, in order: every handler of protocol/mod.rs, and push_batch when
\* requests fail in its middle.
THEOREM LinesAreAnswered == Spec => []EveryLineAnswered
<1>1. Init => AnswerInv
  BY AnswerInit
<1>2. AnswerInv /\ [Next]_vars => AnswerInv'
  BY AnswerStep, AnswerStutter
<1>3. AnswerInv => EveryLineAnswered
  BY AnswerOf
<1> QED BY <1>1, <1>2, <1>3, PTL DEF Spec

-----------------------------------------------------------------------------
(* What was answered ok is listed.                                         *)

\* What the cases of a step share.
Before(p, x, b) == ListInv /\ Turn(p, x, b) /\ Acts(p) /\ BucketTypes

LEMMA OtherMoves ==
  ASSUME Types, NEW p \in Helpers, NEW x, NEW b, Becomes(p, x, b), NEW q \in Helpers, q # p
  PROVE  /\ Pushing(q)' = Pushing(q) /\ Cmd(q)' = Cmd(q) /\ Writes(q)' = Writes(q)
         /\ h'[q] = h[q]
         /\ \A r \in Refs : At(q, r)' = At(q, r)
         /\ \A w : Wrote(q, w)' = Wrote(q, w)
<1>1. h'[q] = h[q]
  BY Moves
<1>2. Pushing(q)' = Pushing(q) /\ Cmd(q)' = Cmd(q)
  BY <1>1 DEF Pushing, Cmd
<1>3. Writes(q)' = Writes(q)
  BY <1>1, <1>2 DEF Writes
<1> QED BY <1>1, <1>2, <1>3 DEF At, Wrote

LEMMA SilentMoves ==
  ASSUME Types, NEW p \in Helpers, NEW x \in HelperType, NEW b, Becomes(p, x, b), Silent(x)
  PROVE  (\A r : ~At(p, r)') /\ (Pushing(p)' => \A w : ~Wrote(p, w)')
<1>1. h'[p] = x
  BY Moves
<1>2. Pushing(p)' => x.step = 1
  BY <1>1 DEF Pushing, Silent
<1>3. \A w : x.step = 1 => ~Wrote(p, w)'
  BY <1>1 DEF Wrote
<1> QED BY <1>1, <1>2, <1>3 DEF At

LEMMA WriteMoves ==
  ASSUME Types, NEW p \in Helpers, NEW b, h[p] \in HelperType,
         Becomes(p, [h[p] EXCEPT !.step = @ + 1], b)
  PROVE  /\ Pushing(p)' = Pushing(p) /\ Cmd(p)' = Cmd(p) /\ Writes(p)' = Writes(p)
         /\ h'[p].step = h[p].step + 1 /\ h'[p].engine = h[p].engine
         /\ \A w : Wrote(p, w)' = \E i \in 1..Len(Writes(p)) : i < h[p].step + 1 /\ Writes(p)[i] = w
<1>1. h'[p] = [h[p] EXCEPT !.step = @ + 1]
  BY Moves
<1>2. /\ h'[p].at = h[p].at /\ h'[p].cmds = h[p].cmds /\ h'[p].next = h[p].next
      /\ h'[p].step = h[p].step + 1 /\ h'[p].engine = h[p].engine
  BY <1>1 DEF HelperType
<1>3. Pushing(p)' = Pushing(p) /\ Cmd(p)' = Cmd(p)
  BY <1>2 DEF Pushing, Cmd
<1>4. Writes(p)' = Writes(p)
  BY <1>2, <1>3 DEF Writes
<1> QED BY <1>2, <1>3, <1>4 DEF Wrote

LEMMA LockStep ==
  ASSUME NEW p \in Helpers, NEW x, NEW b, Before(p, x, b)
  PROVE  LockOK'
<1>0. Types /\ Becomes(p, x, b) /\ LockOK /\ x \in HelperType /\ h[p] \in HelperType
  BY DEF Before, ListInv, Turn, Acts
<1> SUFFICES ASSUME NEW q1 \in Helpers, NEW q2 \in Helpers, NEW r \in Refs, At(q1, r)', At(q2, r)'
             PROVE  q1 = q2
  BY DEF LockOK
<1>1. CASE Silent(x)
  BY <1>0, <1>1, OtherMoves, SilentMoves DEF LockOK
<1>2. CASE PushWrite(p) /\ x = [h[p] EXCEPT !.step = @ + 1]
  <2>1. \A q \in Helpers : q # p => At(q, r)' = At(q, r)
    BY <1>0, OtherMoves
  <2>2. ASSUME NEW q \in Helpers, q # p, At(q, r), Cmd(p).ref = r
        PROVE  FALSE
    <3>1. CASE h[p].step = 1
      BY <1>2, <2>2, <3>1 DEF PushWrite, Locked, At
    <3>2. CASE h[p].step # 1
      <4>1. At(p, r)
        BY <1>0, <1>2, <2>2, <3>2 DEF At, HelperType, PushWrite
      <4> QED BY <1>0, <2>2, <4>1 DEF LockOK
    <3> QED BY <3>1, <3>2
  <2>3. At(p, r)' => Cmd(p).ref = r
    BY <1>0, <1>2, WriteMoves DEF At
  <2> QED BY <1>0, <2>1, <2>2, <2>3 DEF LockOK
<1> QED BY <1>1, <1>2 DEF Before, Turn, Does

\* No other helper is at its writes for the ref that p writes.
LEMMA Alone ==
  ASSUME NEW p \in Helpers, ListInv, PushWrite(p), h[p] \in HelperType, NEW q \in Helpers, q # p,
         Cmd(p).ref \in Refs
  PROVE  ~At(q, Cmd(p).ref)
<1> SUFFICES ASSUME At(q, Cmd(p).ref) PROVE FALSE
  OBVIOUS
<1>1. CASE h[p].step = 1
  BY <1>1 DEF PushWrite, Locked, At
<1>2. CASE h[p].step # 1
  <2>1. At(p, Cmd(p).ref)
    BY <1>2 DEF At, HelperType, PushWrite
  <2> QED BY <2>1 DEF LockOK, ListInv
<1> QED BY <1>1, <1>2

\* What a write leaves in the bucket.
LEMMA WriteEffect ==
  ASSUME NEW p \in Helpers, AnswerInv, PushWrite(p)
  PROVE  /\ Cmd(p).ref \in Refs /\ h[p].engine \in Engines /\ h[p].step \in 1..Len(Writes(p))
         /\ Writes(p)[h[p].step] = "ref" =>
              /\ refs' = [refs EXCEPT ![Cmd(p).ref][h[p].engine] = Cmd(p).arg]
              /\ acked' = [acked EXCEPT ![Cmd(p).ref] = None] /\ format' = format
         /\ Writes(p)[h[p].step] # "ref" => UNCHANGED <<refs, acked>>
         /\ Writes(p)[h[p].step] = "FORMAT" =>
              format' = IF format = None THEN h[p].engine ELSE format
         /\ Writes(p)[h[p].step] # "FORMAT" => format' = format
         /\ UNCHANGED assumed
<1>0. Acts(p) /\ Pushing(p) /\ Cmd(p).ref # None
  BY Acting DEF PushWrite
<1>1. Cmd(p).ref \in Refs /\ h[p].engine \in Engines
  BY <1>0, CommandTypes DEF Acts, Dutiful, HelperType, Pushing
<1>2. h[p].step \in 1..Len(Writes(p))
  <2>1. Len(Writes(p)) \in Nat
    BY DEF Writes
  <2> QED BY <1>0, <2>1 DEF PushWrite, Acts, HelperType
<1> QED BY <1>1, <1>2 DEF PushWrite

LEMMA WrittenStep ==
  ASSUME NEW p \in Helpers, NEW x, NEW b, Before(p, x, b)
  PROVE  WrittenOK'
<1>0. /\ Types /\ Becomes(p, x, b) /\ WrittenOK /\ x \in HelperType /\ h[p] \in HelperType
      /\ AnswerInv /\ BucketTypes /\ ListInv
  BY DEF Before, ListInv, Turn, Acts
<1> SUFFICES ASSUME NEW q \in Helpers, Pushing(q)', Cmd(q)'.ref # None
             PROVE  /\ Wrote(q, "ref")' => refs'[Cmd(q)'.ref][h'[q].engine] = Cmd(q)'.arg
                    /\ Wrote(q, "FORMAT")' => format' # None
  BY DEF WrittenOK
<1>1. CASE Silent(x) /\ UNCHANGED <<refs, format>>
  <2>1. CASE q = p
    BY <1>0, <1>1, <2>1, SilentMoves
  <2>2. CASE q # p
    <3>1. Pushing(q) /\ Cmd(q)' = Cmd(q) /\ h'[q] = h[q] /\ (\A w : Wrote(q, w)' = Wrote(q, w))
      BY <1>0, <2>2, OtherMoves
    <3> QED BY <1>0, <1>1, <3>1 DEF WrittenOK
  <2> QED BY <2>1, <2>2
<1>2. CASE PushWrite(p) /\ x = [h[p] EXCEPT !.step = @ + 1]
  <2>0. /\ Cmd(p).ref \in Refs /\ h[p].engine \in Engines /\ h[p].step \in 1..Len(Writes(p))
        /\ format # None => format' # None
    BY <1>0, <1>2, WriteEffect, SessionAssumption
  <2>1. CASE q # p
    <3>1. Pushing(q) /\ Cmd(q)' = Cmd(q) /\ h'[q] = h[q] /\ (\A w : Wrote(q, w)' = Wrote(q, w))
      BY <1>0, <2>1, OtherMoves
    <3>2. Cmd(q).ref \in Refs /\ h[q] \in HelperType
      <4>1. h[q] \in HelperType
        BY <1>0 DEF Types
      <4> QED BY <1>0, <3>1, <4>1, CommandTypes
    <3>3. ASSUME Wrote(q, "ref") PROVE refs'[Cmd(q).ref] = refs[Cmd(q).ref]
      <4>1. h[q].step > 1
        BY <3>2, <3>3 DEF Wrote, HelperType
      <4>2. At(q, Cmd(q).ref)
        BY <3>1, <4>1 DEF At
      <4>3. Cmd(p).ref # Cmd(q).ref
        BY <1>0, <1>2, <2>0, <2>1, <4>2, Alone
      <4> QED BY <1>0, <1>2, <2>0, <3>2, <4>3, WriteEffect DEF BucketTypes
    <3> QED BY <1>0, <2>0, <3>1, <3>3 DEF WrittenOK
  <2>2. CASE q = p
    <3>1. /\ Pushing(p) /\ Cmd(p)' = Cmd(p) /\ h'[p].engine = h[p].engine
          /\ \A w : Wrote(p, w)' = \E i \in 1..Len(Writes(p)) : i < h[p].step + 1 /\ Writes(p)[i] = w
      BY <1>0, <1>2, <2>2, WriteMoves
    <3>2. ASSUME NEW w, Wrote(p, w)'
          PROVE  Wrote(p, w) \/ Writes(p)[h[p].step] = w
      <4>1. PICK i \in 1..Len(Writes(p)) : i < h[p].step + 1 /\ Writes(p)[i] = w
        BY <3>1, <3>2
      <4>2. Len(Writes(p)) \in Nat
        BY DEF Writes
      <4> QED BY <2>0, <4>1, <4>2 DEF Wrote
    <3>3. ASSUME Wrote(p, "ref")' PROVE refs'[Cmd(p).ref][h[p].engine] = Cmd(p).arg
      <4>1. CASE Writes(p)[h[p].step] = "ref"
        <5>1. refs' = [refs EXCEPT ![Cmd(p).ref][h[p].engine] = Cmd(p).arg]
          BY <1>0, <1>2, <4>1, WriteEffect
        <5>2. refs \in [Refs -> [Engines -> Shas \cup {None}]]
          BY <1>0 DEF BucketTypes
        <5> QED BY <2>0, <5>1, <5>2
      <4>2. CASE Writes(p)[h[p].step] # "ref"
        <5>1. Wrote(p, "ref") /\ refs' = refs
          BY <1>0, <1>2, <3>2, <3>3, <4>2, WriteEffect
        <5> QED BY <1>0, <2>2, <3>1, <5>1 DEF WrittenOK
      <4> QED BY <4>1, <4>2
    <3>4. ASSUME Wrote(p, "FORMAT")' PROVE format' # None
      <4>1. CASE Writes(p)[h[p].step] = "FORMAT"
        BY <1>0, <1>2, <2>0, <4>1, WriteEffect, SessionAssumption
      <4>2. CASE Writes(p)[h[p].step] # "FORMAT"
        BY <1>0, <2>0, <2>2, <3>1, <3>2, <3>4, <4>2 DEF WrittenOK
      <4> QED BY <4>1, <4>2
    <3> QED BY <2>2, <3>1, <3>3, <3>4
  <2> QED BY <2>1, <2>2
<1>3. (Silent(x) /\ UNCHANGED <<refs, format>>) \/ (PushWrite(p) /\ x = [h[p] EXCEPT !.step = @ + 1])
  BY DEF Before, Turn, Does, Probes, PushOk, bucket
<1> QED BY <1>1, <1>2, <1>3

LEMMA EngineStep ==
  ASSUME NEW p \in Helpers, NEW x, NEW b, Before(p, x, b)
  PROVE  EngineOK'
<1>0. /\ Types /\ Becomes(p, x, b) /\ EngineOK /\ x \in HelperType /\ h[p] \in HelperType
      /\ AnswerInv /\ BucketTypes
  BY DEF Before, ListInv, Turn, Acts
<1>1. h'[p] = x /\ \A q \in Helpers : q # p => h'[q] = h[q]
  BY <1>0, Moves
<1>2. CASE x.engine \in {None, h[p].engine} /\ UNCHANGED <<format, assumed>>
  BY <1>0, <1>1, <1>2 DEF EngineOK
<1>3. CASE Probes(p, x)
  <2>1. format # "unknown" /\ (format # None => x.engine = format) /\ UNCHANGED format
    <3>1. x.engine = Resolve(h[p].url) /\ x.engine # None /\ UNCHANGED format
      BY <1>3 DEF Probes, bucket
    <3>2. format # "unknown"
      BY <3>1, SessionAssumption DEF Resolve, Engines
    <3>3. format = None \/ format \in Engines
      BY <1>0, <3>2 DEF BucketTypes
    <3>4. format # None => x.engine = format
      BY <3>1, <3>2, <3>3, SessionAssumption DEF Resolve
    <3> QED BY <3>1, <3>2, <3>4
  <2>2. assumed \subseteq assumed' /\ (format = None => x.engine \in assumed') /\ (format # None => assumed' = assumed)
    BY <1>3 DEF Probes
  <2> QED BY <1>0, <1>1, <2>1, <2>2, SessionAssumption DEF EngineOK
<1>4. CASE PushWrite(p) /\ x = [h[p] EXCEPT !.step = @ + 1]
  <2>1. h[p].engine \in Engines /\ UNCHANGED assumed /\ format' \in {format, h[p].engine}
          /\ (format' = format \/ format = None) /\ x.engine = h[p].engine
    BY <1>0, <1>4, WriteEffect DEF HelperType
  <2>2. CASE format' = format
    BY <1>0, <1>1, <2>1, <2>2 DEF EngineOK
  <2>3. CASE format = None /\ format' = h[p].engine
    <3>1. \A q \in Helpers : h[q].engine # None => h[q].engine \in assumed
      BY <1>0, <2>3 DEF EngineOK
    <3>2. h[p].engine # None /\ "unknown" \notin Engines
      BY <2>1, SessionAssumption DEF Engines
    <3> QED BY <1>1, <2>1, <2>3, <3>1, <3>2 DEF EngineOK
  <2> QED BY <2>1, <2>2, <2>3
<1> QED BY <1>2, <1>3, <1>4 DEF Before, Turn, Does, PushOk, bucket

LEMMA EnginesFinite == IsFiniteSet(Engines)
<1>1. IsFiniteSet({"bundle"}) /\ IsFiniteSet({"packchain"})
  BY FS_Singleton
<1>2. IsFiniteSet({"bundle"} \cup {"packchain"})
  BY <1>1, FS_Union
<1>3. Engines = {"bundle"} \cup {"packchain"}
  BY DEF Engines
<1> QED BY <1>2, <1>3

LEMMA TwoAssumed ==
  ASSUME assumed \subseteq Engines, NEW d \in assumed, NEW e \in assumed, d # e
  PROVE  Mixed
<1>1. IsFiniteSet(Engines)
  BY EnginesFinite
<1>2. IsFiniteSet(assumed) /\ {d, e} \subseteq assumed
  BY <1>1, FS_Subset
<1>3. Cardinality({d, e}) = 2
  <2>1. Cardinality({d}) = 1 /\ IsFiniteSet({d})
    BY FS_Singleton
  <2>2. Cardinality({d} \cup {e}) = Cardinality({d}) + 1
    BY <2>1, FS_AddElement
  <2>3. {d} \cup {e} = {d, e}
    OBVIOUS
  <2> QED BY <2>1, <2>2, <2>3
<1>4. Cardinality({d, e}) <= Cardinality(assumed) /\ Cardinality(assumed) \in Nat
  BY <1>2, FS_Subset, FS_CardinalityType
<1> QED BY <1>3, <1>4 DEF Mixed

LEMMA MixedStays ==
  ASSUME assumed' \subseteq Engines, assumed \subseteq assumed', Mixed
  PROVE  Mixed'
<1>1. IsFiniteSet(Engines)
  BY EnginesFinite
<1>2. IsFiniteSet(assumed') /\ IsFiniteSet(assumed)
  BY <1>1, FS_Subset
<1>3. Cardinality(assumed) <= Cardinality(assumed')
  BY <1>2, FS_Subset
<1> QED BY <1>2, <1>3, FS_CardinalityType DEF Mixed

LEMMA ListedStep ==
  ASSUME NEW p \in Helpers, NEW x, NEW b, Before(p, x, b)
  PROVE  OkIsListed'
<1>0. /\ Types /\ Becomes(p, x, b) /\ OkIsListed /\ EngineOK /\ WrittenOK /\ Acts(p)
      /\ AnswerInv /\ BucketTypes
  <2>1. ListInv /\ Becomes(p, x, b) /\ Acts(p) /\ BucketTypes
    BY DEF Before, Turn
  <2> QED BY <2>1 DEF ListInv, Acts
<1>1. CASE UNCHANGED <<bucket, acked, assumed>>
  BY <1>0, <1>1 DEF OkIsListed, Mixed, Visible, bucket
<1>2. CASE Probes(p, x)
  <2>1. assumed' \subseteq Engines /\ assumed \subseteq assumed'
    BY <1>0, <1>2, BucketStep DEF Probes, BucketTypes, Before, Turn
  <2>2. Visible => Visible'
    BY <1>2 DEF Probes, Visible, bucket
  <2> QED BY <1>0, <2>1, <2>2, MixedStays DEF OkIsListed
<1>3. CASE PushWrite(p)
  <2>1. Mixed => Mixed'
    BY <1>0, <1>3, WriteEffect DEF Mixed
  <2>2. ASSUME Visible, NEW r \in Refs, acked'[r] # None
        PROVE  format' \in Engines /\ refs'[r][format'] = acked'[r]
    <3>1. acked[r] # None /\ acked'[r] = acked[r] /\ refs'[r] = refs[r]
      BY <1>0, <1>3, <2>2, WriteEffect DEF BucketTypes
    <3>2. format \in Engines /\ refs[r][format] = acked[r]
      BY <2>2, <3>1 DEF Visible
    <3>3. format' = format
      BY <1>0, <1>3, <3>2, WriteEffect, SessionAssumption
    <3> QED BY <3>1, <3>2, <3>3
  <2> QED BY <1>0, <2>1, <2>2 DEF OkIsListed, Visible
<1>4. CASE PushOk(p)
  <2>1. /\ UNCHANGED <<refs, format, assumed>> /\ acked' = [acked EXCEPT ![Cmd(p).ref] = Cmd(p).arg]
        /\ Pushing(p) /\ Cmd(p).ref # None /\ h[p].step > Len(Writes(p))
    BY <1>4 DEF PushOk, bucket
  <2>2. h[p].engine \in Engines /\ h[p].engine # None
    BY <1>0, <2>1 DEF Pushing, Acts, Dutiful, HelperType
  <2>3. CASE Cmd(p).arg = None
    <3>1. \A r \in Refs : acked'[r] # None => acked'[r] = acked[r]
      BY <1>0, <2>1, <2>3 DEF BucketTypes
    <3> QED BY <1>0, <2>1, <3>1 DEF OkIsListed, Mixed, Visible
  <2>4. CASE Cmd(p).arg # None
    <3>1. Wrote(p, "ref") /\ Wrote(p, "FORMAT")
      <4>1. Writes(p) \in {<<"ref", "HEAD", "FORMAT">>, <<"FORMAT", "HEAD", "ref">>}
        BY <2>4 DEF Writes
      <4>2. h[p].step > 3 /\ h[p].step \in Nat
        BY <1>0, <2>1, <4>1 DEF Acts, HelperType
      <4> QED BY <4>1, <4>2 DEF Wrote
    <3>2. refs[Cmd(p).ref][h[p].engine] = Cmd(p).arg /\ format # None
      BY <1>0, <2>1, <3>1 DEF WrittenOK
    <3>3. format \in Engines
      BY <1>0, <2>2, <3>2 DEF EngineOK, BucketTypes
    <3>4. CASE h[p].engine = format
      BY <1>0, <2>1, <3>2, <3>3, <3>4 DEF OkIsListed, Mixed, Visible, BucketTypes
    <3>5. CASE h[p].engine # format
      <4>1. h[p].engine \in assumed /\ format \in assumed
        BY <1>0, <2>2, <3>3, <3>5 DEF EngineOK
      <4>2. Mixed
        BY <1>0, <3>5, <4>1, TwoAssumed DEF BucketTypes
      <4> QED BY <2>1, <4>2 DEF OkIsListed, Mixed
    <3> QED BY <3>4, <3>5
  <2> QED BY <2>3, <2>4
<1> QED BY <1>1, <1>2, <1>3, <1>4 DEF Before, Turn, Does

LEMMA ListInit ==
  ASSUME Init
  PROVE  ListInv
<1>1. AnswerInv
  BY AnswerInit
<1>2. \A p \in Helpers : h[p] = Fresh
  BY DEF Init
<1>3. Fresh.at = "start" /\ Fresh.engine = None
  BY DEF Fresh
<1>4. LockOK /\ WrittenOK
  BY <1>2, <1>3 DEF LockOK, At, WrittenOK, Pushing
<1>5. EngineOK
  BY <1>2, <1>3 DEF EngineOK, Init
<1>6. OkIsListed
  BY DEF OkIsListed, Visible, Init
<1> QED BY <1>1, <1>4, <1>5, <1>6 DEF ListInv

LEMMA ListStep ==
  ASSUME ListInv, Next
  PROVE  ListInv'
<1>1. PICK p \in Helpers, x \in HelperType, b \in RanType : Turn(p, x, b)
  BY Turning DEF ListInv
<1>2. Before(p, x, b)
  BY <1>1, Acting DEF Before, ListInv, AnswerInv, Types
<1> QED BY <1>2, AnswerStep, LockStep, WrittenStep, EngineStep, ListedStep DEF ListInv

LEMMA ListStutter ==
  ASSUME ListInv, UNCHANGED vars
  PROVE  ListInv'
<1>1. AnswerInv'
  BY AnswerStutter DEF ListInv
<1>2. h' = h /\ format' = format /\ refs' = refs /\ acked' = acked /\ assumed' = assumed
  BY DEF vars, bucket, ghosts
<1> QED BY <1>1, <1>2 DEF ListInv, LockOK, WrittenOK, EngineOK, OkIsListed, At, Wrote, Writes,
           Pushing, Cmd, Mixed, Visible

\* A value that a push was answered ok for is in the keys of the engine that
\* FORMAT names, which every helper that connects from then on lists
\* (validate_format, and the order of the writes in each engine's push),
\* unless two helpers settled on different engines while FORMAT was absent.
THEOREM OkListed == Spec => []OkIsListed
<1>1. Init => ListInv
  BY ListInit
<1>2. ListInv /\ [Next]_vars => ListInv'
  BY ListStep, ListStutter
<1>3. ListInv => OkIsListed
  BY DEF ListInv
<1> QED BY <1>1, <1>2, <1>3, PTL DEF Spec


-----------------------------------------------------------------------------
(* What git has asked for, line by line.                                   *)

\* The commands of a batch are of one mode.
LEMMA AskedMode ==
  ASSUME NEW s, NEW n \in Nat, NEW i \in Asked(s, n), NEW j \in Asked(s, n)
  PROVE  s[i].c = s[j].c
<1>1. i \in 1..n /\ j \in 1..n /\ s[i] \in Batching /\ s[j] \in Batching
  BY DEF Asked
<1>2. CASE i <= j
  BY <1>1, <1>2 DEF Asked
<1>3. CASE j <= i
  BY <1>1, <1>3 DEF Asked
<1> QED BY <1>1, <1>2, <1>3

LEMMA AskedLines ==
  ASSUME NEW s, NEW n \in Nat, NEW i \in Asked(s, n)
  PROVE  i \in 1..n /\ s[i] \in Batching
  BY DEF Asked

\* A line more: a blank one runs the batch, a command joins it or begins
\* another one, and others leave it.
LEMMA AskedGrows ==
  ASSUME NEW s, NEW n \in Nat
  PROVE  /\ s[n + 1] = Blank => Asked(s, n + 1) = {}
         /\ s[n + 1] \notin Batching \cup {Blank} => Asked(s, n + 1) = Asked(s, n)
         /\ s[n + 1] \in Batching =>
              Asked(s, n + 1) = {i \in Asked(s, n) : s[i].c = s[n + 1].c} \cup {n + 1}
<1> PICK m : m = n + 1
  OBVIOUS
<1>0. m \in Nat /\ m \in 1..m /\ \A i \in 1..m : m \in i..m /\ (i = m \/ i \in 1..n)
  OBVIOUS
<1>1. \A i \in 1..n : i \in 1..m /\ \A k \in i..m : k = m \/ k \in i..n
  OBVIOUS
<1>2. \A i \in 1..n : \A k \in i..n : k \in i..m
  OBVIOUS
<1>3. s[m] = Blank => Asked(s, m) = {}
  BY <1>0 DEF Asked
<1>4. ASSUME s[m] \notin Batching \cup {Blank} PROVE Asked(s, m) = Asked(s, n)
  <2>1. \A i : i \in Asked(s, m) => i \in Asked(s, n)
    BY <1>0, <1>2, <1>4 DEF Asked
  <2>2. \A i : i \in Asked(s, n) => i \in Asked(s, m)
    BY <1>1, <1>4 DEF Asked
  <2> QED BY <2>1, <2>2
<1>5. ASSUME s[m] \in Batching PROVE Asked(s, m) = {i \in Asked(s, n) : s[i].c = s[m].c} \cup {m}
  <2>0. s[m] # Blank
    BY <1>5, LineKinds DEF Blank, Line
  <2>1. \A i : i \in Asked(s, m) => i = m \/ (i \in Asked(s, n) /\ s[i].c = s[m].c)
    BY <1>0, <1>2, <1>5 DEF Asked
  <2>2. \A i : i \in Asked(s, n) /\ s[i].c = s[m].c => i \in Asked(s, m)
    BY <1>1, <1>5, <2>0 DEF Asked
  <2>3. m \in Asked(s, m)
    <3>1. \A k \in m..m : k = m
      BY <1>0
    <3> QED BY <1>0, <1>5, <2>0, <3>1 DEF Asked
  <2> QED BY <2>1, <2>2, <2>3
<1> QED BY <1>3, <1>4, <1>5

\* What was asked for does not depend on what follows.
LEMMA AskedSame ==
  ASSUME NEW s, NEW t, NEW n \in Nat, \A i \in 1..n : s[i] = t[i]
  PROVE  Asked(s, n) = Asked(t, n)
<1>1. \A i \in 1..n : \A k \in i..n : k \in 1..n
  OBVIOUS
<1>2. \A i : i \in Asked(s, n) <=> i \in Asked(t, n)
  BY <1>1 DEF Asked
<1> QED BY <1>2

LEMMA FetchedSame ==
  ASSUME NEW s, NEW t, NEW n \in Nat, \A i \in 1..n : s[i] = t[i]
  PROVE  Fetched(s, n) = Fetched(t, n)
<1>1. ASSUME NEW i \in 1..n PROVE Asked(s, i - 1) = Asked(t, i - 1) /\ Asked(s, i - 1) \subseteq 1..n
  <2>1. i - 1 \in Nat /\ 1..(i - 1) \subseteq 1..n
    OBVIOUS
  <2>2. \A k \in 1..(i - 1) : s[k] = t[k]
    BY <2>1
  <2> QED BY <2>1, <2>2, AskedSame, AskedLines
<1>2. \A i : i \in Fetched(s, n) <=> i \in Fetched(t, n)
  BY <1>1 DEF Fetched
<1> QED BY <1>2

LEMMA FetchedGrows ==
  ASSUME NEW s, NEW n \in Nat
  PROVE  /\ \A i \in 1..n : i \in Fetched(s, n + 1) <=> i \in Fetched(s, n)
         /\ n + 1 \in Fetched(s, n + 1) <=> s[n + 1] = Blank /\ \E j \in Asked(s, n) : s[j].c = "fetch"
         /\ Fetched(s, n + 1) \subseteq 1..(n + 1)
<1>1. \A i \in 1..n : i \in 1..(n + 1)
  OBVIOUS
<1>2. n + 1 \in 1..(n + 1) /\ (n + 1) - 1 = n
  OBVIOUS
<1> QED BY <1>1, <1>2 DEF Fetched

\* The places where the depth was given that the next fetch takes.
Given(s, n) == {i \in 1..n : s[i].c = "depth" /\ \A k \in i..n : k \notin Fetched(s, n)}

LEMMA GivenSame ==
  ASSUME NEW s, NEW t, NEW n \in Nat, \A i \in 1..n : s[i] = t[i]
  PROVE  AskedDepth(s, n) = AskedDepth(t, n)
<1>1. Given(s, n) = Given(t, n)
  <2>1. \A i : i \in Given(s, n) <=> i \in Given(t, n)
    BY FetchedSame DEF Given
  <2> QED BY <2>1
<1>2. Given(s, n) # {} => Max(Given(s, n)) \in 1..n
  <2>1. Given(s, n) \subseteq 1..n
    BY DEF Given
  <2> QED BY <2>1, Greatest
<1>3. AskedDepth(s, n) = IF Given(s, n) = {} THEN 0 ELSE s[Max(Given(s, n))].arg
  BY DEF AskedDepth, Given
<1>4. AskedDepth(t, n) = IF Given(t, n) = {} THEN 0 ELSE t[Max(Given(t, n))].arg
  BY DEF AskedDepth, Given
<1> QED BY <1>1, <1>2, <1>3, <1>4

LEMMA GreatestIs ==
  ASSUME NEW n \in Nat, NEW T, T \subseteq 1..n, n \in T
  PROVE  Max(T) = n
<1>1. \A y \in T : n >= y
  OBVIOUS
<1>2. \A x \in T : x >= n => x = n
  OBVIOUS
<1>3. \E x \in T : \A y \in T : x >= y
  BY <1>1
<1>4. Max(T) \in T /\ \A y \in T : Max(T) >= y
  BY <1>3 DEF Max
<1> QED BY <1>2, <1>4

\* A line more: a depth counts from then on, a fetch that runs takes it, and
\* other lines leave it.
LEMMA GivenGrows ==
  ASSUME NEW s, NEW n \in Nat
  PROVE  /\ s[n + 1].c = "depth" => AskedDepth(s, n + 1) = s[n + 1].arg
         /\ s[n + 1] = Blank /\ (\E j \in Asked(s, n) : s[j].c = "fetch") => AskedDepth(s, n + 1) = 0
         /\ s[n + 1].c # "depth" /\ ~(s[n + 1] = Blank /\ \E j \in Asked(s, n) : s[j].c = "fetch") =>
              AskedDepth(s, n + 1) = AskedDepth(s, n)
<1> PICK m : m = n + 1
  OBVIOUS
<1>0. m \in Nat /\ m \in 1..m /\ \A i \in 1..m : m \in i..m /\ (i = m \/ i \in 1..n)
  OBVIOUS
<1>1. \A i \in 1..n : i \in 1..m /\ (\A k \in i..m : k = m \/ k \in i..n) /\ (\A k \in i..n : k \in i..m /\ k \in 1..n)
  OBVIOUS
<1>2. AskedDepth(s, m) = IF Given(s, m) = {} THEN 0 ELSE s[Max(Given(s, m))].arg
  BY DEF AskedDepth, Given
<1>3. AskedDepth(s, n) = IF Given(s, n) = {} THEN 0 ELSE s[Max(Given(s, n))].arg
  BY DEF AskedDepth, Given
<1>4. /\ \A i \in 1..n : i \in Fetched(s, m) <=> i \in Fetched(s, n)
      /\ m \in Fetched(s, m) <=> s[m] = Blank /\ \E j \in Asked(s, n) : s[j].c = "fetch"
  BY FetchedGrows
<1>5. Blank.c # "depth"
  BY DEF Blank, Line
<1>6. ASSUME s[m].c = "depth" PROVE AskedDepth(s, m) = s[m].arg
  <2>1. m \notin Fetched(s, m) /\ \A k \in m..m : k = m
    BY <1>0, <1>4, <1>5, <1>6
  <2>2. m \in Given(s, m) /\ Given(s, m) \subseteq 1..m
    BY <1>0, <1>6, <2>1 DEF Given
  <2>3. Max(Given(s, m)) = m
    BY <1>0, <2>2, GreatestIs
  <2> QED BY <1>2, <2>2, <2>3
<1>7. ASSUME m \in Fetched(s, m) PROVE AskedDepth(s, m) = 0
  <2>1. Given(s, m) = {}
    BY <1>0, <1>7 DEF Given
  <2> QED BY <1>2, <2>1
<1>8. ASSUME s[m].c # "depth", m \notin Fetched(s, m) PROVE AskedDepth(s, m) = AskedDepth(s, n)
  <2>1. \A i : i \in Given(s, m) => i \in Given(s, n)
    BY <1>0, <1>1, <1>4, <1>8 DEF Given
  <2>2. \A i : i \in Given(s, n) => i \in Given(s, m)
    BY <1>0, <1>1, <1>4, <1>8 DEF Given
  <2>3. Given(s, m) = Given(s, n)
    BY <2>1, <2>2
  <2> QED BY <1>2, <1>3, <2>3
<1> QED BY <1>4, <1>6, <1>7, <1>8


-----------------------------------------------------------------------------
(* Batches, command by command.                                            *)

LEMMA PicksNone ==
  ASSUME NEW s
  PROVE  Picks(<<>>, s, {})
<1>1. DOMAIN <<>> = {}
  OBVIOUS
<1> DEFINE f == [i \in {} |-> 0]
<1>2. f \in [{} -> {}]
  OBVIOUS
<1> QED BY <1>1, <1>2 DEF Picks

LEMMA PicksOne ==
  ASSUME NEW s, NEW m
  PROVE  Picks(<<s[m]>>, s, {m})
<1> DEFINE f == [i \in {1} |-> m]
<1>1. DOMAIN <<s[m]>> = {1} /\ <<s[m]>>[1] = s[m]
  OBVIOUS
<1>2. f \in [{1} -> {m}] /\ f[1] = m /\ ~(1 < 1)
  OBVIOUS
<1> HIDE DEF f
<1> QED BY <1>1, <1>2 DEF Picks

LEMMA PicksMore ==
  ASSUME NEW s, NEW n \in Nat, NEW cmds \in Seq(Batching), NEW at, at \subseteq 1..n, Picks(cmds, s, at)
  PROVE  Picks(Append(cmds, s[n + 1]), s, at \cup {n + 1})
<1> PICK pos \in [DOMAIN cmds -> at] :
      /\ \A i \in at : \E j \in DOMAIN cmds : pos[j] = i
      /\ \A j, k \in DOMAIN cmds : j < k => pos[j] < pos[k]
      /\ \A j \in DOMAIN cmds : cmds[j] = s[pos[j]]
  BY DEF Picks
<1> PICK z \in Nat : z = Len(cmds)
  OBVIOUS
<1> PICK m \in Nat : m = n + 1
  OBVIOUS
<1> PICK more : more = Append(cmds, s[m])
  OBVIOUS
<1>1. /\ DOMAIN cmds = 1..z /\ DOMAIN more = 1..(z + 1) /\ more[z + 1] = s[m]
      /\ \A j \in 1..z : more[j] = cmds[j]
  OBVIOUS
<1> DEFINE f == [j \in 1..(z + 1) |-> IF j = z + 1 THEN m ELSE pos[j]]
<1>a. /\ z + 1 \in 1..(z + 1)
      /\ \A j \in 1..z : j \in 1..(z + 1) /\ j # z + 1
      /\ \A j \in 1..(z + 1) : j = z + 1 \/ j \in 1..z
  OBVIOUS
<1>b. \A j \in 1..z : pos[j] \in at /\ pos[j] \in 1..n
  BY <1>1
<1>2. /\ f[z + 1] = m /\ z + 1 \in 1..(z + 1)
      /\ \A j \in 1..z : j \in 1..(z + 1) /\ f[j] = pos[j] /\ pos[j] \in at /\ pos[j] \in 1..n
      /\ \A j \in 1..(z + 1) : j = z + 1 \/ j \in 1..z
  BY <1>a, <1>b
<1>3. f \in [DOMAIN more -> at \cup {m}]
  BY <1>1, <1>2
<1> HIDE DEF f
<1>4. ASSUME NEW i \in at \cup {m} PROVE \E j \in DOMAIN more : f[j] = i
  <2>1. CASE i = m
    BY <1>1, <1>2, <2>1
  <2>2. CASE i \in at
    <3>1. PICK j \in 1..z : pos[j] = i
      BY <1>1, <2>2
    <3>2. f[j] = i /\ j \in 1..(z + 1)
      BY <1>2, <3>1
    <3> QED BY <1>1, <3>2
  <2> QED BY <2>1, <2>2
<1>5. ASSUME NEW j \in DOMAIN more, NEW k \in DOMAIN more, j < k PROVE f[j] < f[k]
  <2>1. j \in 1..z
    BY <1>1, <1>5
  <2>2. CASE k \in 1..z
    BY <1>1, <1>2, <1>5, <2>1, <2>2
  <2>3. CASE k = z + 1
    BY <1>2, <2>1, <2>3
  <2> QED BY <1>1, <1>2, <2>2, <2>3
<1>6. \A j \in DOMAIN more : more[j] = s[f[j]]
  BY <1>1, <1>2
<1>7. Picks(more, s, at \cup {m})
  BY <1>3, <1>4, <1>5, <1>6 DEF Picks
<1> QED BY <1>7

LEMMA PicksSame ==
  ASSUME NEW s, NEW t, NEW cmds, NEW at, \A i \in at : s[i] = t[i], Picks(cmds, s, at)
  PROVE  Picks(cmds, t, at)
<1> PICK pos \in [DOMAIN cmds -> at] :
      /\ \A i \in at : \E j \in DOMAIN cmds : pos[j] = i
      /\ \A j, k \in DOMAIN cmds : j < k => pos[j] < pos[k]
      /\ \A j \in DOMAIN cmds : cmds[j] = s[pos[j]]
  BY DEF Picks
<1>1. \A j \in DOMAIN cmds : cmds[j] = t[pos[j]]
  OBVIOUS
<1> QED BY <1>1 DEF Picks

\* What is asked for and the batch are of one mode, and empty together.
LEMMA PicksMode ==
  ASSUME NEW s, NEW n \in Nat, NEW cmds \in Seq(Batching), Picks(cmds, s, Asked(s, n))
  PROVE  /\ \A i \in DOMAIN cmds : cmds[i].c = cmds[1].c
         /\ cmds = <<>> <=> Asked(s, n) = {}
         /\ cmds # <<>> => \A i \in Asked(s, n) : s[i].c = cmds[1].c
<1> PICK pos \in [DOMAIN cmds -> Asked(s, n)] :
      /\ \A i \in Asked(s, n) : \E j \in DOMAIN cmds : pos[j] = i
      /\ \A j \in DOMAIN cmds : cmds[j] = s[pos[j]]
  BY DEF Picks
<1>1. cmds # <<>> => 1 \in DOMAIN cmds
  OBVIOUS
<1>2. cmds = <<>> => DOMAIN cmds = {}
  OBVIOUS
<1>3. \A i \in DOMAIN cmds : pos[i] \in Asked(s, n) /\ cmds[i] = s[pos[i]]
  OBVIOUS
<1>4. ASSUME NEW i \in DOMAIN cmds PROVE cmds # <<>> /\ 1 \in DOMAIN cmds
  BY <1>1, <1>2
<1>5. ASSUME NEW i \in DOMAIN cmds PROVE cmds[i].c = cmds[1].c
  BY <1>3, <1>4, AskedMode
<1>6. cmds # <<>> => \A i \in Asked(s, n) : s[i].c = cmds[1].c
  BY <1>1, <1>3, AskedMode
<1>7. cmds = <<>> <=> Asked(s, n) = {}
  BY <1>1, <1>2, <1>3
<1> QED BY <1>5, <1>6, <1>7

\* BatchState::accumulate: a command joins the batch that waits if it is of
\* its mode, and begins a new one if it is not.
LEMMA PicksNext ==
  ASSUME NEW s, NEW n \in Nat, NEW cmds \in Seq(Batching), Picks(cmds, s, Asked(s, n)),
         NEW l \in Batching, s[n + 1] = l
  PROVE  Picks(IF cmds # <<>> /\ cmds[1].c = l.c THEN Append(cmds, l) ELSE <<l>>, s, Asked(s, n + 1))
<1>1. Asked(s, n + 1) = {i \in Asked(s, n) : s[i].c = l.c} \cup {n + 1} /\ Asked(s, n) \subseteq 1..n
  BY AskedGrows, AskedLines
<1>2. CASE cmds # <<>> /\ cmds[1].c = l.c
  <2>1. Asked(s, n + 1) = Asked(s, n) \cup {n + 1}
    BY <1>1, <1>2, PicksMode
  <2>2. Picks(Append(cmds, s[n + 1]), s, Asked(s, n) \cup {n + 1})
    BY <1>1, PicksMore
  <2> QED BY <1>2, <2>1, <2>2
<1>3. CASE ~(cmds # <<>> /\ cmds[1].c = l.c)
  <2>1. Asked(s, n + 1) = {n + 1}
    <3>1. \A i \in Asked(s, n) : s[i].c # l.c
      BY <1>3, PicksMode
    <3> QED BY <1>1, <3>1
  <2>2. Picks(<<s[n + 1]>>, s, {n + 1})
    BY PicksOne
  <2> QED BY <1>3, <2>1, <2>2
<1> QED BY <1>2, <1>3


-----------------------------------------------------------------------------
(* A helper and what git has asked of it.                                  *)

\* The lines that hist keeps.
Recorded(l) == l \in Batching \cup {Blank} \/ (l.c = "depth" /\ l.arg # 0)

\* What waits is what the first n lines have asked for.
Told(x, s, n) == Picks(x.cmds, s, Asked(s, n)) /\ x.depth = AskedDepth(s, n)

Follows(x, b, s) ==
  /\ x.at \in {"start", "format", "ended", "failed"} => s = <<>> /\ x.cmds = <<>> /\ x.depth = 0
  /\ x.at # "push" => x.outs = <<>>
  /\ x.at = "read" => Told(x, s, Len(s))
  /\ x.at = "handle" /\ Recorded(x.line) =>
       Len(s) > 0 /\ s[Len(s)] = x.line /\ Told(x, s, Len(s) - 1)
  /\ x.at = "handle" /\ ~Recorded(x.line) => Told(x, s, Len(s))
  /\ x.at \in {"push", "fetch"} =>
       /\ Len(s) > 0 /\ s[Len(s)] = Blank /\ b.cmds = x.cmds
       /\ Picks(b.cmds, s, Asked(s, Len(s) - 1)) /\ x.depth = AskedDepth(s, Len(s))
  /\ x.at = "fetch" => b.depth = AskedDepth(s, Len(s) - 1)

BatchInv ==
  /\ AnswerInv
  /\ lines \in 0..MaxLines /\ faults \in 0..MaxFaults
  /\ hist \in [Helpers -> Seq(Lines)]
  /\ \A p \in Helpers : Follows(h[p], ran[p], hist[p])

\* A helper goes on from what was asked of it.
Heeds(p) ==
  \E x, b, s : Becomes(p, x, b) /\ hist' = [hist EXCEPT ![p] = s] /\ s \in Seq(Lines) /\ Follows(x, b, s)

\* What is known of the helper that acts.
Knows(p) == Acts(p) /\ Follows(h[p], ran[p], hist[p]) /\ hist[p] \in Seq(Lines) /\ hist \in [Helpers -> Seq(Lines)]

LEMMA Knowing ==
  ASSUME BatchInv, NEW p \in Helpers
  PROVE  Knows(p)
  BY Acting DEF BatchInv, Knows

LEMMA Appended ==
  ASSUME NEW S, NEW s \in Seq(S), NEW l \in S
  PROVE  /\ Append(s, l) \in Seq(S) /\ Len(Append(s, l)) = Len(s) + 1 /\ Append(s, l)[Len(s) + 1] = l
         /\ \A i \in 1..Len(s) : s[i] = Append(s, l)[i]
<1>1. Len(Append(s, l)) = Len(s) + 1
  OBVIOUS
<1>2. Append(s, l)[Len(s) + 1] = l
  OBVIOUS
<1>3. \A i \in 1..Len(s) : s[i] = Append(s, l)[i]
  OBVIOUS
<1>4. Append(s, l) \in Seq(S)
  OBVIOUS
<1> QED BY <1>1, <1>2, <1>3, <1>4

\* The line that comes next is not part of what was asked before it.
LEMMA ToldBefore ==
  ASSUME NEW s \in Seq(Lines), NEW l \in Lines, NEW x, Told(x, s, Len(s))
  PROVE  /\ Append(s, l) \in Seq(Lines) /\ Len(Append(s, l)) > 0 /\ Append(s, l)[Len(Append(s, l))] = l
         /\ Told(x, Append(s, l), Len(Append(s, l)) - 1)
<1> PICK n \in Nat : n = Len(s)
  OBVIOUS
<1> PICK t \in Seq(Lines) : t = Append(s, l)
  BY Appended
<1>0. Len(t) = n + 1 /\ t[n + 1] = l /\ \A i \in 1..n : s[i] = t[i]
  BY Appended
<1>1. (n + 1) - 1 = n /\ n + 1 > 0
  OBVIOUS
<1>2. Asked(s, n) = Asked(t, n) /\ AskedDepth(s, n) = AskedDepth(t, n)
  BY <1>0, AskedSame, GivenSame
<1>3. \A i \in Asked(s, n) : s[i] = t[i]
  BY <1>0, AskedLines
<1>4. Picks(x.cmds, t, Asked(s, n))
  BY <1>3, PicksSame DEF Told
<1>5. Told(x, t, n)
  BY <1>2, <1>4 DEF Told
<1> QED BY <1>0, <1>1, <1>5

\* The place of the last line.
LEMMA LastPlace ==
  ASSUME NEW s \in Seq(Lines), Len(s) > 0
  PROVE  \E n \in Nat : Len(s) = n + 1 /\ Len(s) - 1 = n
<1>1. Len(s) - 1 \in Nat /\ Len(s) = (Len(s) - 1) + 1
  OBVIOUS
<1> QED BY <1>1

\* A blank line ends what was asked, and takes the depth if it ran a fetch.
LEMMA BlankEnds ==
  ASSUME NEW s, NEW n \in Nat, NEW cmds \in Seq(Batching), Picks(cmds, s, Asked(s, n)), s[n + 1] = Blank
  PROVE  /\ Picks(<<>>, s, Asked(s, n + 1))
         /\ Batch(cmds, "fetch") => AskedDepth(s, n + 1) = 0
         /\ ~Batch(cmds, "fetch") => AskedDepth(s, n + 1) = AskedDepth(s, n)
<1>1. Asked(s, n + 1) = {}
  BY AskedGrows
<1>2. Batch(cmds, "fetch") <=> \E j \in Asked(s, n) : s[j].c = "fetch"
  BY PicksMode DEF Batch
<1>3. Blank.c # "depth"
  BY DEF Blank, Line
<1> QED BY <1>1, <1>2, <1>3, PicksNone, GivenGrows

\* A command leaves the depth.
LEMMA CommandKeeps ==
  ASSUME NEW s, NEW n \in Nat, s[n + 1] \in Batching
  PROVE  AskedDepth(s, n + 1) = AskedDepth(s, n)
<1>1. s[n + 1].c # "depth" /\ s[n + 1] # Blank
  BY LineKinds DEF Blank, Line
<1> QED BY <1>1, GivenGrows

\* A depth leaves the commands.
LEMMA DepthKeeps ==
  ASSUME NEW s, NEW n \in Nat, s[n + 1].c = "depth", s[n + 1] \in Lines
  PROVE  Asked(s, n + 1) = Asked(s, n) /\ AskedDepth(s, n + 1) = s[n + 1].arg
<1>1. s[n + 1] \notin Batching /\ s[n + 1] # Blank
  BY LineKinds DEF Blank, Line
<1> QED BY <1>1, AskedGrows, GivenGrows


-----------------------------------------------------------------------------
(* Its steps.                                                              *)

LEMMA EndHeeds ==
  ASSUME NEW p \in Helpers, NEW how \in {"failed", "ended"}, End(p, how)
  PROVE  Heeds(p)
<1> DEFINE x == [Fresh EXCEPT !.at = how]
<1>1. Becomes(p, x, NoBatch) /\ hist' = [hist EXCEPT ![p] = <<>>] /\ <<>> \in Seq(Lines)
  BY DEF End, Goto, Becomes
<1>2. x.at = how /\ x.cmds = <<>> /\ x.depth = 0 /\ x.outs = <<>>
  BY DEF Fresh
<1> HIDE DEF x
<1>3. Follows(x, NoBatch, <<>>)
  BY <1>2 DEF Follows
<1> QED BY <1>1, <1>3 DEF Heeds

\* A step that adds no line.
LEMMA StillHeeds ==
  ASSUME NEW p \in Helpers, Knows(p), NEW x, NEW b, Becomes(p, x, b), UNCHANGED hist, Follows(x, b, hist[p])
  PROVE  Heeds(p)
<1>1. hist' = [hist EXCEPT ![p] = hist[p]]
  BY DEF Knows
<1> QED BY <1>1 DEF Knows, Heeds

LEMMA ConnectHeeds ==
  ASSUME NEW p \in Helpers, Knows(p), Connect(p) \/ ReadFormat(p)
  PROVE  Heeds(p)
<1>1. CASE Fail(p)
  BY <1>1, EndHeeds DEF Fail
<1>2. ASSUME NEW e, Connect(p), Goto(p, [h[p] EXCEPT !.at = "format", !.url = e]), UNCHANGED <<hist, ran>>
      PROVE  Heeds(p)
  <2> DEFINE x == [h[p] EXCEPT !.at = "format", !.url = e]
  <2>1. Becomes(p, x, ran[p])
    BY <1>2, Keeps DEF Goto, Knows, Acts
  <2>2. h[p].at = "start" /\ x.at = "format" /\ x.cmds = h[p].cmds /\ x.depth = h[p].depth /\ x.outs = h[p].outs
    BY <1>2 DEF Connect, Knows, Acts, HelperType
  <2> HIDE DEF x
  <2>3. Follows(x, ran[p], hist[p])
    BY <2>2 DEF Knows, Follows
  <2> QED BY <1>2, <2>1, <2>3, StillHeeds
<1>3. ASSUME NEW e, ReadFormat(p), Goto(p, [h[p] EXCEPT !.at = "read", !.url = None, !.engine = e]),
             UNCHANGED <<hist, ran>>
      PROVE  Heeds(p)
  <2> DEFINE x == [h[p] EXCEPT !.at = "read", !.url = None, !.engine = e]
  <2>1. Becomes(p, x, ran[p])
    BY <1>3, Keeps DEF Goto, Knows, Acts
  <2>2. h[p].at = "format" /\ x.at = "read" /\ x.cmds = h[p].cmds /\ x.depth = h[p].depth /\ x.outs = h[p].outs
    BY <1>3 DEF ReadFormat, Knows, Acts, HelperType
  <2> HIDE DEF x
  <2>3. hist[p] = <<>> /\ x.cmds = <<>> /\ x.depth = 0 /\ x.outs = <<>>
    BY <2>2 DEF Knows, Follows
  <2>4. Asked(<<>>, 0) = {} /\ AskedDepth(<<>>, 0) = 0
    BY DEF Asked, AskedDepth
  <2>5. Len(<<>>) = 0
    OBVIOUS
  <2>6. Told(x, hist[p], Len(hist[p]))
    BY <2>3, <2>4, <2>5, PicksNone DEF Told
  <2>7. Follows(x, ran[p], hist[p])
    BY <2>2, <2>3, <2>6 DEF Follows
  <2> QED BY <1>3, <2>1, <2>7, StillHeeds
<1>4. CASE Connect(p)
  BY <1>1, <1>2, <1>4 DEF Connect
<1>5. CASE ReadFormat(p)
  BY <1>1, <1>3, <1>5 DEF ReadFormat
<1> QED BY <1>4, <1>5

LEMMA SendHeeds ==
  ASSUME NEW p \in Helpers, Knows(p), NEW l \in Lines, GitSends(p, l)
  PROVE  Heeds(p)
<1> DEFINE x == [h[p] EXCEPT !.at = "handle", !.line = l, !.owed = l \notin Batching]
           s == IF Recorded(l) THEN Append(hist[p], l) ELSE hist[p]
<1>1. Becomes(p, x, NoBatch)
  BY DEF GitSends, Goto, Becomes
<1>2. hist' = [hist EXCEPT ![p] = s]
  BY DEF GitSends, Recorded
<1>3. h[p].at = "read" /\ x.at = "handle" /\ x.line = l /\ x.cmds = h[p].cmds /\ x.depth = h[p].depth /\ x.outs = h[p].outs
  BY DEF GitSends, Knows, Acts, HelperType
<1> HIDE DEF x
<1>4. Told(x, hist[p], Len(hist[p])) /\ x.outs = <<>> /\ hist[p] \in Seq(Lines)
  BY <1>3 DEF Knows, Follows, Told
<1>5. CASE Recorded(l)
  <2>1. s \in Seq(Lines) /\ Len(s) > 0 /\ s[Len(s)] = l /\ Told(x, s, Len(s) - 1)
    BY <1>4, <1>5, ToldBefore
  <2> HIDE DEF s
  <2>2. Follows(x, NoBatch, s)
    BY <1>3, <1>4, <1>5, <2>1 DEF Follows
  <2> QED BY <1>1, <1>2, <2>1, <2>2 DEF Heeds
<1>6. CASE ~Recorded(l)
  <2>1. s = hist[p]
    BY <1>6
  <2>2. Follows(x, NoBatch, hist[p])
    BY <1>3, <1>4, <1>6 DEF Follows
  <2> QED BY <1>1, <1>2, <1>4, <2>1, <2>2 DEF Heeds
<1> QED BY <1>5, <1>6

\* A reply: what waits is as the handler has left it.
LEMMA ReplyHeeds ==
  ASSUME NEW p \in Helpers, Knows(p), NEW y \in HelperType, Ready(p, y), UNCHANGED hist,
         NEW b, ran' = [ran EXCEPT ![p] = b], Told(y, hist[p], Len(hist[p]))
  PROVE  Heeds(p)
<1> DEFINE x == [y EXCEPT !.at = "read", !.owed = FALSE, !.line = Blank, !.outs = <<>>]
<1>1. Becomes(p, x, b)
  BY DEF Ready, Goto, Becomes
<1>2. x.at = "read" /\ x.cmds = y.cmds /\ x.depth = y.depth /\ x.outs = <<>>
  BY DEF HelperType
<1> HIDE DEF x
<1>3. Follows(x, b, hist[p])
  BY <1>2 DEF Follows, Told
<1> QED BY <1>1, <1>3, StillHeeds


LEMMA AnswerHeeds ==
  ASSUME NEW p \in Helpers, Knows(p), Answer(p) \/ BundleUri(p) \/ SetOption(p)
  PROVE  Heeds(p)
<1>0. h[p].at = "handle" /\ h[p] \in HelperType /\ h[p].line \in Lines
  BY DEF Answer, BundleUri, SetOption, Handling, Knows, Acts, HelperType
<1>1. CASE Fail(p)
  BY <1>1, EndHeeds DEF Fail
<1>2. ASSUME NEW y \in HelperType, Reply(p, y), Told(y, hist[p], Len(hist[p]))
      PROVE  Heeds(p)
  <2>1. ran' = [ran EXCEPT ![p] = ran[p]] /\ UNCHANGED hist /\ Ready(p, y)
    BY <1>2 DEF Reply, Knows, Acts, Types
  <2> QED BY <1>2, <2>1, ReplyHeeds
<1>3. ASSUME ~Recorded(h[p].line) PROVE Told(h[p], hist[p], Len(hist[p]))
  BY <1>0, <1>3 DEF Knows, Follows
<1>4. CASE Answer(p) \/ BundleUri(p)
  <2>1. h[p].line.c \in {"capabilities", "list", "bundle-uri"}
    BY <1>4 DEF Answer, BundleUri, Handling
  <2>2. ~Recorded(h[p].line)
    BY <1>0, <2>1, LineKinds DEF Recorded, Blank, Line
  <2>3. Fail(p) \/ Reply(p, h[p])
    BY <1>4 DEF Answer, BundleUri
  <2> QED BY <1>0, <1>1, <1>2, <1>3, <2>2, <2>3
<1>5. CASE SetOption(p) /\ h[p].line.arg = 0
  <2>1. ~Recorded(h[p].line)
    BY <1>0, <1>5, LineKinds DEF Recorded, SetOption, Handling, Blank, Line
  <2>2. [h[p] EXCEPT !.depth = IF h[p].line.arg # 0 THEN h[p].line.arg ELSE @] = h[p]
    BY <1>0, <1>5 DEF HelperType
  <2>3. Reply(p, h[p])
    BY <1>5, <2>2 DEF SetOption
  <2> QED BY <1>0, <1>2, <1>3, <2>1, <2>3
<1>6. CASE SetOption(p) /\ h[p].line.arg # 0
  <2> DEFINE y == [h[p] EXCEPT !.depth = h[p].line.arg]
  <2>1. h[p].line.c = "depth"
    BY <1>6 DEF SetOption, Handling
  <2>2. Reply(p, y)
    <3>1. [h[p] EXCEPT !.depth = IF h[p].line.arg # 0 THEN h[p].line.arg ELSE @] = y
      BY <1>6
    <3> QED BY <1>6, <3>1 DEF SetOption
  <2>3. y \in HelperType /\ y.cmds = h[p].cmds /\ y.depth = h[p].line.arg
    BY <1>0, <2>1, LineKinds DEF HelperType
  <2> HIDE DEF y
  <2>4. Recorded(h[p].line)
    BY <1>6, <2>1 DEF Recorded
  <2>5. /\ Len(hist[p]) > 0 /\ hist[p][Len(hist[p])] = h[p].line
        /\ Told(h[p], hist[p], Len(hist[p]) - 1) /\ hist[p] \in Seq(Lines)
    BY <1>0, <2>4 DEF Knows, Follows
  <2>6. PICK n \in Nat : Len(hist[p]) = n + 1 /\ Len(hist[p]) - 1 = n
    BY <2>5, LastPlace
  <2>7. Asked(hist[p], n + 1) = Asked(hist[p], n) /\ AskedDepth(hist[p], n + 1) = h[p].line.arg
    BY <1>0, <2>1, <2>5, <2>6, DepthKeeps
  <2>8. Told(y, hist[p], Len(hist[p]))
    BY <2>3, <2>5, <2>6, <2>7 DEF Told
  <2> QED BY <1>2, <2>2, <2>3, <2>8
<1> QED BY <1>4, <1>5, <1>6

LEMMA AccumulateHeeds ==
  ASSUME NEW p \in Helpers, Knows(p), Accumulate(p)
  PROVE  Heeds(p)
<1> DEFINE cs == IF Mode(p) = h[p].line.c THEN Append(h[p].cmds, h[p].line) ELSE <<h[p].line>>
           x  == [h[p] EXCEPT !.at = "read", !.line = Blank, !.cmds = cs]
<1>0. h[p].at = "handle" /\ h[p].line \in Batching /\ h[p].cmds \in Seq(Batching) /\ h[p] \in HelperType
  BY LineKinds DEF Accumulate, Handling, Knows, Acts, HelperType
<1>1. Becomes(p, x, ran[p]) /\ UNCHANGED hist
  BY Keeps DEF Accumulate, Goto, Knows, Acts, ghosts
<1>2. Recorded(h[p].line)
  BY <1>0 DEF Recorded
<1>3. /\ Len(hist[p]) > 0 /\ hist[p][Len(hist[p])] = h[p].line
      /\ Told(h[p], hist[p], Len(hist[p]) - 1) /\ hist[p] \in Seq(Lines) /\ h[p].outs = <<>>
  BY <1>0, <1>2 DEF Knows, Follows
<1>4. PICK n \in Nat : Len(hist[p]) = n + 1 /\ Len(hist[p]) - 1 = n
  BY <1>3, LastPlace
<1>5. cs = IF h[p].cmds # <<>> /\ h[p].cmds[1].c = h[p].line.c THEN Append(h[p].cmds, h[p].line)
           ELSE <<h[p].line>>
  <2>1. Append(<<>>, h[p].line) = <<h[p].line>>
    OBVIOUS
  <2> QED BY <2>1 DEF Mode
<1>6. Picks(cs, hist[p], Asked(hist[p], n + 1))
  BY <1>0, <1>3, <1>4, <1>5, PicksNext DEF Told
<1> HIDE DEF cs
<1>7. x.at = "read" /\ x.cmds = cs /\ x.depth = h[p].depth /\ x.outs = h[p].outs
  BY <1>0 DEF HelperType
<1> HIDE DEF x
<1>8. AskedDepth(hist[p], n + 1) = AskedDepth(hist[p], n)
  BY <1>0, <1>3, <1>4, CommandKeeps
<1>9. Told(x, hist[p], Len(hist[p]))
  BY <1>3, <1>4, <1>6, <1>7, <1>8 DEF Told
<1>10. Follows(x, ran[p], hist[p])
  BY <1>3, <1>7, <1>9 DEF Follows
<1> QED BY <1>1, <1>10, StillHeeds

LEMMA FlushHeeds ==
  ASSUME NEW p \in Helpers, Knows(p), Flush(p)
  PROVE  Heeds(p)
<1>0. h[p].at = "handle" /\ h[p].cmds \in Seq(Batching) /\ h[p] \in HelperType
  BY DEF Flush, Handling, Knows, Acts, HelperType
<1>1. h[p].line = Blank /\ Recorded(h[p].line)
  <2>1. h[p].line \in Lines /\ h[p].line.c = "blank"
    BY <1>0 DEF Flush, Handling, HelperType
  <2>2. h[p].line = Blank
    BY <2>1 DEF Lines, Batching, Blank, Line, Push, Fetch
  <2> QED BY <2>2 DEF Recorded
<1>2. /\ Len(hist[p]) > 0 /\ hist[p][Len(hist[p])] = Blank
      /\ Told(h[p], hist[p], Len(hist[p]) - 1) /\ hist[p] \in Seq(Lines) /\ h[p].outs = <<>>
  BY <1>0, <1>1 DEF Knows, Follows
<1>3. PICK n \in Nat : Len(hist[p]) = n + 1 /\ Len(hist[p]) - 1 = n
  BY <1>2, LastPlace
<1>4. Picks(h[p].cmds, hist[p], Asked(hist[p], n)) /\ h[p].depth = AskedDepth(hist[p], n)
  BY <1>2, <1>3 DEF Told
<1>5. /\ Picks(<<>>, hist[p], Asked(hist[p], n + 1))
      /\ Batch(h[p].cmds, "fetch") => AskedDepth(hist[p], n + 1) = 0
      /\ ~Batch(h[p].cmds, "fetch") => AskedDepth(hist[p], n + 1) = h[p].depth
  BY <1>0, <1>2, <1>3, <1>4, BlankEnds
<1>6. CASE h[p].cmds = <<>>
  <2>1. Ready(p, h[p]) /\ ran' = [ran EXCEPT ![p] = ran[p]] /\ UNCHANGED hist
    BY <1>6 DEF Flush, Reply, Knows, Acts, Types
  <2>2. Told(h[p], hist[p], Len(hist[p]))
    BY <1>3, <1>5, <1>6 DEF Told, Batch
  <2> QED BY <1>0, <2>1, <2>2, ReplyHeeds
<1>7. CASE h[p].cmds # <<>>
  <2> DEFINE m == Mode(p)
             x == [h[p] EXCEPT !.at = m, !.next = 1, !.step = 1, !.outs = <<>>,
                               !.depth = IF m = "fetch" THEN 0 ELSE @]
             b == [cmds |-> h[p].cmds, depth |-> IF m = "fetch" THEN h[p].depth ELSE 0, told |-> <<>>]
  <2>1. h[p].cmds[1] \in Batching
    BY <1>0, <1>7
  <2>2. m \in {"fetch", "push"} /\ (m = "fetch" <=> Batch(h[p].cmds, "fetch"))
    BY <1>7, <2>1, LineKinds DEF Mode, Batch
  <2>3. Becomes(p, x, b) /\ UNCHANGED hist
    BY <1>7 DEF Flush, Becomes, Goto
  <2> HIDE DEF m
  <2>4. x.at = m /\ x.cmds = h[p].cmds /\ x.outs = <<>> /\ x.depth = IF m = "fetch" THEN 0 ELSE h[p].depth
    BY <1>0 DEF HelperType
  <2>5. b.cmds = h[p].cmds /\ (m = "fetch" => b.depth = h[p].depth)
    OBVIOUS
  <2> HIDE DEF x, b
  <2>6. x.depth = AskedDepth(hist[p], Len(hist[p]))
    BY <1>3, <1>5, <2>2, <2>4
  <2>7. /\ Len(hist[p]) > 0 /\ hist[p][Len(hist[p])] = Blank /\ b.cmds = x.cmds
        /\ Picks(b.cmds, hist[p], Asked(hist[p], Len(hist[p]) - 1))
    BY <1>2, <1>3, <1>4, <2>4, <2>5
  <2>8. m = "fetch" => b.depth = AskedDepth(hist[p], Len(hist[p]) - 1)
    BY <1>3, <1>4, <2>5
  <2>9. Follows(x, b, hist[p])
    BY <2>2, <2>4, <2>6, <2>7, <2>8 DEF Follows
  <2> QED BY <2>3, <2>9, StillHeeds
<1> QED BY <1>6, <1>7

\* A batch has run: nothing waits.
LEMMA BatchDone ==
  ASSUME NEW p \in Helpers, Knows(p), h[p].at \in {"push", "fetch"}, Ready(p, [h[p] EXCEPT !.cmds = <<>>]),
         UNCHANGED hist, NEW b, ran' = [ran EXCEPT ![p] = b]
  PROVE  Heeds(p)
<1> DEFINE y == [h[p] EXCEPT !.cmds = <<>>]
<1>1. y \in HelperType /\ y.cmds = <<>> /\ y.depth = h[p].depth
  <2>1. <<>> \in Seq(Batching) /\ h[p] \in HelperType
    BY DEF Knows, Acts
  <2> QED BY <2>1 DEF HelperType
<1> HIDE DEF y
<1>2. /\ Len(hist[p]) > 0 /\ hist[p][Len(hist[p])] = Blank /\ hist[p] \in Seq(Lines)
      /\ h[p].depth = AskedDepth(hist[p], Len(hist[p]))
  BY DEF Knows, Follows
<1>3. PICK n \in Nat : Len(hist[p]) = n + 1 /\ Len(hist[p]) - 1 = n
  BY <1>2, LastPlace
<1>4. Asked(hist[p], n + 1) = {}
  BY <1>2, <1>3, AskedGrows
<1>5. Told(y, hist[p], Len(hist[p]))
  BY <1>1, <1>2, <1>3, <1>4, PicksNone DEF Told
<1>6. Ready(p, y)
  BY DEF y
<1> QED BY <1>1, <1>5, <1>6, ReplyHeeds

LEMMA FetchHeeds ==
  ASSUME NEW p \in Helpers, Knows(p), RunFetch(p)
  PROVE  Heeds(p)
<1>1. CASE Fail(p)
  BY <1>1, EndHeeds DEF Fail
<1>2. CASE Reply(p, [h[p] EXCEPT !.cmds = <<>>])
  <2>1. h[p].at = "fetch" /\ ran' = [ran EXCEPT ![p] = ran[p]]
    BY <1>2 DEF RunFetch, Reply, Knows, Acts, Types
  <2> QED BY <1>2, <2>1, BatchDone DEF Reply
<1> QED BY <1>1, <1>2 DEF RunFetch

LEMMA ReportHeeds ==
  ASSUME NEW p \in Helpers, Knows(p), PushReport(p)
  PROVE  Heeds(p)
<1>1. CASE End(p, "ended")
  BY <1>1, EndHeeds
<1>2. CASE /\ Ready(p, [h[p] EXCEPT !.cmds = <<>>]) /\ ran' = [ran EXCEPT ![p].told = h[p].outs]
           /\ UNCHANGED hist
  <2>1. h[p].at = "push" /\ ran' = [ran EXCEPT ![p] = [ran[p] EXCEPT !.told = h[p].outs]]
    BY <1>2 DEF PushReport, Knows, Acts, Types
  <2> QED BY <1>2, <2>1, BatchDone
<1> QED BY <1>1, <1>2 DEF PushReport

\* A push within the batch.
LEMMA PushHeeds ==
  ASSUME NEW p \in Helpers, Knows(p),
         PushMalformed(p) \/ PushRefused(p) \/ PushWrite(p) \/ PushOk(p) \/ PushFails(p)
  PROVE  Heeds(p)
<1>0. h[p].at = "push" /\ h[p] \in HelperType
  BY DEF PushMalformed, PushRefused, PushWrite, PushOk, PushFails, Pushing, Knows, Acts
<1>1. CASE PushMalformed(p)
  BY <1>1, EndHeeds DEF PushMalformed, Fail
<1>2. ASSUME NEW x, Goto(p, x), UNCHANGED <<hist, ran>>, x.at = "push", x.cmds = h[p].cmds, x.depth = h[p].depth
      PROVE  Heeds(p)
  <2>1. Becomes(p, x, ran[p])
    BY <1>2, Keeps DEF Goto, Knows, Acts
  <2>2. Follows(x, ran[p], hist[p])
    BY <1>0, <1>2 DEF Knows, Follows
  <2> QED BY <1>2, <2>1, <2>2, StillHeeds
<1>3. ASSUME NEW ok, Outcome(p, ok), UNCHANGED <<hist, ran>>
      PROVE  Heeds(p)
  <2> DEFINE x == [h[p] EXCEPT !.next = @ + 1, !.step = 1,
                               !.outs = Append(@, [ref |-> Cmd(p).ref, ok |-> ok])]
  <2>1. Goto(p, x)
    BY <1>3 DEF Outcome
  <2>2. x.at = "push" /\ x.cmds = h[p].cmds /\ x.depth = h[p].depth
    BY <1>0 DEF HelperType
  <2> HIDE DEF x
  <2> QED BY <1>2, <1>3, <2>1, <2>2
<1>4. CASE PushWrite(p)
  <2> DEFINE x == [h[p] EXCEPT !.step = @ + 1]
  <2>1. Goto(p, x) /\ UNCHANGED <<hist, ran>>
    BY <1>4 DEF PushWrite
  <2>2. x.at = "push" /\ x.cmds = h[p].cmds /\ x.depth = h[p].depth
    BY <1>0 DEF HelperType
  <2> HIDE DEF x
  <2> QED BY <1>2, <2>1, <2>2
<1>5. CASE PushRefused(p) \/ PushOk(p) \/ PushFails(p)
  BY <1>3, <1>5 DEF PushRefused, PushOk, PushFails, ghosts
<1> QED BY <1>1, <1>4, <1>5


LEMMA EveryHeeds ==
  ASSUME BatchInv, Next
  PROVE  \E p \in Helpers : Heeds(p)
<1>1. ASSUME NEW p \in Helpers, Work(p) PROVE Heeds(p)
  BY <1>1, Knowing, ConnectHeeds, AnswerHeeds, EndHeeds, AccumulateHeeds, FlushHeeds, FetchHeeds, PushHeeds,
     ReportHeeds DEF Work, Invalid, Fail
<1>2. ASSUME NEW p \in Helpers, GitCloses(p) PROVE Heeds(p)
  BY <1>2, EndHeeds DEF GitCloses
<1>3. ASSUME NEW p \in Helpers, NEW l \in Lines, GitSends(p, l) PROVE Heeds(p)
  BY <1>3, Knowing, SendHeeds
<1> QED BY <1>1, <1>2, <1>3 DEF Next

\* The bounds on what git sends and on what fails.
LEMMA Bounded ==
  ASSUME BatchInv, Next
  PROVE  lines' \in 0..MaxLines /\ faults' \in 0..MaxFaults
<1>0. lines \in Nat /\ lines <= MaxLines /\ faults \in Nat /\ faults <= MaxFaults /\ MaxLines \in Nat /\ MaxFaults \in Nat
  BY SessionAssumption DEF BatchInv
<1>1. ASSUME NEW p \in Helpers, Work(p)
      PROVE  lines' = lines /\ (faults' = faults \/ Fault)
  <2>1. CASE Connect(p) \/ ReadFormat(p)
    BY <2>1 DEF Connect, ReadFormat
  <2>2. CASE Answer(p) \/ BundleUri(p) \/ SetOption(p) \/ Invalid(p)
    BY <2>2 DEF Answer, BundleUri, SetOption, Invalid
  <2>3. CASE Accumulate(p) \/ Flush(p) \/ RunFetch(p)
    BY <2>3 DEF Accumulate, Flush, RunFetch
  <2>4. CASE PushMalformed(p) \/ PushRefused(p) \/ PushWrite(p) \/ PushOk(p)
    BY <2>4 DEF PushMalformed, PushRefused, PushWrite, PushOk
  <2>5. CASE PushFails(p) \/ PushReport(p)
    BY <2>5 DEF PushFails, PushReport
  <2> QED BY <1>1, <2>1, <2>2, <2>3, <2>4, <2>5 DEF Work
<1>2. /\ lines' = lines \/ (lines < MaxLines /\ lines' = lines + 1)
      /\ faults' = faults \/ (faults < MaxFaults /\ faults' = faults + 1)
  <2>1. CASE \E p \in Helpers : Work(p)
    BY <1>1, <2>1 DEF Fault
  <2>2. CASE \E p \in Helpers : GitCloses(p)
    BY <2>2 DEF GitCloses
  <2>3. CASE \E p \in Helpers, l \in Lines : GitSends(p, l)
    BY <2>3 DEF GitSends
  <2> QED BY <2>1, <2>2, <2>3 DEF Next
<1>3. lines' \in Nat /\ lines' <= MaxLines
  BY <1>0, <1>2
<1>4. faults' \in Nat /\ faults' <= MaxFaults
  BY <1>0, <1>2
<1> QED BY <1>0, <1>3, <1>4

LEMMA BatchStep ==
  ASSUME BatchInv, Next
  PROVE  BatchInv'
<1>1. PICK p \in Helpers : Heeds(p)
  BY EveryHeeds
<1>2. PICK x, b, s : /\ Becomes(p, x, b) /\ hist' = [hist EXCEPT ![p] = s] /\ s \in Seq(Lines)
                     /\ Follows(x, b, s)
  BY <1>1 DEF Heeds
<1>3. AnswerInv' /\ Types /\ hist \in [Helpers -> Seq(Lines)]
  BY AnswerStep DEF BatchInv, AnswerInv
<1>4. hist' \in [Helpers -> Seq(Lines)]
  BY <1>2, <1>3
<1>5. ASSUME NEW q \in Helpers PROVE Follows(h'[q], ran'[q], hist'[q])
  <2>1. CASE q = p
    <3>1. h'[p] = x /\ ran'[p] = b /\ hist'[p] = s
      BY <1>2, <1>3, Moves
    <3> QED BY <1>2, <2>1, <3>1
  <2>2. CASE q # p
    <3>1. h'[q] = h[q] /\ ran'[q] = ran[q] /\ hist'[q] = hist[q]
      BY <1>2, <1>3, <2>2, Moves
    <3>2. Follows(h[q], ran[q], hist[q])
      BY DEF BatchInv
    <3> QED BY <3>1, <3>2
  <2> QED BY <2>1, <2>2
<1> QED BY <1>3, <1>4, <1>5, Bounded DEF BatchInv, Follows, Told

LEMMA BatchInit ==
  ASSUME Init
  PROVE  BatchInv
<1>1. Fresh.at = "start" /\ Fresh.cmds = <<>> /\ Fresh.depth = 0 /\ Fresh.outs = <<>>
  BY DEF Fresh
<1>2. Follows(Fresh, NoBatch, <<>>)
  BY <1>1 DEF Follows
<1>3. \A p \in Helpers : Follows(h[p], ran[p], hist[p])
  BY <1>2 DEF Init
<1>4. lines \in 0..MaxLines /\ faults \in 0..MaxFaults
  BY SessionAssumption DEF Init
<1>5. <<>> \in Seq(Lines)
  OBVIOUS
<1>6. hist \in [Helpers -> Seq(Lines)]
  BY <1>5 DEF Init
<1> QED BY <1>3, <1>4, <1>6, AnswerInit DEF BatchInv

LEMMA BatchStutter ==
  ASSUME BatchInv, UNCHANGED vars
  PROVE  BatchInv'
<1>1. AnswerInv'
  BY AnswerStutter DEF BatchInv
<1>2. h' = h /\ ran' = ran /\ hist' = hist /\ lines' = lines /\ faults' = faults
  BY DEF vars, ghosts
<1> QED BY <1>1, <1>2 DEF BatchInv, Follows, Told

\* The commands that a helper holds are of one mode.
LEMMA OneMode ==
  ASSUME BatchInv, NEW p \in Helpers
  PROVE  \A i \in DOMAIN h[p].cmds : h[p].cmds[i] \in Batching /\ h[p].cmds[i].c = Mode(p)
<1>0. Knows(p) /\ h[p].cmds \in Seq(Batching) /\ h[p].at \in Places
  BY Knowing DEF Knows, Acts, HelperType
<1> SUFFICES ASSUME NEW i \in DOMAIN h[p].cmds
             PROVE  h[p].cmds[i].c = h[p].cmds[1].c /\ h[p].cmds # <<>>
  BY <1>0 DEF Mode
<1>1. h[p].cmds # <<>>
  OBVIOUS
<1>2. ASSUME NEW n \in Nat, Picks(h[p].cmds, hist[p], Asked(hist[p], n))
      PROVE  h[p].cmds[i].c = h[p].cmds[1].c
  BY <1>0, <1>2, PicksMode
<1>3. \E n \in Nat : Picks(h[p].cmds, hist[p], Asked(hist[p], n))
  <2>1. hist[p] \in Seq(Lines) /\ Len(hist[p]) \in Nat
    BY <1>0 DEF Knows
  <2>2. CASE h[p].at = "read" \/ (h[p].at = "handle" /\ ~Recorded(h[p].line))
    BY <1>0, <2>1, <2>2 DEF Knows, Follows, Told
  <2>3. CASE (h[p].at = "handle" /\ Recorded(h[p].line)) \/ h[p].at \in {"push", "fetch"}
    <3>1. Len(hist[p]) > 0 /\ Picks(h[p].cmds, hist[p], Asked(hist[p], Len(hist[p]) - 1))
      BY <1>0, <2>3 DEF Knows, Follows, Told
    <3>2. Len(hist[p]) - 1 \in Nat
      BY <2>1, <3>1
    <3> QED BY <3>1, <3>2
  <2>4. h[p].at \in {"read", "handle", "push", "fetch"}
    BY <1>0, <1>1 DEF Knows, Follows, Places
  <2> QED BY <2>2, <2>3, <2>4
<1> QED BY <1>1, <1>2, <1>3

LEMMA BatchTypes ==
  ASSUME BatchInv
  PROVE  TypeOK
<1>1. ASSUME NEW p \in Helpers
      PROVE  /\ h[p].at \in Places
             /\ h[p].url \in Engines \cup {None} /\ h[p].engine \in Engines \cup {None}
             /\ h[p].line \in Lines /\ h[p].depth \in Depths \cup {0}
             /\ h[p].at = "read" => h[p].outs = <<>>
             /\ h[p].at \in {"read", "handle", "push", "fetch"} => h[p].engine # None
  <2>1. Knows(p)
    BY Knowing
  <2>2. Follows(h[p], ran[p], hist[p]) /\ h[p] \in HelperType /\ Dutiful(h[p], ran[p])
    BY <2>1 DEF Knows, Acts
  <2>3. h[p].at = "read" => h[p].outs = <<>>
    BY <2>2 DEF Follows
  <2>4. h[p].at \in {"read", "handle", "push", "fetch"} => h[p].engine # None
    BY <2>2 DEF Dutiful
  <2> QED BY <2>2, <2>3, <2>4 DEF HelperType
<1>2. BucketTypes /\ lines \in 0..MaxLines /\ faults \in 0..MaxFaults
  BY DEF BatchInv, AnswerInv, Types
<1> QED BY <1>1, <1>2, OneMode DEF TypeOK, BucketTypes

LEMMA BatchOf ==
  ASSUME BatchInv
  PROVE  RunsWhatIsAsked
<1>1. ASSUME NEW p \in Helpers, h[p].at \in {"push", "fetch"}
      PROVE  /\ Picks(ran[p].cmds, hist[p], Asked(hist[p], Len(hist[p]) - 1))
             /\ h[p].at = "fetch" => ran[p].depth = AskedDepth(hist[p], Len(hist[p]) - 1)
  BY <1>1 DEF BatchInv, Follows
<1> QED BY <1>1, BatchTypes DEF RunsWhatIsAsked

\* A batch that runs holds the commands that git asked for, each once and in
\* order: none of a batch that was abandoned for the other mode, none of an
\* earlier batch; and a fetch takes the depth that git has given since the
\* last one (BatchState::accumulate, take_pending and flush_batch).
THEOREM BatchesAreAsked == Spec => []RunsWhatIsAsked
<1>1. Init => BatchInv
  BY BatchInit
<1>2. BatchInv /\ [Next]_vars => BatchInv'
  BY BatchStep, BatchStutter
<1>3. BatchInv => RunsWhatIsAsked
  BY BatchOf
<1> QED BY <1>1, <1>2, <1>3, PTL DEF Spec


-----------------------------------------------------------------------------
(* The segments of a path.                                                 *)

Kept(s) == IF s = <<>> THEN <<>> ELSE <<s>>

Unempty(f, path, n) == f = [i \in 0..n |-> IF i = 0 THEN <<>> ELSE f[i - 1] \o Kept(path[i])]

LEMMA UnemptyNext ==
  ASSUME NEW path, NEW n \in Nat, NEW f, Unempty(f, path, n)
  PROVE  \E g : Unempty(g, path, n + 1)
<1> DEFINE top == f[n] \o Kept(path[n + 1])
           g   == [i \in 0..(n + 1) |-> IF i = n + 1 THEN top ELSE f[i]]
<1>1. \A i \in 0..(n + 1) : i = n + 1 \/ (i \in 0..n /\ i # n + 1)
  OBVIOUS
<1>2. \A i \in 0..n : i = 0 \/ (i > 0 /\ i # 0 /\ i - 1 \in 0..n /\ i - 1 \in 0..(n + 1) /\ i - 1 # n + 1)
  OBVIOUS
<1>3. n + 1 > 0 /\ n + 1 # 0 /\ (n + 1) - 1 = n /\ n \in 0..(n + 1) /\ n # n + 1 /\ n \in 0..n
  OBVIOUS
<1>4. \A i \in 0..n : f[i] = IF i = 0 THEN <<>> ELSE f[i - 1] \o Kept(path[i])
  BY DEF Unempty
<1>5. ASSUME NEW i \in 0..(n + 1)
      PROVE  g[i] = IF i = 0 THEN <<>> ELSE g[i - 1] \o Kept(path[i])
  <2>1. CASE i = n + 1
    BY <1>3, <2>1
  <2>2. CASE i \in 0..n /\ i # n + 1
    <3>1. g[i] = f[i]
      BY <2>2
    <3>2. i > 0 => g[i - 1] = f[i - 1]
      BY <1>2, <2>2
    <3> QED BY <1>2, <1>4, <2>2, <3>1, <3>2
  <2> QED BY <1>1, <2>1, <2>2
<1>6. g = [i \in 0..(n + 1) |-> IF i = 0 THEN <<>> ELSE g[i - 1] \o Kept(path[i])]
  <2> DEFINE G == [i \in 0..(n + 1) |-> IF i = 0 THEN <<>> ELSE g[i - 1] \o Kept(path[i])]
  <2>1. \A i \in 0..(n + 1) : g[i] = G[i]
    BY <1>5
  <2> QED BY <2>1
<1> QED BY <1>6 DEF Unempty

LEMMA UnemptyAll ==
  ASSUME NEW path, NEW n \in Nat
  PROVE  \E f : Unempty(f, path, n)
<1> DEFINE D == {k \in Nat : ~\E f : Unempty(f, path, k)}
<1> SUFFICES ASSUME D # {} PROVE FALSE
  OBVIOUS
<1>1. PICK k \in D : \A j \in D : k <= j
  <2>1. D \subseteq Nat
    OBVIOUS
  <2> HIDE DEF D
  <2> QED BY <2>1, Smallest
<1>2. CASE k = 0
  <2> DEFINE f == [i \in 0..0 |-> <<>>]
  <2>1. f = [i \in 0..0 |-> IF i = 0 THEN <<>> ELSE f[i - 1] \o Kept(path[i])]
    OBVIOUS
  <2>2. Unempty(f, path, 0)
    BY <2>1 DEF Unempty
  <2> QED BY <1>1, <1>2, <2>2
<1>3. CASE k # 0
  <2>1. k - 1 \in Nat /\ ~(k <= k - 1) /\ (k - 1) + 1 = k
    BY <1>1, <1>3
  <2>2. \E f : Unempty(f, path, k - 1)
    BY <1>1, <2>1
  <2> QED BY <1>1, <2>1, <2>2, UnemptyNext
<1> QED BY <1>2, <1>3

LEMMA KeptSeq ==
  ASSUME NEW S, NEW s \in S
  PROVE  Kept(s) \in Seq(S \ {<<>>})
<1> PICK T : T = S \ {<<>>}
  OBVIOUS
<1>1. CASE s = <<>>
  <2>1. <<>> \in Seq(T)
    OBVIOUS
  <2> QED BY <1>1, <2>1 DEF Kept
<1>2. CASE s # <<>>
  <2>1. s \in T
    BY <1>2
  <2>2. <<s>> \in Seq(T)
    BY <2>1
  <2>3. Kept(s) = <<s>>
    BY <1>2 DEF Kept
  <2> QED BY <2>2, <2>3
<1> QED BY <1>1, <1>2

LEMMA SegmentsOf ==
  ASSUME NEW S, NEW path \in Seq(S)
  PROVE  path_segments(path) \in Seq(S \ {<<>>})
<1> PICK n \in Nat : n = Len(path)
  OBVIOUS
<1>1. PICK f : Unempty(f, path, n) /\ path_segments(path) = f[n]
  <2>1. path_segments(path) = (CHOOSE f : Unempty(f, path, n))[n]
    BY DEF path_segments, Unempty, Kept
  <2> QED BY <2>1, UnemptyAll
<1> DEFINE D == {k \in 0..n : f[k] \notin Seq(S \ {<<>>})}
<1> SUFFICES ASSUME D # {} PROVE FALSE
  BY <1>1
<1>2. PICK k \in D : \A j \in D : k <= j
  <2>1. D \subseteq Nat
    OBVIOUS
  <2> HIDE DEF D
  <2> QED BY <2>1, Smallest
<1>3. f[k] = IF k = 0 THEN <<>> ELSE f[k - 1] \o Kept(path[k])
  BY <1>1, <1>2 DEF Unempty
<1>4. CASE k = 0
  <2>1. <<>> \in Seq(S \ {<<>>})
    OBVIOUS
  <2> QED BY <1>2, <1>3, <1>4, <2>1
<1>5. CASE k # 0
  <2>1. k - 1 \in 0..n /\ ~(k <= k - 1) /\ k > 0 /\ k \in 1..n
    BY <1>2, <1>5
  <2>2. f[k - 1] \in Seq(S \ {<<>>})
    BY <1>2, <2>1
  <2>3. path[k] \in S
    BY <2>1
  <2>4. Kept(path[k]) \in Seq(S \ {<<>>})
    BY <2>3, KeptSeq
  <2>5. f[k - 1] \o Kept(path[k]) \in Seq(S \ {<<>>})
    BY <2>2, <2>4
  <2> QED BY <1>2, <1>3, <1>5, <2>5
<1> QED BY <1>4, <1>5

\* A path without an empty segment is left as it is.
LEMMA SegmentsSame ==
  ASSUME NEW S, <<>> \notin S, NEW path \in Seq(S)
  PROVE  path_segments(path) = path
<1> PICK n \in Nat : n = Len(path)
  OBVIOUS
<1>1. PICK f : Unempty(f, path, n) /\ path_segments(path) = f[n]
  <2>1. path_segments(path) = (CHOOSE f : Unempty(f, path, n))[n]
    BY DEF path_segments, Unempty, Kept
  <2> QED BY <2>1, UnemptyAll
<1> DEFINE D == {k \in 0..n : f[k] # SubSeq(path, 1, k)}
<1>2. SubSeq(path, 1, n) = path
  OBVIOUS
<1> SUFFICES ASSUME D # {} PROVE FALSE
  BY <1>1, <1>2
<1>3. PICK k \in D : \A j \in D : k <= j
  <2>1. D \subseteq Nat
    OBVIOUS
  <2> HIDE DEF D
  <2> QED BY <2>1, Smallest
<1>4. f[k] = IF k = 0 THEN <<>> ELSE f[k - 1] \o Kept(path[k])
  BY <1>1, <1>3 DEF Unempty
<1>5. CASE k = 0
  <2>1. SubSeq(path, 1, 0) = <<>>
    OBVIOUS
  <2> QED BY <1>3, <1>4, <1>5, <2>1
<1>6. CASE k # 0
  <2>1. k - 1 \in 0..n /\ ~(k <= k - 1) /\ k > 0 /\ k \in 1..n
    BY <1>3, <1>6
  <2>2. f[k - 1] = SubSeq(path, 1, k - 1)
    BY <1>3, <2>1
  <2>3. path[k] \in S /\ Kept(path[k]) = <<path[k]>>
    BY <2>1 DEF Kept
  <2>4. SubSeq(path, 1, k - 1) \o <<path[k]>> = SubSeq(path, 1, k)
    BY <2>1
  <2> QED BY <1>3, <1>4, <1>6, <2>2, <2>3, <2>4
<1> QED BY <1>5, <1>6


-----------------------------------------------------------------------------
(* What a URL is parsed to.                                                *)

Endpoint(u) == [scheme |-> u.scheme, host |-> u.host, path |-> u.path, query |-> u.query]

Accepted(u) ==
  /\ u.kind \in {"S3", "Azure"} /\ u.host # <<>>
  /\ \A i \in DOMAIN u.query : FlagOk(u.query[i])
  /\ Applicable(u.kind, extract_flags(u.query))

LEMMA Parsed ==
  ASSUME NEW u
  PROVE  /\ ~Accepted(u) => parse(u, TRUE) = Refused
         /\ Accepted(u) /\ u.kind = "S3" =>
              parse(u, TRUE) = finish_s3(Endpoint(u), path_segments(u.path), extract_flags(u.query))
         /\ Accepted(u) /\ u.kind = "Azure" =>
              parse(u, TRUE) = finish_azure(Endpoint(u), path_segments(u.path), extract_flags(u.query))
BY DEF parse, Accepted, Endpoint

\* A sequence is its first part and the rest.
LEMMA Cut ==
  ASSUME NEW S, NEW s \in Seq(S), NEW k \in 0..Len(s)
  PROVE  /\ SubSeq(s, 1, k) \o SubSeq(s, k + 1, Len(s)) = s
         /\ Len(SubSeq(s, 1, k)) = k /\ Len(SubSeq(s, k + 1, Len(s))) = Len(s) - k
         /\ \A i \in 1..k : SubSeq(s, 1, k)[i] = s[i]
         /\ \A i \in 1..(Len(s) - k) : SubSeq(s, k + 1, Len(s))[i] = s[k + i]
<1> PICK n \in Nat : n = Len(s)
  OBVIOUS
<1>1. \A i \in 1..n : s[i] \in S
  OBVIOUS
<1>2. Len(SubSeq(s, 1, k)) = k /\ \A i \in 1..k : SubSeq(s, 1, k)[i] = s[i]
  <2>1. \A i \in 1..k : s[i] \in S
    BY <1>1
  <2>2. 1 \in Int /\ k \in Int /\ (IF 1 <= k THEN k - 1 + 1 ELSE 0) = k /\ k - 1 + 1 = k
    OBVIOUS
  <2>3. /\ Len(SubSeq(s, 1, k)) = IF 1 <= k THEN k - 1 + 1 ELSE 0
        /\ \A i \in 1..(k - 1 + 1) : SubSeq(s, 1, k)[i] = s[1 + i - 1]
    BY <2>1, <2>2, SubSeqProperties
  <2>4. \A i \in 1..k : 1 + i - 1 = i
    OBVIOUS
  <2> QED BY <2>2, <2>3, <2>4
<1>3. Len(SubSeq(s, k + 1, n)) = n - k /\ \A i \in 1..(n - k) : SubSeq(s, k + 1, n)[i] = s[k + i]
  <2>1. \A i \in (k + 1)..n : s[i] \in S
    BY <1>1
  <2>2. /\ k + 1 \in Int /\ n \in Int /\ n - (k + 1) + 1 = n - k
        /\ (IF k + 1 <= n THEN n - (k + 1) + 1 ELSE 0) = n - k
    OBVIOUS
  <2>3. /\ Len(SubSeq(s, k + 1, n)) = IF k + 1 <= n THEN n - (k + 1) + 1 ELSE 0
        /\ \A i \in 1..(n - (k + 1) + 1) : SubSeq(s, k + 1, n)[i] = s[(k + 1) + i - 1]
    BY <2>1, <2>2, SubSeqProperties
  <2>4. \A i \in 1..(n - k) : (k + 1) + i - 1 = k + i
    OBVIOUS
  <2> QED BY <2>2, <2>3, <2>4
<1>4. SubSeq(s, 1, k) \o SubSeq(s, k + 1, Len(s)) = s
  <2>1. 1 \in 1..(Len(s) + 1) /\ k \in (1 - 1)..Len(s) /\ Len(s) \in k..Len(s)
    OBVIOUS
  <2>2. SubSeq(s, 1, k) \o SubSeq(s, k + 1, Len(s)) = SubSeq(s, 1, Len(s))
    BY <2>1, ConcatAdjacentSubSeq
  <2> QED BY <2>2, SubSeqFull
<1> QED BY <1>2, <1>3, <1>4

LEMMA NotEmpty ==
  ASSUME NEW s, Len(s) = 1
  PROVE  s # <<>>
<1>1. Len(<<>>) = 0
  OBVIOUS
<1> QED BY <1>1

\* What finish_s3 makes of an endpoint, and finish_azure.
S3Parts(r, e, segs) ==
  /\ r.kind = "S3" /\ r.endpoint = [e EXCEPT !.path = segs] /\ is_valid_bucket(r.bucket)
  /\ \/ /\ r.addressing = "virtual" /\ r.prefix = segs
        /\ Infixes(e.host) # {} => r.bucket = SubSeq(e.host, 1, Max(Infixes(e.host)) - 1)
        /\ Infixes(e.host) = {} => r.bucket = SubSeq(e.host, 1, 1)
     \/ r.addressing = "path" /\ segs = <<r.bucket>> \o r.prefix

AzureParts(r, e, segs) ==
  /\ r.kind = "Azure" /\ r.endpoint = [e EXCEPT !.path = segs]
  /\ r.addressing = "virtual" => segs = <<r.container>> \o r.prefix
  /\ r.addressing # "virtual" => segs = <<r.account, r.container>> \o r.prefix
  /\ is_valid_account(r.account) /\ is_valid_container(r.container)

\* The infixes of a host.
LEMMA InfixPlaces ==
  ASSUME NEW S, NEW host \in Seq(S), Infixes(host) # {}
  PROVE  /\ Max(Infixes(host)) \in Infixes(host) /\ Max(Infixes(host)) \in 2..Len(host)
         /\ \A i \in Infixes(host) : i <= Max(Infixes(host))
<1> PICK n \in Nat : n = Len(host)
  OBVIOUS
<1>1. Infixes(host) \subseteq 2..n
  BY DEF Infixes
<1>2. Infixes(host) \subseteq 1..n
  BY <1>1
<1>3. Max(Infixes(host)) \in Infixes(host)
  BY <1>2, Greatest
<1>4. \A i \in Infixes(host) : Max(Infixes(host)) >= i
  BY <1>2, Greatest
<1> QED BY <1>1, <1>3, <1>4

LEMMA AwsBucket ==
  ASSUME NEW S, NEW host \in Seq(S)
  PROVE  s3_virtual_hosted_bucket(host) # <<>> <=> Infixes(host) # {}
<1>1. CASE Infixes(host) = {}
  BY <1>1 DEF s3_virtual_hosted_bucket
<1>2. CASE Infixes(host) # {}
  <2> PICK m \in 2..Len(host) : m = Max(Infixes(host))
    BY <1>2, InfixPlaces
  <2>1. s3_virtual_hosted_bucket(host) = SubSeq(host, 1, m - 1)
    BY <1>2 DEF s3_virtual_hosted_bucket
  <2>2. m - 1 \in 1..Len(host)
    OBVIOUS
  <2>3. Len(SubSeq(host, 1, m - 1)) = m - 1
    BY <2>2
  <2>4. Len(<<>>) = 0 /\ m - 1 # 0
    OBVIOUS
  <2> QED BY <1>2, <2>1, <2>3, <2>4
<1> QED BY <1>1, <1>2

LEMMA S3Finished ==
  ASSUME NEW S, NEW e, e.host \in Seq(S), NEW P, NEW segs \in Seq(P), NEW flags,
         NEW r, r = finish_s3(e, segs, flags), r # Refused
  PROVE  S3Parts(r, e, segs) /\ r.flags = flags /\ r.prefix \in Seq(P)
<1> DEFINE c == resolve_s3_components(e.host, segs, flags.addressing)
           aws == s3_virtual_hosted_bucket(e.host)
           virtual == flags.addressing = "virtual" \/ (flags.addressing = None /\ aws # <<>>)
<1>1. /\ is_valid_bucket(c.bucket)
      /\ r = [kind |-> "S3", endpoint |-> [e EXCEPT !.path = S3Canonical(c)],
              bucket |-> c.bucket, prefix |-> c.prefix, addressing |-> c.addressing, flags |-> flags]
  BY DEF finish_s3
<1>2. CASE virtual
  <2>1. c = [addressing |-> "virtual", prefix |-> segs, bucket |-> IF aws # <<>> THEN aws ELSE leftmost_label(e.host)]
    BY <1>2 DEF resolve_s3_components
  <2>2. S3Canonical(c) = segs
    BY <2>1 DEF S3Canonical
  <2>3. c.bucket = IF Infixes(e.host) # {} THEN SubSeq(e.host, 1, Max(Infixes(e.host)) - 1)
                   ELSE SubSeq(e.host, 1, 1)
    <3>1. c.bucket = IF aws # <<>> THEN aws ELSE leftmost_label(e.host)
      BY <2>1
    <3>2. aws # <<>> <=> Infixes(e.host) # {}
      BY AwsBucket
    <3> HIDE DEF c
    <3> QED BY <3>1, <3>2 DEF s3_virtual_hosted_bucket, leftmost_label
  <2>4. c.prefix = segs /\ c.addressing = "virtual"
    BY <2>1
  <2> HIDE DEF c, aws
  <2>5. /\ r.kind = "S3" /\ r.endpoint = [e EXCEPT !.path = segs] /\ is_valid_bucket(r.bucket)
        /\ r.bucket = c.bucket /\ r.prefix = segs /\ r.addressing = "virtual" /\ r.flags = flags
    BY <1>1, <2>2, <2>4
  <2>6. S3Parts(r, e, segs)
    BY <2>3, <2>5 DEF S3Parts
  <2> QED BY <2>5, <2>6
<1>3. CASE ~virtual /\ segs = <<>>
  <2>1. c = [addressing |-> "path", prefix |-> <<>>, bucket |-> <<>>]
    BY <1>3 DEF resolve_s3_components
  <2>2. ~is_valid_bucket(c.bucket)
    BY <2>1 DEF is_valid_bucket
  <2> QED BY <1>1, <2>2
<1>4. CASE ~virtual /\ segs # <<>>
  <2>1. c = [addressing |-> "path", prefix |-> Tail(segs), bucket |-> Head(segs)]
    BY <1>4 DEF resolve_s3_components
  <2>2. <<Head(segs)>> \o Tail(segs) = segs /\ Tail(segs) \in Seq(P)
    BY <1>4
  <2>3. S3Canonical(c) = segs
    <3>1. S3Canonical(c) = <<c.bucket>> \o c.prefix
      BY <2>1 DEF S3Canonical
    <3>2. c.bucket = Head(segs) /\ c.prefix = Tail(segs)
      BY <2>1
    <3> HIDE DEF c
    <3> QED BY <2>2, <3>1, <3>2
  <2>4. c.prefix = Tail(segs) /\ c.addressing = "path" /\ c.bucket = Head(segs)
    BY <2>1
  <2> HIDE DEF c
  <2> QED BY <1>1, <2>2, <2>3, <2>4 DEF S3Parts
<1> QED BY <1>2, <1>3, <1>4


LEMMA OneAndOne ==
  ASSUME NEW a, NEW b
  PROVE  <<a>> \o <<b>> = <<a, b>>
<1> PICK T : T = {a, b}
  OBVIOUS
<1>1. <<a>> \in Seq(T) /\ <<b>> \in Seq(T) /\ <<a, b>> \in Seq(T)
  OBVIOUS
<1>2. Len(<<a>>) = 1 /\ Len(<<b>>) = 1 /\ Len(<<a, b>>) = 2
  OBVIOUS
<1>3. /\ <<a>> \o <<b>> \in Seq(T) /\ Len(<<a>> \o <<b>>) = Len(<<a>>) + Len(<<b>>)
      /\ \A i \in 1..(Len(<<a>>) + Len(<<b>>)) :
           (<<a>> \o <<b>>)[i] = IF i <= Len(<<a>>) THEN <<a>>[i] ELSE <<b>>[i - Len(<<a>>)]
  BY <1>1, ConcatProperties
<1>4. (<<a>> \o <<b>>)[1] = a /\ (<<a>> \o <<b>>)[2] = b
  BY <1>2, <1>3
<1>5. <<a, b>>[1] = a /\ <<a, b>>[2] = b
  OBVIOUS
<1>6. \A i \in 1..2 : i = 1 \/ i = 2
  OBVIOUS
<1>7. Len(<<a>> \o <<b>>) = 2 /\ \A i \in 1..2 : (<<a>> \o <<b>>)[i] = <<a, b>>[i]
  BY <1>2, <1>3, <1>4, <1>5, <1>6
<1> QED BY <1>1, <1>2, <1>3, <1>7, SeqEqual

\* The names that come first and the rest.
LEMMA FirstAndRest ==
  ASSUME NEW S, NEW s \in Seq(S)
  PROVE  /\ Len(s) >= 1 => <<s[1]>> \o SubSeq(s, 2, Len(s)) = s
         /\ Len(s) >= 2 => <<s[1], s[2]>> \o SubSeq(s, 3, Len(s)) = s
         /\ SubSeq(s, 2, Len(s)) \in Seq(S) /\ SubSeq(s, 3, Len(s)) \in Seq(S)
<1> PICK n \in Nat : n = Len(s)
  OBVIOUS
<1>0. \A i \in 1..n : s[i] \in S
  OBVIOUS
<1>1. SubSeq(s, 2, n) \in Seq(S) /\ SubSeq(s, 3, n) \in Seq(S)
  <2>1. (\A i \in 2..n : s[i] \in S) /\ (\A i \in 3..n : s[i] \in S)
    BY <1>0
  <2> QED BY <2>1, SubSeqProperties
<1>2. ASSUME n >= 1 PROVE <<s[1]>> \o SubSeq(s, 2, n) = s
  <2>1. 1 \in 1..n /\ n \in 1..n
    BY <1>2
  <2>2. SubSeq(s, 1, n) = <<s[1]>> \o SubSeq(s, 1 + 1, n)
    BY <2>1, SubSeqRecursiveFirst
  <2> QED BY <2>2, SubSeqFull
<1>3. ASSUME n >= 2 PROVE <<s[1], s[2]>> \o SubSeq(s, 3, n) = s
  <2>1. 2 \in 1..n /\ n \in 2..n /\ 1 \in 1..n
    BY <1>3
  <2>2. SubSeq(s, 2, n) = <<s[2]>> \o SubSeq(s, 2 + 1, n)
    BY <2>1, SubSeqRecursiveFirst
  <2>3. <<s[1]>> \o SubSeq(s, 2, n) = s
    BY <1>2, <1>3
  <2>4. <<s[1]>> \in Seq(S) /\ <<s[2]>> \in Seq(S)
    BY <1>0, <2>1
  <2>5. <<s[1]>> \o (<<s[2]>> \o SubSeq(s, 3, n)) = (<<s[1]>> \o <<s[2]>>) \o SubSeq(s, 3, n)
    BY <1>1, <2>4, ConcatAssociative
  <2>6. <<s[1]>> \o <<s[2]>> = <<s[1], s[2]>>
    BY OneAndOne
  <2> QED BY <2>2, <2>3, <2>5, <2>6
<1> QED BY <1>1, <1>2, <1>3

\* How a remote of Azure is addressed.
Styled(r, e, flags) ==
  r.addressing = IF flags.addressing # None THEN flags.addressing ELSE detect_azure_addressing(e.host)

LEMMA AzureFinished ==
  ASSUME NEW e, NEW P, NEW segs \in Seq(P), NEW flags,
         NEW r, r = finish_azure(e, segs, flags), r # Refused
  PROVE  AzureParts(r, e, segs) /\ r.flags = flags /\ r.prefix \in Seq(P) /\ Styled(r, e, flags)
<1> DEFINE ad == IF flags.addressing # None THEN flags.addressing ELSE detect_azure_addressing(e.host)
           c  == resolve_azure_components(ad, e.host, segs)
           canonical == IF ad = "virtual" THEN <<c.container>> \o c.prefix
                        ELSE <<c.account, c.container>> \o c.prefix
<1>1. /\ is_valid_account(c.account) /\ is_valid_container(c.container)
      /\ r = [kind |-> "Azure", endpoint |-> [e EXCEPT !.path = canonical], account |-> c.account,
              container |-> c.container, prefix |-> c.prefix, addressing |-> ad, flags |-> flags]
  BY DEF finish_azure
<1>2. c.account # <<>> /\ c.container # <<>>
  <2> HIDE DEF c
  <2>1. Len(c.account) = 1 /\ Len(c.container) = 1
    BY <1>1 DEF is_valid_account, is_valid_container
  <2> QED BY <2>1, NotEmpty
<1>3. CASE ad = "virtual"
  <2> PICK x : x = leftmost_label(e.host)
    OBVIOUS
  <2> PICK Q : Q = P \cup {x}
    OBVIOUS
  <2> DEFINE names == <<x>> \o segs
  <2>1. <<x>> \in Seq(Q) /\ segs \in Seq(Q) /\ Len(<<x>>) = 1
    OBVIOUS
  <2>2. /\ names \in Seq(Q) /\ Len(names) = 1 + Len(segs)
        /\ \A i \in 1..(1 + Len(segs)) : names[i] = IF i <= 1 THEN <<x>>[i] ELSE segs[i - 1]
    BY <2>1, ConcatProperties
  <2>3. /\ c.container = IF 2 <= Len(names) THEN names[2] ELSE <<>>
        /\ c.prefix = SubSeq(names, 3, Len(names))
    BY <1>3 DEF resolve_azure_components
  <2> HIDE DEF names, c
  <2>4. 2 <= Len(names) /\ c.container = names[2]
    BY <1>2, <2>3
  <2>5. Len(segs) >= 1 /\ names[2] = segs[1]
    BY <2>2, <2>4
  <2>6. SubSeq(names, 3, Len(names)) = SubSeq(segs, 2, Len(segs))
    <3>1. 3 \in Int /\ Len(names) \in Int /\ 2 \in Int /\ Len(segs) \in Int
      BY <2>2
    <3>2. \A i \in 3..Len(names) : names[i] \in Q
      BY <2>2
    <3>3. \A i \in 2..Len(segs) : segs[i] \in Q
      BY <2>1
    <3>4. /\ SubSeq(names, 3, Len(names)) \in Seq(Q)
          /\ Len(SubSeq(names, 3, Len(names))) = IF 3 <= Len(names) THEN Len(names) - 3 + 1 ELSE 0
          /\ \A i \in 1..(Len(names) - 3 + 1) : SubSeq(names, 3, Len(names))[i] = names[3 + i - 1]
      BY <3>1, <3>2, SubSeqProperties
    <3>5. /\ SubSeq(segs, 2, Len(segs)) \in Seq(Q)
          /\ Len(SubSeq(segs, 2, Len(segs))) = IF 2 <= Len(segs) THEN Len(segs) - 2 + 1 ELSE 0
          /\ \A i \in 1..(Len(segs) - 2 + 1) : SubSeq(segs, 2, Len(segs))[i] = segs[2 + i - 1]
      BY <3>1, <3>3, SubSeqProperties
    <3> PICK n \in Nat : n = Len(segs)
      OBVIOUS
    <3>6. Len(names) = n + 1 /\ n >= 1
      BY <2>2, <2>5
    <3>7. /\ Len(SubSeq(names, 3, Len(names))) = n - 1 /\ Len(SubSeq(segs, 2, Len(segs))) = n - 1
          /\ Len(names) - 3 + 1 = n - 1 /\ Len(segs) - 2 + 1 = n - 1
      BY <3>4, <3>5, <3>6
    <3>8. ASSUME NEW i \in 1..(n - 1) PROVE SubSeq(names, 3, Len(names))[i] = SubSeq(segs, 2, Len(segs))[i]
      <4>1. 3 + i - 1 = i + 2 /\ 2 + i - 1 = i + 1 /\ i + 2 \in 1..(1 + n) /\ ~(i + 2 <= 1) /\ (i + 2) - 1 = i + 1
        OBVIOUS
      <4>2. SubSeq(names, 3, Len(names))[i] = names[i + 2] /\ SubSeq(segs, 2, Len(segs))[i] = segs[i + 1]
        BY <3>4, <3>5, <3>7, <4>1
      <4>3. names[i + 2] = segs[i + 1]
        BY <2>2, <4>1
      <4> QED BY <4>2, <4>3
    <3> QED BY <3>4, <3>5, <3>7, <3>8, SeqEqual
  <2>a. <<segs[1]>> \o SubSeq(segs, 2, Len(segs)) = segs /\ SubSeq(segs, 2, Len(segs)) \in Seq(P)
    BY <2>5, FirstAndRest
  <2>b. c.container = segs[1] /\ c.prefix = SubSeq(segs, 2, Len(segs))
    BY <2>3, <2>4, <2>5, <2>6
  <2>7. <<c.container>> \o c.prefix = segs /\ c.prefix \in Seq(P)
    BY <2>a, <2>b
  <2> HIDE DEF ad
  <2>8. /\ r.kind = "Azure" /\ r.endpoint = [e EXCEPT !.path = segs] /\ r.container = c.container
        /\ r.account = c.account /\ r.prefix = c.prefix /\ r.addressing = ad /\ r.flags = flags
    BY <1>1, <1>3, <2>7
  <2> QED BY <1>1, <1>3, <2>7, <2>8 DEF AzureParts, Styled, ad
<1>4. CASE ad # "virtual"
  <2>1. /\ c.account = IF 1 <= Len(segs) THEN segs[1] ELSE <<>>
        /\ c.container = IF 2 <= Len(segs) THEN segs[2] ELSE <<>>
        /\ c.prefix = SubSeq(segs, 3, Len(segs))
    BY <1>4 DEF resolve_azure_components
  <2> HIDE DEF c, ad
  <2>2. Len(segs) >= 2 /\ c.account = segs[1] /\ c.container = segs[2]
    BY <1>2, <2>1
  <2>3. <<c.account, c.container>> \o c.prefix = segs /\ c.prefix \in Seq(P)
    BY <2>1, <2>2, FirstAndRest
  <2>4. /\ r.kind = "Azure" /\ r.endpoint = [e EXCEPT !.path = segs] /\ r.container = c.container
        /\ r.account = c.account /\ r.prefix = c.prefix /\ r.addressing = ad /\ r.flags = flags
    <3>1. canonical = segs
      BY <1>4, <2>3
    <3> HIDE DEF canonical
    <3> QED BY <1>1, <3>1
  <2> QED BY <1>1, <1>4, <2>3, <2>4 DEF AzureParts, Styled, ad
<1> QED BY <1>3, <1>4

\* What is known of a remote: the URL that it comes from, and its parts.
Segments(u) == path_segments(u.path)

Comes(r, u) ==
  /\ Accepted(u) /\ r # Refused /\ u.host \in Seq(ToSet(u.host)) /\ u.host # <<>>
  /\ Segments(u) \in Seq(ToSet(u.path) \ {<<>>})
  /\ r.flags = extract_flags(u.query) /\ r.prefix \in Seq(ToSet(u.path) \ {<<>>})
  /\ \/ /\ u.kind = "S3" /\ S3Parts(r, Endpoint(u), Segments(u))
        /\ r = finish_s3(Endpoint(u), Segments(u), extract_flags(u.query))
     \/ /\ u.kind = "Azure" /\ AzureParts(r, Endpoint(u), Segments(u)) /\ r.addressing \in {"path", "virtual"}
        /\ r = finish_azure(Endpoint(u), Segments(u), extract_flags(u.query))

LEMMA FlagAddressing ==
  ASSUME NEW u \in Urls, \A i \in DOMAIN u.query : FlagOk(u.query[i])
  PROVE  extract_flags(u.query).addressing \in {"path", "virtual", None}
<1> DEFINE T == {i \in DOMAIN u.query : u.query[i].key = "addressing"}
<1>1. extract_flags(u.query).addressing = IF T = {} THEN None ELSE u.query[Max(T)].value
  BY DEF extract_flags, FlagKeys
<1>2. CASE T = {}
  BY <1>1, <1>2
<1>3. CASE T # {}
  <2>1. PICK n \in Nat : DOMAIN u.query = 1..n
    BY UrlAssumption
  <2>2. Max(T) \in T
    <3>1. T \subseteq 1..n
      BY <2>1
    <3> HIDE DEF T
    <3> QED BY <1>3, <3>1, Greatest
  <2>3. PICK i \in DOMAIN u.query : i = Max(T) /\ u.query[i].key = "addressing"
    BY <2>2
  <2>4. u.query[i].value \in {"path", "virtual"}
    BY <2>3 DEF FlagOk
  <2> QED BY <1>1, <1>3, <2>3, <2>4
<1> QED BY <1>2, <1>3

LEMMA Coming ==
  ASSUME NEW r \in Remotes
  PROVE  \E u \in Urls : Comes(r, u)
<1>1. PICK u \in Urls : r = parse(u, TRUE) /\ r # Refused
  BY DEF Remotes
<1>2. Accepted(u) /\ u.host \in Seq(ToSet(u.host)) /\ u.path \in Seq(ToSet(u.path))
  BY <1>1, Parsed, UrlAssumption
<1>3. Segments(u) \in Seq(ToSet(u.path) \ {<<>>})
  BY <1>2, SegmentsOf DEF Segments
<1>4. Endpoint(u).host = u.host /\ Endpoint(u).host \in Seq(ToSet(u.host))
  BY <1>2 DEF Endpoint
<1> PICK e : e = Endpoint(u)
  OBVIOUS
<1> PICK P : P = ToSet(u.path) \ {<<>>}
  OBVIOUS
<1> PICK segs \in Seq(P) : segs = Segments(u)
  BY <1>3
<1> PICK flags : flags = extract_flags(u.query)
  OBVIOUS
<1>5. CASE u.kind = "S3"
  <2>1. r = finish_s3(Endpoint(u), Segments(u), extract_flags(u.query))
    BY <1>1, <1>2, <1>5, Parsed DEF Segments
  <2>2. /\ S3Parts(r, Endpoint(u), Segments(u)) /\ r.flags = extract_flags(u.query)
        /\ r.prefix \in Seq(ToSet(u.path) \ {<<>>})
    <3>1. r = finish_s3(e, segs, flags) /\ r # Refused /\ e.host \in Seq(ToSet(u.host))
      BY <1>1, <1>4, <2>1
    <3>2. S3Parts(r, e, segs) /\ r.flags = flags /\ r.prefix \in Seq(P)
      BY <3>1, S3Finished
    <3> QED BY <3>2
  <2> QED BY <1>1, <1>2, <1>3, <1>5, <2>1, <2>2 DEF Comes, Accepted
<1>6. CASE u.kind = "Azure"
  <2>1. r = finish_azure(Endpoint(u), Segments(u), extract_flags(u.query))
    BY <1>1, <1>2, <1>6, Parsed DEF Segments
  <2>2. /\ AzureParts(r, Endpoint(u), Segments(u)) /\ r.flags = extract_flags(u.query)
        /\ r.prefix \in Seq(ToSet(u.path) \ {<<>>})
        /\ r.addressing = IF extract_flags(u.query).addressing # None THEN extract_flags(u.query).addressing
                          ELSE detect_azure_addressing(u.host)
    <3>1. r = finish_azure(e, segs, flags) /\ r # Refused
      BY <1>1, <2>1
    <3>2. AzureParts(r, e, segs) /\ r.flags = flags /\ r.prefix \in Seq(P) /\ Styled(r, e, flags)
      BY <3>1, AzureFinished
    <3>3. r.addressing = IF flags.addressing # None THEN flags.addressing ELSE detect_azure_addressing(e.host)
      BY <3>2 DEF Styled
    <3> QED BY <1>4, <3>2, <3>3
  <2>3. r.addressing \in {"path", "virtual"}
    BY <1>2, <2>2, FlagAddressing DEF Accepted, detect_azure_addressing
  <2> QED BY <1>1, <1>2, <1>3, <1>6, <2>1, <2>2, <2>3 DEF Comes, Accepted
<1> QED BY <1>2, <1>5, <1>6 DEF Accepted


-----------------------------------------------------------------------------
(* A remote is shown as a URL of the same remote.                          *)

LEMMA RoundTripOf ==
  ASSUME NEW r, NEW u, Comes(r, u)
  PROVE  parse(Display(r), TRUE) = r
<1> PICK d : d = Display(r)
  OBVIOUS
<1> PICK segs : segs = Segments(u)
  OBVIOUS
<1>1. r.endpoint = [Endpoint(u) EXCEPT !.path = segs] /\ r.kind = u.kind
  BY DEF Comes, S3Parts, AzureParts
<1>2. d.kind = u.kind /\ d.scheme = u.scheme /\ d.host = u.host /\ d.path = segs /\ d.query = u.query
  BY <1>1 DEF Display, Endpoint
<1>3. Accepted(d)
  BY <1>2 DEF Comes, Accepted
<1>4. path_segments(d.path) = segs
  <2>1. <<>> \notin ToSet(u.path) \ {<<>>} /\ segs \in Seq(ToSet(u.path) \ {<<>>})
    BY DEF Comes
  <2>2. path_segments(segs) = segs
    BY <2>1, SegmentsSame
  <2> QED BY <1>2, <2>2
<1>5. ASSUME NEW path PROVE [Endpoint(d) EXCEPT !.path = path] = [Endpoint(u) EXCEPT !.path = path]
  BY <1>2 DEF Endpoint
<1>6. Endpoint(d).host = Endpoint(u).host
  BY <1>2 DEF Endpoint
<1>7. extract_flags(d.query) = extract_flags(u.query)
  BY <1>2
<1>8. /\ finish_s3(Endpoint(d), segs, extract_flags(d.query)) = finish_s3(Endpoint(u), segs, extract_flags(u.query))
      /\ finish_azure(Endpoint(d), segs, extract_flags(d.query)) = finish_azure(Endpoint(u), segs, extract_flags(u.query))
  <2>1. Endpoint(d).host = Endpoint(u).host
        /\ \A path : [Endpoint(d) EXCEPT !.path = path] = [Endpoint(u) EXCEPT !.path = path]
    BY <1>5, <1>6
  <2> PICK de, ue, flags : de = Endpoint(d) /\ ue = Endpoint(u) /\ flags = extract_flags(u.query)
    OBVIOUS
  <2>2. de.host = ue.host /\ \A path : [de EXCEPT !.path = path] = [ue EXCEPT !.path = path]
    BY <2>1
  <2>3. finish_s3(de, segs, flags) = finish_s3(ue, segs, flags)
    BY <2>2 DEF finish_s3
  <2>4. finish_azure(de, segs, flags) = finish_azure(ue, segs, flags)
    <3> DEFINE ad(x) == IF flags.addressing # None THEN flags.addressing ELSE detect_azure_addressing(x.host)
               c(x)  == resolve_azure_components(ad(x), x.host, segs)
               canonical(x) == IF ad(x) = "virtual" THEN <<c(x).container>> \o c(x).prefix
                               ELSE <<c(x).account, c(x).container>> \o c(x).prefix
    <3>1. ad(de) = ad(ue)
      BY <2>2
    <3>2. c(de) = c(ue)
      BY <2>2, <3>1
    <3>3. canonical(de) = canonical(ue)
      <4> HIDE DEF c, ad
      <4> QED BY <3>1, <3>2
    <3>4. [de EXCEPT !.path = canonical(de)] = [ue EXCEPT !.path = canonical(ue)]
      <4> HIDE DEF canonical
      <4> QED BY <2>2, <3>3
    <3>5. \A x : finish_azure(x, segs, flags) =
                 IF is_valid_account(c(x).account) /\ is_valid_container(c(x).container)
                 THEN [kind |-> "Azure", endpoint |-> [x EXCEPT !.path = canonical(x)],
                       account |-> c(x).account, container |-> c(x).container, prefix |-> c(x).prefix,
                       addressing |-> ad(x), flags |-> flags]
                 ELSE Refused
      BY DEF finish_azure
    <3> HIDE DEF canonical, c, ad
    <3> QED BY <3>1, <3>2, <3>4, <3>5
  <2> QED BY <1>7, <2>3, <2>4
<1>9. CASE u.kind = "S3"
  <2>1. parse(d, TRUE) = finish_s3(Endpoint(d), segs, extract_flags(d.query))
    BY <1>2, <1>3, <1>4, <1>9, Parsed
  <2>2. r = finish_s3(Endpoint(u), segs, extract_flags(u.query))
    BY <1>9 DEF Comes
  <2> QED BY <1>8, <2>1, <2>2
<1>10. CASE u.kind = "Azure"
  <2>1. parse(d, TRUE) = finish_azure(Endpoint(d), segs, extract_flags(d.query))
    BY <1>2, <1>3, <1>4, <1>10, Parsed
  <2>2. r = finish_azure(Endpoint(u), segs, extract_flags(u.query))
    BY <1>10 DEF Comes
  <2> QED BY <1>8, <2>1, <2>2
<1> QED BY <1>9, <1>10 DEF Comes

-----------------------------------------------------------------------------
(* A remote has one address.                                               *)

LEMMA AppendAfter ==
  ASSUME NEW S, NEW a \in Seq(S), NEW P, NEW s \in Seq(P), NEW x
  PROVE  a \o Append(s, x) = Append(a \o s, x)
<1> PICK T : T = S \cup P \cup {x}
  OBVIOUS
<1>1. S \subseteq T /\ P \subseteq T /\ x \in T
  OBVIOUS
<1>2. a \in Seq(T) /\ s \in Seq(T) /\ <<x>> \in Seq(T)
  <2>1. a \in Seq(T)
    BY <1>1, SeqMonotonic
  <2>2. s \in Seq(T)
    BY <1>1, SeqMonotonic
  <2>3. <<x>> \in Seq(T)
    BY <1>1
  <2> QED BY <2>1, <2>2, <2>3
<1>3. Append(s, x) = s \o <<x>>
  BY <1>1, <1>2, AppendIsConcat
<1>4. a \o s \in Seq(T)
  BY <1>2, ConcatProperties
<1>5. Append(a \o s, x) = (a \o s) \o <<x>>
  BY <1>1, <1>4, AppendIsConcat
<1>6. (a \o s) \o <<x>> = a \o (s \o <<x>>)
  BY <1>2, ConcatAssociative
<1> QED BY <1>3, <1>5, <1>6

\* Where normalize_endpoint takes the bucket off the host.
LEMMA BucketEnds ==
  ASSUME NEW r, NEW u, Comes(r, u), r.kind = "S3", r.addressing = "virtual"
  PROVE  \E k \in 1..Len(u.host) :
           /\ r.bucket = SubSeq(u.host, 1, k) /\ normalize_endpoint(r) = SubSeq(u.host, k + 1, Len(u.host))
           /\ Infixes(u.host) # {} => k + 1 = Max(Infixes(u.host))
<1> PICK host \in Seq(ToSet(u.host)) : host = u.host
  BY DEF Comes
<1> PICK n \in Nat : n = Len(host)
  OBVIOUS
<1>0. n > 0
  BY DEF Comes
<1>1. /\ r.endpoint.host = host
      /\ Infixes(host) # {} => r.bucket = SubSeq(host, 1, Max(Infixes(host)) - 1)
      /\ Infixes(host) = {} => r.bucket = SubSeq(host, 1, 1)
  BY DEF Comes, S3Parts, AzureParts, Endpoint
<1>2. normalize_endpoint(r) =
        SubSeq(host, IF s3_virtual_hosted_bucket(host) # <<>> THEN Len(s3_virtual_hosted_bucket(host)) + 1 ELSE 2, n)
  BY <1>1 DEF normalize_endpoint
<1>3. CASE Infixes(host) = {}
  <2>1. s3_virtual_hosted_bucket(host) = <<>>
    BY <1>3 DEF s3_virtual_hosted_bucket
  <2>2. normalize_endpoint(r) = SubSeq(host, 2, n)
    BY <1>2, <2>1
  <2>3. 1 \in 1..n /\ 1 + 1 = 2
    BY <1>0
  <2> QED BY <1>1, <1>3, <2>2, <2>3
<1>4. CASE Infixes(host) # {}
  <2> PICK m \in 2..n : m = Max(Infixes(host))
    BY <1>4, InfixPlaces
  <2> PICK k \in 1..n : k = m - 1 /\ k + 1 = m
    OBVIOUS
  <2>1. s3_virtual_hosted_bucket(host) = SubSeq(host, 1, k) /\ r.bucket = SubSeq(host, 1, k)
    BY <1>1, <1>4 DEF s3_virtual_hosted_bucket
  <2>2. k \in 0..Len(host)
    OBVIOUS
  <2>3. Len(SubSeq(host, 1, k)) = k
    BY <2>2, Cut
  <2>4. s3_virtual_hosted_bucket(host) # <<>>
    BY <1>4, AwsBucket
  <2>5. normalize_endpoint(r) = SubSeq(host, k + 1, n)
    BY <1>2, <2>1, <2>3, <2>4
  <2> QED BY <1>4, <2>1, <2>5
<1> QED BY <1>3, <1>4

\* Where the names of a remote are in a path, before the key.
Lead(r) ==
  CASE r.kind = "S3" /\ r.addressing = "virtual" -> <<>>
    [] r.kind = "S3" /\ r.addressing # "virtual" -> <<r.bucket>>
    [] OTHER                                     -> build_container_url(r)

\* w is read by a server as the key.
Written(w, key) ==
  /\ w \in Seq({w[i] : i \in 1..Len(w)}) /\ Len(w) = Len(key)
  /\ \A i \in 1..Len(key) : decoded(w[i]) = key[i]

LEMMA SeqDomain ==
  ASSUME NEW T, NEW s \in Seq(T), NEW k \in Nat, Len(s) = k
  PROVE  DOMAIN s = 1..k
OBVIOUS

LEMMA SeqAsFunction ==
  ASSUME NEW T, NEW s \in Seq(T), NEW k \in Nat, Len(s) = k
  PROVE  s = [i \in 1..k |-> s[i]]
OBVIOUS

LEMMA SeqMembers ==
  ASSUME NEW T, NEW s \in Seq(T), NEW i \in 1..Len(s)
  PROVE  s[i] \in T
OBVIOUS

LEMMA ReadsBack ==
  ASSUME NEW S, NEW a \in Seq(S), \A i \in 1..Len(a) : decoded(a[i]) = a[i],
         NEW key \in Seq(S), NEW w, Written(w, key)
  PROVE  [i \in DOMAIN (a \o w) |-> decoded((a \o w)[i])] = a \o key
<1> PICK T : T = S \cup {w[i] : i \in 1..Len(w)}
  OBVIOUS
<1>1. a \in Seq(T) /\ key \in Seq(T) /\ w \in Seq(T)
  <2>1. S \subseteq T /\ {w[i] : i \in 1..Len(w)} \subseteq T
    OBVIOUS
  <2>2. a \in Seq(T) /\ key \in Seq(T)
    BY <2>1, SeqMonotonic
  <2>3. w \in Seq(T)
    BY <2>1, SeqMonotonic DEF Written
  <2> QED BY <2>2, <2>3
<1> PICK m \in Nat, n \in Nat : m = Len(a) /\ n = Len(key)
  OBVIOUS
<1>2. Len(w) = n
  BY DEF Written
<1> PICK aw \in Seq(T) : aw = a \o w
  BY <1>1, ConcatProperties
<1> PICK ak \in Seq(T) : ak = a \o key
  BY <1>1, ConcatProperties
<1>a. /\ Len(a \o w) = Len(a) + Len(w)
      /\ \A i \in 1..Len(a) + Len(w) : (a \o w)[i] = IF i <= Len(a) THEN a[i] ELSE w[i - Len(a)]
  BY <1>1, ConcatProperties
<1>b. /\ Len(a \o key) = Len(a) + Len(key)
      /\ \A i \in 1..Len(a) + Len(key) : (a \o key)[i] = IF i <= Len(a) THEN a[i] ELSE key[i - Len(a)]
  BY <1>1, ConcatProperties
<1>3. /\ Len(aw) = m + n /\ Len(ak) = m + n
      /\ \A i \in 1..(m + n) : aw[i] = IF i <= m THEN a[i] ELSE w[i - m]
      /\ \A i \in 1..(m + n) : ak[i] = IF i <= m THEN a[i] ELSE key[i - m]
  BY <1>a, <1>b, <1>2, Zenon
<1>4. ASSUME NEW i \in 1..(m + n) PROVE decoded(aw[i]) = ak[i]
  <2>1. CASE i <= m
    <3>1. i \in 1..m
      BY <2>1
    <3> QED BY <1>3, <2>1, <3>1
  <2>2. CASE ~(i <= m)
    <3>1. i - m \in 1..n
      BY <2>2
    <3>2. decoded(w[i - m]) = key[i - m]
      BY <3>1 DEF Written
    <3> QED BY <1>3, <2>2, <3>2
  <2> QED BY <2>1, <2>2
<1> PICK k \in Nat : k = m + n
  OBVIOUS
<1>5. DOMAIN aw = 1..(m + n) /\ ak = [i \in 1..(m + n) |-> ak[i]]
  <2>1. Len(aw) = k /\ Len(ak) = k
    BY <1>3
  <2>2. DOMAIN aw = 1..k
    BY <2>1, SeqDomain, Zenon
  <2>4. ak = [i \in 1..k |-> ak[i]]
    BY <2>1, SeqAsFunction, Zenon
  <2> QED BY <2>2, <2>4
<1>6. [i \in DOMAIN aw |-> decoded(aw[i])] = [i \in 1..(m + n) |-> ak[i]]
  BY <1>4, <1>5
<1> QED BY <1>5, <1>6

\* No server reads a name as another one.
LEMMA NamesRead ==
  ASSUME NEW r, NEW u, Comes(r, u)
  PROVE  \E S : Lead(r) \in Seq(S) /\ \A i \in 1..Len(Lead(r)) : decoded(Lead(r)[i]) = Lead(r)[i]
<1>1. ASSUME NEW name, \A i \in DOMAIN name : name[i] \notin BadLabels PROVE decoded(name) = name
  BY <1>1, EncodingAssumption DEF decoded
<1>2. CASE r.kind = "S3"
  <2>1. decoded(r.bucket) = r.bucket
    BY <1>1, <1>2 DEF Comes, S3Parts, AzureParts, is_valid_bucket
  <2>2. Lead(r) = <<>> \/ Lead(r) = <<r.bucket>>
    BY <1>2 DEF Lead
  <2>3. Lead(r) \in Seq({r.bucket}) /\ \A i \in 1..Len(Lead(r)) : Lead(r)[i] \in {r.bucket}
    <3>1. <<>> \in Seq({r.bucket}) /\ <<r.bucket>> \in Seq({r.bucket})
      OBVIOUS
    <3>2. Lead(r) \in Seq({r.bucket})
      BY <2>2, <3>1
    <3> QED BY <3>2, SeqMembers
  <2> QED BY <2>1, <2>3
<1>3. CASE r.kind = "Azure"
  <2>1. is_valid_account(r.account) /\ is_valid_container(r.container)
    BY <1>3 DEF Comes, S3Parts, AzureParts
  <2>2. ASSUME NEW name, Len(name) = 1, name[1] \notin BadLabels PROVE decoded(name) = name
    <3>1. SUFFICES ASSUME name \in DOMAIN Decode PROVE FALSE
      BY DEF decoded
    <3>2. PICK i \in DOMAIN name : name[i] \in BadLabels
      BY <3>1, EncodingAssumption
    <3> QED BY <2>2, <3>2
  <2>3. decoded(r.account) = r.account /\ decoded(r.container) = r.container
    BY <2>1, <2>2 DEF is_valid_account, is_valid_container
  <2>4. Lead(r) = <<r.container>> \/ Lead(r) = <<r.account, r.container>>
    BY <1>3 DEF Lead, build_container_url
  <2>5. Lead(r) \in Seq({r.account, r.container})
        /\ \A i \in 1..Len(Lead(r)) : Lead(r)[i] \in {r.account, r.container}
    <3>1. <<r.container>> \in Seq({r.account, r.container}) /\ <<r.account, r.container>> \in Seq({r.account, r.container})
      OBVIOUS
    <3>2. Lead(r) \in Seq({r.account, r.container})
      BY <2>4, <3>1
    <3> QED BY <3>2, SeqMembers
  <2> QED BY <2>3, <2>5
<1> QED BY <1>2, <1>3 DEF Comes, S3Parts, AzureParts

LEMMA WholePath ==
  ASSUME NEW r, NEW u, Comes(r, u), NEW ref
  PROVE  /\ Lead(r) \o bundle_key(r, ref) = Append(r.endpoint.path, ref)
         /\ bundle_key(r, ref) \in Seq(ToSet(u.path) \cup {ref})
<1> PICK segs : segs = Segments(u)
  OBVIOUS
<1>0. r.endpoint.host = u.host /\ r.endpoint.path = segs /\ r.prefix \in Seq(ToSet(u.path) \ {<<>>})
  BY DEF Comes, S3Parts, AzureParts, Endpoint
<1> PICK key : key = Append(r.prefix, ref)
  OBVIOUS
<1>1. key \in Seq(ToSet(u.path) \cup {ref}) /\ key = bundle_key(r, ref)
  <2>1. r.prefix \in Seq(ToSet(u.path) \cup {ref})
    <3>1. ToSet(u.path) \ {<<>>} \subseteq ToSet(u.path) \cup {ref}
      OBVIOUS
    <3> QED BY <1>0, <3>1, SeqMonotonic
  <2> QED BY <2>1 DEF bundle_key
<1>2. CASE r.kind = "S3" /\ r.addressing = "virtual"
  <2>1. r.prefix = segs /\ Lead(r) = <<>>
    BY <1>2 DEF Comes, S3Parts, AzureParts, Lead
  <2>2. Lead(r) \o key = key
    BY <1>1, <2>1, ConcatEmptySeq
  <2> QED BY <1>0, <1>1, <2>1, <2>2
<1>3. CASE r.kind = "S3" /\ r.addressing # "virtual"
  <2>1. segs = <<r.bucket>> \o r.prefix /\ Lead(r) = <<r.bucket>>
    BY <1>3 DEF Comes, S3Parts, AzureParts, Lead
  <2>2. <<r.bucket>> \in Seq({r.bucket})
    OBVIOUS
  <2>3. <<r.bucket>> \o key = Append(segs, ref)
    BY <1>0, <2>1, <2>2, AppendAfter
  <2> QED BY <1>0, <1>1, <2>1, <2>3
<1>4. CASE r.kind = "Azure"
  <2>1. CASE r.addressing = "virtual"
    <3>1. segs = <<r.container>> \o r.prefix /\ Lead(r) = <<r.container>>
      BY <1>4, <2>1 DEF Comes, S3Parts, AzureParts, build_container_url, Lead
    <3>2. <<r.container>> \in Seq({r.container})
      OBVIOUS
    <3>3. <<r.container>> \o key = Append(segs, ref)
      BY <1>0, <3>1, <3>2, AppendAfter
    <3> QED BY <1>0, <1>1, <3>1, <3>3
  <2>2. CASE r.addressing # "virtual"
    <3>1. segs = <<r.account, r.container>> \o r.prefix /\ Lead(r) = <<r.account, r.container>>
      BY <1>4, <2>2 DEF Comes, S3Parts, AzureParts, build_container_url, Lead
    <3>2. <<r.account, r.container>> \in Seq({r.account, r.container})
      OBVIOUS
    <3>3. <<r.account, r.container>> \o key = Append(segs, ref)
      BY <1>0, <3>1, <3>2, AppendAfter
    <3> QED BY <1>0, <1>1, <3>1, <3>3
  <2> QED BY <2>1, <2>2
<1> QED BY <1>2, <1>3, <1>4 DEF Comes, S3Parts, AzureParts

\* A server finds the object of a ref below the names, whichever way the key
\* is written there.
LEMMA Found ==
  ASSUME NEW r, NEW u, Comes(r, u), NEW ref, NEW w, Written(w, bundle_key(r, ref))
  PROVE  ObjectAt([host |-> r.endpoint.host, path |-> Lead(r) \o w]) = ObjectOf(r, ref)
<1> PICK key : key = bundle_key(r, ref)
  OBVIOUS
<1> PICK S : Lead(r) \in Seq(S) /\ \A i \in 1..Len(Lead(r)) : decoded(Lead(r)[i]) = Lead(r)[i]
  BY NamesRead
<1> PICK T : T = S \cup ToSet(u.path) \cup {ref}
  OBVIOUS
<1> PICK a : a = Lead(r)
  OBVIOUS
<1>1. a \in Seq(T) /\ key \in Seq(T) /\ \A i \in 1..Len(a) : decoded(a[i]) = a[i]
  <2> PICK K : K = ToSet(u.path) \cup {ref}
    OBVIOUS
  <2>1. S \subseteq T /\ K \subseteq T
    OBVIOUS
  <2>2. a \in Seq(T)
    BY <2>1, SeqMonotonic
  <2>3. key \in Seq(K)
    BY WholePath
  <2>4. key \in Seq(T)
    BY <2>1, <2>3, SeqMonotonic
  <2> QED BY <2>2, <2>4
<1>2. [i \in DOMAIN (a \o w) |-> decoded((a \o w)[i])] = a \o key
  BY <1>1, ReadsBack
<1>3. a \o key = Append(r.endpoint.path, ref)
  BY WholePath
<1> QED BY <1>2, <1>3 DEF ObjectAt, ObjectOf

\* The client writes a key below the names.
LEMMA AddressOf ==
  ASSUME NEW r, NEW u, Comes(r, u), NEW key, Encoded(key) \in Seq(Range(Encoded(key)))
  PROVE  Address(r, key) = [host |-> r.endpoint.host, path |-> Lead(r) \o Encoded(key)]
<1>0. r.endpoint.host = u.host
  BY DEF Comes, S3Parts, AzureParts, Endpoint
<1>1. CASE r.kind = "S3" /\ r.addressing = "virtual"
  <2>2. PICK k \in 1..Len(u.host) : r.bucket = SubSeq(u.host, 1, k) /\ normalize_endpoint(r) = SubSeq(u.host, k + 1, Len(u.host))
    BY <1>1, BucketEnds
  <2>3. r.bucket \o normalize_endpoint(r) = u.host
    <3>1. k \in 0..Len(u.host) /\ u.host \in Seq(ToSet(u.host))
      BY DEF Comes
    <3> QED BY <2>2, <3>1, Cut
  <2>4. Address(r, key) = [host |-> r.bucket \o normalize_endpoint(r), path |-> Encoded(key)]
    BY <1>1 DEF Address, S3Address
  <2>5. Lead(r) = <<>> /\ <<>> \o Encoded(key) = Encoded(key)
    BY <1>1, ConcatEmptySeq DEF Lead
  <2> QED BY <1>0, <2>3, <2>4, <2>5
<1>2. CASE r.kind = "S3" /\ r.addressing # "virtual"
  <2>1. r.addressing = "path" /\ Lead(r) = <<r.bucket>>
    BY <1>2 DEF Comes, S3Parts, AzureParts, Lead
  <2>4. normalize_endpoint(r) = u.host
    BY <1>0, <2>1 DEF normalize_endpoint
  <2>5. Address(r, key) = [host |-> normalize_endpoint(r), path |-> <<r.bucket>> \o Encoded(key)]
    BY <1>2 DEF Address, S3Address
  <2> QED BY <1>0, <2>1, <2>4, <2>5
<1>3. CASE r.kind = "Azure"
  BY <1>3 DEF Address, AzureAddress, Lead
<1> QED BY <1>1, <1>2, <1>3 DEF Comes, S3Parts, AzureParts

\* Keys that are written as the SDKs do, and as they are.
LEMMA KeyWritten ==
  ASSUME NEW r, NEW u \in Urls, Comes(r, u), NEW ref \in RefKeys
  PROVE  /\ Written(Encoded(bundle_key(r, ref)), bundle_key(r, ref))
         /\ Encoded(bundle_key(r, ref)) \in Seq(Range(Encoded(bundle_key(r, ref))))
         /\ PlainPrefix(r) /\ ref \notin Unsafe => Written(bundle_key(r, ref), bundle_key(r, ref))
<1> PICK key \in Seq(ToSet(u.path) \cup {ref}) : key = bundle_key(r, ref)
  BY WholePath
<1> PICK n \in Nat : n = Len(key)
  OBVIOUS
<1> PICK w : w = Encoded(key)
  OBVIOUS
<1>1. w = [i \in 1..n |-> encoded(key[i])]
  BY DEF Encoded
<1>2. w \in Seq({w[i] : i \in 1..Len(w)}) /\ Len(w) = n /\ DOMAIN w = 1..n
  <2> PICK S : S = {w[i] : i \in 1..n}
    OBVIOUS
  <2>1. w \in [1..n -> S]
    BY <1>1
  <2>2. w \in Seq(S) /\ Len(w) = n /\ DOMAIN w = 1..n
    BY <2>1
  <2> QED BY <2>2
<1>3. ASSUME NEW i \in 1..n PROVE decoded(w[i]) = key[i]
  <2>1. key[i] \in RefKeys \cup UNION {ToSet(v.path) : v \in Urls}
    OBVIOUS
  <2>2. decoded(encoded(key[i])) = key[i]
    BY <2>1, EncodingAssumption
  <2> QED BY <1>1, <2>2
<1>4. Range(w) = {w[i] : i \in 1..Len(w)}
  BY <1>2 DEF Range
<1>5. ASSUME PlainPrefix(r), ref \notin Unsafe PROVE Written(key, key)
  <2>1. key \in Seq({key[i] : i \in 1..Len(key)})
    OBVIOUS
  <2>2. ASSUME NEW i \in 1..n PROVE decoded(key[i]) = key[i]
    <3> PICK p \in Seq(ToSet(u.path) \ {<<>>}) : p = r.prefix
      BY DEF Comes
    <3>1. key = Append(p, ref) /\ n = Len(p) + 1
      BY DEF bundle_key
    <3>2. CASE i \in 1..Len(p)
      <4>1. key[i] = p[i] /\ i \in DOMAIN p
        BY <3>1, <3>2
      <4> QED BY <1>5, <4>1 DEF PlainPrefix, decoded
    <3>3. CASE i = n
      <4>1. key[i] = ref
        BY <3>1, <3>3
      <4> QED BY <1>5, <4>1, EncodingAssumption DEF decoded
    <3> QED BY <3>1, <3>2, <3>3
  <2> QED BY <2>1, <2>2 DEF Written
<1> QED BY <1>2, <1>3, <1>4, <1>5 DEF Written

\* The address that git is told for a bundle.
LEMMA BundleAddressOf ==
  ASSUME NEW r, NEW u, Comes(r, u), NEW ref, NEW env, NEW at \in bundle_url_for_emission(r, ref, env)
  PROVE  /\ ref \notin Unsafe
         /\ \/ Signed(r) /\ at = Address(r, bundle_key(r, ref))
            \/ ~Signed(r) /\ at = [host |-> r.endpoint.host, path |-> Lead(r) \o bundle_key(r, ref)]
<1> PICK key : key = bundle_key(r, ref)
  OBVIOUS
<1>0. r.kind \in {"S3", "Azure"} /\ r.addressing \in {"path", "virtual"}
  BY DEF Comes, S3Parts, AzureParts
<1>1. ref \notin Unsafe
  BY DEF bundle_url_for_emission, is_safe_for_bundle_uri_emission
<1>2. CASE ~Signed(r)
  <2>1. at = canonical_bundle_url(r, ref)
    BY <1>2 DEF bundle_url_for_emission, Signed
  <2>2. CASE r.kind = "S3" /\ r.addressing = "virtual"
    <3>1. key \in Seq(ToSet(u.path) \cup {ref})
      BY WholePath
    <3>2. Lead(r) \o key = key
      BY <2>2, <3>1, ConcatEmptySeq DEF Lead
    <3>3. at = [host |-> r.endpoint.host, path |-> key]
      BY <2>1, <2>2 DEF canonical_bundle_url
    <3> QED BY <1>1, <1>2, <3>2, <3>3
  <2>3. CASE r.kind = "S3" /\ r.addressing = "path"
    BY <1>1, <1>2, <2>1, <2>3 DEF canonical_bundle_url, Lead
  <2>4. CASE r.kind = "Azure" /\ r.addressing = "virtual"
    BY <1>1, <1>2, <2>1, <2>4 DEF canonical_bundle_url, Lead, build_container_url
  <2>5. CASE r.kind = "Azure" /\ r.addressing = "path"
    BY <1>1, <1>2, <2>1, <2>5 DEF canonical_bundle_url, Lead, build_container_url
  <2> QED BY <1>0, <2>2, <2>3, <2>4, <2>5
<1>3. CASE Signed(r)
  <2>1. CASE r.kind = "S3"
    BY <1>1, <1>3, <2>1 DEF bundle_url_for_emission, Signed, Address
  <2>2. CASE r.kind # "S3"
    <3>1. ASSUME NEW account PROVE SasUrl(r, key, account).at = Address(r, key)
      BY <2>2 DEF Address, SasUrl
    <3>2. \E account : at = SasUrl(r, key, account).at
      BY <1>1, <1>3, <2>2 DEF bundle_url_for_emission, Signed
    <3> QED BY <1>1, <1>3, <3>1, <3>2
  <2> QED BY <2>1, <2>2
<1> QED BY <1>2, <1>3

LEMMA RoundTripsAll == RoundTrips
<1>1. ASSUME NEW r \in Remotes PROVE parse(Display(r), TRUE) = r
  BY Coming, RoundTripOf
<1> QED BY <1>1 DEF RoundTrips

LEMMA AddressesAll == AddressesAgree
<1>1. ASSUME NEW r \in Remotes, NEW env, NEW ref \in RefKeys
      PROVE  /\ ObjectAt(Address(r, bundle_key(r, ref))) = ObjectOf(r, ref)
             /\ Signed(r) \/ PlainPrefix(r) =>
                  \A at \in bundle_url_for_emission(r, ref, env) : ObjectAt(at) = ObjectOf(r, ref)
  <2> PICK key : key = bundle_key(r, ref)
    OBVIOUS
  <2>1. PICK u \in Urls : Comes(r, u)
    BY Coming
  <2>2. /\ Written(Encoded(key), key) /\ Encoded(key) \in Seq(Range(Encoded(key)))
        /\ PlainPrefix(r) /\ ref \notin Unsafe => Written(key, key)
    BY <2>1, KeyWritten
  <2>3. Address(r, key) = [host |-> r.endpoint.host, path |-> Lead(r) \o Encoded(key)]
    BY <2>1, <2>2, AddressOf
  <2>4. ObjectAt(Address(r, key)) = ObjectOf(r, ref)
    BY <2>1, <2>2, <2>3, Found
  <2>5. ASSUME Signed(r) \/ PlainPrefix(r), NEW at \in bundle_url_for_emission(r, ref, env)
        PROVE  ObjectAt(at) = ObjectOf(r, ref)
    <3>1. /\ ref \notin Unsafe
          /\ \/ Signed(r) /\ at = Address(r, key)
             \/ ~Signed(r) /\ at = [host |-> r.endpoint.host, path |-> Lead(r) \o key]
      BY <2>1, BundleAddressOf
    <3> QED BY <2>1, <2>2, <2>4, <2>5, <3>1, Found
  <2> QED BY <2>4, <2>5
<1> QED BY <1>1 DEF AddressesAgree


-----------------------------------------------------------------------------
(* The region of an AWS host is the same with the bucket and without it.   *)

LEMMA Turned ==
  ASSUME NEW S, NEW s \in Seq(S)
  PROVE  /\ Reverse(s) \in Seq(S) /\ Len(Reverse(s)) = Len(s)
         /\ \A i \in 1..Len(s) : Reverse(s)[i] = s[(Len(s) - i) + 1]
<1> PICK n \in Nat : n = Len(s)
  OBVIOUS
<1>1. \A i \in 1..n : (n - i) + 1 \in 1..n
  OBVIOUS
<1>2. \A i \in 1..n : s[i] \in S
  OBVIOUS
<1>3. Reverse(s) = [i \in 1..n |-> s[(n - i) + 1]]
  BY DEF Reverse
<1>4. Reverse(s) \in [1..n -> S]
  BY <1>1, <1>2, <1>3
<1>5. Reverse(s) \in Seq(S) /\ Len(Reverse(s)) = n
  BY <1>4
<1> QED BY <1>3, <1>5

\* The first labels of two sequences.
LEMMA FirstLabels ==
  ASSUME NEW S, NEW s \in Seq(S), NEW t \in Seq(S), NEW l \in Nat, l <= Len(s), l <= Len(t)
  PROVE  SubSeq(s, 1, l) = SubSeq(t, 1, l) <=> \A i \in 1..l : s[i] = t[i]
<1>1. l \in 0..Len(s) /\ l \in 0..Len(t)
  OBVIOUS
<1>2. Len(SubSeq(s, 1, l)) = l /\ \A i \in 1..l : SubSeq(s, 1, l)[i] = s[i]
  BY <1>1, Cut
<1>3. Len(SubSeq(t, 1, l)) = l /\ \A i \in 1..l : SubSeq(t, 1, l)[i] = t[i]
  BY <1>1, Cut
<1>4. SubSeq(s, 1, l) \in Seq(S) /\ SubSeq(t, 1, l) \in Seq(S)
  OBVIOUS
<1>5. ASSUME \A i \in 1..l : s[i] = t[i] PROVE SubSeq(s, 1, l) = SubSeq(t, 1, l)
  <2>1. /\ Len(SubSeq(s, 1, l)) = Len(SubSeq(t, 1, l))
        /\ \A i \in 1..Len(SubSeq(s, 1, l)) : SubSeq(s, 1, l)[i] = SubSeq(t, 1, l)[i]
    BY <1>2, <1>3, <1>5
  <2> QED BY <1>4, <2>1, SeqEqual
<1>6. ASSUME SubSeq(s, 1, l) = SubSeq(t, 1, l), NEW i \in 1..l PROVE s[i] = t[i]
  BY <1>2, <1>3, <1>6, Zenon
<1> QED BY <1>5, <1>6

LEMMA SuffixIs ==
  ASSUME NEW S, NEW s \in Seq(S), NEW t \in Seq(S)
  PROVE  IsSuffix(s, t) <=> /\ Len(s) <= Len(t)
                            /\ \A i \in 1..Len(s) : s[i] = t[(Len(t) - Len(s)) + i]
<1> PICK l \in Nat : l = Len(s)
  OBVIOUS
<1> PICK n \in Nat : n = Len(t)
  OBVIOUS
<1>1. Reverse(s) \in Seq(S) /\ Len(Reverse(s)) = l /\ \A i \in 1..l : Reverse(s)[i] = s[(l - i) + 1]
  BY Turned
<1>2. Reverse(t) \in Seq(S) /\ Len(Reverse(t)) = n /\ \A i \in 1..n : Reverse(t)[i] = t[(n - i) + 1]
  BY Turned
<1>3. IsSuffix(s, t) <=> l <= n /\ SubSeq(Reverse(s), 1, l) = SubSeq(Reverse(t), 1, l)
  BY <1>1, <1>2 DEF IsSuffix, IsPrefix
<1>4. IsSuffix(s, t) <=> l <= n /\ \A i \in 1..l : Reverse(s)[i] = Reverse(t)[i]
  <2>1. CASE l <= n
    <3>1. SubSeq(Reverse(s), 1, l) = SubSeq(Reverse(t), 1, l) <=> \A i \in 1..l : Reverse(s)[i] = Reverse(t)[i]
      BY <1>1, <1>2, <2>1, FirstLabels
    <3> QED BY <1>3, <2>1, <3>1
  <2>2. CASE ~(l <= n)
    BY <1>3, <2>2
  <2> QED BY <2>1, <2>2
<1>5. ASSUME l <= n PROVE \A i \in 1..l : i \in 1..n /\ (l - i) + 1 \in 1..l /\ (n - l) + ((l - i) + 1) = (n - i) + 1
  BY <1>5
<1>6. \A i \in 1..l : (l - ((l - i) + 1)) + 1 = i
  OBVIOUS
<1>7. ASSUME l <= n, \A i \in 1..l : Reverse(s)[i] = Reverse(t)[i], NEW i \in 1..l
      PROVE  s[i] = t[(n - l) + i]
  <2> PICK j \in 1..l : j = (l - i) + 1
    BY <1>5, <1>7
  <2>1. (l - j) + 1 = i /\ (n - j) + 1 = (n - l) + i /\ j \in 1..n
    BY <1>5, <1>6, <1>7
  <2>2. Reverse(s)[j] = s[i] /\ Reverse(t)[j] = t[(n - l) + i]
    BY <1>1, <1>2, <2>1
  <2> QED BY <1>7, <2>2
<1>8. ASSUME l <= n, \A i \in 1..l : s[i] = t[(n - l) + i], NEW i \in 1..l
      PROVE  Reverse(s)[i] = Reverse(t)[i]
  <2> PICK j \in 1..l : j = (l - i) + 1
    BY <1>5, <1>8
  <2>1. (n - l) + j = (n - i) + 1 /\ i \in 1..n
    BY <1>5, <1>8
  <2>2. Reverse(s)[i] = s[j] /\ Reverse(t)[i] = t[(n - l) + j]
    BY <1>1, <1>2, <2>1
  <2> QED BY <1>8, <2>2
<1> QED BY <1>4, <1>7, <1>8


AwsLabels == {"amazonaws", "com", "cn"}

LEMMA SuffixTypes ==
  ASSUME NEW s \in AWS_HOST_SUFFIXES
  PROVE  s \in Seq(AwsLabels) /\ Len(s) \in {2, 3} /\ (s[Len(s)] = "cn" => Len(s) = 3) /\ (s[Len(s)] = "com" => Len(s) = 2)
         /\ s[Len(s)] \in {"cn", "com"}
<1>1. CASE s = <<"amazonaws", "com">>
  BY <1>1 DEF AwsLabels
<1>2. CASE s = <<"amazonaws", "com", "cn">>
  BY <1>2 DEF AwsLabels
<1> QED BY <1>1, <1>2 DEF AWS_HOST_SUFFIXES

LEMMA SuffixOne ==
  ASSUME NEW s \in AWS_HOST_SUFFIXES, NEW t \in AWS_HOST_SUFFIXES, s[Len(s)] = t[Len(t)]
  PROVE  s = t
<1>1. \A x \in AWS_HOST_SUFFIXES : /\ x[Len(x)] = "cn" => x = <<"amazonaws", "com", "cn">>
                                   /\ x[Len(x)] = "com" => x = <<"amazonaws", "com">>
  BY DEF AWS_HOST_SUFFIXES
<1>2. s[Len(s)] \in {"cn", "com"}
  BY SuffixTypes
<1> QED BY <1>1, <1>2

\* The partition's suffix that a host ends in.
EndsIn(s, host) == s \in AWS_HOST_SUFFIXES /\ Len(s) < Len(host) /\ IsSuffix(s, host)

LEMMA EndsInIs ==
  ASSUME NEW S, NEW host \in Seq(S), NEW s \in AWS_HOST_SUFFIXES
  PROVE  EndsIn(s, host) <=> Len(s) < Len(host) /\ \A i \in 1..Len(s) : s[i] = host[(Len(host) - Len(s)) + i]
<1> PICK T : T = S \cup AwsLabels
  OBVIOUS
<1>1. S \subseteq T /\ AwsLabels \subseteq T
  OBVIOUS
<1>2. host \in Seq(T)
  BY <1>1, SeqMonotonic
<1>3. s \in Seq(AwsLabels)
  BY SuffixTypes
<1>4. s \in Seq(T)
  BY <1>1, <1>3, SeqMonotonic
<1>5. IsSuffix(s, host) <=> Len(s) <= Len(host) /\ \A i \in 1..Len(s) : s[i] = host[(Len(host) - Len(s)) + i]
  BY <1>2, <1>4, SuffixIs
<1>6. Len(s) < Len(host) => Len(s) <= Len(host)
  BY <1>2, <1>4
<1> QED BY <1>5, <1>6 DEF EndsIn

LEMMA Stripped ==
  ASSUME NEW S, NEW host \in Seq(S), NEW s, EndsIn(s, host)
  PROVE  strip_aws_host_suffix(host) = SubSeq(host, 1, Len(host) - Len(s))
<1> DEFINE of == {x \in AWS_HOST_SUFFIXES : Len(x) < Len(host) /\ IsSuffix(x, host)}
<1>1. \A x \in of : EndsIn(x, host) /\ x \in AWS_HOST_SUFFIXES
  BY DEF EndsIn
<1>2. s \in of /\ s \in AWS_HOST_SUFFIXES
  BY DEF EndsIn
<1>3. ASSUME NEW x \in of PROVE x[Len(x)] = host[Len(host)]
  <2>1. \A i \in 1..Len(x) : x[i] = host[(Len(host) - Len(x)) + i]
    BY <1>1, <1>3, EndsInIs
  <2>2. Len(x) \in 1..Len(x) /\ (Len(host) - Len(x)) + Len(x) = Len(host)
    <3>1. Len(x) \in {2, 3}
      BY <1>1, SuffixTypes
    <3>2. Len(host) \in Nat
      OBVIOUS
    <3> QED BY <3>1, <3>2
  <2> QED BY <2>1, <2>2
<1>4. \A x \in of : x = s
  BY <1>1, <1>2, <1>3, SuffixOne
<1>5. strip_aws_host_suffix(host) = IF of = {} THEN <<>> ELSE SubSeq(host, 1, Len(host) - Len(CHOOSE x \in of : TRUE))
  BY DEF strip_aws_host_suffix
<1>6. of # {}
  BY <1>2
<1>7. (CHOOSE x \in of : TRUE) = s
  <2> HIDE DEF of
  <2> QED BY <1>4, <1>6
<1> HIDE DEF of
<1> QED BY <1>5, <1>6, <1>7

LEMMA StrippedOf ==
  ASSUME NEW host, strip_aws_host_suffix(host) # <<>>
  PROVE  \E s : EndsIn(s, host)
BY DEF strip_aws_host_suffix, EndsIn

\* The host without its suffix and the rest of a host without its suffix end
\* at one place.
Between(S, host, k, m, e) ==
  /\ k < m /\ m + 2 <= Len(host) /\ strip_aws_host_suffix(host) = SubSeq(host, 1, m)
  /\ e \in Seq(S) /\ Len(e) = m - k /\ \A i \in 1..(m - k) : e[i] = host[k + i]

LEMMA StripTail ==
  ASSUME NEW S, NEW host \in Seq(S), NEW k \in 0..Len(host), NEW rest, rest = SubSeq(host, k + 1, Len(host)),
         NEW e, e = strip_aws_host_suffix(rest), e # <<>>
  PROVE  \E m \in Nat : Between(S, host, k, m, e)
<1> PICK n \in Nat : n = Len(host)
  OBVIOUS
<1>1. rest \in Seq(S) /\ Len(rest) = n - k /\ \A i \in 1..(n - k) : rest[i] = host[k + i]
  <2>1. rest \in Seq(S)
    <3>1. \A i \in (k + 1)..n : host[i] \in S
      OBVIOUS
    <3> QED BY <3>1, SubSeqProperties
  <2>2. Len(rest) = n - k /\ \A i \in 1..(n - k) : rest[i] = host[k + i]
    BY Cut
  <2> QED BY <2>1, <2>2
<1>2. PICK s : EndsIn(s, rest)
  BY StrippedOf
<1> PICK l : l = Len(s)
  OBVIOUS
<1>3. s \in AWS_HOST_SUFFIXES /\ l \in {2, 3}
  BY <1>2, SuffixTypes DEF EndsIn
<1>4. l < n - k /\ \A i \in 1..l : s[i] = rest[((n - k) - l) + i]
  <2>1. rest \in Seq(S) /\ s \in AWS_HOST_SUFFIXES
    BY <1>1, <1>3
  <2>2. Len(s) < Len(rest) /\ \A i \in 1..Len(s) : s[i] = rest[(Len(rest) - Len(s)) + i]
    BY <1>2, <2>1, EndsInIs
  <2> QED BY <1>1, <2>2
<1>5. PICK m \in Nat : m = n - l /\ k < m /\ m + 2 <= n /\ l < n /\ (n - k) - l = m - k /\ m - k \in 0..(n - k) /\ m \in 0..n
  <2>1. l < n - k /\ l \in Nat /\ l >= 2 /\ k \in Nat
    BY <1>3, <1>4
  <2>2. n - l \in Nat /\ k < n - l /\ (n - l) + 2 <= n /\ l < n /\ (n - k) - l = (n - l) - k
    BY <2>1
  <2>3. (n - l) - k \in 0..(n - k) /\ n - l \in 0..n
    BY <2>1
  <2> QED BY <2>2, <2>3
<1>6. EndsIn(s, host)
  <2>1. ASSUME NEW i \in 1..l PROVE s[i] = host[(n - l) + i]
    <3>1. (m - k) + i \in 1..(n - k) /\ k + ((m - k) + i) = (n - l) + i
      BY <1>3, <1>5
    <3>2. s[i] = rest[(m - k) + i]
      BY <1>4, <1>5
    <3>3. rest[(m - k) + i] = host[k + ((m - k) + i)]
      BY <1>1, <3>1
    <3> QED BY <3>1, <3>2, <3>3
  <2> QED BY <1>3, <1>5, <2>1, EndsInIs
<1>7. strip_aws_host_suffix(host) = SubSeq(host, 1, m)
  BY <1>5, <1>6, Stripped
<1>8. e = SubSeq(rest, 1, m - k)
  BY <1>1, <1>2, <1>5, Stripped
<1>9. e \in Seq(S) /\ Len(e) = m - k /\ \A i \in 1..(m - k) : e[i] = rest[i]
  <2>1. m - k \in 0..Len(rest)
    BY <1>1, <1>5
  <2>2. Len(e) = m - k /\ \A i \in 1..(m - k) : e[i] = rest[i]
    <3>1. \A j \in 0..Len(rest) : /\ Len(SubSeq(rest, 1, j)) = j
                                   /\ \A i \in 1..j : SubSeq(rest, 1, j)[i] = rest[i]
      BY <1>1, Cut
    <3> QED BY <1>8, <2>1, <3>1, Zenon
  <2>3. \A i \in 1..(m - k) : rest[i] \in S
    BY <1>1, <2>1
  <2>4. e \in Seq(S)
    <3>1. 1 \in Int /\ m - k \in Int
      BY <1>5
    <3>2. SubSeq(rest, 1, m - k) \in Seq(S)
      BY <2>3, <3>1, SubSeqProperties
    <3> QED BY <1>8, <3>2
  <2> QED BY <2>2, <2>4
<1>10. \A i \in 1..(m - k) : i \in 1..(n - k)
  BY <1>5
<1>11. Between(S, host, k, m, e)
  BY <1>1, <1>5, <1>7, <1>9, <1>10 DEF Between
<1> QED BY <1>5, <1>11


Rightmost(t) == Max(Infixes(t) \cup {0})

LEMMA RightmostIs ==
  ASSUME NEW S, NEW t \in Seq(S)
  PROVE  /\ Rightmost(t) \in Infixes(t) \cup {0} /\ Rightmost(t) \in Nat
         /\ \A i \in Infixes(t) : i <= Rightmost(t)
<1> PICK n \in Nat : n = Len(t)
  OBVIOUS
<1> PICK I : I = Infixes(t)
  OBVIOUS
<1>1. I \subseteq 2..n
  BY DEF Infixes
<1>2. \E x \in I \cup {0} : \A y \in I \cup {0} : x >= y
  <2>1. CASE I = {}
    BY <2>1
  <2>2. CASE I # {}
    <3> PICK x \in I : x \in 2..n /\ \A i \in I : i <= x
      BY <2>2, InfixPlaces
    <3>1. \A y \in I : x >= y /\ x >= 0
      BY <1>1
    <3> QED BY <3>1
  <2> QED BY <2>1, <2>2
<1>3. Rightmost(t) \in I \cup {0} /\ \A y \in I \cup {0} : Rightmost(t) >= y
  BY <1>2 DEF Rightmost, Max
<1> QED BY <1>1, <1>3

\* The arms of extract_aws_region.
LEMMA Arms ==
  ASSUME NEW S, NEW t \in Seq(S)
  PROVE  /\ Len(t) = 1 /\ t[1] = "s3" => extract_aws_region(t) = None
         /\ Len(t) = 2 /\ t[1] = "s3" => extract_aws_region(t) = t[2]
         /\ Len(t) = 3 /\ t[2] = "s3" => extract_aws_region(t) = t[3]
         /\ Len(t) = 1 /\ t[1] \in DOMAIN Hyphen => extract_aws_region(t) = Hyphen[t[1]]
         /\ Len(t) >= 2 /\ ~(Len(t) = 2 /\ t[1] = "s3") /\ ~(Len(t) = 3 /\ t[2] = "s3") =>
              extract_aws_region(t) = RegionAfter(t, Rightmost(t))
<1>1. Len(<<"s3">>) = 1 /\ <<"s3">>[1] = "s3"
  OBVIOUS
<1>2. t = <<"s3">> <=> Len(t) = 1 /\ t[1] = "s3"
  OBVIOUS
<1>3. "s3" \notin DOMAIN Hyphen
  BY UrlAssumption
<1>4. Len(t) \in Nat
  OBVIOUS
<1>5. Len(t) = 1 /\ t[1] = "s3" => extract_aws_region(t) = None
  BY <1>2, <1>3 DEF extract_aws_region
<1>6. Len(t) = 2 /\ t[1] = "s3" => extract_aws_region(t) = t[2]
  BY <1>2 DEF extract_aws_region
<1>7. Len(t) = 3 /\ t[2] = "s3" => extract_aws_region(t) = t[3]
  BY <1>2 DEF extract_aws_region
<1>8. Len(t) = 1 /\ t[1] \in DOMAIN Hyphen => extract_aws_region(t) = Hyphen[t[1]]
  BY <1>2, <1>3 DEF extract_aws_region
<1>9. Len(t) >= 2 /\ ~(Len(t) = 2 /\ t[1] = "s3") /\ ~(Len(t) = 3 /\ t[2] = "s3") =>
        extract_aws_region(t) = RegionAfter(t, Rightmost(t))
  <2> SUFFICES ASSUME Len(t) >= 2, ~(Len(t) = 2 /\ t[1] = "s3"), ~(Len(t) = 3 /\ t[2] = "s3")
               PROVE  extract_aws_region(t) = RegionAfter(t, Rightmost(t))
    OBVIOUS
  <2>1. t # <<"s3">> /\ Len(t) # 1
    BY <1>2, <1>4
  <2> QED BY <2>1 DEF extract_aws_region, Rightmost
<1> QED BY <1>5, <1>6, <1>7, <1>8, <1>9

\* A bucket of k labels, the label s3 and a region.
LEMMA RegionPair ==
  ASSUME NEW S, NEW t \in Seq(S), NEW k \in Nat, Len(t) = k + 2, t[k + 1] = "s3",
         k >= 1 => t[k] # "s3" /\ t[k + 2] \notin DOMAIN Hyphen
  PROVE  extract_aws_region(t) = t[k + 2]
<1>1. CASE k = 0
  <2>1. Len(t) = 2 /\ t[1] = "s3" /\ k + 2 = 2
    BY <1>1
  <2> QED BY <2>1, Arms
<1>2. CASE k = 1
  <2>1. Len(t) = 3 /\ t[2] = "s3" /\ k + 2 = 3
    BY <1>2
  <2> QED BY <2>1, Arms
<1>3. CASE k >= 2
  <2> PICK i \in Nat : i = k + 1 /\ i > 1 /\ i = Len(t) - 1 /\ i # Len(t) /\ i + 1 = k + 2 /\ i \in 2..Len(t) /\ i < Len(t)
    BY <1>3
  <2>1. i \in Infixes(t)
    BY DEF Infixes
  <2>2. \A j \in Infixes(t) : j \in 2..Len(t) /\ j # k + 2
    BY <1>3 DEF Infixes
  <2>3. \A j \in 2..Len(t) : j # k + 2 => j <= i
    OBVIOUS
  <2>4. Rightmost(t) = i
    <3>1. Rightmost(t) \in Nat /\ i <= Rightmost(t) /\ Rightmost(t) \in Infixes(t) \cup {0}
      BY <2>1, RightmostIs
    <3>2. Rightmost(t) # 0
      BY <3>1
    <3>3. Rightmost(t) <= i
      BY <2>2, <2>3, <3>1, <3>2
    <3> QED BY <3>1, <3>3
  <2>5. Len(t) >= 2 /\ Len(t) # 2 /\ Len(t) # 3
    BY <1>3
  <2>6. extract_aws_region(t) = RegionAfter(t, i)
    BY <2>4, <2>5, Arms
  <2>7. RegionAfter(t, i) = t[i + 1]
    BY DEF RegionAfter
  <2> QED BY <2>6, <2>7
<1>4. k = 0 \/ k = 1 \/ k >= 2
  OBVIOUS
<1> QED BY <1>1, <1>2, <1>3, <1>4

LEMMA NotShort ==
  ASSUME NEW S, NEW t \in Seq(S), NEW k \in Nat, Len(t) = k + 1, k >= 1, t[k] # "s3"
  PROVE  extract_aws_region(t) = RegionAfter(t, Rightmost(t))
<1>1. Len(t) >= 2 /\ (Len(t) = 2 => k = 1) /\ (Len(t) = 3 => k = 2)
  OBVIOUS
<1>2. ~(Len(t) = 2 /\ t[1] = "s3") /\ ~(Len(t) = 3 /\ t[2] = "s3")
  BY <1>1
<1> QED BY <1>1, <1>2, Arms

\* A bucket of k labels and a label s3-<region>.
LEMMA RegionHyphen ==
  ASSUME NEW S, NEW t \in Seq(S), NEW k \in Nat, Len(t) = k + 1, t[k + 1] \in DOMAIN Hyphen,
         k >= 1 => t[k] # "s3"
  PROVE  extract_aws_region(t) = Hyphen[t[k + 1]]
<1>1. CASE k = 0
  <2>1. Len(t) = 1 /\ k + 1 = 1
    BY <1>1
  <2> QED BY <2>1, Arms
<1>2. CASE k >= 1
  <2> PICK i \in Nat : i = k + 1 /\ i > 1 /\ i = Len(t) /\ i \in 2..Len(t)
    BY <1>2
  <2>1. i \in Infixes(t)
    BY DEF Infixes
  <2>2. \A j \in Infixes(t) : j \in 2..Len(t)
    BY DEF Infixes
  <2>3. Rightmost(t) = i
    <3>1. Rightmost(t) \in Nat /\ i <= Rightmost(t) /\ Rightmost(t) \in Infixes(t) \cup {0}
      BY <2>1, RightmostIs
    <3> QED BY <2>2, <3>1
  <2>4. extract_aws_region(t) = RegionAfter(t, i)
    BY <1>2, <2>3, NotShort
  <2>5. i # Len(t) - 1
    OBVIOUS
  <2>6. RegionAfter(t, i) = Hyphen[t[i]]
    BY <2>5 DEF RegionAfter
  <2> QED BY <2>4, <2>6
<1>3. k = 0 \/ k >= 1
  OBVIOUS
<1> QED BY <1>1, <1>2, <1>3

\* A bucket of k labels and the label s3.
LEMMA RegionNone ==
  ASSUME NEW S, NEW t \in Seq(S), NEW k \in Nat, Len(t) = k + 1, t[k + 1] = "s3",
         k >= 1 => t[k] # "s3"
  PROVE  extract_aws_region(t) = None
<1>1. CASE k = 0
  <2>1. Len(t) = 1 /\ t[1] = "s3"
    BY <1>1
  <2> QED BY <2>1, Arms
<1>2. CASE k >= 1
  <2>1. extract_aws_region(t) = RegionAfter(t, Rightmost(t))
    BY <1>2, NotShort
  <2>2. Rightmost(t) # Len(t)
    <3>1. Len(t) \notin Infixes(t)
      <4>1. t[Len(t)] = "s3" /\ t[Len(t)] \notin DOMAIN Hyphen /\ ~(Len(t) < Len(t))
        BY UrlAssumption
      <4> QED BY <4>1 DEF Infixes
    <3>2. Len(t) # 0
      OBVIOUS
    <3> QED BY <3>1, <3>2, RightmostIs
  <2>3. Len(t) - 1 = k
    OBVIOUS
  <2>4. RegionAfter(t, Rightmost(t)) = None
    BY <1>2, <2>2, <2>3 DEF RegionAfter
  <2> QED BY <2>1, <2>4
<1>3. k = 0 \/ k >= 1
  OBVIOUS
<1> QED BY <1>1, <1>2, <1>3


\* The bucket is k labels of the host, none with path addressing.
LEMMA BucketPlace ==
  ASSUME NEW r, NEW u, Comes(r, u), r.kind = "S3", ~Shadowed(r)
  PROVE  \E k \in 0..Len(u.host) :
           /\ normalize_endpoint(r) = SubSeq(u.host, k + 1, Len(u.host))
           /\ k >= 1 => u.host[k] # "s3" /\ (Infixes(u.host) # {} => k + 1 = Max(Infixes(u.host)))
<1>0. u.host \in Seq(ToSet(u.host)) /\ r.endpoint.host = u.host /\ r.addressing \in {"path", "virtual"}
  BY DEF Comes, S3Parts, AzureParts, Endpoint
<1>1. CASE r.addressing = "virtual"
  <2>1. PICK k \in 1..Len(u.host) :
           /\ r.bucket = SubSeq(u.host, 1, k) /\ normalize_endpoint(r) = SubSeq(u.host, k + 1, Len(u.host))
           /\ Infixes(u.host) # {} => k + 1 = Max(Infixes(u.host))
    BY <1>1, BucketEnds
  <2>2. k \in 0..Len(u.host) /\ k \in 1..k
    OBVIOUS
  <2>3. Len(r.bucket) = k /\ r.bucket[k] = u.host[k]
    BY <1>0, <2>1, <2>2, Cut
  <2>4. u.host[k] # "s3"
    BY <2>3 DEF Shadowed
  <2> QED BY <2>1, <2>2, <2>4
<1>2. CASE r.addressing = "path"
  <2>1. normalize_endpoint(r) = u.host
    BY <1>0, <1>2 DEF normalize_endpoint
  <2>2. 0 \in 0..Len(u.host) /\ 0 + 1 = 1 /\ ~(0 >= 1)
    BY <1>0
  <2>3. SubSeq(u.host, 1, Len(u.host)) = u.host
    BY <1>0, SubSeqFull
  <2> QED BY <2>1, <2>2, <2>3
<1> QED BY <1>0, <1>1, <1>2

LEMMA RegionOfCases ==
  ASSUME NEW e
  PROVE  /\ Len(e) = 2 /\ e[1] = "s3" => RegionOf(e) = {e[2]}
         /\ Len(e) = 1 /\ e[1] \in DOMAIN Hyphen => RegionOf(e) = {Hyphen[e[1]]}
         /\ e = <<"s3">> => RegionOf(e) = {None} /\ Len(e) = 1 /\ e[1] = "s3"
         /\ RegionOf(e) # {} => \/ Len(e) = 2 /\ e[1] = "s3"
                                \/ Len(e) = 1 /\ e[1] \in DOMAIN Hyphen
                                \/ e = <<"s3">>
<1>1. Len(<<"s3">>) = 1 /\ <<"s3">>[1] = "s3" /\ "s3" \notin DOMAIN Hyphen
  BY UrlAssumption
<1>2. Len(e) = 2 => Len(e) # 1
  OBVIOUS
<1> QED BY <1>1, <1>2 DEF RegionOf

LEMMA EndsApart ==
  ASSUME NEW k \in Nat, NEW m \in Nat, NEW n \in Nat, NEW l \in Nat, k < m, m + 2 <= n, l = m - k
  PROVE  m > 0 /\ n > 2 /\ n # 2 /\ k + 1 < n /\ (l = 1 => m = k + 1) /\ (l = 2 => m = k + 2 /\ k + 2 <= n)
OBVIOUS

LEMMA RegionOfRemote ==
  ASSUME NEW r, NEW u, Comes(r, u), r.kind = "S3", r.flags.region = None, ~Shadowed(r),
         NEW e, e = strip_aws_host_suffix(normalize_endpoint(r)), e # <<>>, RegionOf(e) # {}
  PROVE  resolve_region(r) \in RegionOf(e)
<1> PICK T : T = ToSet(u.host)
  OBVIOUS
<1> PICK host \in Seq(T) : host = u.host
  BY DEF Comes
<1> PICK n \in Nat : n = Len(host)
  OBVIOUS
<1>0. r.endpoint.host = host
  BY DEF Comes, S3Parts, AzureParts, Endpoint
<1>1. PICK k \in 0..n : /\ normalize_endpoint(r) = SubSeq(host, k + 1, n)
                        /\ k >= 1 => host[k] # "s3" /\ (Infixes(host) # {} => k + 1 = Max(Infixes(host)))
  BY BucketPlace
<1>2. PICK m \in Nat : /\ k < m /\ m + 2 <= n /\ strip_aws_host_suffix(host) = SubSeq(host, 1, m)
                       /\ e \in Seq(T) /\ Len(e) = m - k /\ \A i \in 1..(m - k) : e[i] = host[k + i]
  <2> PICK rest : rest = SubSeq(host, k + 1, n)
    OBVIOUS
  <2>1. e = strip_aws_host_suffix(rest) /\ e # <<>>
    BY <1>1
  <2> PICK f : f = e
    OBVIOUS
  <2>2. f = strip_aws_host_suffix(rest) /\ f # <<>>
    BY <2>1
  <2>3. \E m \in Nat : Between(T, host, k, m, f)
    BY <2>2, StripTail
  <2> QED BY <2>3 DEF Between
<1> PICK l \in Nat : l = Len(e)
  BY <1>2
<1>2a. k \in Nat /\ k < m /\ m + 2 <= n /\ l = m - k
  BY <1>2
<1>2b. m > 0 /\ n > 2 /\ n # 2 /\ k + 1 < n /\ (l = 1 => m = k + 1) /\ (l = 2 => m = k + 2 /\ k + 2 <= n)
  BY <1>2a, EndsApart
<1> PICK t : t = SubSeq(host, 1, m)
  OBVIOUS
<1>3. t \in Seq(T) /\ Len(t) = m /\ \A i \in 1..m : t[i] = host[i]
  <2>1. m \in 0..n
    BY <1>2
  <2>2. Len(t) = m /\ \A i \in 1..m : t[i] = host[i]
    BY <2>1, Cut
  <2>3. \A i \in 1..m : host[i] \in T
    BY <2>1
  <2>4. t \in Seq(T)
    BY <2>3, SubSeqProperties
  <2> QED BY <2>2, <2>4
<1>4. resolve_region(r) = extract_aws_region(t)
  <2>1. host # <<"amazonaws", "com">>
    <3>1. Len(<<"amazonaws", "com">>) = 2
      OBVIOUS
    <3>2. n # 2
      BY <1>2b
    <3> QED BY <3>1, <3>2
  <2>2. t # <<>>
    <3>1. Len(<<>>) = 0 /\ m # 0
      BY <1>2b
    <3> QED BY <1>3, <3>1
  <2>3. strip_aws_host_suffix(r.endpoint.host) = t
    BY <1>0, <1>2
  <2> QED BY <1>0, <2>1, <2>2, <2>3 DEF resolve_region
<1>5. "s3" \notin DOMAIN Hyphen
  BY UrlAssumption
<1>6. k \in Nat /\ (k >= 1 => k \in 1..m) /\ k + 1 \in 1..m /\ 1 \in 1..(m - k)
  BY <1>2a
<1>7. (k >= 1 => t[k] # "s3") /\ t[k + 1] = e[1]
  BY <1>1, <1>2, <1>3, <1>6
<1>8. CASE Len(e) = 2 /\ e[1] = "s3"
  <2>0. l = 2
    BY <1>8
  <2>1. m = k + 2 /\ k + 2 \in 1..m /\ 2 \in 1..(m - k)
    BY <1>2a, <1>2b, <2>0
  <2>2. t[k + 2] = e[2] /\ t[k + 2] = host[k + 2]
    BY <1>2, <1>3, <2>1
  <2>3. ASSUME k >= 1 PROVE host[k + 2] \notin DOMAIN Hyphen
    <3>1. k + 1 \in 2..n /\ k + 1 < n /\ k + 2 \in 2..n /\ ~(k + 2 <= k + 1)
      BY <1>2a, <2>1, <2>3
    <3>2. host[k + 1] = "s3"
      BY <1>3, <1>6, <1>7, <1>8
    <3>3. k + 1 \in Infixes(host)
      BY <3>1, <3>2 DEF Infixes
    <3>4. k + 1 = Max(Infixes(host)) /\ \A i \in Infixes(host) : i <= k + 1
      <4>1. k + 1 = Max(Infixes(host))
        BY <1>1, <2>3, <3>3
      <4>2. \A i \in Infixes(host) : i <= Max(Infixes(host))
        BY <3>3, InfixPlaces
      <4> QED BY <4>1, <4>2
    <3>5. k + 2 \notin Infixes(host)
      BY <3>1, <3>4
    <3> QED BY <3>1, <3>5 DEF Infixes
  <2>4. extract_aws_region(t) = t[k + 2]
    <3>1. t \in Seq(T) /\ k \in Nat /\ Len(t) = k + 2 /\ t[k + 1] = "s3"
      <4>1. Len(t) = k + 2
        BY <1>3, <2>1, Zenon
      <4>2. t[k + 1] = "s3"
        BY <1>7, <1>8, Zenon
      <4> QED BY <1>3, <1>6, <4>1, <4>2, Zenon
    <3>2. k >= 1 => t[k] # "s3" /\ t[k + 2] \notin DOMAIN Hyphen
      BY <1>7, <2>2, <2>3
    <3> QED BY <3>1, <3>2, RegionPair
  <2>5. RegionOf(e) = {e[2]}
    BY <1>8, RegionOfCases
  <2> QED BY <1>4, <2>2, <2>4, <2>5
<1>9. CASE Len(e) = 1 /\ e[1] \in DOMAIN Hyphen
  <2>1. m = k + 1
    <3>1. l = 1
      BY <1>9
    <3> QED BY <1>2b, <3>1
  <2>2. extract_aws_region(t) = Hyphen[e[1]]
    <3>1. /\ t \in Seq(T) /\ k \in Nat /\ Len(t) = k + 1 /\ t[k + 1] = e[1] /\ t[k + 1] \in DOMAIN Hyphen
          /\ k >= 1 => t[k] # "s3"
      BY <1>3, <1>7, <1>9, <2>1
    <3>2. extract_aws_region(t) = Hyphen[t[k + 1]]
      BY <3>1, RegionHyphen
    <3> QED BY <3>1, <3>2
  <2>3. RegionOf(e) = {Hyphen[e[1]]}
    BY <1>9, RegionOfCases
  <2> QED BY <1>4, <2>2, <2>3
<1>10. CASE e = <<"s3">>
  <2>0. Len(e) = 1 /\ e[1] = "s3" /\ Len(e) # 2 /\ e[1] \notin DOMAIN Hyphen
    BY <1>5, <1>10
  <2>1. m = k + 1
    <3>1. l = 1
      BY <2>0
    <3> QED BY <1>2b, <3>1
  <2>2. extract_aws_region(t) = None
    <3>1. t \in Seq(T) /\ k \in Nat /\ Len(t) = k + 1 /\ t[k + 1] = "s3" /\ (k >= 1 => t[k] # "s3")
      BY <1>3, <1>7, <2>0, <2>1
    <3> QED BY <3>1, RegionNone
  <2>3. RegionOf(e) = {None}
    BY <1>10, RegionOfCases
  <2> QED BY <1>4, <2>2, <2>3
<1> QED BY <1>8, <1>9, <1>10, RegionOfCases

LEMMA RegionsAll == RegionsAgree
<1>1. ASSUME NEW r \in Remotes, NEW e, e = strip_aws_host_suffix(normalize_endpoint(r)),
             r.kind = "S3", r.flags.region = None, ~Shadowed(r), e # <<>>, RegionOf(e) # {}
      PROVE  resolve_region(r) \in RegionOf(e)
  BY <1>1, Coming, RegionOfRemote
<1> QED BY <1>1 DEF RegionsAgree

\* A remote has one address and one region: what is shown of a remote is
\* read back as that remote (parse and Display of url.rs); the SDKs, which
\* encode the key once more, address the object that is named by the URL as it
\* is written with the key appended, on either store and with either
\* addressing style (normalize_endpoint, build_container_url); bundle-uri
\* tells an address of that object when it is signed or no segment of the
\* prefix has a percent-encoding; extract_aws_region finds in the whole host
\* the region of the endpoint that is left without the bucket.  For every URL,
\* encoding and environment, however long the host, path and query are.
THEOREM AddressesAreOne == Spec => []OneAddress
<1>1. OneAddress
  BY RoundTripsAll, AddressesAll, RegionsAll DEF OneAddress
<1> QED BY <1>1, PTL DEF Spec
=============================================================================
