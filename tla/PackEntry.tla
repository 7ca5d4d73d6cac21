------------------------------ MODULE PackEntry -------------------------------
(***************************************************************************)
(* Decoding one object of a pack (packchain/read.rs): the byte range that  *)
(* is fetched for an entry, the chain of deltas below it, and the deltas   *)
(* themselves.                                                             *)
(*                                                                         *)
(* A pack is a function from the offsets of its entries to the entries,    *)
(* with the length of each; its index finds the offset of an object.  A    *)
(* delta is the sequence of its operations; the operands of a copy are     *)
(* their stored bytes, a partial function from positions to digits, since  *)
(* the operation's flags leave bytes of zero out.                          *)
(***************************************************************************)
EXTENDS Integers, Sequences, FiniteSets, SequencesExt

CONSTANTS Base,         \* values of a byte of an operand, 256 in the code
          DefaultCopy,  \* GIT_DELTA_DEFAULT_COPY_SIZE
          MaxDepth,     \* MAX_DELTA_DEPTH
          MaxRange,     \* MAX_RANGE_BYTES
          Trailer,      \* length of a pack's trailer
          Payloads,     \* contents of base objects, sequences of "a" and "b"
          Plans         \* packs to decode: for each object, in order, the
                        \* object it is a delta of (0 for none) and its length

Letters == {"a", "b"}

\* The operands of a copy are wide enough for the payloads, an entry and the
\* trailer behind the last one fit in the largest range.
ASSUME EntryAssumption ==
  /\ Base \in Nat \ {0, 1} /\ DefaultCopy \in Nat \ {0} /\ MaxDepth \in Nat
  /\ MaxRange \in Nat /\ Trailer \in Nat
  /\ \A p \in Payloads : p \in Seq(Letters) /\ Len(p) < Base * (Base * Base)
  /\ \A p \in Plans : /\ p \in Seq([base : Nat, len : Nat \ {0}])
                      /\ \A i \in 1..Len(p) : p[i].base \in 0..Len(p) /\ p[i].len + Trailer <= MaxRange

Malformed == <<"malformed">>

-----------------------------------------------------------------------------
(* Deltas.                                                                 *)

read_packed_operand(f) ==
  LET byte(k) == IF k \in DOMAIN f THEN f[k] ELSE 0
  IN byte(0) + Base * (byte(1) + Base * (byte(2) + Base * byte(3)))

\* apply_delta_copy_op and apply_delta_insert_op, appended to what is there.
ApplyOp(base, out, o) ==
  LET offset == read_packed_operand(o.offset)
      stored == read_packed_operand(o.size)
      size   == IF stored = 0 THEN DefaultCopy ELSE stored
  IN IF out = Malformed THEN Malformed
     ELSE IF o.kind = "insert" THEN out \o o.bytes
     ELSE IF offset + size > Len(base) THEN Malformed
     ELSE out \o SubSeq(base, offset + 1, offset + size)

\* apply_delta; no operation may take the result past the announced size.
apply_delta(base, delta) ==
  LET Out[k \in 0..Len(delta.ops)] ==
        IF k = 0 THEN <<>>
        ELSE LET new == ApplyOp(base, Out[k - 1], delta.ops[k])
             IN IF new # Malformed /\ Len(new) > delta.dst THEN Malformed ELSE new
      out == Out[Len(delta.ops)]
  IN IF delta.src # Len(base) \/ out = Malformed \/ Len(out) # delta.dst THEN Malformed ELSE out

-----------------------------------------------------------------------------
(* Entries.  pack.at: the entries by offset; pack.len: their lengths;      *)
(* pack.of: the offset of each object in the index.                        *)

Size(pack) ==
  LET last == CHOOSE o \in DOMAIN pack.at : \A x \in DOMAIN pack.at : x <= o
  IN last + pack.len[last] + Trailer

\* The entries after an offset, and the next one.
Later(pack, off) == {o \in DOMAIN pack.at : o > off}
NextEntry(pack, off) ==
  CHOOSE o \in Later(pack, off) : \A x \in Later(pack, off) : o <= x

\* Mutant: the range of the last entry ends where that of the one before does.
EntryEndLast(pack, off) ==
  IF Later(pack, off) # {} THEN NextEntry(pack, off) ELSE off + Trailer

\* fetch_entry_bytes: up to the next entry, or to the end of the pack.
EntryEnd(pack, off) ==
  IF Later(pack, off) # {} THEN NextEntry(pack, off) ELSE Size(pack)

\* inflate_to finds the whole entry in the range; wider ranges
\* (inflate_with_retry) are for entries that the index does not bound.
Inflates(pack, off) ==
  LET span == EntryEnd(pack, off) - off
  IN span <= MaxRange /\ span >= pack.len[off]

TooDeep(depth) == depth > MaxDepth

\* decode_entry, with read_object_from_chain for the base of a REF_DELTA in
\* the pack; an OFS_DELTA has its base at a distance before it.
decode_entry(pack, start) ==
  LET base(off) == IF pack.at[off].kind = "ofs" THEN off - pack.at[off].distance
                   ELSE pack.of[pack.at[off].base]
      D[depth \in 0..(MaxDepth + 1)] ==
        [off \in DOMAIN pack.at |->
           IF TooDeep(depth) \/ ~Inflates(pack, off) THEN Malformed
           ELSE IF pack.at[off].kind = "full" THEN pack.at[off].data
           ELSE LET below == D[depth + 1][base(off)]
                IN IF below = Malformed THEN Malformed ELSE apply_delta(below, pack.at[off].delta)]
  IN D[0][start]

\* read_object_from_chain with verify_content_hash, in the pack that has it.
ReadObject(pack, oid, content) ==
  LET got == decode_entry(pack, pack.of[oid])
  IN IF got = content[oid] THEN got ELSE Malformed

-----------------------------------------------------------------------------
(* What git writes: the reference that decoding is checked against.        *)

\* The nonzero digits of an operand.
Digit(v, i) ==
  CASE i = 0 -> v % Base
    [] i = 1 -> (v \div Base) % Base
    [] i = 2 -> ((v \div Base) \div Base) % Base
    [] i = 3 -> (((v \div Base) \div Base) \div Base) % Base

Stored(v, digits) ==
  [i \in {i \in 0..(digits - 1) : Digit(v, i) # 0} |-> Digit(v, i)]

NoOperand == [i \in {} |-> 0]

\* A script is a sequence of literal bytes and spans of the base.
Literal(bytes) == [kind |-> "insert", bytes |-> bytes, from |-> 0, n |-> 0]
Span(from, n)  == [kind |-> "copy", bytes |-> <<>>, from |-> from, n |-> n]

Piece(base, x) == IF x.kind = "insert" THEN x.bytes ELSE SubSeq(base, x.from + 1, x.from + x.n)

Text(base, s) ==
  LET T[k \in 0..Len(s)] == IF k = 0 THEN <<>> ELSE T[k - 1] \o Piece(base, s[k])
  IN T[Len(s)]

Operation(x) ==
  [kind |-> x.kind, bytes |-> x.bytes, offset |-> Stored(x.from, 4),
   size |-> IF x.n = DefaultCopy THEN NoOperand ELSE Stored(x.n, 3)]

Encoded(base, s) ==
  [src |-> Len(base), dst |-> Len(Text(base, s)), ops |-> [i \in 1..Len(s) |-> Operation(s[i])]]

Scripts(base) ==
  SeqOf({Literal(<<"b">>), Literal(<<"a", "b">>)}
          \cup {Span(c[1], c[2]) : c \in {c \in (0..Len(base)) \X (1..Len(base)) :
                                            c[1] + c[2] <= Len(base)}}, 2)

\* Object i of a plan is the letter a and i letters b; a delta copies the a.
Object(i) == <<"a">> \o [j \in 1..i |-> "b"]

At(plan, i) ==
  LET O[k \in 0..Len(plan)] == IF k = 0 THEN 12 ELSE O[k - 1] + plan[k].len IN O[i - 1]

Planned(plan, i) ==
  LET b     == plan[i].base
      delta == Encoded(Object(b), <<Span(0, 1), Literal(Tail(Object(i)))>>)
  IN IF b = 0 THEN [kind |-> "full", data |-> Object(i)]
     ELSE IF b < i THEN [kind |-> "ofs", distance |-> At(plan, i) - At(plan, b), delta |-> delta]
     ELSE [kind |-> "ref", base |-> b, delta |-> delta]

Packed(plan) ==
  LET which(off) == CHOOSE i \in 1..Len(plan) : At(plan, i) = off
      offsets    == {At(plan, i) : i \in 1..Len(plan)}
  IN [at  |-> [o \in offsets |-> Planned(plan, which(o))],
      len |-> [o \in offsets |-> plan[which(o)].len],
      of  |-> [i \in 1..Len(plan) |-> At(plan, i)]]

\* The objects with a whole one at most so many deltas below them.
Within(plan, hops) ==
  LET whole == {i \in 1..Len(plan) : plan[i].base = 0}
      W[n \in 0..hops] ==
        IF n = 0 THEN whole ELSE whole \cup {i \in 1..Len(plan) : plan[i].base \in W[n - 1]}
  IN W[hops]

-----------------------------------------------------------------------------
(* What DirectRead states of every payload of Payloads and every pack of   *)
(* Plans.                                                                  *)

DeltasDecode ==
  \A base \in Payloads : \A s \in Scripts(base) :
    LET d == Encoded(base, s)
    IN /\ apply_delta(base, d) = Text(base, s)
       /\ \A i \in DOMAIN s : apply_delta(base, [d EXCEPT !.ops = RemoveAt(@, i)]) = Malformed

PacksDecode ==
  \A plan \in Plans : \A i \in 1..Len(plan) :
    ReadObject(Packed(plan), i, [j \in 1..Len(plan) |-> Object(j)]) =
      IF i \in Within(plan, MaxDepth) THEN Object(i) ELSE Malformed
=============================================================================
