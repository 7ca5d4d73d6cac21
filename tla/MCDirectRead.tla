----------------------------- MODULE MCDirectRead -----------------------------
(* DirectRead for TLC: s1 <- s2; a file that both have and one added in s2. *)
EXTENDS DirectRead, TLC

CONSTANTS s1, s2, b1, b2

MCPair         == {s1, s2}
MCPairAncestor == {<<s1, s1>>, <<s2, s2>>, <<s1, s2>>}
MCWriteKinds   == {"push", "compact"}
MCNoReader     == {}

\* Two directories with the same contents, a link, a submodule; s2 adds a file.
MCTrees ==
  LET e(kind, id) == [kind |-> kind, id |-> id]
      dirs == ("d" :> e("tree", "td")) @@ ("e" :> e("tree", "td"))
  IN ("t1" :> dirs) @@ ("t2" :> (dirs @@ ("new" :> e("link", b2)) @@ ("m" :> e("commit", "gone"))))
       @@ ("td" :> ("f" :> e("blob", b1)))
MCTreeOf == (s1 :> "t1") @@ (s2 :> "t2")

Old == <<"e", "f">>
New == <<"new">>
MCPaths  == {Old, New, <<"d">>, <<"m">>, <<"d", "..", "new">>}
MCBlobAt ==
  [c \in Commits |-> [x \in MCPaths |-> CASE x = Old -> b1 [] x = New /\ c = s2 -> b2 [] OTHER -> None]]

\* The index of a full pack fills the cache and evicts all others.
MCIdxBytes == (None :> 2) @@ (s1 :> 1) @@ (s2 :> 1)

\* Bases shorter and longer than the default copy.
MCPayloads == {<<>>, <<"a">>, <<"a", "b", "b", "a">>, <<"a", "b", "a", "a", "b", "b">>}

\* Every pack of three objects.
MCPlans ==
  {p \in [1..3 -> [base : 0..3, len : 1..2]] : \A i \in 1..3 : p[i].base # i}

ASSUME HistoryAssumption == GitHistory

Symmetry == Permutations(Readers)
=============================================================================
