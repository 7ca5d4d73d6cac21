------------------------------ MODULE PathIndex -------------------------------
(***************************************************************************)
(* path-index.json: how a push builds it from the tip's tree               *)
(* (packchain/git.rs) and how read_blob finds a path in it                 *)
(* (packchain/read.rs).                                                    *)
(***************************************************************************)
EXTENDS Integers, Sequences, FiniteSets

CONSTANT Trees  \* Trees[t][name]: an entry of tree t, its kind and object

Subtrees(t) == {n \in DOMAIN Trees[t] : Trees[t][n].kind = "tree"}

Kids(t) == {Trees[t][n].id : n \in Subtrees(t)}

TreeEntries == UNION {{Trees[t][n] : n \in DOMAIN Trees[t]} : t \in DOMAIN Trees}

\* What a repository of git has: every tree with its subtrees, and no tree
\* below itself, as each is named after its content.
GitTrees ==
  /\ IsFiniteSet(DOMAIN Trees)
  /\ \A t \in DOMAIN Trees : Kids(t) \subseteq DOMAIN Trees
  /\ \A set \in SUBSET DOMAIN Trees : set # {} => \E t \in set : Kids(t) \cap set = {}
  /\ \A e \in TreeEntries : e.id \notin {"absent", "tree"}

\* The entries that the names of a path lead to, from the root down.
Leads(root, path, e) ==
  \A k \in 1..Len(path) :
    LET t == IF k = 1 THEN root ELSE e[k - 1].id
    IN /\ k # 1 => e[k - 1].kind = "tree"
       /\ path[k] \in DOMAIN Trees[t] /\ e[k] = Trees[t][path[k]]

\* What git finds at a path, trees and submodules apart: one blob, or none.
GitBlobs(root, path) ==
  {e[Len(path)].id : e \in {e \in [1..Len(path) -> TreeEntries] :
                             Leads(root, path, e) /\ e[Len(path)].kind \notin {"tree", "commit"}}}

\* The check for cycles in walk_tree, along one descent.
Cyclic(root) ==
  LET C[t \in DOMAIN Trees] ==
        [above \in SUBSET DOMAIN Trees |->
           t \in above \/ \E n \in Subtrees(t) : C[Trees[t][n].id][above \cup {t}]]
  IN C[root][{}]

\* walk_tree: submodules are left out, links are blobs.
walk_tree(root) ==
  LET W[t \in DOMAIN Trees] ==
        [n \in {n \in DOMAIN Trees[t] : Trees[t][n].kind # "commit"} |->
           IF n \in Subtrees(t) THEN [kind |-> "tree", sub |-> W[Trees[t][n].id]]
           ELSE [kind |-> "blob", sub |-> Trees[t][n].id]]
  IN W[root]

\* What extract_path_index returns, no entries when the push fails (TreeCycle).
extract_path_index(t) == IF Cyclic(t) THEN [n \in {} |-> 0] ELSE walk_tree(t)

\* parse_path: a path is the sequence of what its slashes separate.
parse_path(path) == path # <<>> /\ \A i \in DOMAIN path : path[i] \notin {"", ".", ".."}

\* walk_path: the blob, "absent", or "tree" (PathNotABlob).
walk_path(nodes, path) ==
  LET Node[k \in 0..Len(path)] ==
        IF k = 0 THEN [kind |-> "tree", sub |-> nodes]
        ELSE IF Node[k - 1].kind = "tree" /\ path[k] \in DOMAIN Node[k - 1].sub
             THEN Node[k - 1].sub[path[k]] ELSE [kind |-> "none"]
      last == Node[Len(path)]
  IN CASE last.kind = "none" -> "absent"
       [] last.kind = "tree" -> "tree"
       [] OTHER              -> last.sub
=============================================================================
