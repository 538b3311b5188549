------------------------------ MODULE MCScopes ------------------------------
(* Scopes for TLC: every file of up to MaxNodes nodes and MaxSymbols symbols. *)
EXTENDS Scopes, SequencesExt

CONSTANTS MaxNodes, MaxSymbols, a, b

(* The parent of each node, numbered in pre-order as traverse_all_nodes does: *)
(* a node's parent is the node before it or an ancestor of that one.          *)
Trees(n) ==
  LET Up(p) == LET U[m \in 1..n] == {m} \cup IF m = 1 THEN {} ELSE U[p[m]] IN U
  IN  {p \in [1..n -> 0..(n - 1)] :
         /\ \A m \in 1..n : p[m] < m /\ (p[m] = 0 <=> m = 1)
         /\ \A m \in 2..n : p[m] \in Up(p)[m - 1]}

Children(p) == [m \in DOMAIN p |-> SetToSortSeq({c \in DOMAIN p : p[c] = m}, <)]

(* The extractors walk the nodes in order. *)
SymbolLists(n) ==
  {s \in [1..(IF n = 0 THEN 0 ELSE MaxSymbols) -> [node : 1..n, name : Names]] :
     \A i \in DOMAIN s : i = 1 \/ s[i - 1].node <= s[i].node}

MCInputs ==
  UNION {[children : {Children(p) : p \in Trees(n)}, opens : [1..n -> BOOLEAN],
          symbols : SymbolLists(n)] : n \in {0, MaxNodes}}
MCNames == {a, b}
MCForeign == <<a>>
=============================================================================
