------------------------------- MODULE Scopes -------------------------------
(***************************************************************************)
(* The lexical half of one translation unit: build_scope_tree,             *)
(* associate_symbols, ScopeVisibility::compute, lookup and                 *)
(* IdentifierResolver::resolve, each loop one iteration a step, on any     *)
(* tree and any symbol list.                                               *)
(*                                                                         *)
(* Nodes, scopes and symbols are numbered from 1 (from 0 in the code), so  *)
(* 0 stands for the code's size_t(-1).  A node keeps of its type only      *)
(* whether it opens a scope, a symbol its node and its name, a file other  *)
(* than this one the names it declares.                                    *)
(***************************************************************************)
EXTENDS Naturals, Sequences, FiniteSets

CONSTANTS
  Names,    \* unqualified names
  Inputs,   \* parsed files: the nodes' children, which nodes open a scope, the symbols
  Foreign   \* the names of the symbols of the other files, in workspace order

InvalidId == 0
InvalidSymbol == 0
NodesOf(in) == DOMAIN in.children

(* What parse and extract_symbols hand over. *)
InputType(in) ==
  /\ in = [children |-> in.children, opens |-> in.opens, symbols |-> in.symbols]
  /\ in.children \in Seq(Seq(NodesOf(in)))
  /\ in.opens \in [NodesOf(in) -> BOOLEAN]
  /\ in.symbols \in Seq([node : NodesOf(in) \cup {InvalidId}, name : Names])

(* The nodes form a tree under the first, numbered in the order in which    *)
(* traverse_all_nodes meets them: a parent before its children.             *)
IsTree(in) ==
  \A n \in NodesOf(in) :
    IF n = 1 THEN \A m \in NodesOf(in) : \A i \in DOMAIN in.children[m] : in.children[m][i] # n
    ELSE \E p \in 1..(n - 1) : \E j \in DOMAIN in.children[p] :
           \A m \in NodesOf(in) : \A i \in DOMAIN in.children[m] :
             in.children[m][i] = n <=> m = p /\ i = j

ASSUME InputsAssumption == \A in \in Inputs : InputType(in)
ASSUME TreesAssumption == \A in \in Inputs : IsTree(in)
ASSUME ForeignAssumption == Foreign \in Seq(Names)

VARIABLES
  input,        \* the file; never changes
  pc,           \* "build", "associate", "visible", "ready", "walk" or "answered"
  calls,        \* dfs calls still to be made, the next one first
  scopes,       \* ScopeTree::scopes_
  nodeScope,    \* ScopeTree::nodeScope_
  symbolScope,  \* ScopeTree::symbolScope_
  next,         \* the index of the running for loop
  pos,          \* the index of compute's inner loop
  byName,       \* Entry::byName of every scope
  query,        \* the arguments of resolve, and whether it has a workspace
  current,      \* lookup's current scope
  result,       \* lookup's result
  answer        \* ResolutionResult

fileVars == <<input>>
treeVars == <<calls, scopes, nodeScope>>
assocVars == <<scopes, symbolScope>>
visVars == <<pos, byName>>
queryVars == <<query, current, result, answer>>
vars == <<input, pc, calls, scopes, nodeScope, symbolScope, next, pos, byName,
          query, current, result, answer>>

Nodes == NodesOf(input)
Symbols == DOMAIN input.symbols
ScopeIds == DOMAIN scopes
SymbolName(k) == input.symbols[k].name
Nothing == [n \in Names |-> InvalidSymbol]

(* classify_node(type) != Unknown *)
OpensScope(n) == input.opens[n]

-----------------------------------------------------------------------------
(* build_scope_tree *)

(* Mutant: the parent is read as the size after the new scope is there. *)
AddScopeSelfParent(node, parent) ==
  Append(scopes, [node |-> node, parent |-> Len(scopes) + 1, children |-> <<>>, symbols |-> <<>>])

(* ScopeTree::add: the new scope, listed with its parent's children. *)
AddScope(node, parent) ==
  LET id == Len(scopes) + 1
  IN  [s \in 1..id |->
        IF s = id THEN [node |-> node, parent |-> parent, children |-> <<>>, symbols |-> <<>>]
        ELSE IF s = parent THEN [scopes[s] EXCEPT !.children = Append(@, id)]
        ELSE scopes[s]]

(* Mutant: the children are visited in the caller's scope. *)
DfsKeepsScope ==
  /\ pc = "build"
  /\ calls # <<>>
  /\ LET node   == Head(calls).node
         opened == OpensScope(node)
     IN  /\ scopes' = IF opened THEN AddScope(node, Head(calls).scope) ELSE scopes
         /\ nodeScope' = [nodeScope EXCEPT ![node] = IF opened THEN Len(scopes) + 1 ELSE Head(calls).scope]
         /\ calls' = [i \in DOMAIN input.children[node] |->
                        [node |-> input.children[node][i], scope |-> Head(calls).scope]] \o Tail(calls)
  /\ UNCHANGED <<input, pc, symbolScope, next, pos, byName, queryVars>>

(* One call of dfs, up to its loop over the children, whose calls come next. *)
Dfs ==
  /\ pc = "build"
  /\ calls # <<>>
  /\ LET node    == Head(calls).node
         opened  == OpensScope(node)
         myScope == IF opened THEN Len(scopes) + 1 ELSE Head(calls).scope
     IN  /\ scopes' = IF opened THEN AddScope(node, Head(calls).scope) ELSE scopes
         /\ nodeScope' = [nodeScope EXCEPT ![node] = myScope]
         /\ calls' = [i \in DOMAIN input.children[node] |->
                        [node |-> input.children[node][i], scope |-> myScope]] \o Tail(calls)
  /\ UNCHANGED <<input, pc, symbolScope, next, pos, byName, queryVars>>

(* dfs has returned from the root; reserveSymbolMap. *)
TreeBuilt ==
  /\ pc = "build"
  /\ calls = <<>>
  /\ pc' = "associate"
  /\ next' = 1
  /\ symbolScope' = [k \in Symbols |-> InvalidId]
  /\ UNCHANGED <<input, treeVars, visVars, queryVars>>

-----------------------------------------------------------------------------
(* associate_symbols *)

(* Mutant: a function is declared in its own body. *)
DeclaringScopeOwn(k) == nodeScope[input.symbols[k].node]

(* The scope symbol k is declared in: the scope of its node, or the parent  *)
(* of that scope when it is the node that opens it.                         *)
DeclaringScope(k) ==
  LET node == input.symbols[k].node
      s    == IF node = InvalidId THEN InvalidId ELSE nodeScope[node]
  IN  IF s # InvalidId /\ scopes[s].node = node /\ scopes[s].parent # InvalidId
      THEN scopes[s].parent
      ELSE s

(* One iteration over the symbols; a symbol without a scope is skipped. *)
Associate ==
  /\ pc = "associate"
  /\ next \in Symbols
  /\ LET s == DeclaringScope(next)
     IN  IF s = InvalidId THEN UNCHANGED assocVars
         ELSE /\ scopes' = [scopes EXCEPT ![s].symbols = Append(@, next)]
              /\ symbolScope' = [symbolScope EXCEPT ![next] = s]
  /\ next' = next + 1
  /\ UNCHANGED <<input, pc, calls, nodeScope, visVars, queryVars>>

(* Mutant: the entries are not resized. *)
AllAssociatedNoResize ==
  /\ pc = "associate"
  /\ next \notin Symbols
  /\ pc' = "visible"
  /\ next' = 0
  /\ pos' = 1
  /\ UNCHANGED <<input, treeVars, symbolScope, byName, queryVars>>

(* The loop ends; compute starts with an empty entry per scope. *)
AllAssociated ==
  /\ pc = "associate"
  /\ next \notin Symbols
  /\ pc' = "visible"
  /\ next' = 0
  /\ pos' = 1
  /\ byName' = [s \in ScopeIds |-> Nothing]
  /\ UNCHANGED <<input, treeVars, symbolScope, queryVars>>

-----------------------------------------------------------------------------
(* ScopeVisibility::compute *)

(* The inner loop over the symbols of scope next is over (or none has begun). *)
LayersDone == next \in ScopeIds => pos > Len(scopes[next].symbols)

(* Mutant: the map of the scope before is copied, not the parent's. *)
InheritPrevious ==
  /\ pc = "visible"
  /\ LayersDone
  /\ next + 1 \in ScopeIds
  /\ next' = next + 1
  /\ pos' = 1
  /\ byName' = [byName EXCEPT ![next + 1] = IF next \in ScopeIds THEN byName[next] ELSE @]
  /\ UNCHANGED <<input, pc, treeVars, symbolScope, queryVars>>

(* The outer loop takes the next scope: copy the parent's map. *)
Inherit ==
  /\ pc = "visible"
  /\ LayersDone
  /\ next + 1 \in ScopeIds
  /\ next' = next + 1
  /\ pos' = 1
  /\ LET parent == scopes[next + 1].parent
     IN  byName' = [byName EXCEPT ![next + 1] = IF parent \in ScopeIds THEN byName[parent] ELSE @]
  /\ UNCHANGED <<input, pc, treeVars, symbolScope, queryVars>>

(* Mutant: emplace, which keeps what is there. *)
LayerKeepsFirst ==
  /\ pc = "visible"
  /\ ~LayersDone
  /\ LET k == scopes[next].symbols[pos]
     IN  byName' = [byName EXCEPT ![next][SymbolName(k)] = IF @ = InvalidSymbol THEN k ELSE @]
  /\ pos' = pos + 1
  /\ UNCHANGED <<input, pc, treeVars, symbolScope, next, queryVars>>

(* The inner loop: the scope's own symbol takes its name over. *)
Layer ==
  /\ pc = "visible"
  /\ ~LayersDone
  /\ LET k == scopes[next].symbols[pos]
     IN  byName' = [byName EXCEPT ![next][SymbolName(k)] = k]
  /\ pos' = pos + 1
  /\ UNCHANGED <<input, pc, treeVars, symbolScope, next, queryVars>>

Computed ==
  /\ pc = "visible"
  /\ LayersDone
  /\ next + 1 \notin ScopeIds
  /\ pc' = "ready"
  /\ UNCHANGED <<input, treeVars, symbolScope, next, visVars, queryVars>>

(* Entry::visible and ScopeVisibility::resolve *)
VisibleIn(s) == {byName[s][n] : n \in Names} \ {InvalidSymbol}
VisibleSymbol(s, n) == IF s \in ScopeIds THEN byName[s][n] ELSE InvalidSymbol

-----------------------------------------------------------------------------
(* IdentifierResolver::resolve, which begins with lookup *)

(* resolve is called for a name at a scope, or at none. *)
Resolve(n, s, w) ==
  /\ pc = "ready"
  /\ query' = [name |-> n, scope |-> s, workspace |-> w]
  /\ current' = s
  /\ pc' = "walk"
  /\ UNCHANGED <<input, treeVars, symbolScope, next, visVars, result, answer>>

(* The symbols scope s declares under name n. *)
Declared(s, n) ==
  {scopes[s].symbols[i] : i \in {i \in DOMAIN scopes[s].symbols : SymbolName(scopes[s].symbols[i]) = n}}

(* Mutant: the walk stays in the outermost scope. *)
LookOutwardStays ==
  /\ pc = "walk"
  /\ result = {}
  /\ current # InvalidId
  /\ Declared(current, query.name) = {}
  /\ current' = IF scopes[current].parent = InvalidId THEN current ELSE scopes[current].parent
  /\ UNCHANGED <<input, pc, treeVars, symbolScope, next, visVars, query, result, answer>>

(* lookup finds nothing in this scope and goes one scope outward. *)
LookOutward ==
  /\ pc = "walk"
  /\ result = {}
  /\ current # InvalidId
  /\ Declared(current, query.name) = {}
  /\ current' = scopes[current].parent
  /\ UNCHANGED <<input, pc, treeVars, symbolScope, next, visVars, query, result, answer>>

(* lookup returns the matches of the first scope that has any. *)
LookupHit ==
  /\ pc = "walk"
  /\ result = {}
  /\ current # InvalidId
  /\ Declared(current, query.name) # {}
  /\ result' = Declared(current, query.name)
  /\ UNCHANGED <<input, pc, treeVars, symbolScope, next, visVars, query, current, answer>>

Here(K) == {[file |-> "here", symbol |-> k] : k \in K}

(* resolve_global: every symbol of the workspace, this file's included. *)
WorkspaceMatches(n) ==
  Here({k \in Symbols : SymbolName(k) = n})
    \cup {[file |-> "elsewhere", symbol |-> j] : j \in {j \in DOMAIN Foreign : Foreign[j] = n}}

(* from_candidates *)
FromCandidates(C) ==
  [status |-> IF C = {} THEN "Unresolved" ELSE IF \E c \in C : C = {c} THEN "Resolved" ELSE "Ambiguous",
   candidates |-> C]

(* Mutant: the workspace's matches are added to lookup's. *)
AnswerWithWorkspace ==
  /\ pc = "walk"
  /\ result # {} \/ current = InvalidId
  /\ answer' = FromCandidates(Here(result)
                 \cup IF query.workspace THEN WorkspaceMatches(query.name) ELSE {})
  /\ pc' = "answered"
  /\ UNCHANGED <<input, treeVars, symbolScope, next, visVars, query, current, result>>

(* lookup has returned: its result, or the workspace's matches if there is one. *)
Answer ==
  /\ pc = "walk"
  /\ result # {} \/ current = InvalidId
  /\ answer' = FromCandidates(IF result # {} THEN Here(result)
                              ELSE IF query.workspace THEN WorkspaceMatches(query.name)
                              ELSE {})
  /\ pc' = "answered"
  /\ UNCHANGED <<input, treeVars, symbolScope, next, visVars, query, current, result>>

-----------------------------------------------------------------------------
Init ==
  /\ input \in Inputs
  /\ pc = "build"
  /\ calls = IF Nodes = {} THEN <<>> ELSE <<[node |-> 1, scope |-> InvalidId]>>
  /\ scopes = <<>>
  /\ nodeScope = [n \in Nodes |-> InvalidId]
  /\ symbolScope = <<>>
  /\ next = 0
  /\ pos = 1
  /\ byName = <<>>
  /\ query = [name |-> InvalidId, scope |-> InvalidId, workspace |-> FALSE]
  /\ current = InvalidId
  /\ result = {}
  /\ answer = FromCandidates({})

(* The steps of the code; when resolve is called is the caller's choice. *)
Step ==
  \/ Dfs
  \/ TreeBuilt
  \/ Associate
  \/ AllAssociated
  \/ Inherit
  \/ Layer
  \/ Computed
  \/ LookOutward
  \/ LookupHit
  \/ Answer

Query == \E n \in Names, s \in ScopeIds \cup {InvalidId}, w \in BOOLEAN : Resolve(n, s, w)

Next == Step \/ Query

Spec == Init /\ [][Next]_vars /\ WF_vars(Step)

-----------------------------------------------------------------------------
(* Types of every variable; the loops stay inside the vectors they index. *)
TypeOK ==
  /\ InputType(input)
  /\ pc \in {"build", "associate", "visible", "ready", "walk", "answered"}
  /\ calls \in Seq([node : Nodes, scope : ScopeIds \cup {InvalidId}])
  /\ scopes \in Seq([node : Nodes, parent : Nat, children : Seq(Nat), symbols : Seq(Symbols)])
  /\ nodeScope \in [Nodes -> ScopeIds \cup {InvalidId}]
  /\ symbolScope \in [IF pc = "build" THEN {} ELSE Symbols -> ScopeIds \cup {InvalidId}]
  /\ next \in Nat /\ pos \in Nat
  /\ byName \in [IF pc \in {"build", "associate"} THEN {} ELSE ScopeIds
                   -> [Names -> Symbols \cup {InvalidSymbol}]]
  /\ query \in [name : Names \cup {InvalidId}, scope : ScopeIds \cup {InvalidId}, workspace : BOOLEAN]
  /\ current \in ScopeIds \cup {InvalidId}
  /\ result \subseteq Symbols
  /\ answer.status \in {"Resolved", "Unresolved", "Ambiguous"}

(* What compute relies on (ast-scope-visibility.cpp, "for every scope id,    *)
(* tree[id].parent_ < id"), and what makes lookup's walk end.               *)
ParentsFirst == \A s \in ScopeIds : scopes[s].parent < s

(* The reference notions: a node with its ancestors; a scope with its, the  *)
(* least set that has with every scope its parent.                          *)
ParentNode(n) == CHOOSE m \in Nodes : \E i \in DOMAIN input.children[m] : input.children[m][i] = n
Above ==
  LET A[n \in Nodes] == {n} \cup IF n = 1 THEN {} ELSE A[ParentNode(n)] IN A
Enclosing(s) ==
  {t \in ScopeIds : \A S \in SUBSET ScopeIds :
     s \in S /\ (\A u \in S : scopes[u].parent \in S \cup {InvalidId}) => t \in S}
Innermost(S) == CHOOSE x \in S : \A y \in S : y <= x

(* s is the scope opened by the innermost of the nodes N, or none. *)
ScopeOfInnermost(s, N) ==
  LET O == {m \in N : OpensScope(m)}
  IN  IF O = {} THEN s = InvalidId ELSE s \in ScopeIds /\ scopes[s].node = Innermost(O)

(* Once the tree is built, getNodeScope gives for every node the scope      *)
(* opened by its nearest ancestor or itself, also in a file whose root      *)
(* opens none (a tree-sitter ERROR root), and each opening node has one     *)
(* scope, listed with its parent.                                           *)
InnermostScope ==
  pc # "build" =>
    /\ \A n \in Nodes : ScopeOfInnermost(nodeScope[n], Above[n])
    /\ \A n \in Nodes : OpensScope(n) =>
         \E s \in ScopeIds : {t \in ScopeIds : scopes[t].node = n} = {s}
    /\ \A s, t \in ScopeIds :
         (\E i \in DOMAIN scopes[s].children : scopes[s].children[i] = t) <=> scopes[t].parent = s

(* A symbol is declared in the innermost scope around its node (a function  *)
(* outside its own body), once, and both directions of the association      *)
(* agree; it has no scope only if no node above it opens one.               *)
DeclaredWhereVisible ==
  pc \in {"visible", "ready", "walk", "answered"} =>
    \A k \in Symbols :
      LET node   == input.symbols[k].node
          outer  == Above[node] \ {node}
          around == IF node = InvalidId THEN {}
                    ELSE IF OpensScope(node) /\ \E m \in outer : OpensScope(m) THEN outer
                    ELSE Above[node]
          places == {p \in ScopeIds \X Symbols :
                       p[2] \in DOMAIN scopes[p[1]].symbols /\ scopes[p[1]].symbols[p[2]] = k}
      IN  /\ ScopeOfInnermost(symbolScope[k], around)
          /\ {p[1] : p \in places} = {symbolScope[k]} \ {InvalidId}
          /\ \A p, q \in places : p = q

(* What is visible in a scope is declared in it or in a scope around it,    *)
(* never in a sibling, and under one name there is one symbol.              *)
OnlyEnclosingVisible ==
  pc \in {"ready", "walk", "answered"} =>
    \A s \in ScopeIds :
      /\ \A k \in VisibleIn(s) : symbolScope[k] \in Enclosing(s)
      /\ \A j, k \in VisibleIn(s) : SymbolName(j) = SymbolName(k) => j = k

(* The two implementations of lexical lookup agree (ast-lookup.h,           *)
(* "Equivalent to lookup(name, scopeId, ...) not empty"): the visible map   *)
(* has the name exactly if the walk finds it, and its symbol is the last of *)
(* those the walk returns.                                                  *)
VisibilityAgreesWithLookup ==
  pc = "answered" =>
    LET k == VisibleSymbol(query.scope, query.name)
    IN  IF result = {} THEN k = InvalidSymbol
        ELSE k \in result /\ \A j \in result : j <= k

(* An answer is the overload set of the innermost enclosing scope that      *)
(* declares the name: nothing further out, no sibling's symbol and nothing  *)
(* of another file joins it or replaces it.  Only if no enclosing scope     *)
(* declares the name is it all the workspace has under it.                  *)
AnswerFollowsShadowing ==
  pc = "answered" =>
    LET n     == query.name
        outer == IF query.scope = InvalidId THEN {} ELSE Enclosing(query.scope)
        local == {k \in Symbols : SymbolName(k) = n /\ symbolScope[k] \in outer}
    IN  answer.candidates =
          IF local # {}
          THEN Here({k \in local : symbolScope[k] = Innermost({symbolScope[j] : j \in local})})
          ELSE IF query.workspace THEN WorkspaceMatches(n) ELSE {}

(* Building ends, and so does every query: the walk cannot go in circles. *)
Terminates == <>(pc = "ready") /\ ((pc = "walk") ~> (pc = "answered"))
=============================================================================
