---------------------------- MODULE ScopesProofs ----------------------------
(***************************************************************************)
(* Proofs about Scopes for any files, any names and any queries: parents   *)
(* come first, the visible map agrees with lookup and holds only what is   *)
(* declared around a scope, answers follow the scopes; every node lies in  *)
(* the scope of the nearest opening node, and every symbol is declared in  *)
(* the innermost scope it is visible in.                                   *)
(***************************************************************************)
EXTENDS Scopes, SequenceTheorems, WellFoundedInduction, TLAPS

Scope == [node : Nodes, parent : Nat, children : Seq(Nat), symbols : Seq(Symbols)]

(* A scope lists its symbols in the order in which they were associated. *)
Ascending ==
  /\ \A s \in ScopeIds : \A i, j \in DOMAIN scopes[s].symbols :
       i < j => scopes[s].symbols[i] < scopes[s].symbols[j]
  /\ pc = "build" => \A s \in ScopeIds : scopes[s].symbols = <<>>
  /\ pc = "associate" =>
       \A s \in ScopeIds : \A i \in DOMAIN scopes[s].symbols : scopes[s].symbols[i] < next

(* The first m symbols of scope s with name n. *)
Layered(s, m, n) ==
  {scopes[s].symbols[i] : i \in {i \in 1..m : SymbolName(scopes[s].symbols[i]) = n}}

(* Scope s maps n to the last of its first m symbols with that name, or to  *)
(* what its parent maps n to.                                               *)
EntryRight(s, m, n) ==
  IF Layered(s, m, n) = {}
  THEN byName[s][n] = VisibleSymbol(scopes[s].parent, n)
  ELSE byName[s][n] \in Layered(s, m, n) /\ \A j \in Layered(s, m, n) : j <= byName[s][n]

(* compute is done with the scopes before next and with the first pos - 1   *)
(* symbols of next, and has not touched those after it.                     *)
EntriesRight ==
  /\ pc = "visible" =>
       /\ next <= Len(scopes)
       /\ next \in ScopeIds => pos \in 1..(Len(scopes[next].symbols) + 1)
       /\ \A s \in ScopeIds, n \in Names :
            /\ s < next => EntryRight(s, Len(scopes[s].symbols), n)
            /\ s = next => EntryRight(s, pos - 1, n)
            /\ s > next => byName[s][n] = InvalidSymbol
  /\ pc \in {"ready", "walk", "answered"} =>
       \A s \in ScopeIds, n \in Names : EntryRight(s, Len(scopes[s].symbols), n)

(* The walk only leaves scopes in which the name means what it means around *)
(* them.                                                                    *)
WalkRight ==
  IF pc \in {"walk", "answered"}
  THEN /\ query.name \in Names
       /\ VisibleSymbol(query.scope, query.name) = VisibleSymbol(current, query.name)
       /\ result # {} => current \in ScopeIds /\ result = Declared(current, query.name)
       /\ pc = "answered" => result # {} \/ current = InvalidId
  ELSE result = {}

ScopesInv == TypeOK /\ ParentsFirst /\ Ascending /\ EntriesRight /\ WalkRight

-----------------------------------------------------------------------------
LEMMA SeqOfOne == ASSUME NEW S, NEW e \in S PROVE <<e>> \in Seq(S)
  OBVIOUS

LEMMA InitInv == Init => ScopesInv
<1> SUFFICES ASSUME Init PROVE ScopesInv
  OBVIOUS
<1>1. InputType(input)
  BY InputsAssumption DEF Init
<1>2. input.children \in Seq(Seq(Nodes)) /\ Nodes = 1..Len(input.children)
  BY <1>1, LenProperties DEF InputType, Nodes, NodesOf
<1>3. scopes = <<>> /\ ScopeIds = {}
  BY DEF Init, ScopeIds
<1>4. calls \in Seq([node : Nodes, scope : ScopeIds \cup {InvalidId}])
  <2>1. CASE Nodes = {}
    BY <2>1 DEF Init
  <2>2. CASE Nodes # {}
    <3>1. 1 \in Nodes
      BY <2>2, <1>2, LenProperties
    <3>2. [node |-> 1, scope |-> InvalidId] \in [node : Nodes, scope : ScopeIds \cup {InvalidId}]
      BY <3>1
    <3>3. calls = <<[node |-> 1, scope |-> InvalidId]>>
      BY <2>2 DEF Init
    <3> QED
      BY <3>2, <3>3, SeqOfOne
  <2> QED
    BY <2>1, <2>2
<1>5. TypeOK
  <2>1. \A S : <<>> \in [{} -> S]
    BY LenProperties, EmptySeq
  <2>2. scopes \in Seq(Scope)
    BY DEF Init
  <2>3. nodeScope \in [Nodes -> ScopeIds \cup {InvalidId}]
    BY DEF Init
  <2>4. symbolScope \in [IF pc = "build" THEN {} ELSE Symbols -> ScopeIds \cup {InvalidId}]
    BY <2>1 DEF Init
  <2>5. byName \in [IF pc \in {"build", "associate"} THEN {} ELSE ScopeIds
                     -> [Names -> Symbols \cup {InvalidSymbol}]]
    BY <2>1 DEF Init
  <2>6. /\ query \in [name : Names \cup {InvalidId}, scope : ScopeIds \cup {InvalidId}, workspace : BOOLEAN]
        /\ current \in ScopeIds \cup {InvalidId}
        /\ answer.status = "Unresolved"
        /\ result \subseteq Symbols
    BY DEF Init, FromCandidates
  <2> QED
    BY <1>1, <1>4, <2>2, <2>3, <2>4, <2>5, <2>6 DEF Init, TypeOK, Scope
<1> QED
  BY <1>3, <1>5 DEF Init, ScopesInv, ParentsFirst, Ascending, EntriesRight, WalkRight

-----------------------------------------------------------------------------
(* The input has its type, and its parts theirs. *)
LEMMA InputParts ==
  ASSUME InputType(input)
  PROVE  /\ Nodes = 1..Len(input.children) /\ Len(input.children) \in Nat
         /\ \A n \in Nodes : input.children[n] \in Seq(Nodes)
         /\ \A n \in Nodes : OpensScope(n) \in BOOLEAN
         /\ Symbols = 1..Len(input.symbols) /\ Len(input.symbols) \in Nat
         /\ \A k \in Symbols : input.symbols[k].node \in Nodes \cup {InvalidId} /\ SymbolName(k) \in Names
<1>1. input.children \in Seq(Seq(Nodes))
  BY DEF InputType, Nodes
<1>2. input.symbols \in Seq([node : Nodes \cup {InvalidId}, name : Names])
  BY DEF InputType, Nodes
<1>3. /\ Nodes = 1..Len(input.children) /\ Len(input.children) \in Nat
      /\ \A n \in Nodes : input.children[n] \in Seq(Nodes)
  BY <1>1, LenProperties, ElementOfSeq DEF Nodes, NodesOf
<1>4. \A n \in Nodes : OpensScope(n) \in BOOLEAN
  BY DEF InputType, Nodes, OpensScope
<1> DEFINE S == [node : Nodes \cup {InvalidId}, name : Names]
<1>5. \A x \in S : x.node \in Nodes \cup {InvalidId} /\ x.name \in Names
  OBVIOUS
<1> HIDE DEF S
<1>6. Symbols = 1..Len(input.symbols) /\ Len(input.symbols) \in Nat /\ \A k \in Symbols : input.symbols[k] \in S
  BY <1>2, LenProperties, ElementOfSeq DEF Symbols, S
<1> QED
  BY <1>3, <1>4, <1>5, <1>6 DEF SymbolName

(* What add returns is the tree with one more scope, the same otherwise but *)
(* for the children of its parent.                                          *)
LEMMA AddScopeProperties ==
  ASSUME InputType(input), scopes \in Seq(Scope), NEW n \in Nodes, NEW p \in ScopeIds \cup {InvalidId}
  PROVE  /\ AddScope(n, p) \in Seq(Scope)
         /\ DOMAIN AddScope(n, p) = ScopeIds \cup {Len(scopes) + 1}
         /\ Len(AddScope(n, p)) = Len(scopes) + 1
         /\ \A s \in ScopeIds : /\ AddScope(n, p)[s].parent = scopes[s].parent
                                /\ AddScope(n, p)[s].symbols = scopes[s].symbols
         /\ AddScope(n, p)[Len(scopes) + 1].parent = p
         /\ AddScope(n, p)[Len(scopes) + 1].symbols = <<>>
<1> DEFINE id == Len(scopes) + 1
<1> DEFINE new == [node |-> n, parent |-> p, children |-> <<>>, symbols |-> <<>>]
<1> DEFINE T == AddScope(n, p)
<1>1. ScopeIds = 1..Len(scopes) /\ Len(scopes) \in Nat /\ \A s \in ScopeIds : scopes[s] \in Scope
  BY LenProperties, ElementOfSeq DEF ScopeIds
<1>2. p \in Nat /\ new \in Scope
  BY <1>1 DEF Scope, InvalidId
<1>3. \A s \in ScopeIds : LET r == [scopes[s] EXCEPT !.children = Append(@, id)]
                          IN  r \in Scope /\ r.parent = scopes[s].parent /\ r.symbols = scopes[s].symbols
  <2> SUFFICES ASSUME NEW s \in ScopeIds
               PROVE  LET r == [scopes[s] EXCEPT !.children = Append(@, id)]
                      IN  r \in Scope /\ r.parent = scopes[s].parent /\ r.symbols = scopes[s].symbols
    OBVIOUS
  <2>1. scopes[s].children \in Seq(Nat) /\ id \in Nat
    BY <1>1 DEF Scope
  <2>2. Append(scopes[s].children, id) \in Seq(Nat)
    BY <2>1, AppendProperties
  <2> QED
    BY <1>1, <2>2 DEF Scope
<1>4. T = [s \in 1..id |-> IF s = id THEN new
                           ELSE IF s = p THEN [scopes[s] EXCEPT !.children = Append(@, id)]
                           ELSE scopes[s]]
  BY DEF AddScope
<1> HIDE DEF T, new
<1>5. T \in [1..id -> Scope]
  <2>1. \A s \in 1..id : s = id \/ s \in ScopeIds
    BY <1>1
  <2> HIDE DEF id
  <2>2. \A s \in 1..id : T[s] \in Scope
    BY <2>1, <1>1, <1>2, <1>3, <1>4
  <2> QED
    BY <2>2, <1>4
<1>6. T \in Seq(Scope) /\ DOMAIN T = 1..id /\ Len(T) = id
  BY <1>1, <1>5
<1>7. \A s \in ScopeIds : T[s].parent = scopes[s].parent /\ T[s].symbols = scopes[s].symbols
  BY <1>1, <1>3, <1>4
<1>8. T[id].parent = p /\ T[id].symbols = <<>>
  BY <1>1, <1>4 DEF new
<1> QED
  BY <1>1, <1>6, <1>7, <1>8 DEF T

LEMMA DfsInv == ScopesInv /\ Dfs => ScopesInv'
<1> SUFFICES ASSUME ScopesInv, Dfs PROVE ScopesInv'
  OBVIOUS
<1> USE DEF InvalidId
<1> DEFINE node == Head(calls).node
<1> DEFINE scope == Head(calls).scope
<1> DEFINE myScope == IF OpensScope(node) THEN Len(scopes) + 1 ELSE scope
<1>1. /\ input' = input /\ pc = "build" /\ pc' = pc
      /\ Nodes' = Nodes /\ Symbols' = Symbols
      /\ UNCHANGED <<symbolScope, next, pos, byName, query, current, result, answer>>
  BY DEF Dfs, queryVars, Nodes, Symbols
<1>2. /\ InputType(input) /\ scopes \in Seq(Scope)
      /\ calls \in Seq([node : Nodes, scope : ScopeIds \cup {InvalidId}]) /\ calls # <<>>
  BY DEF ScopesInv, TypeOK, Dfs, Scope
<1>3. node \in Nodes /\ scope \in ScopeIds \cup {InvalidId}
  <2>1. Head(calls) \in [node : Nodes, scope : ScopeIds \cup {InvalidId}]
    BY <1>2, HeadTailProperties
  <2> QED
    BY <2>1
<1>4. ScopeIds = 1..Len(scopes) /\ Len(scopes) \in Nat
  BY <1>2, LenProperties DEF ScopeIds
<1>5. scopes' = IF OpensScope(node) THEN AddScope(node, scope) ELSE scopes
  BY DEF Dfs
<1>6. /\ scopes' \in Seq(Scope)
      /\ ScopeIds \subseteq ScopeIds' /\ myScope \in ScopeIds' \cup {InvalidId}
      /\ \A s \in ScopeIds : scopes'[s].parent = scopes[s].parent /\ scopes'[s].symbols = scopes[s].symbols
      /\ \A s \in ScopeIds' : s \notin ScopeIds =>
           s = Len(scopes) + 1 /\ scopes'[s].parent = scope /\ scopes'[s].symbols = <<>>
  BY <1>2, <1>3, <1>4, <1>5, AddScopeProperties DEF ScopeIds
<1>7. nodeScope' = [nodeScope EXCEPT ![node] = myScope]
  BY DEF Dfs
<1>8. calls' \in Seq([node : Nodes', scope : (ScopeIds \cup {InvalidId})'])
  <2> DEFINE C == [node : Nodes, scope : ScopeIds' \cup {InvalidId}]
  <2> DEFINE new == [i \in DOMAIN input.children[node] |-> [node |-> input.children[node][i], scope |-> myScope]]
  <2>1. input.children[node] \in Seq(Nodes)
    BY <1>2, <1>3, InputParts
  <2>2. new \in Seq(C)
    <3>1. /\ DOMAIN input.children[node] = 1..Len(input.children[node])
          /\ Len(input.children[node]) \in Nat
          /\ \A i \in DOMAIN input.children[node] : input.children[node][i] \in Nodes
      BY <2>1, LenProperties, ElementOfSeq
    <3>2. \A i \in DOMAIN input.children[node] : [node |-> input.children[node][i], scope |-> myScope] \in C
      BY <3>1, <1>6
    <3> HIDE DEF C
    <3>3. new \in [1..Len(input.children[node]) -> C]
      BY <3>1, <3>2
    <3> HIDE DEF new
    <3> QED
      BY <3>1, <3>3
  <2>3. Tail(calls) \in Seq(C)
    <3>1. [node : Nodes, scope : ScopeIds \cup {InvalidId}] \subseteq C
      BY <1>6
    <3>2. Tail(calls) \in Seq([node : Nodes, scope : ScopeIds \cup {InvalidId}])
      BY <1>2, HeadTailProperties
    <3> QED
      BY <3>1, <3>2, SeqMonotonic
  <2>4. calls' = new \o Tail(calls)
    BY DEF Dfs
  <2> HIDE DEF new
  <2> QED
    BY <2>2, <2>3, <2>4, <1>1, ConcatProperties
<1>9. TypeOK'
  <2>1. InputType(input')
    BY <1>1, <1>2
  <2>2. nodeScope' \in [Nodes' -> (ScopeIds \cup {InvalidId})']
    BY <1>1, <1>3, <1>6, <1>7 DEF ScopesInv, TypeOK
  <2>3. symbolScope' \in [{} -> (ScopeIds \cup {InvalidId})']
    BY <1>1, <1>6 DEF ScopesInv, TypeOK
  <2>4. byName' \in [{} -> [Names -> Symbols' \cup {InvalidSymbol}]]
    BY <1>1 DEF ScopesInv, TypeOK
  <2>5. /\ query' \in [name : Names \cup {InvalidId}, scope : (ScopeIds \cup {InvalidId})', workspace : BOOLEAN]
        /\ current' \in (ScopeIds \cup {InvalidId})' /\ result' \subseteq Symbols'
    BY <1>1, <1>6 DEF ScopesInv, TypeOK
  <2>6. scopes' \in Seq([node : Nodes', parent : Nat, children : Seq(Nat), symbols : Seq(Symbols')])
    BY <1>1, <1>6 DEF Scope
  <2> QED
    BY <2>1, <2>2, <2>3, <2>4, <2>5, <2>6, <1>1, <1>8 DEF ScopesInv, TypeOK
<1>10. ParentsFirst'
  BY <1>3, <1>4, <1>6 DEF ScopesInv, ParentsFirst, ScopeIds
<1>11. Ascending'
  BY <1>1, <1>6 DEF ScopesInv, Ascending
<1>12. EntriesRight' /\ WalkRight'
  BY <1>1 DEF ScopesInv, EntriesRight, WalkRight
<1> QED
  BY <1>9, <1>10, <1>11, <1>12 DEF ScopesInv

(* What TypeOK and ParentsFirst say of the scopes. *)
LEMMA ScopeParts ==
  ASSUME TypeOK, ParentsFirst
  PROVE  /\ scopes \in Seq(Scope) /\ ScopeIds = 1..Len(scopes) /\ Len(scopes) \in Nat
         /\ \A s \in ScopeIds : /\ scopes[s] \in Scope
                                /\ scopes[s].parent \in ScopeIds \cup {InvalidId}
                                /\ scopes[s].parent < s
                                /\ scopes[s].symbols \in Seq(Symbols)
                                /\ Len(scopes[s].symbols) \in Nat
                                /\ DOMAIN scopes[s].symbols = 1..Len(scopes[s].symbols)
                                /\ \A i \in DOMAIN scopes[s].symbols : scopes[s].symbols[i] \in Symbols
<1>1. scopes \in Seq(Scope)
  BY DEF TypeOK, Scope
<1>2. ScopeIds = 1..Len(scopes) /\ Len(scopes) \in Nat /\ \A s \in ScopeIds : scopes[s] \in Scope
  BY <1>1, LenProperties, ElementOfSeq DEF ScopeIds
<1>3. \A s \in ScopeIds : scopes[s].parent \in Nat /\ scopes[s].symbols \in Seq(Symbols)
  BY <1>2 DEF Scope
<1>4. \A s \in ScopeIds : scopes[s].parent < s
  BY DEF ParentsFirst
<1>5. \A s \in ScopeIds : scopes[s].parent \in ScopeIds \cup {InvalidId}
  BY <1>2, <1>3, <1>4 DEF InvalidId
<1> QED
  BY <1>1, <1>2, <1>3, <1>4, <1>5, LenProperties, ElementOfSeq

LEMMA TreeBuiltInv == ScopesInv /\ TreeBuilt => ScopesInv'
<1> SUFFICES ASSUME ScopesInv, TreeBuilt PROVE ScopesInv'
  OBVIOUS
<1>1. /\ UNCHANGED <<input, calls, scopes, nodeScope, pos, byName, query, current, result, answer>>
      /\ pc = "build" /\ pc' = "associate" /\ next' = 1
      /\ symbolScope' = [k \in Symbols |-> InvalidId]
  BY DEF TreeBuilt, treeVars, visVars, queryVars
<1>2. Nodes' = Nodes /\ Symbols' = Symbols /\ ScopeIds' = ScopeIds
  BY <1>1 DEF Nodes, Symbols, ScopeIds
<1>3. TypeOK'
  BY <1>1, <1>2 DEF ScopesInv, TypeOK
<1>4. ParentsFirst' /\ Ascending'
  BY <1>1, <1>2 DEF ScopesInv, ParentsFirst, Ascending
<1>5. EntriesRight' /\ WalkRight'
  BY <1>1 DEF ScopesInv, EntriesRight, WalkRight
<1> QED
  BY <1>3, <1>4, <1>5 DEF ScopesInv

LEMMA AssociateInv == ScopesInv /\ Associate => ScopesInv'
<1> SUFFICES ASSUME ScopesInv, Associate PROVE ScopesInv'
  OBVIOUS
<1> DEFINE s == DeclaringScope(next)
<1>1. /\ UNCHANGED <<input, pc, calls, nodeScope, pos, byName, query, current, result, answer>>
      /\ pc = "associate" /\ next \in Symbols /\ next' = next + 1
  BY DEF Associate, visVars, queryVars
<1>2. Nodes' = Nodes /\ Symbols' = Symbols
  BY <1>1 DEF Nodes, Symbols
<1>3. /\ scopes \in Seq(Scope) /\ ScopeIds = 1..Len(scopes) /\ Len(scopes) \in Nat
      /\ \A t \in ScopeIds : /\ scopes[t] \in Scope
                             /\ scopes[t].parent \in ScopeIds \cup {InvalidId}
                             /\ scopes[t].symbols \in Seq(Symbols)
                             /\ Len(scopes[t].symbols) \in Nat
                             /\ DOMAIN scopes[t].symbols = 1..Len(scopes[t].symbols)
  BY ScopeParts DEF ScopesInv
<1>4. next \in Nat /\ \A k \in Symbols : input.symbols[k].node \in Nodes \cup {InvalidId}
  BY <1>1, InputParts DEF ScopesInv, TypeOK
<1>5. s \in ScopeIds \cup {InvalidId}
  <2>1. nodeScope \in [Nodes -> ScopeIds \cup {InvalidId}]
    BY DEF ScopesInv, TypeOK
  <2> QED
    BY <1>1, <1>3, <1>4, <2>1 DEF DeclaringScope
<1>6. \A t \in ScopeIds : \A i, j \in DOMAIN scopes[t].symbols :
        /\ i < j => scopes[t].symbols[i] < scopes[t].symbols[j]
        /\ scopes[t].symbols[i] < next /\ scopes[t].symbols[i] \in Nat
  <2>1. Symbols \subseteq Nat
    BY InputParts DEF ScopesInv, TypeOK
  <2>2. \A t \in ScopeIds : \A i \in DOMAIN scopes[t].symbols : scopes[t].symbols[i] \in Nat
    BY <2>1, ScopeParts DEF ScopesInv
  <2> QED
    BY <1>1, <2>2 DEF ScopesInv, Ascending
<1>7. CASE s = InvalidId
  <2>1. UNCHANGED <<scopes, symbolScope>>
    BY <1>7 DEF Associate, assocVars
  <2>2. ScopeIds' = ScopeIds
    BY <2>1 DEF ScopeIds
  <2>3. TypeOK' /\ ParentsFirst'
    BY <1>1, <1>2, <1>4, <2>1, <2>2 DEF ScopesInv, TypeOK, ParentsFirst
  <2>4. Ascending'
    BY <1>1, <1>4, <1>6, <2>1, <2>2 DEF Ascending
  <2>5. EntriesRight' /\ WalkRight'
    BY <1>1 DEF ScopesInv, EntriesRight, WalkRight
  <2> QED
    BY <2>3, <2>4, <2>5 DEF ScopesInv
<1>8. CASE s # InvalidId
  <2>1. s \in ScopeIds
    BY <1>5, <1>8
  <2>2. /\ scopes' = [scopes EXCEPT ![s].symbols = Append(@, next)]
        /\ symbolScope' = [symbolScope EXCEPT ![next] = s]
    BY <1>8 DEF Associate
  <2> DEFINE list == Append(scopes[s].symbols, next)
  <2> DEFINE m == Len(scopes[s].symbols)
  <2>3. /\ list \in Seq(Symbols) /\ Len(list) = m + 1 /\ m \in Nat /\ DOMAIN list = 1..(m + 1)
        /\ \A i \in 1..m : list[i] = scopes[s].symbols[i]
        /\ list[m + 1] = next
    BY <2>1, <1>1, <1>3, AppendProperties, LenProperties
  <2> DEFINE r == [scopes[s] EXCEPT !.symbols = list]
  <2>4. r \in Scope /\ r.symbols = list /\ r.parent = scopes[s].parent
    BY <2>1, <2>3, <1>3 DEF Scope
  <2> HIDE DEF list, m
  <2>5. scopes' = [scopes EXCEPT ![s] = r]
    BY <2>2 DEF list
  <2> HIDE DEF r, s
  <2>6. /\ scopes' \in Seq(Scope) /\ Len(scopes') = Len(scopes)
        /\ \A t \in ScopeIds : scopes'[t] = IF t = s THEN r ELSE scopes[t]
    BY <2>1, <2>4, <2>5, <1>3, ExceptSeq
  <2>7. ScopeIds' = ScopeIds
    BY <2>6, <1>3, LenProperties DEF ScopeIds
  <2>8. TypeOK'
    <3>1. scopes' \in Seq([node : Nodes', parent : Nat, children : Seq(Nat), symbols : Seq(Symbols')])
      BY <2>6, <1>2 DEF Scope
    <3>2. symbolScope' \in [Symbols -> ScopeIds \cup {InvalidId}]
      BY <2>1, <2>2, <1>1 DEF ScopesInv, TypeOK
    <3> QED
      BY <3>1, <3>2, <2>7, <1>1, <1>2, <1>4 DEF ScopesInv, TypeOK
  <2>9. ParentsFirst'
    BY <2>4, <2>6, <2>7 DEF ScopesInv, ParentsFirst
  <2>10. Ascending'
    <3>1. \A i, j \in 1..m : /\ i < j => scopes[s].symbols[i] < scopes[s].symbols[j]
                             /\ scopes[s].symbols[i] < next /\ scopes[s].symbols[i] \in Nat
      BY <1>6, <2>1, <1>3 DEF m
    <3>2. \A i \in DOMAIN list : list[i] < next + 1
      BY <3>1, <2>3, <1>4
    <3>3. \A i, j \in DOMAIN list : i < j => list[i] < list[j]
      BY <3>1, <2>3, <1>4
    <3>4. \A t \in ScopeIds : t # s => \A i \in DOMAIN scopes[t].symbols : scopes[t].symbols[i] < next + 1
      BY <1>6, <1>4
    <3> QED
      BY <1>6, <3>2, <3>3, <3>4, <2>4, <2>6, <2>7, <1>1 DEF Ascending
  <2>11. EntriesRight' /\ WalkRight'
    BY <1>1 DEF ScopesInv, EntriesRight, WalkRight
  <2> QED
    BY <2>8, <2>9, <2>10, <2>11 DEF ScopesInv
<1> QED
  BY <1>7, <1>8

LEMMA AllAssociatedInv == ScopesInv /\ AllAssociated => ScopesInv'
<1> SUFFICES ASSUME ScopesInv, AllAssociated PROVE ScopesInv'
  OBVIOUS
<1>1. /\ UNCHANGED <<input, calls, scopes, nodeScope, symbolScope, query, current, result, answer>>
      /\ pc = "associate" /\ pc' = "visible" /\ next' = 0 /\ pos' = 1
      /\ byName' = [t \in ScopeIds |-> Nothing]
  BY DEF AllAssociated, treeVars, queryVars
<1>2. Nodes' = Nodes /\ Symbols' = Symbols /\ ScopeIds' = ScopeIds
  BY <1>1 DEF Nodes, Symbols, ScopeIds
<1>3. ScopeIds = 1..Len(scopes) /\ Len(scopes) \in Nat
  BY ScopeParts DEF ScopesInv
<1>4. byName' \in [ScopeIds -> [Names -> Symbols \cup {InvalidSymbol}]]
  BY <1>1 DEF Nothing
<1>5. TypeOK'
  BY <1>1, <1>2, <1>4 DEF ScopesInv, TypeOK
<1>6. ParentsFirst' /\ Ascending'
  BY <1>1, <1>2 DEF ScopesInv, ParentsFirst, Ascending
<1>7. EntriesRight' /\ WalkRight'
  BY <1>1, <1>2, <1>3 DEF ScopesInv, EntriesRight, WalkRight, Nothing
<1> QED
  BY <1>5, <1>6, <1>7 DEF ScopesInv

(* A step that leaves the entries up to scope s alone leaves s right.       *)
LEMMA EntryKept ==
  ASSUME ScopesInv, UNCHANGED <<input, scopes>>,
         NEW s \in ScopeIds, \A t \in ScopeIds : t <= s => byName'[t] = byName[t],
         NEW n \in Names, EntryRight(s, Len(scopes[s].symbols), n)
  PROVE  EntryRight(s, Len(scopes[s].symbols), n)'
<1>1. /\ ScopeIds' = ScopeIds
      /\ Layered(s, Len(scopes[s].symbols), n)' = Layered(s, Len(scopes[s].symbols), n)
  BY DEF ScopeIds, Layered, SymbolName
<1>2. /\ ScopeIds = 1..Len(scopes) /\ Len(scopes) \in Nat
      /\ scopes[s].parent \in ScopeIds \cup {InvalidId} /\ scopes[s].parent < s
  BY ScopeParts DEF ScopesInv
<1>3. byName'[s] = byName[s] /\ VisibleSymbol(scopes[s].parent, n)' = VisibleSymbol(scopes[s].parent, n)
  BY <1>1, <1>2 DEF VisibleSymbol, InvalidId
<1> QED
  BY <1>1, <1>3 DEF EntryRight

(* A step that changes no entry leaves all entries right. *)
LEMMA EntriesFrame ==
  ASSUME UNCHANGED <<input, scopes, byName>>, NEW s, NEW n
  PROVE  /\ EntryRight(s, Len(scopes[s].symbols), n)' <=> EntryRight(s, Len(scopes[s].symbols), n)
         /\ pos' = pos => (EntryRight(s, pos - 1, n)' <=> EntryRight(s, pos - 1, n))
<1>1. Layered(s, Len(scopes[s].symbols), n)' = Layered(s, Len(scopes[s].symbols), n)
  BY DEF Layered, SymbolName
<1>2. pos' = pos => Layered(s, pos - 1, n)' = Layered(s, pos - 1, n)
  BY DEF Layered, SymbolName
<1>3. VisibleSymbol(scopes[s].parent, n)' = VisibleSymbol(scopes[s].parent, n)
  BY DEF VisibleSymbol, ScopeIds
<1> QED
  BY <1>1, <1>2, <1>3 DEF EntryRight

LEMMA InheritInv == ScopesInv /\ Inherit => ScopesInv'
<1> SUFFICES ASSUME ScopesInv, Inherit PROVE ScopesInv'
  OBVIOUS
<1> DEFINE x == next + 1
<1> DEFINE e == IF scopes[x].parent \in ScopeIds THEN byName[scopes[x].parent] ELSE byName[x]
<1>1. /\ UNCHANGED <<input, pc, calls, scopes, nodeScope, symbolScope, query, current, result, answer>>
      /\ pc = "visible" /\ LayersDone /\ x \in ScopeIds
      /\ next' = x /\ pos' = 1
      /\ byName' = [byName EXCEPT ![x] = e]
  BY DEF Inherit, treeVars, queryVars
<1>2. Nodes' = Nodes /\ Symbols' = Symbols /\ ScopeIds' = ScopeIds
  BY <1>1 DEF Nodes, Symbols, ScopeIds
<1>3. /\ ScopeIds = 1..Len(scopes) /\ Len(scopes) \in Nat /\ next \in Nat
      /\ \A s \in ScopeIds : /\ Len(scopes[s].symbols) \in Nat
                             /\ scopes[s].parent \in ScopeIds \cup {InvalidId} /\ scopes[s].parent < s
  BY ScopeParts DEF ScopesInv, TypeOK
<1>4. byName \in [ScopeIds -> [Names -> Symbols \cup {InvalidSymbol}]]
  BY <1>1 DEF ScopesInv, TypeOK
<1>5. e \in [Names -> Symbols \cup {InvalidSymbol}]
  BY <1>1, <1>4
<1>6. TypeOK'
  <2>1. byName' \in [ScopeIds -> [Names -> Symbols \cup {InvalidSymbol}]]
    BY <1>1, <1>4, <1>5
  <2>2. next' \in Nat /\ pos' \in Nat
    BY <1>1, <1>3
  <2> QED
    BY <1>1, <1>2, <2>1, <2>2 DEF ScopesInv, TypeOK
<1>7. ParentsFirst' /\ Ascending' /\ WalkRight'
  BY <1>1, <1>2 DEF ScopesInv, ParentsFirst, Ascending, WalkRight
<1>8. ASSUME NEW s \in ScopeIds, NEW n \in Names
      PROVE  /\ s < x => EntryRight(s, Len(scopes[s].symbols), n)'
             /\ s = x => EntryRight(s, 0, n)'
             /\ s > x => byName'[s][n] = InvalidSymbol
  <2>1. CASE s < x
    <3>1. EntryRight(s, Len(scopes[s].symbols), n)
      <4>1. CASE s < next
        BY <4>1, <1>1 DEF ScopesInv, EntriesRight
      <4>2. CASE s = next
        <5>1. pos \in 1..(Len(scopes[next].symbols) + 1) /\ pos > Len(scopes[next].symbols)
          BY <4>2, <1>1, <1>3 DEF ScopesInv, EntriesRight, LayersDone
        <5>2. pos - 1 = Len(scopes[s].symbols)
          BY <4>2, <5>1, <1>3
        <5> QED
          BY <4>2, <5>2, <1>1 DEF ScopesInv, EntriesRight
      <4> QED
        BY <2>1, <4>1, <4>2, <1>3
    <3>2. \A t \in ScopeIds : t <= s => byName'[t] = byName[t]
      BY <2>1, <1>1, <1>3, <1>4
    <3>3. UNCHANGED <<input, scopes>>
      BY <1>1
    <3>4. EntryRight(s, Len(scopes[s].symbols), n)'
      BY <3>1, <3>2, <3>3, EntryKept
    <3> QED
      BY <2>1, <3>4, <1>3
  <2>2. CASE s = x
    <3>1. Layered(s, 0, n)' = {}
      BY DEF Layered
    <3>2. byName'[s][n] = IF scopes[s].parent \in ScopeIds THEN byName[scopes[s].parent][n] ELSE InvalidSymbol
      <4>1. byName[x][n] = InvalidSymbol
        BY <1>1, <1>3 DEF ScopesInv, EntriesRight
      <4> QED
        BY <2>2, <4>1, <1>1, <1>4
    <3>3. scopes[s].parent # x
      BY <2>2, <1>3
    <3>4. VisibleSymbol(scopes[s].parent, n)' = byName'[s][n]
      BY <3>2, <3>3, <1>1, <1>2, <1>4 DEF VisibleSymbol
    <3> QED
      BY <2>2, <3>1, <3>4, <1>3 DEF EntryRight
  <2>3. CASE s > x
    BY <2>3, <1>1, <1>3, <1>4 DEF ScopesInv, EntriesRight
  <2> QED
    BY <2>1, <2>2, <2>3, <1>3
<1>9. EntriesRight'
  BY <1>1, <1>2, <1>3, <1>8 DEF EntriesRight
<1> QED
  BY <1>6, <1>7, <1>9 DEF ScopesInv

LEMMA LayerInv == ScopesInv /\ Layer => ScopesInv'
<1> SUFFICES ASSUME ScopesInv, Layer PROVE ScopesInv'
  OBVIOUS
<1> DEFINE k == scopes[next].symbols[pos]
<1> DEFINE e == [byName[next] EXCEPT ![SymbolName(k)] = k]
<1>1. /\ UNCHANGED <<input, pc, calls, scopes, nodeScope, symbolScope, next, query, current, result, answer>>
      /\ pc = "visible" /\ next \in ScopeIds /\ pos' = pos + 1
      /\ ~(pos > Len(scopes[next].symbols))
      /\ byName' = [byName EXCEPT ![next][SymbolName(k)] = k]
  BY DEF Layer, LayersDone, treeVars, queryVars
<1>2. Nodes' = Nodes /\ Symbols' = Symbols /\ ScopeIds' = ScopeIds
  BY <1>1 DEF Nodes, Symbols, ScopeIds
<1>3. /\ ScopeIds = 1..Len(scopes) /\ Len(scopes) \in Nat /\ next \in Nat /\ pos \in Nat
      /\ \A s \in ScopeIds : /\ Len(scopes[s].symbols) \in Nat
                             /\ DOMAIN scopes[s].symbols = 1..Len(scopes[s].symbols)
                             /\ \A i \in DOMAIN scopes[s].symbols : scopes[s].symbols[i] \in Symbols
                             /\ scopes[s].parent < s
  BY ScopeParts DEF ScopesInv, TypeOK
<1>4. byName \in [ScopeIds -> [Names -> Symbols \cup {InvalidSymbol}]]
  BY <1>1 DEF ScopesInv, TypeOK
<1>5. pos \in 1..Len(scopes[next].symbols) /\ next <= Len(scopes)
  BY <1>1, <1>3 DEF ScopesInv, EntriesRight
<1>6. k \in Symbols /\ SymbolName(k) \in Names /\ Symbols \subseteq Nat
  <2>1. k \in Symbols
    BY <1>1, <1>3, <1>5
  <2> HIDE DEF k
  <2>2. InputType(input)
    BY DEF ScopesInv, TypeOK
  <2> QED
    BY <2>1, <2>2, InputParts
<1> HIDE DEF k
<1>7. byName' = [byName EXCEPT ![next] = e] /\ e \in [Names -> Symbols \cup {InvalidSymbol}]
  BY <1>1, <1>4, <1>6
<1>8. TypeOK'
  <2>1. byName' \in [ScopeIds -> [Names -> Symbols \cup {InvalidSymbol}]]
    BY <1>1, <1>4, <1>7
  <2> QED
    BY <1>1, <1>2, <1>3, <2>1, SMTT(30) DEF ScopesInv, TypeOK
<1>9. ParentsFirst' /\ Ascending' /\ WalkRight'
  BY <1>1, <1>2 DEF ScopesInv, ParentsFirst, Ascending, WalkRight
<1>10. ASSUME NEW n \in Names PROVE EntryRight(next, pos - 1, n)'
  <2> DEFINE L == Layered(next, pos - 1, n)
  <2>1. EntryRight(next, pos - 1, n)
    BY <1>1 DEF ScopesInv, EntriesRight
  <2>2. Layered(next, pos - 1, n)' = Layered(next, pos, n)
    <3>1. pos' - 1 = pos
      BY <1>1, <1>3
    <3> QED
      BY <3>1, <1>1 DEF Layered, SymbolName
  <2>3. Layered(next, pos, n) = L \cup (IF SymbolName(k) = n THEN {k} ELSE {})
    <3>1. 1..pos = 1..(pos - 1) \cup {pos}
      BY <1>3, <1>5
    <3> QED
      BY <3>1 DEF Layered, k
  <2>4. \A j \in L : j < k
    <3>1. \A i \in 1..(pos - 1) : scopes[next].symbols[i] < k
      BY <1>1, <1>3, <1>5 DEF ScopesInv, Ascending, k
    <3> QED
      BY <3>1 DEF Layered
  <2>5. CASE SymbolName(k) = n
    <3>1. byName'[next][n] = k
      BY <2>5, <1>1, <1>4, <1>7
    <3>2. \A j \in L \cup {k} : j <= k
      <4>1. L \subseteq Nat
        BY <1>1, <1>3, <1>5, <1>6 DEF Layered
      <4> QED
        BY <2>4, <4>1, <1>6
    <3> QED
      BY <2>2, <2>3, <2>5, <3>1, <3>2, <1>1 DEF EntryRight
  <2>6. CASE SymbolName(k) # n
    <3>1. byName'[next][n] = byName[next][n]
      BY <2>6, <1>1, <1>4, <1>6, <1>7
    <3>2. scopes[next].parent # next
      BY <1>1, <1>3
    <3>3. VisibleSymbol(scopes[next].parent, n)' = VisibleSymbol(scopes[next].parent, n)
      BY <3>2, <1>1, <1>2, <1>4, <1>7 DEF VisibleSymbol
    <3> QED
      BY <2>1, <2>2, <2>3, <2>6, <3>1, <3>3, <1>1 DEF EntryRight
  <2> QED
    BY <2>5, <2>6
<1>11. ASSUME NEW s \in ScopeIds, NEW n \in Names
       PROVE  /\ s < next => EntryRight(s, Len(scopes[s].symbols), n)'
              /\ s > next => byName'[s][n] = InvalidSymbol
  <2>1. CASE s < next
    <3>1. EntryRight(s, Len(scopes[s].symbols), n)
      BY <2>1, <1>1 DEF ScopesInv, EntriesRight
    <3>2. \A t \in ScopeIds : t <= s => byName'[t] = byName[t]
      BY <2>1, <1>1, <1>3, <1>4, <1>7
    <3>3. UNCHANGED <<input, scopes>>
      BY <1>1
    <3>4. EntryRight(s, Len(scopes[s].symbols), n)'
      BY <3>1, <3>2, <3>3, EntryKept
    <3> QED
      BY <2>1, <3>4, <1>3
  <2>2. CASE s > next
    BY <2>2, <1>1, <1>3, <1>4, <1>7 DEF ScopesInv, EntriesRight
  <2> QED
    BY <2>1, <2>2, <1>3
<1>12. EntriesRight'
  <2>1. pos + 1 \in 1..(Len(scopes[next].symbols) + 1)
    BY <1>1, <1>3, <1>5
  <2> QED
    BY <1>1, <1>2, <1>5, <1>10, <1>11, <2>1 DEF EntriesRight
<1> QED
  BY <1>8, <1>9, <1>12 DEF ScopesInv

LEMMA ComputedInv == ScopesInv /\ Computed => ScopesInv'
<1> SUFFICES ASSUME ScopesInv, Computed PROVE ScopesInv'
  OBVIOUS
<1>1. /\ UNCHANGED <<input, calls, scopes, nodeScope, symbolScope, next, pos, byName,
                     query, current, result, answer>>
      /\ pc = "visible" /\ pc' = "ready" /\ LayersDone /\ next + 1 \notin ScopeIds
  BY DEF Computed, treeVars, visVars, queryVars
<1>2. Nodes' = Nodes /\ Symbols' = Symbols /\ ScopeIds' = ScopeIds
  BY <1>1 DEF Nodes, Symbols, ScopeIds
<1>3. /\ ScopeIds = 1..Len(scopes) /\ Len(scopes) \in Nat /\ next \in Nat /\ pos \in Nat
      /\ \A s \in ScopeIds : Len(scopes[s].symbols) \in Nat
  BY ScopeParts DEF ScopesInv, TypeOK
<1>4. TypeOK'
  BY <1>1, <1>2 DEF ScopesInv, TypeOK
<1>5. ParentsFirst' /\ Ascending' /\ WalkRight'
  BY <1>1, <1>2 DEF ScopesInv, ParentsFirst, Ascending, WalkRight
<1>6. ASSUME NEW s \in ScopeIds, NEW n \in Names PROVE EntryRight(s, Len(scopes[s].symbols), n)
  <2>1. next = Len(scopes)
    BY <1>1, <1>3 DEF ScopesInv, EntriesRight
  <2>2. CASE s < next
    BY <2>2, <1>1 DEF ScopesInv, EntriesRight
  <2>3. CASE s = next
    <3>1. pos \in 1..(Len(scopes[next].symbols) + 1) /\ pos > Len(scopes[next].symbols)
      BY <2>3, <1>1, <1>3 DEF ScopesInv, EntriesRight, LayersDone
    <3>2. pos - 1 = Len(scopes[s].symbols)
      BY <2>3, <3>1, <1>3
    <3> QED
      BY <2>3, <3>2, <1>1 DEF ScopesInv, EntriesRight
  <2> QED
    BY <2>1, <2>2, <2>3, <1>3
<1>7. EntriesRight'
  BY <1>1, <1>2, <1>6, EntriesFrame DEF EntriesRight
<1> QED
  BY <1>4, <1>5, <1>7 DEF ScopesInv

(* The steps of resolve read the analysis and leave it alone. *)
LEMMA QueryFrame ==
  ASSUME ScopesInv,
         UNCHANGED <<input, calls, scopes, nodeScope, symbolScope, next, pos, byName>>,
         pc \in {"ready", "walk", "answered"}, pc' \in {"ready", "walk", "answered"},
         query' \in [name : Names \cup {InvalidId}, scope : ScopeIds \cup {InvalidId}, workspace : BOOLEAN],
         current' \in ScopeIds \cup {InvalidId}, result' \subseteq Symbols,
         answer'.status \in {"Resolved", "Unresolved", "Ambiguous"}
  PROVE  TypeOK' /\ ParentsFirst' /\ Ascending' /\ EntriesRight'
<1>1. Nodes' = Nodes /\ Symbols' = Symbols /\ ScopeIds' = ScopeIds
  BY DEF Nodes, Symbols, ScopeIds
<1>2. TypeOK'
  BY <1>1 DEF ScopesInv, TypeOK
<1>3. ParentsFirst' /\ Ascending'
  BY <1>1 DEF ScopesInv, ParentsFirst, Ascending
<1>4. EntriesRight'
  BY <1>1, EntriesFrame DEF ScopesInv, EntriesRight
<1> QED
  BY <1>2, <1>3, <1>4

(* The symbols a scope declares under a name are its layers for that name. *)
LEMMA DeclaredIsLayered ==
  ASSUME TypeOK, ParentsFirst, NEW s \in ScopeIds, NEW n
  PROVE  Declared(s, n) = Layered(s, Len(scopes[s].symbols), n) /\ Declared(s, n) \subseteq Symbols
<1>1. DOMAIN scopes[s].symbols = 1..Len(scopes[s].symbols)
      /\ \A i \in DOMAIN scopes[s].symbols : scopes[s].symbols[i] \in Symbols
  BY ScopeParts
<1> QED
  BY <1>1 DEF Declared, Layered

LEMMA QueryInv == ScopesInv /\ Query => ScopesInv'
<1> SUFFICES ASSUME ScopesInv, NEW n \in Names, NEW s \in ScopeIds \cup {InvalidId}, NEW w \in BOOLEAN,
                    Resolve(n, s, w)
             PROVE  ScopesInv'
  BY DEF Query
<1>1. /\ UNCHANGED <<input, calls, scopes, nodeScope, symbolScope, next, pos, byName, result, answer>>
      /\ pc = "ready" /\ pc' = "walk" /\ current' = s
      /\ query' = [name |-> n, scope |-> s, workspace |-> w]
  BY DEF Resolve, treeVars, visVars
<1>2. /\ current' \in ScopeIds \cup {InvalidId} /\ result' \subseteq Symbols
      /\ query' \in [name : Names \cup {InvalidId}, scope : ScopeIds \cup {InvalidId}, workspace : BOOLEAN]
      /\ answer'.status \in {"Resolved", "Unresolved", "Ambiguous"}
  BY <1>1 DEF ScopesInv, TypeOK
<1>3. TypeOK' /\ ParentsFirst' /\ Ascending' /\ EntriesRight'
  BY <1>1, <1>2, QueryFrame
<1>4. WalkRight'
  BY <1>1 DEF ScopesInv, WalkRight
<1> QED
  BY <1>3, <1>4 DEF ScopesInv

LEMMA LookOutwardInv == ScopesInv /\ LookOutward => ScopesInv'
<1> SUFFICES ASSUME ScopesInv, LookOutward PROVE ScopesInv'
  OBVIOUS
<1>1. /\ UNCHANGED <<input, pc, calls, scopes, nodeScope, symbolScope, next, pos, byName, query, result, answer>>
      /\ pc = "walk" /\ result = {} /\ current \in ScopeIds
      /\ Declared(current, query.name) = {} /\ current' = scopes[current].parent
  BY DEF LookOutward, treeVars, visVars, ScopesInv, TypeOK
<1>2. scopes[current].parent \in ScopeIds \cup {InvalidId}
  BY <1>1, ScopeParts DEF ScopesInv
<1>3. /\ current' \in ScopeIds \cup {InvalidId} /\ result' \subseteq Symbols
      /\ query' \in [name : Names \cup {InvalidId}, scope : ScopeIds \cup {InvalidId}, workspace : BOOLEAN]
      /\ answer'.status \in {"Resolved", "Unresolved", "Ambiguous"}
  BY <1>1, <1>2 DEF ScopesInv, TypeOK
<1>4. TypeOK' /\ ParentsFirst' /\ Ascending' /\ EntriesRight'
  BY <1>1, <1>3, QueryFrame
<1>5. WalkRight'
  <2>1. query.name \in Names /\ VisibleSymbol(query.scope, query.name) = VisibleSymbol(current, query.name)
    BY <1>1 DEF ScopesInv, WalkRight
  <2>2. EntryRight(current, Len(scopes[current].symbols), query.name)
    BY <1>1, <2>1 DEF ScopesInv, EntriesRight
  <2>3. byName[current][query.name] = VisibleSymbol(scopes[current].parent, query.name)
    BY <1>1, <2>2, DeclaredIsLayered DEF EntryRight, ScopesInv
  <2>4. VisibleSymbol(query.scope, query.name) = VisibleSymbol(scopes[current].parent, query.name)
    BY <1>1, <2>1, <2>3 DEF VisibleSymbol
  <2>5. \A t : VisibleSymbol(t, query.name)' = VisibleSymbol(t, query.name)
    BY <1>1 DEF VisibleSymbol, ScopeIds
  <2> QED
    BY <1>1, <2>1, <2>4 DEF WalkRight, VisibleSymbol, ScopeIds
<1> QED
  BY <1>4, <1>5 DEF ScopesInv

LEMMA LookupHitInv == ScopesInv /\ LookupHit => ScopesInv'
<1> SUFFICES ASSUME ScopesInv, LookupHit PROVE ScopesInv'
  OBVIOUS
<1>1. /\ UNCHANGED <<input, pc, calls, scopes, nodeScope, symbolScope, next, pos, byName, query, current, answer>>
      /\ pc = "walk" /\ current \in ScopeIds /\ result' = Declared(current, query.name)
  BY DEF LookupHit, treeVars, visVars, ScopesInv, TypeOK
<1>2. /\ current' \in ScopeIds \cup {InvalidId} /\ result' \subseteq Symbols
      /\ query' \in [name : Names \cup {InvalidId}, scope : ScopeIds \cup {InvalidId}, workspace : BOOLEAN]
      /\ answer'.status \in {"Resolved", "Unresolved", "Ambiguous"}
  BY <1>1, DeclaredIsLayered DEF ScopesInv, TypeOK
<1>3. TypeOK' /\ ParentsFirst' /\ Ascending' /\ EntriesRight'
  BY <1>1, <1>2, QueryFrame
<1>4. WalkRight'
  BY <1>1 DEF ScopesInv, WalkRight, VisibleSymbol, ScopeIds, Declared, SymbolName
<1> QED
  BY <1>3, <1>4 DEF ScopesInv

LEMMA AnswerInv == ScopesInv /\ Answer => ScopesInv'
<1> SUFFICES ASSUME ScopesInv, Answer PROVE ScopesInv'
  OBVIOUS
<1>1. /\ UNCHANGED <<input, calls, scopes, nodeScope, symbolScope, next, pos, byName, query, current, result>>
      /\ pc = "walk" /\ pc' = "answered" /\ (result # {} \/ current = InvalidId)
  BY DEF Answer, treeVars, visVars
<1>2. answer'.status \in {"Resolved", "Unresolved", "Ambiguous"}
  BY DEF Answer, FromCandidates
<1>3. /\ current' \in ScopeIds \cup {InvalidId} /\ result' \subseteq Symbols
      /\ query' \in [name : Names \cup {InvalidId}, scope : ScopeIds \cup {InvalidId}, workspace : BOOLEAN]
  BY <1>1 DEF ScopesInv, TypeOK
<1>4. TypeOK' /\ ParentsFirst' /\ Ascending' /\ EntriesRight'
  BY <1>1, <1>2, <1>3, QueryFrame
<1>5. WalkRight'
  BY <1>1 DEF ScopesInv, WalkRight, VisibleSymbol, ScopeIds, Declared, SymbolName
<1> QED
  BY <1>4, <1>5 DEF ScopesInv

LEMMA NextInv == ScopesInv /\ [Next]_vars => ScopesInv'
<1> SUFFICES ASSUME ScopesInv, [Next]_vars PROVE ScopesInv'
  OBVIOUS
<1>1. CASE UNCHANGED vars
  <2>1. UNCHANGED <<input, pc, calls, scopes, nodeScope, symbolScope, next, pos, byName,
                    query, current, result, answer>>
    BY <1>1 DEF vars
  <2>2. Nodes' = Nodes /\ Symbols' = Symbols /\ ScopeIds' = ScopeIds
    BY <2>1 DEF Nodes, Symbols, ScopeIds
  <2>3. TypeOK' /\ ParentsFirst' /\ Ascending'
    BY <2>1, <2>2 DEF ScopesInv, TypeOK, ParentsFirst, Ascending
  <2>4. EntriesRight'
    BY <2>1, <2>2, EntriesFrame DEF ScopesInv, EntriesRight
  <2>5. WalkRight'
    BY <2>1, <2>2 DEF ScopesInv, WalkRight, VisibleSymbol, Declared, SymbolName
  <2> QED
    BY <2>3, <2>4, <2>5 DEF ScopesInv
<1>2. CASE Step
  BY <1>2, DfsInv, TreeBuiltInv, AssociateInv, AllAssociatedInv, InheritInv, LayerInv, ComputedInv,
     LookOutwardInv, LookupHitInv, AnswerInv DEF Step
<1>3. CASE Query
  BY <1>3, QueryInv
<1> QED
  BY <1>1, <1>2, <1>3 DEF Next

LEMMA InvAlways == Spec => []ScopesInv
  BY InitInv, NextInv, PTL DEF Spec

-----------------------------------------------------------------------------
(* build_scope_tree, associate_symbols, compute and resolve keep every      *)
(* index inside the vector it is for.                                       *)
THEOREM TypeCorrect == Spec => []TypeOK
<1>1. ScopesInv => TypeOK
  BY DEF ScopesInv
<1> QED
  BY <1>1, InvAlways, PTL

(* build_scope_tree numbers every scope after its parent, on any tree: the  *)
(* one thing compute assumes of its input.                                  *)
THEOREM ParentsComeFirst == Spec => []ParentsFirst
<1>1. ScopesInv => ParentsFirst
  BY DEF ScopesInv
<1> QED
  BY <1>1, InvAlways, PTL

(* ScopeVisibility::resolve and lookup answer alike, on any tree, for any   *)
(* name and at any scope: both find the name or neither, and the visible    *)
(* symbol is the last of the overloads lookup returns.                      *)
THEOREM VisibilityIsLookup == Spec => []VisibilityAgreesWithLookup
<1>1. ScopesInv => VisibilityAgreesWithLookup
  <2> SUFFICES ASSUME ScopesInv, pc = "answered"
               PROVE  LET k == VisibleSymbol(query.scope, query.name)
                      IN  IF result = {} THEN k = InvalidSymbol
                          ELSE k \in result /\ \A j \in result : j <= k
    BY DEF VisibilityAgreesWithLookup
  <2>1. /\ query.name \in Names
        /\ VisibleSymbol(query.scope, query.name) = VisibleSymbol(current, query.name)
        /\ result # {} => current \in ScopeIds /\ result = Declared(current, query.name)
        /\ result # {} \/ current = InvalidId
    BY DEF ScopesInv, WalkRight
  <2>2. CASE result = {}
    <3>1. InvalidId \notin ScopeIds
      BY ScopeParts DEF ScopesInv, InvalidId
    <3> QED
      BY <2>1, <2>2, <3>1 DEF VisibleSymbol
  <2>3. CASE result # {}
    <3>1. EntryRight(current, Len(scopes[current].symbols), query.name)
      BY <2>1, <2>3 DEF ScopesInv, EntriesRight
    <3>2. VisibleSymbol(current, query.name) = byName[current][query.name]
      BY <2>1, <2>3 DEF VisibleSymbol
    <3> QED
      BY <2>1, <2>3, <3>1, <3>2, DeclaredIsLayered DEF ScopesInv, EntryRight
  <2> QED
    BY <2>2, <2>3
<1> QED
  BY <1>1, InvAlways, PTL

-----------------------------------------------------------------------------
(* What is in sight.  The list of a scope and symbolScope say the same of   *)
(* every symbol that associate_symbols has come to.                         *)
Lists(s, k) == \E i \in DOMAIN scopes[s].symbols : scopes[s].symbols[i] = k
Located ==
  /\ pc # "build" => \A s \in ScopeIds, k \in Symbols : Lists(s, k) <=> symbolScope[k] = s
  /\ pc = "associate" => \A k \in Symbols : k >= next => symbolScope[k] = InvalidId

(* An entry of the visible map is of its name and from around its scope. *)
VisibleAround ==
  pc \in {"visible", "ready", "walk", "answered"} =>
    \A s \in ScopeIds, n \in Names : byName[s][n] # InvalidSymbol =>
      /\ byName[s][n] \in Symbols /\ SymbolName(byName[s][n]) = n
      /\ symbolScope[byName[s][n]] \in Enclosing(s)

(* The walk has left the enclosing scopes that do not declare the name, and *)
(* no other.                                                                *)
WalkedOut ==
  pc \in {"walk", "answered"} =>
    /\ query.scope = InvalidId => current = InvalidId
    /\ current # InvalidId => current \in Enclosing(query.scope)
    /\ query.scope # InvalidId => \A t \in Enclosing(query.scope) :
         \/ t > current /\ Declared(t, query.name) = {}
         \/ current # InvalidId /\ t \in Enclosing(current)

AnswerGiven ==
  pc = "answered" =>
    answer.candidates = IF result # {} THEN Here(result)
                        ELSE IF query.workspace THEN WorkspaceMatches(query.name) ELSE {}

SightInv == Located /\ VisibleAround /\ WalkedOut /\ AnswerGiven

(* A scope encloses itself, and what encloses its parent; nothing that      *)
(* encloses it comes after it.                                              *)
LEMMA EnclosingFacts ==
  ASSUME TypeOK, ParentsFirst, NEW s \in ScopeIds
  PROVE  /\ Enclosing(s) \subseteq ScopeIds /\ s \in Enclosing(s)
         /\ \A t \in Enclosing(s) : t <= s
         /\ scopes[s].parent = InvalidId => Enclosing(s) = {s}
         /\ scopes[s].parent # InvalidId =>
              Enclosing(s) = {s} \cup Enclosing(scopes[s].parent)
<1> DEFINE Closed(S) == \A u \in S : scopes[u].parent \in S \cup {InvalidId}
<1>1. /\ ScopeIds = 1..Len(scopes) /\ Len(scopes) \in Nat
      /\ \A t \in ScopeIds : scopes[t].parent \in ScopeIds \cup {InvalidId} /\ scopes[t].parent < t
  BY ScopeParts
<1>2. ASSUME NEW x \in ScopeIds, NEW S \in SUBSET ScopeIds, x \in S, Closed(S)
      PROVE  Enclosing(x) \subseteq S
  BY <1>2 DEF Enclosing
<1>3. ASSUME NEW x \in ScopeIds PROVE x \in Enclosing(x) /\ Enclosing(x) \subseteq ScopeIds
  BY DEF Enclosing
<1>4. ASSUME NEW x \in ScopeIds PROVE Closed(Enclosing(x))
  <2> SUFFICES ASSUME NEW u \in Enclosing(x), scopes[u].parent # InvalidId
               PROVE  scopes[u].parent \in Enclosing(x)
    OBVIOUS
  <2>1. u \in ScopeIds /\ scopes[u].parent \in ScopeIds
    BY <1>1, <1>3
  <2>2. ASSUME NEW S \in SUBSET ScopeIds, x \in S, Closed(S) PROVE scopes[u].parent \in S
    <3>1. u \in S
      BY <1>2, <2>2
    <3>. QED BY <2>2, <3>1
  <2>. QED BY <2>1, <2>2 DEF Enclosing
<1>5. \A t \in Enclosing(s) : t <= s
  <2> DEFINE S == {t \in ScopeIds : t <= s}
  <2>1. Closed(S) /\ s \in S
    BY <1>1 DEF InvalidId
  <2>. QED BY <1>2, <2>1
<1>6. CASE scopes[s].parent = InvalidId
  <2>1. Closed({s})
    BY <1>6
  <2>2. Enclosing(s) \subseteq {s}
    BY <1>2, <2>1
  <2>. QED BY <1>3, <1>5, <1>6, <2>2
<1>7. CASE scopes[s].parent # InvalidId
  <2> DEFINE p == scopes[s].parent
  <2>1. p \in ScopeIds
    BY <1>1, <1>7
  <2> HIDE DEF p
  <2>2. Closed({s} \cup Enclosing(p))
    <3> SUFFICES ASSUME NEW u \in {s} \cup Enclosing(p)
                 PROVE  scopes[u].parent \in {s} \cup Enclosing(p) \cup {InvalidId}
      OBVIOUS
    <3>1. CASE u = s
      BY <1>3, <2>1, <3>1 DEF p
    <3>2. CASE u \in Enclosing(p)
      BY <1>4, <2>1, <3>2
    <3>. QED BY <3>1, <3>2
  <2>3. Enclosing(s) \subseteq {s} \cup Enclosing(p)
    <3> DEFINE T == {s} \cup Enclosing(p)
    <3>1. T \in SUBSET ScopeIds /\ s \in T /\ Closed(T)
      BY <1>3, <2>1, <2>2
    <3> HIDE DEF T, Closed
    <3>2. Enclosing(s) \subseteq T
      BY <1>2, <3>1
    <3>. QED BY <3>2 DEF T
  <2>4. p \in Enclosing(s)
    BY <1>3, <1>4, <1>7 DEF p
  <2>5. Enclosing(p) \subseteq Enclosing(s)
    BY <1>2, <1>3, <1>4, <2>1, <2>4
  <2>. QED BY <1>3, <1>5, <1>7, <2>3, <2>5 DEF p
<1>. QED BY <1>3, <1>5, <1>6, <1>7

LEMMA SameScopes ==
  ASSUME UNCHANGED scopes
  PROVE  ScopeIds' = ScopeIds /\ \A s : Enclosing(s)' = Enclosing(s)
  BY DEF ScopeIds, Enclosing

(* What a scope declares under a name, in terms of symbolScope. *)
LEMMA DeclaredIsLocated ==
  ASSUME TypeOK, ParentsFirst, Located, pc # "build", NEW s \in ScopeIds, NEW n
  PROVE  Declared(s, n) = {k \in Symbols : SymbolName(k) = n /\ symbolScope[k] = s}
<1>1. \A i \in DOMAIN scopes[s].symbols : scopes[s].symbols[i] \in Symbols
  BY ScopeParts
<1>2. \A k \in Symbols : Lists(s, k) <=> symbolScope[k] = s
  BY DEF Located
<1>. QED BY <1>1, <1>2 DEF Declared, Lists
-----------------------------------------------------------------------------
(* The steps of the analysis. *)

(* A step that changes neither lists nor map leaves them located. *)
LEMMA LocatedFrame ==
  ASSUME Located, UNCHANGED <<input, scopes, symbolScope>>, pc # "build", pc' # "build",
         pc' # "associate"
  PROVE  Located'
<1>1. Symbols' = Symbols /\ ScopeIds' = ScopeIds
  BY DEF Symbols, ScopeIds
<1>. QED BY <1>1 DEF Located, Lists

LEMMA VisibleFrame ==
  ASSUME VisibleAround, UNCHANGED <<input, scopes, symbolScope, byName>>,
         pc \in {"visible", "ready", "walk", "answered"}
  PROVE  VisibleAround'
<1>1. Symbols' = Symbols /\ ScopeIds' = ScopeIds /\ \A s : Enclosing(s)' = Enclosing(s)
  BY SameScopes DEF Symbols
<1>2. \A k : SymbolName(k)' = SymbolName(k)
  BY DEF SymbolName
<1>. QED BY <1>1, <1>2 DEF VisibleAround

LEMMA BuildSight ==
  ASSUME ScopesInv, SightInv, Dfs \/ TreeBuilt
  PROVE  SightInv'
<1>1. pc = "build" /\ pc' \in {"build", "associate"} /\ Symbols' = Symbols
  BY DEF Dfs, TreeBuilt, Symbols
<1>2. VisibleAround' /\ WalkedOut' /\ AnswerGiven'
  BY <1>1 DEF VisibleAround, WalkedOut, AnswerGiven
<1>3. CASE Dfs
  BY <1>1, <1>2, <1>3 DEF Dfs, Located, SightInv
<1>4. CASE TreeBuilt
  <2>1. /\ scopes' = scopes /\ ScopeIds' = ScopeIds
        /\ symbolScope' = [k \in Symbols |-> InvalidId]
    BY <1>4 DEF TreeBuilt, treeVars, ScopeIds
  <2>2. \A s \in ScopeIds : DOMAIN scopes[s].symbols = {} /\ s # InvalidId
    BY <1>1, ScopeParts DEF ScopesInv, Ascending, InvalidId
  <2>3. Located'
    BY <1>1, <2>1, <2>2 DEF Located, Lists
  <2>. QED BY <1>2, <2>3 DEF SightInv
<1>. QED BY <1>3, <1>4

LEMMA AssociateSight ==
  ASSUME ScopesInv, SightInv, Associate
  PROVE  SightInv'
<1> DEFINE s == DeclaringScope(next)
<1>1. /\ pc = "associate" /\ pc' = "associate" /\ next \in Symbols /\ next' = next + 1
      /\ Symbols' = Symbols
  BY DEF Associate, Symbols
<1>2. VisibleAround' /\ WalkedOut' /\ AnswerGiven'
  BY <1>1 DEF VisibleAround, WalkedOut, AnswerGiven
<1>3. /\ Symbols \subseteq Nat
      /\ symbolScope \in [Symbols -> ScopeIds \cup {InvalidId}]
      /\ ScopeIds = 1..Len(scopes) /\ Len(scopes) \in Nat
      /\ \A t \in ScopeIds : /\ scopes[t] \in Scope
                             /\ scopes[t].symbols \in Seq(Symbols)
                             /\ Len(scopes[t].symbols) \in Nat
                             /\ DOMAIN scopes[t].symbols = 1..Len(scopes[t].symbols)
  <2>1. Symbols \subseteq Nat
    BY InputParts DEF ScopesInv, TypeOK
  <2>2. symbolScope \in [Symbols -> ScopeIds \cup {InvalidId}]
    BY <1>1 DEF ScopesInv, TypeOK
  <2>. QED BY <2>1, <2>2, ScopeParts DEF ScopesInv
<1>4. /\ \A t \in ScopeIds, k \in Symbols : Lists(t, k) <=> symbolScope[k] = t
      /\ \A k \in Symbols : k >= next => symbolScope[k] = InvalidId
  BY <1>1 DEF SightInv, Located
<1>5. CASE s = InvalidId
  <2>1. UNCHANGED <<scopes, symbolScope>> /\ ScopeIds' = ScopeIds
    BY <1>5 DEF Associate, assocVars, ScopeIds
  <2>2. \A k \in Symbols : k >= next + 1 => k >= next
    BY <1>1, <1>3
  <2>3. Located'
    BY <1>1, <1>4, <2>1, <2>2 DEF Located, Lists
  <2>. QED BY <1>2, <2>3 DEF SightInv
<1>6. CASE s # InvalidId
  <2>1. s \in ScopeIds
    <3>1. nodeScope \in [Nodes -> ScopeIds \cup {InvalidId}]
      BY DEF ScopesInv, TypeOK
    <3>2. input.symbols[next].node \in Nodes \cup {InvalidId}
      BY <1>1, InputParts DEF ScopesInv, TypeOK
    <3>3. \A t \in ScopeIds : scopes[t].parent \in ScopeIds \cup {InvalidId}
      BY ScopeParts DEF ScopesInv
    <3>. QED BY <1>6, <3>1, <3>2, <3>3 DEF DeclaringScope
  <2>2. /\ scopes' = [scopes EXCEPT ![s].symbols = Append(@, next)]
        /\ symbolScope' = [symbolScope EXCEPT ![next] = s]
    BY <1>6 DEF Associate
  <2> DEFINE list == Append(scopes[s].symbols, next)
  <2> DEFINE m == Len(scopes[s].symbols)
  <2>3. /\ DOMAIN list = 1..(m + 1) /\ m \in Nat
        /\ \A i \in 1..m : list[i] = scopes[s].symbols[i]
        /\ list[m + 1] = next
    BY <2>1, <1>1, <1>3, AppendProperties, LenProperties
  <2>4. [scopes[s] EXCEPT !.symbols = list].symbols = list
    BY <2>1, <1>3 DEF Scope
  <2>5. scopes' = [scopes EXCEPT ![s] = [scopes[s] EXCEPT !.symbols = list]]
    BY <2>2
  <2>6. /\ scopes'[s].symbols = list /\ ScopeIds' = ScopeIds
        /\ \A t \in ScopeIds : t # s => scopes'[t].symbols = scopes[t].symbols
    BY <2>1, <2>4, <2>5, <1>3 DEF ScopeIds
  <2> HIDE DEF list, s
  <2>7. symbolScope[next] = InvalidId /\ InvalidId \notin ScopeIds
    BY <1>1, <1>3, <1>4 DEF InvalidId
  <2>8. ASSUME NEW t \in ScopeIds, NEW k \in Symbols
        PROVE  Lists(t, k)' <=> symbolScope'[k] = t
    <3>1. CASE t # s
      <4>1. Lists(t, k)' <=> Lists(t, k)
        BY <2>6, <3>1 DEF Lists
      <4>. QED BY <1>1, <1>3, <1>4, <2>2, <2>7, <3>1, <4>1
    <3>2. CASE t = s
      <4>1. DOMAIN list = DOMAIN scopes[s].symbols \cup {m + 1}
        BY <1>3, <2>1, <2>3
      <4>2. Lists(t, k)' <=> (Lists(s, k) \/ k = next)
        BY <1>3, <2>1, <2>3, <2>6, <3>2, <4>1 DEF Lists
      <4>. QED BY <1>1, <1>3, <1>4, <2>1, <2>2, <2>7, <3>2, <4>2
    <3>. QED BY <3>1, <3>2
  <2>9. ASSUME NEW k \in Symbols, k >= next + 1 PROVE symbolScope'[k] = InvalidId
    BY <1>1, <1>3, <1>4, <2>2, <2>9
  <2>10. Located'
    BY <1>1, <2>6, <2>8, <2>9 DEF Located
  <2>. QED BY <1>2, <2>10 DEF SightInv
<1>. QED BY <1>5, <1>6

LEMMA AllAssociatedSight ==
  ASSUME ScopesInv, SightInv, AllAssociated
  PROVE  SightInv'
<1>1. /\ pc = "associate" /\ pc' = "visible" /\ UNCHANGED <<input, scopes, symbolScope>>
      /\ byName' = [s \in ScopeIds |-> Nothing]
  BY DEF AllAssociated, treeVars
<1>2. Located'
  BY <1>1, LocatedFrame DEF SightInv
<1>3. VisibleAround'
  BY <1>1, SameScopes DEF VisibleAround, Nothing
<1>. QED BY <1>1, <1>2, <1>3 DEF SightInv, WalkedOut, AnswerGiven

LEMMA InheritSight ==
  ASSUME ScopesInv, SightInv, Inherit
  PROVE  SightInv'
<1> DEFINE x == next + 1
<1> DEFINE e == IF scopes[x].parent \in ScopeIds THEN byName[scopes[x].parent] ELSE byName[x]
<1>1. /\ pc = "visible" /\ pc' = "visible" /\ UNCHANGED <<input, scopes, symbolScope>>
      /\ x \in ScopeIds /\ byName' = [byName EXCEPT ![x] = e]
  BY DEF Inherit, treeVars
<1>2. Located'
  BY <1>1, LocatedFrame DEF SightInv
<1>3. Symbols' = Symbols /\ ScopeIds' = ScopeIds /\ \A s : Enclosing(s)' = Enclosing(s)
  BY <1>1, SameScopes DEF Symbols
<1>4. byName \in [ScopeIds -> [Names -> Symbols \cup {InvalidSymbol}]]
  BY <1>1 DEF ScopesInv, TypeOK
<1>5. scopes[x].parent \in ScopeIds => Enclosing(scopes[x].parent) \subseteq Enclosing(x)
  <2>1. InvalidId \notin ScopeIds
    BY ScopeParts DEF ScopesInv, InvalidId
  <2>. QED BY <1>1, <2>1, EnclosingFacts DEF ScopesInv
<1> HIDE DEF x
<1>6. ASSUME NEW s \in ScopeIds, NEW n \in Names, byName'[s][n] # InvalidSymbol
      PROVE  /\ byName'[s][n] \in Symbols /\ SymbolName(byName'[s][n]) = n
             /\ symbolScope[byName'[s][n]] \in Enclosing(s)
  <2>1. CASE s = x /\ scopes[x].parent \in ScopeIds
    <3>1. byName'[s] = byName[scopes[x].parent]
      BY <1>1, <1>4, <2>1
    <3>. QED BY <1>1, <1>5, <1>6, <2>1, <3>1 DEF SightInv, VisibleAround
  <2>2. CASE ~(s = x /\ scopes[x].parent \in ScopeIds)
    <3>1. byName'[s] = byName[s]
      BY <1>1, <1>4, <2>2
    <3>. QED BY <1>1, <1>6, <3>1 DEF SightInv, VisibleAround
  <2>. QED BY <2>1, <2>2
<1>7. VisibleAround'
  BY <1>1, <1>3, <1>6 DEF VisibleAround, SymbolName
<1>. QED BY <1>1, <1>2, <1>7 DEF SightInv, WalkedOut, AnswerGiven

LEMMA LayerSight ==
  ASSUME ScopesInv, SightInv, Layer
  PROVE  SightInv'
<1> DEFINE k == scopes[next].symbols[pos]
<1>1. /\ pc = "visible" /\ pc' = "visible" /\ UNCHANGED <<input, scopes, symbolScope>>
      /\ next \in ScopeIds /\ ~(pos > Len(scopes[next].symbols))
      /\ byName' = [byName EXCEPT ![next][SymbolName(k)] = k]
  BY DEF Layer, LayersDone, treeVars
<1>2. Located'
  BY <1>1, LocatedFrame DEF SightInv
<1>3. Symbols' = Symbols /\ ScopeIds' = ScopeIds /\ \A s : Enclosing(s)' = Enclosing(s)
  BY <1>1, SameScopes DEF Symbols
<1>4. byName \in [ScopeIds -> [Names -> Symbols \cup {InvalidSymbol}]]
  BY <1>1 DEF ScopesInv, TypeOK
<1>5. pos \in DOMAIN scopes[next].symbols /\ k \in Symbols
  <2>1. pos \in 1..(Len(scopes[next].symbols) + 1) /\ Len(scopes[next].symbols) \in Nat
    BY <1>1, ScopeParts DEF ScopesInv, EntriesRight
  <2>2. pos \in 1..Len(scopes[next].symbols)
    BY <1>1, <2>1
  <2>. QED BY <1>1, <2>2, ScopeParts DEF ScopesInv
<1>6. symbolScope[k] = next
  <2>1. Lists(next, k)
    BY <1>5 DEF Lists
  <2> HIDE DEF k
  <2>. QED BY <1>1, <1>5, <2>1 DEF SightInv, Located
<1>7. next \in Enclosing(next)
  BY <1>1, EnclosingFacts DEF ScopesInv
<1> HIDE DEF k
<1>8. ASSUME NEW s \in ScopeIds, NEW n \in Names, byName'[s][n] # InvalidSymbol
      PROVE  /\ byName'[s][n] \in Symbols /\ SymbolName(byName'[s][n]) = n
             /\ symbolScope[byName'[s][n]] \in Enclosing(s)
  <2>1. CASE s = next /\ n = SymbolName(k)
    <3>1. byName'[s][n] = k
      BY <1>1, <1>4, <2>1
    <3>. QED BY <1>5, <1>6, <1>7, <2>1, <3>1
  <2>2. CASE ~(s = next /\ n = SymbolName(k))
    <3>1. byName'[s][n] = byName[s][n]
      BY <1>1, <1>4, <2>2
    <3>. QED BY <1>1, <1>8, <3>1 DEF SightInv, VisibleAround
  <2>. QED BY <2>1, <2>2
<1>9. VisibleAround'
  BY <1>1, <1>3, <1>8 DEF VisibleAround, SymbolName
<1>. QED BY <1>1, <1>2, <1>9 DEF SightInv, WalkedOut, AnswerGiven

LEMMA ComputedSight ==
  ASSUME ScopesInv, SightInv, Computed
  PROVE  SightInv'
<1>1. /\ pc = "visible" /\ pc' = "ready" /\ UNCHANGED <<input, scopes, symbolScope, byName>>
  BY DEF Computed, treeVars, visVars
<1>. QED BY <1>1, LocatedFrame, VisibleFrame DEF SightInv, WalkedOut, AnswerGiven

(* The steps of a query. *)
LEMMA QuerySight ==
  ASSUME ScopesInv, SightInv, Query
  PROVE  SightInv'
<1>1. PICK n \in Names, s \in ScopeIds \cup {InvalidId}, w \in BOOLEAN : Resolve(n, s, w)
  BY DEF Query
<1>2. /\ pc = "ready" /\ pc' = "walk" /\ UNCHANGED <<input, scopes, symbolScope, byName>>
      /\ query' = [name |-> n, scope |-> s, workspace |-> w] /\ current' = s
  BY <1>1 DEF Resolve, treeVars, visVars
<1>3. WalkedOut'
  <2>1. s # InvalidId => s \in ScopeIds /\ s \in Enclosing(s)
    BY EnclosingFacts DEF ScopesInv
  <2>. QED BY <1>2, <2>1, SameScopes DEF WalkedOut
<1>. QED BY <1>2, <1>3, LocatedFrame, VisibleFrame DEF SightInv, AnswerGiven

LEMMA LookOutwardSight ==
  ASSUME ScopesInv, SightInv, LookOutward
  PROVE  SightInv'
<1>1. /\ pc = "walk" /\ pc' = "walk" /\ UNCHANGED <<input, scopes, symbolScope, byName, query>>
      /\ current \in ScopeIds /\ current # InvalidId
      /\ Declared(current, query.name) = {}
      /\ current' = scopes[current].parent
  BY DEF LookOutward, treeVars, visVars, ScopesInv, TypeOK
<1>2. /\ scopes[current].parent \in ScopeIds \cup {InvalidId} /\ scopes[current].parent < current
      /\ InvalidId \notin ScopeIds /\ ScopeIds \subseteq Nat
  BY <1>1, ScopeParts DEF ScopesInv, InvalidId
<1>3. /\ query.scope # InvalidId
      /\ current \in Enclosing(query.scope)
      /\ \A t \in Enclosing(query.scope) :
           \/ t > current /\ Declared(t, query.name) = {}
           \/ t \in Enclosing(current)
  BY <1>1 DEF SightInv, WalkedOut
<1>4. query.scope \in ScopeIds
  BY <1>3 DEF ScopesInv, TypeOK
<1> DEFINE p == scopes[current].parent
<1>5. /\ p = InvalidId => Enclosing(current) = {current}
      /\ p # InvalidId => Enclosing(current) = {current} \cup Enclosing(p) /\ p \in Enclosing(p)
  BY <1>1, <1>2, EnclosingFacts DEF ScopesInv
<1>6. p # InvalidId => p \in Enclosing(query.scope)
  <2>1. ASSUME p # InvalidId, NEW S \in SUBSET ScopeIds, query.scope \in S,
               \A u \in S : scopes[u].parent \in S \cup {InvalidId}
        PROVE  p \in S
    <3>1. current \in S
      BY <1>3, <2>1 DEF Enclosing
    <3>. QED BY <2>1, <3>1
  <2>. QED BY <1>2, <2>1 DEF Enclosing
<1>7. ASSUME NEW t \in Enclosing(query.scope)
      PROVE  \/ t > p /\ Declared(t, query.name) = {}
             \/ p # InvalidId /\ t \in Enclosing(p)
  <2>1. t \in ScopeIds
    BY <1>4, EnclosingFacts DEF ScopesInv
  <2>2. CASE t > current /\ Declared(t, query.name) = {}
    <3>1. t \in Nat /\ current \in Nat
      BY <1>1, <1>2, <2>1
    <3>2. \A b, c : b \in Nat /\ c \in Nat /\ t > b /\ c < b => t > c
      BY <3>1
    <3>3. p \in Nat
      <4>. 0 \in Nat
        OBVIOUS
      <4>. QED BY <1>2, Zenon DEF InvalidId
    <3>4. p < current
      BY <1>2, Zenon
    <3>5. t > p
      BY <2>2, <3>1, <3>2, <3>3, <3>4, Zenon
    <3>. QED BY <2>2, <3>5
  <2>3. CASE t \in Enclosing(current)
    BY <1>1, <1>2, <1>5, <2>3
  <2>. QED BY <1>3, <2>2, <2>3
<1>8. \A t : Declared(t, query.name)' = Declared(t, query.name)
  BY <1>1 DEF Declared, SymbolName
<1>9. WalkedOut'
  BY <1>1, <1>3, <1>6, <1>7, <1>8, SameScopes DEF WalkedOut
<1>. QED BY <1>1, <1>9, LocatedFrame, VisibleFrame DEF SightInv, AnswerGiven

LEMMA AnswerSight ==
  ASSUME ScopesInv, SightInv, LookupHit \/ Answer
  PROVE  SightInv'
<1>1. /\ pc = "walk" /\ pc' \in {"walk", "answered"}
      /\ UNCHANGED <<input, scopes, symbolScope, byName, query, current>>
  BY DEF LookupHit, Answer, treeVars, visVars
<1>2. \A t : Declared(t, query.name)' = Declared(t, query.name)
  BY <1>1 DEF Declared, SymbolName
<1>3. WalkedOut'
  BY <1>1, <1>2, SameScopes DEF SightInv, WalkedOut
<1>4. AnswerGiven'
  <2>1. CASE LookupHit
    BY <1>1, <2>1 DEF LookupHit, AnswerGiven
  <2>2. CASE Answer
    <3>1. UNCHANGED <<input, query, result>>
      BY <2>2 DEF Answer
    <3>2. Here(result)' = Here(result) /\ WorkspaceMatches(query.name)' = WorkspaceMatches(query.name)
      BY <3>1 DEF Here, WorkspaceMatches, Symbols, SymbolName
    <3>. QED BY <2>2, <3>1, <3>2 DEF Answer, AnswerGiven, FromCandidates
  <2>. QED BY <2>1, <2>2
<1>. QED BY <1>1, <1>3, <1>4, LocatedFrame, VisibleFrame DEF SightInv

LEMMA SightNext == ScopesInv /\ SightInv /\ [Next]_vars => SightInv'
<1> SUFFICES ASSUME ScopesInv, SightInv, [Next]_vars PROVE SightInv'
  OBVIOUS
<1>1. CASE UNCHANGED vars
  <2>1. UNCHANGED <<input, pc, scopes, symbolScope, next, byName, query, current, result, answer>>
    BY <1>1 DEF vars
  <2>2. Symbols' = Symbols /\ ScopeIds' = ScopeIds
    BY <2>1 DEF Symbols, ScopeIds
  <2>3. Located'
    BY <2>1, <2>2 DEF SightInv, Located, Lists
  <2>4. VisibleAround'
    <3>1. pc \in {"visible", "ready", "walk", "answered"} => VisibleAround'
      BY <2>1, VisibleFrame DEF SightInv
    <3>. QED BY <2>1, <3>1 DEF VisibleAround
  <2>5. WalkedOut'
    <3>1. \A t : Declared(t, query.name)' = Declared(t, query.name)
      BY <2>1 DEF Declared, SymbolName
    <3>. QED BY <2>1, <3>1, SameScopes DEF SightInv, WalkedOut
  <2>6. AnswerGiven'
    <3>1. Here(result)' = Here(result) /\ WorkspaceMatches(query.name)' = WorkspaceMatches(query.name)
      BY <2>1 DEF Here, WorkspaceMatches, Symbols, SymbolName
    <3>. QED BY <2>1, <3>1 DEF SightInv, AnswerGiven
  <2>. QED BY <2>3, <2>4, <2>5, <2>6 DEF SightInv
<1>2. CASE Step
  BY <1>2, BuildSight, AssociateSight, AllAssociatedSight, InheritSight, LayerSight, ComputedSight,
     LookOutwardSight, AnswerSight DEF Step
<1>3. CASE Query
  BY <1>3, QuerySight
<1>. QED BY <1>1, <1>2, <1>3 DEF Next

LEMMA SightAlways == Spec => []SightInv
<1>1. Init => SightInv
  BY DEF Init, SightInv, Located, VisibleAround, WalkedOut, AnswerGiven
<1>. QED BY <1>1, SightNext, InvAlways, PTL DEF Spec

(* compute's single pass makes visible in a scope only what is declared in  *)
(* it or around it, and at most one symbol of a name, on any tree.          *)
THEOREM VisibleFromAround == Spec => []OnlyEnclosingVisible
<1>1. ScopesInv /\ SightInv => OnlyEnclosingVisible
  BY DEF SightInv, VisibleAround, OnlyEnclosingVisible, VisibleIn
<1>. QED BY <1>1, InvAlways, SightAlways, PTL

(* resolve answers with the overload set of the innermost enclosing scope   *)
(* that declares the name, and turns to the workspace only if none does,    *)
(* for any tree, symbols, other files and query.                            *)
THEOREM AnswersFollowScopes == Spec => []AnswerFollowsShadowing
<1>1. ScopesInv /\ SightInv => AnswerFollowsShadowing
  <2> SUFFICES ASSUME ScopesInv, SightInv, pc = "answered" PROVE AnswerFollowsShadowing
    BY DEF AnswerFollowsShadowing
  <2> DEFINE n == query.name
  <2> DEFINE outer == IF query.scope = InvalidId THEN {} ELSE Enclosing(query.scope)
  <2> DEFINE local == {k \in Symbols : SymbolName(k) = n /\ symbolScope[k] \in outer}
  <2> DEFINE inner == {k \in local : symbolScope[k] = Innermost({symbolScope[j] : j \in local})}
  <2>1. /\ result # {} => current \in ScopeIds /\ result = Declared(current, n)
        /\ result # {} \/ current = InvalidId
    BY DEF ScopesInv, WalkRight
  <2>2. /\ query.scope = InvalidId => current = InvalidId
        /\ current # InvalidId => current \in Enclosing(query.scope)
        /\ query.scope # InvalidId => \A t \in Enclosing(query.scope) :
             \/ t > current /\ Declared(t, n) = {}
             \/ current # InvalidId /\ t \in Enclosing(current)
    BY DEF SightInv, WalkedOut
  <2>3. query.scope \in ScopeIds \cup {InvalidId} /\ InvalidId \notin ScopeIds /\ ScopeIds \subseteq Nat
    <3>1. query.scope \in ScopeIds \cup {InvalidId}
      BY DEF ScopesInv, TypeOK
    <3>2. InvalidId \notin ScopeIds /\ ScopeIds \subseteq Nat
      BY ScopeParts DEF ScopesInv, InvalidId
    <3>. QED BY <3>1, <3>2
  <2>4. outer \subseteq ScopeIds
    BY <2>3, EnclosingFacts DEF ScopesInv
  <2>5. \A s \in ScopeIds : Declared(s, n) = {k \in Symbols : SymbolName(k) = n /\ symbolScope[k] = s}
    BY DeclaredIsLocated DEF ScopesInv, SightInv
  <2>6. answer.candidates = IF result # {} THEN Here(result)
                            ELSE IF query.workspace THEN WorkspaceMatches(n) ELSE {}
    BY DEF SightInv, AnswerGiven
  <2>7. CASE result = {}
    <3>1. local = {}
      BY <2>1, <2>2, <2>4, <2>5, <2>7
    <3>. QED BY <2>6, <2>7, <3>1 DEF AnswerFollowsShadowing
  <2>8. CASE result # {}
    <3>1. current \in ScopeIds /\ current \in outer /\ result = Declared(current, n)
      BY <2>1, <2>2, <2>3, <2>8
    <3>2. \A t \in outer : t <= current \/ Declared(t, n) = {}
      <4>1. \A t \in Enclosing(current) : t <= current
        BY <3>1, EnclosingFacts DEF ScopesInv
      <4>. QED BY <2>2, <4>1
    <3>3. result \subseteq local /\ local # {}
      BY <2>5, <2>8, <3>1
    <3>4. \A k \in local : symbolScope[k] \in Nat /\ symbolScope[k] <= current
      BY <2>3, <2>4, <2>5, <3>2
    <3> DEFINE S == {symbolScope[j] : j \in local}
    <3>5. current \in S /\ \A x \in S : x \in Nat /\ x <= current
      BY <2>5, <2>8, <3>1, <3>3, <3>4
    <3>6. Innermost(S) = current
      <4> HIDE DEF S
      <4>1. \A x \in S : (\A y \in S : y <= x) <=> x = current
        BY <3>5
      <4>. QED BY <3>5, <4>1 DEF Innermost
    <3>7. inner = result
      BY <2>5, <3>1, <3>3, <3>6
    <3>. QED BY <2>6, <2>8, <3>3, <3>7 DEF AnswerFollowsShadowing
  <2>. QED BY <2>7, <2>8
<1>. QED BY <1>1, InvAlways, SightAlways, PTL

-----------------------------------------------------------------------------
(* The tree of nodes, and what is above a node in it. *)

(* Numbers that are not none have a least one. *)
LEMMA FirstExists ==
  ASSUME NEW S, S \subseteq Nat, S # {}
  PROVE  \E s \in S : \A t \in S : s <= t
<1> DEFINE Less == {ss \in Nat \X Nat : ss[1] < ss[2]}
<1>1. IsWellFoundedOn(Less, Nat)
  BY NatLessThanWellFounded DEF OpToRel
<1> HIDE DEF Less
<1>2. PICK s \in S : \A t \in S : ~ (<<t, s>> \in Less)
  BY <1>1, WFMin
<1>3. ASSUME NEW t \in S PROVE s <= t
  <2>1. <<t, s>> \in Nat \X Nat /\ <<t, s>>[1] = t /\ <<t, s>>[2] = s /\ t \in Nat /\ s \in Nat
    OBVIOUS
  <2>2. t < s => <<t, s>> \in Less
    BY <2>1 DEF Less
  <2>. QED BY <1>2, <2>1, <2>2
<1>. QED BY <1>3

(* Every node but the first is once a child, of a node before it. *)
LEMMA ParentFacts ==
  ASSUME InputType(input), IsTree(input), NEW n \in Nodes, n # 1
  PROVE  /\ ParentNode(n) \in Nodes /\ ParentNode(n) < n
         /\ \E j \in DOMAIN input.children[ParentNode(n)] :
              \A m \in Nodes : \A i \in DOMAIN input.children[m] :
                input.children[m][i] = n <=> m = ParentNode(n) /\ i = j
<1>1. Nodes = 1..Len(input.children) /\ Len(input.children) \in Nat
  BY InputParts
<1>2. PICK p \in 1..(n - 1) : \E j \in DOMAIN input.children[p] :
        \A m \in Nodes : \A i \in DOMAIN input.children[m] :
          input.children[m][i] = n <=> m = p /\ i = j
  BY DEF IsTree, Nodes
<1>3. p \in Nodes /\ p < n
  BY <1>1
<1>4. ParentNode(n) = p
  <2>1. \A m \in Nodes : (\E i \in DOMAIN input.children[m] : input.children[m][i] = n) <=> m = p
    BY <1>2, <1>3
  <2>. QED BY <1>3, <2>1 DEF ParentNode
<1>. QED BY <1>2, <1>3, <1>4

(* The least set that has n and with every node but the first its parent. *)
UpClosed(S) == \A c \in S : c # 1 => ParentNode(c) \in S
Least(n) == {m \in Nodes : \A S \in SUBSET Nodes : n \in S /\ UpClosed(S) => m \in S}

(* Above satisfies the equation that defines it. *)
LEMMA AboveIs ==
  ASSUME InputType(input), IsTree(input)
  PROVE  Above = [n \in Nodes |-> {n} \cup IF n = 1 THEN {} ELSE Above[ParentNode(n)]]
<1> DEFINE W == [n \in Nodes |-> Least(n)]
<1>1. ASSUME NEW n \in Nodes, NEW S \in SUBSET Nodes, n \in S, UpClosed(S) PROVE Least(n) \subseteq S
  BY <1>1 DEF Least
<1>2. ASSUME NEW n \in Nodes PROVE n \in Least(n) /\ Least(n) \subseteq Nodes
  BY DEF Least
<1>3. ASSUME NEW n \in Nodes PROVE UpClosed(Least(n))
  <2> SUFFICES ASSUME NEW c \in Least(n), c # 1 PROVE ParentNode(c) \in Least(n)
    BY DEF UpClosed
  <2>1. c \in Nodes /\ ParentNode(c) \in Nodes
    BY <1>2, ParentFacts
  <2>2. ASSUME NEW S \in SUBSET Nodes, n \in S, UpClosed(S) PROVE ParentNode(c) \in S
    <3>1. c \in S
      BY <1>1, <2>2
    <3>. QED BY <2>2, <3>1 DEF UpClosed
  <2>. QED BY <2>1, <2>2 DEF Least
<1>4. ASSUME NEW n \in Nodes PROVE Least(n) = {n} \cup IF n = 1 THEN {} ELSE Least(ParentNode(n))
  <2>1. ASSUME n = 1 PROVE Least(n) = {n}
    <3>1. UpClosed({n})
      BY <2>1 DEF UpClosed
    <3>2. Least(n) \subseteq {n}
      BY <1>1, <3>1
    <3>. QED BY <1>2, <3>2
  <2>2. ASSUME n # 1 PROVE Least(n) = {n} \cup Least(ParentNode(n))
    <3> DEFINE p == ParentNode(n)
    <3> DEFINE T == {n} \cup Least(p)
    <3>1. p \in Nodes
      BY <2>2, ParentFacts
    <3>2. p \in Least(n)
      BY <1>2, <1>3, <2>2 DEF UpClosed
    <3>3. Least(p) \subseteq Least(n)
      <4> HIDE DEF p
      <4>. QED BY <1>1, <1>2, <1>3, <3>1, <3>2
    <3>4. T \in SUBSET Nodes /\ n \in T
      BY <1>2, <3>1
    <3>5. UpClosed(T)
      <4>1. p \in Least(p) /\ UpClosed(Least(p))
        BY <1>2, <1>3, <3>1
      <4>. QED BY <4>1 DEF UpClosed
    <3>6. Least(n) \subseteq T
      <4> HIDE DEF T
      <4>. QED BY <1>1, <3>4, <3>5
    <3>. QED BY <1>2, <3>3, <3>6
  <2>. QED BY <2>1, <2>2
<1>5. W = [n \in Nodes |-> {n} \cup IF n = 1 THEN {} ELSE W[ParentNode(n)]]
  <2>1. ASSUME NEW n \in Nodes PROVE Least(n) = {n} \cup IF n = 1 THEN {} ELSE W[ParentNode(n)]
    <3>1. n # 1 => ParentNode(n) \in Nodes
      BY ParentFacts
    <3>. QED BY <1>4, <3>1
  <2>. QED BY <2>1
<1> HIDE DEF W
<1>6. Above = CHOOSE A : A = [n \in Nodes |-> {n} \cup IF n = 1 THEN {} ELSE A[ParentNode(n)]]
  BY DEF Above
<1>. QED BY <1>5, <1>6

(* Above a node are itself and nodes before it, the first among them. *)
LEMMA AboveFacts ==
  ASSUME InputType(input), IsTree(input), NEW n \in Nodes
  PROVE  /\ n \in Above[n] /\ 1 \in Above[n]
         /\ Above[n] \subseteq Nodes /\ \A m \in Above[n] : m <= n
         /\ Above[1] = {1}
         /\ n # 1 => Above[n] = {n} \cup Above[ParentNode(n)]
<1> DEFINE Good(m) == m \in Above[m] /\ 1 \in Above[m] /\ Above[m] \subseteq Nodes /\ \A x \in Above[m] : x <= m
<1> DEFINE Bad == {m \in Nodes : ~ Good(m)}
<1>0. Nodes = 1..Len(input.children) /\ Len(input.children) \in Nat
  BY InputParts
<1>1. /\ Above[1] = {1}
      /\ \A m \in Nodes : m # 1 => Above[m] = {m} \cup Above[ParentNode(m)]
  <2>1. 1 \in Nodes
    BY <1>0
  <2>. QED BY <2>1, AboveIs
<1>2. Bad = {}
  <2> SUFFICES ASSUME Bad # {} PROVE FALSE
    OBVIOUS
  <2>1. Bad \subseteq Nat
    BY <1>0
  <2> HIDE DEF Bad
  <2>2. PICK b \in Bad : \A t \in Bad : b <= t
    BY <2>1, FirstExists
  <2>3. b \in Nodes /\ ~ Good(b)
    BY DEF Bad
  <2>4. b # 1
    BY <1>0, <1>1, <2>3
  <2>5. ParentNode(b) \in Nodes /\ ParentNode(b) < b
    BY <2>3, <2>4, ParentFacts
  <2>6. Good(ParentNode(b))
    <3>1. ParentNode(b) \notin Bad
      BY <1>0, <2>2, <2>3, <2>5
    <3>. QED BY <2>5, <3>1 DEF Bad
  <2>7. Above[b] = {b} \cup Above[ParentNode(b)]
    BY <1>1, <2>3, <2>4
  <2>. QED BY <1>0, <2>3, <2>5, <2>6, <2>7
<1>3. Good(n)
  BY <1>2
<1>. QED BY <1>1, <1>3

(* A child c of v has above it itself and what is above v; c is above a     *)
(* node only if v is, and a node below v is below one of its children.      *)
LEMMA AboveChild ==
  ASSUME InputType(input), IsTree(input),
         NEW v \in Nodes, NEW i \in DOMAIN input.children[v]
  PROVE  LET c == input.children[v][i]
         IN  /\ c \in Nodes /\ v < c
             /\ Above[c] = {c} \cup Above[v] /\ c \notin Above[v]
             /\ \A j \in DOMAIN input.children[v] : input.children[v][j] = c => j = i
<1> DEFINE c == input.children[v][i]
<1>0. Nodes = 1..Len(input.children) /\ Len(input.children) \in Nat
  BY InputParts
<1>1. c \in Nodes
  BY InputParts, ElementOfSeq, LenProperties
<1>2. c # 1
  BY <1>0, <1>1 DEF IsTree, Nodes
<1>3. PICK q \in DOMAIN input.children[ParentNode(c)] :
        \A m \in Nodes : \A k \in DOMAIN input.children[m] :
          input.children[m][k] = c <=> m = ParentNode(c) /\ k = q
  BY <1>1, <1>2, ParentFacts
<1>4. v = ParentNode(c) /\ i = q
  BY <1>3
<1>5. v < c /\ Above[c] = {c} \cup Above[v]
  BY <1>1, <1>2, <1>4, ParentFacts, AboveFacts
<1>6. \A m \in Above[v] : m <= v /\ m \in Nodes
  BY AboveFacts
<1> HIDE DEF c
<1>7. c \notin Above[v]
  BY <1>0, <1>1, <1>5, <1>6
<1>. QED BY <1>1, <1>3, <1>4, <1>5, <1>7 DEF c

LEMMA AboveBetween ==
  ASSUME InputType(input), IsTree(input), NEW n \in Nodes, NEW v \in Nodes
  PROVE  /\ \A i \in DOMAIN input.children[v] : input.children[v][i] \in Above[n] => v \in Above[n]
         /\ v \in Above[n] /\ v # n => \E i \in DOMAIN input.children[v] : input.children[v][i] \in Above[n]
<1> DEFINE Up(m) == \A i \in DOMAIN input.children[v] : input.children[v][i] \in Above[m] => v \in Above[m]
<1> DEFINE Down(m) == v \in Above[m] /\ v # m =>
                        \E i \in DOMAIN input.children[v] : input.children[v][i] \in Above[m]
<1> DEFINE Bad == {m \in Nodes : ~ (Up(m) /\ Down(m))}
<1>0. Nodes = 1..Len(input.children) /\ Len(input.children) \in Nat
  BY InputParts
<1>1. Bad = {}
  <2> SUFFICES ASSUME Bad # {} PROVE FALSE
    OBVIOUS
  <2>1. Bad \subseteq Nat
    BY <1>0
  <2> HIDE DEF Bad
  <2>2. PICK b \in Bad : \A t \in Bad : b <= t
    BY <2>1, FirstExists
  <2>3. b \in Nodes /\ ~ (Up(b) /\ Down(b))
    BY DEF Bad
  <2>4. b # 1
    <3> SUFFICES ASSUME b = 1 PROVE FALSE
      OBVIOUS
    <3>1. Above[b] = {1}
      BY <2>3, AboveFacts
    <3>2. \A i \in DOMAIN input.children[v] : input.children[v][i] # 1
      BY <1>0, <2>3 DEF IsTree, Nodes
    <3>. QED BY <2>3, <3>1, <3>2
  <2> DEFINE p == ParentNode(b)
  <2>5. p \in Nodes /\ p < b /\ Above[b] = {b} \cup Above[p]
    BY <2>3, <2>4, ParentFacts, AboveFacts
  <2>6. PICK q \in DOMAIN input.children[p] :
          \A m \in Nodes : \A k \in DOMAIN input.children[m] :
            input.children[m][k] = b <=> m = p /\ k = q
    BY <2>3, <2>4, ParentFacts
  <2> HIDE DEF p
  <2>7. Up(p) /\ Down(p)
    <3>1. p \notin Bad
      BY <1>0, <2>2, <2>3, <2>5
    <3>. QED BY <2>5, <3>1 DEF Bad
  <2>8. p \in Above[p]
    BY <2>5, AboveFacts
  <2>9. Up(b)
    BY <2>5, <2>6, <2>7, <2>8
  <2>10. Down(b)
    <3> SUFFICES ASSUME v \in Above[b], v # b
                 PROVE  \E i \in DOMAIN input.children[v] : input.children[v][i] \in Above[b]
      OBVIOUS
    <3>1. CASE v = p
      <4>1. input.children[v][q] = b
        BY <2>5, <2>6, <3>1
      <4>. QED BY <2>5, <2>6, <3>1, <4>1
    <3>2. CASE v # p
      BY <2>5, <2>7, <3>2
    <3>. QED BY <3>1, <3>2
  <2>. QED BY <2>3, <2>9, <2>10
<1>2. Up(n) /\ Down(n)
  BY <1>1
<1>. QED BY <1>2

-----------------------------------------------------------------------------
(* build_scope_tree.  A node is pending while a call is still to be made    *)
(* for it or for a node above it.                                           *)
Pending(n) == \E t \in DOMAIN calls : calls[t].node \in Above[n]

(* A call brings the scope around its node; no two calls are for nodes of   *)
(* which one is above the other.                                            *)
CallsRight ==
  /\ \A t \in DOMAIN calls :
       ScopeOfInnermost(calls[t].scope, Above[calls[t].node] \ {calls[t].node})
  /\ \A t, u \in DOMAIN calls : calls[t].node \in Above[calls[u].node] => t = u
  /\ pc # "build" => calls = <<>>

NodesRight == \A n \in Nodes : Pending(n) \/ ScopeOfInnermost(nodeScope[n], Above[n])

(* A scope is opened by a node of its own, below the one that opens its     *)
(* parent.                                                                  *)
OpenersRight ==
  \A s \in ScopeIds :
    /\ OpensScope(scopes[s].node) /\ ~ Pending(scopes[s].node)
    /\ ScopeOfInnermost(scopes[s].parent, Above[scopes[s].node] \ {scopes[s].node})
    /\ \A t \in ScopeIds : scopes[s].node = scopes[t].node => s = t

HasChild(s, t) == \E i \in DOMAIN scopes[s].children : scopes[s].children[i] = t
ChildrenRight ==
  \A s \in ScopeIds : \A t \in Nat : HasChild(s, t) <=> t \in ScopeIds /\ scopes[t].parent = s

TreeInv == IsTree(input) /\ CallsRight /\ NodesRight /\ OpenersRight /\ ChildrenRight

LEMMA SameTree ==
  ASSUME UNCHANGED input
  PROVE  Nodes' = Nodes /\ Above' = Above /\ \A n : OpensScope(n)' = OpensScope(n)
<1>1. Nodes' = Nodes /\ \A n : OpensScope(n)' = OpensScope(n)
  BY DEF Nodes, OpensScope
<1>2. \A n : ParentNode(n)' = ParentNode(n)
  BY <1>1 DEF ParentNode
<1>3. Above' = Above
  BY <1>1, <1>2 DEF Above
<1>. QED BY <1>1, <1>3

(* The node and the children of each scope after add. *)
LEMMA AddScopeTree ==
  ASSUME InputType(input), scopes \in Seq(Scope), NEW n \in Nodes, NEW p \in ScopeIds \cup {InvalidId}
  PROVE  LET id == Len(scopes) + 1
             T  == AddScope(n, p)
         IN  /\ T[id].node = n /\ T[id].children = <<>>
             /\ \A s \in ScopeIds :
                  /\ T[s].node = scopes[s].node
                  /\ T[s].children = IF s = p THEN Append(scopes[s].children, id) ELSE scopes[s].children
<1> DEFINE id == Len(scopes) + 1
<1> DEFINE T == AddScope(n, p)
<1>1. ScopeIds = 1..Len(scopes) /\ Len(scopes) \in Nat /\ \A s \in ScopeIds : scopes[s] \in Scope
  BY LenProperties, ElementOfSeq DEF ScopeIds
<1>2. T = [s \in 1..id |->
             IF s = id THEN [node |-> n, parent |-> p, children |-> <<>>, symbols |-> <<>>]
             ELSE IF s = p THEN [scopes[s] EXCEPT !.children = Append(@, id)]
             ELSE scopes[s]]
  BY DEF AddScope
<1> HIDE DEF T
<1>3. T[id].node = n /\ T[id].children = <<>>
  BY <1>1, <1>2
<1>4. ASSUME NEW s \in ScopeIds
      PROVE  /\ T[s].node = scopes[s].node
             /\ T[s].children = IF s = p THEN Append(scopes[s].children, id) ELSE scopes[s].children
  <2>1. s \in 1..id /\ s # id
    BY <1>1
  <2>2. T[s] = IF s = p THEN [scopes[s] EXCEPT !.children = Append(@, id)] ELSE scopes[s]
    BY <1>2, <2>1
  <2>3. scopes[s] \in Scope
    BY <1>1
  <2>. QED BY <2>2, <2>3 DEF Scope
<1>. QED BY <1>3, <1>4 DEF T

(* What a call of dfs leaves of the calls: those for the children of its    *)
(* node, in its scope, and all the others.                                  *)
LEMMA DfsCalls ==
  ASSUME ScopesInv, Dfs
  PROVE  LET node    == calls[1].node
             myScope == IF OpensScope(node) THEN Len(scopes) + 1 ELSE calls[1].scope
             kids    == input.children[node]
             k       == Len(kids)
         IN  /\ 1 \in DOMAIN calls /\ node \in Nodes /\ calls[1].scope \in ScopeIds \cup {InvalidId}
             /\ k \in Nat
             /\ \A i \in DOMAIN kids : /\ i \in DOMAIN calls'
                                       /\ calls'[i].node = kids[i] /\ calls'[i].scope = myScope
             /\ \A u \in DOMAIN calls : u # 1 => /\ k + u - 1 \in DOMAIN calls'
                                                 /\ calls'[k + u - 1] = calls[u]
             /\ \A t \in DOMAIN calls' :
                  \/ t \in DOMAIN kids
                  \/ t - k + 1 \in DOMAIN calls /\ t - k + 1 # 1 /\ t > k
             /\ scopes' = IF OpensScope(node) THEN AddScope(node, calls[1].scope) ELSE scopes
             /\ nodeScope' = [nodeScope EXCEPT ![node] = myScope]
             /\ UNCHANGED <<input, pc>> /\ pc = "build"
<1> DEFINE C == [node : Nodes, scope : ScopeIds \cup {InvalidId}]
<1> DEFINE node == calls[1].node
<1> DEFINE kids == input.children[node]
<1> DEFINE k == Len(kids)
<1> DEFINE myScope == IF OpensScope(node) THEN Len(scopes) + 1 ELSE calls[1].scope
<1> DEFINE new == [i \in DOMAIN kids |-> [node |-> kids[i], scope |-> myScope]]
<1>1. calls \in Seq(C) /\ calls # <<>> /\ InputType(input)
  BY DEF ScopesInv, TypeOK, Dfs
<1>2. /\ Head(calls) = calls[1] /\ calls[1] \in C
      /\ DOMAIN calls = 1..Len(calls) /\ Len(calls) \in Nat /\ Len(calls) >= 1
      /\ Tail(calls) \in Seq(C) /\ Len(Tail(calls)) = Len(calls) - 1
      /\ \A u \in 1..(Len(calls) - 1) : Tail(calls)[u] = calls[u + 1]
  <2> HIDE DEF C
  <2>. QED BY <1>1, HeadTailProperties, LenProperties, ElementOfSeq, EmptySeq
<1>3. node \in Nodes /\ calls[1].scope \in ScopeIds \cup {InvalidId}
  BY <1>2
<1>4. /\ scopes' = IF OpensScope(node) THEN AddScope(node, calls[1].scope) ELSE scopes
      /\ nodeScope' = [nodeScope EXCEPT ![node] = myScope]
      /\ calls' = new \o Tail(calls)
      /\ UNCHANGED <<input, pc>> /\ pc = "build"
  BY <1>2 DEF Dfs
<1>5. kids \in Seq(Nodes) /\ k \in Nat /\ DOMAIN kids = 1..k
  <2>1. kids \in Seq(Nodes)
    BY <1>1, <1>3, InputParts
  <2>. QED BY <2>1, LenProperties
<1> DEFINE D == [node : Nodes, scope : Nat]
<1>6. /\ new \in Seq(D) /\ Len(new) = k
      /\ \A i \in 1..k : new[i].node = kids[i] /\ new[i].scope = myScope
  <2>1. \A i \in 1..k : kids[i] \in Nodes
    BY <1>5, ElementOfSeq
  <2>2. myScope \in Nat
    <3>1. Len(scopes) \in Nat /\ ScopeIds = 1..Len(scopes)
      BY ScopeParts DEF ScopesInv
    <3>. QED BY <1>3, <3>1 DEF InvalidId
  <2> HIDE DEF myScope, kids, k
  <2>3. \A i \in 1..k : [node |-> kids[i], scope |-> myScope] \in D
    BY <2>1, <2>2
  <2> HIDE DEF D
  <2>4. new \in [1..k -> D]
    BY <1>5, <2>3
  <2>5. new \in Seq(D) /\ Len(new) = k
    <3> HIDE DEF new
    <3>. QED BY <1>5, <2>4
  <2>6. \A i \in 1..k : new[i].node = kids[i] /\ new[i].scope = myScope
    BY <1>5
  <2>. QED BY <2>5, <2>6
<1>7. Tail(calls) \in Seq(D)
  <2>1. C \subseteq D
    <3>1. Len(scopes) \in Nat /\ ScopeIds = 1..Len(scopes)
      BY ScopeParts DEF ScopesInv
    <3>. QED BY <3>1 DEF InvalidId
  <2> HIDE DEF C, D
  <2>. QED BY <1>2, <2>1, SeqMonotonic
<1>8. /\ DOMAIN calls' = 1..(k + Len(calls) - 1)
      /\ \A t \in 1..k : calls'[t] = new[t]
      /\ \A t \in (k + 1)..(k + Len(calls) - 1) : calls'[t] = Tail(calls)[t - k]
  <2> HIDE DEF new, D, k
  <2>1. /\ Len(calls') = Len(new) + Len(Tail(calls)) /\ calls' \in Seq(D)
        /\ \A t \in 1..(Len(new) + Len(Tail(calls))) :
             calls'[t] = IF t <= Len(new) THEN new[t] ELSE Tail(calls)[t - Len(new)]
    BY <1>4, <1>6, <1>7, ConcatProperties
  <2>2. DOMAIN calls' = 1..Len(calls')
    BY <2>1, LenProperties
  <2>. QED BY <2>1, <2>2, <1>2, <1>5, <1>6
<1> HIDE DEF new, C, D
<1>9. \A i \in DOMAIN kids : i \in DOMAIN calls' /\ calls'[i].node = kids[i] /\ calls'[i].scope = myScope
  BY <1>2, <1>5, <1>6, <1>8
<1>10. \A u \in DOMAIN calls : u # 1 => /\ k + u - 1 \in DOMAIN calls'
                                        /\ calls'[k + u - 1] = calls[u]
  <2> SUFFICES ASSUME NEW u \in DOMAIN calls, u # 1
               PROVE  k + u - 1 \in DOMAIN calls' /\ calls'[k + u - 1] = calls[u]
    OBVIOUS
  <2> HIDE DEF k
  <2>1. k + u - 1 \in (k + 1)..(k + Len(calls) - 1) /\ u - 1 \in 1..(Len(calls) - 1)
    BY <1>2, <1>5
  <2>2. calls'[k + u - 1] = Tail(calls)[(k + u - 1) - k] /\ (k + u - 1) - k = u - 1
    BY <1>2, <1>5, <1>8, <2>1
  <2>3. Tail(calls)[u - 1] = calls[(u - 1) + 1] /\ (u - 1) + 1 = u
    BY <1>2, <2>1
  <2>. QED BY <1>2, <1>5, <1>8, <2>1, <2>2, <2>3
<1>11. \A t \in DOMAIN calls' :
         t \in DOMAIN kids \/ (t - k + 1 \in DOMAIN calls /\ t - k + 1 # 1 /\ t > k)
  <2>1. /\ DOMAIN calls = 1..Len(calls) /\ Len(calls) \in Nat
        /\ DOMAIN kids = 1..k /\ k \in Nat
        /\ DOMAIN calls' = 1..(k + Len(calls) - 1)
    BY <1>2, <1>5, <1>8
  <2> HIDE DEF k, kids
  <2>. QED BY <2>1
<1>12. 1 \in DOMAIN calls
  BY <1>2
<1>. QED BY <1>3, <1>4, <1>5, <1>9, <1>10, <1>11, <1>12, ZenonT(60)

(* The scope a call makes or keeps is the one around its node's children. *)
LEMMA DfsScope ==
  ASSUME ScopesInv, TreeInv, Dfs
  PROVE  LET node    == calls[1].node
             myScope == IF OpensScope(node) THEN Len(scopes) + 1 ELSE calls[1].scope
         IN  /\ \A s, N : s = myScope /\ N = Above[node] => ScopeOfInnermost(s, N)'
             /\ \A s, N : ScopeOfInnermost(s, N) => ScopeOfInnermost(s, N)'
             /\ ScopeIds = 1..Len(scopes) /\ Len(scopes) \in Nat
             /\ ScopeIds' = IF OpensScope(node) THEN ScopeIds \cup {Len(scopes) + 1} ELSE ScopeIds
             /\ \A s \in ScopeIds : /\ scopes'[s].node = scopes[s].node
                                    /\ scopes'[s].parent = scopes[s].parent
             /\ OpensScope(node) => /\ scopes'[Len(scopes) + 1].node = node
                                    /\ scopes'[Len(scopes) + 1].parent = calls[1].scope
<1> DEFINE node == calls[1].node
<1> DEFINE id == Len(scopes) + 1
<1> DEFINE myScope == IF OpensScope(node) THEN id ELSE calls[1].scope
<1>1. /\ 1 \in DOMAIN calls /\ node \in Nodes /\ calls[1].scope \in ScopeIds \cup {InvalidId}
      /\ scopes' = IF OpensScope(node) THEN AddScope(node, calls[1].scope) ELSE scopes
      /\ UNCHANGED input
  BY DfsCalls
<1>2. Nodes' = Nodes /\ Above' = Above /\ \A n : OpensScope(n)' = OpensScope(n)
  BY <1>1, SameTree
<1>3. InputType(input) /\ IsTree(input) /\ scopes \in Seq(Scope)
  BY DEF ScopesInv, TypeOK, Scope, TreeInv
<1>4. ScopeIds = 1..Len(scopes) /\ Len(scopes) \in Nat
  BY ScopeParts DEF ScopesInv
<1>5. /\ ScopeIds' = IF OpensScope(node) THEN ScopeIds \cup {id} ELSE ScopeIds
      /\ \A s \in ScopeIds : scopes'[s].node = scopes[s].node /\ scopes'[s].parent = scopes[s].parent
      /\ OpensScope(node) => scopes'[id].node = node /\ scopes'[id].parent = calls[1].scope
  <2> HIDE DEF node
  <2>1. CASE OpensScope(node)
    <3>1. scopes' = AddScope(node, calls[1].scope)
      BY <1>1, <2>1
    <3> DEFINE p == calls[1].scope
    <3> DEFINE T == AddScope(node, p)
    <3>2. node \in Nodes /\ p \in ScopeIds \cup {InvalidId}
      BY <1>1
    <3> HIDE DEF p
    <3>3. /\ DOMAIN T = ScopeIds \cup {id} /\ T[id].parent = p
          /\ \A s \in ScopeIds : T[s].parent = scopes[s].parent
      BY <1>3, <3>2, AddScopeProperties
    <3>4. T[id].node = node /\ \A s \in ScopeIds : T[s].node = scopes[s].node
      BY <1>3, <3>2, AddScopeTree
    <3>5. scopes' = T
      BY <3>1 DEF p
    <3> HIDE DEF T
    <3>. QED BY <2>1, <3>3, <3>4, <3>5 DEF ScopeIds, p
  <2>2. CASE ~ OpensScope(node)
    BY <1>1, <2>2 DEF ScopeIds
  <2>. QED BY <2>1, <2>2
<1>6. \A s, N : ScopeOfInnermost(s, N) => ScopeOfInnermost(s, N)'
  <2> SUFFICES ASSUME NEW s, NEW N, ScopeOfInnermost(s, N) PROVE ScopeOfInnermost(s, N)'
    OBVIOUS
  <2>1. {m \in N : OpensScope(m)}' = {m \in N : OpensScope(m)}
    BY <1>2
  <2>. QED BY <1>5, <2>1 DEF ScopeOfInnermost, Innermost
<1>7. ASSUME NEW s, NEW N, s = myScope, N = Above[node] PROVE ScopeOfInnermost(s, N)'
  <2> DEFINE O == {m \in N : OpensScope(m)}
  <2>1. node \in N /\ \A m \in N : m <= node /\ m \in Nat
    <3>1. Nodes \subseteq Nat
      BY <1>3, InputParts
    <3>. QED BY <1>1, <1>3, <1>7, <3>1, AboveFacts
  <2>2. CASE OpensScope(node)
    <3>1. node \in O /\ \A m \in O : m <= node /\ m \in Nat
      BY <2>1, <2>2
    <3>2. Innermost(O) = node
      <4> HIDE DEF O
      <4>1. \A m \in O : (\A y \in O : y <= m) <=> m = node
        BY <3>1
      <4>. QED BY <3>1, <4>1 DEF Innermost
    <3>3. s \in ScopeIds' /\ scopes'[s].node = node
      BY <1>5, <1>7, <2>2
    <3>4. {m \in N : OpensScope(m)}' = O
      BY <1>2
    <3>. QED BY <3>1, <3>2, <3>3, <3>4 DEF ScopeOfInnermost, Innermost
  <2>3. CASE ~ OpensScope(node)
    <3>1. ScopeOfInnermost(calls[1].scope, Above[node] \ {node})
      BY <1>1 DEF TreeInv, CallsRight
    <3>2. {m \in N \ {node} : OpensScope(m)} = {m \in N : OpensScope(m)}
      BY <2>3
    <3>3. ScopeOfInnermost(s, N)
      BY <1>7, <2>3, <3>1, <3>2 DEF ScopeOfInnermost
    <3>. QED BY <1>6, <3>3
  <2>. QED BY <2>2, <2>3
<1>. QED BY <1>1, <1>4, <1>5, <1>6, <1>7

(* A call of dfs keeps what pends apart: its children take its place. *)
LEMMA DfsPending ==
  ASSUME ScopesInv, TreeInv, Dfs
  PROVE  LET node == calls[1].node
         IN  /\ \A n \in Nodes : Pending(n) =>
                  Pending(n)' \/ (n = node /\ \A t \in DOMAIN calls : calls[t].node \in Above[n] => t = 1)
             /\ \A n \in Nodes : ~ Pending(n) => ~ (Pending(n)')
             /\ \A n : n = node => ~ (Pending(n)')
             /\ \A t, u \in DOMAIN calls' : calls'[t].node \in Above[calls'[u].node] => t = u
<1> DEFINE node == calls[1].node
<1> DEFINE kids == input.children[node]
<1> DEFINE k == Len(kids)
<1>1. /\ 1 \in DOMAIN calls /\ node \in Nodes /\ k \in Nat
      /\ \A i \in DOMAIN kids : i \in DOMAIN calls' /\ calls'[i].node = kids[i]
      /\ \A u \in DOMAIN calls : u # 1 => k + u - 1 \in DOMAIN calls' /\ calls'[k + u - 1] = calls[u]
      /\ \A t \in DOMAIN calls' :
           t \in DOMAIN kids \/ (t - k + 1 \in DOMAIN calls /\ t - k + 1 # 1 /\ t > k)
      /\ UNCHANGED input
  BY DfsCalls
<1>2. Nodes' = Nodes /\ Above' = Above
  BY <1>1, SameTree
<1>3. InputType(input) /\ IsTree(input)
  BY DEF ScopesInv, TypeOK, TreeInv
<1>4. \A t, u \in DOMAIN calls : calls[t].node \in Above[calls[u].node] => t = u
  BY DEF TreeInv, CallsRight
<1>5. \A i \in DOMAIN kids : /\ kids[i] \in Nodes /\ Above[kids[i]] = {kids[i]} \cup Above[node]
                             /\ kids[i] \notin Above[node]
                             /\ \A j \in DOMAIN kids : kids[j] = kids[i] => j = i
  BY <1>1, <1>3, AboveChild
<1>6. \A n \in Nodes : /\ \A i \in DOMAIN kids : kids[i] \in Above[n] => node \in Above[n]
                       /\ node \in Above[n] /\ node # n => \E i \in DOMAIN kids : kids[i] \in Above[n]
  BY <1>1, <1>3, AboveBetween
<1>7. \A t \in DOMAIN calls : calls[t].node \in Nodes
  <2>1. calls \in Seq([node : Nodes, scope : ScopeIds \cup {InvalidId}])
    BY DEF ScopesInv, TypeOK
  <2> DEFINE C == [node : Nodes, scope : ScopeIds \cup {InvalidId}]
  <2>2. \A c \in C : c.node \in Nodes
    OBVIOUS
  <2> HIDE DEF C
  <2>3. \A t \in DOMAIN calls : calls[t] \in C
    BY <2>1, LenProperties, ElementOfSeq DEF C
  <2>. QED BY <2>2, <2>3
(* The calls that were there, but for the first, are among the calls. *)
<1> DEFINE Old(t) == t - k + 1
<1>8. \A t \in DOMAIN calls' :
        \/ t \in DOMAIN kids /\ calls'[t].node = kids[t]
        \/ Old(t) \in DOMAIN calls /\ Old(t) # 1 /\ t = k + Old(t) - 1 /\ calls'[t].node = calls[Old(t)].node
  <2> SUFFICES ASSUME NEW t \in DOMAIN calls', t \notin DOMAIN kids
               PROVE  /\ Old(t) \in DOMAIN calls /\ Old(t) # 1 /\ t = k + Old(t) - 1
                      /\ calls'[t].node = calls[Old(t)].node
    BY <1>1
  <2>1. Old(t) \in DOMAIN calls /\ Old(t) # 1 /\ t > k
    BY <1>1
  <2>2. DOMAIN calls \subseteq Nat
    BY LenProperties DEF ScopesInv, TypeOK
  <2>3. t \in Nat
    <3>1. calls' \in Seq([node : Nodes, scope : ScopeIds \cup {InvalidId}])'
      BY DfsInv DEF ScopesInv, TypeOK
    <3>. QED BY <3>1, LenProperties
  <2> HIDE DEF k
  <2>4. t = k + Old(t) - 1
    BY <1>1, <2>2, <2>3
  <2>. QED BY <1>1, <2>1, <2>4
<1> HIDE DEF Old, k, kids, node
<1>9. ASSUME NEW n \in Nodes, Pending(n)
      PROVE  Pending(n)' \/ (n = node /\ \A t \in DOMAIN calls : calls[t].node \in Above[n] => t = 1)
  <2>1. CASE \E t \in DOMAIN calls : t # 1 /\ calls[t].node \in Above[n]
    BY <1>1, <1>2, <2>1 DEF Pending
  <2>2. CASE ~ \E t \in DOMAIN calls : t # 1 /\ calls[t].node \in Above[n]
    <3>1. node \in Above[n]
      BY <1>9, <2>2 DEF Pending, node
    <3>2. CASE n = node
      BY <2>2, <3>2
    <3>3. CASE n # node
      <4>1. PICK i \in DOMAIN kids : kids[i] \in Above[n]
        BY <1>6, <3>1, <3>3
      <4>2. i \in DOMAIN calls' /\ calls'[i].node \in Above'[n]
        BY <1>1, <1>2, <4>1
      <4>. QED BY <4>2 DEF Pending
    <3>. QED BY <3>2, <3>3
  <2>. QED BY <2>1, <2>2
<1>10. ASSUME NEW n \in Nodes, ~ Pending(n), NEW t \in DOMAIN calls', calls'[t].node \in Above[n]
       PROVE  FALSE
  <2>1. CASE t \in DOMAIN kids /\ calls'[t].node = kids[t]
    BY <1>1, <1>6, <1>10, <2>1 DEF Pending, node
  <2>2. CASE Old(t) \in DOMAIN calls /\ calls'[t].node = calls[Old(t)].node
    BY <1>10, <2>2 DEF Pending
  <2>. QED BY <1>8, <2>1, <2>2
<1>11. ASSUME NEW t \in DOMAIN calls', calls'[t].node \in Above[node]
       PROVE  FALSE
  <2>1. CASE t \in DOMAIN kids /\ calls'[t].node = kids[t]
    BY <1>5, <1>11, <2>1
  <2>2. CASE Old(t) \in DOMAIN calls /\ Old(t) # 1 /\ calls'[t].node = calls[Old(t)].node
    BY <1>1, <1>4, <1>11, <2>2 DEF node
  <2>. QED BY <1>8, <2>1, <2>2
<1>12. ASSUME NEW t \in DOMAIN calls', NEW u \in DOMAIN calls', calls'[t].node \in Above[calls'[u].node]
       PROVE  t = u
  <2>1. CASE u \in DOMAIN kids /\ calls'[u].node = kids[u]
    <3>1. calls'[t].node = kids[u]
      BY <1>5, <1>11, <1>12, <2>1
    <3>2. CASE t \in DOMAIN kids /\ calls'[t].node = kids[t]
      BY <1>5, <2>1, <3>1, <3>2
    <3>3. CASE Old(t) \in DOMAIN calls /\ Old(t) # 1 /\ calls'[t].node = calls[Old(t)].node
      <4>1. node \in Above[calls[Old(t)].node]
        BY <1>5, <1>1, <1>3, <2>1, <3>1, <3>3, AboveFacts
      <4>. QED BY <1>1, <1>4, <3>3, <4>1 DEF node
    <3>. QED BY <1>8, <3>2, <3>3
  <2>2. CASE /\ Old(u) \in DOMAIN calls /\ Old(u) # 1 /\ u = k + Old(u) - 1
             /\ calls'[u].node = calls[Old(u)].node
    <3>1. calls'[u].node \in Nodes
      BY <1>7, <2>2
    <3>2. CASE t \in DOMAIN kids /\ calls'[t].node = kids[t]
      <4>1. node \in Above[calls[Old(u)].node]
        BY <1>6, <1>12, <2>2, <3>1, <3>2
      <4>. QED BY <1>1, <1>4, <2>2, <4>1 DEF node
    <3>3. CASE /\ Old(t) \in DOMAIN calls /\ Old(t) # 1 /\ t = k + Old(t) - 1
               /\ calls'[t].node = calls[Old(t)].node
      <4>1. Old(t) = Old(u)
        BY <1>4, <1>12, <2>2, <3>3
      <4>. QED BY <2>2, <3>3, <4>1
    <3>. QED BY <1>8, <3>2, <3>3
  <2>. QED BY <1>8, <2>1, <2>2
<1>13. \A n \in Nodes : ~ Pending(n) => ~ (Pending(n)')
  BY <1>2, <1>10 DEF Pending
<1>14. \A n : n = node => ~ (Pending(n)')
  BY <1>2, <1>11 DEF Pending
<1>. QED BY <1>9, <1>12, <1>13, <1>14 DEF node

LEMMA DfsTree ==
  ASSUME ScopesInv, TreeInv, Dfs
  PROVE  TreeInv'
<1> DEFINE node == calls[1].node
<1> DEFINE around == calls[1].scope
<1> DEFINE id == Len(scopes) + 1
<1> DEFINE myScope == IF OpensScope(node) THEN id ELSE around
<1> DEFINE kids == input.children[node]
<1> DEFINE k == Len(kids)
<1>1. /\ 1 \in DOMAIN calls /\ node \in Nodes /\ around \in ScopeIds \cup {InvalidId} /\ k \in Nat
      /\ \A i \in DOMAIN kids : /\ i \in DOMAIN calls'
                                /\ calls'[i].node = kids[i] /\ calls'[i].scope = myScope
      /\ \A u \in DOMAIN calls : u # 1 => /\ k + u - 1 \in DOMAIN calls'
                                          /\ calls'[k + u - 1] = calls[u]
      /\ \A t \in DOMAIN calls' :
           t \in DOMAIN kids \/ (t - k + 1 \in DOMAIN calls /\ t - k + 1 # 1 /\ t > k)
      /\ nodeScope' = [nodeScope EXCEPT ![node] = myScope]
      /\ scopes' = IF OpensScope(node) THEN AddScope(node, around) ELSE scopes
      /\ UNCHANGED <<input, pc>> /\ pc = "build"
  BY DfsCalls
<1>2. Nodes' = Nodes /\ Above' = Above /\ \A n : OpensScope(n)' = OpensScope(n)
  BY <1>1, SameTree
<1>3. InputType(input) /\ IsTree(input) /\ nodeScope \in [Nodes -> ScopeIds \cup {InvalidId}]
  BY DEF ScopesInv, TypeOK, TreeInv
<1>4. /\ \A s, N : s = myScope /\ N = Above[node] => ScopeOfInnermost(s, N)'
      /\ \A s, N : ScopeOfInnermost(s, N) => ScopeOfInnermost(s, N)'
      /\ ScopeIds = 1..Len(scopes) /\ Len(scopes) \in Nat
      /\ ScopeIds' = IF OpensScope(node) THEN ScopeIds \cup {id} ELSE ScopeIds
      /\ \A s \in ScopeIds : scopes'[s].node = scopes[s].node /\ scopes'[s].parent = scopes[s].parent
      /\ OpensScope(node) => scopes'[id].node = node /\ scopes'[id].parent = around
  BY DfsScope
<1>5. /\ \A n \in Nodes : Pending(n) =>
           Pending(n)' \/ (n = node /\ \A t \in DOMAIN calls : calls[t].node \in Above[n] => t = 1)
      /\ \A n \in Nodes : ~ Pending(n) => ~ (Pending(n)')
      /\ \A n : n = node => ~ (Pending(n)')
      /\ \A t, u \in DOMAIN calls' : calls'[t].node \in Above[calls'[u].node] => t = u
  BY DfsPending
<1>6. \A i \in DOMAIN kids : Above[kids[i]] = {kids[i]} \cup Above[node] /\ kids[i] \notin Above[node]
  BY <1>1, <1>3, AboveChild
<1>7. node \in Above[node] /\ Nodes \subseteq Nat
  BY <1>1, <1>3, AboveFacts, InputParts
<1>8. Pending(node)
  BY <1>1, <1>7 DEF Pending
<1> HIDE DEF node, around, myScope, kids, k
<1>9. CallsRight'
  <2>1. ASSUME NEW t \in DOMAIN calls'
        PROVE  ScopeOfInnermost(calls[t].scope, Above[calls[t].node] \ {calls[t].node})'
    <3>1. CASE t \in DOMAIN kids
      <4>1. calls'[t].scope = myScope /\ calls'[t].node = kids[t]
        BY <1>1, <3>1
      <4>2. Above'[calls'[t].node] \ {calls'[t].node} = Above[node]
        BY <1>2, <1>6, <3>1, <4>1
      <4>. QED BY <1>4, <4>1, <4>2
    <3>2. CASE t - k + 1 \in DOMAIN calls /\ t - k + 1 # 1 /\ t > k
      <4> DEFINE u == t - k + 1
      <4>1. DOMAIN calls \subseteq Nat
        BY LenProperties DEF ScopesInv, TypeOK
      <4>2. t \in Nat
        <5>1. calls' \in Seq([node : Nodes, scope : ScopeIds \cup {InvalidId}])'
          BY DfsInv DEF ScopesInv, TypeOK
        <5>. QED BY <5>1, LenProperties
      <4>3. k + u - 1 = t
        BY <1>1, <4>2
      <4>4. u \in DOMAIN calls /\ u # 1
        BY <3>2
      <4> HIDE DEF u
      <4>5. calls'[t] = calls[u]
        BY <1>1, <4>3, <4>4
      <4>6. ScopeOfInnermost(calls[u].scope, Above[calls[u].node] \ {calls[u].node})
        BY <4>4 DEF TreeInv, CallsRight
      <4>7. Above'[calls'[t].node] \ {calls'[t].node} = Above[calls[u].node] \ {calls[u].node}
        BY <1>2, <4>5
      <4>. QED BY <1>4, <4>5, <4>6, <4>7
    <3>. QED BY <1>1, <3>1, <3>2
  <2>. QED BY <1>1, <1>2, <1>5, <2>1 DEF CallsRight
<1>10. NodesRight'
  <2> SUFFICES ASSUME NEW n \in Nodes, ~ (Pending(n)')
               PROVE  ScopeOfInnermost(nodeScope[n], Above[n])'
    BY <1>2 DEF NodesRight
  <2>1. CASE n = node
    <3>1. nodeScope'[n] = myScope
      BY <1>1, <1>3, <2>1
    <3>. QED BY <1>2, <1>4, <2>1, <3>1
  <2>2. CASE n # node
    <3>1. ~ Pending(n)
      BY <1>5, <2>2
    <3>2. ScopeOfInnermost(nodeScope[n], Above[n])
      BY <3>1 DEF TreeInv, NodesRight
    <3>3. nodeScope'[n] = nodeScope[n]
      BY <1>1, <1>3, <2>2
    <3>. QED BY <1>2, <1>4, <3>2, <3>3
  <2>. QED BY <2>1, <2>2
<1>11. \A s \in ScopeIds : scopes[s].node \in Nodes /\ scopes[s].parent \in ScopeIds \cup {InvalidId}
  BY ScopeParts DEF ScopesInv, Scope
<1>12. OpenersRight'
  <2>0. \A s \in ScopeIds' : s \in ScopeIds \/ (OpensScope(node) /\ s = id)
    BY <1>4
  <2>1. ASSUME NEW s \in ScopeIds
        PROVE  /\ OpensScope(scopes[s].node)' /\ ~ (Pending(scopes[s].node)')
               /\ ScopeOfInnermost(scopes[s].parent, Above[scopes[s].node] \ {scopes[s].node})'
               /\ scopes'[s].node # node
               /\ \A t \in ScopeIds : scopes'[s].node = scopes'[t].node => s = t
    <3> DEFINE o == scopes[s].node
    <3>1. /\ o \in Nodes /\ OpensScope(o) /\ ~ Pending(o)
          /\ ScopeOfInnermost(scopes[s].parent, Above[o] \ {o})
          /\ \A t \in ScopeIds : o = scopes[t].node => s = t
      BY <1>11 DEF TreeInv, OpenersRight
    <3>2. scopes'[s].node = o /\ scopes'[s].parent = scopes[s].parent
      BY <1>4
    <3> HIDE DEF o
    <3>3. \A n : n = o => ~ (Pending(n)')
      BY <1>5, <3>1
    <3>4. ~ (Pending(scopes[s].node)')
      BY <3>2, <3>3
    <3>5. ScopeOfInnermost(scopes[s].parent, Above[scopes[s].node] \ {scopes[s].node})'
      BY <1>2, <1>4, <3>1, <3>2
    <3>6. OpensScope(scopes[s].node)'
      BY <1>2, <3>1, <3>2
    <3>7. o # node
      BY <1>8, <3>1
    <3>8. \A t \in ScopeIds : scopes'[s].node = scopes'[t].node => s = t
      BY <1>4, <3>1, <3>2
    <3>. QED BY <3>2, <3>4, <3>5, <3>6, <3>7, <3>8
  <2>2. ASSUME OpensScope(node), NEW s, s = id
        PROVE  /\ OpensScope(scopes[s].node)' /\ ~ (Pending(scopes[s].node)')
               /\ ScopeOfInnermost(scopes[s].parent, Above[scopes[s].node] \ {scopes[s].node})'
               /\ scopes'[s].node = node
    <3>1. scopes'[s].node = node /\ scopes'[s].parent = around
      BY <1>4, <2>2
    <3>2. ScopeOfInnermost(around, Above[node] \ {node})
      BY <1>1 DEF TreeInv, CallsRight, around, node
    <3>3. ScopeOfInnermost(scopes[s].parent, Above[scopes[s].node] \ {scopes[s].node})'
      BY <1>2, <1>4, <3>1, <3>2
    <3>4. ~ (Pending(scopes[s].node)')
      BY <1>5, <3>1
    <3>. QED BY <1>2, <2>2, <3>1, <3>3, <3>4
  <2>3. ASSUME NEW s \in ScopeIds'
        PROVE  /\ OpensScope(scopes[s].node)' /\ ~ (Pending(scopes[s].node)')
               /\ ScopeOfInnermost(scopes[s].parent, Above[scopes[s].node] \ {scopes[s].node})'
               /\ \A t \in ScopeIds' : scopes'[s].node = scopes'[t].node => s = t
    BY <2>0, <2>1, <2>2
  <2>. QED BY <2>3 DEF OpenersRight
<1>13. ChildrenRight'
  <2>1. CASE ~ OpensScope(node)
    <3>1. scopes' = scopes /\ ScopeIds' = ScopeIds
      BY <1>1, <1>4, <2>1
    <3>. QED BY <3>1 DEF TreeInv, ChildrenRight, HasChild
  <2>2. CASE OpensScope(node)
    <3> DEFINE T == AddScope(node, around)
    <3>1. /\ T[id].children = <<>>
          /\ \A s \in ScopeIds :
               T[s].children = IF s = around THEN Append(scopes[s].children, id) ELSE scopes[s].children
      BY <1>1, <1>3, ScopeParts, AddScopeTree DEF ScopesInv
    <3>2. scopes' = T
      BY <1>1, <2>2
    <3> HIDE DEF T
    <3> SUFFICES ASSUME NEW s \in ScopeIds', NEW t \in Nat
                 PROVE  HasChild(s, t)' <=> t \in ScopeIds' /\ scopes'[t].parent = s
      BY DEF ChildrenRight
    <3>3. CASE s = id
      <4>1. ~ (HasChild(s, t)')
        BY <3>1, <3>2, <3>3 DEF HasChild
      <4>2. ASSUME t \in ScopeIds' PROVE scopes'[t].parent # s
        <5>1. t \in ScopeIds \/ t = id
          BY <1>4, <4>2
        <5>. QED BY <1>1, <1>4, <1>11, <2>2, <3>3, <5>1 DEF InvalidId
      <4>. QED BY <4>1, <4>2
    <3>4. CASE s \in ScopeIds
      <4>1. HasChild(s, t) <=> t \in ScopeIds /\ scopes[t].parent = s
        BY <3>4 DEF TreeInv, ChildrenRight
      <4>2. scopes[s].children \in Seq(Nat)
        BY <3>4, ScopeParts DEF ScopesInv, Scope
      <4>3. CASE s = around
        <5> DEFINE c == scopes[s].children
        <5>1. T[s].children = Append(c, id)
          BY <3>1, <3>4, <4>3
        <5>2. /\ DOMAIN Append(c, id) = 1..(Len(c) + 1) /\ DOMAIN c = 1..Len(c) /\ Len(c) \in Nat
              /\ \A i \in 1..Len(c) : Append(c, id)[i] = c[i]
              /\ Append(c, id)[Len(c) + 1] = id
          <6>1. id \in Nat
            BY <1>4
          <6>. QED BY <4>2, <6>1, AppendProperties, LenProperties
        <5>3. HasChild(s, t)' <=> HasChild(s, t) \/ t = id
          <6>1. HasChild(s, t)' <=> \E i \in DOMAIN Append(c, id) : Append(c, id)[i] = t
            BY <3>2, <5>1 DEF HasChild
          <6>2. HasChild(s, t) <=> \E i \in DOMAIN c : c[i] = t
            BY DEF HasChild
          <6> HIDE DEF c
          <6>. QED BY <5>2, <6>1, <6>2
        <5>. QED BY <1>4, <2>2, <4>1, <4>3, <5>3
      <4>4. CASE s # around
        <5>1. HasChild(s, t)' <=> HasChild(s, t)
          BY <3>1, <3>2, <3>4, <4>4 DEF HasChild
        <5>. QED BY <1>4, <2>2, <4>1, <4>4, <5>1
      <4>. QED BY <4>3, <4>4
    <3>. QED BY <1>4, <2>2, <3>3, <3>4
  <2>. QED BY <2>1, <2>2
<1>14. IsTree(input')
  BY <1>1, <1>3
<1>. QED BY <1>9, <1>10, <1>12, <1>13, <1>14 DEF TreeInv

(* A step that leaves the tree of scopes alone, whatever they list. *)
LEMMA TreeFrame ==
  ASSUME TreeInv, UNCHANGED <<input, calls, nodeScope>>, ScopeIds' = ScopeIds,
         \A s \in ScopeIds : /\ scopes'[s].node = scopes[s].node
                             /\ scopes'[s].parent = scopes[s].parent
                             /\ scopes'[s].children = scopes[s].children,
         pc' # "build" => calls = <<>>
  PROVE  TreeInv'
<1>1. Nodes' = Nodes /\ Above' = Above /\ \A n : OpensScope(n)' = OpensScope(n)
  BY SameTree
<1>2. \A n : Pending(n)' <=> Pending(n)
  BY <1>1 DEF Pending
<1>3. \A s, N : ScopeOfInnermost(s, N)' <=> ScopeOfInnermost(s, N)
  <2> SUFFICES ASSUME NEW s, NEW N PROVE ScopeOfInnermost(s, N)' <=> ScopeOfInnermost(s, N)
    OBVIOUS
  <2>1. {m \in N : OpensScope(m)}' = {m \in N : OpensScope(m)}
    BY <1>1
  <2>. QED BY <2>1 DEF ScopeOfInnermost, Innermost
<1>4. CallsRight'
  BY <1>1, <1>3 DEF TreeInv, CallsRight
<1>5. NodesRight'
  <2>1. ASSUME NEW n \in Nodes PROVE Pending(n)' \/ ScopeOfInnermost(nodeScope[n], Above[n])'
    BY <1>1, <1>2, <1>3 DEF TreeInv, NodesRight
  <2>. QED BY <1>1, <2>1 DEF NodesRight
<1>6. OpenersRight'
  <2>1. ASSUME NEW s \in ScopeIds
        PROVE  /\ OpensScope(scopes[s].node)' /\ ~ (Pending(scopes[s].node)')
               /\ ScopeOfInnermost(scopes[s].parent, Above[scopes[s].node] \ {scopes[s].node})'
               /\ \A t \in ScopeIds : scopes'[s].node = scopes'[t].node => s = t
    <3>1. /\ OpensScope(scopes[s].node) /\ ~ Pending(scopes[s].node)
          /\ ScopeOfInnermost(scopes[s].parent, Above[scopes[s].node] \ {scopes[s].node})
          /\ \A t \in ScopeIds : scopes[s].node = scopes[t].node => s = t
      BY DEF TreeInv, OpenersRight
    <3>. QED BY <1>1, <1>2, <1>3, <3>1
  <2>. QED BY <2>1 DEF OpenersRight
<1>7. ChildrenRight'
  BY DEF TreeInv, ChildrenRight, HasChild
<1>. QED BY <1>4, <1>5, <1>6, <1>7 DEF TreeInv

LEMMA TreeInit == Init => TreeInv
<1> SUFFICES ASSUME Init PROVE TreeInv
  OBVIOUS
<1>1. InputType(input) /\ IsTree(input)
  BY InputsAssumption, TreesAssumption DEF Init
<1>2. ScopeIds = {} /\ pc = "build"
  BY DEF Init, ScopeIds
<1>3. Nodes = 1..Len(input.children) /\ Len(input.children) \in Nat
  BY <1>1, InputParts
<1>4. CASE Nodes = {}
  <2>1. DOMAIN calls = {}
    BY <1>4 DEF Init
  <2>. QED BY <1>1, <1>2, <1>4, <2>1 DEF TreeInv, CallsRight, NodesRight, OpenersRight, ChildrenRight
<1>5. CASE Nodes # {}
  <2>1. 1 \in Nodes
    BY <1>3, <1>5
  <2>2. DOMAIN calls = {1} /\ calls[1].node = 1 /\ calls[1].scope = InvalidId
    BY <1>5 DEF Init
  <2>3. Above[1] = {1} /\ \A n \in Nodes : 1 \in Above[n]
    BY <1>1, <2>1, AboveFacts
  <2>4. ScopeOfInnermost(calls[1].scope, Above[1] \ {1})
    BY <2>2, <2>3 DEF ScopeOfInnermost
  <2>5. CallsRight
    BY <1>2, <2>2, <2>4 DEF CallsRight
  <2>6. NodesRight
    BY <2>2, <2>3 DEF NodesRight, Pending
  <2>. QED BY <1>1, <1>2, <2>5, <2>6 DEF TreeInv, OpenersRight, ChildrenRight
<1>. QED BY <1>4, <1>5

LEMMA TreeNext == ScopesInv /\ TreeInv /\ [Next]_vars => TreeInv'
<1> SUFFICES ASSUME ScopesInv, TreeInv, [Next]_vars PROVE TreeInv'
  OBVIOUS
<1>0. pc # "build" => calls = <<>>
  BY DEF TreeInv, CallsRight
<1>1. ASSUME UNCHANGED <<input, treeVars>>, pc' # "build" => calls = <<>> PROVE TreeInv'
  <2>1. ScopeIds' = ScopeIds
    BY <1>1 DEF treeVars, ScopeIds
  <2>. QED BY <1>1, <2>1, TreeFrame DEF treeVars
<1>2. CASE Dfs
  BY <1>2, DfsTree
<1>3. CASE TreeBuilt
  BY <1>1, <1>3 DEF TreeBuilt
<1>4. CASE Associate
  <2> DEFINE d == DeclaringScope(next)
  <2>1. /\ scopes' = IF d = InvalidId THEN scopes ELSE [scopes EXCEPT ![d].symbols = Append(@, next)]
        /\ UNCHANGED <<input, pc, calls, nodeScope>> /\ pc = "associate"
    BY <1>4 DEF Associate, assocVars
  <2>2. \A s \in ScopeIds : scopes[s] \in Scope
    BY ScopeParts DEF ScopesInv
  <2> HIDE DEF d
  <2>3. ScopeIds' = ScopeIds
    BY <2>1 DEF ScopeIds
  <2>4. ASSUME NEW s \in ScopeIds
        PROVE  /\ scopes'[s].node = scopes[s].node
               /\ scopes'[s].parent = scopes[s].parent
               /\ scopes'[s].children = scopes[s].children
    <3>1. CASE s = d /\ d # InvalidId
      <4>1. scopes'[s] = [scopes[s] EXCEPT !.symbols = Append(@, next)]
        BY <2>1, <3>1 DEF ScopeIds
      <4>. QED BY <2>2, <4>1 DEF Scope
    <3>2. CASE ~ (s = d /\ d # InvalidId)
      BY <2>1, <3>2 DEF ScopeIds
    <3>. QED BY <3>1, <3>2
  <2>. QED BY <1>0, <2>1, <2>3, <2>4, TreeFrame
<1>5. CASE AllAssociated \/ Inherit \/ Layer \/ Computed \/ LookOutward \/ LookupHit \/ Answer
  <2>1. UNCHANGED <<input, treeVars>> /\ pc # "build"
    BY <1>5 DEF AllAssociated, Inherit, Layer, Computed, LookOutward, LookupHit, Answer
  <2>. QED BY <1>0, <1>1, <2>1
<1>6. CASE Query
  <2>1. UNCHANGED <<input, treeVars>> /\ pc # "build"
    BY <1>6 DEF Query, Resolve
  <2>. QED BY <1>0, <1>1, <2>1
<1>7. CASE UNCHANGED vars
  BY <1>0, <1>1, <1>7 DEF vars, treeVars
<1>. QED BY <1>2, <1>3, <1>4, <1>5, <1>6, <1>7 DEF Next, Step

LEMMA TreeAlways == Spec => []TreeInv
  BY TreeInit, TreeNext, InvAlways, PTL DEF Spec

(* build_scope_tree, on any tree of nodes: it maps every node to the scope  *)
(* opened by the nearest node above it or by itself, or to none; every      *)
(* opening node has exactly one scope, and a scope is listed with its       *)
(* parent and with no other.                                                *)
THEOREM InnermostScopes == Spec => []InnermostScope
<1>1. ScopesInv /\ TreeInv => InnermostScope
  <2> SUFFICES ASSUME ScopesInv, TreeInv, pc # "build" PROVE InnermostScope
    BY DEF InnermostScope
  <2>1. InputType(input) /\ IsTree(input) /\ DOMAIN calls = {}
    BY DEF ScopesInv, TypeOK, TreeInv, CallsRight
  <2>2. \A n \in Nodes : ScopeOfInnermost(nodeScope[n], Above[n])
    BY <2>1 DEF TreeInv, NodesRight, Pending
  <2>3. ASSUME NEW n \in Nodes, OpensScope(n)
        PROVE  \E s \in ScopeIds : {t \in ScopeIds : scopes[t].node = n} = {s}
    <3> DEFINE s == nodeScope[n]
    <3> DEFINE O == {m \in Above[n] : OpensScope(m)}
    <3>1. Nodes \subseteq Nat
      BY <2>1, InputParts
    <3>2. n \in O /\ \A m \in O : m <= n /\ m \in Nat
      BY <2>1, <2>3, <3>1, AboveFacts
    <3>3. s \in ScopeIds /\ scopes[s].node = Innermost(O)
      BY <2>2, <3>2 DEF ScopeOfInnermost
    <3>4. Innermost(O) = n
      <4> HIDE DEF O
      <4>1. \A m \in O : (\A y \in O : y <= m) <=> m = n
        BY <3>2
      <4>. QED BY <3>2, <4>1 DEF Innermost
    <3> HIDE DEF s, O
    <3>5. \A t \in ScopeIds : scopes[t].node = n <=> t = s
      BY <3>3, <3>4 DEF TreeInv, OpenersRight
    <3>. QED BY <3>3, <3>5
  <2>4. ASSUME NEW s \in ScopeIds, NEW t \in ScopeIds
        PROVE  (\E i \in DOMAIN scopes[s].children : scopes[s].children[i] = t) <=> scopes[t].parent = s
    <3>1. t \in Nat
      BY ScopeParts DEF ScopesInv
    <3>. QED BY <3>1 DEF TreeInv, ChildrenRight, HasChild
  <2>. QED BY <2>2, <2>3, <2>4 DEF InnermostScope
<1>. QED BY <1>1, InvAlways, TreeAlways, PTL

-----------------------------------------------------------------------------
(* associate_symbols.  A symbol it has come to has its declaring scope, and *)
(* a list is no longer than its last symbol is far.                         *)
PlacesInv ==
  /\ pc = "associate" =>
       next >= 1 /\ \A k \in Symbols : k < next => symbolScope[k] = DeclaringScope(k)
  /\ pc \notin {"build", "associate"} => \A k \in Symbols : symbolScope[k] = DeclaringScope(k)
  /\ \A s \in ScopeIds : \A i \in DOMAIN scopes[s].symbols : i <= scopes[s].symbols[i]

(* What declares a symbol is a matter of the tree alone. *)
LEMMA SameDeclaring ==
  ASSUME UNCHANGED <<input, nodeScope>>, ScopeIds' = ScopeIds,
         \A s \in ScopeIds : scopes'[s].node = scopes[s].node /\ scopes'[s].parent = scopes[s].parent,
         nodeScope \in [Nodes -> ScopeIds \cup {InvalidId}],
         NEW k, input.symbols[k].node \in Nodes \cup {InvalidId}
  PROVE  DeclaringScope(k)' = DeclaringScope(k)
<1> DEFINE node == input.symbols[k].node
<1> DEFINE s == IF node = InvalidId THEN InvalidId ELSE nodeScope[node]
<1>1. s \in ScopeIds \cup {InvalidId}
  OBVIOUS
<1>2. s # InvalidId => scopes'[s].node = scopes[s].node /\ scopes'[s].parent = scopes[s].parent
  BY <1>1
<1>3. DeclaringScope(k) = IF s # InvalidId /\ scopes[s].node = node /\ scopes[s].parent # InvalidId
                          THEN scopes[s].parent ELSE s
  BY DEF DeclaringScope
<1>4. DeclaringScope(k)' = IF s # InvalidId /\ scopes'[s].node = node /\ scopes'[s].parent # InvalidId
                           THEN scopes'[s].parent ELSE s
  BY DEF DeclaringScope
<1>. QED BY <1>2, <1>3, <1>4

LEMMA PlacesAssociate ==
  ASSUME ScopesInv, SightInv, PlacesInv, Associate
  PROVE  PlacesInv'
<1> DEFINE d == DeclaringScope(next)
<1>1. /\ scopes' = IF d = InvalidId THEN scopes ELSE [scopes EXCEPT ![d].symbols = Append(@, next)]
      /\ symbolScope' = IF d = InvalidId THEN symbolScope ELSE [symbolScope EXCEPT ![next] = d]
      /\ UNCHANGED <<input, pc, nodeScope>> /\ pc = "associate" /\ next \in Symbols /\ next' = next + 1
  BY DEF Associate, assocVars
<1>2. /\ ScopeIds = 1..Len(scopes) /\ Len(scopes) \in Nat
      /\ \A s \in ScopeIds : /\ scopes[s] \in Scope
                             /\ scopes[s].symbols \in Seq(Symbols)
                             /\ Len(scopes[s].symbols) \in Nat
                             /\ DOMAIN scopes[s].symbols = 1..Len(scopes[s].symbols)
                             /\ \A i \in DOMAIN scopes[s].symbols : scopes[s].symbols[i] \in Symbols
  BY ScopeParts DEF ScopesInv
<1>3. /\ nodeScope \in [Nodes -> ScopeIds \cup {InvalidId}]
      /\ symbolScope \in [Symbols -> ScopeIds \cup {InvalidId}]
      /\ InputType(input)
  BY <1>1 DEF ScopesInv, TypeOK
<1>4. /\ \A k \in Symbols : input.symbols[k].node \in Nodes \cup {InvalidId}
      /\ Symbols = 1..Len(input.symbols) /\ Len(input.symbols) \in Nat
  BY <1>3, InputParts
<1>5. Symbols' = Symbols
  BY <1>1 DEF Symbols
<1> DEFINE m == Len(scopes[d].symbols)
<1> HIDE DEF d
<1>6. ScopeIds' = ScopeIds
  BY <1>1 DEF ScopeIds
<1>7. ASSUME NEW s \in ScopeIds
      PROVE  /\ scopes'[s].node = scopes[s].node
             /\ scopes'[s].parent = scopes[s].parent
             /\ scopes'[s].symbols = IF s = d THEN Append(scopes[s].symbols, next) ELSE scopes[s].symbols
  <2>1. CASE s = d /\ d # InvalidId
    <3>1. scopes'[s] = [scopes[s] EXCEPT !.symbols = Append(@, next)]
      BY <1>1, <2>1 DEF ScopeIds
    <3>. QED BY <1>2, <2>1, <3>1 DEF Scope
  <2>2. CASE ~ (s = d /\ d # InvalidId)
    BY <1>1, <1>2, <2>2 DEF ScopeIds, InvalidId
  <2>. QED BY <2>1, <2>2
<1>8. \A k \in Symbols : DeclaringScope(k)' = DeclaringScope(k)
  BY <1>1, <1>3, <1>4, <1>6, <1>7, SameDeclaring
<1>9. ASSUME NEW k \in Symbols, k < next + 1 PROVE symbolScope'[k] = DeclaringScope(k)
  <2>1. CASE k = next
    <3>1. d # InvalidId => symbolScope'[k] = d
      BY <1>1, <1>3, <2>1
    <3>2. d = InvalidId => symbolScope'[k] = InvalidId
      <4>1. symbolScope[next] = InvalidId
        BY <1>1, <1>4 DEF SightInv, Located
      <4>. QED BY <1>1, <2>1, <4>1
    <3>. QED BY <2>1, <3>1, <3>2 DEF d
  <2>2. CASE k # next
    <3>1. k < next
      BY <1>1, <1>4, <1>9, <2>2
    <3>. QED BY <1>1, <1>3, <2>2, <3>1 DEF PlacesInv
  <2>. QED BY <2>1, <2>2
<1>10. ASSUME NEW s \in ScopeIds, NEW i \in DOMAIN scopes'[s].symbols PROVE i <= scopes'[s].symbols[i]
  <2> DEFINE c == scopes[s].symbols
  <2>1. \A j \in DOMAIN c : j <= c[j]
    BY DEF PlacesInv
  <2>2. CASE s = d
    <3>1. /\ DOMAIN Append(c, next) = 1..(Len(c) + 1) /\ DOMAIN c = 1..Len(c) /\ Len(c) \in Nat
          /\ \A j \in 1..Len(c) : Append(c, next)[j] = c[j]
          /\ Append(c, next)[Len(c) + 1] = next
      BY <1>1, <1>2, AppendProperties, LenProperties
    <3>2. Len(c) # 0 => c[Len(c)] < next /\ c[Len(c)] \in Nat
      BY <1>1, <1>2, <1>4 DEF ScopesInv, Ascending
    <3>3. Len(c) + 1 <= next
      <4> HIDE DEF c
      <4>1. Len(c) # 0 => Len(c) <= c[Len(c)]
        BY <2>1, <3>1
      <4>. QED BY <1>1, <1>4, <3>1, <3>2, <4>1
    <3>4. scopes'[s].symbols = Append(c, next)
      BY <1>7, <2>2
    <3> HIDE DEF c
    <3>. QED BY <2>1, <3>1, <3>3, <3>4, <1>10
  <2>3. CASE s # d
    BY <1>7, <1>10, <2>1, <2>3
  <2>. QED BY <2>2, <2>3
<1>11. next' >= 1
  BY <1>1, <1>4
<1>. QED BY <1>1, <1>5, <1>6, <1>8, <1>9, <1>10, <1>11 DEF PlacesInv

LEMMA PlacesNext == ScopesInv /\ SightInv /\ PlacesInv /\ [Next]_vars => PlacesInv'
<1> SUFFICES ASSUME ScopesInv, SightInv, PlacesInv, [Next]_vars PROVE PlacesInv'
  OBVIOUS
<1>1. ASSUME UNCHANGED <<input, scopes, nodeScope, symbolScope>>,
             pc' = "associate" => pc = "associate" /\ next' = next,
             pc' \notin {"build", "associate"} =>
               pc \notin {"build", "associate"} \/ (pc = "associate" /\ next \notin Symbols)
      PROVE  PlacesInv'
  <2>1. Symbols' = Symbols /\ ScopeIds' = ScopeIds /\ \A k : DeclaringScope(k)' = DeclaringScope(k)
    BY <1>1 DEF Symbols, ScopeIds, DeclaringScope
  <2>2. pc = "associate" /\ next \notin Symbols => \A k \in Symbols : k < next
    <3> SUFFICES ASSUME pc = "associate", next \notin Symbols, NEW k \in Symbols PROVE k < next
      OBVIOUS
    <3>1. Symbols = 1..Len(input.symbols) /\ Len(input.symbols) \in Nat /\ next \in Nat
      BY InputParts DEF ScopesInv, TypeOK
    <3>2. next >= 1
      BY DEF PlacesInv
    <3>. QED BY <3>1, <3>2
  <2>. QED BY <1>1, <2>1, <2>2 DEF PlacesInv
<1>2. CASE Dfs
  <2>1. pc = "build" /\ pc' = "build"
    BY <1>2 DEF Dfs
  <2>2. \A s \in ScopeIds : scopes[s].symbols = <<>>
    BY <2>1 DEF ScopesInv, Ascending
  <2>3. \A s \in ScopeIds' : scopes'[s].symbols = <<>>
    BY <1>2, <2>1, DfsInv DEF ScopesInv, Ascending
  <2>. QED BY <2>1, <2>3 DEF PlacesInv
<1>3. CASE TreeBuilt
  <2>1. /\ UNCHANGED <<input, scopes>> /\ pc' = "associate" /\ next' = 1
    BY <1>3 DEF TreeBuilt, treeVars
  <2>2. ScopeIds' = ScopeIds /\ Symbols' = Symbols
    BY <2>1 DEF ScopeIds, Symbols
  <2>3. \A k \in Symbols : ~ (k < 1)
    BY InputParts DEF ScopesInv, TypeOK
  <2>. QED BY <2>1, <2>2, <2>3 DEF PlacesInv
<1>4. CASE Associate
  BY <1>4, PlacesAssociate
<1>5. CASE AllAssociated \/ Inherit \/ Layer \/ Computed \/ LookOutward \/ LookupHit \/ Answer
  <2>1. /\ UNCHANGED <<input, scopes, nodeScope, symbolScope>>
        /\ pc' \notin {"build", "associate"}
        /\ pc \notin {"build", "associate"} \/ (pc = "associate" /\ next \notin Symbols)
    BY <1>5 DEF AllAssociated, Inherit, Layer, Computed, LookOutward, LookupHit, Answer, treeVars
  <2>. QED BY <1>1, <2>1
<1>6. CASE Query
  <2>1. /\ UNCHANGED <<input, scopes, nodeScope, symbolScope>>
        /\ pc' \notin {"build", "associate"} /\ pc \notin {"build", "associate"}
    BY <1>6 DEF Query, Resolve, treeVars
  <2>. QED BY <1>1, <2>1
<1>7. CASE UNCHANGED vars
  BY <1>1, <1>7 DEF vars
<1>. QED BY <1>2, <1>3, <1>4, <1>5, <1>6, <1>7 DEF Next, Step

LEMMA PlacesAlways == Spec => []PlacesInv
<1>1. Init => PlacesInv
  BY DEF Init, PlacesInv, ScopeIds
<1>. QED BY <1>1, PlacesNext, InvAlways, SightAlways, PTL DEF Spec

(* associate_symbols, on any tree and symbols: a symbol is declared in the  *)
(* innermost scope around its node, the one outside for a node that opens   *)
(* a scope; it stands once in that scope's list and in no other, and a      *)
(* symbol without a node, or with no opening node above it, in none.        *)
THEOREM DeclaredOutside == Spec => []DeclaredWhereVisible
<1>1. ScopesInv /\ SightInv /\ TreeInv /\ PlacesInv => DeclaredWhereVisible
  <2> SUFFICES ASSUME ScopesInv, SightInv, TreeInv, PlacesInv,
                      pc \in {"visible", "ready", "walk", "answered"}, NEW k \in Symbols
               PROVE  LET node   == input.symbols[k].node
                          outer  == Above[node] \ {node}
                          around == IF node = InvalidId THEN {}
                                    ELSE IF OpensScope(node) /\ \E m \in outer : OpensScope(m) THEN outer
                                    ELSE Above[node]
                          places == {p \in ScopeIds \X Symbols :
                                       p[2] \in DOMAIN scopes[p[1]].symbols /\ scopes[p[1]].symbols[p[2]] = k}
                      IN  /\ ScopeOfInnermost(symbolScope[k], around)
                          /\ {p[1] : p \in places} = {symbolScope[k]} \ {InvalidId}
                          /\ \A p, q \in places : p = q
    BY DEF DeclaredWhereVisible
  <2> DEFINE node == input.symbols[k].node
  <2> DEFINE outer == Above[node] \ {node}
  <2> DEFINE around == IF node = InvalidId THEN {}
                       ELSE IF OpensScope(node) /\ \E m \in outer : OpensScope(m) THEN outer
                       ELSE Above[node]
  <2> DEFINE s == IF node = InvalidId THEN InvalidId ELSE nodeScope[node]
  <2>1. InputType(input) /\ IsTree(input) /\ DOMAIN calls = {}
    BY DEF ScopesInv, TypeOK, TreeInv, CallsRight
  <2>2. /\ node \in Nodes \cup {InvalidId} /\ Nodes \subseteq Nat /\ InvalidId \notin Nodes
        /\ Symbols = 1..Len(input.symbols) /\ Len(input.symbols) \in Nat
    BY <2>1, InputParts DEF InvalidId
  <2>3. /\ ScopeIds = 1..Len(scopes) /\ Len(scopes) \in Nat
        /\ \A t \in ScopeIds : /\ DOMAIN scopes[t].symbols = 1..Len(scopes[t].symbols)
                               /\ Len(scopes[t].symbols) \in Nat
                               /\ \A i \in DOMAIN scopes[t].symbols : scopes[t].symbols[i] \in Symbols
    BY ScopeParts DEF ScopesInv
  <2>4. symbolScope[k] = IF s # InvalidId /\ scopes[s].node = node /\ scopes[s].parent # InvalidId
                         THEN scopes[s].parent ELSE s
    BY DEF PlacesInv, DeclaringScope
  <2>5. ScopeOfInnermost(symbolScope[k], around)
    <3>1. CASE node = InvalidId
      BY <2>4, <3>1 DEF ScopeOfInnermost
    <3>2. CASE node # InvalidId
      <4> DEFINE O == {m \in Above[node] : OpensScope(m)}
      <4>1. node \in Nodes
        BY <2>2, <3>2
      <4>2. node \in Above[node] /\ \A m \in Above[node] : m <= node /\ m \in Nat
        BY <2>1, <2>2, <4>1, AboveFacts
      <4>3. ScopeOfInnermost(s, Above[node])
        BY <2>1, <3>2, <4>1 DEF TreeInv, NodesRight, Pending
      <4>4. OpensScope(node) => Innermost(O) = node /\ node \in O
        <5> SUFFICES ASSUME OpensScope(node) PROVE Innermost(O) = node /\ node \in O
          OBVIOUS
        <5>1. node \in O /\ \A m \in O : m <= node /\ m \in Nat
          BY <4>2
        <5> HIDE DEF O
        <5>2. \A m \in O : (\A y \in O : y <= m) <=> m = node
          BY <5>1
        <5>. QED BY <5>1, <5>2 DEF Innermost
      <4>5. s \in ScopeIds => OpensScope(scopes[s].node) /\
                              ScopeOfInnermost(scopes[s].parent, Above[scopes[s].node] \ {scopes[s].node})
        BY DEF TreeInv, OpenersRight
      <4>6. CASE OpensScope(node)
        <5>1. s \in ScopeIds /\ scopes[s].node = node
          BY <4>3, <4>4, <4>6 DEF ScopeOfInnermost
        <5>2. ScopeOfInnermost(scopes[s].parent, outer) /\ s # InvalidId
          BY <2>3, <4>5, <5>1 DEF InvalidId
        <5>3. CASE \E m \in outer : OpensScope(m)
          <6>1. {m \in outer : OpensScope(m)} # {}
            BY <5>3
          <6>2. scopes[s].parent # InvalidId
            BY <2>3, <5>2, <6>1 DEF ScopeOfInnermost, InvalidId
          <6>3. symbolScope[k] = scopes[s].parent
            BY <2>4, <5>1, <5>2, <6>2
          <6>4. around = outer
            BY <3>2, <4>6, <5>3
          <6>. QED BY <5>2, <6>3, <6>4
        <5>4. CASE ~ \E m \in outer : OpensScope(m)
          <6>1. {m \in outer : OpensScope(m)} = {}
            BY <5>4
          <6>2. scopes[s].parent = InvalidId
            BY <5>2, <6>1 DEF ScopeOfInnermost
          <6>3. symbolScope[k] = s
            BY <2>4, <6>2
          <6>4. around = Above[node]
            BY <3>2, <5>4
          <6>. QED BY <4>3, <6>3, <6>4
        <5>. QED BY <5>3, <5>4
      <4>7. CASE ~ OpensScope(node)
        <5>1. s \in ScopeIds => scopes[s].node # node
          BY <4>5, <4>7
        <5>2. s \in ScopeIds \cup {InvalidId}
          BY <4>3 DEF ScopeOfInnermost
        <5>3. symbolScope[k] = s
          BY <2>4, <5>1, <5>2
        <5>4. around = Above[node]
          BY <3>2, <4>7
        <5>. QED BY <4>3, <5>3, <5>4
      <4>. QED BY <4>6, <4>7
    <3>. QED BY <3>1, <3>2
  <2> HIDE DEF node, outer, around, s
  <2> DEFINE places == {p \in ScopeIds \X Symbols :
                          p[2] \in DOMAIN scopes[p[1]].symbols /\ scopes[p[1]].symbols[p[2]] = k}
  <2>6. \A t \in ScopeIds : Lists(t, k) <=> symbolScope[k] = t
    BY DEF SightInv, Located
  <2>7. ASSUME NEW t \in ScopeIds, NEW i \in DOMAIN scopes[t].symbols, scopes[t].symbols[i] = k
        PROVE  i \in Symbols /\ t = symbolScope[k]
    <3>1. i <= k
      BY <2>7 DEF PlacesInv
    <3>2. Lists(t, k)
      BY <2>7 DEF Lists
    <3>. QED BY <2>2, <2>3, <2>6, <3>1, <3>2
  <2>8. {p[1] : p \in places} = {symbolScope[k]} \ {InvalidId}
    <3>1. ASSUME NEW p \in places PROVE p[1] = symbolScope[k] /\ p[1] # InvalidId
      BY <2>3, <2>7 DEF InvalidId
    <3>2. ASSUME symbolScope[k] # InvalidId PROVE \E p \in places : p[1] = symbolScope[k]
      <4> DEFINE t == symbolScope[k]
      <4>1. t \in ScopeIds
        BY <3>2 DEF ScopesInv, TypeOK
      <4>2. PICK i \in DOMAIN scopes[t].symbols : scopes[t].symbols[i] = k
        BY <2>6, <4>1 DEF Lists
      <4>3. i \in Symbols
        BY <2>7, <4>1, <4>2
      <4>4. <<t, i>> \in places /\ <<t, i>>[1] = t
        BY <4>1, <4>2, <4>3
      <4>. QED BY <4>4
    <3>. QED BY <3>1, <3>2
  <2>9. ASSUME NEW p \in places, NEW q \in places PROVE p = q
    <3>1. /\ p \in ScopeIds \X Symbols /\ p[2] \in DOMAIN scopes[p[1]].symbols
          /\ scopes[p[1]].symbols[p[2]] = k
          /\ q \in ScopeIds \X Symbols /\ q[2] \in DOMAIN scopes[q[1]].symbols
          /\ scopes[q[1]].symbols[q[2]] = k
      OBVIOUS
    <3>2. p[1] = q[1] /\ p[1] \in ScopeIds
      BY <2>7, <3>1
    <3>3. ~ (p[2] < q[2]) /\ ~ (q[2] < p[2])
      BY <2>2, <3>1, <3>2 DEF ScopesInv, Ascending
    <3>4. p[2] = q[2]
      BY <2>2, <3>1, <3>3
    <3>. QED BY <3>1, <3>2, <3>4
  <2>. QED BY <2>5, <2>8, <2>9 DEF node, outer, around
<1>. QED BY <1>1, InvAlways, SightAlways, TreeAlways, PlacesAlways, PTL
=============================================================================
