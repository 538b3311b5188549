---------------------------- MODULE QueryProofs ----------------------------
(***************************************************************************)
(* Proofs about SymbolQueries for any symbols, call sites and questions,   *)
(* about MemberCalls' search for a receiver's declaration, for any         *)
(* function, and about SemanticDiff, for any two snapshots.                *)
(***************************************************************************)
EXTENDS SymbolQueries, MemberCalls, SemanticDiff, WellFoundedInduction, FiniteSetTheorems, TLAPS

(* A nonempty set of natural numbers has a first element. *)
LEMMA FirstOfIsLeast ==
  ASSUME NEW S, S \subseteq Nat, S # {}
  PROVE  FirstOf(S) \in S /\ \A t \in S : FirstOf(S) <= t
<1> DEFINE Less == {ss \in Nat \X Nat : ss[1] < ss[2]}
<1>1. IsWellFoundedOn(Less, Nat)
  BY NatLessThanWellFounded DEF OpToRel
<1> HIDE DEF Less
<1>2. PICK s \in S : \A t \in S : ~ (<<t, s>> \in Less)
  BY <1>1, WFMin
<1>3. \A t \in S : t < s => <<t, s>> \in Less
  <2> TAKE t \in S
  <2>1. <<t, s>> \in Nat \X Nat /\ <<t, s>>[1] = t /\ <<t, s>>[2] = s
    OBVIOUS
  <2>. QED BY <2>1 DEF Less
<1>4. \A t \in S : ~ (t < s)
  BY <1>2, <1>3
<1>5. \A t \in S : s <= t
  BY <1>4
<1>. QED BY <1>5 DEF FirstOf

-----------------------------------------------------------------------------
(* The workspace that is asked about. *)

(* The workspace is one of those the constants describe. *)
Loaded == catalog \in SymbolLists /\ sites \in SiteSets(catalog)

LEMMA LoadedFacts ==
  ASSUME Loaded
  PROVE  /\ Symbols \subseteq Nat /\ None \notin Symbols
         /\ \A c \in sites : IsSite(c, catalog)
  BY QueryConstantsOK DEF Loaded, Symbols, None

(* find_in_workspace finds the same declaration. *)
LEMMA FindSame ==
  ASSUME Loaded, NEW s \in Symbols
  PROVE  FindInWorkspace(s) \in Symbols /\ SameDeclaration(s, FindInWorkspace(s))
<1> DEFINE T == {t \in Symbols : SameDeclaration(s, t)}
<1>1. s \in T /\ T \subseteq Nat
  BY LoadedFacts DEF SameDeclaration
<1>2. FirstOf(T) \in T
  BY <1>1, FirstOfIsLeast
<1>. QED BY <1>2 DEF FindInWorkspace

(* The body that stands for a symbol has its name. *)
LEMMA BodySameName ==
  ASSUME Loaded, NEW s \in Symbols
  PROVE  BodyOf(s) \in Symbols /\ Symbol(BodyOf(s)).fqn = Symbol(s).fqn
<1> DEFINE D == {d \in Symbols :
                   Symbol(d).body /\ Symbol(d).kind = "function" /\ Symbol(d).fqn = Symbol(s).fqn}
<1>1. D \subseteq Nat
  BY LoadedFacts
<1>2. D # {} => FirstOf(D) \in D
  BY <1>1, FirstOfIsLeast
<1>3. BodyOf(s) = IF Symbol(s).body \/ D = {} THEN s ELSE FirstOf(D)
  BY DEF BodyOf
<1>. QED BY <1>2, <1>3

-----------------------------------------------------------------------------
(* What is dropped. *)

LEMMA CandidatesAreRaw == ASSUME NEW q PROVE Candidates(q) \subseteq Raw(q)
  BY DEF Candidates, WithoutDeclarations, WithoutDefinitions

(* Neither step drops a method. *)
LEMMA MethodsStay ==
  ASSUME NEW q, NEW m \in Raw(q), Symbol(m).kind = "method"
  PROVE  m \in Candidates(q)
<1>1. m \in WithoutDefinitions(Raw(q))
  BY DEF WithoutDefinitions, Misclassified
<1>. QED BY <1>1 DEF Candidates, WithoutDeclarations, Bare

(* Nor does either drop a definition that no method has the name of. *)
LEMMA BodiesStay ==
  ASSUME NEW q, NEW d \in WithoutDefinitions(Raw(q)), Symbol(d).body
  PROVE  d \in Candidates(q)
  BY DEF Candidates, WithoutDeclarations, Bare

(* The definitions of a function that BodyOf chooses from. *)
Definitions(f) ==
  {d \in Symbols : Symbol(d).body /\ Symbol(d).kind = "function" /\ Symbol(d).fqn = f}

LEMMA BodyIs ==
  ASSUME Loaded, NEW s \in Symbols
  PROVE  LET D == Definitions(Symbol(s).fqn)
         IN  /\ BodyOf(s) = IF Symbol(s).body \/ D = {} THEN s ELSE FirstOf(D)
             /\ D # {} => FirstOf(D) \in D
<1> DEFINE D == Definitions(Symbol(s).fqn)
<1>1. D \subseteq Nat
  BY LoadedFacts DEF Definitions
<1>2. D # {} => FirstOf(D) \in D
  BY <1>1, FirstOfIsLeast
<1>3. BodyOf(s) = IF Symbol(s).body \/ D = {} THEN s ELSE FirstOf(D)
  BY DEF BodyOf, Definitions
<1>. QED BY <1>2, <1>3

(* No call is inside of a symbol without a scope of its own. *)
LEMMA NothingInside ==
  ASSUME Loaded, NEW s \in Symbols, BodyOf(s) = s, ~Symbol(s).opens
  PROVE  CalleesOf(s) = {}
<1>1. ASSUME NEW c \in sites, Within(c, s) PROVE FALSE
  <2>1. PICK i \in DOMAIN c.inside : c.inside[i] = s
    BY <1>1 DEF Within
  <2>2. IsSite(c, catalog) /\ s # None
    BY LoadedFacts
  <2>. QED BY <2>1, <2>2 DEF IsSite, Symbol
<1>. QED BY <1>1 DEF CalleesOf

(* The calls of a definition that gives way to a member. *)
LEMMA MemberForDefinition ==
  ASSUME Loaded, NEW s \in Symbols, NEW m \in Symbols, OneBody(Symbol(s).fqn),
         Symbol(m).kind = "method", Symbol(s).kind = "function", Symbol(m).fqn = Symbol(s).fqn
  PROVE  CalleesOf(s) \subseteq CalleesOf(m)
<1> DEFINE D == Definitions(Symbol(s).fqn)
<1>1. /\ BodyOf(s) = IF Symbol(s).body \/ D = {} THEN s ELSE FirstOf(D)
      /\ BodyOf(m) = IF Symbol(m).body \/ D = {} THEN m ELSE FirstOf(D)
      /\ D # {} => FirstOf(D) \in D
  BY BodyIs
<1>2. /\ Symbol(s).opens => Symbol(s).body
      /\ \A d \in D : Symbol(s).body => d = s
      /\ \A d \in D : Symbol(m).body => d = m
      /\ s \in D <=> Symbol(s).body
      /\ m \notin D
  BY DEF OneBody, Exact, Definitions
<1> HIDE DEF D
<1>3. CASE D = {}
  <2>1. ~Symbol(s).opens /\ BodyOf(s) = s
    BY <1>1, <1>2, <1>3
  <2>. QED BY <2>1, NothingInside
<1>4. CASE D # {}
  <2>1. BodyOf(m) = FirstOf(D) /\ BodyOf(s) = FirstOf(D)
    BY <1>1, <1>2, <1>4
  <2>. QED BY <2>1 DEF CalleesOf
<1>. QED BY <1>3, <1>4

LEMMA NothingLost == ASSUME Loaded PROVE NoBodyLost
<1> SUFFICES ASSUME NEW s \in Asked(Raw(question)), IsCallable(s)
             PROVE  \E u \in Candidates(question) :
                      /\ Symbol(u).fqn = Symbol(s).fqn
                      /\ OneBody(Symbol(s).fqn) => CalleesOf(s) \subseteq CalleesOf(u)
  BY DEF NoBodyLost
<1> DEFINE q == question
           S == WithoutDefinitions(Raw(q))
<1>1. s \in Raw(q) /\ Raw(q) \subseteq Symbols
  BY DEF Asked, Raw, Exact
<1>2. CASE s \in Candidates(q)
  BY <1>2
<1>3. CASE s \notin S
  <2>1. Misclassified(Raw(q), s)
    BY <1>1, <1>3 DEF WithoutDefinitions
  <2>2. PICK m \in Raw(q) : Symbol(m).kind = "method" /\ Symbol(m).fqn = Symbol(s).fqn
    BY <2>1 DEF Misclassified
  <2>3. m \in Candidates(q)
    BY <2>2, MethodsStay
  <2>4. Symbol(s).kind = "function"
    BY <2>1 DEF Misclassified
  <2>. QED BY <1>1, <2>2, <2>3, <2>4, MemberForDefinition
<1>4. CASE s \in S /\ s \notin Candidates(q)
  <2>1. Bare(S, s)
    BY <1>4 DEF Candidates, WithoutDeclarations
  <2>2. PICK d \in S :
          Symbol(d).kind = "function" /\ Symbol(d).body /\ Symbol(d).fqn = Symbol(s).fqn
    BY <2>1 DEF Bare
  <2>3. d \in Candidates(q)
    BY <2>2, BodiesStay
  <2>4. OneBody(Symbol(s).fqn) => BodyOf(s) = BodyOf(d)
    <3> DEFINE D == Definitions(Symbol(s).fqn)
    <3>1. d \in Symbols /\ s \in Symbols /\ d \in D
      BY <1>1, <2>2 DEF WithoutDefinitions, Definitions
    <3>2. /\ BodyOf(s) = IF Symbol(s).body \/ D = {} THEN s ELSE FirstOf(D)
          /\ BodyOf(d) = IF Symbol(d).body \/ D = {} THEN d ELSE FirstOf(D)
          /\ D # {} => FirstOf(D) \in D
      BY <3>1, <2>2, BodyIs
    <3>3. ~Symbol(s).body
      BY <2>1 DEF Bare
    <3>4. OneBody(Symbol(s).fqn) => \A e \in D : e = d
      BY <3>1 DEF OneBody, Exact, Definitions
    <3> HIDE DEF D
    <3>. QED BY <3>1, <3>2, <3>3, <3>4, <2>2
  <2>. QED BY <2>2, <2>3, <2>4 DEF CalleesOf
<1>. QED BY <1>2, <1>3, <1>4

(* A name of one part is the last part of the qualified name. *)
LEMMA LastPart ==
  ASSUME NEW f \in Names, NEW n \in Names, NEW o \in Names, Len(n) = 1, Len(o) = 1,
         IsTail(n, f), IsTail(o, f)
  PROVE  n = o
  BY DEF IsTail

LEMMA SymbolFacts ==
  ASSUME Loaded, NEW s \in Symbols
  PROVE  Symbol(s) \in SymbolSet /\ IsSymbol(Symbol(s))
<1>1. catalog \in Seq(SymbolSet)
  BY QueryConstantsOK DEF Loaded
<1>2. catalog[s] \in SymbolSet
  BY <1>1 DEF Symbols
<1>. QED BY <1>2, QueryConstantsOK DEF Loaded, Symbols, Symbol

(* A question that has a function, not merely the definition of a member,  *)
(* in its answer has no member of the qualified name.                      *)
LEMMA NoMember ==
  ASSUME Loaded, question \in Names, NEW s \in Candidates(question), NEW m \in Symbols,
         Symbol(s).kind = "function", Symbol(m).kind = "method", Joined(s),
         Symbol(m).fqn = Symbol(s).fqn, Len(Symbol(s).fqn) # 1
  PROVE  FALSE
<1> DEFINE q == question
           F == Symbol(s).fqn
<1>1. s \in Raw(q) /\ s \in Symbols /\ ~Misclassified(Raw(q), s)
  BY DEF Candidates, WithoutDeclarations, WithoutDefinitions, Raw, Exact
<1>2. /\ F \in Names /\ Symbol(s).name \in Names /\ Symbol(m).name \in Names
      /\ IsSymbol(Symbol(m))
  BY <1>1, SymbolFacts DEF SymbolSet
<1>3. Len(Symbol(m).name) = 1 /\ IsTail(Symbol(m).name, F)
  BY <1>2 DEF IsSymbol
<1>4. m \in Raw(q)
  <2>1. CASE Len(q) = 1
    <3>1. Symbol(s).name = q /\ IsTail(Symbol(s).name, F)
      BY <1>1, <2>1 DEF Raw, Joined
    <3>2. Symbol(m).name = q
      BY <1>2, <1>3, <2>1, <3>1, LastPart
    <3>. QED BY <2>1, <3>2 DEF Raw
  <2>2. CASE Len(q) # 1 /\ Exact(q) # {}
    BY <1>1, <2>2 DEF Raw, Exact
  <2>3. CASE Len(q) # 1 /\ Exact(q) = {}
    BY <1>1, <2>3 DEF Raw
  <2>. QED BY <2>1, <2>2, <2>3
<1>. QED BY <1>1, <1>4 DEF Misclassified

LEMMA NameSelects == ASSUME Loaded, question \in Names \cup {<<>>} PROVE JoinedNameSelects
<1> SUFFICES ASSUME NEW s \in Asked(Candidates(question)), IsCallable(s), Joined(s)
             PROVE  LedToBy(s, Symbol(s).fqn)
  BY DEF JoinedNameSelects
<1> DEFINE q == question
           F == Symbol(s).fqn
           D == Definitions(F)
<1>1. question \in Names /\ s \in Candidates(q)
  BY DEF Asked
<1>2. s \in Raw(q) /\ s \in Symbols
  BY <1>1, CandidatesAreRaw DEF Raw, Exact
<1>3. F \in Names /\ Symbol(s).name \in Names
  BY <1>2, SymbolFacts DEF SymbolSet
<1>4. CASE Len(F) = 1
  <2>1. Symbol(s).name = F
    <3>1. Len(Symbol(s).name) # 0 /\ Len(Symbol(s).name) \in Nat
      BY <1>3 DEF Names
    <3>. QED BY <1>4, <3>1 DEF Joined, IsTail
  <2>2. Len(q) \in Nat /\ Len(q) # 0
    BY <1>1 DEF Names
  <2>3. q = F
    <3>1. CASE Len(q) = 1
      BY <1>2, <2>1, <3>1 DEF Raw
    <3>2. CASE Len(q) # 1
      <4>1. F = q \/ IsTail(q, F)
        BY <1>2, <3>2 DEF Raw, Exact
      <4>. QED BY <1>4, <2>2, <3>2, <4>1 DEF IsTail
    <3>. QED BY <3>1, <3>2
  <2>. QED BY <1>1, <2>3 DEF LedToBy
<1>5. CASE Len(F) # 1
  <2>1. Raw(F) = Exact(F) /\ s \in Exact(F)
    BY <1>2, <1>5 DEF Raw, Exact
  <2>2. CASE Symbol(s).kind = "method"
    BY <2>1, <2>2, MethodsStay DEF LedToBy
  <2>3. CASE Symbol(s).kind = "function"
    <3>1. \A m \in Exact(F) : Symbol(m).kind # "method"
      BY <1>1, <1>5, <2>3, NoMember DEF Exact
    <3>2. WithoutDefinitions(Raw(F)) = Exact(F)
      BY <2>1, <3>1 DEF WithoutDefinitions, Misclassified
    <3>3. CASE s \in Candidates(F)
      BY <3>3 DEF LedToBy
    <3>4. CASE s \notin Candidates(F)
      <4>1. Bare(Exact(F), s)
        BY <2>1, <3>2, <3>4 DEF Candidates, WithoutDeclarations
      <4>2. D # {} /\ ~Symbol(s).body
        BY <4>1 DEF Bare, Definitions, Exact
      <4>3. BodyOf(s) = FirstOf(D) /\ FirstOf(D) \in D
        BY <1>2, <4>2, BodyIs
      <4>4. /\ FirstOf(D) \in Exact(F) /\ Symbol(FirstOf(D)).body
            /\ Symbol(FirstOf(D)).fqn = F
        BY <4>3 DEF Definitions, Exact
      <4>5. FirstOf(D) \in Candidates(F)
        BY <3>2, <4>4, BodiesStay
      <4>6. BodyOf(FirstOf(D)) = FirstOf(D)
        BY <4>4 DEF BodyOf
      <4>7. CalleesOf(FirstOf(D)) = CalleesOf(s)
        BY <4>3, <4>6 DEF CalleesOf
      <4>. QED BY <4>4, <4>5, <4>7 DEF LedToBy
    <3>. QED BY <3>3, <3>4
  <2>. QED BY <2>2, <2>3 DEF IsCallable
<1>. QED BY <1>4, <1>5

(* The workspace stays what it is, and the question is one. *)
QueryInv == Loaded /\ question \in Names \cup {<<>>}

LEMMA QueryInductive ==
  /\ QueryInit => QueryInv
  /\ QueryInv /\ [QueryNext]_queryVars => QueryInv'
<1>1. QueryInit => QueryInv
  BY DEF QueryInit, QueryInv, Loaded
<1>2. QueryInv /\ [QueryNext]_queryVars => QueryInv'
  BY QueryConstantsOK DEF QueryInv, Loaded, QueryNext, Ask, queryVars
<1>. QED BY <1>1, <1>2

(* For any symbols, call sites and question: of each function that the     *)
(* name matches a symbol is kept from which callees lists the calls that   *)
(* it would have listed from those that were dropped.                      *)
THEOREM BodiesAreKept == QuerySpec => []NoBodyLost
<1>1. QueryInv => NoBodyLost
  BY NothingLost DEF QueryInv
<1>. QED BY <1>1, QueryInductive, PTL DEF QuerySpec

(* For any symbols, call sites and question: the qualified name of a       *)
(* candidate, where "::" joins its parts, selects the function it is of.   *)
THEOREM QualifiedNamesDisambiguate == QuerySpec => []JoinedNameSelects
<1>1. QueryInv => JoinedNameSelects
  BY NameSelects DEF QueryInv
<1>. QED BY <1>1, QueryInductive, PTL DEF QuerySpec

-----------------------------------------------------------------------------
(* Callers and callees. *)

(* A callee has the call among its callers. *)
LEMMA CalleesHaveCallers ==
  ASSUME Loaded, NEW s \in Symbols, NEW e \in CalleesOf(s)
  PROVE  /\ <<e[1], CallerOf(e[1])>> \in CallersOf(e[2])
         /\ \/ CallerOf(e[1]) # None /\ Symbol(CallerOf(e[1])).fqn = Symbol(s).fqn
            \/ \E i \in DOMAIN e[1].inside \ {1} :
                 e[1].inside[i] # None /\ Symbol(e[1].inside[i]).fqn = Symbol(s).fqn
<1>1. PICK c \in sites : /\ c.callee # None /\ Within(c, BodyOf(s))
                        /\ e = <<c, FindInWorkspace(c.callee)>>
  BY DEF CalleesOf
<1>2. c.callee \in Symbols /\ c.inside \in Seq(Nat)
  BY <1>1, LoadedFacts DEF IsSite, Symbols
<1>3. SameDeclaration(c.callee, FindInWorkspace(c.callee))
  BY <1>2, FindSame
<1>4. <<e[1], CallerOf(e[1])>> \in CallersOf(e[2])
  BY <1>1, <1>3 DEF CallersOf
<1>5. PICK i \in DOMAIN c.inside : c.inside[i] = BodyOf(s)
  BY <1>1 DEF Within
<1>6. c.inside[i] # None /\ Symbol(c.inside[i]).fqn = Symbol(s).fqn
  BY <1>5, BodySameName, LoadedFacts
<1>7. CASE i = 1
  <2>1. c.inside # <<>>
    BY <1>2, <1>5
  <2>2. CallerOf(c) = c.inside[1]
    BY <2>1 DEF CallerOf
  <2>. QED BY <1>1, <1>4, <1>6, <1>7, <2>2
<1>8. CASE i # 1
  BY <1>1, <1>4, <1>5, <1>6, <1>8
<1>. QED BY <1>7, <1>8

(* A caller that is named has the call among its callees. *)
LEMMA CallersHaveCallees ==
  ASSUME Loaded, NEW s \in Symbols, NEW e \in CallersOf(s), e[2] # None, BodyOf(e[2]) = e[2]
  PROVE  \E d \in CalleesOf(e[2]) : d[1] = e[1] /\ SameDeclaration(d[2], s)
<1>1. PICK c \in sites : /\ c.callee # None /\ SameDeclaration(c.callee, s)
                        /\ e = <<c, CallerOf(c)>>
  BY DEF CallersOf
<1>2. c.callee \in Symbols /\ c.inside \in Seq(Nat)
  BY <1>1, LoadedFacts DEF IsSite, Symbols
<1>3. c.inside # <<>> /\ e[2] = c.inside[1] /\ 1 \in DOMAIN c.inside
  BY <1>1, <1>2 DEF CallerOf
<1>4. Within(c, BodyOf(e[2]))
  BY <1>3 DEF Within
<1>5. <<c, FindInWorkspace(c.callee)>> \in CalleesOf(e[2])
  BY <1>1, <1>4 DEF CalleesOf
<1>6. SameDeclaration(FindInWorkspace(c.callee), s)
  BY <1>1, <1>2, FindSame DEF SameDeclaration
<1>. QED BY <1>1, <1>5, <1>6

(* A call is a reference. *)
LEMMA CallersAreReferences ==
  ASSUME NEW s \in Symbols
  PROVE  /\ {e[1] : e \in CallersOf(s)} = ReferencesOf(s, TRUE)
         /\ \A c \in ReferencesOf(s, TRUE) \ ReferencesOf(s, FALSE) : OnDeclaration(c, s)
<1> DEFINE C == {d \in sites : d.callee # None /\ SameDeclaration(d.callee, s)}
<1>1. ReferencesOf(s, TRUE) = C
  BY DEF ReferencesOf
<1>2. CallersOf(s) = {<<c, CallerOf(c)>> : c \in C}
  BY DEF CallersOf
<1>3. \A c \in C : <<c, CallerOf(c)>> \in CallersOf(s) /\ <<c, CallerOf(c)>>[1] = c
  BY <1>2
<1>4. \A e \in CallersOf(s) : e[1] \in C
  BY <1>2
<1>5. {e[1] : e \in CallersOf(s)} = C
  <2> HIDE DEF C
  <2>1. \A c \in C : \E e \in CallersOf(s) : c = e[1]
    BY <1>3
  <2>. QED BY <1>4, <2>1
<1>. QED BY <1>1, <1>5 DEF ReferencesOf

LEMMA LoadedAgree == Loaded => CallersAndCalleesAgree
  BY CalleesHaveCallers, CallersHaveCallees, CallersAreReferences DEF CallersAndCalleesAgree

(* For any symbols and call sites, callers, callees and references tell    *)
(* the same calls, except that a lambda or an inner function takes a call  *)
(* away from the callers of the function around it, and the declaration's  *)
(* line takes one away from the references.                                *)
THEOREM CallersCalleesAgree == QuerySpec => []CallersAndCalleesAgree
<1>1. QueryInv => CallersAndCalleesAgree
  BY LoadedAgree DEF QueryInv
<1>. QED BY <1>1, QueryInductive, PTL DEF QuerySpec

-----------------------------------------------------------------------------
(* The search for a receiver's declaration: the loop goes backwards        *)
(* through the text, and because the scopes around a call are nested the   *)
(* first declaration it meets is of the nearest scope.                     *)

Scope(i) == program.decls[i].scope
Written(i) == program.decls[i].type

(* The declarations that count, and those of them that were looked at. *)
Around == {i \in Mentioning : i <= program.before /\ Scope(i) # Nobody}
Visited == {i \in Around : i > at}

(* The function of the call is as the constants have it. *)
ProgramOK ==
  /\ DOMAIN program.decls \subseteq Nat
  /\ \A i \in Around : Scope(i) \in 1..Depth
  /\ \A i, j \in Around : i < j => Scope(j) <= Scope(i)

(* What the search knows of the declarations it has looked at. *)
NearestKnown ==
  \/ Visited = {} /\ best = Far /\ written = NoName
  \/ /\ \E i \in Visited : Scope(i) = best /\ Written(i) = written
     /\ \A i \in Visited : best <= Scope(i) /\ (Scope(i) = best => Written(i) = written)

MemberInv ==
  /\ program \in Programs
  /\ at \in 0..Len(program.decls)
  /\ stage \in {"asked", "search", "typed", "done"}
  /\ stage = "asked" => at = Len(program.decls) /\ best = Far /\ written = NoName
  /\ stage \in {"search", "typed"} => program.receiver # "" /\ program.caller # NoName
  /\ stage = "search" => NearestKnown
  /\ stage = "typed" => written = TypeBy(Mentioning)
  /\ NearestScopeDecides
  /\ stage # "done" => target = Nobody

LEMMA ProgramIsOK == ASSUME program \in Programs PROVE ProgramOK /\ Len(program.decls) \in Nat
                                                       /\ DOMAIN program.decls = 1..Len(program.decls)
<1>1. program \in MemberCallSet /\ Nested(program)
  BY MemberConstantsOK
<1>2. program.decls \in Seq(Declarations)
  BY <1>1 DEF MemberCallSet
<1>3. /\ Len(program.decls) \in Nat /\ DOMAIN program.decls = 1..Len(program.decls)
      /\ \A i \in DOMAIN program.decls : program.decls[i] \in Declarations
  BY <1>2
<1>4. \A i \in Around : i \in DOMAIN program.decls
  BY DEF Around, Mentioning
<1>5. \A i \in Around : Scope(i) \in 1..Depth
  <2>1. TAKE i \in Around
  <2>2. Scope(i) \in 0..Depth /\ Scope(i) # 0
    BY <1>3, <1>4 DEF Around, Scope, Declarations, Nobody
  <2>. QED BY <2>2, MemberConstantsOK
<1>6. \A i, j \in Around : i < j => Scope(j) <= Scope(i)
  BY <1>1, <1>4 DEF Nested, Around, Scope
<1>. QED BY <1>3, <1>5, <1>6 DEF ProgramOK

(* What is around the call depends on the call alone. *)
LEMMA ProgramFrame ==
  ASSUME UNCHANGED program
  PROVE  /\ Around' = Around
         /\ TypeBy(Mentioning)' = TypeBy(Mentioning)
         /\ CalleeBy(Mentioning)' = CalleeBy(Mentioning)
         /\ \A i : Scope(i)' = Scope(i) /\ Written(i)' = Written(i)
         /\ \A t : MemberOf(t)' = MemberOf(t)
         /\ FieldType' = FieldType
<1>1. Mentioning' = Mentioning
  BY DEF Mentioning
<1>2. \A k, n : Having(k, n)' = Having(k, n)
  BY DEF Having
<1>3. Owner' = Owner
  BY DEF Owner
<1>4. FieldType' = FieldType
  BY <1>2, <1>3 DEF FieldType
<1>5. TypeBy(Mentioning)' = TypeBy(Mentioning)
  BY <1>1, <1>4 DEF TypeBy
<1>6. \A t : TypesMeant(t)' = TypesMeant(t)
  BY <1>2, <1>3 DEF TypesMeant, PrefixLengths, InPrefix
<1>7. \A t : ClassOf(t)' = ClassOf(t)
  BY <1>6 DEF ClassOf
<1>8. \A t : MemberOf(t)' = MemberOf(t)
  BY <1>2, <1>7 DEF MemberOf
<1>9. CalleeBy(Mentioning)' = CalleeBy(Mentioning)
  BY <1>5, <1>8 DEF CalleeBy
<1>. QED BY <1>1, <1>4, <1>5, <1>8, <1>9 DEF Around, Scope, Written

(* The reference, once the nearest scope is known. *)
LEMMA TypeOfAgreed ==
  ASSUME NEW i \in Around,
         \A j \in Around : Scope(i) <= Scope(j) /\ (Scope(j) = Scope(i) => Written(j) = Written(i)),
         ProgramOK
  PROVE  TypeBy(Mentioning) = Written(i)
<1> DEFINE nearest == {k \in Around : \A j \in Around : Scope(k) <= Scope(j)}
           types == {Written(k) : k \in nearest}
<1>1. i \in nearest
  OBVIOUS
<1>2. \A k \in nearest : Scope(k) = Scope(i)
  <2>1. TAKE k \in nearest
  <2>2. Scope(k) <= Scope(i) /\ Scope(i) <= Scope(k) /\ Scope(k) \in Nat /\ Scope(i) \in Nat
    BY DEF ProgramOK
  <2> HIDE DEF nearest
  <2>. QED BY <2>2
<1>3. types = {Written(i)}
  BY <1>1, <1>2
<1>4. TypeBy(Mentioning) = (IF Around = {} THEN FieldType
        ELSE IF \E t \in types : types = {t} THEN CHOOSE t \in types : TRUE ELSE NoName)
  BY DEF TypeBy, Around, Scope, Written
<1> HIDE DEF types
<1>. QED BY <1>3, <1>4

LEMMA TypeOfDisagreed ==
  ASSUME NEW i \in Around, NEW j \in Around, Scope(i) = Scope(j), Written(i) # Written(j),
         \A k \in Around : Scope(i) <= Scope(k)
  PROVE  TypeBy(Mentioning) = NoName
<1> DEFINE nearest == {k \in Around : \A l \in Around : Scope(k) <= Scope(l)}
           types == {Written(k) : k \in nearest}
<1>1. i \in nearest /\ j \in nearest
  OBVIOUS
<1>2. Written(i) \in types /\ Written(j) \in types
  BY <1>1
<1>3. TypeBy(Mentioning) = (IF Around = {} THEN FieldType
        ELSE IF \E t \in types : types = {t} THEN CHOOSE t \in types : TRUE ELSE NoName)
  BY DEF TypeBy, Around, Scope, Written
<1> HIDE DEF types
<1>. QED BY <1>2, <1>3

-----------------------------------------------------------------------------
(* One lemma per action. *)

LEMMA MemberInitially == MemberInit => MemberInv
  BY ProgramIsOK DEF MemberInit, MemberInv, NearestScopeDecides

LEMMA BeginStep == ASSUME MemberInv, Begin PROVE MemberInv'
<1>1. program' = program /\ at' = at /\ best' = best /\ written' = written /\ target' = target
  BY DEF Begin
<1>2. CASE program.receiver = "" \/ program.caller = NoName
  <2>1. CalleeBy(Mentioning) = Nobody
    BY <1>2 DEF CalleeBy
  <2>. QED BY <1>1, <1>2, <2>1, ProgramFrame DEF Begin, MemberInv, NearestScopeDecides
<1>3. CASE ~(program.receiver = "" \/ program.caller = NoName)
  <2>1. stage = "asked" /\ stage' = "search"
    BY <1>3 DEF Begin
  <2>2. Visited' = {}
    BY <1>1, <2>1, ProgramFrame, ProgramIsOK DEF MemberInv, Visited, Around, Mentioning
  <2>3. NearestKnown'
    BY <1>1, <2>1, <2>2 DEF MemberInv, NearestKnown, Far
  <2>. QED BY <1>1, <1>3, <2>1, <2>3 DEF MemberInv, NearestScopeDecides
<1>. QED BY <1>2, <1>3

(* What was seen is not farther out than what comes now. *)
LEMMA LookedAt ==
  ASSUME MemberInv, stage = "search", at \in DOMAIN program.decls, at' = at - 1, program' = program
  PROVE  /\ Visited' = Visited \cup (IF at \in Around THEN {at} ELSE {})
         /\ at' \in 0..Len(program.decls)
         /\ at \in Around =>
              /\ Scope(at) \in 1..Depth
              /\ \A j \in Visited : Scope(j) <= Scope(at)
              /\ \A k \in Around \ Visited : Scope(at) <= Scope(k)
<1>1. ProgramOK /\ DOMAIN program.decls = 1..Len(program.decls) /\ Len(program.decls) \in Nat
  BY ProgramIsOK DEF MemberInv
<1>2. Around' = Around /\ at \in Nat /\ Around \subseteq Nat
  BY <1>1, ProgramFrame DEF Around, Mentioning
<1>3. \A i \in Nat : i > at - 1 <=> i > at \/ i = at
  BY <1>2
<1>4. Visited' = {i \in Around : i > at - 1}
  BY <1>2 DEF Visited
<1>5. Visited' = Visited \cup (IF at \in Around THEN {at} ELSE {})
  BY <1>2, <1>3, <1>4 DEF Visited
<1>6. at' \in 0..Len(program.decls)
  BY <1>1
<1>7. ASSUME at \in Around
      PROVE  /\ \A j \in Visited : Scope(j) <= Scope(at)
             /\ \A k \in Around \ Visited : Scope(at) <= Scope(k)
  <2>1. \A j \in Visited : j \in Around /\ at < j
    BY <1>2 DEF Visited
  <2>2. ASSUME NEW k \in Around \ Visited
        PROVE  Scope(at) <= Scope(k)
    <3>1. k \in Nat /\ ~(k > at)
      BY <1>2, <2>2 DEF Visited
    <3>2. k < at \/ k = at
      BY <1>2, <3>1
    <3>3. Scope(at) \in Nat
      BY <1>1, <1>7 DEF ProgramOK
    <3>4. CASE k = at
      BY <3>3, <3>4
    <3>. QED BY <1>1, <1>7, <2>2, <3>2, <3>4 DEF ProgramOK
  <2>. QED BY <1>1, <1>7, <2>1, <2>2 DEF ProgramOK
<1>. QED BY <1>1, <1>5, <1>6, <1>7 DEF ProgramOK

LEMMA LookStep == ASSUME MemberInv, Look PROVE MemberInv'
<1> DEFINE d == program.decls[at]
<1>1. /\ stage = "search" /\ at \in DOMAIN program.decls /\ at' = at - 1
      /\ program' = program /\ target' = target
  BY DEF Look
<1>2. /\ program \in Programs /\ NearestKnown /\ target = Nobody /\ ProgramOK
      /\ program.receiver # "" /\ program.caller # NoName
  BY <1>1, ProgramIsOK DEF MemberInv
<1>3. /\ Scope(at) = d.scope /\ Written(at) = d.type
      /\ at \in Around <=> at <= program.before /\ Counts(d)
  BY <1>1 DEF Around, Mentioning, Counts, Scope, Written
<1>4. /\ Visited' = Visited \cup (IF at \in Around THEN {at} ELSE {})
      /\ at' \in 0..Len(program.decls)
      /\ at \in Around =>
           /\ Scope(at) \in 1..Depth
           /\ \A j \in Visited : Scope(j) <= Scope(at)
           /\ \A k \in Around \ Visited : Scope(at) <= Scope(k)
  BY <1>1, LookedAt
<1>5. /\ \A i : Scope(i)' = Scope(i) /\ Written(i)' = Written(i)
      /\ TypeBy(Mentioning)' = TypeBy(Mentioning) /\ Around' = Around
  BY <1>1, ProgramFrame
<1>6. Visited # {} => /\ \E i \in Visited : Scope(i) = best /\ Written(i) = written
                   /\ \A i \in Visited : best <= Scope(i) /\ (Scope(i) = best => Written(i) = written)
  BY <1>2 DEF NearestKnown
<1>7. \A i \in Visited : i \in Around /\ Scope(i) \in Nat
  <2>1. \A n \in 1..Depth : n \in Nat
    BY MemberConstantsOK
  <2>2. \A i \in Visited : i \in Around
    BY DEF Visited
  <2>3. \A i \in Around : Scope(i) \in 1..Depth
    BY <1>2 DEF ProgramOK
  <2>. QED BY <2>1, <2>2, <2>3
<1>8. CASE at <= program.before /\ Nearer(d)
  <2>1. at \in Around /\ Scope(at) < best
    BY <1>3, <1>8 DEF Nearer
  <2>2. Visited = {}
    <3>1. SUFFICES ASSUME Visited # {} PROVE FALSE
      OBVIOUS
    <3>2. PICK i \in Visited : Scope(i) = best
      BY <1>6, <3>1
    <3>3. best <= Scope(at) /\ best \in Nat /\ Scope(at) \in Nat
      BY <1>4, <1>7, <2>1, <3>2
    <3>. QED BY <2>1, <3>3
  <2>3. best' = Scope(at) /\ written' = Written(at) /\ stage' = "search"
    <3>1. Scope(at) # best
      BY <1>4, <2>1, MemberConstantsOK
    <3>2. ~Clashes(d)
      BY <1>3, <3>1 DEF Clashes
    <3>. QED BY <1>1, <1>3, <1>8, <3>2 DEF Look
  <2>4. Visited' = {at} /\ Scope(at) <= Scope(at)
    BY <1>4, <2>1, <2>2
  <2>5. NearestKnown'
    BY <1>5, <2>3, <2>4 DEF NearestKnown
  <2>. QED BY <1>1, <1>2, <1>4, <2>3, <2>5 DEF MemberInv, NearestScopeDecides
<1>9. CASE at <= program.before /\ Clashes(d)
  <2>1. at \in Around /\ Scope(at) = best /\ Written(at) # written
    BY <1>3, <1>9 DEF Clashes
  <2>2. Visited # {}
    <3>1. SUFFICES ASSUME Visited = {} PROVE FALSE
      OBVIOUS
    <3>2. best = Far \/ \E i \in Visited : TRUE
      BY <1>2 DEF NearestKnown
    <3>3. Scope(at) = Depth + 1 /\ Scope(at) \in 1..Depth
      BY <1>4, <2>1, <3>1, <3>2 DEF Far
    <3>. QED BY <3>3, MemberConstantsOK
  <2>3. PICK j \in Visited : Scope(j) = best /\ Written(j) = written
    BY <1>6, <2>2
  <2>4. \A k \in Around : Scope(at) <= Scope(k)
    BY <1>4, <1>6, <2>1, <2>2
  <2>5. TypeBy(Mentioning) = NoName
    BY <1>7, <2>1, <2>3, <2>4, TypeOfDisagreed
  <2>6. written' = NoName /\ stage' = "typed"
    <3>1. ~(Scope(at) < best)
      BY <1>4, <2>1, MemberConstantsOK
    <3>2. ~Nearer(d)
      BY <1>3, <3>1 DEF Nearer
    <3>. QED BY <1>1, <1>9, <3>2 DEF Look
  <2>. QED BY <1>1, <1>2, <1>4, <1>5, <2>5, <2>6 DEF MemberInv, NearestScopeDecides
<1>10. CASE ~(at <= program.before) \/ ~(Nearer(d) \/ Clashes(d))
  <2>1. best' = best /\ written' = written /\ stage' = "search"
    BY <1>1, <1>10 DEF Look
  <2>2. at \in Around => ~(Scope(at) < best) /\ (Scope(at) = best => Written(at) = written)
    BY <1>3, <1>10 DEF Nearer, Clashes
  <2>3. NearestKnown'
    <3>1. CASE at \notin Around
      <4>1. Visited' = Visited
        BY <1>4, <3>1
      <4>. QED BY <1>2, <1>5, <2>1, <4>1 DEF NearestKnown
    <3>2. CASE at \in Around
      <4>1. Visited' = Visited \cup {at}
        BY <1>4, <3>2
      <4>2. Visited # {}
        <5>1. SUFFICES ASSUME Visited = {} PROVE FALSE
          OBVIOUS
        <5>2. best = Depth + 1
          BY <1>2, <5>1 DEF NearestKnown, Far
        <5>. QED BY <1>4, <2>2, <3>2, <5>2, MemberConstantsOK
      <4>3. best \in Nat /\ Scope(at) \in Nat
        BY <1>4, <1>6, <1>7, <3>2, <4>2
      <4>4. best <= Scope(at)
        BY <2>2, <3>2, <4>3
      <4>. QED BY <1>5, <1>6, <2>1, <2>2, <3>2, <4>1, <4>2, <4>4 DEF NearestKnown
    <3>. QED BY <3>1, <3>2
  <2>. QED BY <1>1, <1>2, <1>4, <2>1, <2>3 DEF MemberInv, NearestScopeDecides
<1>. QED BY <1>8, <1>9, <1>10

LEMMA LookForFieldStep == ASSUME MemberInv, LookForField PROVE MemberInv'
<1>1. /\ stage = "search" /\ at = 0 /\ stage' = "typed"
      /\ program' = program /\ at' = at /\ best' = best /\ target' = target
      /\ written' = IF best = Far THEN FieldType ELSE written
  BY DEF LookForField
<1>2. program \in Programs /\ NearestKnown /\ ProgramOK /\ DOMAIN program.decls = 1..Len(program.decls)
  BY <1>1, ProgramIsOK DEF MemberInv
<1>3. Visited = Around
  BY <1>1, <1>2 DEF Visited, Around, Mentioning
<1>4. written' = TypeBy(Mentioning)
  <2>1. CASE Around = {}
    <3>1. TypeBy(Mentioning) = FieldType
      BY <2>1 DEF TypeBy, Around, Scope
    <3>. QED BY <1>1, <1>2, <1>3, <2>1, <3>1 DEF NearestKnown
  <2>2. CASE Around # {}
    <3>1. PICK i \in Around : Scope(i) = best /\ Written(i) = written
      BY <1>2, <1>3, <2>2 DEF NearestKnown
    <3>2. \A j \in Around : Scope(i) <= Scope(j) /\ (Scope(j) = Scope(i) => Written(j) = Written(i))
      BY <1>2, <1>3, <2>2, <3>1 DEF NearestKnown
    <3>3. TypeBy(Mentioning) = written
      BY <1>2, <3>1, <3>2, TypeOfAgreed
    <3>4. best # Far
      <4>1. best \in 1..Depth
        BY <1>2, <3>1 DEF ProgramOK
      <4>. QED BY <4>1, MemberConstantsOK DEF Far
    <3>. QED BY <1>1, <3>3, <3>4
  <2>. QED BY <2>1, <2>2
<1>. QED BY <1>1, <1>4, ProgramFrame DEF MemberInv, NearestScopeDecides

LEMMA ResolveStep == ASSUME MemberInv, Resolve PROVE MemberInv'
<1>1. /\ stage = "typed" /\ stage' = "done" /\ target' = MemberOf(written)
      /\ program' = program /\ at' = at /\ best' = best /\ written' = written
  BY DEF Resolve
<1>2. target' = CalleeBy(Mentioning)
  BY <1>1 DEF MemberInv, CalleeBy
<1>. QED BY <1>1, <1>2, ProgramFrame DEF MemberInv, NearestScopeDecides

LEMMA MemberStutter == ASSUME MemberInv, UNCHANGED memberVars PROVE MemberInv'
<1>1. /\ program' = program /\ stage' = stage /\ at' = at /\ best' = best
      /\ written' = written /\ target' = target
  BY DEF memberVars
<1>2. Visited' = Visited
  BY <1>1, ProgramFrame DEF Visited
<1>3. NearestKnown' = NearestKnown
  BY <1>1, <1>2, ProgramFrame DEF NearestKnown
<1>. QED BY <1>1, <1>3, ProgramFrame DEF MemberInv, NearestScopeDecides

(* For any function, workspace and call the answer is that of the nearest  *)
(* scope in which a declaration holds the receiver's name: what is farther *)
(* out, in a sibling block or after the call has no say (resolve of        *)
(* ast-member-resolution.cpp's declared_local_type).                       *)
THEOREM NearestScopeWins == MemberSpec => []NearestScopeDecides
<1>1. MemberInit => MemberInv
  BY MemberInitially
<1>2. MemberInv /\ [MemberNext]_memberVars => MemberInv'
  BY BeginStep, LookStep, LookForFieldStep, ResolveStep, MemberStutter DEF MemberNext
<1>3. MemberInv => NearestScopeDecides
  BY DEF MemberInv
<1>. QED BY <1>1, <1>2, <1>3, PTL DEF MemberSpec

-----------------------------------------------------------------------------
(***************************************************************************)
(* SemanticDiff, for any two snapshots: the places in a group are 1, 2,    *)
(* ... up to its size, so pairing by place pairs as many old symbols of an *)
(* identity as new ones and leaves some over on one side only.             *)
(***************************************************************************)

DiffSymbol == [identity : Identities, props : Properties]

-----------------------------------------------------------------------------
(* Places in a group. *)

LEMMA SameSizeOfGroups ==
  ASSUME NEW S, NEW T, IsFiniteSet(S), NEW f \in [S -> T],
         \A x, y \in S : f[x] = f[y] => x = y,
         \A t \in T : \E x \in S : f[x] = t
  PROVE  IsFiniteSet(T) /\ Cardinality(T) = Cardinality(S)
<1>1. f \in Bijection(S, T)
  BY DEF Bijection, Injection, Surjection, IsInjective
<1>2. ExistsBijection(S, T)
  BY <1>1 DEF ExistsBijection
<1>. QED BY <1>2, FS_Bijection

LEMMA Positions ==
  ASSUME NEW ws \in Seq(DiffSymbol)
  PROVE  /\ DOMAIN ws \subseteq Nat \ {0} /\ IsFiniteSet(DOMAIN ws)
         /\ \A i \in DOMAIN ws : ws[i] \in DiffSymbol /\ ws[i].identity \in Identities
<1>1. DOMAIN ws = 1..Len(ws) /\ Len(ws) \in Nat
  OBVIOUS
<1>2. IsFiniteSet(DOMAIN ws)
  BY <1>1, FS_Interval
<1>3. \A i \in DOMAIN ws : ws[i] \in DiffSymbol
  OBVIOUS
<1>4. \A s \in DiffSymbol : s.identity \in Identities
  BY DEF DiffSymbol
<1>. QED BY <1>1, <1>2, <1>3, <1>4

LEMMA GroupIs ==
  ASSUME NEW ws \in Seq(DiffSymbol), NEW id
  PROVE  /\ Group(ws, id) \subseteq DOMAIN ws /\ IsFiniteSet(Group(ws, id))
         /\ Cardinality(Group(ws, id)) \in Nat
         /\ \A i \in Group(ws, id) : ws[i].identity = id /\ i \in Nat
<1>1. Group(ws, id) \subseteq DOMAIN ws /\ \A i \in Group(ws, id) : ws[i].identity = id
  BY DEF Group
<1>. QED BY <1>1, Positions, FS_Subset, FS_CardinalityType

(* A place is between one and the size of the group, and no two symbols of *)
(* a group have the same.                                                  *)
LEMMA PlaceIs ==
  ASSUME NEW ws \in Seq(DiffSymbol), NEW id, NEW i \in Group(ws, id)
  PROVE  /\ Place(ws, i) \in 1..Cardinality(Group(ws, id))
         /\ \A j \in Group(ws, id) : Place(ws, i) = Place(ws, j) => i = j
<1> DEFINE Upto(n) == {j \in Group(ws, id) : j <= n}
<1>1. ASSUME NEW n \in Group(ws, id)
      PROVE  /\ Place(ws, n) = Cardinality(Upto(n)) /\ n \in Upto(n)
             /\ Upto(n) \subseteq Group(ws, id) /\ IsFiniteSet(Upto(n)) /\ Cardinality(Upto(n)) \in Nat
  <2>1. ws[n].identity = id /\ n \in Nat
    BY GroupIs
  <2>2. n \in Upto(n) /\ Upto(n) \subseteq Group(ws, id)
    BY <2>1
  <2>3. IsFiniteSet(Upto(n)) /\ Cardinality(Upto(n)) \in Nat
    BY <2>2, GroupIs, FS_Subset, FS_CardinalityType
  <2>4. Place(ws, n) = Cardinality(Upto(n))
    BY <2>1 DEF Place
  <2>. QED BY <2>2, <2>3, <2>4
<1>2. ASSUME NEW m \in Group(ws, id), NEW n \in Group(ws, id), m < n
      PROVE  Upto(m) \subseteq Upto(n) /\ n \notin Upto(m)
  BY <1>2, GroupIs
<1> HIDE DEF Upto
<1>3. Place(ws, i) \in 1..Cardinality(Group(ws, id))
  <2>1. Cardinality(Upto(i)) # 0
    BY <1>1, FS_EmptySet
  <2>2. Cardinality(Upto(i)) <= Cardinality(Group(ws, id))
    BY <1>1, GroupIs, FS_Subset
  <2>. QED BY <1>1, <2>1, <2>2, GroupIs
<1>4. ASSUME NEW m \in Group(ws, id), NEW n \in Group(ws, id), m < n PROVE Place(ws, m) # Place(ws, n)
  <2>1. Upto(m) \subseteq Upto(n) /\ Upto(m) # Upto(n)
    BY <1>1, <1>2, <1>4
  <2>2. Cardinality(Upto(m)) # Cardinality(Upto(n))
    BY <1>1, <2>1, FS_Subset
  <2>. QED BY <1>1, <2>2
<1>5. ASSUME NEW j \in Group(ws, id), Place(ws, i) = Place(ws, j) PROVE i = j
  <2>1. i \in Nat /\ j \in Nat
    BY GroupIs
  <2>2. ~ (i < j) /\ ~ (j < i)
    BY <1>4, <1>5
  <2>. QED BY <2>1, <2>2
<1>. QED BY <1>3, <1>5

(* Every place up to the size of the group is taken. *)
LEMMA PlacesFilled ==
  ASSUME NEW ws \in Seq(DiffSymbol), NEW id, NEW n \in 1..Cardinality(Group(ws, id))
  PROVE  \E i \in Group(ws, id) : Place(ws, i) = n
<1> DEFINE G == Group(ws, id)
           K == Cardinality(G)
           f == [i \in G |-> Place(ws, i)]
<1>1. f \in [G -> 1..K] /\ \A i, j \in G : f[i] = f[j] => i = j
  BY PlaceIs
<1>2. K \in Nat /\ IsFiniteSet(1..K) /\ Cardinality(1..K) = K
  BY GroupIs, FS_Interval
<1>3. f \in Injection(G, 1..K)
  BY <1>1 DEF Injection, IsInjective
<1>4. f \in Surjection(G, 1..K)
  BY <1>2, <1>3, FS_Injection
<1>5. \E i \in G : f[i] = n
  BY <1>4 DEF Surjection
<1>. QED BY <1>5

-----------------------------------------------------------------------------
(* The pairs. *)

SnapshotsGiven == old \in Seq(DiffSymbol) /\ new \in Seq(DiffSymbol)

LEMMA PairedOnce ==
  ASSUME SnapshotsGiven
  PROVE  /\ \A i \in DOMAIN old : \A j, k \in DOMAIN new : Paired(i, j) /\ Paired(i, k) => j = k
         /\ \A j \in DOMAIN new : \A i, k \in DOMAIN old : Paired(i, j) /\ Paired(k, j) => i = k
<1>1. ASSUME NEW i \in DOMAIN old, NEW j \in DOMAIN new, NEW k \in DOMAIN new, Paired(i, j), Paired(i, k)
      PROVE  j = k
  <2>1. j \in Group(new, new[j].identity) /\ k \in Group(new, new[j].identity)
    BY <1>1 DEF Paired, Group
  <2>2. Place(new, j) = Place(new, k)
    BY <1>1 DEF Paired
  <2>. QED BY <2>1, <2>2, PlaceIs DEF SnapshotsGiven
<1>2. ASSUME NEW j \in DOMAIN new, NEW i \in DOMAIN old, NEW k \in DOMAIN old, Paired(i, j), Paired(k, j)
      PROVE  i = k
  <2>1. i \in Group(old, old[i].identity) /\ k \in Group(old, old[i].identity)
    BY <1>2 DEF Paired, Group
  <2>2. Place(old, i) = Place(old, k)
    BY <1>2 DEF Paired
  <2>. QED BY <2>1, <2>2, PlaceIs DEF SnapshotsGiven
<1>. QED BY <1>1, <1>2

(* A symbol has a partner when its place is no larger than the other       *)
(* workspace's group.                                                      *)
LEMMA PairedIf ==
  ASSUME SnapshotsGiven, NEW id
  PROVE  /\ \A i \in Group(old, id) :
              Place(old, i) <= Cardinality(Group(new, id)) => \E j \in Group(new, id) : Paired(i, j)
         /\ \A j \in Group(new, id) :
              Place(new, j) <= Cardinality(Group(old, id)) => \E i \in Group(old, id) : Paired(i, j)
<1>1. ASSUME NEW i \in Group(old, id), Place(old, i) <= Cardinality(Group(new, id))
      PROVE  \E j \in Group(new, id) : Paired(i, j)
  <2>1. Place(old, i) \in 1..Cardinality(Group(new, id))
    BY <1>1, PlaceIs, GroupIs DEF SnapshotsGiven
  <2>2. PICK j \in Group(new, id) : Place(new, j) = Place(old, i)
    BY <2>1, PlacesFilled DEF SnapshotsGiven
  <2>3. old[i].identity = id /\ new[j].identity = id
    BY DEF Group
  <2>. QED BY <2>2, <2>3 DEF Paired
<1>2. ASSUME NEW j \in Group(new, id), Place(new, j) <= Cardinality(Group(old, id))
      PROVE  \E i \in Group(old, id) : Paired(i, j)
  <2>1. Place(new, j) \in 1..Cardinality(Group(old, id))
    BY <1>2, PlaceIs, GroupIs DEF SnapshotsGiven
  <2>2. PICK i \in Group(old, id) : Place(old, i) = Place(new, j)
    BY <2>1, PlacesFilled DEF SnapshotsGiven
  <2>3. old[i].identity = id /\ new[j].identity = id
    BY DEF Group
  <2>. QED BY <2>2, <2>3 DEF Paired
<1>. QED BY <1>1, <1>2

-----------------------------------------------------------------------------
(* The changes. *)

Compared == SnapshotsGiven /\ changes = Modified \cup Removed \cup Added

(* What a change may be. *)
LEMMA ChangeIs ==
  ASSUME Compared, NEW c
  PROVE  c \in changes <=>
           \/ \E i \in DOMAIN old, j \in DOMAIN new :
                Paired(i, j) /\ old[i].props # new[j].props /\ c = <<"Modified", i, j>>
           \/ \E i \in DOMAIN old : (\A j \in DOMAIN new : ~Paired(i, j)) /\ c = <<"Removed", i, Null>>
           \/ \E j \in DOMAIN new : (\A i \in DOMAIN old : ~Paired(i, j)) /\ c = <<"Added", Null, j>>
<1>1. c \in Modified <=> \E i \in DOMAIN old, j \in DOMAIN new :
                           Paired(i, j) /\ old[i].props # new[j].props /\ c = <<"Modified", i, j>>
  <2>1. ASSUME c \in Modified
        PROVE  \E i \in DOMAIN old, j \in DOMAIN new :
                 Paired(i, j) /\ old[i].props # new[j].props /\ c = <<"Modified", i, j>>
    <3>1. PICK d \in (DOMAIN old) \X (DOMAIN new) :
            Paired(d[1], d[2]) /\ old[d[1]].props # new[d[2]].props /\ c = <<"Modified", d[1], d[2]>>
      BY <2>1 DEF Modified
    <3>2. d[1] \in DOMAIN old /\ d[2] \in DOMAIN new
      OBVIOUS
    <3>. QED BY <3>1, <3>2
  <2>2. ASSUME NEW i \in DOMAIN old, NEW j \in DOMAIN new,
               Paired(i, j), old[i].props # new[j].props, c = <<"Modified", i, j>>
        PROVE  c \in Modified
    <3>1. <<i, j>> \in (DOMAIN old) \X (DOMAIN new) /\ <<i, j>>[1] = i /\ <<i, j>>[2] = j
      OBVIOUS
    <3>2. \E d \in (DOMAIN old) \X (DOMAIN new) :
            Paired(d[1], d[2]) /\ old[d[1]].props # new[d[2]].props /\ c = <<"Modified", d[1], d[2]>>
      BY <2>2, <3>1
    <3>. QED BY <3>2 DEF Modified
  <2>. QED BY <2>1, <2>2
<1>2. c \in Removed <=> \E i \in DOMAIN old : (\A j \in DOMAIN new : ~Paired(i, j)) /\ c = <<"Removed", i, Null>>
  BY DEF Removed
<1>3. c \in Added <=> \E j \in DOMAIN new : (\A i \in DOMAIN old : ~Paired(i, j)) /\ c = <<"Added", Null, j>>
  BY DEF Added
<1>. QED BY <1>1, <1>2, <1>3 DEF Compared

(* No identity is both removed and added. *)
LEMMA OneSidedLeftovers ==
  ASSUME Compared, NEW c \in changes, NEW d \in changes, c[1] = "Removed", d[1] = "Added"
  PROVE  old[c[2]].identity # new[d[3]].identity
<1>1. PICK i \in DOMAIN old : (\A j \in DOMAIN new : ~Paired(i, j)) /\ c = <<"Removed", i, Null>>
  BY ChangeIs
<1>2. PICK j \in DOMAIN new : (\A k \in DOMAIN old : ~Paired(k, j)) /\ d = <<"Added", Null, j>>
  BY ChangeIs
<1> SUFFICES ASSUME old[i].identity = new[j].identity PROVE FALSE
  BY <1>1, <1>2
<1> DEFINE id == old[i].identity
<1>3. i \in Group(old, id) /\ j \in Group(new, id)
  BY DEF Group
<1>4. ~ (Place(old, i) <= Cardinality(Group(new, id))) /\ ~ (Place(new, j) <= Cardinality(Group(old, id)))
  <2>1. Group(new, id) \subseteq DOMAIN new /\ Group(old, id) \subseteq DOMAIN old
    BY DEF Group
  <2>. QED BY <1>1, <1>2, <1>3, <2>1, PairedIf DEF Compared
<1>5. /\ Place(old, i) \in 1..Cardinality(Group(old, id)) /\ Place(new, j) \in 1..Cardinality(Group(new, id))
      /\ Cardinality(Group(old, id)) \in Nat /\ Cardinality(Group(new, id)) \in Nat
  BY <1>3, PlaceIs, GroupIs DEF Compared, SnapshotsGiven
<1> HIDE DEF id
<1>. QED BY <1>4, <1>5

(* Equal groups: nothing is reported. *)
LEMMA SameGroupsNoChange ==
  ASSUME Compared, \A id \in Identities : InGroup(old, id) = InGroup(new, id)
  PROVE  changes = {}
<1>1. ASSUME NEW ws \in Seq(DiffSymbol), NEW id, NEW i \in Group(ws, id)
      PROVE  InGroup(ws, id)[Place(ws, i)] = ws[i]
  <2>1. Place(ws, i) \in 1..Cardinality(Group(ws, id))
    BY PlaceIs
  <2>2. (CHOOSE k \in Group(ws, id) : Place(ws, k) = Place(ws, i)) = i
    BY PlaceIs
  <2>. QED BY <2>1, <2>2 DEF InGroup
<1>2. ASSUME NEW id \in Identities PROVE Cardinality(Group(old, id)) = Cardinality(Group(new, id))
  <2>1. DOMAIN InGroup(old, id) = DOMAIN InGroup(new, id)
    OBVIOUS
  <2>2. 1..Cardinality(Group(old, id)) = 1..Cardinality(Group(new, id))
    BY <2>1 DEF InGroup
  <2>3. Cardinality(Group(old, id)) \in Nat /\ Cardinality(Group(new, id)) \in Nat
    BY GroupIs DEF Compared, SnapshotsGiven
  <2> DEFINE a == Cardinality(Group(old, id))
             b == Cardinality(Group(new, id))
  <2> HIDE DEF a, b
  <2>4. ASSUME a \in Nat, b \in Nat, 1..a = 1..b PROVE a = b
    <3>1. a <= b
      <4>1. CASE a = 0
        BY <2>4, <4>1
      <4>2. CASE a # 0
        <5>1. a \in 1..a
          BY <2>4, <4>2
        <5>. QED BY <2>4, <5>1
      <4>. QED BY <4>1, <4>2
    <3>2. b <= a
      <4>1. CASE b = 0
        BY <2>4, <4>1
      <4>2. CASE b # 0
        <5>1. b \in 1..b
          BY <2>4, <4>2
        <5>. QED BY <2>4, <5>1
      <4>. QED BY <4>1, <4>2
    <3>. QED BY <2>4, <3>1, <3>2
  <2>. QED BY <2>2, <2>3, <2>4 DEF a, b
<1>3. ASSUME NEW i \in DOMAIN old PROVE \E j \in DOMAIN new : Paired(i, j)
  <2>1. old[i].identity \in Identities /\ i \in Group(old, old[i].identity)
    BY Positions DEF Group, Compared, SnapshotsGiven
  <2>2. Place(old, i) <= Cardinality(Group(new, old[i].identity))
    BY <1>2, <2>1, PlaceIs, GroupIs DEF Compared, SnapshotsGiven
  <2>3. \E j \in Group(new, old[i].identity) : Paired(i, j)
    BY <2>1, <2>2, PairedIf DEF Compared
  <2>. QED BY <2>3 DEF Group
<1>4. ASSUME NEW j \in DOMAIN new PROVE \E i \in DOMAIN old : Paired(i, j)
  <2>1. new[j].identity \in Identities /\ j \in Group(new, new[j].identity)
    BY Positions DEF Group, Compared, SnapshotsGiven
  <2>2. Place(new, j) <= Cardinality(Group(old, new[j].identity))
    BY <1>2, <2>1, PlaceIs, GroupIs DEF Compared, SnapshotsGiven
  <2>3. \E i \in Group(old, new[j].identity) : Paired(i, j)
    BY <2>1, <2>2, PairedIf DEF Compared
  <2>. QED BY <2>3 DEF Group
<1>5. ASSUME NEW i \in DOMAIN old, NEW j \in DOMAIN new, Paired(i, j) PROVE old[i].props = new[j].props
  <2> DEFINE id == old[i].identity
  <2>1. /\ id \in Identities /\ i \in Group(old, id) /\ j \in Group(new, id)
        /\ Place(old, i) = Place(new, j)
    BY <1>5, Positions DEF Group, Compared, SnapshotsGiven, Paired
  <2>2. InGroup(old, id)[Place(old, i)] = old[i] /\ InGroup(new, id)[Place(new, j)] = new[j]
    BY <1>1, <2>1 DEF Compared, SnapshotsGiven
  <2>3. old[i] = new[j]
    BY <2>1, <2>2
  <2>. QED BY <2>3
<1>. QED BY <1>3, <1>4, <1>5, ChangeIs

-----------------------------------------------------------------------------
(* The changes as a patch. *)

(* Where a symbol s stands, and where it has a partner like it.            *)
OldAt(s) == {i \in DOMAIN old : old[i] = s}
NewAt(s) == {j \in DOMAIN new : new[j] = s}
KeptOld(s) == {i \in OldAt(s) : \E j \in NewAt(s) : Paired(i, j)}
KeptNew(s) == {j \in NewAt(s) : \E i \in OldAt(s) : Paired(i, j)}
Taking(s) == {c \in changes : c[2] # Null /\ old[c[2]] = s}
Bringing(s) == {c \in changes : c[3] # Null /\ new[c[3]] = s}

LEMMA SymbolsEqual ==
  ASSUME NEW s \in DiffSymbol, NEW t \in DiffSymbol, s.identity = t.identity, s.props = t.props
  PROVE  s = t
  BY DEF DiffSymbol

LEMMA StandsAt ==
  ASSUME SnapshotsGiven, NEW s
  PROVE  /\ IsFiniteSet(OldAt(s)) /\ IsFiniteSet(NewAt(s))
         /\ Cardinality(OldAt(s)) = Alike(old, s) /\ Cardinality(NewAt(s)) = Alike(new, s)
<1>1. OldAt(s) \subseteq DOMAIN old /\ NewAt(s) \subseteq DOMAIN new
  BY DEF OldAt, NewAt
<1>2. IsFiniteSet(DOMAIN old) /\ IsFiniteSet(DOMAIN new)
  BY Positions DEF SnapshotsGiven
<1>. QED BY <1>1, <1>2, FS_Subset DEF OldAt, NewAt, Alike

(* The symbols with a partner like them are as many on both sides. *)
LEMMA KeptAlike ==
  ASSUME SnapshotsGiven, NEW s
  PROVE  Cardinality(KeptNew(s)) = Cardinality(KeptOld(s))
<1> DEFINE partner == [i \in KeptOld(s) |-> CHOOSE j \in NewAt(s) : Paired(i, j)]
<1>0. IsFiniteSet(KeptOld(s))
  BY StandsAt, FS_Subset DEF KeptOld
<1>1. ASSUME NEW i \in KeptOld(s) PROVE partner[i] \in KeptNew(s) /\ Paired(i, partner[i])
  <2>1. i \in OldAt(s) /\ \E j \in NewAt(s) : Paired(i, j)
    BY DEF KeptOld
  <2>2. partner[i] \in NewAt(s) /\ Paired(i, partner[i])
    BY <2>1
  <2>. QED BY <2>1, <2>2 DEF KeptNew
<1>a. partner = [i \in KeptOld(s) |-> partner[i]]
  OBVIOUS
<1> HIDE DEF partner
<1>2. partner \in [KeptOld(s) -> KeptNew(s)]
  BY <1>1, <1>a
<1>3. \A i \in KeptOld(s) : i \in DOMAIN old
  BY DEF KeptOld, OldAt
<1>4. \A j \in KeptNew(s) : j \in DOMAIN new
  BY DEF KeptNew, NewAt
<1>5. ASSUME NEW i \in KeptOld(s), NEW k \in KeptOld(s), partner[i] = partner[k] PROVE i = k
  BY <1>1, <1>3, <1>4, <1>5, PairedOnce
<1>6. ASSUME NEW j \in KeptNew(s) PROVE \E i \in KeptOld(s) : partner[i] = j
  <2>1. PICK i \in OldAt(s) : Paired(i, j) /\ j \in NewAt(s)
    BY DEF KeptNew
  <2>2. i \in KeptOld(s)
    BY <2>1 DEF KeptOld
  <2>. QED BY <1>1, <1>3, <1>4, <2>1, <2>2, PairedOnce
<1>. QED BY <1>0, <1>2, <1>5, <1>6, SameSizeOfGroups

(* Each old symbol without a partner like it is taken by one change ... *)
LEMMA TakenLeft ==
  ASSUME Compared, NEW s \in DiffSymbol
  PROVE  IsFiniteSet(OldAt(s) \ KeptOld(s)) /\ Taken(s) = Cardinality(OldAt(s) \ KeptOld(s))
<1> DEFINE L == OldAt(s) \ KeptOld(s)
           change == [i \in L |-> CHOOSE c \in changes : c[2] = i]
<1>0. SnapshotsGiven /\ IsFiniteSet(L)
  <2>1. L \in SUBSET OldAt(s)
    OBVIOUS
  <2>. QED BY <2>1, StandsAt, FS_Subset DEF Compared
<1>1. \A i \in DOMAIN old : i # Null /\ old[i] \in DiffSymbol
  BY <1>0, Positions DEF SnapshotsGiven, Null
<1>2. \A j \in DOMAIN new : new[j] \in DiffSymbol
  BY <1>0, Positions DEF SnapshotsGiven
<1>3. ASSUME NEW i \in L PROVE \E c \in changes : c[2] = i
  <2>1. i \in DOMAIN old /\ old[i] = s
    BY DEF OldAt
  <2>2. CASE \E j \in DOMAIN new : Paired(i, j)
    <3>1. PICK j \in DOMAIN new : Paired(i, j)
      BY <2>2
    <3>2. new[j] # s
      BY <2>1, <3>1 DEF KeptOld, NewAt
    <3>3. old[i].props # new[j].props
      <4>1. old[i].identity = new[j].identity
        BY <3>1 DEF Paired
      <4>. QED BY <1>1, <1>2, <2>1, <3>2, <4>1, SymbolsEqual
    <3>4. <<"Modified", i, j>> \in changes
      BY <2>1, <3>1, <3>3, ChangeIs
    <3>. QED BY <3>4
  <2>3. CASE \A j \in DOMAIN new : ~Paired(i, j)
    <3>1. <<"Removed", i, Null>> \in changes
      BY <2>1, <2>3, ChangeIs
    <3>. QED BY <3>1
  <2>. QED BY <2>2, <2>3
<1>4. ASSUME NEW c \in Taking(s)
      PROVE  /\ c \in changes /\ c[2] \in DOMAIN old /\ old[c[2]] = s
             /\ \/ c[3] \in DOMAIN new /\ Paired(c[2], c[3]) /\ new[c[3]] # s /\ c = <<"Modified", c[2], c[3]>>
                \/ (\A j \in DOMAIN new : ~Paired(c[2], j)) /\ c = <<"Removed", c[2], Null>>
  <2>1. c \in changes /\ c[2] # Null /\ old[c[2]] = s
    BY DEF Taking
  <2>2. CASE \E i \in DOMAIN old, j \in DOMAIN new :
               Paired(i, j) /\ old[i].props # new[j].props /\ c = <<"Modified", i, j>>
    <3>1. PICK i \in DOMAIN old, j \in DOMAIN new :
               Paired(i, j) /\ old[i].props # new[j].props /\ c = <<"Modified", i, j>>
      BY <2>2
    <3>2. c[2] = i /\ c[3] = j
      BY <3>1
    <3>. QED BY <2>1, <3>1, <3>2
  <2>3. CASE \E i \in DOMAIN old : (\A j \in DOMAIN new : ~Paired(i, j)) /\ c = <<"Removed", i, Null>>
    <3>1. PICK i \in DOMAIN old : (\A j \in DOMAIN new : ~Paired(i, j)) /\ c = <<"Removed", i, Null>>
      BY <2>3
    <3>2. c[2] = i
      BY <3>1
    <3>. QED BY <2>1, <3>1, <3>2
  <2>4. CASE \E j \in DOMAIN new : (\A i \in DOMAIN old : ~Paired(i, j)) /\ c = <<"Added", Null, j>>
    BY <2>1, <2>4
  <2>. QED BY <2>1, <2>2, <2>3, <2>4, ChangeIs
<1>5. \A c, d \in Taking(s) : c[2] = d[2] => c = d
  <2> SUFFICES ASSUME NEW c \in Taking(s), NEW d \in Taking(s), c[2] = d[2] PROVE c = d
    OBVIOUS
  <2>0. c[2] = d[2]
    OBVIOUS
  <2>1. CASE c[3] \in DOMAIN new /\ Paired(c[2], c[3]) /\ c = <<"Modified", c[2], c[3]>>
    <3>1. d[3] \in DOMAIN new /\ Paired(d[2], d[3]) /\ d = <<"Modified", d[2], d[3]>>
      BY <1>4, <2>0, <2>1
    <3>2. c[3] = d[3]
      BY <1>0, <1>4, <2>0, <2>1, <3>1, PairedOnce
    <3>. QED BY <2>0, <2>1, <3>1, <3>2
  <2>2. CASE (\A j \in DOMAIN new : ~Paired(c[2], j)) /\ c = <<"Removed", c[2], Null>>
    <3>1. d = <<"Removed", d[2], Null>>
      BY <1>4, <2>0, <2>2
    <3>. QED BY <2>0, <2>2, <3>1
  <2>. QED BY <1>4, <2>1, <2>2
<1>6. ASSUME NEW c \in Taking(s) PROVE c[2] \in L
  <2>1. c[2] \in OldAt(s)
    BY <1>4 DEF OldAt
  <2>2. c[2] \notin KeptOld(s)
    <3> SUFFICES ASSUME NEW j \in NewAt(s), Paired(c[2], j) PROVE FALSE
      BY DEF KeptOld
    <3>0. Paired(c[2], j) /\ j \in DOMAIN new /\ new[j] = s
      BY DEF NewAt
    <3>1. c[3] \in DOMAIN new /\ Paired(c[2], c[3]) /\ new[c[3]] # s
      BY <1>4, <3>0
    <3>2. c[3] = j
      BY <1>0, <1>4, <3>0, <3>1, PairedOnce
    <3>. QED BY <3>0, <3>1, <3>2
  <2>. QED BY <2>1, <2>2
<1>7. ASSUME NEW i \in L PROVE change[i] \in Taking(s) /\ change[i][2] = i
  <2>1. i \in DOMAIN old /\ old[i] = s
    BY DEF OldAt
  <2>2. change[i] \in changes /\ change[i][2] = i
    BY <1>3
  <2>. QED BY <1>1, <2>1, <2>2 DEF Taking
<1>a. change = [i \in L |-> change[i]]
  OBVIOUS
<1> HIDE DEF L, change
<1>8. change \in [L -> Taking(s)]
  BY <1>7, <1>a
<1>9. \A i, k \in L : change[i] = change[k] => i = k
  BY <1>7
<1>10. \A c \in Taking(s) : \E i \in L : change[i] = c
  BY <1>5, <1>6, <1>7
<1>11. Cardinality(Taking(s)) = Cardinality(L)
  BY <1>0, <1>8, <1>9, <1>10, SameSizeOfGroups
<1>. QED BY <1>0, <1>11 DEF L, Taken, Taking

(* ... and each new one is brought by one. *)
LEMMA BroughtLeft ==
  ASSUME Compared, NEW s \in DiffSymbol
  PROVE  IsFiniteSet(NewAt(s) \ KeptNew(s)) /\ Brought(s) = Cardinality(NewAt(s) \ KeptNew(s))
<1> DEFINE L == NewAt(s) \ KeptNew(s)
           change == [j \in L |-> CHOOSE c \in changes : c[3] = j]
<1>0. SnapshotsGiven /\ IsFiniteSet(L)
  <2>1. L \in SUBSET NewAt(s)
    OBVIOUS
  <2>. QED BY <2>1, StandsAt, FS_Subset DEF Compared
<1>1. \A j \in DOMAIN new : j # Null /\ new[j] \in DiffSymbol
  BY <1>0, Positions DEF SnapshotsGiven, Null
<1>2. \A i \in DOMAIN old : old[i] \in DiffSymbol
  BY <1>0, Positions DEF SnapshotsGiven
<1>3. ASSUME NEW j \in L PROVE \E c \in changes : c[3] = j
  <2>1. j \in DOMAIN new /\ new[j] = s
    BY DEF NewAt
  <2>2. CASE \E i \in DOMAIN old : Paired(i, j)
    <3>1. PICK i \in DOMAIN old : Paired(i, j)
      BY <2>2
    <3>2. old[i] # s
      BY <2>1, <3>1 DEF KeptNew, OldAt
    <3>3. old[i].props # new[j].props
      <4>1. old[i].identity = new[j].identity
        BY <3>1 DEF Paired
      <4>. QED BY <1>1, <1>2, <2>1, <3>2, <4>1, SymbolsEqual
    <3>4. <<"Modified", i, j>> \in changes
      BY <2>1, <3>1, <3>3, ChangeIs
    <3>. QED BY <3>4
  <2>3. CASE \A i \in DOMAIN old : ~Paired(i, j)
    <3>1. <<"Added", Null, j>> \in changes
      BY <2>1, <2>3, ChangeIs
    <3>. QED BY <3>1
  <2>. QED BY <2>2, <2>3
<1>4. ASSUME NEW c \in Bringing(s)
      PROVE  /\ c \in changes /\ c[3] \in DOMAIN new /\ new[c[3]] = s
             /\ \/ c[2] \in DOMAIN old /\ Paired(c[2], c[3]) /\ old[c[2]] # s /\ c = <<"Modified", c[2], c[3]>>
                \/ (\A i \in DOMAIN old : ~Paired(i, c[3])) /\ c = <<"Added", Null, c[3]>>
  <2>1. c \in changes /\ c[3] # Null /\ new[c[3]] = s
    BY DEF Bringing
  <2>2. CASE \E i \in DOMAIN old, j \in DOMAIN new :
               Paired(i, j) /\ old[i].props # new[j].props /\ c = <<"Modified", i, j>>
    <3>1. PICK i \in DOMAIN old, j \in DOMAIN new :
               Paired(i, j) /\ old[i].props # new[j].props /\ c = <<"Modified", i, j>>
      BY <2>2
    <3>2. c[2] = i /\ c[3] = j
      BY <3>1
    <3>. QED BY <2>1, <3>1, <3>2
  <2>3. CASE \E i \in DOMAIN old : (\A j \in DOMAIN new : ~Paired(i, j)) /\ c = <<"Removed", i, Null>>
    BY <2>1, <2>3
  <2>4. CASE \E j \in DOMAIN new : (\A i \in DOMAIN old : ~Paired(i, j)) /\ c = <<"Added", Null, j>>
    <3>1. PICK j \in DOMAIN new : (\A i \in DOMAIN old : ~Paired(i, j)) /\ c = <<"Added", Null, j>>
      BY <2>4
    <3>2. c[3] = j
      BY <3>1
    <3>. QED BY <2>1, <3>1, <3>2
  <2>. QED BY <2>1, <2>2, <2>3, <2>4, ChangeIs
<1>5. \A c, d \in Bringing(s) : c[3] = d[3] => c = d
  <2> SUFFICES ASSUME NEW c \in Bringing(s), NEW d \in Bringing(s), c[3] = d[3] PROVE c = d
    OBVIOUS
  <2>0. c[3] = d[3]
    OBVIOUS
  <2>1. CASE c[2] \in DOMAIN old /\ Paired(c[2], c[3]) /\ c = <<"Modified", c[2], c[3]>>
    <3>1. d[2] \in DOMAIN old /\ Paired(d[2], d[3]) /\ d = <<"Modified", d[2], d[3]>>
      BY <1>4, <2>0, <2>1
    <3>2. c[2] = d[2]
      BY <1>0, <1>4, <2>0, <2>1, <3>1, PairedOnce
    <3>. QED BY <2>0, <2>1, <3>1, <3>2
  <2>2. CASE (\A i \in DOMAIN old : ~Paired(i, c[3])) /\ c = <<"Added", Null, c[3]>>
    <3>1. d = <<"Added", Null, d[3]>>
      BY <1>4, <2>0, <2>2
    <3>. QED BY <2>0, <2>2, <3>1
  <2>. QED BY <1>4, <2>1, <2>2
<1>6. ASSUME NEW c \in Bringing(s) PROVE c[3] \in L
  <2>1. c[3] \in NewAt(s)
    BY <1>4 DEF NewAt
  <2>2. c[3] \notin KeptNew(s)
    <3> SUFFICES ASSUME NEW i \in OldAt(s), Paired(i, c[3]) PROVE FALSE
      BY DEF KeptNew
    <3>0. Paired(i, c[3]) /\ i \in DOMAIN old /\ old[i] = s
      BY DEF OldAt
    <3>1. c[2] \in DOMAIN old /\ Paired(c[2], c[3]) /\ old[c[2]] # s
      BY <1>4, <3>0
    <3>2. c[2] = i
      BY <1>0, <1>4, <3>0, <3>1, PairedOnce
    <3>. QED BY <3>0, <3>1, <3>2
  <2>. QED BY <2>1, <2>2
<1>7. ASSUME NEW j \in L PROVE change[j] \in Bringing(s) /\ change[j][3] = j
  <2>1. j \in DOMAIN new /\ new[j] = s
    BY DEF NewAt
  <2>2. change[j] \in changes /\ change[j][3] = j
    BY <1>3
  <2>. QED BY <1>1, <2>1, <2>2 DEF Bringing
<1>a. change = [j \in L |-> change[j]]
  OBVIOUS
<1> HIDE DEF L, change
<1>8. change \in [L -> Bringing(s)]
  BY <1>7, <1>a
<1>9. \A j, k \in L : change[j] = change[k] => j = k
  BY <1>7
<1>10. \A c \in Bringing(s) : \E j \in L : change[j] = c
  BY <1>5, <1>6, <1>7
<1>11. Cardinality(Bringing(s)) = Cardinality(L)
  BY <1>0, <1>8, <1>9, <1>10, SameSizeOfGroups
<1>. QED BY <1>0, <1>11 DEF L, Brought, Bringing

LEMMA PartsAdd ==
  ASSUME NEW S, NEW T, IsFiniteSet(S), T \subseteq S
  PROVE  /\ Cardinality(S) = Cardinality(T) + Cardinality(S \ T)
         /\ Cardinality(T) \in Nat /\ Cardinality(S \ T) \in Nat
<1>1. IsFiniteSet(T) /\ IsFiniteSet(S \ T)
  BY FS_Subset
<1>2. Cardinality(T) \in Nat /\ Cardinality(S \ T) \in Nat
  BY <1>1, FS_CardinalityType
<1>3. S = T \cup (S \ T) /\ T \cap (S \ T) = {}
  OBVIOUS
<1>4. Cardinality(T \cup (S \ T)) = Cardinality(T) + Cardinality(S \ T) - Cardinality(T \cap (S \ T))
  BY <1>1, FS_Union
<1>. QED BY <1>2, <1>3, <1>4, FS_EmptySet

LEMMA Balanced ==
  ASSUME Compared, NEW s \in DiffSymbol
  PROVE  Alike(old, s) + Brought(s) = Alike(new, s) + Taken(s)
<1>1. KeptOld(s) \subseteq OldAt(s) /\ KeptNew(s) \subseteq NewAt(s)
  BY DEF KeptOld, KeptNew
<1>2. /\ IsFiniteSet(OldAt(s)) /\ IsFiniteSet(NewAt(s))
      /\ Alike(old, s) = Cardinality(OldAt(s)) /\ Alike(new, s) = Cardinality(NewAt(s))
      /\ Cardinality(KeptNew(s)) = Cardinality(KeptOld(s))
  BY StandsAt, KeptAlike DEF Compared
<1>3. /\ Cardinality(OldAt(s)) = Cardinality(KeptOld(s)) + Cardinality(OldAt(s) \ KeptOld(s))
      /\ Cardinality(KeptOld(s)) \in Nat /\ Cardinality(OldAt(s) \ KeptOld(s)) \in Nat
  BY <1>1, <1>2, PartsAdd
<1>4. /\ Cardinality(NewAt(s)) = Cardinality(KeptNew(s)) + Cardinality(NewAt(s) \ KeptNew(s))
      /\ Cardinality(NewAt(s) \ KeptNew(s)) \in Nat
  BY <1>1, <1>2, PartsAdd
<1>5. Taken(s) = Cardinality(OldAt(s) \ KeptOld(s)) /\ Brought(s) = Cardinality(NewAt(s) \ KeptNew(s))
  BY TakenLeft, BroughtLeft
<1>. QED BY <1>2, <1>3, <1>4, <1>5

LEMMA PatchWhenCompared == Compared => ChangesArePatch
<1> SUFFICES ASSUME Compared PROVE ChangesArePatch
  OBVIOUS
<1>1. \A s \in [identity : Identities, props : Properties] : Alike(old, s) + Brought(s) = Alike(new, s) + Taken(s)
  BY Balanced DEF DiffSymbol
<1>2. \A c, d \in changes : c[1] = "Removed" /\ d[1] = "Added" => old[c[2]].identity # new[d[3]].identity
  BY OneSidedLeftovers
<1>3. (\A id \in Identities : InGroup(old, id) = InGroup(new, id)) => changes = {}
  BY SameGroupsNoChange
<1>. QED BY <1>1, <1>2, <1>3 DEF ChangesArePatch

(* Compare is called once. *)
DiffInv == SnapshotsGiven /\ (changes = NotCompared \/ Compared)

(* The changes a comparison reports turn the old symbols into the new ones *)
(* for any two workspaces, groups of overloads included: what the two have *)
(* of a symbol differs by what is taken and brought, an identity is not    *)
(* both removed and added, and equal groups report nothing.                *)
THEOREM ChangesAreAPatch == DiffSpec => []ChangesArePatch
<1>1. DiffInit => DiffInv
  BY SnapshotsOK DEF DiffInit, DiffInv, SnapshotsGiven, DiffSymbol
<1>2. DiffInv /\ [Compare]_diffVars => DiffInv'
  <2> SUFFICES ASSUME DiffInv, [Compare]_diffVars PROVE DiffInv'
    OBVIOUS
  <2>1. CASE Compare
    <3>1. old' = old /\ new' = new /\ changes' = Modified \cup Removed \cup Added
      BY <2>1 DEF Compare
    <3>2. Modified' = Modified /\ Removed' = Removed /\ Added' = Added
      BY <3>1 DEF Modified, Removed, Added, Paired, Place, Group
    <3>. QED BY <3>1, <3>2 DEF DiffInv, Compared, SnapshotsGiven
  <2>2. CASE UNCHANGED diffVars
    <3>1. old' = old /\ new' = new /\ changes' = changes
      BY <2>2 DEF diffVars
    <3>2. Modified' = Modified /\ Removed' = Removed /\ Added' = Added
      BY <3>1 DEF Modified, Removed, Added, Paired, Place, Group
    <3>. QED BY <3>1, <3>2 DEF DiffInv, Compared, SnapshotsGiven, NotCompared
  <2>. QED BY <2>1, <2>2
<1>3. DiffInv => ChangesArePatch
  BY PatchWhenCompared DEF DiffInv, ChangesArePatch
<1>. QED BY <1>1, <1>2, <1>3, PTL DEF DiffSpec
=============================================================================
