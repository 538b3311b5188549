---------------------------- MODULE SymbolQueries ----------------------------
(***************************************************************************)
(* The commands that ask a loaded workspace about one symbol:              *)
(* resolve_symbol_query of cli-semantic.cpp picks the symbol a name stands *)
(* for, Callers (ast-callers.cpp) and Callees (ast-callees.cpp) list the   *)
(* call sites of it and in it, FindReferences (ast-references.cpp) the     *)
(* identifiers that mean it - here those that are called.                  *)
(*                                                                         *)
(* A symbol is its index in Workspace::symbols, a name the sequence of its *)
(* parts between "::".  The extractors of C, C++, Rust, Ruby and Bash join *)
(* with that; those of the other languages join with ".", so that a        *)
(* qualified name of theirs is one part.  Of a call site the model keeps   *)
(* the functions and lambdas around it, from the inside out - a lambda,    *)
(* which has no symbol, is None - and the symbol the resolver makes of its *)
(* callee, None if there is none or more than one.  The resolver is        *)
(* Scopes' subject.                                                        *)
(***************************************************************************)
EXTENDS Naturals, Sequences, FiniteSets

CONSTANTS
  SymbolLists,  \* what Workspace::symbols may be
  SiteSets(_),  \* the sets of call sites a workspace with these symbols may have
  Questions     \* the names on the command line

None == 0

SymbolKinds == {"function", "method", "other"}  \* method: constructors and destructors too

(* name: as the extractor found it, which for a definition outside of its  *)
(* class is qualified; opens: the symbol's node is a function with a scope *)
(* of its own; body: it is a FunctionDefinition, the one of C, C++,      *)
(* Python and Bash.                                                        *)
Names == Seq(STRING) \ {<<>>}
SymbolSet ==
  [name : Names, fqn : Names, kind : SymbolKinds, file : Nat, line : Nat,
   body : BOOLEAN, opens : BOOLEAN]

IsTail(q, f) == Len(q) < Len(f) /\ SubSeq(f, Len(f) - Len(q) + 1, Len(f)) = q

(* The qualified name puts the enclosing ones in front of the name; where  *)
(* "." joins them both are one part.  No method has a qualified name for   *)
(* its own.                                                                *)
IsSymbol(s) ==
  /\ \/ s.name = s.fqn
     \/ IsTail(s.name, s.fqn)
     \/ Len(s.name) = 1 /\ Len(s.fqn) = 1
  /\ s.kind = "method" => Len(s.name) = 1
  /\ s.body => s.opens

IsSite(c, ss) ==
  /\ c.inside \in Seq(Nat)
  /\ c.line \in Nat
  /\ c.callee \in {None} \cup DOMAIN ss
  /\ \A i \in DOMAIN c.inside : c.inside[i] # None =>
       c.inside[i] \in DOMAIN ss /\ ss[c.inside[i]].opens /\ ss[c.inside[i]].file = c.file

ASSUME QueryConstantsOK ==
  /\ SymbolLists \subseteq Seq(SymbolSet)
  /\ \A ss \in SymbolLists : \A i \in DOMAIN ss : IsSymbol(ss[i])
  /\ \A ss \in SymbolLists : \A S \in SiteSets(ss) : \A c \in S : IsSite(c, ss)
  /\ Questions \subseteq Names

VARIABLES
  catalog,   \* Workspace::symbols
  sites,     \* the call sites of all translation units
  question,  \* what was asked, <<>> before
  answer     \* "none", "notFound", "ambiguous" or "resolved"

queryVars == <<catalog, sites, question, answer>>

Symbol(s) == catalog[s]
Symbols == DOMAIN catalog

-----------------------------------------------------------------------------
(* resolve_symbol_query. *)

(* Fault: the qualified name is looked for among the names. *)
ExactByName(q) == {s \in Symbols : Symbol(s).name = q}

Exact(q) == {s \in Symbols : Symbol(s).fqn = q}

(* A question without :: is a name; one with it is a qualified name or, if *)
(* no symbol has it, the end of one.                                       *)
Raw(q) ==
  IF Len(q) = 1 THEN {s \in Symbols : Symbol(s).name = q}
  ELSE IF Exact(q) # {} THEN Exact(q)
  ELSE {s \in Symbols : IsTail(q, Symbol(s).fqn)}

(* A definition outside its class has kind function: it gives way to the   *)
(* member of the same name.                                                *)
Misclassified(S, s) ==
  /\ Symbol(s).kind = "function"
  /\ \E m \in S : Symbol(m).kind = "method" /\ Symbol(m).fqn = Symbol(s).fqn
WithoutDefinitions(S) == {s \in S : ~Misclassified(S, s)}

(* Fault: the definition need not have the declaration's name. *)
BareAnyName(S, s) ==
  /\ Symbol(s).kind = "function" /\ ~Symbol(s).body
  /\ \E d \in S : Symbol(d).kind = "function" /\ Symbol(d).body

(* A declaration gives way to a definition. *)
Bare(S, s) ==
  /\ Symbol(s).kind = "function" /\ ~Symbol(s).body
  /\ \E d \in S :
       Symbol(d).kind = "function" /\ Symbol(d).body /\ Symbol(d).fqn = Symbol(s).fqn
WithoutDeclarations(S) == {s \in S : ~Bare(S, s)}

Candidates(q) == WithoutDeclarations(WithoutDefinitions(Raw(q)))

-----------------------------------------------------------------------------
(* Callers, Callees and FindReferences. *)

IsCallable(s) == Symbol(s).kind \in {"function", "method"}

SameDeclaration(s, t) ==
  /\ Symbol(s).fqn = Symbol(t).fqn /\ Symbol(s).kind = Symbol(t).kind
  /\ Symbol(s).file = Symbol(t).file /\ Symbol(s).line = Symbol(t).line

FirstOf(S) == CHOOSE s \in S : \A t \in S : s <= t
FindInWorkspace(s) == FirstOf({t \in Symbols : SameDeclaration(s, t)})

(* find_enclosing_caller stops at the innermost function, also when that   *)
(* is a lambda.                                                            *)
CallerOf(c) == IF c.inside = <<>> THEN None ELSE c.inside[1]

CallersOf(t) ==
  {<<c, CallerOf(c)>> : c \in {d \in sites :
     d.callee # None /\ SameDeclaration(d.callee, t)}}

(* Fault: the definition's kind is not looked at. *)
BodyOfAny(s) ==
  LET defs == {d \in Symbols : Symbol(d).body}
  IN IF Symbol(s).body \/ defs = {} THEN s ELSE FirstOf(defs)

(* A declaration's calls are those of the first definition of its name. *)
BodyOf(s) ==
  LET defs == {d \in Symbols :
                 Symbol(d).body /\ Symbol(d).kind = "function" /\ Symbol(d).fqn = Symbol(s).fqn}
  IN IF Symbol(s).body \/ defs = {} THEN s ELSE FirstOf(defs)

Within(c, s) == \E i \in DOMAIN c.inside : c.inside[i] = s

CalleesOf(s) ==
  {<<c, FindInWorkspace(c.callee)>> : c \in {d \in sites :
     d.callee # None /\ Within(d, BodyOf(s))}}

(* The declaration is left out by its line. *)
OnDeclaration(c, t) == c.file = Symbol(t).file /\ c.line = Symbol(t).line
ReferencesOf(t, includeDeclaration) ==
  {c \in sites : /\ c.callee # None /\ SameDeclaration(c.callee, t)
                 /\ includeDeclaration \/ ~OnDeclaration(c, t)}

-----------------------------------------------------------------------------

QueryInit ==
  /\ catalog \in SymbolLists
  /\ sites \in SiteSets(catalog)
  /\ question = <<>>
  /\ answer = "none"

(* with_resolved_symbol. *)
Ask ==
  /\ answer = "none"
  /\ question' \in Questions
  /\ answer' = CASE Candidates(question') = {} -> "notFound"
                 [] Cardinality(Candidates(question')) = 1 -> "resolved"
                 [] OTHER -> "ambiguous"
  /\ UNCHANGED <<catalog, sites>>

QueryNext == Ask

QuerySpec == QueryInit /\ [][QueryNext]_queryVars

-----------------------------------------------------------------------------
(* Properties. *)

Asked(q) == IF question = <<>> THEN {} ELSE q

(* The two steps that avoid a false ambiguity - one drops definitions, the *)
(* other declarations, and the second works on what the first leaves - and *)
(* the search for a body in another file belong together: whichever symbol *)
(* of a function is kept, "callees" lists from it what it would have       *)
(* listed from the one that was dropped.  Of several bodies of one name    *)
(* (overloads) only one is looked at, and a function of a language without *)
(* FunctionDefinition nodes is out of their sight.                         *)
OneBody(f) ==
  /\ \A d \in Exact(f) : Symbol(d).opens => Symbol(d).body
  /\ \A d, e \in Exact(f) : Symbol(d).body /\ Symbol(e).body => d = e
NoBodyLost ==
  \A s \in Asked(Raw(question)) : IsCallable(s) =>
    \E u \in Candidates(question) :
      /\ Symbol(u).fqn = Symbol(s).fqn
      /\ OneBody(Symbol(s).fqn) => CalleesOf(s) \subseteq CalleesOf(u)

(* "supply a fully-qualified name to disambiguate" (help.cpp:460): of each *)
(* function in the answer - the one that was found, or those an ambiguous  *)
(* question lists - the qualified name leads to its callees, though it may *)
(* select another symbol of the function.  Only where "::" joins the parts *)
(* of the name: the others are not found by their qualified names.         *)
Joined(s) == Symbol(s).name = Symbol(s).fqn \/ IsTail(Symbol(s).name, Symbol(s).fqn)
LedToBy(s, q) ==
  \E u \in Candidates(q) : Symbol(u).fqn = Symbol(s).fqn /\ CalleesOf(u) = CalleesOf(s)
JoinedNameSelects ==
  \A s \in Asked(Candidates(question)) :
    IsCallable(s) /\ Joined(s) => LedToBy(s, Symbol(s).fqn)

(* Callers and callees tell the same calls: what is called in a function   *)
(* names it among its callers, unless a lambda or an inner function is in  *)
(* between, every caller that is named has the call among its callees -    *)
(* unless another function's definition passes for its body, as for a      *)
(* function of Rust with the name of one of C -, and a call is a reference *)
(* unless it is on the line of the declaration.                            *)
CallersAndCalleesAgree ==
  \A s \in Symbols : IsCallable(s) =>
    /\ \A e \in CalleesOf(s) :
         /\ <<e[1], CallerOf(e[1])>> \in CallersOf(e[2])
         /\ \/ CallerOf(e[1]) # None /\ Symbol(CallerOf(e[1])).fqn = Symbol(s).fqn
            \/ \E i \in DOMAIN e[1].inside \ {1} :
                 e[1].inside[i] # None /\ Symbol(e[1].inside[i]).fqn = Symbol(s).fqn
    /\ \A e \in CallersOf(s) : e[2] # None /\ BodyOf(e[2]) = e[2] =>
         \E d \in CalleesOf(e[2]) : d[1] = e[1] /\ SameDeclaration(d[2], s)
    /\ {e[1] : e \in CallersOf(s)} = ReferencesOf(s, TRUE)
    /\ \A c \in ReferencesOf(s, TRUE) \ ReferencesOf(s, FALSE) : OnDeclaration(c, s)
=============================================================================
