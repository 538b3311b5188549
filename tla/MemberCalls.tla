----------------------------- MODULE MemberCalls -----------------------------
(***************************************************************************)
(* The callee of receiver.member(...) (src/ast-member-resolution.cpp):     *)
(* look for a declaration of the receiver in the enclosing function, else  *)
(* for a field of the function's class; take the type it is written with;  *)
(* find the class that type means from here, and the member in it.         *)
(*                                                                         *)
(* Of the function the model keeps what the search can tell apart: its     *)
(* declarations in the order of the text, and of each the scope it is in - *)
(* counted outwards from the call, 1 being the call's own and None one     *)
(* that is not around the call -, the identifiers that occur in it, the    *)
(* one it declares, and the type.  Names are sequences of parts.           *)
(***************************************************************************)
EXTENDS Naturals, Sequences, FiniteSets

CONSTANTS
  Programs,     \* the calls that are resolved, each with its function and workspace
  Depth         \* bound: the scopes around a call

Nobody == 0     \* no symbol, no scope
Far == Depth + 1
NoName == <<>>
QualifiedNames == Seq(STRING)

Declarations ==
  [scope : 0..Depth, declares : STRING, mentions : SUBSET STRING, type : QualifiedNames]
(* members: of each function a class declares, the identifiers in its      *)
(* declaration, those of a body written there included; type: what a field *)
(* is written with; loaded: whether the symbol's file has a translation    *)
(* unit.                                                                   *)
Declared ==
  [fqn : QualifiedNames, kind : {"type", "field", "method", "function"}, loaded : BOOLEAN,
   body : BOOLEAN, members : Seq(SUBSET STRING), type : QualifiedNames]
MemberCallSet ==
  [decls : Seq(Declarations), before : Nat, caller : QualifiedNames,
   receiver : STRING, member : STRING, symbols : Seq(Declared)]

(* A scope is a stretch of the text: of two scopes around the call the     *)
(* inner one begins later, and once in it one does not leave it.           *)
Nested(p) ==
  \A i, j \in DOMAIN p.decls : i < j /\ j <= p.before /\ p.decls[i].scope # Nobody =>
    p.decls[j].scope <= p.decls[i].scope

ASSUME MemberConstantsOK ==
  /\ Depth \in Nat
  /\ Programs \subseteq MemberCallSet
  /\ \A p \in Programs : Nested(p) /\ p.before <= Len(p.decls)

VARIABLES
  program,   \* the call: before is the number of declarations that begin before it
  stage, at, \* of the search: the declaration to look at next
  best,      \* the scope of the nearest one so far
  written,   \* its type
  target     \* the symbol that is called

memberVars == <<program, stage, at, best, written, target>>

MemberInit ==
  /\ program \in Programs
  /\ stage = "asked"
  /\ at = Len(program.decls)
  /\ best = Far /\ written = NoName
  /\ target = Nobody

(* Anything but a plain name, or a call outside of every function that has *)
(* a symbol, is left unresolved.                                           *)
Begin ==
  /\ stage = "asked"
  /\ stage' = IF program.receiver = "" \/ program.caller = NoName THEN "done" ELSE "search"
  /\ UNCHANGED <<program, at, best, written, target>>

-----------------------------------------------------------------------------
(* declared_local_type: its stack visits the last child first, so the      *)
(* declarations come up in reverse.                                        *)

(* Fault: scopes beside the call are not told from those around it. *)
CountsAnywhere(d) == program.receiver \in d.mentions

(* A declaration counts when the receiver's name occurs in it, also in its *)
(* initializer.                                                            *)
Counts(d) == program.receiver \in d.mentions /\ d.scope # Nobody

(* Another type in the same scope ends the search without a type. *)
Nearer(d) == Counts(d) /\ d.scope < best
Clashes(d) == Counts(d) /\ d.scope = best /\ d.type # written

Look ==
  /\ stage = "search" /\ at \in DOMAIN program.decls
  /\ LET d == program.decls[at]
         seen == at <= program.before
     IN \/ /\ seen /\ Nearer(d)
           /\ best' = d.scope /\ written' = d.type /\ UNCHANGED stage
        \/ /\ seen /\ Clashes(d)
           /\ written' = NoName /\ stage' = "typed" /\ UNCHANGED best
        \/ /\ ~seen \/ ~(Nearer(d) \/ Clashes(d))
           /\ UNCHANGED <<best, written, stage>>
  /\ at' = at - 1
  /\ UNCHANGED <<program, target>>

-----------------------------------------------------------------------------
(* resolve_receiver_field. *)

Owner == SubSeq(program.caller, 1, Len(program.caller) - 1)
Having(kinds, name) ==
  {s \in DOMAIN program.symbols :
     program.symbols[s].kind \in kinds /\ program.symbols[s].fqn = name}
The(S) == IF Cardinality(S) = 1 THEN CHOOSE s \in S : TRUE ELSE Nobody

(* The type of the one field of the caller's class with this name. *)
FieldType ==
  LET f == The(Having({"field"}, Append(Owner, program.receiver)))
  IN IF Owner = NoName \/ f = Nobody THEN NoName
     ELSE IF program.symbols[f].loaded THEN program.symbols[f].type ELSE NoName

(* The search has come to its end. *)
LookForField ==
  /\ stage = "search" /\ at = 0
  /\ written' = IF best = Far THEN FieldType ELSE written
  /\ stage' = "typed"
  /\ UNCHANGED <<program, at, best, target>>

-----------------------------------------------------------------------------
(* resolve_receiver_type and the member. *)

(* The names a type may have, seen from the caller: qualified by the       *)
(* longest prefix that gives the name of a type; qualified already, its    *)
(* own.                                                                    *)
PrefixLengths(t) == IF Len(t) > 1 THEN {0} ELSE 0..Len(Owner)
InPrefix(n, t) == SubSeq(Owner, 1, n) \o t
TypesMeant(t) ==
  UNION {Having({"type"}, InPrefix(n, t)) : n \in
    {m \in PrefixLengths(t) : \A k \in PrefixLengths(t) :
       m < k => Having({"type"}, InPrefix(k, t)) = {}}}

(* One symbol, or among declarations one definition. *)
ClassOf(t) ==
  LET meant == TypesMeant(t) IN
  IF Cardinality(meant) = 1 THEN The(meant)
  ELSE The({s \in meant : program.symbols[s].loaded /\ program.symbols[s].body})

(* declared_member_count takes a declaration that mentions the name for    *)
(* one of it.                                                              *)
Occurrences(s, x) == Cardinality({n \in DOMAIN s : x \in s[n]})

(* The member is counted once in the class; a definition outside of it,    *)
(* which has kind function, gives way.                                     *)
MemberOf(t) ==
  LET c == ClassOf(t)
      name == Append(program.symbols[c].fqn, program.member)
      methods == Having({"method"}, name)
  IN IF t = NoName \/ c = Nobody THEN Nobody
     ELSE IF ~program.symbols[c].loaded \/ Occurrences(program.symbols[c].members, program.member) # 1
     THEN Nobody
     ELSE IF methods # {} THEN The(methods) ELSE The(Having({"function"}, name))

Resolve ==
  /\ stage = "typed"
  /\ target' = MemberOf(written)
  /\ stage' = "done"
  /\ UNCHANGED <<program, at, best, written>>

MemberNext == Begin \/ Look \/ LookForField \/ Resolve

MemberSpec == MemberInit /\ [][MemberNext]_memberVars

-----------------------------------------------------------------------------
(* Properties. *)

(* What a reader of the function sees: of the declarations D before the    *)
(* call, in the scopes around it, those of the nearest scope - and if they *)
(* agree on a type, the receiver has it; without any, the field counts.    *)
TypeBy(D) ==
  LET around == {i \in D : i <= program.before /\ program.decls[i].scope # Nobody}
      nearest == {i \in around : \A j \in around :
                    program.decls[i].scope <= program.decls[j].scope}
      types == {program.decls[i].type : i \in nearest}
  IN IF around = {} THEN FieldType
     ELSE IF \E t \in types : types = {t} THEN CHOOSE t \in types : TRUE ELSE NoName

CalleeBy(D) ==
  IF program.receiver = "" \/ program.caller = NoName THEN Nobody ELSE MemberOf(TypeBy(D))

(* "Nearest lexical scope wins, so a local correctly shadows a same-named  *)
(* field and a declaration in a sibling block is ignored"                  *)
(* (phase8b-report.md): the answer is that of the nearest scope in which   *)
(* the name occurs in a declaration, whatever is declared farther out,     *)
(* beside or after the call, and it is none when that scope has two types  *)
(* for it.                                                                 *)
Mentioning == {i \in DOMAIN program.decls : program.receiver \in program.decls[i].mentions}
NearestScopeDecides == stage = "done" => target = CalleeBy(Mentioning)

(* "Locals and parameters must be visible at the call and must have a      *)
(* direct type identifier" (the same report): what is resolved is resolved *)
(* by a declaration of the receiver, not by one that only mentions it.     *)
Declaring == {i \in DOMAIN program.decls : program.receiver = program.decls[i].declares}
ResolvedAsDeclared == stage = "done" /\ target # Nobody => target = CalleeBy(Declaring)
=============================================================================
