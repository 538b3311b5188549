------------------------------ MODULE MCCommands ------------------------------
(* The commands for TLC. *)
EXTENDS Commands, TLC

-----------------------------------------------------------------------------
(* Filling a workspace. *)

AllFates == {"parsed", "unparsed", "throws"}

(* Two symbols of file 1 share their position; file 2's are extracted in   *)
(* the reverse of their order.                                             *)
Positions == [f \in Files |-> CASE f = 1 -> <<1, 1>> [] f = 2 -> <<2, 1>> [] OTHER -> <<>>]

(* In order, out of order, repeated, single and empty. *)
SomeLists == {<<>>, <<2>>, <<3, 1, 2>>, <<2, 3, 2>>, <<1, 1>>}

-----------------------------------------------------------------------------
(* Asking about a symbol: three symbols of two qualified names, one the    *)
(* tail of the other, in one file or two, on lines of their own or on one, *)
(* and a call on line 1 of the first file, inside of any of them.          *)

SomeNames == {<<"A", "f">>, <<"N", "A", "f">>}
Dotted == <<"A.f">>
SomeQuestions == SomeNames \cup {<<"f">>, <<"g">>, Dotted}

Sort(name, fqn, kind, opens, body) ==
  [name |-> name, fqn |-> fqn, kind |-> kind, opens |-> opens, body |-> body]

(* Declared and defined, as a member and outside of every class or outside *)
(* of its own.                                                             *)
Sorts ==
  {Sort(<<"f">>, F, k, b, b) : F \in SomeNames, k \in {"function", "method"}, b \in BOOLEAN}
    \cup {Sort(F, F, "function", TRUE, TRUE) : F \in SomeNames}
    \cup {Sort(<<"f">>, <<"A", "f">>, "other", FALSE, FALSE)}

(* Defined outside of its class in its namespace; of a language without    *)
(* FunctionDefinition nodes; and of one that joins with ".".               *)
MoreSorts ==
  Sorts
    \cup {Sort(<<"A", "f">>, <<"N", "A", "f">>, "function", TRUE, TRUE)}
    \cup {Sort(<<"f">>, F, k, TRUE, FALSE) : F \in {<<"A", "f">>, Dotted}, k \in {"function", "method"}}

Catalog(inFirst, oneLine, f) ==
  [i \in DOMAIN f |->
     f[i] @@ [file |-> IF i <= inFirst THEN 1 ELSE 2, line |-> IF oneLine THEN 1 ELSE i]]
SomeSymbols ==
  {Catalog(k, oneLine, f) : k \in {1, 3}, oneLine \in BOOLEAN, f \in [1..3 -> Sorts]}
    \cup {Catalog(k, oneLine, f) : k \in {1, 2}, oneLine \in BOOLEAN, f \in [1..2 -> MoreSorts]}

(* At file scope, in a lambda, in a function, in a lambda in a function,   *)
(* and in a function in a function.                                        *)
Bodies(ss, file) == {i \in DOMAIN ss : ss[i].opens /\ ss[i].file = file}
Chains(ss, file) ==
  {<<>>, <<None>>} \cup {<<s>> : s \in Bodies(ss, file)}
    \cup {<<s, t>> : s \in Bodies(ss, file) \cup {None}, t \in Bodies(ss, file)}
OneCall(ss) ==
  {{[file |-> 1, line |-> 1, inside |-> c, callee |-> s]} : c \in Chains(ss, 1), s \in DOMAIN ss}

-----------------------------------------------------------------------------
(* Resolving a.m() in N::C::f, in a function outside of every class, and   *)
(* outside of every function.                                              *)

Type(q, loaded, body, ms) ==
  [fqn |-> q, kind |-> "type", loaded |-> loaded, body |-> body, members |-> ms, type |-> NoName]
Class(q) == Type(q, TRUE, TRUE, <<{"m"}>>)
Callable(q, kind) ==
  [fqn |-> q, kind |-> kind, loaded |-> TRUE, body |-> FALSE, members |-> <<>>, type |-> NoName]
Field(q, t) == [Callable(q, "field") EXCEPT !.type = t]

NT == <<"N", "T">>
TypeT == <<Class(NT), Callable(NT \o <<"m">>, "method")>>
TypeU == <<Class(<<"U">>), Callable(<<"U", "m">>, "method"), Field(<<"N", "C", "a">>, <<"U">>)>>

(* T in the caller's namespace; also outside of it; declared twice and     *)
(* defined once, or never; with its member defined outside, overloaded, or *)
(* used by another one's body; not loaded; and a namespace.                *)
SomeClasses ==
  { TypeT \o TypeU,
    TypeT \o TypeU \o <<Class(<<"T">>), Callable(<<"T", "m">>, "method")>>,
    <<Type(NT, TRUE, FALSE, <<>>)>> \o TypeT \o TypeU,
    <<Type(NT, TRUE, FALSE, <<>>), Type(NT, TRUE, FALSE, <<>>)>> \o TypeU,
    TypeT \o TypeU \o <<Callable(NT \o <<"m">>, "function")>>,
    TypeU \o <<Type(NT, TRUE, TRUE, <<{"m"}, {"m"}>>), Callable(NT \o <<"m">>, "method")>>,
    TypeU \o <<Type(NT, FALSE, TRUE, <<{"m"}>>), Callable(NT \o <<"m">>, "method")>>,
    TypeU \o <<Type(NT, TRUE, TRUE, <<{"m"}, {"k", "m"}>>), Callable(NT \o <<"m">>, "method")>>,
    TypeU \o <<Callable(NT \o <<"m">>, "function"), Field(<<"N", "C", "a">>, <<"U">>)>> }

Declaration(scope, declares, mentions, t) ==
  [scope |-> scope, declares |-> declares, mentions |-> mentions, type |-> t]
SomeDeclarations ==
  {Declaration(s, d, {"a", d}, t) : s \in 0..Depth, d \in {"a", "b"}, t \in {<<"T">>, <<"U">>, NoName}}
    \cup {Declaration(1, "b", {"b"}, <<"T">>), Declaration(1, "a", {"a"}, NT)}

Call(ds, n, caller, receiver, ss) ==
  [decls |-> ds, before |-> n, caller |-> caller, receiver |-> receiver, member |-> "m",
   symbols |-> ss]
Functions(n) == UNION {[1..k -> SomeDeclarations] : k \in 0..n}
SomeCalls ==
  {p \in {Call(ds, n, <<"N", "C", "f">>, "a", ss) :
            ds \in Functions(2), n \in 0..2, ss \in SomeClasses}
      \cup {Call(ds, 3, <<"f">>, "a", TypeT \o TypeU) : ds \in [1..3 -> SomeDeclarations]}
      \cup {Call(ds, 0, c, r, TypeT \o TypeU) :
               ds \in Functions(1), c \in {<<"f">>, NoName}, r \in {"a", ""}} :
     p.before <= Len(p.decls) /\ Nested(p)}

-----------------------------------------------------------------------------
(* Comparing workspaces of up to three symbols. *)

CONSTANTS i1, i2, p1, p2

SomeSnapshots ==
  UNION {[1..n -> [identity : Identities, props : Properties]] : n \in 0..3}

-----------------------------------------------------------------------------
(* Setup. *)

CONSTANTS e1, e2,  \* what setup writes for either executable
          c1, c2,  \* the user's, spelled plainly
          own,     \* the user's, that contains "ast-tool" and "cache warm"
          esc,     \* the user's, with an escape
          lit,     \* the user's, in single quotes
          left     \* what is left of esc

SomeEscapes == [a \in Agents |-> {esc}]
JsonEscapes == [a \in Agents |-> IF a = "claude" THEN {esc} ELSE {}]

Hook(id, cmd) == [id |-> id, cmd |-> cmd]
User  == Hook(FALSE, c1)
User2 == Hook(FALSE, c2)
UserEsc == Hook(FALSE, esc)
UserLit == Hook(FALSE, lit)

(* Empty, the user's hooks only, ours in front, behind and between,        *)
(* recognised by its id, by its command or by both, and twice; with an     *)
(* escape, and one of the user's that is taken for ours.                   *)
SomeJson ==
  { <<>>, <<User>>, <<Hook(TRUE, e1), User>>, <<User, Hook(FALSE, e2), User2>>,
    <<User, Hook(TRUE, c2)>>, <<Hook(FALSE, e1), User, Hook(TRUE, e2)>>,
    <<UserEsc, User>>, <<Hook(FALSE, own), User, Hook(TRUE, e1)>> }

Table   == Line("hooks", <<>>)
Section == Line("section", <<>>)
Note    == Line("note", <<>>)
Item(h) == Line("item", <<h>>)
Opening == Line("open", <<>>)
Closing == Line("close", <<>>)

(* No table, another table with a session_start, an empty table, a string, *)
(* an array on one line and on several with a comment in it, a value       *)
(* between two tables, and an array that is not closed; values in single   *)
(* quotes, alone and among others, escapes, and no value at all.           *)
SomeToml ==
  { <<Note>>,
    <<Section, Line("string", <<User>>)>>,
    <<Table, Note, Section>>,
    <<Table, Line("string", <<User>>)>>,
    <<Note, Table, Line("array", <<User, Hook(FALSE, e1), User2>>), Section, Note>>,
    <<Table, Opening, Item(Hook(FALSE, e2)), Note, Item(User), Closing, Section>>,
    <<Table, Opening, Item(User), Section, Table>>,
    <<Table, Line("string", <<UserLit>>), Note>>,
    <<Section, Table, Line("string", <<>>)>>,
    <<Table, Line("array", <<UserLit, User, UserEsc>>)>>,
    <<Table, Opening, Item(UserLit), Item(Hook(FALSE, own)), Item(UserEsc), Item(User), Closing>> }

ASSUME SomeTomlIsPlain == \A ls \in SomeToml : Plain(ls)
=============================================================================
