---------------------------- MODULE SemanticDiff ----------------------------
(***************************************************************************)
(* SemanticDiff::compare (src/ast-semantic-diff.cpp): what changed between *)
(* the symbols of two workspaces.  A symbol is its identity - qualified    *)
(* name and kind - and the properties that are compared; symbols of one    *)
(* identity, overloads for instance, form a group in workspace order.      *)
(* A DiffEntry's pointers are positions, Null when there is none; the      *)
(* entries come in no particular order.                                    *)
(***************************************************************************)
EXTENDS Naturals, Sequences, FiniteSets

CONSTANTS Identities, Properties, Snapshots

Null == 0

ASSUME SnapshotsOK == Snapshots \subseteq Seq([identity : Identities, props : Properties])

VARIABLES old, new, changes

diffVars == <<old, new, changes>>

NotCompared == {<<"NotCompared", Null, Null>>}

DiffInit == old \in Snapshots /\ new \in Snapshots /\ changes = NotCompared

(* build_index: the place of a symbol in its group. *)
Group(ws, id) == {i \in DOMAIN ws : ws[i].identity = id}
Place(ws, i) == Cardinality({j \in Group(ws, ws[i].identity) : j <= i})

(* Fault: only the last symbol of an identity is kept. *)
PairedLast(i, j) ==
  /\ old[i].identity = new[j].identity
  /\ Place(old, i) = Cardinality(Group(old, old[i].identity))
  /\ Place(new, j) = Cardinality(Group(new, new[j].identity))

(* diff_group pairs by place. *)
Paired(i, j) == old[i].identity = new[j].identity /\ Place(old, i) = Place(new, j)

Modified ==
  {<<"Modified", c[1], c[2]>> : c \in {d \in (DOMAIN old) \X (DOMAIN new) :
     Paired(d[1], d[2]) /\ old[d[1]].props # new[d[2]].props}}
Removed ==
  {<<"Removed", i, Null>> : i \in {k \in DOMAIN old : \A j \in DOMAIN new : ~Paired(k, j)}}
Added ==
  {<<"Added", Null, j>> : j \in {k \in DOMAIN new : \A i \in DOMAIN old : ~Paired(i, k)}}

Compare ==
  /\ changes = NotCompared
  /\ changes' = Modified \cup Removed \cup Added
  /\ UNCHANGED <<old, new>>

DiffSpec == DiffInit /\ [][Compare]_diffVars

-----------------------------------------------------------------------------
(* Properties. *)

(* The changes turn the old symbols into the new ones: of every identity   *)
(* and every properties there were as many as there are, but for those     *)
(* that the changes take away and bring; no identity is both removed and   *)
(* added; and with nothing changed in any group nothing is reported.       *)
Alike(ws, s) == Cardinality({i \in DOMAIN ws : ws[i] = s})
Taken(s) == Cardinality({c \in changes : c[2] # Null /\ old[c[2]] = s})
Brought(s) == Cardinality({c \in changes : c[3] # Null /\ new[c[3]] = s})
InGroup(ws, id) == [n \in 1..Cardinality(Group(ws, id)) |->
  ws[CHOOSE i \in Group(ws, id) : Place(ws, i) = n]]
ChangesArePatch ==
  changes # NotCompared =>
    /\ \A s \in [identity : Identities, props : Properties] :
         Alike(old, s) + Brought(s) = Alike(new, s) + Taken(s)
    /\ \A c, d \in changes :
         c[1] = "Removed" /\ d[1] = "Added" => old[c[2]].identity # new[d[3]].identity
    /\ (\A id \in Identities : InGroup(old, id) = InGroup(new, id)) => changes = {}
=============================================================================
