--------------------------- MODULE AnalysisPromise ---------------------------
(***************************************************************************)
(* What analyze_workspace, analyze_files and ensure_all_loaded             *)
(* (include/ast-workspace.h) promise, whatever threads they use: every     *)
(* entry of the file list is settled exactly once, by a translation unit   *)
(* when it parses and by the failure count otherwise, and the workspace is *)
(* handed out only when nothing is left to settle.  WorkspaceAnalysis is   *)
(* shown to implement this module.                                         *)
(***************************************************************************)
EXTENDS Naturals

VARIABLES
  list,      \* the paths, in the order in which they are found or given
  fate,      \* what becomes of each path
  pending,   \* entries of list that are not settled
  merged,    \* entries that have a translation unit
  returned   \* the workspace has been handed out, or the command has died

promiseVars == <<list, fate, pending, merged, returned>>

Parses(i) == fate[list[i]] = "parsed"

Init ==
  /\ pending = DOMAIN list
  /\ merged = {}
  /\ returned \in BOOLEAN /\ (returned => list = <<>>)

Settle(i) ==
  /\ ~returned
  /\ i \in pending
  /\ pending' = pending \ {i}
  /\ merged' = IF Parses(i) THEN merged \cup {i} ELSE merged
  /\ UNCHANGED <<list, fate, returned>>

(* A traversal that fails leaves the rest of the tree out: of the entries  *)
(* that are not settled those up to some n stay.                           *)
GiveUp(n) ==
  /\ ~returned
  /\ pending' = {i \in pending : i <= n}
  /\ UNCHANGED <<list, fate, merged, returned>>

Return ==
  /\ ~returned
  /\ pending = {}
  /\ returned' = TRUE
  /\ UNCHANGED <<list, fate, pending, merged>>

(* The exception of a single-threaded load ends the command. *)
Die ==
  /\ ~returned
  /\ \E i \in pending : fate[list[i]] = "throws"
  /\ returned' = TRUE
  /\ UNCHANGED <<list, fate, pending, merged>>

Next ==
  \/ \E i \in DOMAIN list : Settle(i)
  \/ \E n \in {0} \cup DOMAIN list : GiveUp(n)
  \/ Return
  \/ Die

Spec == Init /\ [][Next]_promiseVars
=============================================================================
