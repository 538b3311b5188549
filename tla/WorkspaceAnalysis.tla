-------------------------- MODULE WorkspaceAnalysis --------------------------
(***************************************************************************)
(* The three ways to fill a Workspace (src/ast-workspace.cpp):             *)
(*   "workspace"  analyze_workspace: a scan thread feeds the paths it      *)
(*                finds to a bounded queue, worker threads parse them and  *)
(*                merge the results under wsMu, main joins and sorts;      *)
(*   "files"      analyze_files: the same with a given list;               *)
(*   "lazy"       open_workspace and ensure_all_loaded: one thread asks    *)
(*                get_translation_unit for one path after the other.       *)
(*                                                                         *)
(* A path is a number and path order is number order.  An entry is a       *)
(* position in the list of paths, so a path that is listed twice is two    *)
(* entries.  A translation unit and its dependencies are the entry they    *)
(* were made from; a symbol is <<entry, k>>, the k-th symbol extracted     *)
(* from it.  Where a unit comes from in the lazy case, the disk cache or   *)
(* the parser, is PersistentCache's subject.                               *)
(***************************************************************************)
EXTENDS Naturals, Sequences, FiniteSets, Functions

CONSTANTS
  Files,           \* the supported files under the root
  Lists,           \* the lists analyze_files is called with
  Position,        \* of each file: the positions (line, column) of its symbols as extracted
  Cores,           \* get_physical_core_count
  QueueCapacity,   \* kQueueCapacity
  Fates,           \* what may become of a file
  Faults           \* {"scan"}: a traversal may throw

ASSUME AnalysisConstantsOK ==
  /\ Files \subseteq Nat /\ IsFiniteSet(Files)
  /\ Lists \subseteq Seq(Files)
  /\ Position \in [Files -> Seq(Nat)]
  /\ Cores \in Nat \ {0}
  /\ QueueCapacity \in Nat \ {0}
  /\ Fates \subseteq {"parsed", "unparsed", "throws"}
  /\ Faults \subseteq {"scan"}

VARIABLES
  entry,    \* the function that was called
  list,     \* the paths: in traversal order, as given, or sorted
  fate,     \* of each file: parsed, not parsed, or an exception on the way
  next,     \* the next entry to be found, fed or loaded
  feeder,   \* the scan or feeder thread
  queue, closed,
  hand,     \* of each worker: its entry, or Idle, or Ended
  units, deps, symbols, index, parsed, failed,    \* the Workspace
  files,    \* Workspace::files
  main      \* the calling thread

queueVars == <<queue, closed>>
given == <<entry, list, fate>>
wsVars == <<units, deps, symbols, index, parsed, failed>>
analysisVars == <<given, next, feeder, queueVars, hand, wsVars, files, main>>

Entries == DOMAIN list
Idle == 0
Ended == Len(list) + 1
Workers == 1..Cores

(* analyze_files makes its queue no larger than its list, which no push    *)
(* can tell.                                                               *)
Q == INSTANCE BoundedQueue WITH
       data <- queue, done <- closed, Items <- Nat, Capacity <- QueueCapacity

Sorted(s) == \A i, j \in DOMAIN s : i < j => s[i] <= s[j]
Listings == {s \in [1..Cardinality(Files) -> Files] : IsInjective(s)}

(* One worker when a second one could not help. *)
Started ==
  IF entry = "files" THEN (IF Len(list) < Cores THEN Len(list) ELSE Cores) ELSE Cores

(* analyze_files returns at once. *)
NothingGiven == entry = "files" /\ list = <<>>

AnalysisInit ==
  /\ \/ entry = "workspace" /\ list \in Listings /\ files = <<>>
     \/ entry = "files" /\ list \in Lists /\ files = list
     \/ entry = "lazy" /\ list \in Listings /\ Sorted(list) /\ files = list
  /\ fate \in [Files -> Fates]
  /\ next = 1
  /\ feeder = (IF entry = "lazy" \/ NothingGiven THEN "end" ELSE "run")
  /\ queue = <<>> /\ closed = FALSE
  /\ hand = [w \in Workers |-> IF entry = "lazy" \/ w > Started THEN Ended ELSE Idle]
  /\ units = <<>> /\ deps = <<>> /\ symbols = <<>> /\ index = <<>>
  /\ parsed = 0 /\ failed = 0
  /\ main = (IF NothingGiven THEN "ready" ELSE IF entry = "lazy" THEN "load" ELSE "join")

-----------------------------------------------------------------------------
(* The scan thread and the feeder. *)

(* Fault: push does not wait. *)
FeedUnbounded ==
  /\ feeder = "run"
  /\ next \in Entries
  /\ queue' = Append(queue, next)
  /\ next' = next + 1
  /\ files' = IF entry = "workspace" THEN Append(files, list[next]) ELSE files
  /\ UNCHANGED <<given, feeder, closed, hand, wsVars, main>>

Feed ==
  /\ feeder = "run"
  /\ next \in Entries
  /\ Q!Accept(next) \/ Q!Refuse
  /\ next' = next + 1
  /\ files' = IF entry = "workspace" THEN Append(files, list[next]) ELSE files
  /\ UNCHANGED <<given, feeder, hand, wsVars, main>>

FeedEnd ==
  /\ feeder = "run"
  /\ next \notin Entries
  /\ Q!MarkDone
  /\ feeder' = "end"
  /\ UNCHANGED <<given, next, hand, wsVars, files, main>>

(* Fault: the exception leaves the thread's function before markDone. *)
ScanThrowOpen ==
  /\ "scan" \in Faults
  /\ entry = "workspace" /\ feeder = "run" /\ next \in Entries
  /\ feeder' = "end"
  /\ UNCHANGED <<given, next, queueVars, hand, wsVars, files, main>>

(* An exception of the traversal is swallowed; the queue is closed all the *)
(* same.                                                                   *)
ScanThrow ==
  /\ "scan" \in Faults
  /\ entry = "workspace" /\ feeder = "run" /\ next \in Entries
  /\ Q!MarkDone
  /\ feeder' = "end"
  /\ UNCHANGED <<given, next, hand, wsVars, files, main>>

FeederStep == Feed \/ FeedEnd \/ ScanThrow

-----------------------------------------------------------------------------
(* merge_result and commit_result: all containers of the workspace grow    *)
(* together.                                                               *)

SymbolsOf(i) == [k \in DOMAIN Position[list[i]] |-> <<i, k>>]

Merge(i) ==
  /\ parsed' = parsed + 1
  /\ index' = [p \in DOMAIN index \cup {list[i]} |->
                 IF p = list[i] THEN Len(units) + 1 ELSE index[p]]
  /\ deps' = Append(deps, i)
  /\ symbols' = symbols \o SymbolsOf(i)
  /\ units' = Append(units, i)
  /\ UNCHANGED failed

CountFailure ==
  /\ failed' = failed + 1
  /\ UNCHANGED <<units, deps, symbols, index, parsed>>

-----------------------------------------------------------------------------
(* The worker threads. *)

Pop(w) ==
  /\ hand[w] = Idle
  /\ \/ \E i \in Entries : Q!Take(i) /\ hand' = [hand EXCEPT ![w] = i]
     \/ Q!Drained /\ hand' = [hand EXCEPT ![w] = Ended]
  /\ UNCHANGED <<given, next, feeder, wsVars, files, main>>

(* Fault: an exception ends the worker's loop. *)
SettleOrQuit(w) ==
  /\ hand[w] \in Entries
  /\ \/ fate[list[hand[w]]] = "parsed" /\ Merge(hand[w]) /\ hand' = [hand EXCEPT ![w] = Idle]
     \/ fate[list[hand[w]]] = "unparsed" /\ CountFailure /\ hand' = [hand EXCEPT ![w] = Idle]
     \/ fate[list[hand[w]]] = "throws" /\ CountFailure /\ hand' = [hand EXCEPT ![w] = Ended]
  /\ UNCHANGED <<given, next, feeder, queueVars, files, main>>

(* analyze_one, then the merge under wsMu; an exception counts as a failure. *)
Settle(w) ==
  /\ hand[w] \in Entries
  /\ \/ fate[list[hand[w]]] = "parsed" /\ Merge(hand[w])
     \/ fate[list[hand[w]]] # "parsed" /\ CountFailure
  /\ hand' = [hand EXCEPT ![w] = Idle]
  /\ UNCHANGED <<given, next, feeder, queueVars, files, main>>

WorkerStep(w) == Pop(w) \/ Settle(w)

-----------------------------------------------------------------------------
(* The calling thread. *)

(* std::sort by a key: any arrangement in which the keys ascend. *)
Arrangements(s, Before(_, _)) ==
  {[i \in DOMAIN s |-> s[p[i]]] :
     p \in {q \in Bijection(DOMAIN s, DOMAIN s) :
              \A i, j \in DOMAIN s : i < j => ~Before(s[q[j]], s[q[i]])}}

PathBefore(i, j) == list[i] < list[j]
At(s) == Position[list[s[1]]][s[2]]
SymbolBefore(s, t) ==
  \/ PathBefore(s[1], t[1])
  \/ list[s[1]] = list[t[1]] /\ At(s) < At(t)

(* The last unit of a path is the one the index holds. *)
Reindexed(us) ==
  [p \in {list[us[n]] : n \in DOMAIN us} |->
     CHOOSE n \in DOMAIN us :
       list[us[n]] = p /\ \A m \in DOMAIN us : list[us[m]] = p => m <= n]

(* Fault: the index is not rebuilt. *)
SortKeepIndex ==
  /\ units' \in Arrangements(units, PathBefore)
  /\ deps' \in Arrangements(deps, PathBefore)
  /\ symbols' \in Arrangements(symbols, SymbolBefore)
  /\ UNCHANGED <<index, parsed, failed>>

SortWorkspace ==
  /\ units' \in Arrangements(units, PathBefore)
  /\ deps' \in Arrangements(deps, PathBefore)
  /\ symbols' \in Arrangements(symbols, SymbolBefore)
  /\ index' = Reindexed(units')
  /\ UNCHANGED <<parsed, failed>>

(* Fault: only the feeder is joined. *)
JoinFeederAndSort ==
  /\ main = "join"
  /\ feeder = "end"
  /\ SortWorkspace
  /\ files' \in IF entry = "workspace" THEN Arrangements(files, <) ELSE {files}
  /\ main' = "ready"
  /\ UNCHANGED <<given, next, feeder, queueVars, hand>>

(* The joins, the sorts and the return. *)
JoinAndSort ==
  /\ main = "join"
  /\ feeder = "end"
  /\ \A w \in Workers : hand[w] = Ended
  /\ SortWorkspace
  /\ files' \in IF entry = "workspace" THEN Arrangements(files, <) ELSE {files}
  /\ main' = "ready"
  /\ UNCHANGED <<given, next, feeder, queueVars, hand>>

(* get_translation_unit of the next path: answered from memory when the    *)
(* path is in the index; a failure is counted and not remembered.          *)
Load ==
  /\ main = "load"
  /\ next \in Entries
  /\ \/ list[next] \in DOMAIN index /\ UNCHANGED wsVars
     \/ list[next] \notin DOMAIN index /\ fate[list[next]] = "parsed" /\ Merge(next)
     \/ list[next] \notin DOMAIN index /\ fate[list[next]] = "unparsed" /\ CountFailure
  /\ next' = next + 1
  /\ UNCHANGED <<given, feeder, queueVars, hand, files, main>>

(* An exception reaches main's catch. *)
LoadThrow ==
  /\ main = "load"
  /\ next \in Entries
  /\ list[next] \notin DOMAIN index
  /\ fate[list[next]] = "throws"
  /\ main' = "dead"
  /\ UNCHANGED <<given, next, feeder, queueVars, hand, wsVars, files>>

LoadEnd ==
  /\ main = "load"
  /\ next \notin Entries
  /\ main' = "ready"
  /\ UNCHANGED <<given, next, feeder, queueVars, hand, wsVars, files>>

MainStep == JoinAndSort \/ Load \/ LoadThrow \/ LoadEnd

AnalysisNext == FeederStep \/ (\E w \in Workers : WorkerStep(w)) \/ MainStep

(* Threads run; nothing outside them is waited for. *)
AnalysisFairness ==
  /\ WF_analysisVars(FeederStep)
  /\ \A w \in Workers : WF_analysisVars(WorkerStep(w))
  /\ WF_analysisVars(MainStep)

AnalysisSpec == AnalysisInit /\ [][AnalysisNext]_analysisVars /\ AnalysisFairness

-----------------------------------------------------------------------------
(* Properties. *)

AnalysisTypeOK ==
  /\ entry \in {"workspace", "files", "lazy"}
  /\ list \in Seq(Files)
  /\ fate \in [Files -> Fates]
  /\ next \in 1..(Len(list) + 1)
  /\ feeder \in {"run", "end"}
  /\ queue \in Seq(Entries) /\ Len(queue) <= QueueCapacity /\ closed \in BOOLEAN
  /\ hand \in [Workers -> Entries \cup {Idle, Ended}]
  /\ units \in Seq(Entries) /\ deps \in Seq(Entries)
  /\ symbols \in Seq(Entries \X Nat)
  /\ DOMAIN index \subseteq Files
  /\ parsed \in Nat /\ failed \in Nat
  /\ files \in Seq(Files)
  /\ main \in {"join", "load", "ready", "dead"}

(* tuIndex_ is always right: it names every path that has a translation    *)
(* unit, and at the place it names is a unit of that path.                 *)
IndexConsistent ==
  /\ DOMAIN index = {list[units[n]] : n \in DOMAIN units}
  /\ \A p \in DOMAIN index : index[p] \in DOMAIN units /\ list[units[index[p]]] = p

(* What a Workspace over the paths ws must hold: units and dependencies of *)
(* the paths that parse, in path order, each as often as it is listed; the *)
(* symbols of these, file by file, by position unless they were loaded one *)
(* by one, in which case they are as extracted; and honest counts.         *)
PathsOf(es) == [n \in DOMAIN es |-> list[es[n]]]
Times(s, x) == Cardinality({n \in DOMAIN s : s[n] = x})
IsWorkspaceOf(ws) ==
  /\ Sorted(PathsOf(units)) /\ Sorted(PathsOf(deps))
  /\ \A p \in Files : LET n == IF fate[p] = "parsed" THEN Times(ws, p) ELSE 0 IN
       Times(PathsOf(units), p) = n /\ Times(PathsOf(deps), p) = n
  /\ \A n \in DOMAIN units :
       \A k \in DOMAIN Position[list[units[n]]] : Times(symbols, <<units[n], k>>) = 1
  /\ \A m, n \in DOMAIN symbols : m < n =>
       /\ ~PathBefore(symbols[n][1], symbols[m][1])
       /\ \/ ~SymbolBefore(symbols[n], symbols[m])
          \/ entry = "lazy" /\ symbols[m][2] < symbols[n][2]
  /\ \A m \in DOMAIN symbols : \E n \in DOMAIN units : symbols[m][1] = units[n]
  /\ parsed = Len(units)
  /\ parsed + failed = Len(ws)

(* The threads leave no trace: whatever the traversal order, the           *)
(* interleaving and the workers' failures, the workspace that is returned  *)
(* is the one of its file list ("deterministic output", ast-workspace.cpp). *)
ResultIsReference ==
  main = "ready" =>
    /\ IsWorkspaceOf(files)
    /\ entry = "workspace" => Sorted(files)

(* Every entry is settled exactly once, and all of them before the return. *)
(* Not settled is what is still to be found, fed or loaded, what is queued *)
(* and what a worker holds.                                                *)
Ahead(i) == i >= next /\ (feeder = "run" \/ entry = "lazy")
Queued(i) == \E n \in DOMAIN queue : queue[n] = i
Held(i) == \E w \in Workers : hand[w] = i
Pending == {i \in Entries : Ahead(i) \/ Queued(i) \/ Held(i)}
Merged == {units[n] : n \in DOMAIN units}
Returned == main \in {"ready", "dead"}
Promise == INSTANCE AnalysisPromise WITH
             pending <- Pending, merged <- Merged, returned <- Returned
SettledOnce == Promise!Spec

(* The workspace is returned, or the command has died. *)
AnalysisReturns == <>(main \in {"ready", "dead"})
=============================================================================
