--------------------------- MODULE PersistentCache ---------------------------
(***************************************************************************)
(* One source file, its row in .ast-tool/ast-cache.db, and the processes   *)
(* that share them: query commands that call                               *)
(* Workspace::get_translation_unit (src/ast-workspace.cpp), at most one    *)
(* `cache warm` (the workspace lock of CacheWarm), and whoever edits the   *)
(* file meanwhile.  Every statement of the database names one path, so one *)
(* path is enough.                                                         *)
(*                                                                         *)
(* A version of the file is its text and its stat; a stat stands for the   *)
(* pair (size, mtime), and an edit gives the file a stat it never had (the *)
(* release notes name edits that do not as a limitation).  A text stands   *)
(* for itself and for its XXH64, which is taken to be injective.  Reading  *)
(* or hashing a file is one step.                                          *)
(***************************************************************************)
EXTENDS Integers

CONSTANTS
  Sessions,   \* query processes
  Warmer,     \* the cache warmer
  Texts,      \* contents of the file
  Empty,      \* the empty content
  Missing,    \* no file
  NoEntry,    \* no row
  Anomalies,  \* what the environment may do besides (see AllAnomalies)
  Faults,     \* failures of SQLite and of the processes
  MaxEdits    \* bound: how many versions are written after the first

AllAnomalies ==
  { "midParse",   \* an edit between a parse and the stat stored with it
    "lateUpdate" } \* a row written between the warmer's lookup and its UPDATE

AllFaults ==
  { "busy",       \* a statement fails (SQLITE_BUSY after 5 s, disk full)
    "crash" }     \* a process dies between two steps

ASSUME ConstantsOK ==
  /\ Warmer \notin Sessions
  /\ Missing \notin Texts
  /\ Anomalies \subseteq AllAnomalies
  /\ Faults \subseteq AllFaults
  /\ MaxEdits \in Nat

Procs == Sessions \cup {Warmer}
Version == [stat : 1..(MaxEdits + 1), text : Texts]

(* A row: what it says of the file, whether its format_version is current  *)
(* and whether its blob is sound.                                          *)
Entry == [text : Texts, stat : 0..(MaxEdits + 1), current : BOOLEAN, sound : BOOLEAN]
ASSUME NoEntryOK == NoEntry \notin Entry /\ Missing \notin Version

VARIABLES
  disk,    \* the version on disk, or Missing
  clock,   \* the newest stat
  row,     \* the row of the path
  pc,      \* where each process is
  held,    \* the entry each process has read or is making
  warmSt,  \* the stat the warmer took first
  loaded,  \* the translation unit in a session's memory cache
  seen     \* of each session: what was on disk since its call (history)

world == <<disk, clock>>
vars == <<world, row, pc, held, warmSt, loaded, seen>>

Now == IF disk = Missing THEN Missing ELSE disk.text

(* Fault: a failing stat leaves -1. *)
NowStatMinusOne == IF disk = Missing THEN -1 ELSE disk.stat

(* A failing stat leaves size and mtime at 0. *)
NowStat == IF disk = Missing THEN 0 ELSE disk.stat

(* Rows an earlier session may have left: of the file as it is, of the     *)
(* file as it was, of another format, or damaged.                          *)
Leftover(v) ==
  {e \in Entry : e.stat <= 1 /\ (e.stat = 1 /\ e.current => e.text = v.text)}

Init ==
  /\ disk \in {v \in Version : v.stat = 1}
  /\ clock = 1
  /\ row \in {NoEntry} \cup Leftover(disk)
  /\ pc = [p \in Procs |-> "idle"]
  /\ held = [p \in Procs |-> NoEntry]
  /\ warmSt = 0
  /\ loaded = [p \in Sessions |-> Missing]
  /\ seen = [p \in Sessions |-> {}]

(* Process p goes on at l with entry e in hand. *)
Goto(p, l) == pc' = [pc EXCEPT ![p] = l]
With(p, e, l) == held' = [held EXCEPT ![p] = e] /\ Goto(p, l)

(* A statement that fails changes nothing; nobody looks at its answer. *)
Writes(e) == row' = e \/ ("busy" \in Faults /\ UNCHANGED row)

(* Without "lateUpdate" no session writes the row while the warmer is      *)
(* between its lookup and its UPDATE.                                      *)
RowFree == "lateUpdate" \in Anomalies \/ pc[Warmer] \notin {"warmHash", "warmMeta"}

(* What ast_deserialize accepts and AST::operator bool calls an AST: an    *)
(* empty file has no text buffer.                                          *)
Decodes(e) == e.sound /\ e.text # Empty

(* hash_file against the row: the hash stored for an empty text is 0,      *)
(* which equals no hash.                                                   *)
HashMatches(e) == disk # Missing /\ disk.text = e.text /\ e.text # Empty

(* The text as parsed; its stat is still to be taken. *)
Parsed(t) == [text |-> t, stat |-> 0, current |-> TRUE, sound |-> TRUE]

-----------------------------------------------------------------------------
(* Workspace::get_translation_unit.  A unit in memory is returned at once  *)
(* and nothing changes; a session without a database behaves as one whose  *)
(* statements all fail.                                                    *)

Call(p) ==
  /\ pc[p] = "idle"
  /\ loaded[p] = Missing
  /\ seen' = [seen EXCEPT ![p] = {Now}]
  /\ Goto(p, "lookup")
  /\ UNCHANGED <<world, row, held, warmSt, loaded>>

(* Fault: the format of the row is not looked at. *)
LookupAnyFormat(p) ==
  /\ pc[p] = "lookup"
  /\ IF row = NoEntry THEN With(p, NoEntry, "parse") ELSE With(p, row, "stat")
  /\ UNCHANGED <<world, row, warmSt, loaded, seen>>

Lookup(p) ==
  /\ pc[p] = "lookup"
  /\ \/ row # NoEntry /\ With(p, row, IF row.current THEN "stat" ELSE "evict")
     \/ (row = NoEntry \/ "busy" \in Faults) /\ With(p, NoEntry, "parse")
  /\ UNCHANGED <<world, row, warmSt, loaded, seen>>

(* The fast path trusts a row whose size and mtime are the file's; the     *)
(* slow path keeps the file's stat for the row it may store again.         *)
Stat(p) ==
  /\ pc[p] = "stat"
  /\ \/ disk = Missing /\ With(p, held[p], "evict")
     \/ disk # Missing /\ disk.stat = held[p].stat /\ With(p, held[p], "load")
     \/ /\ disk # Missing /\ disk.stat # held[p].stat
        /\ With(p, [held[p] EXCEPT !.stat = disk.stat], "hash")
  /\ UNCHANGED <<world, row, warmSt, loaded, seen>>

(* Fault: the stat of the touched row is taken after the hash. *)
TouchLateStat(p) ==
  /\ pc[p] = "touch"
  /\ RowFree
  /\ row' = [held[p] EXCEPT !.stat = NowStat]
  /\ Goto(p, "load")
  /\ UNCHANGED <<world, held, warmSt, loaded, seen>>

(* The slow path compares contents. *)
Hash(p) ==
  /\ pc[p] = "hash"
  /\ Goto(p, IF HashMatches(held[p]) THEN "touch" ELSE "evict")
  /\ UNCHANGED <<world, row, held, warmSt, loaded, seen>>

(* Fault: the fast path is not restored. *)
TouchNothing(p) ==
  /\ pc[p] = "touch"
  /\ RowFree
  /\ Goto(p, "load")
  /\ UNCHANGED <<world, row, held, warmSt, loaded, seen>>

(* The row is stored again, whole, with the stat taken before the hash. *)
Touch(p) ==
  /\ pc[p] = "touch"
  /\ RowFree
  /\ Writes(held[p])
  /\ Goto(p, "load")
  /\ UNCHANGED <<world, held, warmSt, loaded, seen>>

Load(p) ==
  /\ pc[p] = "load"
  /\ \/ /\ Decodes(held[p])
        /\ loaded' = [loaded EXCEPT ![p] = held[p].text]
        /\ With(p, NoEntry, "idle")
     \/ ~Decodes(held[p]) /\ With(p, NoEntry, "evict") /\ UNCHANGED loaded
  /\ UNCHANGED <<world, row, warmSt, seen>>

(* The row is removed - whatever row it is by now. *)
Evict(p) ==
  /\ pc[p] = "evict"
  /\ Writes(NoEntry)
  /\ With(p, NoEntry, "parse")
  /\ UNCHANGED <<world, warmSt, loaded, seen>>

(* parse: a file that cannot be read is a null answer. *)
Parse(p) ==
  /\ pc[p] = "parse"
  /\ \/ disk = Missing /\ With(p, NoEntry, "idle")
     \/ disk # Missing /\ With(p, Parsed(disk.text), "parsed")
  /\ UNCHANGED <<world, row, warmSt, loaded, seen>>

(* commit_result and cw_prepare_entry take the stat of the entry when the  *)
(* text has been read, parsed and serialized.                              *)
StatParsed(p) ==
  /\ pc[p] = "parsed"
  /\ With(p, [held[p] EXCEPT !.stat = NowStat], "store")
  /\ UNCHANGED <<world, row, warmSt, loaded, seen>>

(* commit_result: the row, then the memory cache. *)
Store(p) ==
  /\ pc[p] = "store"
  /\ RowFree
  /\ Writes(held[p])
  /\ loaded' = [loaded EXCEPT ![p] = held[p].text]
  /\ With(p, NoEntry, "idle")
  /\ UNCHANGED <<world, warmSt, seen>>

(* The command ends, or dies, and another one begins. *)
Restart(p) ==
  /\ "crash" \in Faults \/ pc[p] = "idle"
  /\ loaded' = [loaded EXCEPT ![p] = Missing]
  /\ seen' = [seen EXCEPT ![p] = {}]
  /\ With(p, NoEntry, "idle")
  /\ UNCHANGED <<world, row, warmSt>>

Query(p) ==
  \/ Call(p) \/ Lookup(p) \/ Stat(p) \/ Hash(p) \/ Touch(p) \/ Load(p) \/ Evict(p)
  \/ Parse(p) \/ StatParsed(p) \/ Store(p)

-----------------------------------------------------------------------------
(* The warmer: the scan emits the file or does not find it, warm_one_file  *)
(* runs in a worker, and its request reaches the row later, in the writer. *)

WarmScan ==
  /\ pc[Warmer] = "idle"
  /\ Goto(Warmer, IF disk = Missing THEN "warmGone" ELSE "warmStat")
  /\ UNCHANGED <<world, row, held, warmSt, loaded, seen>>

(* The cleanup of paths the scan did not emit. *)
WarmCleanup ==
  /\ pc[Warmer] = "warmGone"
  /\ Writes(NoEntry)
  /\ Goto(Warmer, "idle")
  /\ UNCHANGED <<world, held, warmSt, loaded, seen>>

WarmStat ==
  /\ pc[Warmer] = "warmStat"
  /\ warmSt' = NowStat
  /\ Goto(Warmer, IF disk = Missing THEN "idle" ELSE "warmLook")
  /\ UNCHANGED <<world, row, held, loaded, seen>>

(* lookup_metadata: up to date, to be hashed, or to be parsed. *)
WarmLook ==
  /\ pc[Warmer] = "warmLook"
  /\ \/ row # NoEntry /\ row.current /\ row.stat = warmSt /\ With(Warmer, NoEntry, "idle")
     \/ /\ row # NoEntry /\ row.current /\ row.stat # warmSt
        /\ With(Warmer, [row EXCEPT !.stat = warmSt], "warmHash")
     \/ /\ IF row = NoEntry THEN TRUE ELSE ~row.current \/ "busy" \in Faults
        /\ With(Warmer, NoEntry, "warmParse")
  /\ warmSt' = 0
  /\ UNCHANGED <<world, row, loaded, seen>>

WarmHash ==
  /\ pc[Warmer] = "warmHash"
  /\ \/ HashMatches(held[Warmer]) /\ With(Warmer, held[Warmer], "warmMeta")
     \/ ~HashMatches(held[Warmer]) /\ With(Warmer, NoEntry, "warmParse")
  /\ UNCHANGED <<world, row, warmSt, loaded, seen>>

WarmParse ==
  /\ pc[Warmer] = "warmParse"
  /\ \/ disk = Missing /\ With(Warmer, NoEntry, "idle")
     \/ disk # Missing /\ With(Warmer, Parsed(disk.text), "parsed")
  /\ UNCHANGED <<world, row, warmSt, loaded, seen>>

(* update_mtime_size: UPDATE ... WHERE path, on the row that is there now. *)
WarmUpdate ==
  /\ pc[Warmer] = "warmMeta"
  /\ Writes(IF row = NoEntry THEN NoEntry ELSE [row EXCEPT !.stat = held[Warmer].stat])
  /\ With(Warmer, NoEntry, "idle")
  /\ UNCHANGED <<world, warmSt, loaded, seen>>

WarmStore ==
  /\ pc[Warmer] = "store"
  /\ Writes(held[Warmer])
  /\ With(Warmer, NoEntry, "idle")
  /\ UNCHANGED <<world, warmSt, loaded, seen>>

WarmCrash ==
  /\ "crash" \in Faults
  /\ pc[Warmer] # "idle"
  /\ With(Warmer, NoEntry, "idle")
  /\ warmSt' = 0
  /\ UNCHANGED <<world, row, loaded, seen>>

WarmStep ==
  \/ WarmScan \/ WarmCleanup \/ WarmStat \/ WarmLook \/ WarmHash \/ WarmParse
  \/ StatParsed(Warmer) \/ WarmUpdate \/ WarmStore \/ WarmCrash

-----------------------------------------------------------------------------
(* The file changes. *)

DiskFree == "midParse" \in Anomalies \/ \A p \in Procs : pc[p] # "parsed"

Watch(t) == seen' = [p \in Sessions |-> IF pc[p] = "idle" THEN seen[p] ELSE seen[p] \cup {t}]

Edit(t) ==
  /\ DiskFree
  /\ clock <= MaxEdits
  /\ clock' = clock + 1
  /\ disk' = [stat |-> clock + 1, text |-> t]
  /\ Watch(t)
  /\ UNCHANGED <<row, pc, held, warmSt, loaded>>

Delete ==
  /\ DiskFree
  /\ disk # Missing
  /\ disk' = Missing
  /\ Watch(Missing)
  /\ UNCHANGED <<clock, row, pc, held, warmSt, loaded>>

Environment == (\E t \in Texts : Edit(t)) \/ Delete

Next ==
  \/ \E p \in Sessions : Query(p) \/ Restart(p)
  \/ WarmStep
  \/ Environment

(* A process that has begun goes on and ends, and commands are run again   *)
(* and again; nobody has to edit the file or to warm the cache.            *)
Fairness ==
  /\ \A p \in Sessions : WF_vars(Query(p)) /\ SF_vars(pc[p] = "idle" /\ Restart(p))
  /\ WF_vars(pc[Warmer] # "idle" /\ WarmStep)

Spec == Init /\ [][Next]_vars /\ Fairness

-----------------------------------------------------------------------------
(* Properties. *)

SessionLabels == {"idle", "lookup", "stat", "hash", "touch", "load", "evict", "parse",
                  "parsed", "store"}
WarmLabels == {"idle", "warmGone", "warmStat", "warmLook", "warmHash", "warmMeta",
               "warmParse", "parsed", "store"}

TypeOK ==
  /\ disk \in Version \cup {Missing}
  /\ clock \in 1..(MaxEdits + 1)
  /\ row \in Entry \cup {NoEntry}
  /\ pc \in [Procs -> SessionLabels \cup WarmLabels]
  /\ held \in [Procs -> Entry \cup {NoEntry}]
  /\ warmSt \in 0..(MaxEdits + 1)
  /\ loaded \in [Sessions -> Texts \cup {Missing}]
  /\ seen \in [Sessions -> SUBSET (Texts \cup {Missing})]

(* A row the fast path would trust - current format, the file's own size   *)
(* and mtime - holds the file's own text: no interleaving of commands,     *)
(* warmer and edits leaves a wrong AST behind a matching stat, where every *)
(* later command would find it.                                            *)
Trusted == row # NoEntry /\ disk # Missing /\ row.current /\ row.stat = disk.stat
TrustedRowFresh == Trusted => row.text = disk.text

(* What a command answers for a path was the file's text at some moment    *)
(* since the command asked for it.                                         *)
AnswerWasCurrent == \A p \in Sessions : loaded[p] # Missing => loaded[p] \in seen[p]

(* Commands do not undo one another's work for ever: while they keep       *)
(* asking, the file is in the end left with a sound trusted row, unless it *)
(* is gone or empty.                                                       *)
Warm == Trusted /\ row.sound
CacheSettles == <>[](disk # Missing /\ disk.text # Empty => Warm)
=============================================================================
