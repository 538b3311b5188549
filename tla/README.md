# ast-tool: specifications and proofs

`ast-tool` parses source trees with tree-sitter, extracts scopes and symbols,
and answers questions about them from the command line.  What it keeps between
commands is one SQLite file, `.ast-tool/ast-cache.db`, that several processes
read and write while the sources are being edited; and `ast-tool setup` edits
the configuration files of coding agents.  This directory models the program's
own concurrent, persistent and semantic core in TLA+, checks it with TLC and
proves its main safety properties with TLAPS.

## The system and its components

| component | code | state | operations | module |
|---|---|---|---|---|
| bounded queue | `include/ast-workspace.h` `BlockingQueue` | deque, `done_`, mutex, two condition variables | `push`, `pop`, `markDone` | `BoundedQueue` (promise), `BlockingQueue` (code) |
| cache warmer | `src/cache-warm.cpp`, `src/cache.cpp` | lock file, two queues, per-worker and merged counters, batch, `workspaceSet` | `warm_cache` and its scanner, worker and writer threads, `flush_batch`, cleanup | `CacheWarm` |
| cache database | `src/ast-cache-db.cpp` | table `ast_cache` | `lookup`, `lookup_metadata`, `store`, `update_mtime_size`, `remove`, `list_all_paths`, transactions | effects in `CacheWarm`, `PersistentCache` |
| lazy loading | `src/ast-workspace.cpp` | the row of the path, the loaded unit | `open_workspace`, `get_translation_unit`, `commit_result` | `PersistentCache` |
| scan and analysis | `src/ast-workspace.cpp` | `Workspace` vectors, `tuIndex_` | `analyze_workspace`, `analyze_files`, `ensure_all_loaded`, `merge_result`, `sort_workspace` | `AnalysisPromise` (promise), `WorkspaceAnalysis` (code) |
| scopes, lookup, visibility, resolver | `src/ast-scope*.cpp`, `ast-symbol-scope.cpp`, `ast-lookup.cpp`, `ast-resolver.cpp` | `ScopeTree`, `ScopeVisibility` | build, associate, compute, lookup, resolve | `Scopes` |
| member resolution | `src/ast-member-resolution.cpp` | the nearest declaration so far | `resolve_relationship_identifier` for `receiver.member(...)` | `MemberCalls` |
| symbol query, callers, callees, references | `src/cli-semantic.cpp`, `ast-callers.cpp`, `ast-callees.cpp`, `ast-references.cpp`, `ast-call-utils.h` | none | `resolve_symbol_query`, `Callers::find`, `Callees::find`, `FindReferences::find` | `SymbolQueries` |
| semantic diff | `src/ast-semantic-diff.cpp` | the groups of both sides | `SemanticDiff::compare` | `SemanticDiff` |
| setup | `src/setup.cpp` | the agents' configuration files and their `.tmp` | `run_setup`: read, plan, write, rename | `SetupFiles` |
| dispatch | `src/ast-tool.cpp` | none | one command per process | `Commands` |
| serialization | `src/ast-serial.cpp` | none | `ast_serialize`, `ast_deserialize`, LZ4 wrappers | which texts survive it, in `PersistentCache` |
| AST, node types, find, format, search, extraction, context export | `src/ast-tool.cpp`, `ast-find.cpp`, `ast-extractor*.cpp`, ... | node vector, id map, hash | one walk over one tree | not modelled |

How they interact: a command opens a workspace (scan, database), and loads
translation units one by one through memory, row and parser, or has them
analysed by a scan thread and workers around a bounded queue.  The symbols of
the workspace are what the symbol query, callers, callees and member resolution
work on; an identifier goes to the resolver, the name of a member that is called
to member resolution.  `cache warm` runs beside commands: it shares the database
with them through SQLite, excludes other warmers with a file lock, and inside
one process passes paths and write requests between threads through two bounded
queues.  Editors change the files under all of them and take no lock.

What is hard here, and which properties answer it:

* **Blocking and shutdown.**  Bounded queues, in the warmer two in a row, a dead
  reader or writer, a traversal that throws, `markDone` racing sleepers:
  `NoLostWakeup`, `NobodySleepsWhenClosed`, `WarmReturns`, `NoPushRefused`,
  `AnalysisReturns`.
* **Nothing lost, nothing twice.**  A file or a request passes through many
  hands: `FilesAccounted`, `RequestsSurvive`, `SuccessMeansProcessed`,
  `SettledOnce`.
* **Threads that must leave no trace.**  The workspace may not depend on who came
  first, and its index holds positions that a sort moves: `ResultIsReference`,
  `IndexConsistent`.
* **Partial failure and crash.**  Any open, parse, statement or COMMIT may fail, a
  process may die in a batch, or between `fopen` and `rename`: `ValidEntriesKept`,
  `WarmedEntries`, `OnlyWorkspaceCached`, `HooksKept`, `ReportsTruthful`.
* **Staleness.**  A row describes a file that may have changed since:
  `TrustedRowFresh`, `AnswerWasCurrent`, `CacheSettles`.
* **Two algorithms for one meaning.**  Lexical lookup is a walk in one file and a
  precomputed map in another, and both rely on an order that a third file
  establishes; callers and callees find the same calls from two ends:
  `ParentsFirst`, `VisibilityAgreesWithLookup`, `AnswerFollowsShadowing`,
  `CallersAndCalleesAgree`.
* **Heuristics that drop or pick.**  False ambiguities are removed, the nearest
  declaration counts, overloads are paired by position: `NoBodyLost`,
  `JoinedNameSelects`, `NearestScopeDecides`, `ChangesArePatch`.

## Modules

### BoundedQueue and BlockingQueue

`BoundedQueue` is the promise: a FIFO of at most `Capacity` items that accepts,
refuses once closed, delivers, and drains.  `BlockingQueue` is the code: a step
is one critical section of `mu_`, from the acquisition to the release or to the
atomic release-and-sleep of `condition_variable::wait`.  A waiter is in a wait
set until it is notified or wakes spuriously; then it competes for the mutex and
evaluates its predicate again.  `push` and `pop` use `notify_one`, and `markDone`
sets `done_` in one step and notifies both variables in two later ones, after it
has released the mutex.  `accepted` and `delivered` are history variables.
`RefinesBoundedQueue` is refinement by `INSTANCE`.

### CacheWarm

One variable group per thread (scanner, workers, writer, cleanup), `main` for the
calling thread and `cache`, `txn` for the database.  `Enter`, `AcquireLock`,
`InitDatabase`, `JoinScanner`, `JoinWorkers`, `JoinWriter`, `CleanupRemove` and
`Return` are the calling thread in the order of the code.  A cache entry is
abstracted to its class relative to the file: `valid`, `touched` (only the stat
differs), `stale`, `old` (another format), `none`.  A counter of `WarmStats` is the
set of files it counted, which is what lets `FilesAccounted` see a file counted
twice.  `Faults` lists what may go wrong in an instance; every error path of the
code is a disjunct guarded by a member of it.  Files do not change during a run
here - that is the next module's subject - and the queues are `BoundedQueue`.

### PersistentCache

One file, its row, commands in `get_translation_unit` and a warmer.  A step is one
interaction with the world: a lookup, a `stat`, a read of the file, a statement.
Between any two of them the file may be edited, deleted or recreated, and other
processes may run.  A version of the file is a pair of a text and a stat; each edit
gets a new stat, i.e. size or mtime differ.  The release notes name the other case
(`doc/develop/phase17-release-notes.md`, "Cache invalidation is based on
modification time and file size") as a known limitation, and it is left out.
`seen` is history: what was on disk since the command asked.  `Anomalies` are the
two things the code does not guard against, each switched on in one run:

* `midParse`: an edit between the parse and the stat stored with it;
* `lateUpdate`: a row stored by a command between the warmer's lookup and its
  `UPDATE ... WHERE path = ?`.

### AnalysisPromise and WorkspaceAnalysis

`AnalysisPromise` is what the three ways to fill a `Workspace` have in common:
every entry of the file list is settled once, by a unit or by the failure count,
and the workspace is handed out when nothing is left.  `WorkspaceAnalysis` is the
code: `analyze_workspace` and `analyze_files` with feeder thread, queue, worker
threads, merge under `wsMu`, joins and sort, and the single-threaded load through
`open_workspace` and `ensure_all_loaded`.  A worker's step is `Pop` or `Settle`
(the analysis of a file and its merge; the analysis touches nothing shared).  A
file may parse, not parse, or throw; a traversal may throw (`Faults`), which the
threaded code catches and the single-threaded one does not (`LoadThrow`).
`SortWorkspace` picks any permutation that `std::sort` may produce, so that symbols at
one position may come in either order.  The refinement mapping reads what is
pending off the queue, the workers' hands and what is still to be fed.

### Scopes

One translation unit, from its node list to an answer of the resolver.  The program
counter goes through `build` (`dfs`, its recursion as a list of pending calls),
`associate` (`associate_symbols`), `visible` (`ScopeVisibility::compute`, outer and
inner loop), `ready`, `walk` (`lookup`) and `answered`; a step is one iteration.  A
node keeps of its type whether `classify_node` gives it a scope, a symbol its node
and name.  Any node may or may not open a scope, the root included: the root of a
file that does not parse is an `ERROR` node, and there are files with several
outermost scopes, or none.  `Enclosing(s)`, the scopes around a scope, is the least
set that holds it and is closed under parents, and the properties compare the
code's vectors and answers with it.  The other files of the workspace are the
list of names they declare, `Foreign`.

### SymbolQueries

A workspace is its list of symbols (`catalog`) and its call sites, each with the
functions and lambdas around it and the symbol the resolver makes of its callee.
A symbol has its `name` as the extractor spelled it - which for a definition outside
its class is qualified, `A::f` - and its qualified name `fqn`; both are sequences of
the parts that `::` joins, so the qualified name of a language that joins with a dot
is one part.  `opens` says that its node is a function with a scope of its own,
`body` that this node is a `FunctionDefinition`, which the query takes for having a
body and which only C, C++, Python and Bash have.
`Raw` and `Candidates` are `resolve_symbol_query` with the two steps that remove
false ambiguities, `CallersOf`, `CalleesOf` and `ReferencesOf` the three relations,
`BodyOf` the definition that a declaration in a class borrows.  The one step, `Ask`, answers
a name of the command line.

### MemberCalls

`receiver.member(...)`: `Begin` (the early returns), `Look` (one declaration of the
backward search of `declared_local_type`), `LookForField`, `Resolve` (the type's name
to a class, the class to its one member).  Of the function around the call the model
keeps its declarations in the order of the text with the identifiers that occur in
them, because that is what the code looks at; `declares` is the one identifier
that each really declares, which the code does not know and only
`ResolvedAsDeclared` mentions.  Scopes are counted outwards from the call, and an
assumption on the constants (`Nested`) says that they are stretches of the text:
once a declaration before the call is in an inner scope, no later one is farther out
and still around the call.

### SemanticDiff

`compare` on two lists of symbols.  An identity is a qualified name and a kind, and
symbols of one identity form a group in workspace order; `Paired` pairs them by
place.  No command of `ast-tool` calls it; it is part of the library.

### SetupFiles

`ast-tool setup` for Claude Code and then for Codex: `Start`, `Read` (read and plan),
`OpenTmp`, `Write`, `Rename`, `GiveUp`, `Report`, and `Crash` between any two of
them.  Of the JSON file the model keeps the hooks of all groups, of the TOML file its
lines as the line parser classifies them, from which `Starts`, `Ends`, `Items` and
`Rebuilt` work out the rewritten table.  The spelling of a command matters:
`Escaped[a]` are the spellings with an escape that the reader and writer for agent `a`
lose between them (`\u` in JSON; in TOML all but `\t`, `\"` and `\\`, `\n`
being written back as a line end), `Decoded` turns them into `Garbled`; `Literal` are
the spellings in single quotes, which the line parser skips (`Basic`, `Strings`).
A `session_start` whose value is neither an array nor in double quotes is seen and
has no end (`Forgotten`).  `Recognised` are the commands in which the code finds
"ast-tool" and "cache warm": usually those of the executables, and perhaps one of
the user's, which is then updated and removed like setup's own.  `Anomalies` are what goes wrong without
the code noticing: a file that exists and cannot be read counts as empty, the JSON
reader stops at what it does not know, and the result of `fflush` is ignored.  The
history variable `lossy` marks the files they have touched.

### Commands

`dispatch`: one process runs one command, and the components of the others do not
move.  It composes `WorkspaceAnalysis`, `SymbolQueries`, `MemberCalls`, `SemanticDiff` and
`SetupFiles`, which share nothing within a process, and lets one run check them.
`CommandsProofs` shows that it implements the specification of each.

## Runs

| run | instance | shows |
|---|---|---|
| `queue` | 3 producers x 2 items, 2 consumers, capacity 2 | safety, liveness and refinement of the queue |
| `warm` | 2 files, 1 orphan, 2 workers (1 may fail to open), queues of 1, batches of 2, two runs, crashes, failing lookups, parses, statements and `BEGIN`s | accounting, shutdown order, result, valid entries kept, `warm_cache` returns |
| `warm_writer_hang`, `warm_partial_scan` | one fault each | violations, see below |
| `cache_safety` | 2 commands, a warmer, 2 texts, 3 versions, failing statements and crashes | rows and answers are right |
| `cache_settles` | 2 commands, a warmer, a text and the empty one, 2 versions | the row settles |
| `cache_mid_parse`, `cache_late_update` | one anomaly each | violations, see below |
| `scopes` | all trees of 4 nodes and the empty one, all scope choices, 3 symbols, 2 names, every query | names resolve by the scoping rules, building and lookup end |
| `commands`: load | 3 files (two symbols of one at one position), every traversal order, 5 given lists, each file parsed, unparsed or throwing, queue of 2, 2 workers | one workspace whatever the interleaving, the index right, `AnalysisPromise`, the return |
| `commands`: ask | all catalogues of 3 C++ symbols under 2 qualified names, one the tail of the other, with names of their own or qualified, and of 2 of any language, in 1 or 2 files, 5 questions, 1 call in 5 kinds of places | the body that was asked about is kept, a joined name selects; callers, callees and references agree |
| `commands`: relate | functions of up to 2 declarations over 9 catalogues of types and of 3 over one, scopes 2 deep | the nearest scope decides |
| `commands`: diff | any two lists of up to 3 symbols, 2 identities, 2 properties | the changes are a patch |
| `commands`: setup | 8 JSON and 11 TOML files with every spelling, 2 executables, 2 runs with any arguments, failing calls, crashes, all anomalies | hooks kept, reports true |
| `setup_escaped_hook`, `member_initializer` | a hook written with a `\u` escape; as relate above | violations, see below |

**Bounds.**  Queues of one or two are the smallest that make both sides wait; three
producers and two consumers make a single `notify_one` choose among sleepers while
another thread overtakes the one it chose.  Two files overflow a queue of one; two
requests are a full batch and one a partial one.  Two runs are what a crash and its
recovery need, and in setup an installation by one executable and its update or
removal by another.  Three versions of a file are what the late `UPDATE` needs: the
text parsed by the slow command, a second text, and a touch.  The safety run has two
non-empty texts, since an empty text is never answered from the row; the liveness
run has the empty one.  `MaxRuns` and `MaxEdits` bound counters that the code does
not have.

Four nodes make chains and siblings of scopes three deep below the root, and three
symbols an overload pair and the declaration it shadows, or a name in two siblings
and in their parent.  Three files fill a queue of two while both workers are busy
or fail; the lists have a repeated path, disorder and emptiness.  Three
symbols are a declaration, its definition and one of the same tail.  A call has
at most two relevant scopes around it when the nearest and another one compete, and a
third declaration adds the sibling, or the second type in one scope.  Three symbols
a side pair two overloads and leave one over.

**Deadlock checking** is off in every run because each of these systems stops:
when all threads have returned, after the last run, or when the query is answered,
nothing is left to do.  That they do not stop too early is what `EveryConsumerReturns`,
`WarmReturns`, `AnalysisReturns` and `Terminates` check.

**Fairness.**  The operating system schedules every runnable thread, and SQLite's
calls return (after at most 5 s, `busy_timeout`): weak fairness per thread, in
`AnalysisFairness` of the feeder, of each worker and of the calling thread.  Nothing
is assumed of spurious wake-ups, of other warmers, of edits or crashes.  For the
queue, `markDone` is assumed to come; `CacheWarm` and `WorkspaceAnalysis` show that
it does.  For `CacheSettles`, commands keep being run (strong fairness of the start of
one, which competes with the same process's memory hit).  For `Terminates` the
sequential code keeps running; when a query is made is the caller's business.

## What does not hold

Each violation run checks what a doc, comment or test says; `PROJECT.json` quotes it.

* `warm_writer_hang`: if the writer's connection fails to open,
  its thread returns and nobody pops `writeQueue`.  With more requests than it holds
  the workers, and the command, wait for ever; with fewer it reports success and has
  written nothing.
* `warm_partial_scan`: a traversal that gives up is not reported (`ScanError` is
  never returned), and the cleanup removes the entries of the files not reached.
* `cache_mid_parse`: the stat of an entry is taken after the text was read.  An
  edit in between makes a wrong row that is trusted until the file changes again.
* `cache_late_update`: the warmer's metadata update does not check that the row is
  still the one it compared.
* `setup_escaped_hook`: the JSON reader turns a `\u` escape into `?`, and setup writes
  the tree back, so a user's hook that holds one is changed.  `EveryHookKept` is the
  sentence of the manual for every spelling; `HooksKept`, of the `commands` run, is for
  those that are read back as they were written.
* `member_initializer`: a declaration that only uses the receiver, as `T b = a.m();`
  does, counts as one of the receiver's: a later `a.n()` in the block is looked up in
  `T`.

Disagreements that have no run of their own:

* Warmer: if no worker can open the database, the files stay in `fileQueue` and the
  result is `Success` (`cache-warm.cpp:374`; `SuccessIsProcessed` is proved for at
  least one reader that opens, `RequestsAreSettled` for a writer that does).  A lock
  file that cannot be opened is reported as another warmer's lock (`AcquireLock`).
* Cache: the row of an empty file stores hash 0 and does not decode
  (`ast-workspace.cpp:649`, `Decodes`), so every command evicts it, parses the file
  and stores the same row again; `CacheSettles` excepts it.
* Analysis: symbols at one position come in an order that `std::sort` does not
  determine; "deterministic output" holds up to them.
* Resolver: its fallback is "for cross-file matches" (`include/ast-resolver.h:13`), but
  the workspace table holds this file's symbols too, so a name that no enclosing scope
  declares may resolve to a declaration in an unrelated scope of the same file
  (`ast-resolver.cpp:102`, `WorkspaceMatches`).
* Callers: a call in a lambda is reported at file scope, although the lambda is in a
  function (`ast-call-utils.h:138`); `CallersAndCalleesAgree` excepts it.  The query of a
  function that is declared and defined keeps the definition alone, and calls that
  resolve to the declaration are not among its callers (`cli-semantic.cpp:136`).
* References: the declaration is left out by its line (`ast-references.cpp:73`), and with it
  (as its header says) a call on the same line that callers and callees list, as in
  `int f() { return f(); }`.
* Query: a C++ function that is only defined outside of its class, `A::f`, is not found
  by its unqualified name `f`: the code compares `symbol.name`, which is `A::f`
  (`cli-semantic.cpp:85`, `ast-extractor-cfamily.cpp:128` and `354`; `help.cpp:458` speaks of
  "unqualified names").
* Query: qualified names are recognised by `::`, but the extractors of C#, Go, Java,
  JavaScript, TypeScript, TSX, Python and Scala join with a dot.  The name `A.f` that an
  ambiguous answer lists finds nothing (`cli-semantic.cpp:65`), although `help.cpp:460` says
  to "supply a fully-qualified name to disambiguate"; `JoinedNameSelects` is the
  property for the other languages (`Joined`).
* Query: a function whose node is no `FunctionDefinition` - of Rust, Go, JavaScript,
  ... - counts as a declaration without a body.  One of C or Python with the
  same qualified name makes it disappear (`cli-semantic.cpp:140`), and passes for its body
  in `callees` (`ast-callees.cpp:60`); `NoBodyLost` is about functions with one body of
  that type (`OneBody`).
* Member calls: `for`, `if` and `catch` headers open no scope in
  `ast-scope-builder.cpp`, so their variables count until the end of the enclosing
  block.
* Diff: overloads that trade places are reported as `Modified` when their properties
  differ, though "source locations ... are completely ignored"
  (`ast-semantic-diff.h:11`); without parameter types no better pairing exists.
* Setup: strings on the line that opens an array, all but the first of a line, and a
  bracket behind the last string are not seen, and the rewritten table loses them
  (`setup.cpp:763`); `HooksAreKept` is proved for files without (`Plain`).  Also lost are
  values of `config.toml` in single quotes, which are legal TOML (`setup.cpp:769` and `806`),
  and changed are those with an escape other than `\t`, `\"`, `\\`: `parse_toml_str`
  drops the backslash of the ones it does not know (`\u`, `\r`, `\b`, `\f`;
  `setup.cpp:717`), and `toml_escape` writes a `\n` back as a line end (`setup.cpp:681`).
  `help.cpp:653` promises the contrary of all of these.
* Setup: its own entry of `config.toml` is found by the words "ast-tool" and "cache warm"
  (`setup.cpp:839`).  An executable whose path lacks the first does not find what it
  wrote and adds it again at each run, although "running it multiple times does not create
  duplicate hooks" (`help.cpp:650`); `ReportsAreTruthful` assumes `Exes \subseteq
  Recognised`.  A user's command with both words is updated and removed as setup's own.
* Setup: a file that cannot be read is replaced.  Codex's default file is sought below `.claude`
  (`setup.cpp:513`), the help text says `~/.codex/config.toml`.

Hazards of the code that no model here reaches: `bad_alloc` in `merge_result` after
part of a result was moved in, the depth of `dfs`'s recursion in a deeply nested
file (`ast-scope-builder.cpp:112`), and an agent that writes its own configuration
between setup's read and its rename.

## Proofs

TLAPS checks every theorem for all values of the constants.

* `BlockingQueueProofs`: types, capacity, FIFO, the wake-up invariant, and the
  refinement of `BoundedQueue`.  The wake-up invariant counts: notified threads are
  at least as many as what sleepers could do.  It is inductive only with the fact
  that a closed queue's remaining sleepers are owed a `notify_all` by `markDone`.
* `CacheWarmProofs`: types; `NoPushRefused` from `Phases`, which ties `main` to where
  each thread can be and to the two `done` flags; `ValidEntriesKept` from
  `ScanCoverage` (what is not in `workspaceSet` is still to be scanned, or the cleanup
  has not begun) if the scan is complete; `SuccessMeansProcessed` from `FileFlow`
  (an emitted file is in a queue, a hand, or a counter) if one reader opens;
  `RequestsSurvive` from `RequestFlow` (a file counted as updated is in `writeQ`, in
  the batch, or settled) if the writer opens; `WarmedEntries` from `EntryFlow` (a file
  counted as valid or updated has a valid entry, a request under way, or a writer
  failure; a metadata update under way is of an entry it can mend) if the writer
  opens and the scan is complete; `OnlyWorkspaceCached` from `CleanupLeft` (what is
  cached and was not emitted is still in `toRemove`); and `FilesAccounted` with every
  fault allowed.  For the last, `Places` says without counting that no file is in two
  places and that only emitted files are in any; with `FileFlow` each of the five sets
  is empty or a singleton, and exactly one of them is not empty.
* `PersistentCacheProofs`: with `Anomalies = {}`, `TrustedRowFresh` and
  `AnswerWasCurrent`.  `CacheInv` says of each held entry what its label has
  established.  `Fresh(e)` - a stat not above `clock`, and the file's text if it is the
  file's stat - is what edits cannot spoil, since they bring a new stat; it is true of
  the row and of every entry about to be written, and false of a held entry only
  between the slow path's `stat` and its hash comparison.
* `WorkspaceAnalysisProofs`: types with the queue's bound; `IndexConsistent`, through
  the sort, for which it matters that `tuIndex_` is rebuilt from the sorted vector; and
  the refinement of `AnalysisPromise`, step by step.  `OnceInv` holds it up: `Shape` ties
  the calling thread to the ends of the others, `Once` says that no entry is in two
  places (the queue is ascending, and hands hold entries of which none is queued), and
  `Fresh` that the single-threaded load never meets a path twice.  `ResultIsReference`
  is proved from `Books`: at every moment units and symbols are, without repetition,
  what the settled entries (taken, and neither queued nor in a hand) leave behind, and
  the two counters add up to their number; and from `Listed`, that the file list is the
  entries before `next`.  The sort is any arrangement that is ordered by the code's
  key; lemmas say that it keeps the elements and the counts.
* `SetupFilesProofs`: types; `HooksKept` if the TOML files are plain; and
  `ReportsTruthful` if a TOML file has at most one `[hooks]` table, as TOML demands, and
  the executables are `Recognised`.  Neither assumes anything of how the user's hooks
  are spelled: `HooksKept` itself speaks of those that are read back as written
  (`ReadBack`), in files that may hold others.
  `KeepInv` carries what a crash may interrupt: the plan keeps the hooks of the file
  it was made from, the temporary file is the plan before a rename, and rewriting keeps
  a plain file plain.  `ReportInv` adds that agents still to be dealt with have their
  old file.  `TruthInv` adds what a report promises of the file (`Fulfilled`) and that the
  plan already fulfils it (`PlanTrue`): setup's own hook is read back from what it
  writes although a user's need not be, and the lemmas count our hooks before and after
  install, update and remove.  `TablesInv` says that every file is one whose
  `session_start` is read or one with a single table: after a value without an end the
  new one goes behind the last `[hooks]` header, and with two of them it would not be
  the one that is read.  (The run has a file with a second header inside an array that
  is not closed; there the second one counts.)
* `ScopesProofs`: types; `ParentsFirst`; `VisibilityAgreesWithLookup`; `OnlyEnclosingVisible`;
  `AnswerFollowsShadowing`, for any input and any symbols.  `EntriesRight` says what each
  entry holds in terms of its scope's own symbols and its parent's entry, also in the
  middle of the inner loop; `Ascending`, that a scope lists its symbols in index order,
  makes the last one written the largest; `WalkRight` says that walking out of a scope
  without the name does not change what the name means.  `SightInv` adds that what a
  table shows is declared around its scope and that the walk has left the
  enclosing scopes without the name and no other; it needs of `Enclosing` only that it
  is the least closed set, not an induction.
  `InnermostScope` and `DeclaredWhereVisible` need besides that the nodes are a tree
  (`TreesAssumption`: tree-sitter's nodes in the order of `traverse_all_nodes`, a parent
  before its children).  `Above` is a recursive function; `AboveIs` exhibits a function
  that satisfies its equation (the least sets closed under parents), and what is needed
  of it (`AboveFacts`, `AboveBetween`) follows by taking the first node for which it
  fails.  `TreeInv` is the invariant of the depth-first walk: a node either has its
  scope or is below a node for which a call is still to be made (`Pending`); the nodes
  of the calls to be made are unrelated, and each call carries the scope around its
  node; a scope's opener is not pending, so no second scope is opened for it.
  `PlacesInv` is that of the association: it has given every symbol before `next` its
  `DeclaringScope`, which depends on the tree alone.
* `QueryProofs`: `NoBodyLost`, `JoinedNameSelects` and `CallersAndCalleesAgree`, for any
  symbols and sites.  The lemma on the code's loop (`FirstOfIsLeast`) rests
  on the well-foundedness of the naturals.  For `NoBodyLost` what a dropped symbol lists
  as callees are the calls in its function's one body; if that body was dropped it was
  for a member's declaration, which borrows it (`BodyOf`), and what the second step
  drops gives way to the body itself.  For `JoinedNameSelects` a qualified name has
  an exact match, the symbol itself, on which both steps work again; `NoMember` says
  that a definition in the answer was not dropped for a member the first time, so that
  none of its qualified name exists to drop it now.  And `NearestScopeDecides` for any
  function whose scopes are `Nested`: `NearestKnown` says that the search holds the scope
  and the common type of the nearest declarations it has seen; as it goes backwards
  through nested scopes the first one it meets is of the nearest scope.
  And `ChangesArePatch` for any two snapshots.  The diff pairs the
  symbols of one identity by their place in the group; places are exactly the numbers up
  to the group's size (`PlacesFilled`: an injection between sets of one size), so
  the pairing is one-to-one and what is left over is on one side only
  (`OneSidedLeftovers`).  Bijections between changes and unpaired symbols then give the
  counts.
* `CommandsProofs`: what is proved of the components holds in the process of the
  `commands` run.  Every step of `CommandSpec` is a step or a stutter of each component,
  and `NoAnalysis` and `NoSetup` are states the analysis and setup may start from, so
  `CommandSpec` implements `AnalysisSpec` (fairness included) and `SetupSpec`; it
  implements `QuerySpec`, `MemberSpec` or `DiffSpec` if that is the command given
  (`CommandsImplement`).  If it is not, the component is empty and stays so
  (`IdleStay`), and an empty component satisfies its invariants.  `CommandConstantsOK`
  says that the list of no files is among the lists, without which the other commands
  would have no workspace to leave empty.

Only model-checked: the liveness properties `EveryPushReturns`, `EveryConsumerReturns`,
`WarmReturns`, `CacheSettles`, `Terminates` and `AnalysisReturns`, which are out of the
prover's reach, and the violations.  Every invariant and action property of a passing
run is a theorem; `SetupTypeOK` and what it says of a run's end and of a rename is a
theorem without a run of its own.

## Not modelled, and the plan

Of the 417 thousand lines of C and C++ in the repository about 400 thousand are
vendored: SQLite, LZ4, mimalloc, xxHash, abseil, the tree-sitter headers.  They are
third-party code, modelled by how `src/` uses them.  Of the program's own lines
most are tables (node types, keywords, help texts), argument parsing and printing.

* AST construction, node types, find, format, range, outline and symbol extraction:
  one recursive walk over one immutable tree each, mostly tables of grammar names.
* Search and context export: filters and projections over lists that the
  modelled parts produce; regular expressions are RE2's.
* `cache status`, the timing counters and all output.
* Reading or hashing a file is one step: a text read while it is written is `midParse`
  at a finer grain.

What is left of the plan, in this order:

1. `AstSerial`: layout arithmetic, limits, and what a truncated or foreign blob decodes
   to; `NodeHash`: the counting of collisions.
2. The common part of symbol extraction (`ast-extractor-common.cpp`): qualified names
   against the scopes of `Scopes`.
3. Two setups at once, and the agent's own writes to its file.
