------------------------------ MODULE CacheWarm ------------------------------
(***************************************************************************)
(* `ast-tool cache warm` (src/cache-warm.cpp): one scanner thread feeds    *)
(* fileQueue, worker threads classify and parse files and feed writeQueue, *)
(* one writer thread batches the requests into SQLite transactions, and    *)
(* the main thread takes the workspace lock, joins everybody in order and  *)
(* removes the entries of files that are gone.                             *)
(*                                                                         *)
(* Data are abstracted to what the control depends on: the cache maps a    *)
(* path to the class of its entry relative to the file on disk, which does *)
(* not change during a run (files edited under a running warmer are the    *)
(* subject of PersistentCache).  A counter of WarmStats is the set of the  *)
(* files it has counted.  Both queues are BoundedQueue, which the queue of *)
(* the code implements (BlockingQueue).                                    *)
(***************************************************************************)
EXTENDS Naturals, Sequences, FiniteSets

CONSTANTS
  Files,             \* supported source files under the root
  Orphans,           \* other paths the cache may hold (deleted or ignored files)
  Workers,           \* reader threads: min(4, cores), at least 1
  UnreliableReaders, \* workers whose open_readonly may fail
  FileQueueCap,      \* kFileQueueCap  (256 in the code)
  WriteQueueCap,     \* kWriteQueueCap (32)
  BatchSize,         \* kBatch         (64)
  Faults,            \* what may go wrong in this instance
  MaxRuns            \* bound: how many times warm_cache is entered

AllFaults ==
  { "mkdir",     \* create_directories reports an error
    "lockfile",  \* the lock file cannot be opened
    "initdb",    \* the schema connection cannot be opened
    "writer",    \* the writer's connection cannot be opened
    "scan",      \* the traversal stops early, with or without an exception
    "lookup",    \* a metadata query fails, which reads as "no entry"
    "parse",     \* stat, hash, parse or serialization of a file fails or throws
    "store",     \* one statement of a batch fails
    "begin",     \* BEGIN fails, so that each statement commits on its own; its
                 \* result, and that of the COMMIT without effect, are ignored
    "commit",    \* COMMIT fails; its result is ignored
    "cleanup",   \* the cleanup connection cannot be opened, or its query or a
                 \* DELETE fails; their results are ignored
    "crash" }    \* the process dies

ASSUME WarmAssumption ==
  /\ IsFiniteSet(Files) /\ IsFiniteSet(Workers)
  /\ Workers # {}
  /\ Files \cap Orphans = {}
  /\ UnreliableReaders \subseteq Workers
  /\ FileQueueCap \in Nat \ {0}
  /\ WriteQueueCap \in Nat \ {0}
  /\ BatchSize \in Nat \ {0}
  /\ Faults \subseteq AllFaults
  /\ MaxRuns \in Nat

CONSTANT NoFile
ASSUME NoFileAssumption == NoFile \notin Files

VARIABLES
  cache,       \* committed contents of table ast_cache: path -> entry class
  txn,         \* requests executed in the writer's open transaction
  rival,       \* does another process hold cache-warm.lock?
  runs,        \* number of times warm_cache was entered
  main,        \* where the main thread of warm_cache is
  result,      \* WarmResult, "none" while running
  toScan,      \* files the traversal has not reached yet
  workspaceSet,\* paths emitted by the scanner
  scanPc, scanHand,
  fileQ, fileDone,
  wPc, wHand, wReq,   \* per worker: place, file in hand, kind of its request
  local,       \* per worker: its WarmStats
  stats,       \* the merged WarmStats
  writeQ, writeDone,
  writerPc, batch,
  written, unwritten, \* files counted by writerWritten / writerFailed
  toRemove, removed   \* the cleanup loop

durableVars == <<cache, txn>>
scanVars    == <<toScan, workspaceSet, scanPc, scanHand>>
fileQVars   == <<fileQ, fileDone>>
workerVars  == <<wPc, wHand, wReq, local, stats>>
writeQVars  == <<writeQ, writeDone>>
writerVars  == <<writerPc, batch, written, unwritten>>
cleanupVars == <<toRemove, removed>>
mainVars    == <<rival, runs, main, result>>

threadVars == <<scanVars, fileQVars, workerVars, writeQVars, writerVars, cleanupVars>>
vars == <<durableVars, mainVars, threadVars>>

Paths == Files \cup Orphans

(* How an entry relates to the file: absent; size and mtime match; only    *)
(* the stat differs (same content hash); content differs; other format.    *)
Class == {"none", "valid", "touched", "stale", "old"}

Kinds    == {"valid", "missing", "stale", "updated", "failed"}
NoStats  == [k \in Kinds |-> {}]
Requests == [file : Files, kind : {"meta", "entry"}]

FQ == INSTANCE BoundedQueue WITH
        data <- fileQ, done <- fileDone, Items <- Files, Capacity <- FileQueueCap
WQ == INSTANCE BoundedQueue WITH
        data <- writeQ, done <- writeDone, Items <- Requests, Capacity <- WriteQueueCap

(* Everything a run keeps in memory, before the threads are started. *)
FreshThreads ==
  /\ toScan = Files /\ workspaceSet = {} /\ scanPc = "off" /\ scanHand = NoFile
  /\ FQ!Init /\ WQ!Init
  /\ wPc = [w \in Workers |-> "off"]
  /\ wHand = [w \in Workers |-> NoFile]
  /\ wReq = [w \in Workers |-> "none"]
  /\ local = [w \in Workers |-> NoStats]
  /\ stats = NoStats
  /\ writerPc = "off" /\ batch = <<>> /\ written = {} /\ unwritten = {}
  /\ toRemove = {} /\ removed = {}

Init ==
  /\ cache \in [Paths -> Class]
  /\ \A o \in Orphans : cache[o] \in {"none", "valid"}
  /\ txn = {}
  /\ rival \in BOOLEAN
  /\ runs = 0
  /\ main = "idle"
  /\ result = "none"
  /\ FreshThreads

(* The process is gone: its memory is lost, SQLite rolls its transaction   *)
(* back and the kernel drops its lock.                                     *)
ForgetThreads ==
  /\ toScan' = Files /\ workspaceSet' = {} /\ scanPc' = "off" /\ scanHand' = NoFile
  /\ fileQ' = <<>> /\ fileDone' = FALSE /\ writeQ' = <<>> /\ writeDone' = FALSE
  /\ wPc' = [w \in Workers |-> "off"]
  /\ wHand' = [w \in Workers |-> NoFile]
  /\ wReq' = [w \in Workers |-> "none"]
  /\ local' = [w \in Workers |-> NoStats]
  /\ stats' = NoStats
  /\ writerPc' = "off" /\ batch' = <<>> /\ written' = {} /\ unwritten' = {}
  /\ toRemove' = {} /\ removed' = {}

LockHeld == main \notin {"idle", "lock", "end"}

-----------------------------------------------------------------------------
(* The main thread up to the point where the threads run. *)

Enter ==
  /\ main = "idle"
  /\ runs < MaxRuns
  /\ runs' = runs + 1
  /\ \/ main' = "lock" /\ UNCHANGED result
     \/ "mkdir" \in Faults /\ main' = "end" /\ result' = "DatabaseError"
  /\ UNCHANGED <<durableVars, rival, threadVars>>

(* WarmLock::try_acquire does not wait, and does not distinguish a busy    *)
(* lock from a lock file it cannot open.                                   *)
AcquireLock ==
  /\ main = "lock"
  /\ \/ ~rival /\ main' = "init" /\ UNCHANGED result
     \/ rival /\ main' = "end" /\ result' = "LockBusy"
     \/ "lockfile" \in Faults /\ main' = "end" /\ result' = "LockBusy"
  /\ UNCHANGED <<durableVars, rival, runs, threadVars>>

(* The schema connection, then the threads are started. *)
InitDatabase ==
  /\ main = "init"
  /\ \/ /\ main' = "joinScan"
        /\ scanPc' = "scan" /\ writerPc' = "open"
        /\ wPc' = [w \in Workers |-> "open"]
        /\ UNCHANGED result
     \/ /\ "initdb" \in Faults
        /\ main' = "end" /\ result' = "DatabaseError"
        /\ UNCHANGED <<scanPc, writerPc, wPc>>
  /\ UNCHANGED <<durableVars, rival, runs, toScan, workspaceSet, scanHand, fileQVars,
                 wHand, wReq, local, stats, writeQVars, batch, written, unwritten,
                 cleanupVars>>

-----------------------------------------------------------------------------
(* The scanner thread: scan_workspace_stream with the callback that records *)
(* the path and pushes it.                                                  *)

(* Fault: the traversal reaches a file twice. *)
ScanEmitAgain(f) ==
  /\ scanPc = "scan"
  /\ f \in Files
  /\ toScan' = toScan \ {f}
  /\ workspaceSet' = workspaceSet \cup {f}
  /\ scanHand' = f
  /\ scanPc' = "push"
  /\ UNCHANGED <<durableVars, mainVars, fileQVars, workerVars, writeQVars,
                 writerVars, cleanupVars>>

(* Fault: the path is pushed and not recorded in workspaceSet. *)
ScanEmitUnrecorded(f) ==
  /\ scanPc = "scan"
  /\ f \in toScan
  /\ toScan' = toScan \ {f}
  /\ scanHand' = f
  /\ scanPc' = "push"
  /\ UNCHANGED <<durableVars, mainVars, workspaceSet, fileQVars, workerVars,
                 writeQVars, writerVars, cleanupVars>>

ScanEmit(f) ==
  /\ scanPc = "scan"
  /\ f \in toScan
  /\ toScan' = toScan \ {f}
  /\ workspaceSet' = workspaceSet \cup {f}
  /\ scanHand' = f
  /\ scanPc' = "push"
  /\ UNCHANGED <<durableVars, mainVars, fileQVars, workerVars, writeQVars,
                 writerVars, cleanupVars>>

(* Fault: the push does not wait for room. *)
ScanPushAnyway ==
  /\ scanPc = "push"
  /\ fileQ' = Append(fileQ, scanHand) /\ UNCHANGED fileDone
  /\ scanHand' = NoFile
  /\ scanPc' = "scan"
  /\ UNCHANGED <<durableVars, mainVars, toScan, workspaceSet, workerVars, writeQVars,
                 writerVars, cleanupVars>>

ScanPush ==
  /\ scanPc = "push"
  /\ FQ!Accept(scanHand) \/ FQ!Refuse
  /\ scanHand' = NoFile
  /\ scanPc' = "scan"
  /\ UNCHANGED <<durableVars, mainVars, toScan, workspaceSet, workerVars, writeQVars,
                 writerVars, cleanupVars>>

(* The traversal is over, or gives up: an exception is swallowed and an    *)
(* unreadable directory ends its loop.                                     *)
ScanStop ==
  /\ scanPc = "scan"
  /\ toScan = {} \/ "scan" \in Faults
  /\ scanPc' = "close"
  /\ UNCHANGED <<durableVars, mainVars, toScan, workspaceSet, scanHand, fileQVars,
                 workerVars, writeQVars, writerVars, cleanupVars>>

(* Fault: an exception of the traversal skips markDone. *)
ScanCloseSilent ==
  /\ scanPc = "close"
  /\ scanPc' = "end"
  /\ UNCHANGED <<durableVars, mainVars, toScan, workspaceSet, scanHand, fileQVars,
                 workerVars, writeQVars, writerVars, cleanupVars>>

ScanClose ==
  /\ scanPc = "close"
  /\ FQ!MarkDone
  /\ scanPc' = "end"
  /\ UNCHANGED <<durableVars, mainVars, toScan, workspaceSet, scanHand, workerVars,
                 writeQVars, writerVars, cleanupVars>>

ScannerStep ==
  \/ \E f \in Files : ScanEmit(f)
  \/ ScanPush
  \/ ScanStop
  \/ ScanClose

-----------------------------------------------------------------------------
(* A worker thread. *)

WorkerOpen(w) ==
  /\ wPc[w] = "open"
  /\ \/ wPc' = [wPc EXCEPT ![w] = "pop"]
     \/ w \in UnreliableReaders /\ wPc' = [wPc EXCEPT ![w] = "dead"]
  /\ UNCHANGED <<durableVars, mainVars, scanVars, fileQVars, wHand, wReq, local, stats,
                 writeQVars, writerVars, cleanupVars>>

WorkerPop(w) ==
  /\ wPc[w] = "pop"
  /\ \/ /\ \E f \in Files : FQ!Take(f) /\ wHand' = [wHand EXCEPT ![w] = f]
        /\ wPc' = [wPc EXCEPT ![w] = "look"]
     \/ /\ FQ!Drained
        /\ wPc' = [wPc EXCEPT ![w] = "merge"]
        /\ UNCHANGED wHand
  /\ UNCHANGED <<durableVars, mainVars, scanVars, wReq, local, stats, writeQVars,
                 writerVars, cleanupVars>>

Count(w, ks, f) ==
  local' = [local EXCEPT ![w] = [k \in Kinds |-> IF k \in ks THEN @[k] \cup {f} ELSE @[k]]]

(* warm_one_file without a write: the file leaves the worker's hands. *)
LookDone(w, ks) ==
  /\ Count(w, ks, wHand[w])
  /\ wHand' = [wHand EXCEPT ![w] = NoFile]
  /\ wPc' = [wPc EXCEPT ![w] = "pop"]
  /\ UNCHANGED wReq

(* warm_one_file up to its push; stale and missing are counted before the  *)
(* parse.                                                                  *)
LookRequest(w, ks, kind) ==
  /\ Count(w, ks, wHand[w])
  /\ wReq' = [wReq EXCEPT ![w] = kind]
  /\ wPc' = [wPc EXCEPT ![w] = "push"]
  /\ UNCHANGED wHand

(* The counter an entry that must be parsed again goes to. *)
MissKind(c) == IF c \in {"none", "old"} THEN "missing" ELSE "stale"

(* What lookup_metadata tells of a file's entry.  (A file that cannot be   *)
(* hashed, though it can be parsed, is parsed again where the stat of its  *)
(* entry would have been repaired.)                                        *)
Looked(f) == {cache[f]} \cup (IF "lookup" \in Faults THEN {"none"} ELSE {})

WorkerLook(w) ==
  /\ wPc[w] = "look"
  /\ \E c \in Looked(wHand[w]) :
       \/ c = "valid" /\ LookDone(w, {"valid"})
       \/ c = "touched" /\ LookRequest(w, {}, "meta")
       \/ /\ c # "valid" /\ (c = "touched" => "parse" \in Faults)
          /\ LookRequest(w, {MissKind(c)}, "entry")
       \/ "parse" \in Faults /\ LookDone(w, {"failed"})
       \/ "parse" \in Faults /\ c # "valid" /\ LookDone(w, {MissKind(c), "failed"})
  /\ UNCHANGED <<durableVars, mainVars, scanVars, fileQVars, stats, writeQVars,
                 writerVars, cleanupVars>>

(* The push of the request, and the counters bumped right after it, before *)
(* the writer has seen the request.                                        *)
WorkerPush(w) ==
  /\ wPc[w] = "push"
  /\ WQ!Accept([file |-> wHand[w], kind |-> wReq[w]]) \/ WQ!Refuse
  /\ Count(w, {IF wReq[w] = "meta" THEN "valid" ELSE "updated"}, wHand[w])
  /\ wHand' = [wHand EXCEPT ![w] = NoFile]
  /\ wReq' = [wReq EXCEPT ![w] = "none"]
  /\ wPc' = [wPc EXCEPT ![w] = "pop"]
  /\ UNCHANGED <<durableVars, mainVars, scanVars, fileQVars, stats, writerVars,
                 cleanupVars>>

(* Fault: the last worker's counters replace the others'. *)
WorkerMergeOver(w) ==
  /\ wPc[w] = "merge"
  /\ stats' = local[w]
  /\ local' = [local EXCEPT ![w] = NoStats]
  /\ wPc' = [wPc EXCEPT ![w] = "end"]
  /\ UNCHANGED <<durableVars, mainVars, scanVars, fileQVars, wHand, wReq, writeQVars,
                 writerVars, cleanupVars>>

(* stats.merge(local) under statsMu; local dies with the thread. *)
WorkerMerge(w) ==
  /\ wPc[w] = "merge"
  /\ stats' = [k \in Kinds |-> stats[k] \cup local[w][k]]
  /\ local' = [local EXCEPT ![w] = NoStats]
  /\ wPc' = [wPc EXCEPT ![w] = "end"]
  /\ UNCHANGED <<durableVars, mainVars, scanVars, fileQVars, wHand, wReq, writeQVars,
                 writerVars, cleanupVars>>

WorkerStep(w) ==
  WorkerOpen(w) \/ WorkerPop(w) \/ WorkerLook(w) \/ WorkerPush(w) \/ WorkerMerge(w)

-----------------------------------------------------------------------------
(* The writer thread. *)

WriterOpen ==
  /\ writerPc = "open"
  /\ \/ writerPc' = "pop"
     \/ "writer" \in Faults /\ writerPc' = "dead"
  /\ UNCHANGED <<durableVars, mainVars, scanVars, fileQVars, workerVars, writeQVars,
                 batch, written, unwritten, cleanupVars>>

WriterPop ==
  /\ writerPc = "pop"
  /\ \/ \E r \in Requests :
          /\ WQ!Take(r)
          /\ batch' = Append(batch, r)
          /\ writerPc' = IF Len(batch) + 1 >= BatchSize THEN "flush" ELSE "pop"
     \/ WQ!Drained /\ writerPc' = "drain" /\ UNCHANGED batch
  /\ UNCHANGED <<durableVars, mainVars, scanVars, fileQVars, workerVars, written,
                 unwritten, cleanupVars>>

FilesOf(rs) == {r.file : r \in rs}
Batched == {batch[i] : i \in DOMAIN batch}

(* update_mtime_size repairs a row of which only the stat was wrong. *)
Refreshes(r, c) == r.kind = "meta" /\ c[r.file] = "touched"

(* Fault: INSERT OR IGNORE keeps the row that was there. *)
StoresIfAbsent(r, c) == r.kind = "entry" /\ c[r.file] = "none"

(* store is INSERT OR REPLACE. *)
Stores(r, c) == r.kind = "entry"

(* The entries after a set of requests: those touched match their files. *)
Execute(c, rs) ==
  [p \in Paths |-> IF \E r \in rs : r.file = p /\ (Stores(r, c) \/ Refreshes(r, c))
                   THEN "valid" ELSE c[p]]

(* flush_batch: the statements that succeed are executed inside one        *)
(* transaction.  A failed COMMIT either leaves the transaction open, to be *)
(* carried into the next batch, or has rolled it back.  After a failed     *)
(* BEGIN each statement is committed on its own, which comes to the same   *)
(* unless the process dies in between (LeftBehind).                        *)
FlushBatch ==
  \E ok \in SUBSET Batched :
    /\ ok = Batched \/ "store" \in Faults
    /\ written' = written \cup FilesOf(ok)
    /\ unwritten' = unwritten \cup FilesOf(Batched \ ok)
    /\ \/ cache' = Execute(cache, txn \cup ok) /\ txn' = {}
       \/ /\ "commit" \in Faults /\ batch # <<>>
          /\ txn' \in {txn \cup ok, {}}
          /\ UNCHANGED cache

WriterFlush ==
  /\ writerPc = "flush"
  /\ FlushBatch
  /\ batch' = <<>>
  /\ writerPc' = "pop"
  /\ UNCHANGED <<mainVars, scanVars, fileQVars, workerVars, writeQVars, cleanupVars>>

(* Fault: what is left in the batch when the queue closes is forgotten. *)
WriterDrainForget ==
  /\ writerPc = "drain"
  /\ batch' = <<>>
  /\ writerPc' = "exit"
  /\ UNCHANGED <<durableVars, written, unwritten>>
  /\ UNCHANGED <<mainVars, scanVars, fileQVars, workerVars, writeQVars, cleanupVars>>

(* The last batch, if any, after the loop. *)
WriterDrain ==
  /\ writerPc = "drain"
  /\ IF batch = <<>> THEN UNCHANGED <<durableVars, written, unwritten>> ELSE FlushBatch
  /\ batch' = <<>>
  /\ writerPc' = "exit"
  /\ UNCHANGED <<mainVars, scanVars, fileQVars, workerVars, writeQVars, cleanupVars>>

(* The connection is closed: an open transaction is rolled back. *)
WriterExit ==
  /\ writerPc = "exit"
  /\ txn' = {}
  /\ writerPc' = "end"
  /\ UNCHANGED <<cache, mainVars, scanVars, fileQVars, workerVars, writeQVars, batch,
                 written, unwritten, cleanupVars>>

WriterStep == WriterOpen \/ WriterPop \/ WriterFlush \/ WriterDrain \/ WriterExit

-----------------------------------------------------------------------------
(* The shutdown sequence of the main thread. *)

JoinScanner ==
  /\ main = "joinScan"
  /\ scanPc = "end"
  /\ main' = "joinWorkers"
  /\ UNCHANGED <<durableVars, rival, runs, result, threadVars>>

(* Fault: writeQueue is closed when the first worker has ended. *)
SomeWorkerGone == \E w \in Workers : wPc[w] \in {"end", "dead"}

WorkersGone == \A w \in Workers : wPc[w] \in {"end", "dead"}

JoinWorkers ==
  /\ main = "joinWorkers"
  /\ WorkersGone
  /\ WQ!MarkDone
  /\ main' = "joinWriter"
  /\ UNCHANGED <<durableVars, rival, runs, result, scanVars, fileQVars, workerVars,
                 writerVars, cleanupVars>>

Cached == {p \in Paths : cache[p] # "none"}

(* writerThread.join(), then the cleanup connection and list_all_paths. *)
JoinWriter ==
  /\ main = "joinWriter"
  /\ writerPc \in {"end", "dead"}
  /\ \/ toRemove' = Cached \ workspaceSet
     \/ "cleanup" \in Faults /\ toRemove' \in SUBSET (Cached \ workspaceSet)
  /\ main' = "cleanup"
  /\ UNCHANGED <<durableVars, rival, runs, result, scanVars, fileQVars, workerVars,
                 writeQVars, writerVars, removed>>

(* Fault: the removal is counted and never executed. *)
CleanupCountOnly(p) ==
  /\ main = "cleanup"
  /\ p \in toRemove
  /\ toRemove' = toRemove \ {p}
  /\ removed' = removed \cup {p}
  /\ UNCHANGED cache
  /\ UNCHANGED <<txn, mainVars, scanVars, fileQVars, workerVars, writeQVars, writerVars>>

CleanupRemove(p) ==
  /\ main = "cleanup"
  /\ p \in toRemove
  /\ \/ cache' = [cache EXCEPT ![p] = "none"]
     \/ "cleanup" \in Faults /\ UNCHANGED cache
  /\ toRemove' = toRemove \ {p}
  /\ removed' = removed \cup {p}
  /\ UNCHANGED <<txn, mainVars, scanVars, fileQVars, workerVars, writeQVars, writerVars>>

Return ==
  /\ main = "cleanup"
  /\ toRemove = {}
  /\ main' = "end"
  /\ result' = "Success"
  /\ UNCHANGED <<durableVars, rival, runs, threadVars>>

MainStep ==
  \/ Enter \/ AcquireLock \/ InitDatabase \/ JoinScanner \/ JoinWorkers \/ JoinWriter
  \/ \E p \in Paths : CleanupRemove(p)
  \/ Return

-----------------------------------------------------------------------------
(* The environment: the process dies, or is started again; another warmer  *)
(* takes and releases the lock.                                            *)

(* What a death of the process leaves in the cache: what was committed,    *)
(* and where BEGIN has failed some of the statements of the batch as well. *)
LeftBehind ==
  IF "begin" \in Faults /\ writerPc \in {"flush", "drain"} /\ txn = {}
  THEN {Execute(cache, rs) : rs \in SUBSET Batched}
  ELSE {cache}

Crash ==
  /\ "crash" \in Faults
  /\ main \notin {"idle", "end"}
  /\ ForgetThreads
  /\ cache' \in LeftBehind
  /\ txn' = {}
  /\ main' = "idle" /\ result' = "none"
  /\ UNCHANGED <<rival, runs>>

NextRun ==
  /\ main = "end"
  /\ runs < MaxRuns
  /\ ForgetThreads
  /\ main' = "idle" /\ result' = "none"
  /\ UNCHANGED <<durableVars, rival, runs>>

RivalLock ==
  /\ ~LockHeld
  /\ rival' = ~rival
  /\ UNCHANGED <<durableVars, runs, main, result, threadVars>>

Environment == Crash \/ NextRun \/ RivalLock

Next ==
  \/ MainStep
  \/ ScannerStep
  \/ \E w \in Workers : WorkerStep(w)
  \/ WriterStep
  \/ Environment

(* Every thread that can run is eventually run; the environment owes       *)
(* nothing.                                                                *)
Fairness ==
  /\ WF_vars(MainStep)
  /\ WF_vars(ScannerStep)
  /\ \A w \in Workers : WF_vars(WorkerStep(w))
  /\ WF_vars(WriterStep)

Spec == Init /\ [][Next]_vars /\ Fairness

-----------------------------------------------------------------------------
(* Properties. *)

DurableOK ==
  /\ cache \in [Paths -> Class]
  /\ txn \subseteq Requests

MainOK ==
  /\ rival \in BOOLEAN
  /\ runs \in 0..MaxRuns
  /\ main \in {"idle", "lock", "init", "joinScan", "joinWorkers", "joinWriter",
               "cleanup", "end"}
  /\ result \in {"none", "Success", "LockBusy", "DatabaseError"}

ScannerOK ==
  /\ toScan \subseteq Files
  /\ workspaceSet \subseteq Files
  /\ scanPc \in {"off", "scan", "push", "close", "end"}
  /\ scanHand \in Files \cup {NoFile}

FileQueueOK ==
  /\ fileQ \in Seq(Files)
  /\ Len(fileQ) <= FileQueueCap
  /\ fileDone \in BOOLEAN

WorkersOK ==
  /\ wPc \in [Workers -> {"off", "open", "pop", "look", "push", "merge", "end", "dead"}]
  /\ wHand \in [Workers -> Files \cup {NoFile}]
  /\ wReq \in [Workers -> {"none", "meta", "entry"}]
  /\ local \in [Workers -> [Kinds -> SUBSET Files]]
  /\ stats \in [Kinds -> SUBSET Files]

WriteQueueOK ==
  /\ writeQ \in Seq(Requests)
  /\ Len(writeQ) <= WriteQueueCap
  /\ writeDone \in BOOLEAN

WriterOK ==
  /\ writerPc \in {"off", "open", "pop", "flush", "drain", "exit", "end", "dead"}
  /\ batch \in Seq(Requests)
  /\ Len(batch) <= BatchSize
  /\ written \subseteq Files
  /\ unwritten \subseteq Files

CleanupOK ==
  /\ toRemove \subseteq Paths
  /\ removed \subseteq Paths

(* The types; the writer's batch never outgrows kBatch, the queues never   *)
(* outgrow their caps.                                                     *)
TypeOK ==
  /\ DurableOK
  /\ MainOK
  /\ ScannerOK
  /\ FileQueueOK
  /\ WorkersOK
  /\ WriteQueueOK
  /\ WriterOK
  /\ CleanupOK

(* The kinds of outcome a file ends with; missing and stale are reasons to *)
(* parse and are counted besides.                                          *)
Outcomes == {"valid", "updated", "failed"}

InFileQ(f)  == {i \in DOMAIN fileQ : fileQ[i] = f}
InHands(f)  == {w \in Workers : wHand[w] = f}
InLocals(f) == {wk \in Workers \X Outcomes : f \in local[wk[1]][wk[2]]}
InStats(f)  == {k \in Outcomes : f \in stats[k]}

(* Every emitted file is in exactly one place - the scanner's hand, the    *)
(* file queue, one worker's hand, one counter of one WarmStats - and no    *)
(* other file is in any: the pipeline neither loses nor doubles a file     *)
(* between scan_workspace_stream and WarmStats::merge.                     *)
FilesAccounted ==
  \A f \in Files :
    Cardinality(InFileQ(f)) + Cardinality(InHands(f)) + Cardinality(InLocals(f))
      + Cardinality(InStats(f)) + (IF scanHand = f THEN 1 ELSE 0)
    = IF f \in workspaceSet THEN 1 ELSE 0

(* markDone is called on each queue only when nobody can push to it any    *)
(* more, so no push is ever answered FALSE - the code ignores the answer,  *)
(* and a refused file or request would be lost silently.                   *)
NoPushRefused ==
  /\ scanPc = "push" => ~fileDone
  /\ \A w \in Workers : wPc[w] = "push" => ~writeDone

(* When warm_cache reports success, every file the scan emitted has been   *)
(* classified and its classification merged.  It takes one worker whose    *)
(* read connection opens.                                                  *)
SuccessMeansProcessed ==
  result = "Success" =>
    \A f \in workspaceSet : \E k \in Outcomes : f \in stats[k]

(* "Every enqueued write request survives the shutdown sequence": on       *)
(* success each file counted as updated was stored or counted as a writer  *)
(* failure.                                                                *)
RequestsSurvive ==
  result = "Success" => stats["updated"] \subseteq written \cup unwritten

(* On success, unless a COMMIT failed, the cache is warm: the entry of     *)
(* every file reported valid or updated matches the file, except where the *)
(* writer counted a failure.                                               *)
WarmedEntries ==
  result = "Success" /\ "commit" \notin Faults =>
    \A f \in (stats["valid"] \cup stats["updated"]) \ unwritten : cache[f] = "valid"

(* On success, unless the cleanup itself failed, no entry is left of a     *)
(* path that the scan did not emit.                                        *)
OnlyWorkspaceCached ==
  result = "Success" /\ "cleanup" \notin Faults => Cached \subseteq workspaceSet

(* No step of a warmer - least of all its death between any two steps -    *)
(* turns an entry that matches its file into one that does not, or removes *)
(* it.                                                                     *)
KeepsValid == \A f \in Files : cache[f] = "valid" => cache'[f] = "valid"
ValidEntriesKept == [][KeepsValid]_vars

(* A warm_cache that has started returns, unless its process dies: no      *)
(* thread waits for another that waits for it, whatever the sizes of the   *)
(* two queues.                                                             *)
WarmReturns == (main \notin {"idle", "end"}) ~> (main \in {"idle", "end"})

(* A workspace whose traversal gave up is not reported as Success:         *)
(* WarmResult has ScanError for it (cache-warm.h).                         *)
ScanFailureReported == result = "Success" => toScan = {}
=============================================================================
