--------------------------- MODULE CacheWarmProofs ---------------------------
(***************************************************************************)
(* Proofs about CacheWarm, for any set of files and orphans, any number of *)
(* workers, any queue and batch sizes and any number of runs.              *)
(***************************************************************************)
EXTENDS CacheWarm, SequenceTheorems, FiniteSetTheorems, TLAPS

(* A thread holds a file, and a request, exactly where its code says so;   *)
(* the writer looks for more requests only while its batch is not full.    *)
ScannerInv ==
  /\ ScannerOK
  /\ scanPc = "push" <=> scanHand # NoFile

WorkersInv ==
  /\ WorkersOK
  /\ \A w \in Workers : wPc[w] \in {"look", "push"} <=> wHand[w] # NoFile
  /\ \A w \in Workers : wPc[w] = "push" <=> wReq[w] # "none"

WriterInv ==
  /\ WriterOK
  /\ writerPc \in {"off", "open", "pop"} => Len(batch) < BatchSize

TypeInv ==
  /\ DurableOK
  /\ MainOK
  /\ ScannerInv
  /\ FileQueueOK
  /\ WorkersInv
  /\ WriteQueueOK
  /\ WriterInv
  /\ CleanupOK

-----------------------------------------------------------------------------
(* What the operations of a queue do to a well-typed, bounded sequence. *)
LEMMA AppendBounded ==
  ASSUME NEW S, NEW q \in Seq(S), NEW e \in S, NEW n \in Nat, Len(q) < n
  PROVE  Append(q, e) \in Seq(S) /\ Len(Append(q, e)) = Len(q) + 1
         /\ Len(Append(q, e)) <= n
BY AppendProperties, LenProperties

LEMMA TailBounded ==
  ASSUME NEW S, NEW q \in Seq(S), NEW n \in Nat, Len(q) <= n, q # <<>>
  PROVE  Head(q) \in S /\ Tail(q) \in Seq(S) /\ Len(Tail(q)) <= n
BY HeadTailProperties, LenProperties

LEMMA EmptyBounded ==
  ASSUME NEW S, NEW n \in Nat
  PROVE  <<>> \in Seq(S) /\ Len(<<>>) <= n /\ Len(<<>>) = 0
BY EmptySeq

(* Counting a file keeps the WarmStats of the workers well-typed. *)
LEMMA CountTyped ==
  ASSUME NEW w \in Workers, NEW ks, NEW f \in Files,
         local \in [Workers -> [Kinds -> SUBSET Files]], Count(w, ks, f)
  PROVE  local' \in [Workers -> [Kinds -> SUBSET Files]]
<1> DEFINE new == [k \in Kinds |-> IF k \in ks THEN local[w][k] \cup {f} ELSE local[w][k]]
<1>1. new \in [Kinds -> SUBSET Files]
  OBVIOUS
<1>2. local' = [local EXCEPT ![w] = new]
  BY DEF Count
<1> HIDE DEF new
<1> QED BY <1>1, <1>2

LEMMA NoStatsTyped == NoStats \in [Kinds -> SUBSET Files]
BY DEF NoStats

LEMMA TypeInvImpliesTypeOK == TypeInv => TypeOK
BY DEF TypeInv, TypeOK, ScannerInv, WorkersInv, WriterInv

(* What a step leaves alone stays well-typed. *)
LEMMA Frame ==
  ASSUME TypeInv
  PROVE  /\ UNCHANGED durableVars => DurableOK'
         /\ UNCHANGED mainVars => MainOK'
         /\ UNCHANGED scanVars => ScannerInv'
         /\ UNCHANGED fileQVars => FileQueueOK'
         /\ UNCHANGED workerVars => WorkersInv'
         /\ UNCHANGED writeQVars => WriteQueueOK'
         /\ UNCHANGED writerVars => WriterInv'
         /\ UNCHANGED cleanupVars => CleanupOK'
<1> USE DEF TypeInv
<1>1. UNCHANGED durableVars => DurableOK'
  BY DEF durableVars, DurableOK
<1>2. UNCHANGED mainVars => MainOK'
  BY DEF mainVars, MainOK
<1>3. UNCHANGED scanVars => ScannerInv'
  BY DEF scanVars, ScannerInv, ScannerOK
<1>4. UNCHANGED fileQVars => FileQueueOK'
  BY DEF fileQVars, FileQueueOK
<1>5. UNCHANGED workerVars => WorkersInv'
  BY DEF workerVars, WorkersInv, WorkersOK
<1>6. UNCHANGED writeQVars => WriteQueueOK'
  BY DEF writeQVars, WriteQueueOK
<1>7. UNCHANGED writerVars => WriterInv'
  BY DEF writerVars, WriterInv, WriterOK
<1>8. UNCHANGED cleanupVars => CleanupOK'
  BY DEF cleanupVars, CleanupOK
<1> QED BY <1>1, <1>2, <1>3, <1>4, <1>5, <1>6, <1>7, <1>8

(* A step of one worker that types its hand, its request and the counters. *)
LEMMA WorkerTyped ==
  ASSUME WorkersInv, NEW w \in Workers,
         NEW p \in {"off", "open", "pop", "look", "push", "merge", "end", "dead"},
         NEW h \in Files \cup {NoFile}, NEW r \in {"none", "meta", "entry"},
         wPc' = [wPc EXCEPT ![w] = p],
         wHand' = [wHand EXCEPT ![w] = h],
         wReq' = [wReq EXCEPT ![w] = r],
         p \in {"look", "push"} <=> h # NoFile,
         p = "push" <=> r # "none",
         local' \in [Workers -> [Kinds -> SUBSET Files]],
         stats' \in [Kinds -> SUBSET Files]
  PROVE  WorkersInv'
<1>1. /\ wPc' \in [Workers -> {"off", "open", "pop", "look", "push", "merge", "end", "dead"}]
      /\ wHand' \in [Workers -> Files \cup {NoFile}]
      /\ wReq' \in [Workers -> {"none", "meta", "entry"}]
  BY DEF WorkersInv, WorkersOK
<1>2. \A v \in Workers :
        /\ wPc'[v] = IF v = w THEN p ELSE wPc[v]
        /\ wHand'[v] = IF v = w THEN h ELSE wHand[v]
        /\ wReq'[v] = IF v = w THEN r ELSE wReq[v]
  BY DEF WorkersInv, WorkersOK
<1>3. \A v \in Workers : /\ wPc'[v] \in {"look", "push"} <=> wHand'[v] # NoFile
                         /\ wPc'[v] = "push" <=> wReq'[v] # "none"
  BY <1>2 DEF WorkersInv
<1> QED BY <1>1, <1>3 DEF WorkersInv, WorkersOK

LEMMA FreshTyped ==
  FreshThreads => /\ ScannerInv /\ FileQueueOK /\ WorkersInv
                  /\ WriteQueueOK /\ WriterInv /\ CleanupOK
<1> SUFFICES ASSUME FreshThreads
             PROVE  /\ ScannerInv /\ FileQueueOK /\ WorkersInv
                    /\ WriteQueueOK /\ WriterInv /\ CleanupOK
  OBVIOUS
<1> USE WarmAssumption
<1>1. <<>> \in Seq(Files) /\ <<>> \in Seq(Requests) /\ Len(<<>>) = 0
  BY EmptySeq
<1>2. ScannerInv
  <2>1. toScan = Files /\ workspaceSet = {} /\ scanPc = "off" /\ scanHand = NoFile
    BY DEF FreshThreads
  <2> QED BY <2>1 DEF ScannerInv, ScannerOK
<1>6. CleanupOK
  BY DEF FreshThreads, CleanupOK
<1>3. FileQueueOK /\ WriteQueueOK
  <2>1. fileQ = <<>> /\ writeQ = <<>> /\ fileDone = FALSE /\ writeDone = FALSE
    BY DEF FreshThreads, FQ!Init, WQ!Init
  <2>2. 0 <= FileQueueCap /\ 0 <= WriteQueueCap
    OBVIOUS
  <2> QED BY <1>1, <2>1, <2>2 DEF FileQueueOK, WriteQueueOK
<1>4. WorkersInv
  BY NoStatsTyped DEF FreshThreads, WorkersInv, WorkersOK
<1>5. WriterInv
  BY <1>1 DEF FreshThreads, WriterInv, WriterOK
<1> QED BY <1>2, <1>3, <1>4, <1>5, <1>6

(* A process that has gone leaves the threads as they start. *)
LEMMA ForgetIsFresh == ForgetThreads => FreshThreads'
BY DEF ForgetThreads, FreshThreads, FQ!Init, WQ!Init

(* Until the threads are started they are as the program starts them. *)
BeforeStart == main \in {"idle", "lock", "init"} => FreshThreads

LEMMA FreshFrame == FreshThreads /\ UNCHANGED threadVars => FreshThreads'
BY DEF FreshThreads, FQ!Init, WQ!Init, threadVars, scanVars, fileQVars, workerVars,
       writeQVars, writerVars, cleanupVars

(* No thread takes a step before it is started. *)
LEMMA ThreadsStarted ==
  ASSUME BeforeStart,
         ScannerStep \/ (\E w \in Workers : WorkerStep(w)) \/ WriterStep
  PROVE  main \notin {"idle", "lock", "init"} /\ main' = main
<1>1. CASE ScannerStep
  BY <1>1 DEF ScannerStep, ScanEmit, ScanPush, ScanStop, ScanClose, BeforeStart,
              FreshThreads, mainVars
<1>2. ASSUME NEW w \in Workers, WorkerStep(w)
      PROVE  main \notin {"idle", "lock", "init"} /\ main' = main
  BY <1>2 DEF WorkerStep, WorkerOpen, WorkerPop, WorkerLook, WorkerPush, WorkerMerge,
              BeforeStart, FreshThreads, mainVars
<1>3. CASE WriterStep
  BY <1>3 DEF WriterStep, WriterOpen, WriterPop, WriterFlush, WriterDrain, WriterExit,
              BeforeStart, FreshThreads, mainVars
<1> QED BY <1>1, <1>2, <1>3

LEMMA NextKeepsBeforeStart ==
  ASSUME BeforeStart, [Next]_vars
  PROVE  BeforeStart'
<1>1. CASE MainStep
  <2>1. CASE Enter \/ AcquireLock
    BY <2>1, FreshFrame DEF Enter, AcquireLock, BeforeStart
  <2>2. CASE InitDatabase \/ JoinScanner \/ JoinWorkers \/ JoinWriter \/ Return
    BY <2>2 DEF InitDatabase, JoinScanner, JoinWorkers, JoinWriter, Return, BeforeStart
  <2>3. ASSUME NEW p \in Paths, CleanupRemove(p) PROVE BeforeStart'
    BY <2>3 DEF CleanupRemove, BeforeStart, mainVars
  <2> QED BY <1>1, <2>1, <2>2, <2>3 DEF MainStep
<1>2. CASE ScannerStep \/ (\E w \in Workers : WorkerStep(w)) \/ WriterStep
  BY <1>2, ThreadsStarted DEF BeforeStart
<1>3. CASE Environment
  <2>1. CASE Crash \/ NextRun
    BY <2>1, ForgetIsFresh DEF Crash, NextRun, BeforeStart
  <2>2. CASE RivalLock
    BY <2>2, FreshFrame DEF RivalLock, BeforeStart
  <2> QED BY <1>3, <2>1, <2>2 DEF Environment
<1>4. CASE UNCHANGED vars
  BY <1>4, FreshFrame DEF vars, mainVars, BeforeStart
<1> QED BY <1>1, <1>2, <1>3, <1>4 DEF Next

LEMMA InitTypeInv == Init => TypeInv /\ BeforeStart
<1> SUFFICES ASSUME Init PROVE TypeInv /\ BeforeStart
  OBVIOUS
<1>1. DurableOK
  BY DEF Init, DurableOK
<1>2. MainOK
  BY WarmAssumption DEF Init, MainOK
<1> QED BY <1>1, <1>2, FreshTyped DEF Init, TypeInv, BeforeStart

LEMMA MainKeepsTypeInv ==
  ASSUME TypeInv, BeforeStart, MainStep
  PROVE  TypeInv'
<1>1. CASE Enter
  <2>1. MainOK'
    BY <1>1, WarmAssumption DEF Enter, TypeInv, MainOK
  <2> QED BY <1>1, <2>1, Frame DEF Enter, threadVars, TypeInv
<1>2. CASE AcquireLock
  <2>1. MainOK'
    BY <1>2 DEF AcquireLock, TypeInv, MainOK
  <2> QED BY <1>2, <2>1, Frame DEF AcquireLock, threadVars, TypeInv
<1>3. CASE InitDatabase
  <2>1. MainOK'
    BY <1>3 DEF InitDatabase, TypeInv, MainOK
  <2>f. FreshThreads
    BY <1>3 DEF InitDatabase, BeforeStart
  <2>2. ScannerInv'
    <3>1. scanPc' \in {"off", "scan"} /\ scanHand' = NoFile
          /\ UNCHANGED <<toScan, workspaceSet>>
      BY <1>3, <2>f DEF InitDatabase, FreshThreads
    <3> QED BY <3>1 DEF TypeInv, ScannerInv, ScannerOK
  <2>3. WorkersInv'
    <3>1. /\ wPc' \in {[w \in Workers |-> "off"], [w \in Workers |-> "open"]}
          /\ wHand' = [w \in Workers |-> NoFile] /\ wReq' = [w \in Workers |-> "none"]
          /\ UNCHANGED <<local, stats>>
      BY <1>3, <2>f DEF InitDatabase, FreshThreads
    <3> QED BY <3>1 DEF TypeInv, WorkersInv, WorkersOK
  <2>4. WriterInv'
    <3>1. writerPc' \in {"off", "open"} /\ writerPc = "off"
          /\ UNCHANGED <<batch, written, unwritten>>
      BY <1>3, <2>f DEF InitDatabase, FreshThreads
    <3> QED BY <3>1 DEF TypeInv, WriterInv, WriterOK
  <2> QED BY <1>3, <2>1, <2>2, <2>3, <2>4, Frame DEF InitDatabase, TypeInv
<1>4. CASE JoinScanner
  <2>1. MainOK'
    BY <1>4 DEF JoinScanner, TypeInv, MainOK
  <2> QED BY <1>4, <2>1, Frame DEF JoinScanner, threadVars, TypeInv
<1>5. CASE JoinWorkers
  <2>1. MainOK' /\ WriteQueueOK'
    BY <1>5 DEF JoinWorkers, WQ!MarkDone, TypeInv, MainOK, WriteQueueOK
  <2> QED BY <1>5, <2>1, Frame DEF JoinWorkers, TypeInv
<1>6. CASE JoinWriter
  <2>1. MainOK' /\ CleanupOK'
    BY <1>6 DEF JoinWriter, Cached, TypeInv, MainOK, CleanupOK
  <2> QED BY <1>6, <2>1, Frame DEF JoinWriter, TypeInv
<1>7. ASSUME NEW p \in Paths, CleanupRemove(p) PROVE TypeInv'
  <2>1. DurableOK' /\ CleanupOK'
    BY <1>7 DEF CleanupRemove, Class, TypeInv, DurableOK, CleanupOK
  <2> QED BY <1>7, <2>1, Frame DEF CleanupRemove, TypeInv
<1>8. CASE Return
  <2>1. MainOK'
    BY <1>8 DEF Return, TypeInv, MainOK
  <2> QED BY <1>8, <2>1, Frame DEF Return, threadVars, TypeInv
<1> QED BY <1>1, <1>2, <1>3, <1>4, <1>5, <1>6, <1>7, <1>8 DEF MainStep

(* A death between two autocommitted statements leaves entries of their    *)
(* types, and every valid one.                                             *)
LEMMA LeftBehindTyped ==
  ASSUME DurableOK, NEW c \in LeftBehind
  PROVE  /\ c \in [Paths -> Class]
         /\ \A p \in Paths : cache[p] = "valid" => c[p] = "valid"
BY DEF LeftBehind, DurableOK, Execute, Class

LEMMA EnvironmentKeepsTypeInv ==
  ASSUME TypeInv, Environment
  PROVE  TypeInv'
<1>1. CASE Crash \/ NextRun
  <2>1. MainOK'
    BY <1>1 DEF Crash, NextRun, TypeInv, MainOK
  <2>2. DurableOK'
    <3>1. CASE Crash
      BY <3>1, LeftBehindTyped DEF Crash, TypeInv, DurableOK
    <3>2. CASE NextRun
      BY <3>2 DEF NextRun, durableVars, TypeInv, DurableOK
    <3> QED BY <1>1, <3>1, <3>2
  <2>3. FreshThreads'
    BY <1>1, ForgetIsFresh DEF Crash, NextRun
  <2>4. (FreshThreads => /\ ScannerInv /\ FileQueueOK /\ WorkersInv
                         /\ WriteQueueOK /\ WriterInv /\ CleanupOK)'
    BY FreshTyped, PTL
  <2> QED BY <2>1, <2>2, <2>3, <2>4 DEF TypeInv
<1>2. CASE RivalLock
  <2>1. MainOK'
    BY <1>2 DEF RivalLock, TypeInv, MainOK
  <2> QED BY <1>2, <2>1, Frame DEF RivalLock, threadVars, TypeInv
<1> QED BY <1>1, <1>2 DEF Environment

LEMMA ScannerKeepsTypeInv ==
  ASSUME TypeInv, ScannerStep
  PROVE  TypeInv'
<1>1. ASSUME NEW f \in Files, ScanEmit(f) PROVE TypeInv'
  <2>1. ScannerInv'
    BY <1>1, NoFileAssumption DEF ScanEmit, TypeInv, ScannerInv, ScannerOK
  <2> QED BY <1>1, <2>1, Frame DEF ScanEmit, TypeInv
<1>2. CASE ScanPush
  <2>1. ScannerInv'
    BY <1>2 DEF ScanPush, TypeInv, ScannerInv, ScannerOK
  <2>2. FileQueueOK'
    <3>1. CASE FQ!Refuse
      BY <3>1 DEF FQ!Refuse, FQ!queueVars, TypeInv, FileQueueOK
    <3>2. CASE FQ!Accept(scanHand)
      <4>1. scanHand \in Files
        BY <1>2 DEF ScanPush, TypeInv, ScannerInv, ScannerOK
      <4> QED BY <3>2, <4>1, WarmAssumption, AppendBounded
              DEF FQ!Accept, TypeInv, FileQueueOK
    <3> QED BY <1>2, <3>1, <3>2 DEF ScanPush
  <2> QED BY <1>2, <2>1, <2>2, Frame DEF ScanPush, TypeInv
<1>3. CASE ScanStop
  <2>1. ScannerInv'
    BY <1>3 DEF ScanStop, TypeInv, ScannerInv, ScannerOK
  <2> QED BY <1>3, <2>1, Frame DEF ScanStop, TypeInv
<1>4. CASE ScanClose
  <2>1. ScannerInv' /\ FileQueueOK'
    BY <1>4 DEF ScanClose, FQ!MarkDone, TypeInv, ScannerInv, ScannerOK, FileQueueOK
  <2> QED BY <1>4, <2>1, Frame DEF ScanClose, TypeInv
<1> QED BY <1>1, <1>2, <1>3, <1>4 DEF ScannerStep

(* The state of one worker, rewritten as an update of each of its parts. *)
LEMMA WorkerSame ==
  ASSUME WorkersInv, NEW w \in Workers
  PROVE  /\ wHand = [wHand EXCEPT ![w] = wHand[w]] /\ wHand[w] \in Files \cup {NoFile}
         /\ wReq = [wReq EXCEPT ![w] = wReq[w]] /\ wReq[w] \in {"none", "meta", "entry"}
         /\ wPc[w] \in {"look", "push"} <=> wHand[w] # NoFile
         /\ wPc[w] = "push" <=> wReq[w] # "none"
         /\ local \in [Workers -> [Kinds -> SUBSET Files]]
         /\ stats \in [Kinds -> SUBSET Files]
BY DEF WorkersInv, WorkersOK

LEMMA WorkerKeepsTypeInv ==
  ASSUME TypeInv, NEW w \in Workers, WorkerStep(w)
  PROVE  TypeInv'
<1>1. CASE WorkerOpen(w)
  <2>1. WorkersInv'
    BY <1>1, WorkerSame, WorkerTyped DEF WorkerOpen, TypeInv
  <2> QED BY <1>1, <2>1, Frame DEF WorkerOpen, TypeInv
<1>2. CASE WorkerPop(w)
  <2>1. CASE FQ!Drained /\ wPc' = [wPc EXCEPT ![w] = "merge"] /\ UNCHANGED wHand
    <3>1. WorkersInv'
      <4>1. wHand[w] = NoFile /\ wReq[w] = "none"
        BY <1>2, WorkerSame DEF WorkerPop, TypeInv
      <4>2. /\ wHand' = [wHand EXCEPT ![w] = NoFile]
            /\ wReq' = [wReq EXCEPT ![w] = "none"]
        BY <1>2, <2>1, <4>1, WorkerSame DEF WorkerPop, TypeInv
      <4>3. /\ local' \in [Workers -> [Kinds -> SUBSET Files]]
            /\ stats' \in [Kinds -> SUBSET Files]
        BY <1>2, WorkerSame DEF WorkerPop, TypeInv
      <4> QED BY <2>1, <4>2, <4>3, WorkerTyped DEF TypeInv
    <3>2. UNCHANGED fileQVars
      BY <2>1 DEF FQ!Drained, FQ!queueVars, fileQVars
    <3> QED BY <1>2, <3>1, <3>2, Frame DEF WorkerPop, TypeInv
  <2>2. ASSUME NEW f \in Files, FQ!Take(f), wHand' = [wHand EXCEPT ![w] = f],
               wPc' = [wPc EXCEPT ![w] = "look"]
        PROVE  TypeInv'
    <3>1. FileQueueOK'
      BY <2>2, WarmAssumption, TailBounded DEF FQ!Take, TypeInv, FileQueueOK
    <3>2. WorkersInv'
      BY <1>2, <2>2, NoFileAssumption, WorkerSame, WorkerTyped DEF WorkerPop, TypeInv
    <3> QED BY <1>2, <3>1, <3>2, Frame DEF WorkerPop, TypeInv
  <2> QED BY <1>2, <2>1, <2>2 DEF WorkerPop
<1>3. CASE WorkerLook(w)
  <2>1. wHand[w] \in Files /\ wReq[w] = "none"
    BY <1>3, WorkerSame DEF WorkerLook, TypeInv
  <2>2. UNCHANGED stats
    BY <1>3 DEF WorkerLook
  <2>3. ASSUME NEW ks, LookDone(w, ks) PROVE WorkersInv'
    <3>1. local' \in [Workers -> [Kinds -> SUBSET Files]]
      BY <2>1, <2>3, WorkerSame, CountTyped DEF LookDone, TypeInv
    <3> QED BY <2>1, <2>2, <2>3, <3>1, WorkerSame, WorkerTyped DEF LookDone, TypeInv
  <2>4. ASSUME NEW ks, NEW kind \in {"meta", "entry"}, LookRequest(w, ks, kind)
        PROVE  WorkersInv'
    <3>1. local' \in [Workers -> [Kinds -> SUBSET Files]]
      BY <2>1, <2>4, WorkerSame, CountTyped DEF LookRequest, TypeInv
    <3> QED BY <2>1, <2>2, <2>4, <3>1, NoFileAssumption, WorkerSame, WorkerTyped
            DEF LookRequest, TypeInv
  <2>5. WorkersInv'
    BY <1>3, <2>3, <2>4 DEF WorkerLook
  <2> QED BY <1>3, <2>5, Frame DEF WorkerLook, TypeInv
<1>4. CASE WorkerPush(w)
  <2>1. wHand[w] \in Files /\ wReq[w] \in {"meta", "entry"}
    BY <1>4, WorkerSame DEF WorkerPush, TypeInv
  <2>2. local' \in [Workers -> [Kinds -> SUBSET Files]]
    BY <1>4, <2>1, WorkerSame, CountTyped DEF WorkerPush, TypeInv
  <2>3. WorkersInv'
    BY <1>4, <2>1, <2>2, WorkerSame, WorkerTyped DEF WorkerPush, TypeInv
  <2>4. WriteQueueOK'
    <3>1. CASE WQ!Refuse
      BY <3>1 DEF WQ!Refuse, WQ!queueVars, TypeInv, WriteQueueOK
    <3>2. CASE WQ!Accept([file |-> wHand[w], kind |-> wReq[w]])
      <4>1. [file |-> wHand[w], kind |-> wReq[w]] \in Requests
        BY <2>1 DEF Requests
      <4> QED BY <3>2, <4>1, WarmAssumption, AppendBounded
              DEF WQ!Accept, TypeInv, WriteQueueOK
    <3> QED BY <1>4, <3>1, <3>2 DEF WorkerPush
  <2> QED BY <1>4, <2>3, <2>4, Frame DEF WorkerPush, TypeInv
<1>5. CASE WorkerMerge(w)
  <2>1. /\ local' \in [Workers -> [Kinds -> SUBSET Files]]
        /\ stats' \in [Kinds -> SUBSET Files]
    BY <1>5, NoStatsTyped, WorkerSame DEF WorkerMerge, TypeInv
  <2>2. WorkersInv'
    BY <1>5, <2>1, WorkerSame, WorkerTyped, ZenonT(60) DEF WorkerMerge, TypeInv
  <2> QED BY <1>5, <2>2, Frame DEF WorkerMerge, TypeInv
<1> QED BY <1>1, <1>2, <1>3, <1>4, <1>5 DEF WorkerStep

(* Executing requests yields well-typed entries, and keeps the valid ones. *)
LEMMA ExecuteTyped ==
  ASSUME NEW c \in [Paths -> Class], NEW rs
  PROVE  /\ Execute(c, rs) \in [Paths -> Class]
         /\ \A p \in Paths : c[p] = "valid" => Execute(c, rs)[p] = "valid"
BY DEF Execute, Class

LEMMA BatchedTyped ==
  ASSUME batch \in Seq(Requests)
  PROVE  Batched \subseteq Requests
BY ElementOfSeq DEF Batched

LEMMA FlushTyped ==
  ASSUME TypeInv, FlushBatch
  PROVE  DurableOK' /\ written' \subseteq Files /\ unwritten' \subseteq Files
<1> PICK ok \in SUBSET Batched :
      /\ written' = written \cup FilesOf(ok)
      /\ unwritten' = unwritten \cup FilesOf(Batched \ ok)
      /\ \/ cache' = Execute(cache, txn \cup ok) /\ txn' = {}
         \/ txn' \in {txn \cup ok, {}} /\ UNCHANGED cache
  BY DEF FlushBatch
<1>1. ok \subseteq Requests /\ Batched \ ok \subseteq Requests
  BY BatchedTyped DEF TypeInv, WriterInv, WriterOK
<1>2. FilesOf(ok) \subseteq Files /\ FilesOf(Batched \ ok) \subseteq Files
  BY <1>1 DEF FilesOf, Requests
<1>3. DurableOK'
  BY <1>1, ExecuteTyped DEF TypeInv, DurableOK
<1> QED BY <1>2, <1>3 DEF TypeInv, WriterInv, WriterOK

LEMMA WriterKeepsTypeInv ==
  ASSUME TypeInv, WriterStep
  PROVE  TypeInv'
<1>1. CASE WriterOpen
  <2>1. WriterInv'
    BY <1>1 DEF WriterOpen, TypeInv, WriterInv, WriterOK
  <2> QED BY <1>1, <2>1, Frame DEF WriterOpen, TypeInv
<1>2. CASE WriterPop
  <2>1. ASSUME NEW r \in Requests, WQ!Take(r), batch' = Append(batch, r),
               writerPc' = IF Len(batch) + 1 >= BatchSize THEN "flush" ELSE "pop"
        PROVE  TypeInv'
    <3>1. WriteQueueOK'
      BY <2>1, WarmAssumption, TailBounded DEF WQ!Take, TypeInv, WriteQueueOK
    <3>2. /\ batch' \in Seq(Requests) /\ Len(batch') = Len(batch) + 1
          /\ Len(batch) < BatchSize /\ Len(batch) \in Nat /\ BatchSize \in Nat
      BY <1>2, <2>1, WarmAssumption, AppendBounded, LenProperties
         DEF WriterPop, TypeInv, WriterInv, WriterOK
    <3>3. WriterInv'
      BY <1>2, <2>1, <3>2 DEF WriterPop, TypeInv, WriterInv, WriterOK
    <3> QED BY <1>2, <3>1, <3>3, Frame DEF WriterPop, TypeInv
  <2>2. CASE WQ!Drained /\ writerPc' = "drain" /\ UNCHANGED batch
    <3>1. WriterInv'
      BY <1>2, <2>2 DEF WriterPop, TypeInv, WriterInv, WriterOK
    <3>2. UNCHANGED writeQVars
      BY <2>2 DEF WQ!Drained, WQ!queueVars, writeQVars
    <3> QED BY <1>2, <3>1, <3>2, Frame DEF WriterPop, TypeInv
  <2> QED BY <1>2, <2>1, <2>2 DEF WriterPop
<1>3. CASE WriterFlush \/ WriterDrain
  <2>1. DurableOK' /\ written' \subseteq Files /\ unwritten' \subseteq Files
    BY <1>3, FlushTyped DEF WriterFlush, WriterDrain, TypeInv, DurableOK, durableVars,
                           WriterInv, WriterOK
  <2>2. batch' \in Seq(Requests) /\ Len(batch') = 0 /\ 0 < BatchSize /\ 0 <= BatchSize
    <3>1. batch' = <<>> /\ BatchSize \in Nat \ {0}
      BY <1>3, WarmAssumption DEF WriterFlush, WriterDrain
    <3> QED BY <3>1, EmptySeq
  <2>3. WriterInv'
    BY <1>3, <2>1, <2>2 DEF WriterFlush, WriterDrain, WriterInv, WriterOK
  <2> QED BY <1>3, <2>1, <2>3, Frame DEF WriterFlush, WriterDrain, TypeInv
<1>4. CASE WriterExit
  <2>1. DurableOK' /\ WriterInv'
    BY <1>4 DEF WriterExit, TypeInv, DurableOK, WriterInv, WriterOK
  <2> QED BY <1>4, <2>1, Frame DEF WriterExit, TypeInv
<1> QED BY <1>1, <1>2, <1>3, <1>4 DEF WriterStep

LEMMA NextKeepsTypeInv ==
  ASSUME TypeInv, BeforeStart, [Next]_vars
  PROVE  TypeInv'
<1>1. CASE Next
  BY <1>1, MainKeepsTypeInv, ScannerKeepsTypeInv, WorkerKeepsTypeInv,
     WriterKeepsTypeInv, EnvironmentKeepsTypeInv DEF Next
<1>2. CASE UNCHANGED vars
  BY <1>2, Frame DEF vars, threadVars, TypeInv
<1> QED BY <1>1, <1>2

LEMMA TypeInvariance == Spec => [](TypeInv /\ BeforeStart)
<1>1. TypeInv /\ BeforeStart /\ [Next]_vars => (TypeInv /\ BeforeStart)'
  BY NextKeepsTypeInv, NextKeepsBeforeStart
<1> QED BY <1>1, InitTypeInv, PTL DEF Spec

(* Every variable keeps its type: the queues never outgrow their caps and  *)
(* the writer's batch never outgrows kBatch.                               *)
THEOREM TypeCorrect == Spec => []TypeOK
BY TypeInvariance, TypeInvImpliesTypeOK, PTL

-----------------------------------------------------------------------------
(* The order of the shutdown: each join waits for what it says, and a      *)
(* queue is closed only after everyone who pushes to it is gone.           *)
Phases ==
  /\ fileDone <=> scanPc = "end"
  /\ main \in {"joinWorkers", "joinWriter", "cleanup"} => scanPc = "end"
  /\ writeDone => WorkersGone
  /\ main \in {"joinWriter", "cleanup"} => writeDone
  /\ main = "cleanup" => writerPc \in {"end", "dead"}
  /\ result = "Success" => /\ main = "end" /\ writeDone /\ scanPc = "end"
                           /\ writerPc \in {"end", "dead"}

LEMMA InitPhases == Init => Phases
BY DEF Init, FreshThreads, FQ!Init, WQ!Init, Phases

LEMMA FreshPhases ==
  FreshThreads /\ main \in {"idle", "lock", "init", "end"} /\ result # "Success" => Phases
BY DEF FreshThreads, FQ!Init, WQ!Init, Phases

(* Threads neither close writeQueue nor move the main thread. *)
LEMMA WorkerEffect ==
  ASSUME TypeInv, NEW w \in Workers, WorkerStep(w)
  PROVE  /\ fileDone' = fileDone /\ writeDone' = writeDone
         /\ ~WorkersGone
         /\ \E p : wPc' = [wPc EXCEPT ![w] = p]
         /\ UNCHANGED <<durableVars, mainVars, scanVars, writerVars, cleanupVars>>
<1>1. CASE WorkerOpen(w)
  BY <1>1 DEF WorkerOpen, WorkersGone, fileQVars, writeQVars
<1>2. CASE WorkerPop(w)
  BY <1>2 DEF WorkerPop, WorkersGone, fileQVars, writeQVars, FQ!Take, FQ!Drained,
              FQ!queueVars
<1>3. CASE WorkerLook(w)
  BY <1>3 DEF WorkerLook, LookDone, LookRequest, WorkersGone, fileQVars, writeQVars
<1>4. CASE WorkerPush(w)
  BY <1>4 DEF WorkerPush, WorkersGone, fileQVars, writeQVars, WQ!Accept, WQ!Refuse,
              WQ!queueVars
<1>5. CASE WorkerMerge(w)
  BY <1>5 DEF WorkerMerge, WorkersGone, fileQVars, writeQVars
<1> QED BY <1>1, <1>2, <1>3, <1>4, <1>5 DEF WorkerStep

LEMMA ScannerEffect ==
  ASSUME TypeInv, ScannerStep
  PROVE  /\ scanPc \in {"scan", "push", "close"}
         /\ scanPc' = "end" => fileDone'
         /\ scanPc' # "end" => fileDone' = fileDone
         /\ UNCHANGED <<durableVars, mainVars, workerVars, writeQVars, writerVars,
                        cleanupVars>>
BY DEF ScannerStep, ScanEmit, ScanPush, ScanStop, ScanClose, FQ!Accept, FQ!Refuse,
       FQ!MarkDone, FQ!queueVars, fileQVars

LEMMA WriterEffect ==
  ASSUME TypeInv, WriterStep
  PROVE  /\ writerPc \in {"open", "pop", "flush", "drain", "exit"}
         /\ writeDone' = writeDone
         /\ UNCHANGED <<mainVars, scanVars, fileQVars, workerVars, cleanupVars>>
BY DEF WriterStep, WriterOpen, WriterPop, WriterFlush, WriterDrain, WriterExit,
       WQ!Take, WQ!Drained, WQ!queueVars, writeQVars

LEMMA NextKeepsPhases ==
  ASSUME TypeInv, BeforeStart, Phases, [Next]_vars
  PROVE  Phases'
<1>1. CASE MainStep
  <2> USE DEF Phases
  <2>1. CASE Enter \/ AcquireLock
    <3>1. FreshThreads'
      BY <2>1, FreshFrame DEF Enter, AcquireLock, BeforeStart
    <3>2. main' \in {"lock", "init", "end"} /\ result' # "Success"
      BY <2>1 DEF Enter, AcquireLock, TypeInv, MainOK
    <3>3. (FreshThreads /\ main \in {"idle", "lock", "init", "end"}
             /\ result # "Success" => Phases)'
      BY FreshPhases, PTL
    <3> QED BY <3>1, <3>2, <3>3
  <2>2. CASE InitDatabase
    BY <2>2 DEF InitDatabase, BeforeStart, FreshThreads, FQ!Init, WQ!Init, fileQVars,
                writeQVars
  <2>3. CASE JoinScanner
    BY <2>3 DEF JoinScanner, threadVars, scanVars, fileQVars, workerVars, writeQVars,
                writerVars, WorkersGone
  <2>4. CASE JoinWorkers
    BY <2>4 DEF JoinWorkers, WQ!MarkDone, scanVars, fileQVars, workerVars, writerVars,
                WorkersGone
  <2>5. CASE JoinWriter
    BY <2>5 DEF JoinWriter, scanVars, fileQVars, workerVars, writeQVars, writerVars,
                WorkersGone
  <2>6. ASSUME NEW p \in Paths, CleanupRemove(p) PROVE Phases'
    BY <2>6 DEF CleanupRemove, mainVars, scanVars, fileQVars, workerVars, writeQVars,
                writerVars, WorkersGone
  <2>7. CASE Return
    BY <2>7 DEF Return, threadVars, scanVars, fileQVars, workerVars, writeQVars,
                writerVars, WorkersGone
  <2> QED BY <1>1, <2>1, <2>2, <2>3, <2>4, <2>5, <2>6, <2>7 DEF MainStep
<1>2. CASE ScannerStep
  BY <1>2, ScannerEffect DEF Phases, mainVars, workerVars, writeQVars, writerVars, WorkersGone
<1>3. ASSUME NEW w \in Workers, WorkerStep(w) PROVE Phases'
  BY <1>3, WorkerEffect DEF Phases, mainVars, scanVars, writerVars
<1>4. CASE WriterStep
  BY <1>4, WriterEffect DEF Phases, mainVars, scanVars, fileQVars, workerVars, WorkersGone
<1>5. CASE Crash \/ NextRun
  <2>1. FreshThreads' /\ main' = "idle" /\ result' = "none"
    BY <1>5, ForgetIsFresh DEF Crash, NextRun
  <2>2. (FreshThreads /\ main \in {"idle", "lock", "init", "end"}
           /\ result # "Success" => Phases)'
    BY FreshPhases, PTL
  <2> QED BY <2>1, <2>2
<1>6. CASE RivalLock \/ UNCHANGED vars
  BY <1>6 DEF RivalLock, vars, mainVars, threadVars, scanVars, fileQVars, workerVars,
              writeQVars, writerVars, Phases, WorkersGone
<1> QED BY <1>1, <1>2, <1>3, <1>4, <1>5, <1>6 DEF Next, Environment

LEMMA PhaseInvariance == Spec => []Phases
<1>1. (TypeInv /\ BeforeStart) /\ Phases /\ [Next]_vars => Phases'
  BY NextKeepsPhases
<1> QED BY <1>1, InitPhases, TypeInvariance, PTL DEF Spec

(* No push is ever answered FALSE: whoever still pushes to a queue keeps   *)
(* it open.                                                                *)
THEOREM PushesAccepted == Spec => []NoPushRefused
<1>1. Phases => NoPushRefused
  BY DEF Phases, NoPushRefused, WorkersGone
<1> QED BY <1>1, PhaseInvariance, PTL

-----------------------------------------------------------------------------
(* What the scan has emitted and what the cleanup may remove. *)
ScanCoverage ==
  /\ toScan \cup workspaceSet = Files
  /\ "scan" \notin Faults /\ scanPc \in {"close", "end"} => toScan = {}
  /\ toRemove \cap workspaceSet = {}
  /\ toRemove # {} => main = "cleanup"

LEMMA InitScanCoverage == Init => ScanCoverage
BY DEF Init, FreshThreads, ScanCoverage

LEMMA NextKeepsScanCoverage ==
  ASSUME TypeInv, BeforeStart, Phases, ScanCoverage, [Next]_vars
  PROVE  ScanCoverage'
<1>1. CASE MainStep
  <2>1. CASE Enter \/ AcquireLock \/ JoinScanner \/ Return
    BY <1>1, <2>1 DEF Enter, AcquireLock, JoinScanner, Return, threadVars, scanVars,
                cleanupVars, ScanCoverage
  <2>2. CASE InitDatabase
    BY <2>2 DEF InitDatabase, BeforeStart, FreshThreads, cleanupVars, ScanCoverage
  <2>3. CASE JoinWorkers \/ JoinWriter
    BY <2>3 DEF JoinWorkers, JoinWriter, scanVars, cleanupVars, ScanCoverage
  <2>4. ASSUME NEW p \in Paths, CleanupRemove(p) PROVE ScanCoverage'
    BY <2>4 DEF CleanupRemove, mainVars, scanVars, ScanCoverage
  <2> QED BY <1>1, <2>1, <2>2, <2>3, <2>4 DEF MainStep
<1>2. CASE ScannerStep
  <2>1. toRemove = {}
    BY <1>2, ScannerEffect DEF ScanCoverage, Phases
  <2>2. toRemove' = {}
    BY <1>2, <2>1, ScannerEffect DEF cleanupVars
  <2>3. ASSUME NEW f \in Files, ScanEmit(f) PROVE ScanCoverage'
    BY <2>2, <2>3 DEF ScanEmit, ScanCoverage
  <2>4. CASE ScanPush \/ ScanStop \/ ScanClose
    BY <2>2, <2>4 DEF ScanPush, ScanStop, ScanClose, ScanCoverage
  <2> QED BY <1>2, <2>3, <2>4 DEF ScannerStep
<1>3. ASSUME NEW w \in Workers, WorkerStep(w) PROVE ScanCoverage'
  BY <1>3, WorkerEffect DEF mainVars, scanVars, cleanupVars, ScanCoverage
<1>4. CASE WriterStep
  BY <1>4, WriterEffect DEF mainVars, scanVars, cleanupVars, ScanCoverage
<1>5. CASE Crash \/ NextRun
  BY <1>5 DEF Crash, NextRun, ForgetThreads, ScanCoverage
<1>6. CASE RivalLock \/ UNCHANGED vars
  <2>1. UNCHANGED <<scanVars, cleanupVars, main>>
    BY <1>6 DEF RivalLock, vars, mainVars, threadVars
  <2> QED BY <2>1 DEF scanVars, cleanupVars, ScanCoverage
<1> QED BY <1>1, <1>2, <1>3, <1>4, <1>5, <1>6 DEF Next, Environment

LEMMA ScanInvariance == Spec => []ScanCoverage
<1>1. (TypeInv /\ BeforeStart) /\ Phases /\ ScanCoverage /\ [Next]_vars => ScanCoverage'
  BY NextKeepsScanCoverage
<1> QED BY <1>1, InitScanCoverage, TypeInvariance, PhaseInvariance, PTL DEF Spec

(* Executing requests never spoils a valid entry. *)
LEMMA FlushKeepsValid ==
  ASSUME TypeInv, FlushBatch
  PROVE  \A p \in Paths : cache[p] = "valid" => cache'[p] = "valid"
<1>1. \/ \E rs : cache' = Execute(cache, rs)
      \/ UNCHANGED cache
  BY DEF FlushBatch
<1> QED BY <1>1, ExecuteTyped DEF TypeInv, DurableOK

LEMMA StepKeepsValid ==
  ASSUME "scan" \notin Faults, TypeInv, BeforeStart, Phases, ScanCoverage, Next
  PROVE  KeepsValid
<1> USE DEF KeepsValid
<1>1. CASE MainStep
  <2>1. ASSUME NEW p \in Paths, CleanupRemove(p) PROVE KeepsValid
    <3>1. p \notin workspaceSet /\ workspaceSet = Files
      BY <2>1 DEF CleanupRemove, ScanCoverage, Phases
    <3> QED BY <2>1, <3>1 DEF CleanupRemove, TypeInv, DurableOK, Paths
  <2>2. CASE Enter \/ AcquireLock \/ InitDatabase \/ JoinScanner \/ JoinWorkers
             \/ JoinWriter \/ Return
    BY <2>2 DEF Enter, AcquireLock, InitDatabase, JoinScanner, JoinWorkers, JoinWriter,
                Return, durableVars
  <2> QED BY <1>1, <2>1, <2>2 DEF MainStep
<1>2. CASE ScannerStep \/ \E w \in Workers : WorkerStep(w)
  BY <1>2, ScannerEffect, WorkerEffect DEF durableVars
<1>3. CASE WriterStep
  <2>1. CASE FlushBatch
    BY <2>1, FlushKeepsValid DEF Paths
  <2>2. CASE UNCHANGED cache
    BY <2>2
  <2> QED BY <1>3, <2>1, <2>2 DEF WriterStep, WriterOpen, WriterPop, WriterFlush,
                                  WriterDrain, WriterExit, durableVars
<1>4. CASE Environment
  <2>1. CASE Crash
    BY <2>1, LeftBehindTyped DEF Crash, TypeInv, Paths
  <2>2. CASE NextRun \/ RivalLock
    BY <2>2 DEF NextRun, RivalLock, durableVars
  <2> QED BY <1>4, <2>1, <2>2 DEF Environment
<1> QED BY <1>1, <1>2, <1>3, <1>4 DEF Next

(* No step of a warmer, its death included, spoils or removes an entry     *)
(* that matches its file - as long as the traversal is complete.           *)
THEOREM WarmerKeepsValid ==
  ASSUME "scan" \notin Faults
  PROVE  Spec => ValidEntriesKept
<1>1. (TypeInv /\ BeforeStart) /\ Phases /\ ScanCoverage /\ [Next]_vars => [KeepsValid]_vars
  BY StepKeepsValid
<1> QED BY <1>1, TypeInvariance, PhaseInvariance, ScanInvariance, PTL
        DEF Spec, ValidEntriesKept

-----------------------------------------------------------------------------
(* Membership in a queue, and what Append and Tail do to it. *)
In(x, q) == \E i \in DOMAIN q : q[i] = x

LEMMA AppendCovers ==
  ASSUME NEW S, NEW q \in Seq(S), NEW e \in S
  PROVE  In(e, Append(q, e)) /\ \A x : In(x, q) => In(x, Append(q, e))
<1>1. /\ Len(Append(q, e)) = Len(q) + 1 /\ Len(q) \in Nat
      /\ Append(q, e)[Len(q) + 1] = e
      /\ \A i \in 1..Len(q) : Append(q, e)[i] = q[i]
      /\ DOMAIN Append(q, e) = 1..(Len(q) + 1) /\ DOMAIN q = 1..Len(q)
  BY AppendProperties, LenProperties
<1>2. Len(q) + 1 \in DOMAIN Append(q, e) /\ DOMAIN q \subseteq DOMAIN Append(q, e)
  BY <1>1
<1> QED BY <1>1, <1>2 DEF In

LEMMA TailCovers ==
  ASSUME NEW S, NEW q \in Seq(S), q # <<>>
  PROVE  \A x : In(x, q) => x = Head(q) \/ In(x, Tail(q))
<1>1. /\ Head(q) = q[1] /\ Len(Tail(q)) = Len(q) - 1 /\ Len(q) \in Nat
      /\ DOMAIN q = 1..Len(q) /\ DOMAIN Tail(q) = 1..(Len(q) - 1)
      /\ \A i \in 1..(Len(q) - 1) : Tail(q)[i] = q[i + 1]
  BY HeadTailProperties, LenProperties
<1> SUFFICES ASSUME NEW i \in 1..Len(q), i # 1
             PROVE  In(q[i], Tail(q))
  BY <1>1 DEF In
<1>2. i - 1 \in DOMAIN Tail(q) /\ Tail(q)[i - 1] = q[i]
  BY <1>1
<1> QED BY <1>2 DEF In

LEMMA NothingInEmpty == \A x : ~In(x, <<>>)
BY DEF In

(* Where an emitted file can be: FilesAccounted without the counting. *)
InLocal(f, w) == \E k \in Outcomes : f \in local[w][k]
Merged(f)     == \E k \in Outcomes : f \in stats[k]

HasPlace(f) ==
  \/ f = scanHand
  \/ In(f, fileQ)
  \/ \E w \in Workers : wHand[w] = f
  \/ \E w \in Workers : InLocal(f, w)
  \/ Merged(f)

FileFlow ==
  /\ \A f \in workspaceSet : HasPlace(f)
  /\ \A w \in Workers : wPc[w] \in {"merge", "end"} => fileDone /\ fileQ = <<>>
  /\ \A w \in Workers : wPc[w] \in {"off", "open", "end", "dead"} => local[w] = NoStats
  /\ \A w \in Workers : wPc[w] = "dead" => w \in UnreliableReaders

LEMMA FreshFileFlow == FreshThreads => FileFlow
BY DEF FreshThreads, FileFlow

(* What one worker does to the places, when nobody else moves. *)
LEMMA WorkerFlow ==
  ASSUME TypeInv, FileFlow, NEW w \in Workers, WorkerStep(w)
  PROVE  /\ \A v \in Workers \ {w} : /\ wHand'[v] = wHand[v] /\ local'[v] = local[v]
                                     /\ wPc'[v] = wPc[v]
         /\ \A k \in Outcomes : stats[k] \subseteq stats'[k]
         /\ \A f : In(f, fileQ) => In(f, fileQ') \/ f = wHand'[w]
         /\ fileQ = <<>> => fileQ' = <<>>
         /\ \A f \in Files : wHand[w] = f => wHand'[w] = f \/ InLocal(f, w)'
         /\ \A f \in Files : InLocal(f, w) => InLocal(f, w)' \/ Merged(f)'
         /\ wPc'[w] \in {"merge", "end"} => fileDone /\ fileQ = <<>>
         /\ wPc'[w] \in {"off", "open", "end", "dead"} => local'[w] = NoStats
         /\ wPc'[w] = "dead" => w \in UnreliableReaders
<1> USE DEF TypeInv, WorkersInv, WorkersOK
<1>c. ASSUME NEW ks, NEW k0 \in ks \cap Outcomes, Count(w, ks, wHand[w]), wHand[w] \in Files
      PROVE  /\ \A f \in Files : InLocal(f, w) => InLocal(f, w)'
             /\ (\A f \in Files : f = wHand[w] => InLocal(f, w)')
             /\ \A v \in Workers \ {w} : local'[v] = local[v]
  <2> DEFINE new == [k \in Kinds |-> IF k \in ks THEN local[w][k] \cup {wHand[w]} ELSE local[w][k]]
  <2>1. local' = [local EXCEPT ![w] = new]
    BY <1>c DEF Count
  <2>2. local'[w] = new /\ \A v \in Workers \ {w} : local'[v] = local[v]
    BY <2>1
  <2>3. Outcomes \subseteq Kinds
    BY DEF Outcomes, Kinds
  <2> QED BY <1>c, <2>2, <2>3 DEF InLocal
<1>m. ASSUME NEW ks, Count(w, ks, wHand[w]), wHand[w] \in Files
      PROVE  /\ \A f \in Files : InLocal(f, w) => InLocal(f, w)'
             /\ \A v \in Workers \ {w} : local'[v] = local[v]
  <2> DEFINE new == [k \in Kinds |-> IF k \in ks THEN local[w][k] \cup {wHand[w]} ELSE local[w][k]]
  <2>1. local' = [local EXCEPT ![w] = new]
    BY <1>m DEF Count
  <2>2. local'[w] = new /\ \A v \in Workers \ {w} : local'[v] = local[v]
    BY <2>1
  <2>3. Outcomes \subseteq Kinds
    BY DEF Outcomes, Kinds
  <2> QED BY <1>m, <2>2, <2>3 DEF InLocal
<1>1. CASE WorkerOpen(w)
  BY <1>1 DEF WorkerOpen, fileQVars, FileFlow, InLocal, Merged
<1>2. CASE WorkerPop(w)
  <2>1. CASE FQ!Drained /\ wPc' = [wPc EXCEPT ![w] = "merge"] /\ UNCHANGED wHand
    BY <1>2, <2>1 DEF WorkerPop, FQ!Drained, FQ!queueVars, InLocal
  <2>2. ASSUME NEW f \in Files, FQ!Take(f), wHand' = [wHand EXCEPT ![w] = f],
               wPc' = [wPc EXCEPT ![w] = "look"]
        PROVE  /\ \A g : In(g, fileQ) => In(g, fileQ') \/ g = wHand'[w]
               /\ fileQ # <<>> /\ wHand'[w] = f
               /\ \A v \in Workers \ {w} : wHand'[v] = wHand[v] /\ wPc'[v] = wPc[v]
               /\ wPc'[w] = "look"
    <3>1. fileQ # <<>> /\ f = Head(fileQ) /\ fileQ' = Tail(fileQ) /\ fileQ \in Seq(Files)
      BY <2>2 DEF FQ!Take, FileQueueOK
    <3> QED BY <2>2, <3>1, TailCovers
  <2>3. wHand[w] = NoFile /\ NoFile \notin Files /\ UNCHANGED <<local, stats>>
    BY <1>2, NoFileAssumption DEF WorkerPop
  <2> QED BY <1>2, <2>1, <2>2, <2>3 DEF WorkerPop, InLocal
<1>3. CASE WorkerLook(w)
  <2>1. wHand[w] \in Files /\ UNCHANGED <<fileQ, fileDone, stats>>
    BY <1>3 DEF WorkerLook, fileQVars
  <2>2. \/ \E ks, k0 : k0 \in ks \cap Outcomes /\ LookDone(w, ks)
        \/ \E ks, kind : LookRequest(w, ks, kind)
    <3>1. \/ \E c : \/ LookDone(w, {"valid"})
                    \/ LookDone(w, {"failed"})
                    \/ LookDone(w, {MissKind(c), "failed"})
                    \/ LookRequest(w, {}, "meta")
                    \/ LookRequest(w, {MissKind(c)}, "entry")
      BY <1>3 DEF WorkerLook
    <3> QED BY <3>1 DEF Outcomes
  <2>3. ASSUME NEW ks, NEW k0 \in ks \cap Outcomes, LookDone(w, ks)
        PROVE  /\ \A f \in Files : InLocal(f, w) => InLocal(f, w)'
               /\ (\A f \in Files : f = wHand[w] => InLocal(f, w)') /\ wPc'[w] = "pop"
               /\ \A v \in Workers \ {w} : wHand'[v] = wHand[v] /\ local'[v] = local[v]
                                           /\ wPc'[v] = wPc[v]
    BY <2>1, <2>3, <1>c DEF LookDone
  <2>4. ASSUME NEW ks, NEW kind, LookRequest(w, ks, kind)
        PROVE  /\ \A f \in Files : InLocal(f, w) => InLocal(f, w)'
               /\ wHand'[w] = wHand[w] /\ wPc'[w] = "push"
               /\ \A v \in Workers \ {w} : wHand'[v] = wHand[v] /\ local'[v] = local[v]
                                           /\ wPc'[v] = wPc[v]
    BY <2>1, <2>4, <1>m DEF LookRequest
  <2> QED BY <2>1, <2>2, <2>3, <2>4
<1>4. CASE WorkerPush(w)
  <2>1. wHand[w] \in Files /\ UNCHANGED <<fileQ, fileDone, stats>>
    BY <1>4 DEF WorkerPush, fileQVars
  <2>2. \E k0 \in Outcomes : Count(w, {k0}, wHand[w])
    BY <1>4 DEF WorkerPush, Outcomes
  <2>3. /\ \A f \in Files : InLocal(f, w) => InLocal(f, w)'
        /\ (\A f \in Files : f = wHand[w] => InLocal(f, w)')
        /\ \A v \in Workers \ {w} : local'[v] = local[v]
    BY <2>1, <2>2, <1>c
  <2>4. /\ wPc'[w] = "pop"
        /\ \A v \in Workers \ {w} : wHand'[v] = wHand[v] /\ wPc'[v] = wPc[v]
    BY <1>4 DEF WorkerPush
  <2> QED BY <2>1, <2>3, <2>4
<1>5. CASE WorkerMerge(w)
  <2>1. /\ \A k \in Outcomes : stats'[k] = stats[k] \cup local[w][k]
        /\ wPc'[w] = "end" /\ local'[w] = NoStats
        /\ UNCHANGED <<wHand, fileQ, fileDone>>
        /\ \A v \in Workers \ {w} : local'[v] = local[v] /\ wPc'[v] = wPc[v]
    BY <1>5 DEF WorkerMerge, fileQVars, Outcomes, Kinds
  <2>2. fileDone /\ fileQ = <<>>
    BY <1>5 DEF WorkerMerge, FileFlow
  <2> QED BY <2>1, <2>2 DEF InLocal, Merged
<1> QED BY <1>1, <1>2, <1>3, <1>4, <1>5 DEF WorkerStep

LEMMA WorkerKeepsFileFlow ==
  ASSUME TypeInv, FileFlow, NEW w \in Workers, WorkerStep(w)
  PROVE  FileFlow'
<1>1. workspaceSet' = workspaceSet /\ scanHand' = scanHand /\ fileDone' = fileDone
      /\ workspaceSet \subseteq Files
  BY WorkerEffect DEF scanVars, TypeInv, ScannerInv, ScannerOK
<1>2. ASSUME NEW f \in workspaceSet PROVE HasPlace(f)'
  <2>1. f \in Files /\ HasPlace(f)
    BY <1>1 DEF FileFlow
  <2>2. CASE f = scanHand
    BY <1>1, <2>2 DEF HasPlace
  <2>3. CASE In(f, fileQ)
    BY <2>3, WorkerFlow DEF HasPlace
  <2>4. CASE \E v \in Workers : wHand[v] = f
    <3>1. PICK v \in Workers : wHand[v] = f
      BY <2>4
    <3> QED BY <2>1, <3>1, WorkerFlow DEF HasPlace
  <2>5. CASE \E v \in Workers : InLocal(f, v)
    <3>1. PICK v \in Workers : InLocal(f, v)
      BY <2>5
    <3>2. CASE v = w
      BY <2>1, <3>1, <3>2, WorkerFlow DEF HasPlace
    <3>3. CASE v # w
      BY <3>1, <3>3, WorkerFlow DEF HasPlace, InLocal
    <3> QED BY <3>2, <3>3
  <2>6. CASE Merged(f)
    BY <2>6, WorkerFlow DEF HasPlace, Merged
  <2> QED BY <2>1, <2>2, <2>3, <2>4, <2>5, <2>6 DEF HasPlace
<1>3. ASSUME NEW v \in Workers
      PROVE  /\ wPc'[v] \in {"merge", "end"} => fileDone' /\ fileQ' = <<>>
             /\ wPc'[v] \in {"off", "open", "end", "dead"} => local'[v] = NoStats
             /\ wPc'[v] = "dead" => v \in UnreliableReaders
  <2>1. CASE v = w
    BY <1>1, <2>1, WorkerFlow
  <2>2. CASE v # w
    BY <1>1, <2>2, WorkerFlow DEF FileFlow
  <2> QED BY <2>1, <2>2
<1> QED BY <1>1, <1>2, <1>3 DEF FileFlow

LEMMA ScannerKeepsFileFlow ==
  ASSUME TypeInv, Phases, FileFlow, ScannerStep
  PROVE  FileFlow'
<1>w. /\ UNCHANGED <<wPc, wHand, local, stats>>
      /\ workspaceSet \subseteq Files /\ scanPc # "end" /\ ~fileDone
  BY ScannerEffect DEF workerVars, TypeInv, ScannerInv, ScannerOK, FileQueueOK, Phases
<1>p. ASSUME NEW f, HasPlace(f), In(f, fileQ) \/ f = scanHand => In(f, fileQ') \/ f = scanHand'
      PROVE  HasPlace(f)'
  BY <1>w, <1>p DEF HasPlace, InLocal, Merged
<1>m. \A v \in Workers : wPc'[v] \notin {"merge", "end"}
  BY <1>w DEF FileFlow
<1>r. \A v \in Workers : /\ wPc'[v] \in {"off", "open", "end", "dead"} => local'[v] = NoStats
                         /\ wPc'[v] = "dead" => v \in UnreliableReaders
  BY <1>w DEF FileFlow
<1>1. ASSUME NEW g \in Files, ScanEmit(g) PROVE FileFlow'
  <2>1. /\ scanHand = NoFile /\ NoFile \notin Files /\ scanHand' = g
        /\ fileQ' = fileQ /\ workspaceSet' = workspaceSet \cup {g}
    BY <1>1, NoFileAssumption DEF ScanEmit, fileQVars, TypeInv, ScannerInv
  <2>2. \A f \in workspaceSet' : HasPlace(f)'
    BY <1>p, <1>w, <2>1 DEF FileFlow, HasPlace
  <2> QED BY <1>m, <1>r, <2>2 DEF FileFlow
<1>2. CASE ScanPush
  <2>1. /\ scanHand \in Files /\ FQ!Accept(scanHand) /\ workspaceSet' = workspaceSet
    BY <1>2, <1>w DEF ScanPush, FQ!Refuse, TypeInv, ScannerInv, ScannerOK
  <2>2. \A f : In(f, fileQ) \/ f = scanHand => In(f, fileQ')
    BY <2>1, AppendCovers DEF FQ!Accept, TypeInv, FileQueueOK
  <2>3. \A f \in workspaceSet' : HasPlace(f)'
    BY <1>p, <2>1, <2>2 DEF FileFlow
  <2> QED BY <1>m, <1>r, <2>3 DEF FileFlow
<1>3. CASE ScanStop \/ ScanClose
  <2>1. UNCHANGED <<scanHand, workspaceSet, fileQ>>
    BY <1>3 DEF ScanStop, ScanClose, FQ!MarkDone, fileQVars
  <2>2. \A f \in workspaceSet' : HasPlace(f)'
    BY <1>p, <2>1 DEF FileFlow
  <2> QED BY <1>m, <1>r, <2>2 DEF FileFlow
<1> QED BY <1>1, <1>2, <1>3 DEF ScannerStep

LEMMA NextKeepsFileFlow ==
  ASSUME TypeInv, BeforeStart, Phases, FileFlow, [Next]_vars
  PROVE  FileFlow'
<1>f. ASSUME UNCHANGED <<scanVars, fileQVars, workerVars>> PROVE FileFlow'
  BY <1>f DEF FileFlow, HasPlace, InLocal, Merged, scanVars, fileQVars, workerVars
<1>1. CASE MainStep
  <2>1. CASE InitDatabase
    <3>1. /\ workspaceSet' = {} /\ local' = [v \in Workers |-> NoStats]
          /\ wPc' \in {[v \in Workers |-> "off"], [v \in Workers |-> "open"]}
      BY <2>1 DEF InitDatabase, BeforeStart, FreshThreads
    <3> QED BY <3>1 DEF FileFlow
  <2>2. CASE ~InitDatabase
    <3>1. UNCHANGED <<scanVars, fileQVars, workerVars>>
      BY <1>1, <2>2 DEF MainStep, Enter, AcquireLock, JoinScanner, JoinWorkers, JoinWriter,
                        CleanupRemove, Return, threadVars
    <3> QED BY <3>1, <1>f
  <2> QED BY <2>1, <2>2
<1>2. CASE ScannerStep
  BY <1>2, ScannerKeepsFileFlow
<1>3. ASSUME NEW w \in Workers, WorkerStep(w) PROVE FileFlow'
  BY <1>3, WorkerKeepsFileFlow
<1>4. CASE WriterStep
  BY <1>4, <1>f, WriterEffect
<1>5. CASE Crash \/ NextRun
  <2>1. FreshThreads'
    BY <1>5, ForgetIsFresh DEF Crash, NextRun
  <2>2. (FreshThreads => FileFlow)'
    BY FreshFileFlow, PTL
  <2> QED BY <2>1, <2>2
<1>6. CASE RivalLock \/ UNCHANGED vars
  BY <1>6, <1>f DEF RivalLock, vars, threadVars
<1> QED BY <1>1, <1>2, <1>3, <1>4, <1>5, <1>6 DEF Next, Environment

LEMMA FileFlowInvariance == Spec => []FileFlow
<1>1. Init => FileFlow
  BY FreshFileFlow DEF Init
<1>2. (TypeInv /\ BeforeStart) /\ Phases /\ FileFlow /\ [Next]_vars => FileFlow'
  BY NextKeepsFileFlow
<1> QED BY <1>1, <1>2, TypeInvariance, PhaseInvariance, PTL DEF Spec

(* A warm_cache that reports success has classified every file its scan    *)
(* emitted and merged the classification - as long as one worker can open  *)
(* its connection.                                                         *)
THEOREM SuccessIsProcessed ==
  ASSUME UnreliableReaders # Workers
  PROVE  Spec => []SuccessMeansProcessed
<1>1. ASSUME TypeInv, Phases, FileFlow, result = "Success", NEW f \in workspaceSet
      PROVE  \E k \in Outcomes : f \in stats[k]
  <2>1. PICK u \in Workers : u \notin UnreliableReaders
    BY WarmAssumption
  <2>2. WorkersGone /\ scanPc = "end"
    BY <1>1 DEF Phases
  <2>3. fileQ = <<>>
    BY <1>1, <2>1, <2>2 DEF FileFlow, WorkersGone
  <2>4. f \in Files /\ scanHand = NoFile /\ NoFile \notin Files
    BY <1>1, <2>2, NoFileAssumption DEF TypeInv, ScannerInv, ScannerOK
  <2>5. \A w \in Workers : wHand[w] = NoFile /\ local[w] = NoStats
    BY <1>1, <2>2 DEF TypeInv, WorkersInv, FileFlow, WorkersGone
  <2>6. \A w \in Workers : ~InLocal(f, w)
    BY <2>5 DEF InLocal, NoStats, Outcomes, Kinds
  <2> QED BY <1>1, <2>3, <2>4, <2>5, <2>6, NothingInEmpty DEF FileFlow, HasPlace, Merged
<1>2. (TypeInv /\ BeforeStart) /\ Phases /\ FileFlow => SuccessMeansProcessed
  BY <1>1 DEF SuccessMeansProcessed
<1> QED BY <1>2, TypeInvariance, PhaseInvariance, FileFlowInvariance, PTL

-----------------------------------------------------------------------------
(* Where a write request can be, once a worker has pushed it. *)
InReq(f, q) == \E r \in Requests : r.file = f /\ In(r, q)
Settled(f)  == f \in written \cup unwritten

UpdatedBy(w) == local[w]["updated"]
Updated(f)   == f \in stats["updated"] \/ \E w \in Workers : f \in UpdatedBy(w)

RequestFlow ==
  /\ \A f : Updated(f) => InReq(f, writeQ) \/ InReq(f, batch) \/ Settled(f)
  /\ writerPc = "dead" => "writer" \in Faults
  /\ writerPc \in {"drain", "exit", "end"} => writeDone /\ writeQ = <<>>
  /\ writerPc \in {"exit", "end"} => batch = <<>>

LEMMA FreshRequestFlow == FreshThreads => RequestFlow
BY DEF FreshThreads, RequestFlow, Updated, UpdatedBy, NoStats, Kinds

(* A file becomes "updated" only with the push of its request. *)
LEMMA WorkerRequests ==
  ASSUME TypeInv, Phases, NEW w \in Workers, WorkerStep(w)
  PROVE  /\ \A f : Updated(f)' => Updated(f) \/ InReq(f, writeQ)'
         /\ \A f : InReq(f, writeQ) => InReq(f, writeQ)'
         /\ ~writeDone
<1> USE DEF TypeInv, WorkersInv, WorkersOK
<1>0. ~writeDone
  BY WorkerEffect DEF Phases
<1>c. ASSUME NEW ks, Count(w, ks, wHand[w])
      PROVE  /\ \A v \in Workers \ {w} : UpdatedBy(v)' = UpdatedBy(v)
             /\ UpdatedBy(w)' \subseteq UpdatedBy(w) \cup {wHand[w]}
             /\ "updated" \notin ks => UpdatedBy(w)' = UpdatedBy(w)
  <2> DEFINE new == [k \in Kinds |-> IF k \in ks THEN local[w][k] \cup {wHand[w]} ELSE local[w][k]]
  <2>1. local' = [local EXCEPT ![w] = new]
    BY <1>c DEF Count
  <2>2. local'[w] = new /\ \A v \in Workers \ {w} : local'[v] = local[v]
    BY <2>1
  <2>3. "updated" \in Kinds
    BY DEF Kinds
  <2> QED BY <2>2, <2>3 DEF UpdatedBy
<1>q. ASSUME UNCHANGED <<writeQ, stats>>, \A v \in Workers : UpdatedBy(v)' = UpdatedBy(v)
      PROVE  /\ \A f : Updated(f)' => Updated(f)
             /\ \A f : InReq(f, writeQ) => InReq(f, writeQ)'
  BY <1>q DEF Updated, InReq
<1>1. CASE WorkerOpen(w) \/ WorkerPop(w)
  <2>1. UNCHANGED <<writeQ, stats, local>>
    BY <1>1 DEF WorkerOpen, WorkerPop, writeQVars
  <2> QED BY <1>0, <1>q, <2>1 DEF UpdatedBy
<1>2. CASE WorkerLook(w)
  <2>1. UNCHANGED <<writeQ, stats>>
    BY <1>2 DEF WorkerLook, writeQVars
  <2>2. \E ks : Count(w, ks, wHand[w]) /\ "updated" \notin ks
    <3>1. PICK c : \/ LookDone(w, {"valid"})
                   \/ LookRequest(w, {}, "meta")
                   \/ LookRequest(w, {MissKind(c)}, "entry")
                   \/ LookDone(w, {"failed"})
                   \/ LookDone(w, {MissKind(c), "failed"})
      BY <1>2 DEF WorkerLook
    <3>2. MissKind(c) # "updated"
      BY DEF MissKind
    <3> QED BY <3>1, <3>2 DEF LookDone, LookRequest
  <2> QED BY <1>0, <1>c, <1>q, <2>1, <2>2
<1>3. CASE WorkerPush(w)
  <2> DEFINE r == [file |-> wHand[w], kind |-> wReq[w]]
  <2>1. r \in Requests /\ r.file = wHand[w]
    <3>1. wHand[w] \in Files /\ wReq[w] \in {"meta", "entry"}
      BY <1>3 DEF WorkerPush
    <3> QED BY <3>1 DEF Requests
  <2>2. WQ!Accept(r)
    BY <1>0, <1>3 DEF WorkerPush, WQ!Refuse
  <2>3. In(r, writeQ') /\ \A x : In(x, writeQ) => In(x, writeQ')
    BY <2>1, <2>2, AppendCovers DEF WQ!Accept, WriteQueueOK
  <2>4. UNCHANGED stats /\ \E ks : Count(w, ks, wHand[w])
    BY <1>3 DEF WorkerPush
  <2>5. \A f : f = wHand[w] => InReq(f, writeQ)'
    BY <2>1, <2>3 DEF InReq
  <2>6. \A f : InReq(f, writeQ) => InReq(f, writeQ)'
    BY <2>3 DEF InReq
  <2>7. \A f : Updated(f)' => Updated(f) \/ f = wHand[w]
    BY <1>c, <2>4 DEF Updated
  <2> QED BY <1>0, <2>5, <2>6, <2>7
<1>4. CASE WorkerMerge(w)
  <2>1. /\ stats'["updated"] = stats["updated"] \cup local[w]["updated"]
        /\ \A v \in Workers : local'[v] = IF v = w THEN NoStats ELSE local[v]
        /\ NoStats["updated"] = {} /\ UNCHANGED writeQ
    BY <1>4 DEF WorkerMerge, Kinds, NoStats, writeQVars
  <2>2. \A f : Updated(f)' => Updated(f)
    BY <2>1 DEF Updated, UpdatedBy
  <2> QED BY <1>0, <2>1, <2>2 DEF InReq
<1> QED BY <1>1, <1>2, <1>3, <1>4 DEF WorkerStep

(* The writer moves a request from the queue to its batch, and settles all *)
(* of its batch at once.                                                   *)
LEMMA WriterKeepsRequestFlow ==
  ASSUME TypeInv, RequestFlow, WriterStep
  PROVE  RequestFlow'
<1>u. \A f : Updated(f)' <=> Updated(f)
  BY WriterEffect DEF workerVars, Updated, UpdatedBy
<1>d. writeDone' = writeDone
  BY WriterEffect
<1>1. CASE WriterOpen
  BY <1>1, <1>u DEF WriterOpen, writeQVars, RequestFlow, InReq, Settled
<1>2. CASE WriterPop
  <2>1. ASSUME NEW r \in Requests, WQ!Take(r), batch' = Append(batch, r),
               writerPc' \in {"flush", "pop"}
        PROVE  RequestFlow'
    <3>1. /\ \A x : In(x, writeQ) => x = r \/ In(x, writeQ')
          /\ In(r, batch') /\ \A x : In(x, batch) => In(x, batch')
      BY <2>1, TailCovers, AppendCovers
         DEF WQ!Take, TypeInv, WriteQueueOK, WriterInv, WriterOK
    <3>2. \A f : InReq(f, writeQ) \/ InReq(f, batch) => InReq(f, writeQ') \/ InReq(f, batch')
      BY <3>1 DEF InReq
    <3>3. UNCHANGED <<written, unwritten>>
      BY <1>2 DEF WriterPop
    <3> QED BY <1>u, <2>1, <3>2, <3>3 DEF RequestFlow, InReq, Settled
  <2>2. CASE WQ!Drained /\ writerPc' = "drain" /\ UNCHANGED batch
    BY <1>2, <1>u, <2>2 DEF WriterPop, WQ!Drained, WQ!queueVars, RequestFlow, InReq, Settled
  <2> QED BY <1>2, <2>1, <2>2 DEF WriterPop
<1>s. ASSUME FlushBatch
      PROVE  \A f : InReq(f, batch) \/ Settled(f) => Settled(f)'
  <2> PICK ok \in SUBSET Batched :
        /\ written' = written \cup FilesOf(ok)
        /\ unwritten' = unwritten \cup FilesOf(Batched \ ok)
    BY <1>s DEF FlushBatch
  <2>1. \A f : InReq(f, batch) => f \in FilesOf(ok) \/ f \in FilesOf(Batched \ ok)
    BY DEF InReq, In, Batched, FilesOf
  <2> QED BY <2>1 DEF Settled
<1>e. \A f : ~InReq(f, <<>>)
  BY NothingInEmpty DEF InReq
<1>3. CASE WriterFlush
  <2>1. UNCHANGED writeQ /\ batch' = <<>> /\ writerPc' = "pop" /\ FlushBatch
    BY <1>3 DEF WriterFlush, writeQVars
  <2> QED BY <1>s, <1>u, <2>1 DEF RequestFlow, InReq
<1>4. CASE WriterDrain
  <2>1. /\ UNCHANGED writeQ /\ batch' = <<>> /\ writerPc' = "exit" /\ writerPc = "drain"
        /\ FlushBatch \/ (batch = <<>> /\ UNCHANGED <<written, unwritten>>)
    BY <1>4 DEF WriterDrain, writeQVars
  <2>2. \A f : InReq(f, batch) \/ Settled(f) => Settled(f)'
    BY <1>s, <1>e, <2>1 DEF Settled
  <2> QED BY <1>d, <1>u, <2>1, <2>2 DEF RequestFlow, InReq
<1>5. CASE WriterExit
  BY <1>5, <1>u DEF WriterExit, writeQVars, RequestFlow, InReq, Settled
<1> QED BY <1>1, <1>2, <1>3, <1>4, <1>5 DEF WriterStep

LEMMA NextKeepsRequestFlow ==
  ASSUME TypeInv, BeforeStart, Phases, RequestFlow, [Next]_vars
  PROVE  RequestFlow'
<1>f. ASSUME UNCHANGED <<workerVars, writeQ, writerVars>>, writeDone => writeDone'
      PROVE  RequestFlow'
  BY <1>f DEF RequestFlow, Updated, UpdatedBy, InReq, Settled, workerVars, writerVars
<1>1. CASE MainStep
  <2>1. CASE InitDatabase
    BY <2>1 DEF InitDatabase, BeforeStart, FreshThreads, RequestFlow, Updated, UpdatedBy,
                InReq, Settled, NoStats, Kinds
  <2>2. CASE JoinWorkers
    BY <2>2, <1>f DEF JoinWorkers, WQ!MarkDone
  <2>3. CASE ~InitDatabase /\ ~JoinWorkers
    <3>1. UNCHANGED <<workerVars, writeQVars, writerVars>>
      BY <1>1, <2>3 DEF MainStep, Enter, AcquireLock, JoinScanner, JoinWriter,
                        CleanupRemove, Return, threadVars
    <3> QED BY <3>1, <1>f DEF writeQVars
  <2> QED BY <2>1, <2>2, <2>3
<1>2. CASE ScannerStep
  BY <1>2, <1>f, ScannerEffect DEF writeQVars
<1>3. ASSUME NEW w \in Workers, WorkerStep(w) PROVE RequestFlow'
  <2>1. UNCHANGED <<writerPc, batch, written, unwritten>>
    BY <1>3, WorkerEffect DEF writerVars
  <2>2. ~writeDone /\ writeDone' = writeDone
    BY <1>3, WorkerRequests, WorkerEffect
  <2>3. writerPc' \notin {"drain", "exit", "end"}
    BY <2>1, <2>2 DEF RequestFlow
  <2>4. ASSUME NEW f, Updated(f)'
        PROVE  InReq(f, writeQ)' \/ InReq(f, batch) \/ Settled(f)
    BY <1>3, <2>4, WorkerRequests DEF RequestFlow
  <2> QED BY <2>1, <2>3, <2>4 DEF RequestFlow, InReq, Settled
<1>4. CASE WriterStep
  BY <1>4, WriterKeepsRequestFlow
<1>5. CASE Crash \/ NextRun
  <2>1. FreshThreads'
    BY <1>5, ForgetIsFresh DEF Crash, NextRun
  <2>2. (FreshThreads => RequestFlow)'
    BY FreshRequestFlow, PTL
  <2> QED BY <2>1, <2>2
<1>6. CASE RivalLock \/ UNCHANGED vars
  BY <1>6, <1>f DEF RivalLock, vars, threadVars, writeQVars
<1> QED BY <1>1, <1>2, <1>3, <1>4, <1>5, <1>6 DEF Next, Environment

(* Every enqueued write request survives the shutdown sequence, as long as *)
(* the writer can open its connection.                                     *)
THEOREM RequestsAreSettled ==
  ASSUME "writer" \notin Faults
  PROVE  Spec => []RequestsSurvive
<1>1. Init => RequestFlow
  BY FreshRequestFlow DEF Init
<1>2. (TypeInv /\ BeforeStart) /\ Phases /\ RequestFlow /\ [Next]_vars => RequestFlow'
  BY NextKeepsRequestFlow
<1>3. Phases /\ RequestFlow => RequestsSurvive
  <2> SUFFICES ASSUME Phases, RequestFlow, result = "Success", NEW f \in stats["updated"]
               PROVE  f \in written \cup unwritten
    BY DEF RequestsSurvive
  <2>1. writerPc = "end" /\ writeQ = <<>> /\ batch = <<>>
    BY DEF Phases, RequestFlow
  <2> QED BY <2>1, NothingInEmpty DEF RequestFlow, Updated, InReq, Settled
<1> QED BY <1>1, <1>2, <1>3, TypeInvariance, PhaseInvariance, PTL DEF Spec

-----------------------------------------------------------------------------
(* What the cleanup has still to remove.  By the time it runs nobody else  *)
(* writes to the cache, and after it nobody does.                          *)
CleanupLeft ==
  /\ main = "cleanup" => Cached \ workspaceSet \subseteq toRemove
  /\ result = "Success" => Cached \subseteq workspaceSet

LEMMA NextKeepsCleanup ==
  ASSUME "cleanup" \notin Faults, TypeInv, BeforeStart, Phases, CleanupLeft, [Next]_vars
  PROVE  CleanupLeft'
<1>f. ASSUME UNCHANGED <<cache, main, result, workspaceSet, toRemove>> PROVE CleanupLeft'
  BY <1>f DEF CleanupLeft, Cached
<1>1. CASE MainStep
  <2>1. CASE Enter \/ AcquireLock \/ InitDatabase
    <3>1. main' # "cleanup" /\ result # "Success" /\ result' # "Success"
      BY <2>1 DEF Enter, AcquireLock, InitDatabase, Phases
    <3> QED BY <3>1 DEF CleanupLeft
  <2>2. CASE JoinScanner \/ JoinWorkers
    <3>1. main' # "cleanup" /\ result # "Success" /\ result' = result
      BY <2>2 DEF JoinScanner, JoinWorkers, Phases
    <3> QED BY <3>1 DEF CleanupLeft
  <2>3. CASE JoinWriter
    <3>1. /\ toRemove' = Cached \ workspaceSet /\ result # "Success"
          /\ UNCHANGED <<cache, workspaceSet, result>>
      BY <2>3 DEF JoinWriter, durableVars, scanVars, Phases
    <3> QED BY <3>1 DEF CleanupLeft, Cached
  <2>4. ASSUME NEW p \in Paths, CleanupRemove(p) PROVE CleanupLeft'
    <3>1. /\ cache' = [cache EXCEPT ![p] = "none"] /\ toRemove' = toRemove \ {p}
          /\ main = "cleanup" /\ result # "Success"
          /\ UNCHANGED <<main, result, workspaceSet>>
      BY <2>4 DEF CleanupRemove, mainVars, scanVars, Phases
    <3>2. Cached' = Cached \ {p}
      BY <3>1 DEF Cached, TypeInv, DurableOK
    <3> QED BY <3>1, <3>2 DEF CleanupLeft
  <2>5. CASE Return
    BY <2>5 DEF Return, durableVars, threadVars, scanVars, CleanupLeft, Cached
  <2> QED BY <1>1, <2>1, <2>2, <2>3, <2>4, <2>5 DEF MainStep
<1>2. CASE ScannerStep
  <2>1. main # "cleanup" /\ result # "Success" /\ UNCHANGED <<main, result>>
    BY <1>2, ScannerEffect DEF Phases, mainVars
  <2> QED BY <2>1 DEF CleanupLeft
<1>3. ASSUME NEW w \in Workers, WorkerStep(w) PROVE CleanupLeft'
  BY <1>3, <1>f, WorkerEffect DEF durableVars, mainVars, scanVars, cleanupVars
<1>4. CASE WriterStep
  <2>1. main # "cleanup" /\ result # "Success" /\ UNCHANGED <<main, result>>
    BY <1>4, WriterEffect DEF Phases, mainVars
  <2> QED BY <2>1 DEF CleanupLeft
<1>5. CASE Crash \/ NextRun
  BY <1>5 DEF Crash, NextRun, CleanupLeft
<1>6. CASE RivalLock \/ UNCHANGED vars
  BY <1>6, <1>f DEF RivalLock, vars, durableVars, mainVars, threadVars, scanVars, cleanupVars
<1> QED BY <1>1, <1>2, <1>3, <1>4, <1>5, <1>6 DEF Next, Environment

(* After a warm_cache that reports success no path is cached that its scan *)
(* did not emit, unless the cleanup failed.                                *)
THEOREM StaleEntriesRemoved == Spec => []OnlyWorkspaceCached
<1>1. CASE "cleanup" \in Faults
  <2>1. OnlyWorkspaceCached
    BY <1>1 DEF OnlyWorkspaceCached
  <2> QED BY <2>1, PTL
<1>2. CASE "cleanup" \notin Faults
  <2>1. Init => CleanupLeft
    BY DEF Init, CleanupLeft
  <2>2. (TypeInv /\ BeforeStart) /\ Phases /\ CleanupLeft /\ [Next]_vars => CleanupLeft'
    BY <1>2, NextKeepsCleanup
  <2>3. CleanupLeft => OnlyWorkspaceCached
    BY DEF CleanupLeft, OnlyWorkspaceCached
  <2> QED BY <2>1, <2>2, <2>3, TypeInvariance, PhaseInvariance, PTL DEF Spec
<1> QED BY <1>1, <1>2

-----------------------------------------------------------------------------
(* What is known of the entry of a file that is reported valid or updated: *)
(* it matches, or the request that will make it match is still on its way, *)
(* or the writer has counted a failure.  A metadata update mends an entry  *)
(* only if nothing but the stat is wrong with it.                          *)
Mendable(f) == cache[f] \in {"touched", "valid"}
Mends(r)    == r.kind = "meta" => Mendable(r.file)

WarmBy(w) == local[w]["valid"] \cup local[w]["updated"]
Warm(f)   == f \in stats["valid"] \cup stats["updated"] \/ \E w \in Workers : f \in WarmBy(w)

HeldMends == \A w \in Workers : wReq[w] = "meta" => Mendable(wHand[w])

EntryFlow ==
  /\ txn = {}
  /\ HeldMends
  /\ \A r \in Requests : In(r, writeQ) \/ In(r, batch) => Mends(r)
  /\ \A f \in Files : Warm(f) => \/ cache[f] = "valid" \/ f \in unwritten
                                 \/ InReq(f, writeQ) \/ InReq(f, batch)

LEMMA FreshEntryFlow == FreshThreads /\ txn = {} => EntryFlow
<1>1. FreshThreads => /\ writeQ = <<>> /\ batch = <<>>
                      /\ \A w \in Workers : wReq[w] = "none" /\ local[w] = NoStats
                      /\ stats = NoStats
  BY DEF FreshThreads, WQ!Init
<1>2. FreshThreads => \A f : ~Warm(f)
  BY <1>1 DEF Warm, WarmBy, NoStats, Kinds
<1> QED BY <1>1, <1>2, NothingInEmpty DEF EntryFlow, HeldMends

(* What a queue holds after Append and Tail was put there before. *)
LEMMA AppendAdds ==
  ASSUME NEW S, NEW q \in Seq(S), NEW e \in S
  PROVE  \A x : In(x, Append(q, e)) => In(x, q) \/ x = e
<1>1. /\ Len(q) \in Nat /\ Append(q, e)[Len(q) + 1] = e
      /\ \A i \in 1..Len(q) : Append(q, e)[i] = q[i]
      /\ DOMAIN Append(q, e) = 1..(Len(q) + 1) /\ DOMAIN q = 1..Len(q)
  BY AppendProperties, LenProperties
<1> QED BY <1>1 DEF In

LEMMA TailSheds ==
  ASSUME NEW S, NEW q \in Seq(S), q # <<>>
  PROVE  In(Head(q), q) /\ \A x : In(x, Tail(q)) => In(x, q)
<1>1. /\ Head(q) = q[1] /\ Len(q) \in Nat \ {0}
      /\ DOMAIN q = 1..Len(q) /\ DOMAIN Tail(q) = 1..(Len(q) - 1)
      /\ \A i \in 1..(Len(q) - 1) : Tail(q)[i] = q[i + 1]
  BY HeadTailProperties, LenProperties, EmptySeq
<1>2. \A i \in 1..(Len(q) - 1) : i + 1 \in 1..Len(q)
  BY <1>1
<1>3. 1 \in DOMAIN q
  BY <1>1
<1> QED BY <1>1, <1>2, <1>3 DEF In

(* A step either leaves the entry of a file alone or makes it match. *)
LEMMA EntriesOnlyMend ==
  ASSUME "scan" \notin Faults, TypeInv, BeforeStart, Phases, ScanCoverage, Next
  PROVE  \A f \in Files : cache'[f] \in {cache[f], "valid"}
<1> DEFINE OnlyMend == \A f \in Files : cache'[f] \in {cache[f], "valid"}
<1>u. UNCHANGED cache => OnlyMend
  OBVIOUS
<1>1. CASE MainStep
  <2>1. ASSUME NEW p \in Paths, CleanupRemove(p) PROVE OnlyMend
    <3>1. p \notin workspaceSet /\ workspaceSet = Files
      BY <2>1 DEF CleanupRemove, ScanCoverage, Phases
    <3> QED BY <2>1, <3>1 DEF CleanupRemove, TypeInv, DurableOK, Paths
  <2>2. CASE Enter \/ AcquireLock \/ InitDatabase \/ JoinScanner \/ JoinWorkers
             \/ JoinWriter \/ Return
    BY <1>u, <2>2 DEF Enter, AcquireLock, InitDatabase, JoinScanner, JoinWorkers, JoinWriter,
                Return, durableVars
  <2> QED BY <1>1, <2>1, <2>2 DEF MainStep
<1>2. CASE ScannerStep \/ \E w \in Workers : WorkerStep(w)
  BY <1>2, <1>u, ScannerEffect, WorkerEffect DEF durableVars
<1>3. CASE WriterStep
  <2>1. CASE FlushBatch
    <3>1. \/ \E rs : cache' = Execute(cache, rs)
          \/ UNCHANGED cache
      BY <2>1 DEF FlushBatch
    <3> QED BY <3>1 DEF Execute, Paths
  <2> QED BY <1>3, <1>u, <2>1 DEF WriterStep, WriterOpen, WriterPop, WriterFlush,
                                  WriterDrain, WriterExit, durableVars
<1>4. CASE Environment
  <2>1. CASE Crash
    BY <2>1, <1>u DEF Crash, LeftBehind, Execute, Paths
  <2>2. CASE NextRun \/ RivalLock
    BY <2>2, <1>u DEF NextRun, RivalLock, durableVars
  <2> QED BY <1>4, <2>1, <2>2 DEF Environment
<1> QED BY <1>1, <1>2, <1>3, <1>4 DEF Next

(* What one worker does to the counters, the requests and their promises.  *)
(* A file is counted as valid without a request only if its entry matches. *)
LEMMA WorkerEntries ==
  ASSUME TypeInv, Phases, EntryFlow, NEW w \in Workers, WorkerStep(w)
  PROVE  /\ \A f \in Files : Warm(f)' => Warm(f) \/ cache[f] = "valid" \/ InReq(f, writeQ)'
         /\ \A f : InReq(f, writeQ) => InReq(f, writeQ)'
         /\ \A v \in Workers : wReq'[v] = "meta" => Mendable(wHand'[v])
         /\ \A r \in Requests : In(r, writeQ') => In(r, writeQ) \/ Mends(r)
<1> USE DEF TypeInv, WorkersInv, WorkersOK
<1>0. ~writeDone
  BY WorkerEffect DEF Phases
<1>c. ASSUME NEW ks, Count(w, ks, wHand[w])
      PROVE  /\ \A v \in Workers \ {w} : WarmBy(v)' = WarmBy(v)
             /\ WarmBy(w)' \subseteq WarmBy(w) \cup {wHand[w]}
             /\ ks \cap {"valid", "updated"} = {} => WarmBy(w)' = WarmBy(w)
  <2> DEFINE new == [k \in Kinds |-> IF k \in ks THEN local[w][k] \cup {wHand[w]} ELSE local[w][k]]
  <2>1. local' = [local EXCEPT ![w] = new]
    BY <1>c DEF Count
  <2>2. local'[w] = new /\ \A v \in Workers \ {w} : local'[v] = local[v]
    BY <2>1
  <2>3. "updated" \in Kinds /\ "valid" \in Kinds
    BY DEF Kinds
  <2> QED BY <2>2, <2>3 DEF WarmBy
<1>q. UNCHANGED writeQ => /\ \A f : InReq(f, writeQ) => InReq(f, writeQ)'
                          /\ \A r : In(r, writeQ') => In(r, writeQ)
  BY DEF InReq
<1>1. CASE WorkerOpen(w) \/ WorkerPop(w)
  <2>1. UNCHANGED <<writeQ, stats, local, wReq>>
    BY <1>1 DEF WorkerOpen, WorkerPop, writeQVars
  <2>2. wReq[w] = "none" /\ \A v \in Workers \ {w} : wHand'[v] = wHand[v]
    BY <1>1 DEF WorkerOpen, WorkerPop
  <2>3. \A v \in Workers : wReq'[v] = "meta" => Mendable(wHand'[v])
    BY <2>1, <2>2 DEF EntryFlow, HeldMends
  <2> QED BY <1>q, <2>1, <2>3 DEF Warm, WarmBy
<1>2. CASE WorkerLook(w)
  <2>1. UNCHANGED <<writeQ, stats>> /\ wHand[w] \in Files
    BY <1>2 DEF WorkerLook, writeQVars
  <2>2. PICK c \in Looked(wHand[w]) :
       \/ c = "valid" /\ LookDone(w, {"valid"})
       \/ c = "touched" /\ LookRequest(w, {}, "meta")
       \/ LookRequest(w, {MissKind(c)}, "entry")
       \/ LookDone(w, {"failed"})
       \/ LookDone(w, {MissKind(c), "failed"})
    BY <1>2 DEF WorkerLook
  <2>3. c # "none" => cache[wHand[w]] = c
    BY <2>2 DEF Looked
  <2>4. \A v \in Workers \ {w} : wHand'[v] = wHand[v] /\ wReq'[v] = wReq[v]
    BY <2>2 DEF LookDone, LookRequest
  <2>5. wReq'[w] = "meta" => Mendable(wHand'[w])
    <3>1. CASE \E ks : LookDone(w, ks)
      BY <1>2, <3>1 DEF LookDone, WorkerLook
    <3>2. CASE c = "touched" /\ LookRequest(w, {}, "meta")
      BY <2>3, <3>2 DEF LookRequest, Mendable
    <3>3. CASE LookRequest(w, {MissKind(c)}, "entry")
      BY <3>3 DEF LookRequest
    <3> QED BY <2>2, <3>1, <3>2, <3>3
  <2>6. \A v \in Workers : wReq'[v] = "meta" => Mendable(wHand'[v])
    BY <2>4, <2>5 DEF EntryFlow, HeldMends
  <2>7. \/ cache[wHand[w]] = "valid" /\ \E ks : Count(w, ks, wHand[w])
        \/ \E ks : Count(w, ks, wHand[w]) /\ ks \cap {"valid", "updated"} = {}
    <3>1. MissKind(c) \in {"missing", "stale"}
      BY DEF MissKind
    <3>2. CASE c = "valid" /\ LookDone(w, {"valid"})
      BY <2>3, <3>2 DEF LookDone
    <3>3. CASE \/ LookRequest(w, {}, "meta") \/ LookRequest(w, {MissKind(c)}, "entry")
               \/ LookDone(w, {"failed"}) \/ LookDone(w, {MissKind(c), "failed"})
      BY <3>1, <3>3 DEF LookDone, LookRequest
    <3> QED BY <2>2, <3>2, <3>3
  <2>8. \A f \in Files : Warm(f)' => Warm(f) \/ cache[f] = "valid"
    BY <1>c, <2>1, <2>7 DEF Warm
  <2> QED BY <1>q, <2>1, <2>6, <2>8
<1>3. CASE WorkerPush(w)
  <2> DEFINE r == [file |-> wHand[w], kind |-> wReq[w]]
  <2>1. r \in Requests /\ r.file = wHand[w] /\ r.kind = wReq[w]
    <3>1. wHand[w] \in Files /\ wReq[w] \in {"meta", "entry"}
      BY <1>3 DEF WorkerPush
    <3> QED BY <3>1 DEF Requests
  <2>2. WQ!Accept(r)
    BY <1>0, <1>3 DEF WorkerPush, WQ!Refuse
  <2>3. /\ In(r, writeQ') /\ \A x : In(x, writeQ) => In(x, writeQ')
        /\ \A x : In(x, writeQ') => In(x, writeQ) \/ x = r
    BY <2>1, <2>2, AppendCovers, AppendAdds DEF WQ!Accept, WriteQueueOK
  <2>4. Mends(r)
    BY <2>1 DEF Mends, EntryFlow, HeldMends
  <2>5. /\ \A f : f = wHand[w] => InReq(f, writeQ)'
        /\ \A f : InReq(f, writeQ) => InReq(f, writeQ)'
    BY <2>1, <2>3 DEF InReq
  <2>6. UNCHANGED stats /\ \E ks : Count(w, ks, wHand[w])
    BY <1>3 DEF WorkerPush
  <2>7. \A f : Warm(f)' => Warm(f) \/ f = wHand[w]
    BY <1>c, <2>6 DEF Warm
  <2>8. \A v \in Workers : wReq'[v] = "meta" => Mendable(wHand'[v])
    BY <1>3 DEF WorkerPush, EntryFlow, HeldMends
  <2>9. \A x \in Requests : In(x, writeQ') => In(x, writeQ) \/ Mends(x)
    BY <2>3, <2>4
  <2> HIDE DEF r
  <2> QED BY <2>5, <2>7, <2>8, <2>9
<1>4. CASE WorkerMerge(w)
  <2>1. /\ \A k \in Kinds : stats'[k] = stats[k] \cup local[w][k]
        /\ \A v \in Workers : local'[v] = IF v = w THEN NoStats ELSE local[v]
        /\ UNCHANGED <<writeQ, wHand, wReq>>
    BY <1>4 DEF WorkerMerge, writeQVars
  <2>2. "updated" \in Kinds /\ "valid" \in Kinds /\ NoStats["updated"] = {} /\ NoStats["valid"] = {}
    BY DEF Kinds, NoStats
  <2>3. \A f : Warm(f)' => Warm(f)
    BY <2>1, <2>2 DEF Warm, WarmBy
  <2> QED BY <1>q, <2>1, <2>3 DEF EntryFlow, HeldMends
<1> QED BY <1>1, <1>2, <1>3, <1>4 DEF WorkerStep

(* The writer mends the entries of the requests it has executed, and       *)
(* counts the others; with every COMMIT in effect none waits in its        *)
(* transaction.                                                            *)
LEMMA FlushMends ==
  ASSUME "commit" \notin Faults, TypeInv, EntryFlow, FlushBatch
  PROVE  /\ txn' = {}
         /\ unwritten \subseteq unwritten'
         /\ \A f \in Files : InReq(f, batch) => cache'[f] = "valid" \/ f \in unwritten'
<1>1. PICK ok \in SUBSET Batched :
        /\ unwritten' = unwritten \cup FilesOf(Batched \ ok)
        /\ cache' = Execute(cache, txn \cup ok) /\ txn' = {}
  BY DEF FlushBatch
<1>2. ASSUME NEW r \in Requests, In(r, batch)
      PROVE  cache'[r.file] = "valid" \/ r.file \in unwritten'
  <2>1. r \in Batched
    BY <1>2 DEF In, Batched
  <2>2. CASE r \notin ok
    BY <1>1, <2>1, <2>2 DEF FilesOf
  <2>3. CASE r \in ok
    <3>1. r.file \in Paths /\ r.kind \in {"meta", "entry"}
      BY DEF Requests, Paths
    <3>2. Stores(r, cache) \/ Refreshes(r, cache) \/ cache[r.file] = "valid"
      BY <1>2, <3>1 DEF EntryFlow, Mends, Mendable, Stores, Refreshes
    <3> QED BY <1>1, <2>3, <3>1, <3>2 DEF Execute
  <2> QED BY <2>2, <2>3
<1> QED BY <1>1, <1>2 DEF InReq

(* The promises of the writer's requests and of the counters when only the *)
(* writer moves.                                                           *)
LEMMA WriterKeepsEntryFlow ==
  ASSUME "commit" \notin Faults, "scan" \notin Faults,
         TypeInv, BeforeStart, Phases, ScanCoverage, RequestFlow, EntryFlow, WriterStep
  PROVE  EntryFlow'
<1>m. \A f \in Files : cache'[f] \in {cache[f], "valid"}
  BY EntriesOnlyMend DEF Next
<1>u. UNCHANGED <<wPc, wHand, wReq, local, stats>>
  BY WriterEffect DEF workerVars
<1>w. \A f : Warm(f)' <=> Warm(f)
  BY <1>u DEF Warm, WarmBy
<1>h. HeldMends'
  <2> SUFFICES ASSUME NEW w \in Workers, wReq[w] = "meta"
               PROVE  cache'[wHand[w]] \in {"touched", "valid"}
    BY <1>u DEF HeldMends, Mendable
  <2>1. wHand[w] \in Files
    BY DEF TypeInv, WorkersInv, WorkersOK
  <2> QED BY <1>m, <2>1 DEF EntryFlow, HeldMends, Mendable
<1>r. \A r \in Requests : Mends(r) => Mends(r)'
  BY <1>m DEF Mends, Mendable, Requests
<1>k. ASSUME UNCHANGED unwritten, txn' = {},
             \A r \in Requests : In(r, writeQ)' \/ In(r, batch)' => In(r, writeQ) \/ In(r, batch),
             \A f : InReq(f, writeQ) \/ InReq(f, batch) => InReq(f, writeQ)' \/ InReq(f, batch)'
      PROVE  EntryFlow'
  BY <1>h, <1>k, <1>m, <1>r, <1>w DEF EntryFlow
<1>e. \A f : ~InReq(f, <<>>) /\ ~In(f, <<>>)
  BY NothingInEmpty DEF InReq
<1>1. CASE WriterOpen
  BY <1>1, <1>k DEF WriterOpen, durableVars, writeQVars, InReq, EntryFlow
<1>2. CASE WriterPop
  <2>0. UNCHANGED unwritten /\ txn' = {}
    BY <1>2 DEF WriterPop, durableVars, EntryFlow
  <2>1. ASSUME NEW r \in Requests, WQ!Take(r), batch' = Append(batch, r)
        PROVE  EntryFlow'
    <3>1. /\ \A x : In(x, writeQ) => x = r \/ In(x, writeQ')
          /\ In(r, writeQ) /\ \A x : In(x, writeQ') => In(x, writeQ)
          /\ In(r, batch') /\ \A x : In(x, batch) => In(x, batch')
          /\ \A x : In(x, batch') => In(x, batch) \/ x = r
      BY <2>1, TailCovers, TailSheds, AppendCovers, AppendAdds
         DEF WQ!Take, TypeInv, WriteQueueOK, WriterInv, WriterOK
    <3>2. \A f : InReq(f, writeQ) \/ InReq(f, batch) => InReq(f, writeQ') \/ InReq(f, batch')
      BY <3>1 DEF InReq
    <3> QED BY <1>k, <2>0, <3>1, <3>2 DEF InReq
  <2>2. CASE WQ!Drained /\ UNCHANGED batch
    BY <1>k, <2>0, <2>2 DEF WQ!Drained, WQ!queueVars, InReq
  <2> QED BY <1>2, <2>1, <2>2 DEF WriterPop
<1>3. ASSUME FlushBatch, UNCHANGED writeQ, batch' = <<>> PROVE EntryFlow'
  <2>1. /\ txn' = {} /\ unwritten \subseteq unwritten'
        /\ \A f \in Files : InReq(f, batch) => cache'[f] = "valid" \/ f \in unwritten'
    BY <1>3, FlushMends
  <2>2. \A f : InReq(f, writeQ) => InReq(f, writeQ)'
    BY <1>3 DEF InReq
  <2>3. \A r \in Requests : In(r, writeQ)' \/ In(r, batch)' => In(r, writeQ)
    BY <1>e, <1>3
  <2> QED BY <1>h, <1>m, <1>r, <1>w, <2>1, <2>2, <2>3 DEF EntryFlow
<1>4. CASE WriterFlush
  BY <1>3, <1>4 DEF WriterFlush, writeQVars
<1>5. CASE WriterDrain
  <2>1. CASE batch = <<>>
    BY <1>5, <1>k, <2>1 DEF WriterDrain, durableVars, writeQVars, InReq, EntryFlow
  <2>2. CASE batch # <<>>
    BY <1>3, <1>5, <2>2 DEF WriterDrain, writeQVars
  <2> QED BY <2>1, <2>2
<1>6. CASE WriterExit
  BY <1>6, <1>k DEF WriterExit, writeQVars, InReq
<1> QED BY <1>1, <1>2, <1>4, <1>5, <1>6 DEF WriterStep

LEMMA NextKeepsEntryFlow ==
  ASSUME "commit" \notin Faults, "scan" \notin Faults,
         TypeInv, BeforeStart, Phases, ScanCoverage, RequestFlow, EntryFlow, [Next]_vars
  PROVE  EntryFlow'
<1>m. \A f \in Files : cache'[f] \in {cache[f], "valid"}
  BY EntriesOnlyMend DEF vars, durableVars
<1>h. \A f \in Files : Mendable(f) => Mendable(f)'
  BY <1>m DEF Mendable
<1>r. \A r \in Requests : Mends(r) => Mends(r)'
  BY <1>h DEF Mends, Requests
<1>o. \A w \in Workers : wReq[w] = "meta" => wHand[w] \in Files
  BY DEF TypeInv, WorkersInv, WorkersOK
<1>f. ASSUME UNCHANGED <<txn, wHand, wReq, local, stats, writeQ, batch, unwritten>>
      PROVE  EntryFlow'
  <2>1. \A f : (Warm(f)' <=> Warm(f)) /\ (InReq(f, writeQ)' <=> InReq(f, writeQ))
               /\ (InReq(f, batch)' <=> InReq(f, batch))
    BY <1>f DEF Warm, WarmBy, InReq
  <2>2. HeldMends'
    <3> SUFFICES ASSUME NEW w \in Workers, wReq[w] = "meta"
                 PROVE  cache'[wHand[w]] \in {"touched", "valid"}
      BY <1>f DEF HeldMends, Mendable
    <3> QED BY <1>m, <1>o DEF EntryFlow, HeldMends, Mendable
  <2>3. txn' = {}
    BY <1>f DEF EntryFlow
  <2>4. \A r \in Requests : In(r, writeQ)' \/ In(r, batch)' => Mends(r)'
    BY <1>f, <1>r DEF EntryFlow
  <2>5. \A f \in Files : Warm(f)' => \/ cache'[f] = "valid" \/ f \in unwritten'
                                     \/ InReq(f, writeQ)' \/ InReq(f, batch)'
    BY <1>f, <1>m, <2>1 DEF EntryFlow
  <2> QED BY <2>2, <2>3, <2>4, <2>5 DEF EntryFlow
<1>1. CASE MainStep
  <2>1. CASE InitDatabase
    BY <1>f, <2>1 DEF InitDatabase, durableVars, writeQVars
  <2>2. CASE JoinWorkers
    BY <1>f, <2>2 DEF JoinWorkers, WQ!MarkDone, durableVars, workerVars, writerVars
  <2>3. CASE ~InitDatabase /\ ~JoinWorkers
    <3>1. UNCHANGED <<txn, workerVars, writeQVars, writerVars>>
      BY <1>1, <2>3 DEF MainStep, Enter, AcquireLock, JoinScanner, JoinWriter,
                        CleanupRemove, Return, threadVars, durableVars
    <3> QED BY <3>1, <1>f DEF workerVars, writeQVars, writerVars
  <2> QED BY <2>1, <2>2, <2>3
<1>2. CASE ScannerStep
  BY <1>2, <1>f, ScannerEffect DEF durableVars, workerVars, writeQVars, writerVars
<1>3. ASSUME NEW w \in Workers, WorkerStep(w) PROVE EntryFlow'
  <2>1. UNCHANGED <<cache, txn, batch, unwritten>>
    BY <1>3, WorkerEffect DEF writerVars, durableVars
  <2>2. /\ \A f \in Files : Warm(f)' => Warm(f) \/ cache[f] = "valid" \/ InReq(f, writeQ)'
        /\ \A f : InReq(f, writeQ) => InReq(f, writeQ)'
        /\ \A v \in Workers : wReq'[v] = "meta" => Mendable(wHand'[v])
        /\ \A r \in Requests : In(r, writeQ') => In(r, writeQ) \/ Mends(r)
    BY <1>3, WorkerEntries
  <2>3. HeldMends'
    BY <2>1, <2>2 DEF HeldMends, Mendable
  <2>4. \A r \in Requests : In(r, writeQ)' \/ In(r, batch)' => Mends(r)'
    BY <1>r, <2>1, <2>2 DEF EntryFlow
  <2>5. \A f \in Files : Warm(f)' => \/ cache'[f] = "valid" \/ f \in unwritten'
                                     \/ InReq(f, writeQ)' \/ InReq(f, batch)'
    BY <2>1, <2>2 DEF EntryFlow, InReq
  <2> QED BY <2>1, <2>3, <2>4, <2>5 DEF EntryFlow
<1>4. CASE WriterStep
  BY <1>4, WriterKeepsEntryFlow
<1>5. CASE Crash \/ NextRun
  <2>1. FreshThreads' /\ txn' = {}
    BY <1>5, ForgetIsFresh DEF Crash, NextRun, durableVars, EntryFlow
  <2>2. (FreshThreads /\ txn = {} => EntryFlow)'
    BY FreshEntryFlow, PTL
  <2> QED BY <2>1, <2>2
<1>6. CASE RivalLock \/ UNCHANGED vars
  BY <1>6, <1>f DEF RivalLock, vars, durableVars, threadVars, workerVars, writeQVars, writerVars
<1> QED BY <1>1, <1>2, <1>3, <1>4, <1>5, <1>6 DEF Next, Environment

(* After a warm_cache that reports success the cache is warm: the entry of *)
(* every file reported valid or updated matches the file, except where the *)
(* writer counted a failure - as long as the writer opens its connection   *)
(* and the traversal is complete.                                          *)
THEOREM SuccessIsWarm ==
  ASSUME "writer" \notin Faults, "scan" \notin Faults
  PROVE  Spec => []WarmedEntries
<1>1. CASE "commit" \in Faults
  <2>1. WarmedEntries
    BY <1>1 DEF WarmedEntries
  <2> QED BY <2>1, PTL
<1>2. CASE "commit" \notin Faults
  <2>1. Init => RequestFlow /\ EntryFlow
    BY FreshRequestFlow, FreshEntryFlow DEF Init
  <2>2. (TypeInv /\ BeforeStart) /\ Phases /\ ScanCoverage /\ RequestFlow /\ EntryFlow
          /\ [Next]_vars => RequestFlow' /\ EntryFlow'
    BY <1>2, NextKeepsRequestFlow, NextKeepsEntryFlow
  <2>3. (TypeInv /\ BeforeStart) /\ Phases /\ RequestFlow /\ EntryFlow => WarmedEntries
    <3> SUFFICES ASSUME TypeInv, Phases, RequestFlow, EntryFlow, result = "Success",
                        NEW f \in (stats["valid"] \cup stats["updated"]) \ unwritten
                 PROVE  cache[f] = "valid"
      BY DEF WarmedEntries
    <3>1. writerPc = "end" /\ writeQ = <<>> /\ batch = <<>>
      BY DEF Phases, RequestFlow
    <3>2. f \in Files
      BY DEF TypeInv, WorkersInv, WorkersOK, Kinds
    <3> QED BY <3>1, <3>2, NothingInEmpty DEF EntryFlow, Warm, InReq
  <2> QED BY <2>1, <2>2, <2>3, TypeInvariance, PhaseInvariance, ScanInvariance, PTL DEF Spec
<1> QED BY <1>1, <1>2

-----------------------------------------------------------------------------
(* No file is in two places: FilesAccounted without the counting, and the  *)
(* converse of FileFlow.                                                   *)
Distinct(q) == \A i, j \in DOMAIN q : q[i] = q[j] => i = j

InHand(f)    == \E w \in Workers : wHand[w] = f
InSomeLocal(f) == \E w \in Workers : InLocal(f, w)

Exclusive(f) ==
  /\ In(f, fileQ) => f # scanHand
  /\ \A w \in Workers : wHand[w] = f =>
       /\ f # scanHand /\ ~In(f, fileQ)
       /\ \A v \in Workers : wHand[v] = f => v = w
  /\ InSomeLocal(f) => f # scanHand /\ ~In(f, fileQ) /\ ~InHand(f)
  /\ \A v, w \in Workers, k, m \in Outcomes :
       f \in local[v][k] /\ f \in local[w][m] => v = w /\ k = m
  /\ Merged(f) => f # scanHand /\ ~In(f, fileQ) /\ ~InHand(f) /\ ~InSomeLocal(f)
  /\ \A k, m \in Outcomes : f \in stats[k] /\ f \in stats[m] => k = m

Places ==
  /\ toScan \cap workspaceSet = {}
  /\ Distinct(fileQ)
  /\ \A f \in Files : Exclusive(f) /\ (HasPlace(f) => f \in workspaceSet)

LEMMA AppendDistinct ==
  ASSUME NEW S, NEW q \in Seq(S), NEW e \in S, Distinct(q), ~In(e, q)
  PROVE  Distinct(Append(q, e))
<1>1. /\ Len(q) \in Nat /\ Append(q, e)[Len(q) + 1] = e
      /\ \A i \in 1..Len(q) : Append(q, e)[i] = q[i]
      /\ DOMAIN Append(q, e) = 1..(Len(q) + 1) /\ DOMAIN q = 1..Len(q)
  BY AppendProperties, LenProperties
<1> SUFFICES ASSUME NEW i \in 1..(Len(q) + 1), NEW j \in 1..(Len(q) + 1),
                    Append(q, e)[i] = Append(q, e)[j]
             PROVE  i = j
  BY <1>1 DEF Distinct
<1>2. CASE i \in 1..Len(q) /\ j \in 1..Len(q)
  BY <1>1, <1>2 DEF Distinct
<1>3. CASE i = Len(q) + 1 /\ j \in 1..Len(q)
  BY <1>1, <1>3 DEF In
<1>4. CASE j = Len(q) + 1 /\ i \in 1..Len(q)
  BY <1>1, <1>4 DEF In
<1> QED BY <1>1, <1>2, <1>3, <1>4

LEMMA TailDistinct ==
  ASSUME NEW S, NEW q \in Seq(S), q # <<>>, Distinct(q)
  PROVE  Distinct(Tail(q)) /\ ~In(Head(q), Tail(q))
<1>1. /\ Head(q) = q[1] /\ Len(q) \in Nat \ {0}
      /\ DOMAIN q = 1..Len(q) /\ DOMAIN Tail(q) = 1..(Len(q) - 1)
      /\ \A i \in 1..(Len(q) - 1) : Tail(q)[i] = q[i + 1]
  BY HeadTailProperties, LenProperties, EmptySeq
<1>2. \A i \in 1..(Len(q) - 1) : i + 1 \in DOMAIN q /\ i + 1 # 1
  BY <1>1
<1>3. 1 \in DOMAIN q
  BY <1>1
<1>4. ~In(Head(q), Tail(q))
  BY <1>1, <1>2, <1>3 DEF In, Distinct
<1>5. \A i, j \in 1..(Len(q) - 1) : q[i + 1] = q[j + 1] => i + 1 = j + 1
  BY <1>2 DEF Distinct
<1>6. Distinct(Tail(q))
  BY <1>1, <1>5 DEF Distinct
<1> QED BY <1>4, <1>6

LEMMA FreshPlaces == FreshThreads => Places
<1> SUFFICES ASSUME FreshThreads PROVE Places
  OBVIOUS
<1>1. /\ workspaceSet = {} /\ scanHand = NoFile /\ fileQ = <<>> /\ stats = NoStats
      /\ \A w \in Workers : wHand[w] = NoFile /\ local[w] = NoStats
  BY DEF FreshThreads, FQ!Init
<1>2. \A k \in Outcomes : NoStats[k] = {}
  BY DEF Outcomes, NoStats, Kinds
<1>3. ASSUME NEW f \in Files
      PROVE  ~HasPlace(f) /\ Exclusive(f)
  <2>1. f # NoFile
    BY NoFileAssumption
  <2>2. ~In(f, fileQ) /\ ~InHand(f) /\ ~InSomeLocal(f) /\ ~Merged(f) /\ f # scanHand
    BY <1>1, <1>2, <2>1, NothingInEmpty DEF InHand, InSomeLocal, InLocal, Merged
  <2> QED BY <1>1, <1>2, <2>1, <2>2
          DEF HasPlace, Exclusive, InHand, InSomeLocal
<1>4. Distinct(fileQ)
  BY <1>1 DEF Distinct
<1> QED BY <1>1, <1>3, <1>4 DEF Places

(* Where a file is depends on nothing else. *)
LEMMA PlacesFrame ==
  ASSUME Places, UNCHANGED <<toScan, workspaceSet, scanHand, fileQ, wHand>>,
         \A k \in Outcomes : /\ stats'[k] = stats[k]
                             /\ \A w \in Workers : local'[w][k] = local[w][k]
  PROVE  Places'
<1>1. \A f : /\ Merged(f)' <=> Merged(f)
             /\ \A w \in Workers : InLocal(f, w)' <=> InLocal(f, w)
  BY DEF Merged, InLocal
<1>2. \A f : /\ InSomeLocal(f)' <=> InSomeLocal(f)
             /\ InHand(f)' <=> InHand(f)
             /\ HasPlace(f)' <=> HasPlace(f)
  BY <1>1 DEF InSomeLocal, InHand, HasPlace
<1>3. \A f : Exclusive(f) => Exclusive(f)'
  BY <1>1, <1>2 DEF Exclusive
<1> QED BY <1>2, <1>3 DEF Places

LEMMA ScannerKeepsPlaces ==
  ASSUME TypeInv, Phases, Places, ScannerStep
  PROVE  Places'
<1>w. UNCHANGED <<wHand, local, stats>> /\ ~fileDone
  BY ScannerEffect DEF workerVars, Phases, TypeInv, FileQueueOK
<1>u. \A f : /\ Merged(f)' <=> Merged(f)
             /\ InSomeLocal(f)' <=> InSomeLocal(f)
             /\ InHand(f)' <=> InHand(f)
  BY <1>w DEF Merged, InSomeLocal, InHand, InLocal
<1>p. \A f : HasPlace(f)' <=> \/ f = scanHand' \/ In(f, fileQ)' \/ InHand(f)
                              \/ InSomeLocal(f) \/ Merged(f)
  BY <1>u DEF HasPlace, InHand, InSomeLocal
<1>q. \A f : HasPlace(f) <=> \/ f = scanHand \/ In(f, fileQ) \/ InHand(f)
                             \/ InSomeLocal(f) \/ Merged(f)
  BY DEF HasPlace, InHand, InSomeLocal
<1>h. \A f : ~InHand(f) <=> \A w \in Workers : wHand[w] # f
  BY DEF InHand
<1>x. ASSUME NEW f, Exclusive(f),
             In(f, fileQ)' => f # scanHand',
             f = scanHand' \/ In(f, fileQ)' => ~InHand(f) /\ ~InSomeLocal(f) /\ ~Merged(f)
      PROVE  Exclusive(f)'
  BY <1>h, <1>u, <1>w, <1>x DEF Exclusive
<1>1. ASSUME NEW g \in Files, ScanEmit(g) PROVE Places'
  <2>1. /\ scanHand = NoFile /\ NoFile \notin Files /\ scanHand' = g
        /\ fileQ' = fileQ /\ g \notin workspaceSet
        /\ workspaceSet' = workspaceSet \cup {g} /\ toScan' = toScan \ {g}
    BY <1>1, NoFileAssumption DEF ScanEmit, fileQVars, TypeInv, ScannerInv, Places
  <2>2. ~HasPlace(g)
    BY <2>1 DEF Places
  <2>3. ASSUME NEW f \in Files PROVE Exclusive(f)'
    <3>1. CASE f = g
      BY <1>q, <1>x, <2>1, <2>2, <3>1 DEF Places
    <3>2. CASE f # g
      BY <1>x, <2>1, <3>2 DEF Places, Exclusive, InHand
    <3> QED BY <3>1, <3>2
  <2>4. \A f \in Files : HasPlace(f)' => f \in workspaceSet'
    BY <1>p, <1>q, <2>1 DEF Places
  <2> QED BY <2>1, <2>3, <2>4 DEF Places
<1>2. CASE ScanPush
  <2>1. /\ scanHand \in Files /\ FQ!Accept(scanHand) /\ scanHand' = NoFile
        /\ UNCHANGED <<toScan, workspaceSet>> /\ NoFile \notin Files
    BY <1>2, <1>w, NoFileAssumption DEF ScanPush, FQ!Refuse, TypeInv, ScannerInv, ScannerOK
  <2>2. \A f : In(f, fileQ)' => In(f, fileQ) \/ f = scanHand
    BY <2>1, AppendAdds DEF FQ!Accept, TypeInv, FileQueueOK
  <2>3. ~In(scanHand, fileQ)
    BY <2>1 DEF Places, Exclusive
  <2>4. Distinct(fileQ)'
    BY <2>1, <2>3, AppendDistinct DEF FQ!Accept, TypeInv, FileQueueOK, Places
  <2>5. ASSUME NEW f \in Files PROVE Exclusive(f)'
    BY <1>x, <2>1, <2>2 DEF Places, Exclusive, InHand
  <2>6. \A f \in Files : HasPlace(f)' => f \in workspaceSet'
    BY <1>p, <1>q, <2>1, <2>2 DEF Places
  <2> QED BY <2>1, <2>4, <2>5, <2>6 DEF Places
<1>3. CASE ScanStop \/ ScanClose
  <2>1. UNCHANGED <<toScan, workspaceSet, scanHand, fileQ>>
    BY <1>3 DEF ScanStop, ScanClose, FQ!MarkDone, fileQVars
  <2> QED BY <1>w, <2>1, PlacesFrame
<1> QED BY <1>1, <1>2, <1>3 DEF ScannerStep

(* A worker takes a file from the queue. *)
LEMMA TakeKeepsPlaces ==
  ASSUME TypeInv, Places, NEW w \in Workers, NEW g \in Files, FQ!Take(g),
         wHand[w] = NoFile, wHand' = [wHand EXCEPT ![w] = g],
         UNCHANGED <<scanVars, local, stats>>
  PROVE  Places'
<1>1. fileQ # <<>> /\ g = Head(fileQ) /\ fileQ' = Tail(fileQ) /\ fileQ \in Seq(Files)
  BY DEF FQ!Take, TypeInv, FileQueueOK
<1>2. /\ In(g, fileQ) /\ ~In(g, fileQ') /\ Distinct(fileQ')
      /\ \A x : In(x, fileQ') => In(x, fileQ)
  BY <1>1, TailSheds, TailDistinct DEF Places
<1>3. wHand'[w] = g /\ \A v \in Workers \ {w} : wHand'[v] = wHand[v]
  BY DEF TypeInv, WorkersInv, WorkersOK
<1>4. UNCHANGED <<toScan, workspaceSet, scanHand>>
  BY DEF scanVars
<1>5. \A f : /\ Merged(f)' <=> Merged(f)
             /\ InSomeLocal(f)' <=> InSomeLocal(f)
             /\ InHand(f)' => InHand(f) \/ f = g
  BY <1>3 DEF Merged, InSomeLocal, InHand, InLocal
<1>6. /\ g # scanHand /\ ~InHand(g) /\ ~InSomeLocal(g) /\ ~Merged(g)
      /\ g \in workspaceSet
  BY <1>2 DEF Places, Exclusive, InHand, HasPlace
<1>7. ASSUME NEW f \in Files PROVE Exclusive(f)'
  <2>1. Exclusive(f)
    BY DEF Places
  <2>2. In(f, fileQ)' => f # scanHand'
    BY <1>2, <1>4, <2>1 DEF Exclusive
  <2>3. ASSUME NEW v \in Workers, wHand'[v] = f
        PROVE  /\ f # scanHand' /\ ~In(f, fileQ)'
               /\ \A u \in Workers : wHand'[u] = f => u = v
    <3>1. CASE f = g
      <4>1. \A u \in Workers \ {w} : wHand[u] # g
        BY <1>6 DEF InHand
      <4> QED BY <1>2, <1>3, <1>4, <1>6, <2>3, <3>1, <4>1
    <3>2. CASE f # g
      <4>1. v # w /\ wHand[v] = f
        BY <1>3, <2>3, <3>2
      <4> QED BY <1>2, <1>3, <1>4, <2>1, <3>2, <4>1 DEF Exclusive
    <3> QED BY <3>1, <3>2
  <2>4. InSomeLocal(f)' => f # scanHand' /\ ~In(f, fileQ)' /\ ~InHand(f)'
    BY <1>2, <1>4, <1>5, <1>6, <2>1 DEF Exclusive
  <2>5. Merged(f)' => f # scanHand' /\ ~In(f, fileQ)' /\ ~InHand(f)' /\ ~InSomeLocal(f)'
    BY <1>2, <1>4, <1>5, <1>6, <2>1 DEF Exclusive
  <2> QED BY <2>1, <2>2, <2>3, <2>4, <2>5 DEF Exclusive
<1>8. \A f \in Files : HasPlace(f)' => f \in workspaceSet'
  <2>1. ASSUME NEW f \in Files, HasPlace(f)' PROVE HasPlace(f) \/ f = g
    BY <1>2, <1>4, <1>5, <2>1 DEF HasPlace, InHand, InSomeLocal
  <2> QED BY <1>4, <1>6, <2>1 DEF Places
<1> QED BY <1>2, <1>4, <1>7, <1>8 DEF Places

(* A worker lays the file in its hand down in one of its counters. *)
LEMMA CountKeepsPlaces ==
  ASSUME TypeInv, Places, NEW w \in Workers, wHand[w] \in Files,
         wHand' = [wHand EXCEPT ![w] = NoFile],
         NEW ks, NEW k0 \in Outcomes, ks \cap Outcomes = {k0}, Count(w, ks, wHand[w]),
         UNCHANGED <<scanVars, fileQ, stats>>
  PROVE  Places'
<1> DEFINE g == wHand[w]
<1>1. /\ \A v \in Workers \ {w}, k \in Outcomes : local'[v][k] = local[v][k]
      /\ \A k \in Outcomes \ {k0} : local'[w][k] = local[w][k]
      /\ local'[w][k0] = local[w][k0] \cup {g}
  <2> DEFINE new == [k \in Kinds |-> IF k \in ks THEN local[w][k] \cup {wHand[w]} ELSE local[w][k]]
  <2>1. local' = [local EXCEPT ![w] = new]
    BY DEF Count
  <2>2. local'[w] = new /\ \A v \in Workers \ {w} : local'[v] = local[v]
    BY <2>1 DEF TypeInv, WorkersInv, WorkersOK
  <2>3. Outcomes \subseteq Kinds
    BY DEF Outcomes, Kinds
  <2> QED BY <2>2, <2>3
<1>2. wHand'[w] = NoFile /\ NoFile \notin Files
      /\ \A v \in Workers \ {w} : wHand'[v] = wHand[v]
  BY NoFileAssumption DEF TypeInv, WorkersInv, WorkersOK
<1>3. UNCHANGED <<toScan, workspaceSet, scanHand, fileQ>>
  BY DEF scanVars
<1>4. /\ g # scanHand /\ ~In(g, fileQ) /\ \A v \in Workers : wHand[v] = g => v = w
      /\ InHand(g) /\ ~InSomeLocal(g) /\ ~Merged(g) /\ g \in workspaceSet
  BY DEF Places, Exclusive, InHand, HasPlace
<1>5. \A f : /\ Merged(f)' <=> Merged(f)
             /\ In(f, fileQ)' <=> In(f, fileQ)
  BY <1>3 DEF Merged
<1>6. \A f \in Files : InHand(f)' <=> InHand(f) /\ f # g
  BY <1>2, <1>4 DEF InHand
<1>7. \A f : InSomeLocal(f)' => InSomeLocal(f) \/ f = g
  BY <1>1 DEF InSomeLocal, InLocal
<1>8. ASSUME NEW f \in Files PROVE Exclusive(f)'
  <2>1. Exclusive(f)
    BY DEF Places
  <2>2. In(f, fileQ)' => f # scanHand'
    BY <1>3, <2>1 DEF Exclusive
  <2>3. ASSUME NEW v \in Workers, wHand'[v] = f
        PROVE  /\ f # scanHand' /\ ~In(f, fileQ)'
               /\ \A u \in Workers : wHand'[u] = f => u = v
    <3>1. v # w /\ wHand[v] = f
      BY <1>2, <2>3
    <3> QED BY <1>2, <1>3, <2>1, <3>1 DEF Exclusive
  <2>4. InSomeLocal(f)' => f # scanHand' /\ ~In(f, fileQ)' /\ ~InHand(f)'
    BY <1>3, <1>4, <1>5, <1>6, <1>7, <2>1 DEF Exclusive
  <2>5. ASSUME NEW u \in Workers, NEW v \in Workers, NEW k \in Outcomes, NEW m \in Outcomes,
               f \in local'[u][k], f \in local'[v][m]
        PROVE  u = v /\ k = m
    <3>1. CASE f = g
      <4>1. \A x \in Workers, n \in Outcomes : f \notin local[x][n]
        BY <1>4, <3>1 DEF InSomeLocal, InLocal
      <4> QED BY <1>1, <2>5, <4>1
    <3>2. CASE f # g
      <4>1. f \in local[u][k] /\ f \in local[v][m]
        BY <1>1, <2>5, <3>2
      <4> QED BY <2>1, <4>1 DEF Exclusive
    <3> QED BY <3>1, <3>2
  <2>6. Merged(f)' => f # scanHand' /\ ~In(f, fileQ)' /\ ~InHand(f)' /\ ~InSomeLocal(f)'
    BY <1>3, <1>4, <1>5, <1>6, <1>7, <2>1 DEF Exclusive
  <2> QED BY <2>1, <2>2, <2>3, <2>4, <2>5, <2>6 DEF Exclusive
<1>9. \A f \in Files : HasPlace(f)' => f \in workspaceSet'
  <2>1. ASSUME NEW f \in Files, HasPlace(f)' PROVE HasPlace(f) \/ f = g
    BY <1>3, <1>5, <1>6, <1>7, <2>1 DEF HasPlace, InHand, InSomeLocal
  <2> QED BY <1>3, <1>4, <2>1 DEF Places
<1> QED BY <1>3, <1>8, <1>9 DEF Places

(* A worker's counters are merged. *)
LEMMA MergeKeepsPlaces ==
  ASSUME TypeInv, Places, NEW w \in Workers, WorkerMerge(w)
  PROVE  Places'
<1>1. /\ \A k \in Outcomes : stats'[k] = stats[k] \cup local[w][k]
      /\ \A v \in Workers \ {w} : local'[v] = local[v]
      /\ local'[w] = NoStats
      /\ UNCHANGED <<toScan, workspaceSet, scanHand, fileQ, wHand>>
  BY DEF WorkerMerge, Outcomes, Kinds, fileQVars, scanVars, TypeInv, WorkersInv, WorkersOK
<1>2. \A k \in Outcomes : NoStats[k] = {}
  BY DEF Outcomes, NoStats, Kinds
<1>3. \A v \in Workers, k \in Outcomes : local'[v][k] = IF v = w THEN {} ELSE local[v][k]
  BY <1>1, <1>2
<1>4. \A f : /\ InHand(f)' <=> InHand(f)
             /\ InSomeLocal(f)' => InSomeLocal(f)
             /\ Merged(f)' => Merged(f) \/ InLocal(f, w)
             /\ InLocal(f, w) => InSomeLocal(f)
  BY <1>1, <1>3 DEF InHand, InSomeLocal, InLocal, Merged
<1>5. ASSUME NEW f \in Files PROVE Exclusive(f)'
  <2>1. Exclusive(f)
    BY DEF Places
  <2>2. \A u, v \in Workers, k, m \in Outcomes :
          f \in local'[u][k] /\ f \in local'[v][m] => u = v /\ k = m
    BY <1>3, <2>1 DEF Exclusive
  <2>3. \A k, m \in Outcomes : f \in stats'[k] /\ f \in stats'[m] => k = m
    <3>1. CASE InLocal(f, w)
      <4>1. ~Merged(f)
        BY <1>4, <2>1, <3>1 DEF Exclusive
      <4>2. \A k, m \in Outcomes : f \in local[w][k] /\ f \in local[w][m] => k = m
        BY <2>1 DEF Exclusive
      <4> QED BY <1>1, <4>1, <4>2 DEF Merged
    <3>2. CASE ~InLocal(f, w)
      BY <1>1, <2>1, <3>2 DEF InLocal, Exclusive
    <3> QED BY <3>1, <3>2
  <2>4. InLocal(f, w) => ~InSomeLocal(f)'
    <3> SUFFICES ASSUME NEW k \in Outcomes, f \in local[w][k],
                        NEW v \in Workers, NEW m \in Outcomes, f \in local'[v][m]
                 PROVE  FALSE
      BY DEF InLocal, InSomeLocal
    <3>1. v # w /\ f \in local[v][m]
      BY <1>3
    <3> QED BY <2>1, <3>1 DEF Exclusive
  <2>5. Merged(f)' => f # scanHand' /\ ~In(f, fileQ)' /\ ~InHand(f)' /\ ~InSomeLocal(f)'
    BY <1>1, <1>4, <2>1, <2>4 DEF Exclusive
  <2>6. InSomeLocal(f)' => f # scanHand' /\ ~In(f, fileQ)' /\ ~InHand(f)'
    BY <1>1, <1>4, <2>1 DEF Exclusive
  <2>7. /\ In(f, fileQ)' => f # scanHand'
        /\ \A v \in Workers : wHand'[v] = f =>
             /\ f # scanHand' /\ ~In(f, fileQ)'
             /\ \A u \in Workers : wHand'[u] = f => u = v
    BY <1>1, <2>1 DEF Exclusive
  <2> QED BY <2>2, <2>3, <2>5, <2>6, <2>7 DEF Exclusive
<1>6. \A f \in Files : HasPlace(f)' => f \in workspaceSet'
  <2>1. ASSUME NEW f \in Files, HasPlace(f)' PROVE HasPlace(f)
    BY <1>1, <1>4, <2>1 DEF HasPlace, InHand, InSomeLocal
  <2> QED BY <1>1, <2>1 DEF Places
<1> QED BY <1>1, <1>5, <1>6 DEF Places

LEMMA WorkerKeepsPlaces ==
  ASSUME TypeInv, Places, NEW w \in Workers, WorkerStep(w)
  PROVE  Places'
<1>s. UNCHANGED scanVars
  BY WorkerEffect
<1>o. "valid" \in Outcomes /\ "updated" \in Outcomes /\ "failed" \in Outcomes
      /\ "missing" \notin Outcomes /\ "stale" \notin Outcomes
  BY DEF Outcomes
<1>1. CASE WorkerOpen(w)
  BY <1>1, PlacesFrame DEF WorkerOpen, scanVars, fileQVars
<1>2. CASE WorkerPop(w)
  <2>1. ASSUME NEW f \in Files, FQ!Take(f), wHand' = [wHand EXCEPT ![w] = f]
        PROVE  Places'
    <3>1. wHand[w] = NoFile /\ UNCHANGED <<local, stats>>
      BY <1>2 DEF WorkerPop, TypeInv, WorkersInv, WorkersOK
    <3> QED BY <1>s, <2>1, <3>1, TakeKeepsPlaces
  <2>2. CASE FQ!Drained /\ UNCHANGED wHand
    BY <1>2, <1>s, <2>2, PlacesFrame DEF WorkerPop, FQ!Drained, FQ!queueVars, scanVars
  <2> QED BY <1>2, <2>1, <2>2 DEF WorkerPop
<1>3. CASE WorkerLook(w)
  <2>1. /\ wHand[w] \in Files /\ UNCHANGED <<fileQ, stats>>
    BY <1>3 DEF WorkerLook, fileQVars, TypeInv, WorkersInv, WorkersOK
  <2>2. ASSUME NEW ks, NEW k0 \in Outcomes, ks \cap Outcomes = {k0}, LookDone(w, ks)
        PROVE  Places'
    BY <1>s, <2>1, <2>2, CountKeepsPlaces DEF LookDone
  <2>3. ASSUME NEW ks, NEW kind, ks \cap Outcomes = {}, LookRequest(w, ks, kind)
        PROVE  Places'
    <3> DEFINE new == [k \in Kinds |-> IF k \in ks THEN local[w][k] \cup {wHand[w]} ELSE local[w][k]]
    <3>1. local' = [local EXCEPT ![w] = new]
      BY <2>3 DEF Count, LookRequest
    <3>2. local'[w] = new /\ \A v \in Workers \ {w} : local'[v] = local[v]
      BY <3>1 DEF TypeInv, WorkersInv, WorkersOK
    <3>3. Outcomes \subseteq Kinds
      BY DEF Outcomes, Kinds
    <3>4. \A k \in Outcomes, v \in Workers : local'[v][k] = local[v][k]
      BY <2>3, <3>2, <3>3
    <3> QED BY <1>s, <2>1, <2>3, <3>4, PlacesFrame DEF LookRequest, scanVars
  <2>4. PICK c : \/ LookDone(w, {"valid"})
                 \/ LookRequest(w, {}, "meta")
                 \/ LookRequest(w, {MissKind(c)}, "entry")
                 \/ LookDone(w, {"failed"})
                 \/ LookDone(w, {MissKind(c), "failed"})
    BY <1>3 DEF WorkerLook
  <2>5. MissKind(c) \notin Outcomes
    BY <1>o DEF MissKind
  <2>6. /\ {"valid"} \cap Outcomes = {"valid"} /\ {"failed"} \cap Outcomes = {"failed"}
        /\ {MissKind(c), "failed"} \cap Outcomes = {"failed"}
        /\ {MissKind(c)} \cap Outcomes = {}
    BY <1>o, <2>5
  <2> QED BY <1>o, <2>2, <2>3, <2>4, <2>6
<1>4. CASE WorkerPush(w)
  <2>1. wHand[w] \in Files /\ UNCHANGED <<fileQ, stats>>
    BY <1>4 DEF WorkerPush, fileQVars, TypeInv, WorkersInv, WorkersOK
  <2>2. PICK k0 \in Outcomes : Count(w, {k0}, wHand[w])
    BY <1>4, <1>o DEF WorkerPush
  <2>3. {k0} \cap Outcomes = {k0}
    OBVIOUS
  <2>4. wHand' = [wHand EXCEPT ![w] = NoFile]
    BY <1>4 DEF WorkerPush
  <2> QED BY <1>s, <2>1, <2>2, <2>3, <2>4, CountKeepsPlaces
<1>5. CASE WorkerMerge(w)
  BY <1>5, MergeKeepsPlaces
<1> QED BY <1>1, <1>2, <1>3, <1>4, <1>5 DEF WorkerStep

LEMMA NextKeepsPlaces ==
  ASSUME TypeInv, BeforeStart, Phases, Places, [Next]_vars
  PROVE  Places'
<1>f. ASSUME UNCHANGED <<toScan, workspaceSet, scanHand, fileQ, wHand, local, stats>>
      PROVE  Places'
  BY <1>f, PlacesFrame
<1>1. CASE MainStep
  <2>1. CASE InitDatabase
    BY <1>f, <2>1 DEF InitDatabase, fileQVars
  <2>2. CASE ~InitDatabase
    <3>1. UNCHANGED <<scanVars, fileQVars, workerVars>>
      BY <1>1, <2>2 DEF MainStep, Enter, AcquireLock, JoinScanner, JoinWorkers, JoinWriter,
                        CleanupRemove, Return, threadVars
    <3> QED BY <3>1, <1>f DEF scanVars, fileQVars, workerVars
  <2> QED BY <2>1, <2>2
<1>2. CASE ScannerStep
  BY <1>2, ScannerKeepsPlaces
<1>3. ASSUME NEW w \in Workers, WorkerStep(w) PROVE Places'
  BY <1>3, WorkerKeepsPlaces
<1>4. CASE WriterStep
  BY <1>4, <1>f, WriterEffect DEF scanVars, fileQVars, workerVars
<1>5. CASE Crash \/ NextRun
  <2>1. FreshThreads'
    BY <1>5, ForgetIsFresh DEF Crash, NextRun
  <2>2. (FreshThreads => Places)'
    BY FreshPlaces, PTL
  <2> QED BY <2>1, <2>2
<1>6. CASE RivalLock \/ UNCHANGED vars
  BY <1>6, <1>f DEF RivalLock, vars, threadVars, scanVars, fileQVars, workerVars
<1> QED BY <1>1, <1>2, <1>3, <1>4, <1>5, <1>6 DEF Next, Environment

(* A place counts once for the file that is there and not at all for any   *)
(* other.                                                                  *)
LEMMA PlacesCounted ==
  ASSUME TypeInv, Places, NEW f \in Files
  PROVE  /\ Cardinality(InFileQ(f)) = IF In(f, fileQ) THEN 1 ELSE 0
         /\ Cardinality(InHands(f)) = IF InHand(f) THEN 1 ELSE 0
         /\ Cardinality(InLocals(f)) = IF InSomeLocal(f) THEN 1 ELSE 0
         /\ Cardinality(InStats(f)) = IF Merged(f) THEN 1 ELSE 0
<1>0. Exclusive(f) /\ Distinct(fileQ)
  BY DEF Places
<1>s. ASSUME NEW S, NEW A, A <=> \E x : x \in S, \A x, y \in S : x = y
      PROVE  Cardinality(S) = IF A THEN 1 ELSE 0
  <2>1. CASE A
    <3>1. PICK x : x \in S
      BY <1>s, <2>1
    <3>2. S = {x}
      BY <1>s, <3>1
    <3> QED BY <2>1, <3>2, FS_Singleton
  <2>2. CASE ~A
    <3>1. S = {}
      BY <1>s, <2>2
    <3> QED BY <2>2, <3>1, FS_EmptySet
  <2> QED BY <2>1, <2>2
<1>1. Cardinality(InFileQ(f)) = IF In(f, fileQ) THEN 1 ELSE 0
  <2>1. In(f, fileQ) <=> \E x : x \in InFileQ(f)
    BY DEF In, InFileQ
  <2>2. \A x, y \in InFileQ(f) : x = y
    BY <1>0 DEF InFileQ, Distinct
  <2> QED BY <1>s, <2>1, <2>2
<1>2. Cardinality(InHands(f)) = IF InHand(f) THEN 1 ELSE 0
  <2>1. InHand(f) <=> \E x : x \in InHands(f)
    BY DEF InHand, InHands
  <2>2. \A x, y \in InHands(f) : x = y
    BY <1>0 DEF InHands, Exclusive
  <2> QED BY <1>s, <2>1, <2>2
<1>3. Cardinality(InLocals(f)) = IF InSomeLocal(f) THEN 1 ELSE 0
  <2>1. InSomeLocal(f) <=> \E x : x \in InLocals(f)
    <3>1. ASSUME NEW w \in Workers, NEW k \in Outcomes, f \in local[w][k]
          PROVE  <<w, k>> \in InLocals(f)
      BY <3>1 DEF InLocals
    <3>2. ASSUME NEW x \in InLocals(f)
          PROVE  x[1] \in Workers /\ x[2] \in Outcomes /\ f \in local[x[1]][x[2]]
      BY DEF InLocals
    <3> QED BY <3>1, <3>2 DEF InSomeLocal, InLocal
  <2>2. \A x, y \in InLocals(f) : x = y
    <3> SUFFICES ASSUME NEW x \in InLocals(f), NEW y \in InLocals(f) PROVE x = y
      OBVIOUS
    <3>1. /\ x \in Workers \X Outcomes /\ y \in Workers \X Outcomes
          /\ f \in local[x[1]][x[2]] /\ f \in local[y[1]][y[2]]
      BY DEF InLocals
    <3>2. x[1] = y[1] /\ x[2] = y[2]
      BY <1>0, <3>1 DEF Exclusive
    <3> QED BY <3>1, <3>2
  <2> QED BY <1>s, <2>1, <2>2
<1>4. Cardinality(InStats(f)) = IF Merged(f) THEN 1 ELSE 0
  <2>1. Merged(f) <=> \E x : x \in InStats(f)
    BY DEF Merged, InStats
  <2>2. \A x, y \in InStats(f) : x = y
    BY <1>0 DEF InStats, Exclusive
  <2> QED BY <1>s, <2>1, <2>2
<1> QED BY <1>1, <1>2, <1>3, <1>4

(* The pipeline neither loses nor doubles a file between                   *)
(* scan_workspace_stream and WarmStats::merge, with every fault and crash  *)
(* allowed.                                                                *)
THEOREM PipelineAccounts == Spec => []FilesAccounted
<1>1. Init => Places
  BY FreshPlaces DEF Init
<1>2. (TypeInv /\ BeforeStart) /\ Phases /\ Places /\ [Next]_vars => Places'
  BY NextKeepsPlaces
<1>3. (TypeInv /\ BeforeStart) /\ FileFlow /\ Places => FilesAccounted
  <2> SUFFICES ASSUME TypeInv, FileFlow, Places, NEW f \in Files
               PROVE  Cardinality(InFileQ(f)) + Cardinality(InHands(f))
                        + Cardinality(InLocals(f)) + Cardinality(InStats(f))
                        + (IF scanHand = f THEN 1 ELSE 0)
                      = IF f \in workspaceSet THEN 1 ELSE 0
    BY DEF FilesAccounted
  <2>1. Exclusive(f) /\ (HasPlace(f) <=> f \in workspaceSet)
    BY DEF Places, FileFlow
  <2>2. HasPlace(f) <=> \/ f = scanHand \/ In(f, fileQ) \/ InHand(f)
                        \/ InSomeLocal(f) \/ Merged(f)
    BY DEF HasPlace, InHand, InSomeLocal
  <2>3. /\ In(f, fileQ) => f # scanHand
        /\ InHand(f) => f # scanHand /\ ~In(f, fileQ)
        /\ InSomeLocal(f) => f # scanHand /\ ~In(f, fileQ) /\ ~InHand(f)
        /\ Merged(f) => f # scanHand /\ ~In(f, fileQ) /\ ~InHand(f) /\ ~InSomeLocal(f)
    BY <2>1 DEF Exclusive, InHand
  <2>4. (IF In(f, fileQ) THEN 1 ELSE 0) + (IF InHand(f) THEN 1 ELSE 0)
          + (IF InSomeLocal(f) THEN 1 ELSE 0) + (IF Merged(f) THEN 1 ELSE 0)
          + (IF scanHand = f THEN 1 ELSE 0)
        = IF f \in workspaceSet THEN 1 ELSE 0
    BY <2>1, <2>2, <2>3
  <2> QED BY <2>4, PlacesCounted
<1> QED BY <1>1, <1>2, <1>3, TypeInvariance, PhaseInvariance, FileFlowInvariance, PTL
        DEF Spec
=============================================================================
