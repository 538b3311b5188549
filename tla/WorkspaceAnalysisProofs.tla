----------------------- MODULE WorkspaceAnalysisProofs -----------------------
(***************************************************************************)
(* Proofs about WorkspaceAnalysis for any files, lists and cores: types,   *)
(* the index, that every entry is settled exactly once, and that the       *)
(* workspace that is returned is the one of its file list.                 *)
(***************************************************************************)
EXTENDS WorkspaceAnalysis, SequenceTheorems, FiniteSetTheorems, WellFoundedInduction, TLAPS

-----------------------------------------------------------------------------
(* Sorting. *)

LEMMA LastExists ==
  ASSUME NEW n \in Nat, NEW S, S \subseteq 1..n, S # {}
  PROVE  \E s \in S : \A t \in S : t <= s
<1> DEFINE Less == {ss \in Nat \X Nat : ss[1] < ss[2]}
           D == {n - i : i \in S}
<1>0. \A i \in S : i \in Nat /\ i <= n /\ n - i \in Nat
  OBVIOUS
<1>1. IsWellFoundedOn(Less, Nat)
  BY NatLessThanWellFounded DEF OpToRel
<1>2. D \subseteq Nat /\ D # {}
  BY <1>0
<1> HIDE DEF Less, D
<1>3. PICK d \in D : \A e \in D : ~ (<<e, d>> \in Less)
  BY <1>1, <1>2, WFMin
<1>4. ASSUME NEW e \in D PROVE d <= e
  <2>1. <<e, d>> \in Nat \X Nat /\ <<e, d>>[1] = e /\ <<e, d>>[2] = d /\ e \in Nat /\ d \in Nat
    BY <1>2
  <2>2. e < d => <<e, d>> \in Less
    BY <2>1 DEF Less
  <2>. QED BY <1>3, <2>1, <2>2
<1>5. PICK s \in S : d = n - s
  BY DEF D
<1>6. \A t \in S : n - s <= n - t
  BY <1>4, <1>5 DEF D
<1>7. \A t \in S : t <= s
  BY <1>0, <1>6
<1>. QED BY <1>7

(* An arrangement has the same elements. *)
LEMMA Rearranged ==
  ASSUME NEW S, NEW s \in Seq(S), NEW p \in Bijection(DOMAIN s, DOMAIN s),
         NEW t, t = [i \in DOMAIN s |-> s[p[i]]]
  PROVE  /\ t \in Seq(S) /\ Len(t) = Len(s)
         /\ {t[n] : n \in DOMAIN t} = {s[n] : n \in DOMAIN s}
<1>1. /\ p \in [DOMAIN s -> DOMAIN s]
      /\ \A w \in DOMAIN s : \E v \in DOMAIN s : p[v] = w
  BY DEF Bijection, Injection, Surjection
<1>2. DOMAIN s = 1..Len(s) /\ Len(s) \in Nat
  OBVIOUS
<1>3. t \in [1..Len(s) -> S]
  BY <1>1, <1>2
<1>4. t \in Seq(S) /\ Len(t) = Len(s)
  BY <1>2, <1>3
<1>5. \A x : x \in {t[n] : n \in DOMAIN t} <=> x \in {s[n] : n \in DOMAIN s}
  BY <1>1
<1>. QED BY <1>4, <1>5

LEMMA Arranged ==
  ASSUME NEW S, NEW s \in Seq(S), NEW Before(_, _), NEW t \in Arrangements(s, Before)
  PROVE  t \in Seq(S) /\ Len(t) = Len(s)
<1>1. PICK p \in Bijection(DOMAIN s, DOMAIN s) : t = [i \in DOMAIN s |-> s[p[i]]]
  BY DEF Arrangements
<1>. QED BY <1>1, Rearranged

-----------------------------------------------------------------------------
(* Types. *)

GivenOK == entry \in {"workspace", "files", "lazy"} /\ list \in Seq(Files) /\ fate \in [Files -> Fates]
ThreadsOK ==
  /\ next \in 1..(Len(list) + 1)
  /\ feeder \in {"run", "end"}
  /\ queue \in Seq(Entries) /\ Len(queue) <= QueueCapacity /\ closed \in BOOLEAN
  /\ hand \in [Workers -> Entries \cup {Idle, Ended}]
  /\ main \in {"join", "load", "ready", "dead"}
WorkspaceOK ==
  /\ units \in Seq(Entries) /\ deps \in Seq(Entries)
  /\ symbols \in Seq(Entries \X Nat)
  /\ DOMAIN index \subseteq Files
  /\ parsed \in Nat /\ failed \in Nat
FilesOK == files \in Seq(Files)

LEMMA TypeParts == AnalysisTypeOK <=> GivenOK /\ ThreadsOK /\ WorkspaceOK /\ FilesOK
  BY DEF AnalysisTypeOK, GivenOK, ThreadsOK, WorkspaceOK, FilesOK

LEMMA TypePartsNext ==
  ASSUME GivenOK', ThreadsOK', WorkspaceOK', FilesOK'
  PROVE  AnalysisTypeOK'
  BY DEF AnalysisTypeOK, GivenOK, ThreadsOK, WorkspaceOK, FilesOK

LEMMA EntryFacts ==
  ASSUME list \in Seq(Files)
  PROVE  /\ Len(list) \in Nat /\ Entries = 1..Len(list)
         /\ \A i \in Entries : list[i] \in Files /\ i # Idle /\ i # Ended /\ i \in Nat
         /\ Idle # Ended
  BY DEF Entries, Idle, Ended

LEMMA GivenStays ==
  ASSUME GivenOK, UNCHANGED given
  PROVE  GivenOK' /\ Entries' = Entries /\ Ended' = Ended /\ Started' = Started
  BY DEF GivenOK, given, Entries, Ended, Started

LEMMA ListingsAreLists == Listings \subseteq Seq(Files)
<1>1. Cardinality(Files) \in Nat
  BY AnalysisConstantsOK, FS_CardinalityType
<1>. QED BY <1>1 DEF Listings

LEMMA AnalysisInitTyped == AnalysisInit => AnalysisTypeOK
<1> SUFFICES ASSUME AnalysisInit PROVE AnalysisTypeOK
  OBVIOUS
<1>1. GivenOK /\ FilesOK
  <2>1. list \in Seq(Files) /\ (files = <<>> \/ files = list)
    BY ListingsAreLists, AnalysisConstantsOK DEF AnalysisInit
  <2>2. entry \in {"workspace", "files", "lazy"} /\ fate \in [Files -> Fates]
    BY DEF AnalysisInit
  <2>3. files \in Seq(Files)
    <3>1. CASE files = list
      BY <2>1, <3>1
    <3>2. CASE files = <<>>
      BY <3>2
    <3>. QED BY <2>1, <3>1, <3>2
  <2>. QED BY <2>1, <2>2, <2>3 DEF GivenOK, FilesOK
<1>2. ThreadsOK
  <2>1. Len(list) \in Nat
    BY <1>1 DEF GivenOK
  <2>2. hand \in [Workers -> Entries \cup {Idle, Ended}] /\ main \in {"join", "load", "ready", "dead"}
    BY DEF AnalysisInit
  <2>3. queue \in Seq(Entries) /\ Len(queue) <= QueueCapacity /\ closed \in BOOLEAN
    <3>1. queue = <<>> /\ closed = FALSE
      BY DEF AnalysisInit
    <3>2. queue \in Seq(Entries) /\ Len(queue) = 0
      BY <3>1
    <3>3. 0 <= QueueCapacity
      BY AnalysisConstantsOK
    <3>. QED BY <3>1, <3>2, <3>3
  <2>. QED BY <2>1, <2>2, <2>3 DEF AnalysisInit, ThreadsOK
<1>3. WorkspaceOK
  BY DEF AnalysisInit, WorkspaceOK
<1>. QED BY <1>1, <1>2, <1>3, TypeParts

LEMMA SymbolsType ==
  ASSUME list \in Seq(Files), NEW i \in Entries
  PROVE  SymbolsOf(i) \in Seq(Entries \X Nat)
<1>1. Position[list[i]] \in Seq(Nat)
  BY EntryFacts, AnalysisConstantsOK
<1> DEFINE n == Len(Position[list[i]])
<1>2. DOMAIN Position[list[i]] = 1..n /\ n \in Nat
  BY <1>1
<1> HIDE DEF n
<1>3. SymbolsOf(i) \in [1..n -> Entries \X Nat]
  BY <1>2 DEF SymbolsOf
<1>. QED BY <1>2, <1>3

LEMMA MergeType ==
  ASSUME GivenOK, WorkspaceOK, UNCHANGED given, NEW i \in Entries, Merge(i)
  PROVE  WorkspaceOK'
<1>1. Entries' = Entries
  BY GivenStays
<1>2. list[i] \in Files /\ SymbolsOf(i) \in Seq(Entries \X Nat)
  BY EntryFacts, SymbolsType DEF GivenOK
<1>3. units' \in Seq(Entries) /\ deps' \in Seq(Entries)
  BY AppendProperties DEF Merge, WorkspaceOK
<1>4. symbols' \in Seq(Entries \X Nat)
  BY <1>2, ConcatProperties DEF Merge, WorkspaceOK
<1>5. DOMAIN index' \subseteq Files
  BY <1>2 DEF Merge, WorkspaceOK
<1>6. parsed' \in Nat /\ failed' \in Nat
  BY DEF Merge, WorkspaceOK
<1>. QED BY <1>1, <1>3, <1>4, <1>5, <1>6 DEF WorkspaceOK

LEMMA FailureType ==
  ASSUME GivenOK, WorkspaceOK, UNCHANGED given, CountFailure
  PROVE  WorkspaceOK'
<1>1. Entries' = Entries
  BY GivenStays
<1>. QED BY <1>1 DEF CountFailure, WorkspaceOK

LEMMA SortType ==
  ASSUME GivenOK, WorkspaceOK, UNCHANGED given, SortWorkspace
  PROVE  WorkspaceOK'
<1>1. Entries' = Entries
  BY GivenStays
<1>2. units' \in Seq(Entries) /\ deps' \in Seq(Entries) /\ symbols' \in Seq(Entries \X Nat)
  <2>1. /\ units' \in Arrangements(units, PathBefore)
        /\ deps' \in Arrangements(deps, PathBefore)
        /\ symbols' \in Arrangements(symbols, SymbolBefore)
    BY DEF SortWorkspace
  <2>2. units \in Seq(Entries) /\ deps \in Seq(Entries) /\ symbols \in Seq(Entries \X Nat)
    BY DEF WorkspaceOK
  <2>. QED BY <2>1, <2>2, Arranged
<1>3. DOMAIN index' \subseteq Files
  <2>1. \A n \in DOMAIN units' : list[units'[n]] \in Files
    BY <1>2, EntryFacts DEF GivenOK
  <2>. QED BY <2>1 DEF SortWorkspace, Reindexed
<1>4. parsed' \in Nat /\ failed' \in Nat
  BY DEF SortWorkspace, WorkspaceOK
<1>. QED BY <1>1, <1>2, <1>3, <1>4 DEF WorkspaceOK

(* What the threads share stays typed when a step moves an entry on.       *)
LEMMA FeedType == AnalysisTypeOK /\ Feed => AnalysisTypeOK'
<1> SUFFICES ASSUME AnalysisTypeOK, Feed PROVE AnalysisTypeOK'
  OBVIOUS
<1>0. GivenOK /\ ThreadsOK /\ WorkspaceOK /\ FilesOK
  BY TypeParts
<1>1. UNCHANGED given /\ UNCHANGED <<feeder, hand, wsVars, main>>
  BY DEF Feed
<1>2. GivenOK' /\ Entries' = Entries /\ Ended' = Ended
  BY <1>0, <1>1, GivenStays
<1>3. next \in Entries /\ next' = next + 1 /\ next' \in 1..(Len(list) + 1)
  BY <1>0, EntryFacts DEF Feed, GivenOK
<1>4. queue' \in Seq(Entries) /\ Len(queue') <= QueueCapacity /\ closed' \in BOOLEAN
  <2>1. CASE Q!Accept(next)
    <3>1. Len(queue) < QueueCapacity /\ queue' = Append(queue, next) /\ closed' = closed
      BY <2>1 DEF Q!Accept
    <3>2. queue' \in Seq(Entries) /\ Len(queue') = Len(queue) + 1
      BY <1>0, <1>3, <3>1, AppendProperties DEF ThreadsOK
    <3>3. Len(queue) \in Nat /\ QueueCapacity \in Nat
      BY <1>0, AnalysisConstantsOK DEF ThreadsOK
    <3>4. Len(queue) + 1 <= QueueCapacity
      BY <3>1, <3>3
    <3>. QED BY <1>0, <3>1, <3>2, <3>4 DEF ThreadsOK
  <2>2. CASE Q!Refuse
    BY <1>0, <2>2 DEF Q!Refuse, Q!queueVars, ThreadsOK
  <2>. QED BY <2>1, <2>2 DEF Feed
<1>5. FilesOK'
  <2>1. list[next] \in Files
    BY <1>0, <1>3, EntryFacts DEF GivenOK
  <2>2. files' = Append(files, list[next]) \/ files' = files
    BY DEF Feed
  <2>. QED BY <1>0, <2>1, <2>2, AppendProperties DEF FilesOK
<1>6. WorkspaceOK'
  BY <1>0, <1>1, <1>2 DEF WorkspaceOK, wsVars
<1>7. list' = list
  BY <1>1 DEF given
<1>8. ThreadsOK'
  BY <1>0, <1>1, <1>2, <1>3, <1>4, <1>7 DEF ThreadsOK
<1>. QED BY <1>2, <1>5, <1>6, <1>8, TypePartsNext

(* Steps of one thread that leave the given list, the workspace and the    *)
(* file list alone.                                                        *)
LEMMA ThreadType ==
  ASSUME AnalysisTypeOK, UNCHANGED <<given, wsVars, files>>,
         next' \in 1..(Len(list) + 1), feeder' \in {"run", "end"},
         queue' \in Seq(Entries), Len(queue') <= QueueCapacity, closed' \in BOOLEAN,
         hand' \in [Workers -> Entries \cup {Idle, Ended}],
         main' \in {"join", "load", "ready", "dead"}
  PROVE  AnalysisTypeOK'
<1>0. GivenOK /\ ThreadsOK /\ WorkspaceOK /\ FilesOK
  BY TypeParts
<1>1. GivenOK' /\ Entries' = Entries /\ Ended' = Ended /\ list' = list
  BY <1>0, GivenStays DEF given
<1>2. WorkspaceOK' /\ FilesOK'
  BY <1>0, <1>1 DEF WorkspaceOK, FilesOK, wsVars
<1>3. ThreadsOK'
  BY <1>1 DEF ThreadsOK, Idle
<1>. QED BY <1>1, <1>2, <1>3, TypePartsNext

LEMMA FeedEndType == AnalysisTypeOK /\ (FeedEnd \/ ScanThrow) => AnalysisTypeOK'
<1> SUFFICES ASSUME AnalysisTypeOK, FeedEnd \/ ScanThrow PROVE AnalysisTypeOK'
  OBVIOUS
<1>0. ThreadsOK
  BY TypeParts
<1>1. /\ UNCHANGED <<given, next, hand, wsVars, files, main>> /\ feeder' = "end"
      /\ queue' = queue /\ closed' = TRUE
  BY DEF FeedEnd, ScanThrow, Q!MarkDone
<1>. QED BY <1>0, <1>1, ThreadType DEF ThreadsOK

LEMMA PopType == AnalysisTypeOK /\ (\E w \in Workers : Pop(w)) => AnalysisTypeOK'
<1> SUFFICES ASSUME AnalysisTypeOK, NEW w \in Workers, Pop(w) PROVE AnalysisTypeOK'
  OBVIOUS
<1>0. ThreadsOK
  BY TypeParts
<1>1. UNCHANGED <<given, next, feeder, wsVars, files, main>>
  BY DEF Pop
<1>2. /\ queue' \in Seq(Entries) /\ Len(queue') <= QueueCapacity /\ closed' = closed
      /\ hand' \in [Workers -> Entries \cup {Idle, Ended}]
  <2>1. CASE \E i \in Entries : Q!Take(i) /\ hand' = [hand EXCEPT ![w] = i]
    <3>1. PICK i \in Entries : Q!Take(i) /\ hand' = [hand EXCEPT ![w] = i]
      BY <2>1
    <3>2. queue # <<>> /\ queue' = Tail(queue) /\ closed' = closed
      BY <3>1 DEF Q!Take
    <3>3. queue' \in Seq(Entries) /\ Len(queue') = Len(queue) - 1
      BY <1>0, <3>2, HeadTailProperties DEF ThreadsOK
    <3>4. Len(queue) \in Nat /\ QueueCapacity \in Nat
      BY <1>0, AnalysisConstantsOK DEF ThreadsOK
    <3>5. Len(queue) - 1 <= QueueCapacity
      BY <1>0, <3>4 DEF ThreadsOK
    <3>6. hand' \in [Workers -> Entries \cup {Idle, Ended}]
      BY <1>0, <3>1 DEF ThreadsOK
    <3>. QED BY <3>2, <3>3, <3>5, <3>6
  <2>2. CASE Q!Drained /\ hand' = [hand EXCEPT ![w] = Ended]
    BY <1>0, <2>2 DEF Q!Drained, Q!queueVars, ThreadsOK
  <2>. QED BY <2>1, <2>2 DEF Pop
<1>. QED BY <1>0, <1>1, <1>2, ThreadType DEF ThreadsOK

LEMMA SettleType == AnalysisTypeOK /\ (\E w \in Workers : Settle(w)) => AnalysisTypeOK'
<1> SUFFICES ASSUME AnalysisTypeOK, NEW w \in Workers, Settle(w) PROVE AnalysisTypeOK'
  OBVIOUS
<1>0. GivenOK /\ ThreadsOK /\ WorkspaceOK /\ FilesOK
  BY TypeParts
<1>1. UNCHANGED <<given, next, feeder, queueVars, files, main>> /\ hand[w] \in Entries
      /\ hand' = [hand EXCEPT ![w] = Idle]
  BY DEF Settle
<1>2. GivenOK' /\ Entries' = Entries /\ Ended' = Ended /\ list' = list
  BY <1>0, <1>1, GivenStays DEF given
<1>3. WorkspaceOK'
  BY <1>0, <1>1, MergeType, FailureType DEF Settle
<1>4. FilesOK'
  BY <1>0, <1>1 DEF FilesOK
<1>5. ThreadsOK'
  BY <1>0, <1>1, <1>2 DEF ThreadsOK, queueVars, Idle
<1>. QED BY <1>2, <1>3, <1>4, <1>5, TypePartsNext

LEMMA JoinType == AnalysisTypeOK /\ JoinAndSort => AnalysisTypeOK'
<1> SUFFICES ASSUME AnalysisTypeOK, JoinAndSort PROVE AnalysisTypeOK'
  OBVIOUS
<1>0. GivenOK /\ ThreadsOK /\ WorkspaceOK /\ FilesOK
  BY TypeParts
<1>1. UNCHANGED <<given, next, feeder, queueVars, hand>> /\ main' = "ready" /\ SortWorkspace
  BY DEF JoinAndSort
<1>2. GivenOK' /\ Entries' = Entries /\ Ended' = Ended /\ list' = list
  BY <1>0, <1>1, GivenStays DEF given
<1>3. WorkspaceOK'
  BY <1>0, <1>1, SortType
<1>4. FilesOK'
  <2>1. files' \in Arrangements(files, <) \/ files' = files
    BY DEF JoinAndSort
  <2>2. files \in Seq(Files)
    BY <1>0 DEF FilesOK
  <2>3. files' \in Seq(Files)
    BY <2>1, <2>2, Arranged
  <2>. QED BY <2>3 DEF FilesOK
<1>5. ThreadsOK'
  BY <1>0, <1>1, <1>2 DEF ThreadsOK, queueVars, Idle
<1>. QED BY <1>2, <1>3, <1>4, <1>5, TypePartsNext

LEMMA LoadType == AnalysisTypeOK /\ (Load \/ LoadThrow \/ LoadEnd) => AnalysisTypeOK'
<1> SUFFICES ASSUME AnalysisTypeOK, Load \/ LoadThrow \/ LoadEnd PROVE AnalysisTypeOK'
  OBVIOUS
<1>0. GivenOK /\ ThreadsOK /\ WorkspaceOK /\ FilesOK
  BY TypeParts
<1>1. CASE Load
  <2>1. UNCHANGED <<given, feeder, queueVars, hand, files, main>> /\ next \in Entries /\ next' = next + 1
    BY <1>1 DEF Load
  <2>2. GivenOK' /\ Entries' = Entries /\ Ended' = Ended /\ list' = list
    BY <1>0, <2>1, GivenStays DEF given
  <2>3. WorkspaceOK'
    <3>1. CASE UNCHANGED wsVars
      BY <1>0, <2>2, <3>1 DEF WorkspaceOK, wsVars
    <3>. QED BY <1>0, <1>1, <2>1, <3>1, MergeType, FailureType DEF Load
  <2>4. next' \in 1..(Len(list) + 1)
    BY <1>0, <2>1, EntryFacts DEF GivenOK
  <2>5. FilesOK' /\ ThreadsOK'
    BY <1>0, <2>1, <2>2, <2>4 DEF FilesOK, ThreadsOK, queueVars, Idle
  <2>. QED BY <2>2, <2>3, <2>5, TypePartsNext
<1>2. CASE LoadThrow \/ LoadEnd
  <2>1. UNCHANGED <<given, next, feeder, queueVars, hand, wsVars, files>> /\ main' \in {"dead", "ready"}
    BY <1>2 DEF LoadThrow, LoadEnd
  <2>. QED BY <1>0, <2>1, ThreadType DEF ThreadsOK, queueVars
<1>. QED BY <1>1, <1>2

LEMMA AnalysisTypedStep == AnalysisTypeOK /\ [AnalysisNext]_analysisVars => AnalysisTypeOK'
<1> SUFFICES ASSUME AnalysisTypeOK, [AnalysisNext]_analysisVars PROVE AnalysisTypeOK'
  OBVIOUS
<1>1. CASE UNCHANGED analysisVars
  <2>1. ThreadsOK
    BY TypeParts
  <2>2. /\ UNCHANGED <<given, wsVars, files>> /\ UNCHANGED <<next, feeder, queue, closed, hand, main>>
    BY <1>1 DEF analysisVars, queueVars
  <2>. QED BY <2>1, <2>2, ThreadType DEF ThreadsOK
<1>2. CASE AnalysisNext
  BY <1>2, FeedType, FeedEndType, PopType, SettleType, JoinType, LoadType
    DEF AnalysisNext, FeederStep, WorkerStep, MainStep
<1>. QED BY <1>1, <1>2

(* Every reachable state is typed, for any files, lists, cores and         *)
(* capacity: the queue never exceeds its capacity and what the threads     *)
(* hand around are entries of the list.                                    *)
THEOREM AnalysisTyped == AnalysisSpec => []AnalysisTypeOK
  BY AnalysisInitTyped, AnalysisTypedStep, PTL DEF AnalysisSpec

-----------------------------------------------------------------------------
(* The index. *)

LEMMA AppendedUnits ==
  ASSUME WorkspaceOK, NEW i \in Entries, Merge(i)
  PROVE  /\ Len(units) \in Nat /\ DOMAIN units = 1..Len(units)
         /\ DOMAIN units' = 1..(Len(units) + 1)
         /\ \A n \in DOMAIN units : units'[n] = units[n]
         /\ units'[Len(units) + 1] = i
<1>1. units \in Seq(Entries) /\ units' = Append(units, i)
  BY DEF WorkspaceOK, Merge
<1>. QED BY <1>1, AppendProperties

LEMMA MergeIndex ==
  ASSUME WorkspaceOK, IndexConsistent, list' = list, NEW i \in Entries, Merge(i)
  PROVE  IndexConsistent'
<1> DEFINE N == Len(units) + 1
<1>1. /\ Len(units) \in Nat /\ DOMAIN units = 1..Len(units)
      /\ DOMAIN units' = 1..N
      /\ \A n \in DOMAIN units : units'[n] = units[n]
      /\ units'[N] = i
  BY AppendedUnits
<1>2. /\ DOMAIN index' = DOMAIN index \cup {list[i]}
      /\ \A p \in DOMAIN index' : index'[p] = IF p = list[i] THEN N ELSE index[p]
  BY DEF Merge
<1>3. N \in 1..N /\ \A n \in DOMAIN units : n \in 1..N
  BY <1>1
<1>4. \A n \in 1..N : n \in DOMAIN units \/ n = N
  BY <1>1
<1> HIDE DEF N
<1>5. DOMAIN index' = {list[units'[n]] : n \in DOMAIN units'}
  <2>1. DOMAIN index = {list[units[n]] : n \in DOMAIN units}
    BY DEF IndexConsistent
  <2>2. \A p : p \in DOMAIN index' <=> p \in {list[units'[n]] : n \in DOMAIN units'}
    BY <1>1, <1>2, <1>3, <1>4, <2>1
  <2>. QED BY <2>2
<1>6. ASSUME NEW p \in DOMAIN index' PROVE index'[p] \in DOMAIN units' /\ list[units'[index'[p]]] = p
  <2>1. CASE p = list[i]
    BY <1>1, <1>2, <1>3, <2>1
  <2>2. CASE p # list[i]
    <3>1. p \in DOMAIN index /\ index'[p] = index[p]
      BY <1>2, <2>2
    <3>2. index[p] \in DOMAIN units /\ list[units[index[p]]] = p
      BY <3>1 DEF IndexConsistent
    <3>. QED BY <1>1, <1>3, <3>1, <3>2
  <2>. QED BY <2>1, <2>2
<1>. QED BY <1>5, <1>6 DEF IndexConsistent

LEMMA SortIndex ==
  ASSUME WorkspaceOK, list' = list, SortWorkspace
  PROVE  IndexConsistent'
<1>1. units' \in Seq(Entries)
  BY Arranged DEF SortWorkspace, WorkspaceOK
<1>2. DOMAIN units' = 1..Len(units') /\ Len(units') \in Nat
  BY <1>1
<1>3. index' = Reindexed(units')
  BY DEF SortWorkspace
<1>4. DOMAIN index' = {list[units'[n]] : n \in DOMAIN units'}
  BY <1>3 DEF Reindexed
<1>5. ASSUME NEW p \in DOMAIN index' PROVE index'[p] \in DOMAIN units' /\ list[units'[index'[p]]] = p
  <2> DEFINE S == {n \in DOMAIN units' : list[units'[n]] = p}
  <2>1. S \subseteq 1..Len(units') /\ S # {}
    BY <1>2, <1>4
  <2>2. \E s \in S : \A t \in S : t <= s
    BY <1>2, <2>1, LastExists
  <2>3. \E n \in DOMAIN units' :
          list[units'[n]] = p /\ \A m \in DOMAIN units' : list[units'[m]] = p => m <= n
    BY <2>2
  <2>4. index'[p] = CHOOSE n \in DOMAIN units' :
          list[units'[n]] = p /\ \A m \in DOMAIN units' : list[units'[m]] = p => m <= n
    BY <1>3 DEF Reindexed
  <2>. QED BY <2>3, <2>4
<1>. QED BY <1>4, <1>5 DEF IndexConsistent

LEMMA IndexInit == AnalysisInit => IndexConsistent
  BY DEF AnalysisInit, IndexConsistent

LEMMA IndexStep == AnalysisTypeOK /\ IndexConsistent /\ [AnalysisNext]_analysisVars => IndexConsistent'
<1> SUFFICES ASSUME AnalysisTypeOK, IndexConsistent, [AnalysisNext]_analysisVars PROVE IndexConsistent'
  OBVIOUS
<1>0. WorkspaceOK
  BY TypeParts
<1>1. ASSUME UNCHANGED <<list, units, index>> PROVE IndexConsistent'
  BY <1>1 DEF IndexConsistent
<1>2. CASE FeederStep
  BY <1>1, <1>2 DEF FeederStep, Feed, FeedEnd, ScanThrow, given, wsVars
<1>3. ASSUME NEW w \in Workers, Pop(w) PROVE IndexConsistent'
  BY <1>1, <1>3 DEF Pop, given, wsVars
<1>4. ASSUME NEW w \in Workers, Settle(w) PROVE IndexConsistent'
  <2>1. hand[w] \in Entries /\ list' = list
    BY <1>4 DEF Settle, given
  <2>2. CASE Merge(hand[w])
    BY <1>0, <2>1, <2>2, MergeIndex
  <2>3. CASE CountFailure
    BY <1>1, <2>1, <2>3 DEF CountFailure
  <2>. QED BY <1>4, <2>2, <2>3 DEF Settle
<1>5. CASE JoinAndSort
  <2>1. list' = list /\ SortWorkspace
    BY <1>5 DEF JoinAndSort, given
  <2>. QED BY <1>0, <2>1, SortIndex
<1>6. CASE Load
  <2>1. next \in Entries /\ list' = list
    BY <1>6 DEF Load, given
  <2>2. CASE Merge(next)
    BY <1>0, <2>1, <2>2, MergeIndex
  <2>3. CASE CountFailure
    BY <1>1, <2>1, <2>3 DEF CountFailure
  <2>4. CASE UNCHANGED wsVars
    BY <1>1, <2>1, <2>4 DEF wsVars
  <2>. QED BY <1>6, <2>2, <2>3, <2>4 DEF Load
<1>7. CASE LoadThrow \/ LoadEnd
  BY <1>1, <1>7 DEF LoadThrow, LoadEnd, given, wsVars
<1>8. CASE UNCHANGED analysisVars
  BY <1>1, <1>8 DEF analysisVars, given, wsVars
<1>. QED BY <1>2, <1>3, <1>4, <1>5, <1>6, <1>7, <1>8 DEF AnalysisNext, WorkerStep, MainStep

(* The index of a workspace names every path that has a translation unit   *)
(* and leads to a unit of that path, while the workers merge, when a path  *)
(* is listed twice, and after the final sort has moved the units.          *)
THEOREM IndexIsConsistent == AnalysisSpec => []IndexConsistent
<1>1. AnalysisInit => AnalysisTypeOK /\ IndexConsistent
  BY AnalysisInitTyped, IndexInit
<1>2. AnalysisTypeOK /\ IndexConsistent /\ [AnalysisNext]_analysisVars => AnalysisTypeOK' /\ IndexConsistent'
  BY AnalysisTypedStep, IndexStep
<1>. QED BY <1>1, <1>2, PTL DEF AnalysisSpec

-----------------------------------------------------------------------------
(* Every entry is settled exactly once. *)

(* Which threads may still run.  A worker that was started ends only when  *)
(* the queue is closed and empty.                                          *)
Shape ==
  /\ feeder = "run" => main = "join" /\ ~closed
  /\ main = "join" => entry # "lazy" /\ Started \in 1..Cores
  /\ main = "load" => entry = "lazy"
  /\ main # "join" => feeder = "end" /\ queue = <<>> /\ \A w \in Workers : hand[w] = Ended
  /\ main = "join" => \A w \in 1..Started : hand[w] = Ended => queue = <<>> /\ closed

(* No entry is in two places.                                              *)
Once ==
  /\ \A n \in DOMAIN queue : queue[n] < next
  /\ \A m, n \in DOMAIN queue : m < n => queue[m] < queue[n]
  /\ \A w \in Workers : hand[w] \in Entries => hand[w] < next /\ \A n \in DOMAIN queue : hand[w] # queue[n]
  /\ \A v, w \in Workers : hand[v] \in Entries /\ hand[v] = hand[w] => v = w

(* A path is loaded at most once.                                          *)
Fresh == entry = "lazy" => IsInjective(list) /\ \A n \in DOMAIN units : units[n] < next

OnceInv == AnalysisTypeOK /\ IndexConsistent /\ Shape /\ Once /\ Fresh

LEMMA OnceInit == AnalysisInit => OnceInv
<1> SUFFICES ASSUME AnalysisInit PROVE OnceInv
  OBVIOUS
<1>0. AnalysisTypeOK /\ IndexConsistent
  BY AnalysisInitTyped, IndexInit
<1>1. queue = <<>> /\ units = <<>> /\ closed = FALSE /\ \A w \in Workers : hand[w] \in {Idle, Ended}
  BY DEF AnalysisInit
<1>2. \A w \in Workers : hand[w] \notin Entries
  BY <1>0, <1>1, EntryFacts, TypeParts DEF GivenOK
<1>3. Once
  BY <1>1, <1>2 DEF Once
<1>4. Fresh
  <2>1. entry = "lazy" => list \in Listings
    BY DEF AnalysisInit
  <2>2. \A l \in Listings : IsInjective(l)
    BY DEF Listings
  <2>. QED BY <1>1, <2>1, <2>2 DEF Fresh
<1>5. Shape
  <2>1. Len(list) \in Nat /\ Cores \in Nat \ {0}
    BY <1>0, AnalysisConstantsOK, EntryFacts, TypeParts DEF GivenOK
  <2>2. ASSUME main = "join" PROVE entry # "lazy" /\ ~NothingGiven /\ feeder = "run"
    BY <2>2 DEF AnalysisInit
  <2>3. ASSUME main = "join" PROVE Started \in 1..Cores
    <3>1. entry # "files" \/ list # <<>>
      BY <2>2, <2>3 DEF NothingGiven
    <3>2. list # <<>> => Len(list) \in Nat \ {0}
      BY <1>0, EmptySeq, TypeParts DEF GivenOK
    <3>. QED BY <2>1, <3>1, <3>2 DEF Started
  <2>4. ASSUME main = "join", NEW w \in 1..Started PROVE hand[w] # Ended
    <3>1. w \in Workers /\ ~ (w > Started)
      BY <2>1, <2>3, <2>4 DEF Workers
    <3>2. hand[w] = Idle
      BY <2>2, <2>4, <3>1 DEF AnalysisInit
    <3>. QED BY <1>0, <3>2, EntryFacts, TypeParts DEF GivenOK
  <2>5. ASSUME main # "join" PROVE feeder = "end" /\ \A w \in Workers : hand[w] = Ended
    <3>1. entry = "lazy" \/ NothingGiven
      BY <2>5 DEF AnalysisInit
    <3>2. ASSUME NothingGiven, NEW w \in Workers PROVE w > Started
      <4>1. entry = "files" /\ Len(list) = 0
        BY <3>2 DEF NothingGiven
      <4>2. Started = 0
        BY <2>1, <4>1 DEF Started
      <4>. QED BY <2>1, <4>2 DEF Workers
    <3>. QED BY <3>1, <3>2 DEF AnalysisInit
  <2>6. feeder = "run" => main = "join"
    BY DEF AnalysisInit
  <2>7. main = "load" => entry = "lazy"
    BY DEF AnalysisInit
  <2>. QED BY <1>1, <2>2, <2>3, <2>4, <2>5, <2>6, <2>7 DEF Shape
<1>. QED BY <1>0, <1>3, <1>4, <1>5 DEF OnceInv

LEMMA QueueFacts ==
  ASSUME ThreadsOK
  PROVE  /\ queue \in Seq(Entries) /\ DOMAIN queue = 1..Len(queue) /\ Len(queue) \in Nat
         /\ \A n \in DOMAIN queue : queue[n] \in Entries
  BY DEF ThreadsOK

(* What a push does to the queue. *)
LEMMA Pushed ==
  ASSUME ThreadsOK, NEW i \in Entries, Q!Accept(i)
  PROVE  /\ ~closed /\ closed' = closed
         /\ DOMAIN queue' = 1..(Len(queue) + 1)
         /\ \A n \in DOMAIN queue : queue'[n] = queue[n]
         /\ queue'[Len(queue) + 1] = i
<1>1. ~closed /\ queue' = Append(queue, i) /\ closed' = closed
  BY DEF Q!Accept
<1>. QED BY <1>1, QueueFacts, AppendProperties

(* ... and what a pop does. *)
LEMMA TakenUnits ==
  ASSUME ThreadsOK, NEW i \in Entries, Q!Take(i)
  PROVE  /\ closed' = closed
         /\ 1 \in DOMAIN queue /\ queue[1] = i
         /\ DOMAIN queue' = 1..(Len(queue) - 1)
         /\ \A n \in DOMAIN queue' : n + 1 \in DOMAIN queue /\ queue'[n] = queue[n + 1]
<1>1. queue # <<>> /\ i = Head(queue) /\ queue' = Tail(queue) /\ closed' = closed
  BY DEF Q!Take
<1>2. queue \in Seq(Entries) /\ Len(queue) \in Nat \ {0}
  BY <1>1, QueueFacts, EmptySeq
<1>3. /\ Len(queue') = Len(queue) - 1 /\ queue' \in Seq(Entries)
      /\ \A n \in 1..Len(queue') : queue'[n] = queue[n + 1]
  BY <1>1, <1>2, HeadTailProperties
<1>4. i = queue[1]
  BY <1>1
<1>5. DOMAIN queue = 1..Len(queue) /\ DOMAIN queue' = 1..(Len(queue) - 1)
  BY <1>2, <1>3
<1>. QED BY <1>1, <1>2, <1>3, <1>4, <1>5

(* A step that leaves the list alone stutters for the promise when no      *)
(* entry is settled by it.                                                 *)
LEMMA Stutters ==
  ASSUME UNCHANGED given, Merged' = Merged, Returned' = Returned,
         \A i \in Entries : (Ahead(i) \/ Queued(i) \/ Held(i))' <=> (Ahead(i) \/ Queued(i) \/ Held(i))
  PROVE  [Promise!Next]_(Promise!promiseVars)
<1>1. list' = list /\ fate' = fate /\ Entries' = Entries
  BY DEF given, Entries
<1>2. Pending' = Pending
  BY <1>1 DEF Pending
<1>. QED BY <1>1, <1>2 DEF Promise!promiseVars

LEMMA FeedOnce ==
  ASSUME OnceInv, Feed
  PROVE  /\ Shape' /\ Once' /\ Fresh'
         /\ [Promise!Next]_(Promise!promiseVars)
<1>0. GivenOK /\ ThreadsOK /\ Shape /\ Once /\ Fresh
  BY TypeParts DEF OnceInv
<1>1. /\ UNCHANGED given /\ UNCHANGED <<feeder, hand, wsVars, main>>
      /\ feeder = "run" /\ next \in Entries /\ next' = next + 1
  BY DEF Feed
<1>2. Entries' = Entries /\ Ended' = Ended /\ Started' = Started /\ list' = list /\ entry' = entry
  BY <1>0, <1>1, GivenStays DEF given
<1>3. Q!Accept(next)
  <2>1. ~closed
    BY <1>0, <1>1 DEF Shape
  <2>. QED BY <2>1 DEF Feed, Q!Refuse
<1>4. /\ ~closed /\ closed' = closed
      /\ DOMAIN queue' = 1..(Len(queue) + 1)
      /\ \A n \in DOMAIN queue : queue'[n] = queue[n]
      /\ queue'[Len(queue) + 1] = next
  BY <1>0, <1>1, <1>3, Pushed
<1>5. /\ queue \in Seq(Entries) /\ DOMAIN queue = 1..Len(queue) /\ Len(queue) \in Nat
      /\ \A n \in DOMAIN queue : queue[n] \in Entries
  BY <1>0, QueueFacts
<1>6. /\ Len(queue) + 1 \in DOMAIN queue'
      /\ \A n \in DOMAIN queue' : n = Len(queue) + 1 \/ n \in DOMAIN queue
      /\ \A n \in DOMAIN queue : n \in DOMAIN queue' /\ n < Len(queue) + 1 /\ ~ (Len(queue) + 1 < n)
      /\ ~ (Len(queue) + 1 < Len(queue) + 1)
  BY <1>4, <1>5
<1>7. next \in Nat /\ next' \in Nat /\ next' = next + 1 /\ \A i \in Entries : i \in Nat
  BY <1>0, <1>1, EntryFacts DEF GivenOK
<1>8. Once'
  <2>1. \A n \in DOMAIN queue' : queue'[n] < next'
    <3>1. ASSUME NEW n \in DOMAIN queue PROVE queue'[n] < next'
      BY <1>0, <1>4, <1>5, <1>7 DEF Once
    <3>. QED BY <1>4, <1>6, <1>7, <3>1
  <2>2. \A m, n \in DOMAIN queue' : m < n => queue'[m] < queue'[n]
    BY <1>0, <1>4, <1>6 DEF Once
  <2>3. ASSUME NEW w \in Workers, hand[w] \in Entries
        PROVE  hand[w] < next' /\ \A n \in DOMAIN queue' : hand[w] # queue'[n]
    <3>1. hand[w] < next /\ \A n \in DOMAIN queue : hand[w] # queue[n]
      BY <1>0, <2>3 DEF Once
    <3>2. hand[w] < next' /\ hand[w] # next
      BY <1>7, <2>3, <3>1
    <3>. QED BY <1>4, <1>6, <3>1, <3>2
  <2>. QED BY <1>0, <1>1, <1>2, <2>1, <2>2, <2>3 DEF Once
<1>9. Fresh'
  <2>1. entry # "lazy"
    BY <1>0, <1>1 DEF Shape
  <2>. QED BY <1>2, <2>1 DEF Fresh
<1>10. Shape'
  <2>1. main = "join"
    BY <1>0, <1>1 DEF Shape
  <2>2. ASSUME NEW w \in 1..Started PROVE hand[w] # Ended
    BY <1>0, <1>4, <2>1 DEF Shape
  <2>. QED BY <1>0, <1>1, <1>2, <1>4, <2>1, <2>2 DEF Shape
<1>11. [Promise!Next]_(Promise!promiseVars)
  <2>1. Merged' = Merged /\ Returned' = Returned
    BY <1>1 DEF Merged, Returned, wsVars
  <2>2. ASSUME NEW i \in Entries PROVE Queued(i)' <=> (Queued(i) \/ i = next)
    BY <1>4, <1>6 DEF Queued
  <2>3. ASSUME NEW i \in Entries PROVE Held(i)' <=> Held(i)
    BY <1>1 DEF Held
  <2>4. ASSUME NEW i \in Entries PROVE Ahead(i) <=> (Ahead(i)' \/ i = next)
    <3>1. feeder = "run" /\ feeder' = "run"
      BY <1>1
    <3>. QED BY <1>7, <3>1 DEF Ahead
  <2>5. \A i \in Entries : (Ahead(i) \/ Queued(i) \/ Held(i))' <=> (Ahead(i) \/ Queued(i) \/ Held(i))
    BY <2>2, <2>3, <2>4
  <2>. QED BY <1>1, <2>1, <2>5, Stutters
<1>. QED BY <1>8, <1>9, <1>10, <1>11

LEMMA FeedEndOnce ==
  ASSUME OnceInv, FeedEnd
  PROVE  /\ Shape' /\ Once' /\ Fresh'
         /\ [Promise!Next]_(Promise!promiseVars)
<1>0. GivenOK /\ ThreadsOK /\ Shape /\ Once /\ Fresh
  BY TypeParts DEF OnceInv
<1>1. /\ UNCHANGED given /\ UNCHANGED <<next, hand, wsVars, files, main, queue>>
      /\ feeder = "run" /\ feeder' = "end" /\ closed' = TRUE /\ next \notin Entries
  BY DEF FeedEnd, Q!MarkDone
<1>2. Entries' = Entries /\ Ended' = Ended /\ Started' = Started /\ list' = list /\ entry' = entry
  BY <1>0, <1>1, GivenStays DEF given
<1>3. main = "join"
  BY <1>0, <1>1 DEF Shape
<1>4. Shape' /\ Once' /\ Fresh'
  BY <1>0, <1>1, <1>2, <1>3 DEF Shape, Once, Fresh, wsVars
<1>5. [Promise!Next]_(Promise!promiseVars)
  <2>1. Merged' = Merged /\ Returned' = Returned
    BY <1>1 DEF Merged, Returned, wsVars
  <2>2. \A i \in Entries : ~ (i >= next)
    BY <1>0, <1>1, EntryFacts DEF GivenOK, ThreadsOK
  <2>3. ASSUME NEW i \in Entries
        PROVE  (Ahead(i) \/ Queued(i) \/ Held(i))' <=> (Ahead(i) \/ Queued(i) \/ Held(i))
    BY <1>1, <2>2 DEF Ahead, Queued, Held
  <2>. QED BY <1>1, <2>1, <2>3, Stutters
<1>. QED BY <1>4, <1>5

LEMMA ScanThrowOnce ==
  ASSUME OnceInv, ScanThrow
  PROVE  /\ Shape' /\ Once' /\ Fresh'
         /\ [Promise!Next]_(Promise!promiseVars)
<1>0. GivenOK /\ ThreadsOK /\ Shape /\ Once /\ Fresh
  BY TypeParts DEF OnceInv
<1>1. /\ UNCHANGED given /\ UNCHANGED <<next, hand, wsVars, files, main, queue>>
      /\ feeder = "run" /\ feeder' = "end" /\ closed' = TRUE
  BY DEF ScanThrow, Q!MarkDone
<1>2. Entries' = Entries /\ Ended' = Ended /\ Started' = Started
      /\ list' = list /\ entry' = entry /\ fate' = fate
  BY <1>0, <1>1, GivenStays DEF given
<1>3. main = "join" /\ entry # "lazy"
  BY <1>0, <1>1 DEF Shape
<1>4. Shape' /\ Once' /\ Fresh'
  BY <1>0, <1>1, <1>2, <1>3 DEF Shape, Once, Fresh, wsVars
<1>5. Merged' = Merged /\ ~Returned /\ Returned' = Returned
  BY <1>1, <1>3 DEF Merged, Returned, wsVars
<1>6. next \in 1..(Len(list) + 1) /\ Entries = 1..Len(list) /\ Len(list) \in Nat
  BY <1>0, EntryFacts DEF ThreadsOK, GivenOK
<1>7. \A i \in Entries : i \in Nat /\ (i <= next - 1 <=> i < next) /\ (i >= next <=> ~ (i < next))
  BY <1>6
<1>8. ASSUME NEW i \in Entries
      PROVE  (Ahead(i) \/ Queued(i) \/ Held(i))' <=> ((Ahead(i) \/ Queued(i) \/ Held(i)) /\ i <= next - 1)
  <2>1. ~Ahead(i)'
    BY <1>1, <1>2, <1>3 DEF Ahead
  <2>2. (Queued(i)' <=> Queued(i)) /\ (Held(i)' <=> Held(i))
    BY <1>1 DEF Queued, Held
  <2>3. Queued(i) \/ Held(i) => i <= next - 1
    BY <1>0, <1>7 DEF Once, Queued, Held
  <2>4. Ahead(i) => ~ (i <= next - 1)
    BY <1>7 DEF Ahead
  <2>. QED BY <2>1, <2>2, <2>3, <2>4
<1>9. Pending' = {i \in Pending : i <= next - 1}
  BY <1>2, <1>8 DEF Pending
<1>10. next - 1 \in {0} \cup DOMAIN list
  BY <1>6 DEF Entries
<1>11. Promise!GiveUp(next - 1)
  BY <1>2, <1>5, <1>9 DEF Promise!GiveUp
<1>. QED BY <1>4, <1>10, <1>11 DEF Promise!Next

LEMMA PopOnce ==
  ASSUME OnceInv, NEW w \in Workers, Pop(w)
  PROVE  /\ Shape' /\ Once' /\ Fresh'
         /\ [Promise!Next]_(Promise!promiseVars)
<1>0. GivenOK /\ ThreadsOK /\ Shape /\ Once /\ Fresh
  BY TypeParts DEF OnceInv
<1>1. /\ UNCHANGED given /\ UNCHANGED <<next, feeder, wsVars, files, main>>
      /\ hand[w] = Idle /\ hand \in [Workers -> Entries \cup {Idle, Ended}]
  BY <1>0 DEF Pop, ThreadsOK
<1>2. Entries' = Entries /\ Ended' = Ended /\ Started' = Started /\ list' = list /\ entry' = entry
  BY <1>0, <1>1, GivenStays DEF given
<1>3. /\ Idle \notin Entries /\ Ended \notin Entries /\ Idle # Ended
      /\ next \in Nat /\ \A i \in Entries : i \in Nat
  BY <1>0, EntryFacts DEF GivenOK, ThreadsOK
<1>4. main = "join"
  BY <1>0, <1>1, <1>3 DEF Shape
<1>5. Fresh'
  BY <1>0, <1>1, <1>2 DEF Fresh, wsVars
<1>6. Merged' = Merged /\ Returned' = Returned
  BY <1>1 DEF Merged, Returned, wsVars
<1>7. CASE \E i \in Entries : Q!Take(i) /\ hand' = [hand EXCEPT ![w] = i]
  <2>1. PICK i \in Entries : Q!Take(i) /\ hand' = [hand EXCEPT ![w] = i]
    BY <1>7
  <2>2. /\ closed' = closed
        /\ 1 \in DOMAIN queue /\ queue[1] = i
        /\ DOMAIN queue' = 1..(Len(queue) - 1)
        /\ \A n \in DOMAIN queue' : n + 1 \in DOMAIN queue /\ queue'[n] = queue[n + 1]
    BY <1>0, <2>1, TakenUnits
  <2>3. hand'[w] = i /\ \A v \in Workers : v # w => hand'[v] = hand[v]
    BY <1>1, <2>1
  <2>4. /\ DOMAIN queue = 1..Len(queue) /\ Len(queue) \in Nat
        /\ \A n \in DOMAIN queue : queue[n] \in Entries
    BY <1>0, QueueFacts
  <2>5. \A m, n \in DOMAIN queue' : 1 < n + 1 /\ (m < n => m + 1 < n + 1)
    BY <2>2, <2>4
  <2>6. \A n \in DOMAIN queue : n = 1 \/ (n - 1 \in DOMAIN queue' /\ (n - 1) + 1 = n)
    BY <2>2, <2>4
  <2>7. Once'
    <3>1. \A n \in DOMAIN queue' : queue'[n] < next'
      BY <1>0, <1>1, <2>2 DEF Once
    <3>2. \A m, n \in DOMAIN queue' : m < n => queue'[m] < queue'[n]
      BY <1>0, <2>2, <2>5 DEF Once
    <3>3. ASSUME NEW n \in DOMAIN queue' PROVE i # queue'[n]
      <4>1. queue[1] < queue[n + 1]
        BY <1>0, <2>2, <2>5 DEF Once
      <4>2. queue[1] \in Nat /\ queue[n + 1] \in Nat
        BY <1>3, <2>2, <2>4
      <4>. QED BY <2>2, <4>1, <4>2
    <3>4. ASSUME NEW v \in Workers, hand'[v] \in Entries
          PROVE  hand'[v] < next' /\ \A n \in DOMAIN queue' : hand'[v] # queue'[n]
      <4>1. CASE v = w
        BY <1>0, <1>1, <2>2, <2>3, <3>3, <4>1 DEF Once
      <4>2. CASE v # w
        BY <1>0, <1>1, <2>2, <2>3, <3>4, <4>2 DEF Once
      <4>. QED BY <4>1, <4>2
    <3>5. ASSUME NEW u \in Workers, NEW v \in Workers, hand'[u] \in Entries, hand'[u] = hand'[v]
          PROVE  u = v
      <4>1. \A x \in Workers : hand[x] \in Entries => hand[x] # i
        BY <1>0, <2>2 DEF Once
      <4>2. CASE u = w \/ v = w
        BY <2>1, <2>3, <3>5, <4>1, <4>2
      <4>3. CASE u # w /\ v # w
        BY <1>0, <2>3, <3>5, <4>3 DEF Once
      <4>. QED BY <4>2, <4>3
    <3>. QED BY <1>2, <3>1, <3>2, <3>4, <3>5 DEF Once
  <2>8. Shape'
    <3>1. queue # <<>>
      BY <2>2
    <3>2. \A v \in 1..Started : hand[v] # Ended
      BY <1>0, <1>4, <3>1 DEF Shape
    <3>3. ASSUME NEW v \in 1..Started PROVE hand'[v] # Ended
      <4>1. v \in Workers
        <5>1. Started \in 1..Cores
          BY <1>0, <1>4 DEF Shape
        <5>. QED BY <5>1, AnalysisConstantsOK DEF Workers
      <4>2. i # Ended
        BY <1>3, <2>1
      <4>. QED BY <2>3, <3>2, <4>1, <4>2
    <3>. QED BY <1>0, <1>1, <1>2, <1>4, <2>2, <3>3 DEF Shape
  <2>9. ASSUME NEW x \in Entries PROVE (Ahead(x) \/ Queued(x) \/ Held(x))' <=> (Ahead(x) \/ Queued(x) \/ Held(x))
    <3>1. Ahead(x)' <=> Ahead(x)
      BY <1>1, <1>2 DEF Ahead
    <3>2. Queued(x) <=> (Queued(x)' \/ x = i)
      BY <2>2, <2>6 DEF Queued
    <3>3. Held(x)' <=> (Held(x) \/ x = i)
      BY <1>1, <1>3, <2>3 DEF Held
    <3>. QED BY <3>1, <3>2, <3>3
  <2>. QED BY <1>1, <1>5, <1>6, <2>7, <2>8, <2>9, Stutters
<1>8. CASE Q!Drained /\ hand' = [hand EXCEPT ![w] = Ended]
  <2>1. queue = <<>> /\ closed /\ queue' = queue /\ closed' = closed
    BY <1>8 DEF Q!Drained, Q!queueVars
  <2>2. hand'[w] = Ended /\ \A v \in Workers : v # w => hand'[v] = hand[v]
    BY <1>1, <1>8
  <2>3. Once'
    <3>1. \A v \in Workers : hand'[v] \in Entries => v # w /\ hand'[v] = hand[v]
      BY <1>3, <2>2
    <3>. QED BY <1>0, <1>1, <1>2, <2>1, <2>2, <3>1 DEF Once
  <2>4. Shape'
    BY <1>0, <1>1, <1>2, <1>4, <2>1 DEF Shape
  <2>5. ASSUME NEW x \in Entries PROVE (Ahead(x) \/ Queued(x) \/ Held(x))' <=> (Ahead(x) \/ Queued(x) \/ Held(x))
    <3>1. (Ahead(x)' <=> Ahead(x)) /\ (Queued(x)' <=> Queued(x))
      BY <1>1, <1>2, <2>1 DEF Ahead, Queued
    <3>2. Held(x)' <=> Held(x)
      BY <1>1, <1>3, <2>2 DEF Held
    <3>. QED BY <3>1, <3>2
  <2>. QED BY <1>1, <1>5, <1>6, <2>3, <2>4, <2>5, Stutters
<1>. QED BY <1>7, <1>8 DEF Pop

(* Merging appends the entry's unit, and a failure leaves the units. *)
LEMMA MergedIs ==
  ASSUME WorkspaceOK, NEW i \in Entries
  PROVE  /\ Merge(i) => Merged' = Merged \cup {i}
         /\ CountFailure => Merged' = Merged
<1>1. ASSUME Merge(i) PROVE Merged' = Merged \cup {i}
  <2>1. /\ Len(units) \in Nat /\ DOMAIN units = 1..Len(units)
        /\ DOMAIN units' = 1..(Len(units) + 1)
        /\ \A n \in DOMAIN units : units'[n] = units[n]
        /\ units'[Len(units) + 1] = i
    BY <1>1, AppendedUnits
  <2>2. /\ Len(units) + 1 \in DOMAIN units'
        /\ \A n \in DOMAIN units' : n = Len(units) + 1 \/ n \in DOMAIN units
        /\ \A n \in DOMAIN units : n \in DOMAIN units'
    BY <2>1
  <2>3. \A x : x \in Merged' <=> x \in Merged \cup {i}
    BY <2>1, <2>2 DEF Merged
  <2>. QED BY <2>3
<1>2. ASSUME CountFailure PROVE Merged' = Merged
  BY <1>2 DEF CountFailure, Merged
<1>. QED BY <1>1, <1>2

(* An entry that is settled: the only one to stop being pending. *)
LEMMA Settles ==
  ASSUME WorkspaceOK, UNCHANGED given, NEW i \in Entries, i \in Pending,
         \/ fate[list[i]] = "parsed" /\ Merge(i)
         \/ fate[list[i]] # "parsed" /\ CountFailure,
         \A x \in Entries : (Ahead(x) \/ Queued(x) \/ Held(x))' <=> ((Ahead(x) \/ Queued(x) \/ Held(x)) /\ x # i),
         ~Returned, Returned' = Returned
  PROVE  Promise!Next
<1>1. list' = list /\ fate' = fate /\ Entries' = Entries
  BY DEF given, Entries
<1>2. Pending' = Pending \ {i}
  BY <1>1 DEF Pending
<1>3. Merged' = IF Promise!Parses(i) THEN Merged \cup {i} ELSE Merged
  BY MergedIs DEF Promise!Parses
<1>4. Promise!Settle(i)
  BY <1>1, <1>2, <1>3 DEF Promise!Settle
<1>. QED BY <1>4 DEF Promise!Next, Entries

LEMMA SettleOnce ==
  ASSUME OnceInv, NEW w \in Workers, Settle(w)
  PROVE  /\ Shape' /\ Once' /\ Fresh'
         /\ [Promise!Next]_(Promise!promiseVars)
<1>0. GivenOK /\ ThreadsOK /\ WorkspaceOK /\ Shape /\ Once /\ Fresh
  BY TypeParts DEF OnceInv
<1> DEFINE i == hand[w]
<1>1. /\ UNCHANGED given /\ UNCHANGED <<next, feeder, queue, closed, files, main>>
      /\ i \in Entries /\ hand' = [hand EXCEPT ![w] = Idle]
      /\ \/ fate[list[i]] = "parsed" /\ Merge(i)
         \/ fate[list[i]] # "parsed" /\ CountFailure
  BY DEF Settle, queueVars
<1>2. Entries' = Entries /\ Ended' = Ended /\ Started' = Started /\ list' = list /\ entry' = entry
  BY <1>0, <1>1, GivenStays DEF given
<1>3. Idle \notin Entries /\ Ended \notin Entries /\ Idle # Ended
  BY <1>0, EntryFacts DEF GivenOK
<1>4. hand'[w] = Idle /\ \A v \in Workers : v # w => hand'[v] = hand[v]
  BY <1>0, <1>1 DEF ThreadsOK
<1>5. main = "join"
  BY <1>0, <1>1, <1>3 DEF Shape
<1>6. Shape'
  <2>1. \A v \in 1..Started : v \in Workers
    <3>1. Started \in 1..Cores
      BY <1>0, <1>5 DEF Shape
    <3>. QED BY <3>1, AnalysisConstantsOK DEF Workers
  <2>2. \A v \in 1..Started : hand'[v] = Ended => hand[v] = Ended
    BY <1>3, <1>4, <2>1
  <2>. QED BY <1>0, <1>1, <1>2, <1>5, <2>2 DEF Shape
<1>7. Once'
  <2>1. \A v \in Workers : hand'[v] \in Entries => v # w /\ hand'[v] = hand[v]
    BY <1>3, <1>4
  <2>. QED BY <1>0, <1>1, <1>2, <1>4, <2>1 DEF Once
<1>8. Fresh'
  <2>1. entry # "lazy"
    BY <1>0, <1>5 DEF Shape
  <2>. QED BY <1>2, <2>1 DEF Fresh
<1>9. ASSUME NEW x \in Entries
      PROVE  (Ahead(x) \/ Queued(x) \/ Held(x))' <=> ((Ahead(x) \/ Queued(x) \/ Held(x)) /\ x # i)
  <2>1. (Ahead(x)' <=> Ahead(x)) /\ (Queued(x)' <=> Queued(x))
    BY <1>1, <1>2 DEF Ahead, Queued
  <2>2. Held(x)' <=> (Held(x) /\ x # i)
    <3>1. ASSUME NEW v \in Workers, hand[v] = i PROVE v = w
      BY <1>0, <1>1, <3>1 DEF Once
    <3>. QED BY <1>3, <1>4, <3>1 DEF Held
  <2>3. Queued(x) => x # i
    BY <1>0, <1>1 DEF Once, Queued
  <2>4. Ahead(x) => x # i
    <3>1. i < next /\ i \in Nat /\ next \in Nat
      BY <1>0, <1>1, EntryFacts DEF Once, ThreadsOK, GivenOK
    <3>2. i >= next => FALSE
      BY <3>1
    <3>. QED BY <3>2 DEF Ahead
  <2>. QED BY <2>1, <2>2, <2>3, <2>4
<1>10. i \in Pending
  BY <1>1 DEF Pending, Held
<1>11. ~Returned /\ Returned' = Returned
  BY <1>1, <1>5 DEF Returned
<1> HIDE DEF i
<1>. QED BY <1>0, <1>1, <1>6, <1>7, <1>8, <1>9, <1>10, <1>11, Settles

LEMMA JoinOnce ==
  ASSUME OnceInv, JoinAndSort
  PROVE  /\ Shape' /\ Once' /\ Fresh'
         /\ [Promise!Next]_(Promise!promiseVars)
<1>0. GivenOK /\ ThreadsOK /\ WorkspaceOK /\ Shape /\ Once /\ Fresh
  BY TypeParts DEF OnceInv
<1>1. /\ UNCHANGED given /\ UNCHANGED <<next, feeder, queue, closed, hand>>
      /\ main = "join" /\ feeder = "end" /\ main' = "ready" /\ SortWorkspace
      /\ \A w \in Workers : hand[w] = Ended
  BY DEF JoinAndSort, queueVars
<1>2. /\ Entries' = Entries /\ Ended' = Ended /\ Started' = Started
      /\ list' = list /\ entry' = entry /\ fate' = fate
  BY <1>0, <1>1, GivenStays DEF given
<1>3. Ended \notin Entries
  BY <1>0, EntryFacts DEF GivenOK
<1>4. entry # "lazy" /\ queue = <<>>
  <2>1. entry # "lazy" /\ Started \in 1..Cores
    BY <1>0, <1>1 DEF Shape
  <2>2. 1 \in 1..Started /\ 1 \in Workers
    BY <2>1, AnalysisConstantsOK DEF Workers
  <2>. QED BY <1>0, <1>1, <2>1, <2>2 DEF Shape
<1>5. Shape' /\ Fresh'
  BY <1>1, <1>2, <1>4 DEF Shape, Fresh
<1>6. Once'
  BY <1>0, <1>1, <1>2 DEF Once
<1>7. Pending = {} /\ Pending' = {}
  <2>1. ASSUME NEW i \in Entries PROVE ~ (Ahead(i) \/ Queued(i) \/ Held(i))
    BY <1>1, <1>3, <1>4 DEF Ahead, Queued, Held
  <2>2. ASSUME NEW i \in Entries PROVE ~ (Ahead(i) \/ Queued(i) \/ Held(i))'
    BY <1>1, <1>2, <1>3, <1>4 DEF Ahead, Queued, Held
  <2>. QED BY <1>2, <2>1, <2>2 DEF Pending
<1>8. Merged' = Merged
  <2>1. units' \in Arrangements(units, PathBefore) /\ units \in Seq(Entries)
    BY <1>0, <1>1 DEF SortWorkspace, WorkspaceOK
  <2>2. PICK p \in Bijection(DOMAIN units, DOMAIN units) : units' = [i \in DOMAIN units |-> units[p[i]]]
    BY <2>1 DEF Arrangements
  <2>3. DOMAIN units' = DOMAIN units
    BY <2>2
  <2>4. ASSUME NEW n \in DOMAIN units
        PROVE  units'[n] \in {units[k] : k \in DOMAIN units}
    <3>1. p[n] \in DOMAIN units /\ units'[n] = units[p[n]]
      BY <2>2, <2>4 DEF Bijection, Injection
    <3>. QED BY <3>1
  <2>5. ASSUME NEW n \in DOMAIN units
        PROVE  units[n] \in {units'[k] : k \in DOMAIN units'}
    <3>1. PICK k \in DOMAIN units : p[k] = n
      BY <2>2, <2>5 DEF Bijection, Surjection
    <3>2. units'[k] = units[n]
      BY <2>2, <3>1
    <3>. QED BY <2>3, <3>1, <3>2
  <2>. QED BY <2>3, <2>4, <2>5 DEF Merged
<1>9. ~Returned /\ Returned' = TRUE
  BY <1>1 DEF Returned
<1>10. Promise!Return
  BY <1>2, <1>7, <1>8, <1>9 DEF Promise!Return
<1>. QED BY <1>5, <1>6, <1>10 DEF Promise!Next

LEMMA LoadOnce ==
  ASSUME OnceInv, Load
  PROVE  /\ Shape' /\ Once' /\ Fresh'
         /\ [Promise!Next]_(Promise!promiseVars)
<1>0. GivenOK /\ ThreadsOK /\ WorkspaceOK /\ IndexConsistent /\ Shape /\ Once /\ Fresh
  BY TypeParts DEF OnceInv
<1>1. /\ UNCHANGED given /\ UNCHANGED <<feeder, queue, closed, hand, files, main>>
      /\ main = "load" /\ next \in Entries /\ next' = next + 1
  BY DEF Load, queueVars
<1>2. /\ Entries' = Entries /\ Ended' = Ended /\ Started' = Started
      /\ list' = list /\ entry' = entry /\ fate' = fate
  BY <1>0, <1>1, GivenStays DEF given
<1>3. /\ entry = "lazy" /\ feeder = "end" /\ queue = <<>> /\ \A w \in Workers : hand[w] = Ended
  BY <1>0, <1>1 DEF Shape
<1>4. /\ Ended \notin Entries /\ next \in Nat /\ next' \in Nat /\ \A i \in Entries : i \in Nat
  BY <1>0, <1>1, EntryFacts DEF GivenOK
<1>5. list[next] \notin DOMAIN index
  <2>1. ASSUME NEW n \in DOMAIN units, list[units[n]] = list[next] PROVE FALSE
    <3>1. units[n] \in Entries
      BY <1>0 DEF WorkspaceOK
    <3>2. units[n] = next
      BY <1>0, <1>1, <1>3, <2>1, <3>1 DEF Fresh, IsInjective, Entries
    <3>3. units[n] < next
      BY <1>0, <1>3 DEF Fresh
    <3>. QED BY <1>4, <3>2, <3>3
  <2>. QED BY <1>0, <2>1 DEF IndexConsistent
<1>6. \/ fate[list[next]] = "parsed" /\ Merge(next)
      \/ fate[list[next]] # "parsed" /\ CountFailure
  BY <1>5 DEF Load
<1>7. Shape'
  BY <1>1, <1>2, <1>3 DEF Shape
<1>8. Once'
  <2>1. \A w \in Workers : hand'[w] \notin Entries
    BY <1>1, <1>3, <1>4
  <2>. QED BY <1>1, <1>2, <1>3, <2>1 DEF Once
<1>9. Fresh'
  <2>1. \A n \in DOMAIN units' : units'[n] < next'
    <3>1. ASSUME NEW n \in DOMAIN units PROVE units[n] < next'
      <4>1. units[n] < next /\ units[n] \in Nat
        BY <1>0, <1>3, <1>4 DEF Fresh, WorkspaceOK
      <4>. QED BY <1>1, <1>4, <4>1
    <3>2. CASE Merge(next)
      <4>1. /\ Len(units) \in Nat /\ DOMAIN units = 1..Len(units)
            /\ DOMAIN units' = 1..(Len(units) + 1)
            /\ \A n \in DOMAIN units : units'[n] = units[n]
            /\ units'[Len(units) + 1] = next
        BY <1>0, <1>1, <3>2, AppendedUnits
      <4>2. \A n \in DOMAIN units' : n = Len(units) + 1 \/ n \in DOMAIN units
        BY <4>1
      <4>3. next < next'
        BY <1>1, <1>4
      <4>. QED BY <3>1, <4>1, <4>2, <4>3
    <3>3. CASE CountFailure
      BY <3>1, <3>3 DEF CountFailure
    <3>. QED BY <1>6, <3>2, <3>3
  <2>. QED BY <1>0, <1>2, <1>3, <2>1 DEF Fresh
<1>10. ASSUME NEW x \in Entries
       PROVE  (Ahead(x) \/ Queued(x) \/ Held(x))' <=> ((Ahead(x) \/ Queued(x) \/ Held(x)) /\ x # next)
  <2>1. ~Queued(x) /\ ~Queued(x)' /\ ~Held(x) /\ ~Held(x)'
    BY <1>1, <1>2, <1>3, <1>4 DEF Queued, Held
  <2>2. (x >= next + 1) <=> (x >= next /\ x # next)
    BY <1>4
  <2>3. Ahead(x)' <=> (Ahead(x) /\ x # next)
    BY <1>1, <1>2, <1>3, <2>2 DEF Ahead
  <2>. QED BY <2>1, <2>3
<1>11. next \in Pending
  <2>1. next >= next
    BY <1>4
  <2>. QED BY <1>1, <1>3, <2>1 DEF Pending, Ahead
<1>12. ~Returned /\ Returned' = Returned
  BY <1>1 DEF Returned
<1>. QED BY <1>0, <1>1, <1>6, <1>7, <1>8, <1>9, <1>10, <1>11, <1>12, Settles

LEMMA LoadStopOnce ==
  ASSUME OnceInv, LoadThrow \/ LoadEnd
  PROVE  /\ Shape' /\ Once' /\ Fresh'
         /\ [Promise!Next]_(Promise!promiseVars)
<1>0. GivenOK /\ ThreadsOK /\ Shape /\ Once /\ Fresh
  BY TypeParts DEF OnceInv
<1>1. /\ UNCHANGED given /\ UNCHANGED <<next, feeder, queue, closed, hand, wsVars>>
      /\ main = "load" /\ main' \in {"dead", "ready"}
  BY DEF LoadThrow, LoadEnd, queueVars
<1>2. /\ Entries' = Entries /\ Ended' = Ended /\ Started' = Started
      /\ list' = list /\ entry' = entry /\ fate' = fate
  BY <1>0, <1>1, GivenStays DEF given
<1>3. /\ entry = "lazy" /\ feeder = "end" /\ queue = <<>> /\ \A w \in Workers : hand[w] = Ended
  BY <1>0, <1>1 DEF Shape
<1>4. Shape' /\ Once' /\ Fresh'
  BY <1>0, <1>1, <1>2, <1>3 DEF Shape, Once, Fresh, wsVars
<1>5. Merged' = Merged /\ ~Returned /\ Returned' = TRUE
  BY <1>1 DEF Merged, Returned, wsVars
<1>6. Pending' = Pending
  <2>1. ASSUME NEW x \in Entries
        PROVE  (Ahead(x) \/ Queued(x) \/ Held(x))' <=> (Ahead(x) \/ Queued(x) \/ Held(x))
    BY <1>1, <1>2 DEF Ahead, Queued, Held
  <2>. QED BY <1>2, <2>1 DEF Pending
<1>7. CASE LoadThrow
  <2>1. next \in Entries /\ fate[list[next]] = "throws"
    BY <1>7 DEF LoadThrow
  <2>2. next >= next
    BY <1>0, <2>1, EntryFacts DEF GivenOK
  <2>3. next \in Pending
    BY <1>3, <2>1, <2>2 DEF Pending, Ahead
  <2>4. Promise!Die
    BY <1>2, <1>5, <1>6, <2>1, <2>3 DEF Promise!Die
  <2>. QED BY <1>4, <2>4 DEF Promise!Next
<1>8. CASE LoadEnd
  <2>1. next \notin Entries
    BY <1>8 DEF LoadEnd
  <2>2. \A i \in Entries : ~ (i >= next)
    BY <1>0, <2>1, EntryFacts DEF GivenOK, ThreadsOK
  <2>3. Ended \notin Entries
    BY <1>0, EntryFacts DEF GivenOK
  <2>4. Pending = {}
    BY <1>3, <2>2, <2>3 DEF Pending, Ahead, Queued, Held
  <2>5. Promise!Return
    BY <1>2, <1>5, <1>6, <2>4 DEF Promise!Return
  <2>. QED BY <1>4, <2>5 DEF Promise!Next
<1>. QED BY <1>7, <1>8

LEMMA OnceStep ==
  OnceInv /\ [AnalysisNext]_analysisVars => OnceInv' /\ [Promise!Next]_(Promise!promiseVars)
<1> SUFFICES ASSUME OnceInv, [AnalysisNext]_analysisVars
             PROVE  OnceInv' /\ [Promise!Next]_(Promise!promiseVars)
  OBVIOUS
<1>1. AnalysisTypeOK' /\ IndexConsistent'
  BY AnalysisTypedStep, IndexStep DEF OnceInv
<1>2. Shape' /\ Once' /\ Fresh' /\ [Promise!Next]_(Promise!promiseVars)
  <2>1. CASE FeederStep
    BY <2>1, FeedOnce, FeedEndOnce, ScanThrowOnce DEF FeederStep
  <2>2. CASE \E w \in Workers : WorkerStep(w)
    BY <2>2, PopOnce, SettleOnce DEF WorkerStep
  <2>3. CASE MainStep
    BY <2>3, JoinOnce, LoadOnce, LoadStopOnce DEF MainStep
  <2>4. CASE UNCHANGED analysisVars
    <3>1. /\ UNCHANGED given /\ UNCHANGED <<list, fate, entry, next, feeder, queue, closed, hand, units, main>>
      BY <2>4 DEF analysisVars, given, queueVars, wsVars
    <3>2. Entries' = Entries /\ Ended' = Ended /\ Started' = Started
      BY <3>1 DEF Entries, Ended, Started
    <3>3. Shape' /\ Once' /\ Fresh'
      BY <3>1, <3>2 DEF OnceInv, Shape, Once, Fresh
    <3>4. Merged' = Merged /\ Returned' = Returned
      BY <3>1 DEF Merged, Returned
    <3>5. ASSUME NEW x \in Entries
          PROVE  (Ahead(x) \/ Queued(x) \/ Held(x))' <=> (Ahead(x) \/ Queued(x) \/ Held(x))
      BY <3>1 DEF Ahead, Queued, Held
    <3>. QED BY <3>1, <3>3, <3>4, <3>5, Stutters
  <2>. QED BY <2>1, <2>2, <2>3, <2>4 DEF AnalysisNext
<1>. QED BY <1>1, <1>2 DEF OnceInv

(* The three ways of filling a workspace implement AnalysisPromise: every  *)
(* entry is settled exactly once, whichever thread it goes to, and the     *)
(* workspace is handed out only when nothing is left to settle.            *)
THEOREM EntriesSettledOnce == AnalysisSpec => SettledOnce
<1>1. AnalysisInit => Promise!Init
  <2> SUFFICES ASSUME AnalysisInit PROVE Promise!Init
    OBVIOUS
  <2>1. GivenOK /\ \A i \in Entries : i \in Nat
    BY AnalysisInitTyped, TypeParts, EntryFacts DEF GivenOK
  <2>2. ASSUME NEW i \in Entries PROVE Ahead(i)
    <3>1. list # <<>>
      BY <2>1 DEF Entries, GivenOK
    <3>2. feeder = "run" \/ entry = "lazy"
      BY <3>1 DEF AnalysisInit, NothingGiven
    <3>3. next = 1 /\ i >= 1
      BY <2>1, EntryFacts DEF AnalysisInit, GivenOK
    <3>. QED BY <3>2, <3>3 DEF Ahead
  <2>3. Pending = DOMAIN list
    BY <2>2 DEF Pending, Entries
  <2>4. Merged = {}
    BY DEF AnalysisInit, Merged
  <2>5. Returned \in BOOLEAN /\ (Returned => list = <<>>)
    BY DEF AnalysisInit, Returned, NothingGiven
  <2>. QED BY <2>3, <2>4, <2>5 DEF Promise!Init
<1>. QED BY <1>1, OnceInit, OnceStep, PTL DEF AnalysisSpec, SettledOnce, Promise!Spec

-----------------------------------------------------------------------------
(* Counting and sorting. *)

LEMMA SameSize ==
  ASSUME NEW S, NEW T, IsFiniteSet(S), NEW f \in [S -> T],
         \A x, y \in S : f[x] = f[y] => x = y,
         \A t \in T : \E x \in S : f[x] = t
  PROVE  IsFiniteSet(T) /\ Cardinality(T) = Cardinality(S)
<1>1. f \in Bijection(S, T)
  BY DEF Bijection, Injection, Surjection, IsInjective
<1>2. ExistsBijection(S, T)
  BY <1>1 DEF ExistsBijection
<1>. QED BY <1>2, FS_Bijection

Elements(s) == {s[n] : n \in DOMAIN s}
Distinct(s) == \A m, n \in DOMAIN s : s[m] = s[n] => m = n

(* Sorting moves the elements: none is lost, doubled or changed.           *)
LEMMA ArrangedIs ==
  ASSUME NEW S, NEW s \in Seq(S), NEW Before(_, _), NEW t \in Arrangements(s, Before)
  PROVE  /\ t \in Seq(S) /\ Len(t) = Len(s)
         /\ Elements(t) = Elements(s) /\ (Distinct(s) => Distinct(t))
         /\ \A x : Times(t, x) = Times(s, x)
<1>a. PICK p \in Bijection(DOMAIN s, DOMAIN s) : t = [i \in DOMAIN s |-> s[p[i]]]
  BY DEF Arrangements
<1>2. t \in Seq(S) /\ Len(t) = Len(s)
  BY <1>a, Rearranged
<1>3. /\ p \in [DOMAIN s -> DOMAIN s]
      /\ \A v, w \in DOMAIN s : p[v] = p[w] => v = w
      /\ \A w \in DOMAIN s : \E v \in DOMAIN s : p[v] = w
  <2>1. p \in [DOMAIN s -> DOMAIN s] /\ IsInjective(p) /\ \A w \in DOMAIN s : \E v \in DOMAIN s : p[v] = w
    BY DEF Bijection, Injection, Surjection
  <2>. QED BY <2>1 DEF IsInjective
<1>4. DOMAIN t = DOMAIN s /\ \A i \in DOMAIN s : t[i] = s[p[i]]
  BY <1>a
<1>b. Elements(t) = Elements(s)
  <2>1. \A x : x \in {t[n] : n \in DOMAIN t} <=> x \in {s[n] : n \in DOMAIN s}
    BY <1>3, <1>4
  <2>. QED BY <2>1 DEF Elements
<1>5. IsFiniteSet(DOMAIN s)
  <2>1. DOMAIN s = 1..Len(s) /\ Len(s) \in Nat
    OBVIOUS
  <2>. QED BY <2>1, FS_Interval
<1>6. ASSUME NEW x PROVE Times(t, x) = Times(s, x)
  <2> DEFINE A == {n \in DOMAIN t : t[n] = x}
             B == {n \in DOMAIN s : s[n] = x}
             f == [n \in A |-> p[n]]
  <2>1. IsFiniteSet(A)
    BY <1>4, <1>5, FS_Subset
  <2>2. f \in [A -> B]
    BY <1>3, <1>4
  <2>3. \A m, n \in A : f[m] = f[n] => m = n
    BY <1>3, <1>4
  <2>4. \A b \in B : \E n \in A : f[n] = b
    BY <1>3, <1>4
  <2>5. Times(t, x) = Cardinality(A) /\ Times(s, x) = Cardinality(B)
    BY DEF Times
  <2> HIDE DEF A, B, f
  <2>. QED BY <2>1, <2>2, <2>3, <2>4, <2>5, SameSize
<1>7. ASSUME Distinct(s), NEW m \in DOMAIN t, NEW n \in DOMAIN t, t[m] = t[n]
      PROVE  m = n
  <2>1. p[m] \in DOMAIN s /\ p[n] \in DOMAIN s /\ s[p[m]] = s[p[n]]
    BY <1>3, <1>4, <1>7
  <2>2. p[m] = p[n]
    BY <1>7, <2>1 DEF Distinct
  <2>. QED BY <1>3, <1>4, <2>2
<1>. QED BY <1>2, <1>b, <1>6, <1>7 DEF Distinct

(* Sorting puts the elements in order: by path, ... *)
LEMMA PathArranged ==
  ASSUME NEW s, NEW t \in Arrangements(s, PathBefore)
  PROVE  \A m, n \in DOMAIN t : m < n => ~(PathBefore(t[n], t[m]))
<1>1. PICK p \in Bijection(DOMAIN s, DOMAIN s) :
        /\ \A m, n \in DOMAIN s : m < n => ~(PathBefore(s[p[n]], s[p[m]]))
        /\ t = [i \in DOMAIN s |-> s[p[i]]]
  BY Zenon DEF Arrangements
<1>2. DOMAIN t = DOMAIN s /\ \A i \in DOMAIN s : t[i] = s[p[i]]
  BY <1>1
<1>. QED BY <1>1, <1>2

(* ... by path and position, ... *)
LEMMA SymbolArranged ==
  ASSUME NEW s, NEW t \in Arrangements(s, SymbolBefore)
  PROVE  \A m, n \in DOMAIN t : m < n => ~(SymbolBefore(t[n], t[m]))
<1>1. PICK p \in Bijection(DOMAIN s, DOMAIN s) :
        /\ \A m, n \in DOMAIN s : m < n => ~(SymbolBefore(s[p[n]], s[p[m]]))
        /\ t = [i \in DOMAIN s |-> s[p[i]]]
  BY Zenon DEF Arrangements
<1>2. DOMAIN t = DOMAIN s /\ \A i \in DOMAIN s : t[i] = s[p[i]]
  BY <1>1
<1>. QED BY <1>1, <1>2

(* ... or by number. *)
LEMMA NumberArranged ==
  ASSUME NEW s, NEW t \in Arrangements(s, <)
  PROVE  \A m, n \in DOMAIN t : m < n => ~(t[n] < t[m])
<1>1. PICK p \in Bijection(DOMAIN s, DOMAIN s) :
        /\ \A m, n \in DOMAIN s : m < n => ~(s[p[n]] < s[p[m]])
        /\ t = [i \in DOMAIN s |-> s[p[i]]]
  BY Zenon DEF Arrangements
<1>2. DOMAIN t = DOMAIN s /\ \A i \in DOMAIN s : t[i] = s[p[i]]
  BY <1>1
<1>. QED BY <1>1, <1>2

(* The entries of a set that have a path. *)
OfPath(S, p) == {i \in S : list[i] = p}

(* The units of a path, when the units are the entries of a set, each once. *)
LEMMA TimesIs ==
  ASSUME list \in Seq(Files), NEW us \in Seq(Entries), Distinct(us), NEW p
  PROVE  Times(PathsOf(us), p) = Cardinality(OfPath(Elements(us), p))
<1> DEFINE A == {n \in DOMAIN us : list[us[n]] = p}
           B == OfPath(Elements(us), p)
           f == [n \in A |-> us[n]]
<1>1. Times(PathsOf(us), p) = Cardinality(A)
  <2>1. DOMAIN PathsOf(us) = DOMAIN us /\ \A n \in DOMAIN us : PathsOf(us)[n] = list[us[n]]
    BY DEF PathsOf
  <2>2. {n \in DOMAIN PathsOf(us) : PathsOf(us)[n] = p} = A
    BY <2>1
  <2>. QED BY <2>2 DEF Times
<1>2. IsFiniteSet(A)
  <2>1. DOMAIN us = 1..Len(us) /\ Len(us) \in Nat
    OBVIOUS
  <2>2. IsFiniteSet(DOMAIN us)
    BY <2>1, FS_Interval
  <2>. QED BY <2>2, FS_Subset
<1>3. f \in [A -> B]
  BY DEF OfPath, Elements
<1>4. \A m, n \in A : f[m] = f[n] => m = n
  BY DEF Distinct
<1>5. \A b \in B : \E n \in A : f[n] = b
  BY DEF OfPath, Elements
<1> HIDE DEF A, B, f
<1>6. Cardinality(A) = Cardinality(B)
  BY <1>2, <1>3, <1>4, <1>5, SameSize
<1>. QED BY <1>1, <1>6 DEF B

LEMMA OnceIs ==
  ASSUME NEW s, NEW n \in DOMAIN s, Distinct(s)
  PROVE  Times(s, s[n]) = 1
<1>1. {i \in DOMAIN s : s[i] = s[n]} = {n}
  BY DEF Distinct
<1>. QED BY <1>1, FS_Singleton DEF Times

-----------------------------------------------------------------------------
(* The workspace is the one of its file list.  While it is being filled    *)
(* its books are kept: what it holds is what the settled entries left.     *)

(* Settled: found, fed or loaded, and neither queued nor held.             *)
Settled == {i \in Entries : i < next /\ ~Queued(i) /\ ~Held(i)}
Parsing(S) == {i \in S : fate[list[i]] = "parsed"}
SymbolsIn(S) == {s \in Entries \X Nat : s[1] \in S /\ s[2] \in DOMAIN Position[list[s[1]]]}

InOrder(us, ss) ==
  /\ Sorted(list)
  /\ \A m, n \in DOMAIN us : m < n => us[m] < us[n]
  /\ \A m, n \in DOMAIN ss : m < n => \/ ss[m][1] < ss[n][1]
                                      \/ ss[m][1] = ss[n][1] /\ ss[m][2] < ss[n][2]

(* Before the sort: what every entry that is settled has left behind.      *)
Books ==
  /\ deps = units /\ Distinct(units) /\ Distinct(symbols)
  /\ Elements(units) = Parsing(Settled)
  /\ Elements(symbols) = SymbolsIn(Parsing(Settled))
  /\ parsed = Len(units) /\ parsed + failed = Cardinality(Settled)
  /\ entry = "lazy" => InOrder(units, symbols)

(* The files that are listed are the entries up to the next one.           *)
Listed ==
  /\ entry = "workspace" => Len(files) = next - 1 /\ \A n \in 1..(next - 1) : files[n] = list[n]
  /\ entry # "workspace" => files = list /\ (main = "join" /\ feeder = "end" => next = Len(list) + 1)

(* The parts of IsWorkspaceOf, of the given containers. *)
Holds(us, ds, ss, fs, pa, fa) ==
  /\ Sorted(PathsOf(us)) /\ Sorted(PathsOf(ds))
  /\ \A p \in Files :
       /\ Times(PathsOf(us), p) = IF fate[p] = "parsed" THEN Times(fs, p) ELSE 0
       /\ Times(PathsOf(ds), p) = IF fate[p] = "parsed" THEN Times(fs, p) ELSE 0
  /\ \A n \in DOMAIN us : \A k \in DOMAIN Position[list[us[n]]] : Times(ss, <<us[n], k>>) = 1
  /\ \A m, n \in DOMAIN ss : m < n =>
       /\ ~PathBefore(ss[n][1], ss[m][1])
       /\ ~SymbolBefore(ss[n], ss[m]) \/ (entry = "lazy" /\ ss[m][2] < ss[n][2])
  /\ \A m \in DOMAIN ss : \E n \in DOMAIN us : ss[m][1] = us[n]
  /\ pa = Len(us) /\ pa + fa = Len(fs)

LEMMA HoldsIs ==
  IsWorkspaceOf(files) <=> Holds(units, deps, symbols, files, parsed, failed)
  BY DEF Holds, IsWorkspaceOf

LEMMA SortedPaths ==
  ASSUME list \in Seq(Files), NEW us \in Seq(Entries),
         \A m, n \in DOMAIN us : m < n => ~PathBefore(us[n], us[m])
  PROVE  Sorted(PathsOf(us))
<1>1. \A n \in DOMAIN us : us[n] \in Entries
  OBVIOUS
<1>3. \A n \in DOMAIN us : list[us[n]] \in Files
  BY <1>1, EntryFacts
<1>4. \A n \in DOMAIN us : list[us[n]] \in Nat
  BY <1>3, AnalysisConstantsOK
<1>2. DOMAIN PathsOf(us) = DOMAIN us /\ \A n \in DOMAIN us : PathsOf(us)[n] = list[us[n]]
  BY DEF PathsOf
<1>. QED BY <1>4, <1>2 DEF Sorted, PathBefore

LEMMA UnitsOf ==
  ASSUME list \in Seq(Files), NEW S, NEW fs, NEW us \in Seq(Entries),
         \A x : Times(fs, x) = Cardinality(OfPath(S, x)),
         Distinct(us), Elements(us) = Parsing(S), NEW p \in Files
  PROVE  Times(PathsOf(us), p) = IF fate[p] = "parsed" THEN Times(fs, p) ELSE 0
<1>1. Times(PathsOf(us), p) = Cardinality(OfPath(Parsing(S), p))
  BY TimesIs
<1>2. CASE fate[p] = "parsed"
  <2>1. OfPath(Parsing(S), p) = OfPath(S, p)
    BY <1>2 DEF Parsing, OfPath
  <2>. QED BY <1>1, <1>2, <2>1
<1>3. CASE fate[p] # "parsed"
  <2>1. OfPath(Parsing(S), p) = {}
    BY <1>3 DEF Parsing, OfPath
  <2>. QED BY <1>1, <1>3, <2>1, FS_EmptySet
<1>. QED BY <1>2, <1>3

LEMMA Delivered ==
  ASSUME list \in Seq(Files), NEW N \in 0..Len(list),
         NEW us \in Seq(Entries), NEW ds \in Seq(Entries), NEW ss \in Seq(Entries \X Nat),
         NEW fs \in Seq(Files), NEW pa, NEW fa,
         Len(fs) = N, \A x : Times(fs, x) = Cardinality(OfPath(1..N, x)),
         Distinct(us), Distinct(ds), Distinct(ss),
         Elements(us) = Parsing(1..N), Elements(ds) = Parsing(1..N),
         Elements(ss) = SymbolsIn(Parsing(1..N)),
         \A m, n \in DOMAIN us : m < n => ~PathBefore(us[n], us[m]),
         \A m, n \in DOMAIN ds : m < n => ~PathBefore(ds[n], ds[m]),
         \A m, n \in DOMAIN ss : m < n =>
           /\ ~PathBefore(ss[n][1], ss[m][1])
           /\ ~SymbolBefore(ss[n], ss[m]) \/ (entry = "lazy" /\ ss[m][2] < ss[n][2]),
         pa = Len(us), pa + fa = N
  PROVE  Holds(us, ds, ss, fs, pa, fa)
<1>1. Sorted(PathsOf(us)) /\ Sorted(PathsOf(ds))
  BY SortedPaths
<1>2. \A p \in Files :
       /\ Times(PathsOf(us), p) = IF fate[p] = "parsed" THEN Times(fs, p) ELSE 0
       /\ Times(PathsOf(ds), p) = IF fate[p] = "parsed" THEN Times(fs, p) ELSE 0
  <2> TAKE p \in Files
  <2>1. Times(PathsOf(us), p) = IF fate[p] = "parsed" THEN Times(fs, p) ELSE 0
    BY UnitsOf
  <2>2. Times(PathsOf(ds), p) = IF fate[p] = "parsed" THEN Times(fs, p) ELSE 0
    BY UnitsOf
  <2>. QED BY <2>1, <2>2
<1>3. ASSUME NEW n \in DOMAIN us, NEW k \in DOMAIN Position[list[us[n]]]
      PROVE  Times(ss, <<us[n], k>>) = 1
  <2>1. us[n] \in Entries /\ us[n] \in Parsing(1..N)
    BY DEF Elements
  <2>2. k \in Nat
    <3>1. Position[list[us[n]]] \in Seq(Nat)
      BY <2>1, EntryFacts, AnalysisConstantsOK
    <3>. QED BY <3>1
  <2>3. <<us[n], k>> \in SymbolsIn(Parsing(1..N))
    <3>1. <<us[n], k>> \in Entries \X Nat /\ <<us[n], k>>[1] = us[n] /\ <<us[n], k>>[2] = k
      BY <2>1, <2>2
    <3>. QED BY <2>1, <3>1 DEF SymbolsIn
  <2>4. PICK m \in DOMAIN ss : ss[m] = <<us[n], k>>
    BY <2>3 DEF Elements
  <2>5. Times(ss, ss[m]) = 1
    BY OnceIs DEF Distinct
  <2>. QED BY <2>4, <2>5
<1>4. ASSUME NEW m \in DOMAIN ss PROVE \E n \in DOMAIN us : ss[m][1] = us[n]
  <2>1. ss[m] \in SymbolsIn(Parsing(1..N))
    BY DEF Elements
  <2>2. ss[m][1] \in Elements(us)
    BY <2>1 DEF SymbolsIn
  <2>. QED BY <2>2 DEF Elements
<1>. QED BY <1>1, <1>2, <1>3, <1>4 DEF Holds

LEMMA ListedTimes ==
  ASSUME list \in Seq(Files), NEW fs \in Seq(Files), NEW N \in Nat, Len(fs) = N,
         \A n \in 1..N : fs[n] = list[n], NEW x
  PROVE  Times(fs, x) = Cardinality(OfPath(1..N, x))
<1>1. DOMAIN fs = 1..N
  OBVIOUS
<1>2. {n \in DOMAIN fs : fs[n] = x} = {i \in 1..N : list[i] = x}
  BY <1>1
<1>. QED BY <1>2 DEF Times, OfPath

LEMMA SettledFinite ==
  ASSUME list \in Seq(Files)
  PROVE  IsFiniteSet(Settled) /\ Cardinality(Settled) \in Nat
<1>1. IsFiniteSet(Entries)
  BY EntryFacts, FS_Interval
<1>2. Settled \subseteq Entries
  BY DEF Settled
<1>. QED BY <1>1, <1>2, FS_Subset, FS_CardinalityType

LEMMA BooksStay ==
  ASSUME Books, UNCHANGED <<given, wsVars>>, Settled' = Settled
  PROVE  Books'
<1>1. UNCHANGED <<list, fate, entry, units, deps, symbols, parsed, failed>> /\ Entries' = Entries
  BY DEF given, wsVars, Entries
<1>. QED BY <1>1 DEF Books, Elements, Distinct, Parsing, SymbolsIn, InOrder, Sorted

(* One more entry is settled. *)
LEMMA BooksFail ==
  ASSUME GivenOK, WorkspaceOK, Books, UNCHANGED given, NEW i \in Entries, i \notin Settled,
         Settled' = Settled \cup {i}, fate[list[i]] # "parsed", CountFailure
  PROVE  Books'
<1>1. UNCHANGED <<list, fate, entry, units, deps, symbols, parsed>> /\ Entries' = Entries /\ failed' = failed + 1
  BY DEF given, CountFailure, Entries
<1>2. IsFiniteSet(Settled) /\ Cardinality(Settled) \in Nat
  BY SettledFinite DEF GivenOK
<1>3. Cardinality(Settled') = Cardinality(Settled) + 1
  BY <1>2, FS_AddElement
<1>4. Parsing(Settled)' = Parsing(Settled)
  <2>1. Parsing(Settled)' = Parsing(Settled \cup {i})
    BY <1>1 DEF Parsing
  <2>2. Parsing(Settled \cup {i}) = Parsing(Settled)
    BY DEF Parsing
  <2>. QED BY <2>1, <2>2
<1>5. SymbolsIn(Parsing(Settled))' = SymbolsIn(Parsing(Settled))
  BY <1>1, <1>4 DEF SymbolsIn
<1>6. parsed' + failed' = Cardinality(Settled)'
  BY <1>1, <1>2, <1>3 DEF Books, WorkspaceOK
<1>7. Distinct(units)' /\ Distinct(symbols)'
  BY <1>1 DEF Books, Distinct
<1>9. Elements(units)' = Elements(units) /\ Elements(symbols)' = Elements(symbols)
  BY <1>1 DEF Elements
<1>8. (entry = "lazy" => InOrder(units, symbols)) => (entry = "lazy" => InOrder(units, symbols))'
  BY <1>1 DEF InOrder, Sorted
<1>. QED BY <1>1, <1>4, <1>5, <1>6, <1>7, <1>8, <1>9 DEF Books

LEMMA AppendedSymbols ==
  ASSUME GivenOK, WorkspaceOK, NEW i \in Entries, Merge(i)
  PROVE  /\ Len(symbols) \in Nat /\ DOMAIN symbols = 1..Len(symbols)
         /\ \A n \in DOMAIN symbols : n \in DOMAIN symbols' /\ symbols'[n] = symbols[n]
         /\ \A n \in DOMAIN symbols' :
              \/ n \in DOMAIN symbols
              \/ /\ n - Len(symbols) \in DOMAIN Position[list[i]] /\ n - Len(symbols) \in Nat
                 /\ n > Len(symbols) /\ symbols'[n] = <<i, n - Len(symbols)>>
         /\ \A k \in DOMAIN Position[list[i]] :
              k \in Nat /\ k + Len(symbols) \in DOMAIN symbols' /\ symbols'[k + Len(symbols)] = <<i, k>>
<1>1. SymbolsOf(i) \in Seq(Entries \X Nat) /\ symbols \in Seq(Entries \X Nat)
  BY SymbolsType DEF GivenOK, WorkspaceOK
<1>2. Position[list[i]] \in Seq(Nat)
  BY EntryFacts, AnalysisConstantsOK DEF GivenOK
<1> DEFINE N == Len(symbols)
           K == Len(Position[list[i]])
<1>3. DOMAIN symbols = 1..N /\ N \in Nat /\ DOMAIN Position[list[i]] = 1..K /\ K \in Nat
  BY <1>1, <1>2
<1>4. DOMAIN SymbolsOf(i) = 1..K /\ \A k \in 1..K : SymbolsOf(i)[k] = <<i, k>>
  BY <1>3 DEF SymbolsOf
<1>5. Len(SymbolsOf(i)) = K
  <2>1. DOMAIN SymbolsOf(i) = 1..Len(SymbolsOf(i)) /\ Len(SymbolsOf(i)) \in Nat
    BY <1>1
  <2>. QED BY <1>3, <1>4, <2>1
<1>6. symbols' = symbols \o SymbolsOf(i)
  BY DEF Merge
<1>7. /\ DOMAIN symbols' = 1..(N + K)
      /\ \A n \in 1..(N + K) : symbols'[n] = IF n <= N THEN symbols[n] ELSE SymbolsOf(i)[n - N]
  <2>1. /\ Len(symbols') = N + K /\ symbols' \in Seq(Entries \X Nat)
        /\ \A n \in 1..(N + K) : symbols'[n] = IF n <= N THEN symbols[n] ELSE SymbolsOf(i)[n - N]
    <3>1. /\ Len(symbols \o SymbolsOf(i)) = N + Len(SymbolsOf(i)) /\ symbols \o SymbolsOf(i) \in Seq(Entries \X Nat)
          /\ \A n \in 1..Len(symbols \o SymbolsOf(i)) :
               (symbols \o SymbolsOf(i))[n] = IF n <= N THEN symbols[n] ELSE SymbolsOf(i)[n - N]
      BY <1>1, ConcatProperties
    <3>. QED BY <1>5, <1>6, <3>1
  <2>. QED BY <2>1
<1> HIDE DEF N, K
<1>8. \A n \in 1..N : n \in 1..(N + K) /\ n <= N
  BY <1>3
<1>9. \A n \in 1..(N + K) : n \in 1..N \/ (n - N \in 1..K /\ n - N \in Nat /\ n > N /\ ~ (n <= N))
  BY <1>3
<1>10. \A k \in 1..K : k \in Nat /\ k + N \in 1..(N + K) /\ ~ (k + N <= N) /\ (k + N) - N = k
  BY <1>3
<1>11. \A n \in DOMAIN symbols : n \in DOMAIN symbols' /\ symbols'[n] = symbols[n]
  BY <1>3, <1>7, <1>8
<1>12. ASSUME NEW n \in DOMAIN symbols', n \notin DOMAIN symbols
       PROVE  /\ n - N \in DOMAIN Position[list[i]] /\ n - N \in Nat
              /\ n > N /\ symbols'[n] = <<i, n - N>>
  <2>1. n - N \in 1..K /\ n - N \in Nat /\ n > N /\ ~ (n <= N)
    BY <1>3, <1>7, <1>9, <1>12
  <2>2. symbols'[n] = SymbolsOf(i)[n - N]
    BY <1>7, <2>1
  <2>. QED BY <1>3, <1>4, <2>1, <2>2
<1>13. ASSUME NEW k \in DOMAIN Position[list[i]]
       PROVE  k \in Nat /\ k + N \in DOMAIN symbols' /\ symbols'[k + N] = <<i, k>>
  <2>1. k \in 1..K
    BY <1>3
  <2>2. k \in Nat /\ k + N \in 1..(N + K) /\ ~ (k + N <= N) /\ (k + N) - N = k
    BY <1>10, <2>1
  <2>3. symbols'[k + N] = SymbolsOf(i)[k]
    BY <1>7, <2>2
  <2>. QED BY <1>4, <1>7, <2>1, <2>2, <2>3
<1>. QED BY <1>3, <1>11, <1>12, <1>13 DEF N

LEMMA BooksMerge ==
  ASSUME GivenOK, WorkspaceOK, Books, UNCHANGED given, NEW i \in Entries, i \notin Settled,
         Settled' = Settled \cup {i}, fate[list[i]] = "parsed", Merge(i),
         entry = "lazy" => \A n \in DOMAIN units : units[n] < i
  PROVE  Books'
<1>1. UNCHANGED <<list, fate, entry, failed>> /\ Entries' = Entries /\ parsed' = parsed + 1
      /\ deps' = Append(deps, i) /\ units' = Append(units, i)
  BY DEF given, Merge, Entries
<1>2. IsFiniteSet(Settled) /\ Cardinality(Settled) \in Nat
  BY SettledFinite DEF GivenOK
<1>3. Cardinality(Settled') = Cardinality(Settled) + 1
  BY <1>2, FS_AddElement
<1>4. Parsing(Settled)' = Parsing(Settled) \cup {i}
  <2>1. Parsing(Settled)' = Parsing(Settled \cup {i})
    BY <1>1 DEF Parsing
  <2>2. Parsing(Settled \cup {i}) = Parsing(Settled) \cup {i}
    BY DEF Parsing
  <2>. QED BY <2>1, <2>2
<1>5. i \notin Parsing(Settled)
  BY DEF Parsing
<1>6. /\ Len(units) \in Nat /\ DOMAIN units = 1..Len(units)
      /\ DOMAIN units' = 1..(Len(units) + 1)
      /\ \A n \in DOMAIN units : units'[n] = units[n]
      /\ units'[Len(units) + 1] = i
  BY AppendedUnits
<1>7. /\ Len(units) + 1 \in DOMAIN units'
      /\ \A n \in DOMAIN units' : n = Len(units) + 1 \/ n \in DOMAIN units
      /\ \A n \in DOMAIN units : n \in DOMAIN units' /\ n # Len(units) + 1 /\ ~ (Len(units) + 1 < n)
      /\ ~ (Len(units) + 1 < Len(units) + 1)
  BY <1>6
<1>8. \A n \in DOMAIN units : units[n] # i
  BY <1>5 DEF Books, Elements
<1>9. Distinct(units)'
  <2>1. \A m, n \in DOMAIN units : units[m] = units[n] => m = n
    BY DEF Books, Distinct
  <2>2. \A m, n \in DOMAIN units' : units'[m] = units'[n] => m = n
    BY <1>6, <1>7, <1>8, <2>1
  <2>. QED BY <2>2 DEF Distinct
<1>10. Elements(units)' = Parsing(Settled)'
  <2>1. \A x : x \in Elements(units)' <=> x \in Elements(units) \cup {i}
    BY <1>6, <1>7 DEF Elements
  <2>2. Elements(units) = Parsing(Settled)
    BY DEF Books
  <2>. QED BY <1>4, <2>1, <2>2
<1>11. /\ Len(symbols) \in Nat /\ DOMAIN symbols = 1..Len(symbols)
       /\ \A n \in DOMAIN symbols : n \in DOMAIN symbols' /\ symbols'[n] = symbols[n]
       /\ \A n \in DOMAIN symbols' :
            \/ n \in DOMAIN symbols
            \/ /\ n - Len(symbols) \in DOMAIN Position[list[i]] /\ n - Len(symbols) \in Nat
               /\ n > Len(symbols) /\ symbols'[n] = <<i, n - Len(symbols)>>
       /\ \A k \in DOMAIN Position[list[i]] :
            k \in Nat /\ k + Len(symbols) \in DOMAIN symbols' /\ symbols'[k + Len(symbols)] = <<i, k>>
  BY AppendedSymbols
<1>12. \A n \in DOMAIN symbols : symbols[n] \in SymbolsIn(Parsing(Settled))
  BY DEF Books, Elements
<1>13. \A n \in DOMAIN symbols : symbols[n][1] \in Parsing(Settled) /\ symbols[n][1] # i
  BY <1>5, <1>12 DEF SymbolsIn
<1>14. Distinct(symbols)'
  <2> SUFFICES ASSUME NEW m \in DOMAIN symbols', NEW n \in DOMAIN symbols', symbols'[m] = symbols'[n]
               PROVE  m = n
    BY DEF Distinct
  <2>0. symbols'[m] = symbols'[n]
    OBVIOUS
  <2>1. \A a, b \in DOMAIN symbols : symbols[a] = symbols[b] => a = b
    BY DEF Books, Distinct
  <2>2. CASE m \in DOMAIN symbols /\ n \in DOMAIN symbols
    BY <1>11, <2>1, <2>2
  <2>3. CASE m \notin DOMAIN symbols /\ n \notin DOMAIN symbols
    <3>1. /\ symbols'[m] = <<i, m - Len(symbols)>> /\ symbols'[n] = <<i, n - Len(symbols)>>
          /\ m - Len(symbols) \in Nat /\ n - Len(symbols) \in Nat /\ m > Len(symbols) /\ n > Len(symbols)
      BY <1>11, <2>3
    <3>2. m - Len(symbols) = n - Len(symbols)
      <4>1. <<i, m - Len(symbols)>> = <<i, n - Len(symbols)>>
        BY <2>0, <3>1
      <4>2. <<i, m - Len(symbols)>>[2] = <<i, n - Len(symbols)>>[2]
        BY <4>1
      <4>. QED BY <4>2
    <3>3. m \in Nat /\ n \in Nat
      <4>1. WorkspaceOK'
        BY MergeType
      <4>2. symbols' \in Seq(Entries \X Nat)'
        BY <4>1 DEF WorkspaceOK
      <4>. QED BY <4>2
    <3>. QED BY <1>11, <3>2, <3>3
  <2>4. CASE m \in DOMAIN symbols /\ n \notin DOMAIN symbols
    <3>1. symbols'[m][1] # i /\ symbols'[n][1] = i
      BY <1>11, <1>13, <2>4
    <3>. QED BY <3>1
  <2>5. CASE m \notin DOMAIN symbols /\ n \in DOMAIN symbols
    <3>1. symbols'[n][1] # i /\ symbols'[m][1] = i
      BY <1>11, <1>13, <2>5
    <3>. QED BY <3>1
  <2>. QED BY <2>2, <2>3, <2>4, <2>5
<1>15. Elements(symbols)' = SymbolsIn(Parsing(Settled))'
  <2> DEFINE P == Parsing(Settled)
  <2>0. /\ SymbolsIn(Parsing(Settled))' = SymbolsIn(P \cup {i})
        /\ \A s : s \in Elements(symbols)' <=> \E n \in DOMAIN symbols' : symbols'[n] = s
        /\ \A s : s \in SymbolsIn(P) <=> \E n \in DOMAIN symbols : symbols[n] = s
    BY <1>1, <1>4 DEF SymbolsIn, Elements, Books
  <2> HIDE DEF P
  <2>1. ASSUME NEW s \in SymbolsIn(P \cup {i}) PROVE \E n \in DOMAIN symbols' : symbols'[n] = s
    <3>1. CASE s[1] = i
      <4>1. s[2] \in DOMAIN Position[list[i]] /\ s = <<i, s[2]>>
        BY <3>1 DEF SymbolsIn
      <4>. QED BY <1>11, <4>1
    <3>2. CASE s[1] # i
      <4>1. s \in SymbolsIn(P)
        BY <3>2 DEF SymbolsIn
      <4>. QED BY <1>11, <2>0, <4>1
    <3>. QED BY <3>1, <3>2
  <2>2. ASSUME NEW n \in DOMAIN symbols' PROVE symbols'[n] \in SymbolsIn(P \cup {i})
    <3>1. CASE n \in DOMAIN symbols
      <4>1. symbols[n] \in SymbolsIn(P)
        BY <1>12, <3>1 DEF P
      <4>. QED BY <1>11, <3>1, <4>1 DEF SymbolsIn
    <3>2. CASE n \notin DOMAIN symbols
      <4> DEFINE k == n - Len(symbols)
      <4>1. k \in DOMAIN Position[list[i]] /\ k \in Nat /\ symbols'[n] = <<i, k>>
        BY <1>11, <3>2
      <4> HIDE DEF k
      <4>2. <<i, k>> \in Entries \X Nat /\ <<i, k>>[1] = i /\ <<i, k>>[2] = k
        BY <4>1
      <4>. QED BY <4>1, <4>2 DEF SymbolsIn
    <3>. QED BY <3>1, <3>2
  <2>3. \A s : s \in Elements(symbols)' <=> s \in SymbolsIn(P \cup {i})
    BY <2>0, <2>1, <2>2
  <2>. QED BY <2>0, <2>3
<1>16. (entry = "lazy" => InOrder(units, symbols))'
  <2> SUFFICES ASSUME entry = "lazy" PROVE InOrder(units, symbols)'
    BY <1>1
  <2>0. InOrder(units, symbols) /\ \A n \in DOMAIN units : units[n] < i
    BY DEF Books
  <2>1. \A m, n \in DOMAIN units' : m < n => units'[m] < units'[n]
    BY <1>6, <1>7, <2>0 DEF InOrder
  <2>2. \A n \in DOMAIN symbols : symbols[n][1] < i
    <3>1. \A n \in DOMAIN symbols : symbols[n][1] \in Elements(units)
      BY <1>13 DEF Books
    <3>. QED BY <2>0, <3>1 DEF Elements
  <2>3. ASSUME NEW m \in DOMAIN symbols', NEW n \in DOMAIN symbols', m < n
        PROVE  \/ symbols'[m][1] < symbols'[n][1]
               \/ symbols'[m][1] = symbols'[n][1] /\ symbols'[m][2] < symbols'[n][2]
    <3>1. CASE m \in DOMAIN symbols /\ n \in DOMAIN symbols
      BY <1>11, <2>0, <2>3, <3>1 DEF InOrder
    <3>2. CASE m \in DOMAIN symbols /\ n \notin DOMAIN symbols
      BY <1>11, <2>2, <3>2
    <3>3. CASE m \notin DOMAIN symbols
      <4>0. m \in Nat /\ n \in Nat
        <5>1. WorkspaceOK'
          BY MergeType
        <5>2. symbols' \in Seq(Entries \X Nat)'
          BY <5>1 DEF WorkspaceOK
        <5>. QED BY <5>2
      <4>1. /\ m - Len(symbols) \in Nat /\ m > Len(symbols) /\ symbols'[m] = <<i, m - Len(symbols)>>
        BY <1>11, <3>3
      <4>2. n \notin DOMAIN symbols
        BY <1>11, <2>3, <4>0, <4>1
      <4>3. /\ n - Len(symbols) \in Nat /\ symbols'[n] = <<i, n - Len(symbols)>>
        BY <1>11, <4>2
      <4>4. m - Len(symbols) < n - Len(symbols)
        BY <1>11, <2>3, <4>0
      <4>. QED BY <4>1, <4>3, <4>4
    <3>. QED BY <3>1, <3>2, <3>3
  <2>4. Sorted(list)'
    BY <1>1, <2>0 DEF InOrder, Sorted
  <2>. QED BY <2>1, <2>3, <2>4 DEF InOrder
<1>17. parsed' = Len(units)' /\ parsed' + failed' = Cardinality(Settled)'
  <2>1. Len(units') = Len(units) + 1
    BY <1>1, AppendProperties DEF WorkspaceOK
  <2>. QED BY <1>1, <1>2, <1>3, <2>1 DEF Books, WorkspaceOK
<1>18. deps' = units'
  BY <1>1 DEF Books
<1>. QED BY <1>9, <1>10, <1>14, <1>15, <1>16, <1>17, <1>18 DEF Books

(* The books are kept until the return, and then the result is right.      *)
RefInv ==
  /\ OnceInv
  /\ main \in {"join", "load"} => Books /\ Listed
  /\ ResultIsReference

LEMMA HoldsNext ==
  ASSUME UNCHANGED given, Holds(units', deps', symbols', files', parsed', failed')
  PROVE  IsWorkspaceOf(files)'
<1>1. list' = list /\ fate' = fate /\ entry' = entry
  BY DEF given
<1>2. PathsOf(units)' = PathsOf(units') /\ PathsOf(deps)' = PathsOf(deps')
  BY <1>1 DEF PathsOf
<1>3. Sorted(PathsOf(units))' /\ Sorted(PathsOf(deps))'
  BY <1>2 DEF Holds, Sorted
<1>4. \A p \in Files :
       /\ Times(PathsOf(units), p)' = IF fate'[p] = "parsed" THEN Times(files, p)' ELSE 0
       /\ Times(PathsOf(deps), p)' = IF fate'[p] = "parsed" THEN Times(files, p)' ELSE 0
  <2> TAKE p \in Files
  <2>1. /\ Times(PathsOf(units), p)' = Times(PathsOf(units'), p)
        /\ Times(PathsOf(deps), p)' = Times(PathsOf(deps'), p)
        /\ Times(files, p)' = Times(files', p)
    BY <1>2 DEF Times
  <2>. QED BY <1>1, <2>1 DEF Holds
<1>5. \A n \in DOMAIN units' : \A k \in DOMAIN Position[list'[units'[n]]] :
        Cardinality({m \in DOMAIN symbols' : symbols'[m] = <<units'[n], k>>}) = 1
  BY <1>1 DEF Holds, Times
<1>6. \A m, n \in DOMAIN symbols' : m < n =>
       /\ ~PathBefore(symbols[n][1], symbols[m][1])'
       /\ ~SymbolBefore(symbols[n], symbols[m])' \/ (entry' = "lazy" /\ symbols'[m][2] < symbols'[n][2])
  BY <1>1 DEF Holds, PathBefore, SymbolBefore, At
<1>7. \A m \in DOMAIN symbols' : \E n \in DOMAIN units' : symbols'[m][1] = units'[n]
  BY DEF Holds
<1>8. parsed' = Len(units') /\ parsed' + failed' = Len(files')
  BY DEF Holds
<1>. QED BY <1>3, <1>4, <1>5, <1>6, <1>7, <1>8 DEF IsWorkspaceOf, Times

(* The step that returns the workspace of the threads. *)
LEMMA JoinReference ==
  ASSUME RefInv, JoinAndSort
  PROVE  ResultIsReference'
<1>0. GivenOK /\ ThreadsOK /\ WorkspaceOK /\ FilesOK /\ Shape /\ Once
  BY TypeParts DEF RefInv, OnceInv
<1>1. /\ UNCHANGED given /\ main = "join" /\ feeder = "end" /\ SortWorkspace
      /\ \A w \in Workers : hand[w] = Ended
      /\ files' \in (IF entry = "workspace" THEN Arrangements(files, <) ELSE {files})
  BY DEF JoinAndSort
<1>2. Books /\ Listed
  BY <1>1 DEF RefInv
<1>3. /\ Len(list) \in Nat /\ Entries = 1..Len(list) /\ Ended \notin Entries
      /\ next \in 1..(Len(list) + 1) /\ list \in Seq(Files)
  BY <1>0, EntryFacts DEF GivenOK, ThreadsOK
<1>4. queue = <<>>
  <2>1. Started \in 1..Cores
    BY <1>0, <1>1 DEF Shape
  <2>2. 1 \in 1..Started /\ 1 \in Workers
    BY <2>1, AnalysisConstantsOK DEF Workers
  <2>. QED BY <1>0, <1>1, <2>2 DEF Shape
<1> DEFINE N == next - 1
<1>5. N \in Nat /\ \A i : i \in 1..N <=> i \in Entries /\ i < next
  BY <1>3
<1>6. Settled = 1..N
  <2>1. ASSUME NEW i \in Entries PROVE ~Queued(i) /\ ~Held(i)
    <3>1. ~Held(i)
      BY <1>1, <1>3 DEF Held
    <3>2. ~Queued(i)
      BY <1>4 DEF Queued
    <3>. QED BY <3>1, <3>2
  <2>2. \A i : i \in Settled <=> i \in 1..N
    BY <1>5, <2>1 DEF Settled
  <2>. QED BY <2>2
<1> HIDE DEF N
<1>7. /\ units \in Seq(Entries) /\ deps \in Seq(Entries) /\ symbols \in Seq(Entries \X Nat)
      /\ units' \in Arrangements(units, PathBefore)
      /\ deps' \in Arrangements(deps, PathBefore)
      /\ symbols' \in Arrangements(symbols, SymbolBefore)
  BY <1>0, <1>1 DEF WorkspaceOK, SortWorkspace
<1>8. /\ deps = units /\ Distinct(units) /\ Distinct(symbols)
      /\ Elements(units) = Parsing(1..N) /\ Elements(symbols) = SymbolsIn(Parsing(1..N))
      /\ parsed = Len(units) /\ parsed + failed = Cardinality(1..N)
  BY <1>2, <1>6 DEF Books
<1>9. /\ units' \in Seq(Entries) /\ Len(units') = Len(units)
      /\ Elements(units') = Parsing(1..N) /\ Distinct(units')
      /\ \A m, n \in DOMAIN units' : m < n => ~PathBefore(units'[n], units'[m])
  BY <1>7, <1>8, ArrangedIs, PathArranged
<1>10. /\ deps' \in Seq(Entries)
       /\ Elements(deps') = Parsing(1..N) /\ Distinct(deps')
       /\ \A m, n \in DOMAIN deps' : m < n => ~PathBefore(deps'[n], deps'[m])
  BY <1>7, <1>8, ArrangedIs, PathArranged
<1>11. /\ symbols' \in Seq(Entries \X Nat)
       /\ Elements(symbols') = SymbolsIn(Parsing(1..N)) /\ Distinct(symbols')
       /\ \A m, n \in DOMAIN symbols' : m < n => ~SymbolBefore(symbols'[n], symbols'[m])
  BY <1>7, <1>8, ArrangedIs, SymbolArranged
<1>12. files \in Seq(Files) /\ Len(files) = N /\ \A n \in 1..N : files[n] = list[n]
  <2>1. CASE entry = "workspace"
    BY <1>0, <1>2, <2>1 DEF Listed, FilesOK, N
  <2>2. CASE entry # "workspace"
    <3>1. files = list /\ next = Len(list) + 1
      BY <1>1, <1>2, <2>2 DEF Listed
    <3>2. N = Len(list)
      BY <1>3, <3>1 DEF N
    <3>. QED BY <1>0, <3>1, <3>2 DEF FilesOK
  <2>. QED BY <2>1, <2>2
<1>13. \A x : Times(files, x) = Cardinality(OfPath(1..N, x))
  BY <1>3, <1>5, <1>12, ListedTimes
<1>14. /\ files' \in Seq(Files) /\ Len(files') = N
       /\ \A x : Times(files', x) = Cardinality(OfPath(1..N, x))
       /\ entry = "workspace" => Sorted(files')
  <2>1. CASE entry = "workspace"
    <3>1. files' \in Arrangements(files, <)
      BY <1>1, <2>1
    <3>2. /\ files' \in Seq(Files) /\ Len(files') = Len(files)
          /\ \A x : Times(files', x) = Times(files, x)
          /\ \A m, n \in DOMAIN files' : m < n => ~ (files'[n] < files'[m])
      BY <1>12, <3>1, ArrangedIs, NumberArranged
    <3>3. \A n \in DOMAIN files' : files'[n] \in Nat
      BY <3>2, AnalysisConstantsOK
    <3>4. Sorted(files')
      BY <3>2, <3>3 DEF Sorted
    <3>. QED BY <1>12, <1>13, <3>2, <3>4
  <2>2. CASE entry # "workspace"
    BY <1>1, <1>12, <1>13, <2>2
  <2>. QED BY <2>1, <2>2
<1>15. N \in 0..Len(list)
  BY <1>3 DEF N
<1>16. \A m, n \in DOMAIN symbols' : m < n =>
         /\ ~PathBefore(symbols'[n][1], symbols'[m][1])
         /\ ~SymbolBefore(symbols'[n], symbols'[m]) \/ (entry = "lazy" /\ symbols'[m][2] < symbols'[n][2])
  BY <1>11 DEF SymbolBefore
<1>17. parsed' = Len(units') /\ parsed' + failed' = N
  <2>1. Cardinality(1..N) = N
    BY <1>5, FS_Interval
  <2>. QED BY <1>1, <1>8, <1>9, <2>1 DEF SortWorkspace
<1>18. Holds(units', deps', symbols', files', parsed', failed')
  BY <1>3, <1>9, <1>10, <1>11, <1>14, <1>15, <1>16, <1>17, Delivered
<1>19. IsWorkspaceOf(files)'
  BY <1>1, <1>18, HoldsNext
<1>20. (entry = "workspace" => Sorted(files))'
  BY <1>1, <1>14 DEF given, Sorted
<1>. QED BY <1>19, <1>20 DEF ResultIsReference

(* The step that ends the loading one by one. *)
LEMMA LoadEndReference ==
  ASSUME RefInv, LoadEnd
  PROVE  ResultIsReference'
<1>0. GivenOK /\ ThreadsOK /\ WorkspaceOK /\ FilesOK /\ Shape /\ Once /\ Fresh
  BY TypeParts DEF RefInv, OnceInv
<1>1. /\ UNCHANGED given /\ UNCHANGED <<units, deps, symbols, files, parsed, failed>>
      /\ main = "load" /\ next \notin Entries
  BY DEF LoadEnd, wsVars
<1>2. Books /\ Listed
  BY <1>1 DEF RefInv
<1>3. /\ entry = "lazy" /\ queue = <<>> /\ \A w \in Workers : hand[w] = Ended
  BY <1>0, <1>1 DEF Shape
<1> DEFINE N == Len(list)
<1>4. /\ N \in Nat /\ Entries = 1..N /\ Ended \notin Entries /\ next \in 1..(N + 1)
      /\ list \in Seq(Files)
  BY <1>0, EntryFacts DEF GivenOK, ThreadsOK
<1>5. \A i \in 1..N : i < next
  BY <1>1, <1>4
<1>6. Settled = 1..N
  <2>1. \A i \in Entries : ~Queued(i) /\ ~Held(i)
    BY <1>3, <1>4 DEF Queued, Held
  <2>2. \A i : i \in Settled <=> i \in 1..N
    BY <1>4, <1>5, <2>1 DEF Settled
  <2>. QED BY <2>2
<1>7. files = list /\ files \in Seq(Files) /\ Len(files) = N /\ \A n \in 1..N : files[n] = list[n]
  BY <1>2, <1>3, <1>4 DEF Listed
<1> HIDE DEF N
<1>8. /\ deps = units /\ Distinct(units) /\ Distinct(symbols)
      /\ Elements(units) = Parsing(1..N) /\ Elements(symbols) = SymbolsIn(Parsing(1..N))
      /\ parsed = Len(units) /\ parsed + failed = Cardinality(1..N)
      /\ InOrder(units, symbols)
  BY <1>2, <1>3, <1>6 DEF Books
<1>9. /\ units \in Seq(Entries) /\ symbols \in Seq(Entries \X Nat)
  BY <1>0 DEF WorkspaceOK
<1>10. \A x : Times(files, x) = Cardinality(OfPath(1..N, x))
  BY <1>4, <1>7, ListedTimes
<1>11. ASSUME NEW i \in Entries, NEW j \in Entries, i < j
       PROVE  ~PathBefore(j, i) /\ list[i] # list[j]
  <2>1. list[i] \in Nat /\ list[j] \in Nat
    BY <1>4, EntryFacts, AnalysisConstantsOK
  <2>2. list[i] <= list[j]
    BY <1>8, <1>11 DEF InOrder, Sorted, Entries
  <2>3. i # j
    BY <1>4, <1>11
  <2>4. list[i] # list[j]
    BY <1>0, <1>3, <2>3 DEF Fresh, IsInjective, Entries
  <2>. QED BY <2>1, <2>2, <2>4 DEF PathBefore
<1>12. \A m, n \in DOMAIN units : m < n => ~PathBefore(units[n], units[m])
  BY <1>8, <1>9, <1>11 DEF InOrder
<1>13. ASSUME NEW m \in DOMAIN symbols, NEW n \in DOMAIN symbols, m < n
       PROVE  /\ ~PathBefore(symbols[n][1], symbols[m][1])
              /\ ~SymbolBefore(symbols[n], symbols[m]) \/ (entry = "lazy" /\ symbols[m][2] < symbols[n][2])
  <2>1. symbols[m][1] \in Entries /\ symbols[n][1] \in Entries
    BY <1>9
  <2>2. CASE symbols[m][1] < symbols[n][1]
    BY <1>11, <2>1, <2>2 DEF SymbolBefore
  <2>3. CASE symbols[m][1] = symbols[n][1] /\ symbols[m][2] < symbols[n][2]
    <3>1. list[symbols[m][1]] \in Nat
      BY <1>4, <2>1, EntryFacts, AnalysisConstantsOK
    <3>2. ~ (list[symbols[n][1]] < list[symbols[m][1]])
      BY <2>3, <3>1
    <3>. QED BY <1>3, <2>3, <3>2 DEF PathBefore
  <2>. QED BY <1>8, <1>13, <2>2, <2>3 DEF InOrder
<1>14. parsed + failed = N
  <2>1. Cardinality(1..N) = N
    BY <1>4, FS_Interval
  <2>. QED BY <1>8, <2>1
<1>15. N \in 0..Len(list)
  BY <1>4 DEF N
<1>16. Holds(units, units, symbols, files, parsed, failed)
  BY <1>4, <1>7, <1>8, <1>9, <1>10, <1>12, <1>13, <1>14, <1>15, Delivered
<1>17. Holds(units', deps', symbols', files', parsed', failed')
  BY <1>1, <1>8, <1>16
<1>18. IsWorkspaceOf(files)'
  BY <1>1, <1>17, HoldsNext
<1>19. entry' = "lazy"
  BY <1>1, <1>3 DEF given
<1>. QED BY <1>18, <1>19 DEF ResultIsReference

(* What each step does to the entries that are settled, while the workspace *)
(* is being filled.                                                         *)
LEMMA FeedBooks ==
  ASSUME RefInv, Feed
  PROVE  Books' /\ Listed'
<1>0. GivenOK /\ ThreadsOK /\ FilesOK /\ Shape /\ Once
  BY TypeParts DEF RefInv, OnceInv
<1>1. /\ UNCHANGED given /\ UNCHANGED wsVars /\ UNCHANGED <<feeder, hand, main>>
      /\ feeder = "run" /\ next \in Entries /\ next' = next + 1
      /\ files' = IF entry = "workspace" THEN Append(files, list[next]) ELSE files
  BY DEF Feed
<1>2. main = "join" /\ Books /\ Listed
  BY <1>0, <1>1 DEF Shape, RefInv
<1>3. Q!Accept(next)
  <2>1. ~closed
    BY <1>0, <1>1 DEF Shape
  <2>. QED BY <2>1 DEF Feed, Q!Refuse
<1>4. /\ DOMAIN queue' = 1..(Len(queue) + 1)
      /\ \A n \in DOMAIN queue : queue'[n] = queue[n]
      /\ queue'[Len(queue) + 1] = next
  BY <1>0, <1>1, <1>3, Pushed
<1>5. /\ Len(queue) + 1 \in DOMAIN queue'
      /\ \A n \in DOMAIN queue' : n = Len(queue) + 1 \/ n \in DOMAIN queue
      /\ \A n \in DOMAIN queue : n \in DOMAIN queue'
  BY <1>0, <1>4, QueueFacts
<1>6. next \in Nat /\ Entries' = Entries /\ \A i \in Entries : i \in Nat
  BY <1>0, <1>1, EntryFacts, GivenStays DEF GivenOK
<1>7. Settled' = Settled
  <2>1. ASSUME NEW i \in Entries
        PROVE  (i < next' /\ ~Queued(i)' /\ ~Held(i)') <=> (i < next /\ ~Queued(i) /\ ~Held(i))
    <3>1. Queued(i)' <=> (Queued(i) \/ i = next)
      BY <1>4, <1>5 DEF Queued
    <3>2. Held(i)' <=> Held(i)
      BY <1>1 DEF Held
    <3>3. i < next' <=> i < next \/ i = next
      BY <1>1, <1>6
    <3>4. i < next => i # next
      BY <1>6
    <3>. QED BY <3>1, <3>2, <3>3, <3>4
  <2>. QED BY <1>6, <2>1 DEF Settled
<1>8. Books'
  BY <1>1, <1>2, <1>7, BooksStay
<1>9. Listed'
  <2>1. entry' = entry /\ list' = list
    BY <1>1 DEF given
  <2>2. CASE entry = "workspace"
    <3>1. Len(files) = next - 1 /\ \A n \in 1..(next - 1) : files[n] = list[n]
      BY <1>2, <2>2 DEF Listed
    <3>2. files \in Seq(Files) /\ list[next] \in Files /\ files' = Append(files, list[next])
      BY <1>0, <1>1, <2>2, EntryFacts DEF FilesOK, GivenOK
    <3>3. /\ Len(files') = Len(files) + 1 /\ files'[Len(files) + 1] = list[next]
          /\ \A n \in 1..Len(files) : files'[n] = files[n]
      BY <3>2, AppendProperties
    <3>4. Len(files') = next' - 1 /\ \A n \in 1..(next' - 1) : n = next \/ n \in 1..(next - 1)
      BY <1>1, <1>6, <3>1, <3>3
    <3>5. files'[next] = list[next] /\ \A n \in 1..(next - 1) : files'[n] = list[n]
      BY <1>6, <3>1, <3>3
    <3>6. \A n \in 1..(next' - 1) : files'[n] = list[n]
      BY <3>4, <3>5
    <3>. QED BY <2>1, <2>2, <3>4, <3>6 DEF Listed
  <2>3. CASE entry # "workspace"
    BY <1>1, <1>2, <2>1, <2>3 DEF Listed
  <2>. QED BY <2>2, <2>3
<1>. QED BY <1>8, <1>9

LEMMA FeedEndBooks ==
  ASSUME RefInv, FeedEnd \/ ScanThrow
  PROVE  Books' /\ Listed'
<1>0. GivenOK /\ ThreadsOK /\ Shape
  BY TypeParts DEF RefInv, OnceInv
<1>1. /\ UNCHANGED given /\ UNCHANGED wsVars /\ UNCHANGED <<next, hand, files, main, queue>>
      /\ feeder = "run" /\ (next \notin Entries \/ entry = "workspace")
  BY DEF FeedEnd, ScanThrow, Q!MarkDone
<1>2. main = "join" /\ Books /\ Listed
  <2>1. feeder = "run"
    BY DEF FeedEnd, ScanThrow
  <2>. QED BY <1>0, <2>1 DEF Shape, RefInv
<1>3. entry' = entry /\ list' = list /\ Entries' = Entries
  BY <1>1 DEF given, Entries
<1>4. Settled' = Settled
  BY <1>1, <1>3 DEF Settled, Queued, Held
<1>5. Books'
  BY <1>1, <1>2, <1>4, BooksStay
<1>6. next \notin Entries => next = Len(list) + 1
  BY <1>0, EntryFacts DEF GivenOK, ThreadsOK
<1>7. Listed'
  BY <1>1, <1>2, <1>3, <1>6 DEF Listed
<1>. QED BY <1>5, <1>7

LEMMA PopBooks ==
  ASSUME RefInv, NEW w \in Workers, Pop(w)
  PROVE  Books' /\ Listed'
<1>0. GivenOK /\ ThreadsOK /\ Shape
  BY TypeParts DEF RefInv, OnceInv
<1>1. /\ UNCHANGED given /\ UNCHANGED wsVars /\ UNCHANGED <<next, feeder, files, main>>
      /\ hand[w] = Idle /\ hand \in [Workers -> Entries \cup {Idle, Ended}]
  BY <1>0 DEF Pop, ThreadsOK
<1>2. entry' = entry /\ list' = list /\ Entries' = Entries
  BY <1>1 DEF given, Entries
<1>3. Idle \notin Entries /\ Ended \notin Entries /\ Idle # Ended
  BY <1>0, EntryFacts DEF GivenOK
<1>4. main = "join" /\ Books /\ Listed
  BY <1>0, <1>1, <1>3 DEF Shape, RefInv
<1>5. \A i \in Entries : Queued(i)' \/ Held(i)' <=> Queued(i) \/ Held(i)
  <2>1. CASE \E i \in Entries : Q!Take(i) /\ hand' = [hand EXCEPT ![w] = i]
    <3>1. PICK i \in Entries : Q!Take(i) /\ hand' = [hand EXCEPT ![w] = i]
      BY <2>1
    <3>2. /\ 1 \in DOMAIN queue /\ queue[1] = i
          /\ DOMAIN queue' = 1..(Len(queue) - 1)
          /\ \A n \in DOMAIN queue' : n + 1 \in DOMAIN queue /\ queue'[n] = queue[n + 1]
      BY <1>0, <3>1, TakenUnits
    <3>3. \A n \in DOMAIN queue : n = 1 \/ (n - 1 \in DOMAIN queue' /\ (n - 1) + 1 = n)
      BY <1>0, <3>2, QueueFacts
    <3>4. hand'[w] = i /\ \A v \in Workers : v # w => hand'[v] = hand[v]
      BY <1>1, <3>1
    <3> TAKE x \in Entries
    <3>5. Queued(x) <=> (Queued(x)' \/ x = i)
      BY <3>2, <3>3 DEF Queued
    <3>6. Held(x)' <=> (Held(x) \/ x = i)
      BY <1>1, <1>3, <3>4 DEF Held
    <3>. QED BY <3>5, <3>6
  <2>2. CASE Q!Drained /\ hand' = [hand EXCEPT ![w] = Ended]
    <3>1. queue' = queue
      BY <2>2 DEF Q!Drained, Q!queueVars
    <3>2. hand'[w] = Ended /\ \A v \in Workers : v # w => hand'[v] = hand[v]
      BY <1>1, <2>2
    <3> TAKE x \in Entries
    <3>3. Queued(x)' <=> Queued(x)
      BY <3>1 DEF Queued
    <3>4. Held(x)' <=> Held(x)
      BY <1>1, <1>3, <3>2 DEF Held
    <3>. QED BY <3>3, <3>4
  <2>. QED BY <2>1, <2>2 DEF Pop
<1>6. Settled' = Settled
  BY <1>1, <1>2, <1>5 DEF Settled
<1>7. Books'
  BY <1>1, <1>4, <1>6, BooksStay
<1>8. Listed'
  BY <1>1, <1>2, <1>4 DEF Listed
<1>. QED BY <1>7, <1>8

LEMMA SettleBooks ==
  ASSUME RefInv, NEW w \in Workers, Settle(w)
  PROVE  Books' /\ Listed'
<1>0. GivenOK /\ ThreadsOK /\ WorkspaceOK /\ Shape /\ Once
  BY TypeParts DEF RefInv, OnceInv
<1> DEFINE i == hand[w]
<1>1. /\ UNCHANGED given /\ UNCHANGED <<next, feeder, queue, files, main>>
      /\ i \in Entries /\ hand' = [hand EXCEPT ![w] = Idle]
      /\ \/ fate[list[i]] = "parsed" /\ Merge(i)
         \/ fate[list[i]] # "parsed" /\ CountFailure
  BY DEF Settle, queueVars
<1>2. entry' = entry /\ list' = list /\ Entries' = Entries
  BY <1>1 DEF given, Entries
<1>3. Idle \notin Entries /\ Ended \notin Entries /\ Idle # Ended
  BY <1>0, EntryFacts DEF GivenOK
<1>4. main = "join" /\ Books /\ Listed
  BY <1>0, <1>1, <1>3 DEF Shape, RefInv
<1>5. hand'[w] = Idle /\ \A v \in Workers : v # w => hand'[v] = hand[v]
  BY <1>0, <1>1 DEF ThreadsOK
<1>6. i < next /\ ~Queued(i) /\ Held(i)
  BY <1>0, <1>1 DEF Once, Queued, Held
<1>7. ASSUME NEW x \in Entries PROVE (Queued(x)' <=> Queued(x)) /\ (Held(x)' <=> (Held(x) /\ x # i))
  <2>1. ASSUME NEW v \in Workers, hand[v] = i PROVE v = w
    BY <1>0, <1>1, <2>1 DEF Once
  <2>2. Held(x)' <=> (Held(x) /\ x # i)
    BY <1>3, <1>5, <2>1 DEF Held
  <2>. QED BY <1>1, <2>2 DEF Queued
<1> HIDE DEF i
<1>8. i \notin Settled /\ Settled' = Settled \cup {i}
  <2>1. \A x : x \in Settled' <=> x \in Settled \cup {i}
    BY <1>1, <1>2, <1>6, <1>7 DEF Settled
  <2>. QED BY <1>6, <2>1 DEF Settled
<1>9. entry # "lazy"
  BY <1>0, <1>4 DEF Shape
<1>10. Books'
  <2>1. CASE fate[list[i]] = "parsed" /\ Merge(i)
    BY <1>0, <1>1, <1>4, <1>8, <1>9, <2>1, BooksMerge
  <2>2. CASE fate[list[i]] # "parsed" /\ CountFailure
    BY <1>0, <1>1, <1>4, <1>8, <2>2, BooksFail
  <2>. QED BY <1>1, <2>1, <2>2
<1>11. Listed'
  BY <1>1, <1>2, <1>4 DEF Listed
<1>. QED BY <1>10, <1>11

LEMMA LoadBooks ==
  ASSUME RefInv, Load
  PROVE  Books' /\ Listed'
<1>0. GivenOK /\ ThreadsOK /\ WorkspaceOK /\ IndexConsistent /\ Shape /\ Fresh
  BY TypeParts DEF RefInv, OnceInv
<1>1. /\ UNCHANGED given /\ UNCHANGED <<feeder, queue, hand, files, main>>
      /\ main = "load" /\ next \in Entries /\ next' = next + 1
  BY DEF Load, queueVars
<1>2. entry' = entry /\ list' = list /\ Entries' = Entries
  BY <1>1 DEF given, Entries
<1>3. /\ entry = "lazy" /\ queue = <<>> /\ \A w \in Workers : hand[w] = Ended
      /\ Books /\ Listed
  BY <1>0, <1>1 DEF Shape, RefInv
<1>4. Ended \notin Entries /\ next \in Nat /\ \A i \in Entries : i \in Nat
  BY <1>0, <1>1, EntryFacts DEF GivenOK
<1>5. list[next] \notin DOMAIN index
  <2>1. ASSUME NEW n \in DOMAIN units, list[units[n]] = list[next] PROVE FALSE
    <3>1. units[n] \in Entries
      BY <1>0 DEF WorkspaceOK
    <3>2. units[n] = next
      BY <1>0, <1>1, <1>3, <2>1, <3>1 DEF Fresh, IsInjective, Entries
    <3>3. units[n] < next
      BY <1>0, <1>3 DEF Fresh
    <3>. QED BY <1>4, <3>2, <3>3
  <2>. QED BY <1>0, <2>1 DEF IndexConsistent
<1>6. \/ fate[list[next]] = "parsed" /\ Merge(next)
      \/ fate[list[next]] # "parsed" /\ CountFailure
  BY <1>5 DEF Load
<1>7. next \notin Settled /\ Settled' = Settled \cup {next}
  <2>1. ASSUME NEW x \in Entries PROVE ~Queued(x) /\ ~Queued(x)' /\ ~Held(x) /\ ~Held(x)'
    BY <1>1, <1>2, <1>3, <1>4 DEF Queued, Held
  <2>2. ASSUME NEW x \in Entries PROVE x < next' <=> x < next \/ x = next
    BY <1>1, <1>4
  <2>3. ~ (next < next)
    BY <1>4
  <2>4. \A x : x \in Settled' <=> x \in Settled \cup {next}
    BY <1>1, <1>2, <2>1, <2>2 DEF Settled
  <2>. QED BY <2>3, <2>4 DEF Settled
<1>8. \A n \in DOMAIN units : units[n] < next
  BY <1>0, <1>3 DEF Fresh
<1>9. Books'
  <2>1. CASE fate[list[next]] = "parsed" /\ Merge(next)
    BY <1>0, <1>1, <1>3, <1>7, <1>8, <2>1, BooksMerge
  <2>2. CASE fate[list[next]] # "parsed" /\ CountFailure
    BY <1>0, <1>1, <1>3, <1>7, <2>2, BooksFail
  <2>. QED BY <1>6, <2>1, <2>2
<1>10. Listed'
  BY <1>1, <1>2, <1>3 DEF Listed
<1>. QED BY <1>9, <1>10

(* Nothing is settled and nothing is in the workspace. *)
LEMMA RefInit == AnalysisInit => RefInv
<1> SUFFICES ASSUME AnalysisInit PROVE RefInv
  OBVIOUS
<1>0. OnceInv /\ GivenOK /\ Entries = 1..Len(list) /\ Len(list) \in Nat
  BY OnceInit, EntryFacts, TypeParts DEF OnceInv, GivenOK
<1>1. /\ units = <<>> /\ deps = <<>> /\ symbols = <<>> /\ parsed = 0 /\ failed = 0 /\ next = 1
      /\ entry = "lazy" => Sorted(list)
      /\ entry = "workspace" => files = <<>>
      /\ entry # "workspace" => files = list
  BY DEF AnalysisInit
<1>2. /\ \A S : Parsing(S) = {} <=> \A i \in S : fate[list[i]] # "parsed"
      /\ DOMAIN units = {} /\ DOMAIN deps = {} /\ DOMAIN symbols = {}
  BY <1>1 DEF Parsing
<1>3. Elements(units) = {} /\ Elements(deps) = {} /\ Elements(symbols) = {}
      /\ Distinct(units) /\ Distinct(deps) /\ Distinct(symbols)
  BY <1>2 DEF Elements, Distinct
<1>4. SymbolsIn({}) = {} /\ Parsing({}) = {}
  BY DEF SymbolsIn, Parsing
<1>5. Settled = {}
  <2>1. \A i \in Entries : ~ (i < next)
    BY <1>0, <1>1
  <2>. QED BY <2>1 DEF Settled
<1>6. InOrder(units, symbols) \/ entry # "lazy"
  BY <1>1, <1>2 DEF InOrder
<1>7. Books
  <2>1. Len(units) = 0 /\ Cardinality(Settled) = 0
    BY <1>1, <1>5, FS_EmptySet
  <2>2. deps = units /\ parsed = Len(units) /\ parsed + failed = Cardinality(Settled)
    BY <1>1, <2>1
  <2>3. Elements(units) = Parsing(Settled) /\ Elements(symbols) = SymbolsIn(Parsing(Settled))
    BY <1>3, <1>4, <1>5
  <2>. QED BY <1>3, <1>6, <2>2, <2>3 DEF Books
<1>8. main \in {"join", "load"} => Listed
  <2>1. main = "join" => feeder = "run"
    BY DEF AnalysisInit
  <2>2. entry = "workspace" => Len(files) = next - 1 /\ \A n \in 1..(next - 1) : files[n] = list[n]
    BY <1>1
  <2>. QED BY <1>1, <2>1, <2>2 DEF Listed
<1>9. ResultIsReference
  <2> SUFFICES ASSUME main = "ready" PROVE IsWorkspaceOf(files) /\ entry # "workspace"
    BY DEF ResultIsReference
  <2>1. entry = "files" /\ list = <<>>
    BY DEF AnalysisInit, NothingGiven
  <2>2. files = <<>>
    BY <1>1, <2>1
  <2>3. DOMAIN PathsOf(units) = {} /\ DOMAIN PathsOf(deps) = {} /\ DOMAIN files = {} /\ Len(files) = 0
    BY <1>2, <2>2 DEF PathsOf
  <2>4. \A p : Times(PathsOf(units), p) = 0 /\ Times(PathsOf(deps), p) = 0 /\ Times(files, p) = 0
    <3> TAKE p
    <3>1. /\ {n \in DOMAIN PathsOf(units) : PathsOf(units)[n] = p} = {}
          /\ {n \in DOMAIN PathsOf(deps) : PathsOf(deps)[n] = p} = {}
          /\ {n \in DOMAIN files : files[n] = p} = {}
      BY <2>3
    <3>. QED BY <3>1, FS_EmptySet DEF Times
  <2>5. Sorted(PathsOf(units)) /\ Sorted(PathsOf(deps))
    BY <2>3 DEF Sorted
  <2>6. Len(units) = 0
    BY <1>1
  <2>7. IsWorkspaceOf(files)
    BY <1>1, <1>2, <2>3, <2>4, <2>5, <2>6 DEF IsWorkspaceOf
  <2>. QED BY <2>1, <2>7
<1>. QED BY <1>0, <1>7, <1>8, <1>9 DEF RefInv

LEMMA RefStep == RefInv /\ [AnalysisNext]_analysisVars => RefInv'
<1> SUFFICES ASSUME RefInv, [AnalysisNext]_analysisVars PROVE RefInv'
  OBVIOUS
<1>1. OnceInv'
  BY OnceStep DEF RefInv
<1>2. OnceInv /\ Shape
  BY DEF RefInv, OnceInv
<1>3. ASSUME Books' /\ Listed', main' # "ready" PROVE RefInv'
  BY <1>1, <1>3 DEF RefInv, ResultIsReference
<1>4. ASSUME ResultIsReference', main' \notin {"join", "load"} PROVE RefInv'
  BY <1>1, <1>4 DEF RefInv
<1>5. CASE FeederStep
  <2>1. main' = main /\ main = "join"
    BY <1>2, <1>5 DEF FeederStep, Feed, FeedEnd, ScanThrow, Shape
  <2>2. Books' /\ Listed'
    BY <1>5, FeedBooks, FeedEndBooks DEF FeederStep
  <2>. QED BY <1>3, <2>1, <2>2
<1>6. ASSUME NEW w \in Workers, WorkerStep(w) PROVE RefInv'
  <2>1. Books' /\ Listed'
    BY <1>6, PopBooks, SettleBooks DEF WorkerStep
  <2>2. main' = main /\ hand[w] # Ended
    <3>1. /\ Idle # Ended /\ Ended \notin Entries
      BY <1>2, EntryFacts, TypeParts DEF OnceInv, GivenOK
    <3>. QED BY <1>6, <3>1 DEF WorkerStep, Pop, Settle
  <2>3. main = "join"
    BY <1>2, <2>2 DEF Shape
  <2>. QED BY <1>3, <2>1, <2>2, <2>3
<1>7. CASE JoinAndSort
  <2>1. main' = "ready" /\ ResultIsReference'
    BY <1>7, JoinReference DEF JoinAndSort
  <2>. QED BY <1>4, <2>1
<1>8. CASE Load
  <2>1. main' = "load" /\ Books' /\ Listed'
    BY <1>8, LoadBooks DEF Load
  <2>. QED BY <1>3, <2>1
<1>9. CASE LoadThrow
  <2>1. main' = "dead"
    BY <1>9 DEF LoadThrow
  <2>2. ResultIsReference'
    BY <2>1 DEF ResultIsReference
  <2>. QED BY <1>4, <2>1, <2>2
<1>10. CASE LoadEnd
  <2>1. main' = "ready" /\ ResultIsReference'
    BY <1>10, LoadEndReference DEF LoadEnd
  <2>. QED BY <1>4, <2>1
<1>11. CASE UNCHANGED analysisVars
  <2>1. UNCHANGED <<given, wsVars>> /\ UNCHANGED <<list, fate, entry, next, feeder, queue, hand, units, deps, symbols,
                                                   parsed, failed, files, main>>
    BY <1>11 DEF analysisVars, given, queueVars, wsVars
  <2>2. Settled' = Settled
    BY <2>1 DEF Settled, Entries, Queued, Held
  <2>3. main \in {"join", "load"} => Books' /\ Listed'
    <3>1. ASSUME Books PROVE Books'
      BY <2>1, <2>2, <3>1, BooksStay
    <3>2. ASSUME Listed PROVE Listed'
      BY <2>1, <3>2 DEF Listed
    <3>. QED BY <3>1, <3>2 DEF RefInv
  <2>4. ResultIsReference'
    <3>1. ResultIsReference
      BY DEF RefInv
    <3>3. ASSUME IsWorkspaceOf(files) PROVE IsWorkspaceOf(files)'
      <4>1. Holds(units', deps', symbols', files', parsed', failed')
        BY <2>1, <3>3, HoldsIs
      <4>. QED BY <2>1, <4>1, HoldsNext
    <3>. QED BY <2>1, <3>1, <3>3 DEF ResultIsReference, Sorted
  <2>. QED BY <1>1, <2>1, <2>3, <2>4 DEF RefInv
<1>. QED BY <1>5, <1>6, <1>7, <1>8, <1>9, <1>10, <1>11 DEF AnalysisNext, MainStep

(* The threads leave no trace: whatever the traversal order, the order in  *)
(* which the workers merge, the failures and the arrangement std::sort     *)
(* picks among equal keys, the workspace that is returned is the one of    *)
(* its file list, for any files, lists, number of cores and capacity.      *)
THEOREM ResultsAreReference == AnalysisSpec => []ResultIsReference
<1>1. RefInv => ResultIsReference
  BY DEF RefInv
<1>. QED BY <1>1, RefInit, RefStep, PTL DEF AnalysisSpec
=============================================================================
