------------------------- MODULE BlockingQueueProofs -------------------------
(***************************************************************************)
(* Proofs about BlockingQueue for any number of threads, any capacity and  *)
(* any number of items.                                                    *)
(***************************************************************************)
EXTENDS BlockingQueue, SequenceTheorems, FiniteSetTheorems, TLAPS

(* markDone has begun exactly when the flag is up. *)
ClosingIsDone == closing # "open" <=> done

(* The inductive invariant. *)
IInv ==
  /\ TypeOK
  /\ FifoExactlyOnce
  /\ NoLostWakeup
  /\ NobodySleepsWhenClosed
  /\ ClosingIsDone

-----------------------------------------------------------------------------
(* Moving the front item of a queue to the end of a log keeps log \o queue. *)
LEMMA MoveFront ==
  ASSUME NEW S, NEW log \in Seq(S), NEW q \in Seq(S), q # <<>>
  PROVE  log \o q = Append(log, Head(q)) \o Tail(q)
<1>1. Head(q) \in S /\ Tail(q) \in Seq(S)
  BY HeadTailProperties
<1>2. Append(log, Head(q)) = log \o <<Head(q)>> /\ <<Head(q)>> \in Seq(S)
  BY <1>1, AppendIsConcat
<1>3. <<Head(q)>> \o Tail(q) = q
  BY <1>1
<1>4. (log \o <<Head(q)>>) \o Tail(q) = log \o (<<Head(q)>> \o Tail(q))
  BY <1>1, <1>2, ConcatAssociative
<1> QED BY <1>2, <1>3, <1>4

(* Appending to a queue appends to log \o queue.  (A definition of its own *)
(* keeps the equation opaque where the lemma is instantiated.)             *)
AppendCommutes(log, q, e) == Append(log \o q, e) = log \o Append(q, e)

LEMMA AppendBoth ==
  ASSUME NEW S, NEW log \in Seq(S), NEW q \in Seq(S), NEW e \in S
  PROVE  AppendCommutes(log, q, e)
<1>1. Append(q, e) = q \o <<e>> /\ <<e>> \in Seq(S)
  BY AppendIsConcat
<1>2. log \o q \in Seq(S)
  BY ConcatProperties
<1>3. Append(log \o q, e) = (log \o q) \o <<e>>
  BY <1>2, AppendIsConcat
<1>4. (log \o q) \o <<e>> = log \o (q \o <<e>>)
  BY <1>1, ConcatAssociative
<1> QED BY <1>1, <1>3, <1>4 DEF AppendCommutes

LEMMA ThreadSetsFinite ==
  /\ IsFiniteSet(Blocked(Producers)) /\ IsFiniteSet(Notified(Producers))
  /\ IsFiniteSet(Blocked(Consumers)) /\ IsFiniteSet(Notified(Consumers))
BY QueueAssumption, FS_Subset DEF Blocked, Notified

LEMMA NotifiedCount ==
  /\ Cardinality(Notified(Producers)) \in Nat
  /\ Cardinality(Notified(Consumers)) \in Nat
BY ThreadSetsFinite, FS_CardinalityType

(* A set of threads of one kind, as it is used below. *)
Kind(T) == T = Producers \/ T = Consumers

(* A call of t returns and wakes nobody: t stops being notified. *)
LEMMA ReturnEffect ==
  ASSUME TypeOK, NEW T, Kind(T), NEW t \in Threads, Awake(t), NEW x \in Status,
         status' = [status EXCEPT ![t] = x]
  PROVE  /\ x # "blocked" => Blocked(T)' = Blocked(T)
         /\ t \notin T => Blocked(T)' = Blocked(T) /\ Notified(T)' = Notified(T)
         /\ x # "notified" => Cardinality(Notified(T)') >= Cardinality(Notified(T)) - 1
         /\ Cardinality(Notified(T)') \in Nat
<1> USE DEF Kind, Threads
<1>1. x # "blocked" => Blocked(T)' = Blocked(T)
  BY DEF TypeOK, Blocked, Awake
<1>2. t \notin T => Blocked(T)' = Blocked(T) /\ Notified(T)' = Notified(T)
  BY DEF TypeOK, Blocked, Notified
<1>3. IsFiniteSet(Notified(T)) /\ IsFiniteSet(Notified(T) \cup {t})
  BY ThreadSetsFinite, FS_AddElement
<1>4. IsFiniteSet(Notified(T)') /\ Cardinality(Notified(T)') \in Nat
  <2>1. Notified(T)' \subseteq Notified(T) \cup {t}
    BY DEF TypeOK, Notified
  <2> QED BY <2>1, <1>3, FS_Subset, FS_CardinalityType
<1>5. ASSUME x # "notified"
      PROVE  Cardinality(Notified(T)') >= Cardinality(Notified(T)) - 1
  <2>1. Notified(T)' = Notified(T) \ {t}
    BY <1>5 DEF TypeOK, Notified
  <2>2. CASE t \in Notified(T)
    <3>1. Cardinality(Notified(T) \ {t}) = Cardinality(Notified(T)) - 1
      BY <2>2, <1>3, FS_RemoveElement
    <3> QED BY <3>1, <2>1, <1>3, FS_CardinalityType
  <2>3. CASE t \notin Notified(T)
    <3>1. Notified(T)' = Notified(T)
      BY <2>1, <2>3
    <3> QED BY <3>1, <1>3, FS_CardinalityType
  <2> QED BY <2>2, <2>3
<1> QED BY <1>1, <1>2, <1>4, <1>5

(* ReturnNotifyOne(t, T): either nobody of T sleeps afterwards, or exactly *)
(* one more thread of T is on its way; the other kind loses at most t.     *)
LEMMA NotifyOneEffect ==
  ASSUME TypeOK, NEW T, Kind(T), NEW U, Kind(U), T \cap U = {},
         NEW t \in U, Awake(t), ReturnNotifyOne(t, T)
  PROVE  /\ status' \in [Threads -> Status]
         /\ \A r \in Threads : status'[r] = "blocked" => status[r] = "blocked"
         /\ \/ Blocked(T)' = {}
            \/ /\ Cardinality(Notified(T)') = Cardinality(Notified(T)) + 1
               /\ Blocked(T) # {}
         /\ Blocked(U)' = Blocked(U)
         /\ Cardinality(Notified(U)') >= Cardinality(Notified(U)) - 1
         /\ Cardinality(Notified(T)') \in Nat
         /\ Cardinality(Notified(U)') \in Nat
<1> USE DEF Kind, Threads
<1>1. CASE Blocked(T) = {}
  <2>1. status' = [status EXCEPT ![t] = "running"] /\ t \in Threads
    BY <1>1 DEF ReturnNotifyOne
  <2>2. /\ Blocked(U)' = Blocked(U)
        /\ Cardinality(Notified(U)') >= Cardinality(Notified(U)) - 1
        /\ Cardinality(Notified(U)') \in Nat
    BY <2>1, ReturnEffect DEF Status
  <2>3. Blocked(T)' = Blocked(T) /\ Cardinality(Notified(T)') \in Nat
    BY <2>1, ReturnEffect DEF Status
  <2> QED BY <1>1, <2>1, <2>2, <2>3 DEF TypeOK, Status
<1>2. CASE Blocked(T) # {}
  <2>1. PICK s \in Blocked(T) :
          status' = [status EXCEPT ![t] = "running", ![s] = "notified"]
    BY <1>2 DEF ReturnNotifyOne
  <2>2. s \in T /\ s \notin U /\ t \notin T /\ s # t /\ s \in Threads /\ t \in Threads
    BY <2>1 DEF Blocked
  <2>3. Notified(T)' = Notified(T) \cup {s} /\ s \notin Notified(T)
    BY <2>1, <2>2 DEF TypeOK, Blocked, Notified, Status
  <2>4. /\ IsFiniteSet(Notified(T)) /\ IsFiniteSet(Notified(U))
        /\ Cardinality(Notified(T)) \in Nat /\ Cardinality(Notified(U)) \in Nat
    BY ThreadSetsFinite, NotifiedCount
  <2>5. Cardinality(Notified(T)') = Cardinality(Notified(T)) + 1
    BY <2>3, <2>4, FS_AddElement
  <2>6. Blocked(U)' = Blocked(U) /\ Notified(U)' = Notified(U) \ {t}
    BY <2>1, <2>2 DEF TypeOK, Blocked, Notified, Awake, Status
  <2>7. /\ Cardinality(Notified(U)') >= Cardinality(Notified(U)) - 1
        /\ Cardinality(Notified(U)') \in Nat
    <3>1. CASE t \in Notified(U)
      <4>1. Cardinality(Notified(U) \ {t}) = Cardinality(Notified(U)) - 1
        BY <3>1, <2>4, FS_RemoveElement
      <4>2. Cardinality(Notified(U) \ {t}) \in Nat
        BY <2>4, FS_RemoveElement, FS_CardinalityType
      <4> QED BY <4>1, <4>2, <2>4, <2>6
    <3>2. CASE t \notin Notified(U)
      <4>1. Notified(U)' = Notified(U)
        BY <3>2, <2>6
      <4> QED BY <4>1, <2>4
    <3> QED BY <3>1, <3>2
  <2>8. /\ status' \in [Threads -> Status]
        /\ \A r \in Threads : status'[r] = "blocked" => status[r] = "blocked"
    BY <2>1, <2>2 DEF TypeOK, Status
  <2> QED BY <1>2, <2>4, <2>5, <2>6, <2>7, <2>8
<1> QED BY <1>1, <1>2

-----------------------------------------------------------------------------
(* The steps, one lemma per operation. *)

LEMMA InitIInv == Init => IInv
<1> SUFFICES ASSUME Init PROVE IInv
  OBVIOUS
<1>1. TypeOK
  <2>1. <<>> \in Seq(Items)
    BY EmptySeq
  <2>2. 0 \in 0..PerProducer
    BY QueueAssumption
  <2>3. WithinCapacity
    BY QueueAssumption DEF Init, WithinCapacity
  <2> QED BY <2>1, <2>2, <2>3 DEF Init, TypeOK, Status, Closing
<1>2. Blocked(Producers) = {} /\ Blocked(Consumers) = {} /\ Blocked(Threads) = {}
  BY DEF Init, Blocked, Threads
<1>3. FifoExactlyOnce
  BY QueueAssumption DEF Init, FifoExactlyOnce
<1>4. NoLostWakeup /\ NobodySleepsWhenClosed /\ ClosingIsDone
  BY <1>2 DEF Init, NoLostWakeup, NobodySleepsWhenClosed, ClosingIsDone
<1> QED BY <1>1, <1>3, <1>4 DEF IInv

(* A step that puts nobody to sleep keeps an empty set of sleepers empty. *)
LEMMA SleepersShrink ==
  ASSUME NobodySleepsWhenClosed, closing' = closing,
         \A r \in Threads : status'[r] = "blocked" => status[r] = "blocked"
  PROVE  NobodySleepsWhenClosed'
BY DEF NobodySleepsWhenClosed, Blocked, Threads

LEMMA PushKeepsIInv ==
  ASSUME IInv, NEW p \in Producers, Push(p)
  PROVE  IInv'
<1> USE DEF IInv
<1>0. /\ Awake(p) /\ p \in Threads /\ sent[p] < PerProducer
      /\ sent[p] \in Nat /\ PerProducer \in Nat /\ Capacity \in Nat
      /\ p \notin Consumers /\ Len(data) \in Nat
  BY QueueAssumption, LenProperties
     DEF Push, PushAccept, PushDrop, PushWait, CanPush, Threads, TypeOK
<1>1. CASE PushAccept(p)
  <2> DEFINE v == <<p, sent[p] + 1>>
  <2>1. v \in Items
    BY <1>0 DEF Items
  <2>2. /\ data' \in Seq(Items) /\ Len(data') = Len(data) + 1
        /\ accepted' \in Seq(Items)
    BY <1>1, <2>1, AppendProperties DEF PushAccept, TypeOK
  <2>3. /\ status' \in [Threads -> Status]
        /\ \A r \in Threads : status'[r] = "blocked" => status[r] = "blocked"
        /\ \/ Blocked(Consumers)' = {}
           \/ /\ Cardinality(Notified(Consumers)') = Cardinality(Notified(Consumers)) + 1
              /\ Blocked(Consumers) # {}
        /\ Blocked(Producers)' = Blocked(Producers)
        /\ Cardinality(Notified(Producers)') >= Cardinality(Notified(Producers)) - 1
        /\ Cardinality(Notified(Producers)') \in Nat
    <3>1. ReturnNotifyOne(p, Consumers) /\ Consumers \cap Producers = {}
      BY <1>1, QueueAssumption DEF PushAccept
    <3>2. Kind(Consumers) /\ Kind(Producers)
      BY DEF Kind
    <3> QED BY <1>0, <3>1, <3>2, NotifyOneEffect
  <2>4. WithinCapacity'
    BY <1>0, <1>1, <2>2 DEF PushAccept, WithinCapacity
  <2>5. TypeOK'
    BY <1>0, <1>1, <2>2, <2>3, <2>4 DEF PushAccept, TypeOK
  <2>6. FifoExactlyOnce'
    <3>1. delivered \in Seq(Items) /\ data \in Seq(Items)
      BY DEF TypeOK
    <3>2. AppendCommutes(delivered, data, v)
      BY <2>1, <3>1, AppendBoth
    <3> QED BY <1>1, <3>2 DEF PushAccept, FifoExactlyOnce, AppendCommutes
  <2>7. NoLostWakeup'
    BY <1>0, <1>1, <2>2, <2>3, NotifiedCount, SMTT(30) DEF PushAccept, NoLostWakeup
  <2>8. NobodySleepsWhenClosed'
    BY <1>1, <2>3, SleepersShrink DEF PushAccept
  <2>9. ClosingIsDone'
    BY <1>1 DEF PushAccept, ClosingIsDone
  <2> QED BY <2>4, <2>5, <2>6, <2>7, <2>8, <2>9
<1>2. CASE PushDrop(p)
  <2>1. status' = [status EXCEPT ![p] = "running"]
    BY <1>2 DEF PushDrop
  <2>2. Blocked(Consumers)' = Blocked(Consumers) /\ Notified(Consumers)' = Notified(Consumers)
    BY <1>0, <2>1, ReturnEffect DEF Kind, Status
  <2>3. TypeOK'
    BY <1>0, <1>2, <2>1 DEF PushDrop, TypeOK, WithinCapacity, Status
  <2>4. NoLostWakeup'
    BY <1>2, <2>2 DEF PushDrop, NoLostWakeup
  <2>5. NobodySleepsWhenClosed'
    BY <1>0, <1>2, <2>1, SleepersShrink DEF PushDrop, TypeOK
  <2>6. FifoExactlyOnce' /\ ClosingIsDone'
    BY <1>2 DEF PushDrop, FifoExactlyOnce, ClosingIsDone
  <2> QED BY <2>3, <2>4, <2>5, <2>6
<1>3. CASE PushWait(p)
  <2>1. status' = [status EXCEPT ![p] = "blocked"]
    BY <1>3 DEF PushWait
  <2>2. /\ Blocked(Consumers)' = Blocked(Consumers) /\ Notified(Consumers)' = Notified(Consumers)
        /\ Cardinality(Notified(Producers)') \in Nat
    BY <1>0, <2>1, ReturnEffect DEF Kind, Status
  <2>3. TypeOK'
    BY <1>0, <1>3, <2>1 DEF PushWait, TypeOK, WithinCapacity, Status
  <2>4. NoLostWakeup'
    BY <1>0, <1>3, <2>2 DEF PushWait, NoLostWakeup
  <2>5. NobodySleepsWhenClosed'
    BY <1>3 DEF PushWait, NobodySleepsWhenClosed, ClosingIsDone
  <2>6. FifoExactlyOnce' /\ ClosingIsDone'
    BY <1>3 DEF PushWait, FifoExactlyOnce, ClosingIsDone
  <2> QED BY <2>3, <2>4, <2>5, <2>6
<1> QED BY <1>1, <1>2, <1>3 DEF Push

LEMMA PopKeepsIInv ==
  ASSUME IInv, NEW c \in Consumers, Pop(c)
  PROVE  IInv'
<1> USE DEF IInv
<1>0. /\ Awake(c) /\ c \in Threads /\ Capacity \in Nat
      /\ c \notin Producers /\ Len(data) \in Nat
  BY QueueAssumption, LenProperties
     DEF Pop, PopTake, PopEnd, PopWait, Threads, TypeOK
<1>1. CASE PopTake(c)
  <2>1. /\ Head(data) \in Items /\ data' \in Seq(Items) /\ Len(data') = Len(data) - 1
        /\ delivered' \in Seq(Items)
    BY <1>1, HeadTailProperties, AppendProperties DEF PopTake, TypeOK
  <2>2. /\ status' \in [Threads -> Status]
        /\ \A r \in Threads : status'[r] = "blocked" => status[r] = "blocked"
        /\ \/ Blocked(Producers)' = {}
           \/ /\ Cardinality(Notified(Producers)') = Cardinality(Notified(Producers)) + 1
              /\ Blocked(Producers) # {}
        /\ Blocked(Consumers)' = Blocked(Consumers)
        /\ Cardinality(Notified(Consumers)') >= Cardinality(Notified(Consumers)) - 1
        /\ Cardinality(Notified(Consumers)') \in Nat
    <3>1. ReturnNotifyOne(c, Producers) /\ Producers \cap Consumers = {}
      BY <1>1, QueueAssumption DEF PopTake
    <3>2. Kind(Consumers) /\ Kind(Producers)
      BY DEF Kind
    <3> QED BY <1>0, <3>1, <3>2, NotifyOneEffect
  <2>3. WithinCapacity'
    BY <1>0, <1>1, <2>1 DEF PopTake, TypeOK, WithinCapacity
  <2>4. TypeOK'
    BY <1>0, <1>1, <2>1, <2>2, <2>3 DEF PopTake, TypeOK
  <2>5. FifoExactlyOnce'
    <3>1. delivered \o data = Append(delivered, Head(data)) \o Tail(data)
      BY <1>1, MoveFront DEF PopTake, TypeOK
    <3> QED BY <1>1, <3>1 DEF PopTake, FifoExactlyOnce
  <2>6. NoLostWakeup'
    BY <1>0, <1>1, <2>1, <2>2, NotifiedCount DEF PopTake, NoLostWakeup
  <2>7. NobodySleepsWhenClosed'
    BY <1>1, <2>2, SleepersShrink DEF PopTake
  <2>8. ClosingIsDone'
    BY <1>1 DEF PopTake, ClosingIsDone
  <2> QED BY <2>3, <2>4, <2>5, <2>6, <2>7, <2>8
<1>2. CASE PopEnd(c)
  <2>1. status' = [status EXCEPT ![c] = "finished"] /\ Len(data) = 0
    BY <1>2 DEF PopEnd
  <2>2. /\ Blocked(Producers)' = Blocked(Producers) /\ Notified(Producers)' = Notified(Producers)
        /\ Cardinality(Notified(Consumers)') \in Nat
    BY <1>0, <2>1, ReturnEffect DEF Kind, Status
  <2>3. TypeOK'
    BY <1>0, <1>2, <2>1 DEF PopEnd, TypeOK, WithinCapacity, Status
  <2>4. NoLostWakeup'
    BY <1>2, <2>1, <2>2 DEF PopEnd, NoLostWakeup
  <2>5. NobodySleepsWhenClosed'
    BY <1>0, <1>2, <2>1, SleepersShrink DEF PopEnd, TypeOK
  <2>6. FifoExactlyOnce' /\ ClosingIsDone'
    BY <1>2 DEF PopEnd, FifoExactlyOnce, ClosingIsDone
  <2> QED BY <2>3, <2>4, <2>5, <2>6
<1>3. CASE PopWait(c)
  <2>1. status' = [status EXCEPT ![c] = "blocked"] /\ Len(data) = 0
    BY <1>3 DEF PopWait
  <2>2. /\ Blocked(Producers)' = Blocked(Producers) /\ Notified(Producers)' = Notified(Producers)
        /\ Cardinality(Notified(Consumers)') \in Nat
    BY <1>0, <2>1, ReturnEffect DEF Kind, Status
  <2>3. TypeOK'
    BY <1>0, <1>3, <2>1 DEF PopWait, TypeOK, WithinCapacity, Status
  <2>4. NoLostWakeup'
    BY <1>3, <2>1, <2>2 DEF PopWait, NoLostWakeup
  <2>5. NobodySleepsWhenClosed'
    BY <1>3 DEF PopWait, NobodySleepsWhenClosed, ClosingIsDone
  <2>6. FifoExactlyOnce' /\ ClosingIsDone'
    BY <1>3 DEF PopWait, FifoExactlyOnce, ClosingIsDone
  <2> QED BY <2>3, <2>4, <2>5, <2>6
<1> QED BY <1>1, <1>2, <1>3 DEF Pop

LEMMA MarkDoneKeepsIInv ==
  ASSUME IInv, SetDone \/ FinishMarkDone
  PROVE  IInv'
<1> USE DEF IInv
<1>1. CASE SetDone
  <2>1. TypeOK'
    BY <1>1 DEF SetDone, TypeOK, WithinCapacity, Closing
  <2>2. NoLostWakeup'
    BY <1>1 DEF SetDone, NoLostWakeup, Blocked, Notified, ClosingIsDone
  <2>3. NobodySleepsWhenClosed' /\ ClosingIsDone'
    BY <1>1 DEF SetDone, NobodySleepsWhenClosed, ClosingIsDone
  <2>4. FifoExactlyOnce'
    BY <1>1 DEF SetDone, FifoExactlyOnce
  <2> QED BY <2>1, <2>2, <2>3, <2>4
<1>2. CASE NotifyAllEmpty
  <2>1. /\ status' \in [Threads -> Status]
        /\ Blocked(Consumers)' = {}
    BY <1>2 DEF NotifyAllEmpty, NotifyAll, Blocked, TypeOK, Status, Threads
  <2>2. done /\ done'
    BY <1>2 DEF NotifyAllEmpty, ClosingIsDone
  <2>3. TypeOK'
    BY <1>2, <2>1 DEF NotifyAllEmpty, TypeOK, WithinCapacity, Closing
  <2>4. NoLostWakeup' /\ NobodySleepsWhenClosed' /\ ClosingIsDone'
    BY <1>2, <2>1, <2>2
       DEF NotifyAllEmpty, NoLostWakeup, NobodySleepsWhenClosed, ClosingIsDone
  <2>5. FifoExactlyOnce'
    BY <1>2 DEF NotifyAllEmpty, FifoExactlyOnce
  <2> QED BY <2>3, <2>4, <2>5
<1>3. CASE NotifyAllFull
  <2>1. /\ status' \in [Threads -> Status]
        /\ Blocked(Producers)' = {}
        /\ Blocked(Consumers)' = {}
        /\ Blocked(Threads)' = {}
    <3>1. Blocked(Consumers) = {}
      BY <1>3 DEF NotifyAllFull, NobodySleepsWhenClosed
    <3> QED BY <1>3, <3>1 DEF NotifyAllFull, NotifyAll, Blocked, TypeOK, Status, Threads
  <2>2. TypeOK'
    BY <1>3, <2>1 DEF NotifyAllFull, TypeOK, WithinCapacity, Closing
  <2>3. NoLostWakeup' /\ NobodySleepsWhenClosed' /\ ClosingIsDone'
    BY <1>3, <2>1
       DEF NotifyAllFull, NoLostWakeup, NobodySleepsWhenClosed, ClosingIsDone
  <2>4. FifoExactlyOnce'
    BY <1>3 DEF NotifyAllFull, FifoExactlyOnce
  <2> QED BY <2>2, <2>3, <2>4
<1> QED BY <1>1, <1>2, <1>3 DEF FinishMarkDone

LEMMA SpuriousKeepsIInv ==
  ASSUME IInv, NEW t \in Threads, SpuriousWakeup(t)
  PROVE  IInv'
<1> USE DEF IInv
<1>1. /\ status[t] = "blocked" /\ status' = [status EXCEPT ![t] = "notified"]
      /\ UNCHANGED <<data, done, sent, closing, accepted, delivered>>
  BY DEF SpuriousWakeup
<1>2. TypeOK'
  BY <1>1 DEF TypeOK, WithinCapacity, Status
<1>3. ASSUME NEW T, Kind(T)
      PROVE  /\ Cardinality(Notified(T)') >= Cardinality(Notified(T))
             /\ Cardinality(Notified(T)') \in Nat
             /\ Cardinality(Notified(T)) \in Nat
             /\ Blocked(T)' \subseteq Blocked(T)
  <2>1. IsFiniteSet(Notified(T)) /\ IsFiniteSet(Notified(T) \cup {t})
    BY <1>3, ThreadSetsFinite, FS_AddElement DEF Kind
  <2>2. Notified(T) \subseteq Notified(T)' /\ Notified(T)' \subseteq Notified(T) \cup {t}
    BY <1>1, <1>3 DEF TypeOK, Notified, Threads, Kind
  <2>3. IsFiniteSet(Notified(T)')
    BY <2>1, <2>2, FS_Subset
  <2>4. Blocked(T)' \subseteq Blocked(T)
    BY <1>1, <1>3 DEF TypeOK, Blocked, Threads, Kind
  <2> QED BY <2>1, <2>2, <2>3, <2>4, FS_Subset, FS_CardinalityType
<1>4. NoLostWakeup'
  <2>1. Len(data) \in Nat /\ Capacity \in Nat
    BY LenProperties, QueueAssumption DEF TypeOK
  <2>2. Kind(Producers) /\ Kind(Consumers)
    BY DEF Kind
  <2>3. /\ Cardinality(Notified(Consumers)') >= Cardinality(Notified(Consumers))
        /\ Cardinality(Notified(Consumers)') \in Nat /\ Cardinality(Notified(Consumers)) \in Nat
        /\ Blocked(Consumers)' \subseteq Blocked(Consumers)
    BY <1>3, <2>2
  <2>4. /\ Cardinality(Notified(Producers)') >= Cardinality(Notified(Producers))
        /\ Cardinality(Notified(Producers)') \in Nat /\ Cardinality(Notified(Producers)) \in Nat
        /\ Blocked(Producers)' \subseteq Blocked(Producers)
    BY <1>3, <2>2
  <2>5. /\ Blocked(Consumers)' # {} => Blocked(Consumers) # {}
        /\ Blocked(Producers)' # {} => Blocked(Producers) # {}
    BY <2>3, <2>4
  <2> QED BY <1>1, <2>1, <2>3, <2>4, <2>5 DEF NoLostWakeup
<1>5. NobodySleepsWhenClosed'
  BY <1>1, SleepersShrink DEF TypeOK
<1>6. FifoExactlyOnce' /\ ClosingIsDone'
  BY <1>1 DEF FifoExactlyOnce, ClosingIsDone
<1> QED BY <1>2, <1>4, <1>5, <1>6

LEMMA NextKeepsIInv == IInv /\ [Next]_vars => IInv'
<1> SUFFICES ASSUME IInv, [Next]_vars PROVE IInv'
  OBVIOUS
<1>1. CASE \E p \in Producers : Push(p)
  BY <1>1, PushKeepsIInv
<1>2. CASE \E c \in Consumers : Pop(c)
  BY <1>2, PopKeepsIInv
<1>3. CASE SetDone \/ FinishMarkDone
  BY <1>3, MarkDoneKeepsIInv
<1>4. CASE \E t \in Threads : SpuriousWakeup(t)
  BY <1>4, SpuriousKeepsIInv
<1>5. CASE UNCHANGED vars
  BY <1>5 DEF vars, IInv, TypeOK, WithinCapacity, FifoExactlyOnce, NoLostWakeup,
              NobodySleepsWhenClosed, ClosingIsDone, Blocked, Notified
<1> QED BY <1>1, <1>2, <1>3, <1>4, <1>5 DEF Next

(* The invariant holds in every behaviour of the queue. *)
THEOREM Invariance == Spec => []IInv
<1>1. Init => IInv
  BY InitIInv
<1>2. IInv /\ [Next]_vars => IInv'
  BY NextKeepsIInv
<1> QED BY <1>1, <1>2, PTL DEF Spec

(* The variables stay in their types, and the deque of BlockingQueue never *)
(* exceeds capacity_, for any number of threads and whoever steals a wakeup *)
(* (push evaluates its predicate again after each one).                    *)
THEOREM TypeCorrect == Spec => []TypeOK
BY Invariance, PTL DEF IInv

(* What push queued is what pop has delivered followed by what is still    *)
(* queued: no item is lost, duplicated or reordered.                       *)
THEOREM FifoDelivery == Spec => []FifoExactlyOnce
BY Invariance, PTL DEF IInv

(* One notify_one per push and per pop loses no wakeup: there are never    *)
(* more queued items (free slots) than consumers (producers) already woken *)
(* for them while another one still sleeps.                                *)
THEOREM WakeupsSuffice == Spec => []NoLostWakeup
BY Invariance, PTL DEF IInv

(* markDone leaves nobody asleep. *)
THEOREM ClosedQueueWakesAll == Spec => []NobodySleepsWhenClosed
BY Invariance, PTL DEF IInv

-----------------------------------------------------------------------------
(* Every step of the detailed queue is a step of the bounded FIFO buffer   *)
(* or leaves it unchanged.                                                 *)
LEMMA StepRefines == IInv /\ [Next]_vars => [Abstract!Next]_(Abstract!queueVars)
<1> SUFFICES ASSUME IInv, [Next]_vars PROVE [Abstract!Next]_(Abstract!queueVars)
  OBVIOUS
<1> USE DEF Abstract!queueVars, Abstract!Next
<1>1. ASSUME NEW p \in Producers, PushAccept(p)
      PROVE  Abstract!Next
  <2>1. <<p, sent[p] + 1>> \in Items
    BY <1>1, QueueAssumption DEF IInv, TypeOK, PushAccept, CanPush, Items
  <2> QED BY <1>1, <2>1 DEF PushAccept, Abstract!Accept
<1>2. ASSUME NEW c \in Consumers, PopTake(c)
      PROVE  Abstract!Next
  <2>1. Head(data) \in Items
    BY <1>2, HeadTailProperties DEF IInv, TypeOK, PopTake
  <2> QED BY <1>2, <2>1 DEF PopTake, Abstract!Take
<1>3. CASE \E p \in Producers : PushDrop(p) \/ PushWait(p)
  BY <1>3 DEF PushDrop, PushWait
<1>4. CASE \E c \in Consumers : PopEnd(c) \/ PopWait(c)
  BY <1>4 DEF PopEnd, PopWait
<1>5. CASE SetDone
  BY <1>5 DEF SetDone, Abstract!MarkDone
<1>6. CASE FinishMarkDone
  BY <1>6 DEF FinishMarkDone, NotifyAllEmpty, NotifyAllFull
<1>7. CASE \E t \in Threads : SpuriousWakeup(t)
  BY <1>7 DEF SpuriousWakeup
<1>8. CASE UNCHANGED vars
  BY <1>8 DEF vars
<1> QED BY <1>1, <1>2, <1>3, <1>4, <1>5, <1>6, <1>7, <1>8 DEF Next, Push, Pop

(* BlockingQueue implements the bounded FIFO buffer on which the thread    *)
(* pipelines are built.                                                    *)
THEOREM ImplementsBoundedQueue == Spec => RefinesBoundedQueue
<1>1. Init => Abstract!Init
  BY DEF Init, Abstract!Init
<1>2. IInv /\ [Next]_vars => [Abstract!Next]_(Abstract!queueVars)
  BY StepRefines
<1> QED BY <1>1, <1>2, Invariance, PTL DEF Spec, RefinesBoundedQueue, Abstract!Spec
=============================================================================
