---------------------------- MODULE BlockingQueue ----------------------------
(***************************************************************************)
(* ast::BlockingQueue<T> (include/ast-workspace.h), the hand-off between   *)
(* the scanner, the workers and the cache writer: a deque, a mutex and two *)
(* condition variables.                                                    *)
(*                                                                         *)
(* A call holds mu_ from its lock to its return or to the moment it goes   *)
(* to sleep, so each such critical section is one step.  A thread asleep   *)
(* in condition_variable::wait is "blocked"; notify_one makes one sleeper  *)
(* "notified", which then competes for the mutex with everybody else and   *)
(* evaluates the predicate again.  markDone notifies after it has released *)
(* the mutex, so its three effects are three steps.                        *)
(***************************************************************************)
EXTENDS Naturals, Sequences, FiniteSets

CONSTANTS
  Producers,   \* threads that call push
  Consumers,   \* threads that loop on pop until it returns false
  Capacity,    \* capacity_
  PerProducer  \* bound: how many items each producer pushes

ASSUME QueueAssumption ==
  /\ IsFiniteSet(Producers)
  /\ IsFiniteSet(Consumers)
  /\ Producers \cap Consumers = {}
  /\ Capacity \in Nat \ {0}
  /\ PerProducer \in Nat

VARIABLES
  data,        \* data_
  done,        \* done_
  status,      \* what each thread is doing
  sent,        \* number of push calls each producer has completed
  closing,     \* progress of markDone
  accepted,    \* history: items in the order they entered data_
  delivered    \* history: items in the order they left it

vars == <<data, done, status, sent, closing, accepted, delivered>>

Threads == Producers \cup Consumers
Items   == Producers \X (1..PerProducer)
Status  == {"running", "blocked", "notified", "finished"}
Closing == {"open", "doneSet", "emptyNotified", "closed"}

Awake(t) == status[t] \in {"running", "notified"}

Blocked(T)  == {t \in T : status[t] = "blocked"}
Notified(T) == {t \in T : status[t] = "notified"}

Init ==
  /\ data = <<>>
  /\ done = FALSE
  /\ status = [t \in Threads |-> "running"]
  /\ sent = [p \in Producers |-> 0]
  /\ closing = "open"
  /\ accepted = <<>>
  /\ delivered = <<>>

(* Thread t leaves its call and wakes one sleeper of T, if there is one. *)
ReturnNotifyOne(t, T) ==
  IF Blocked(T) = {}
  THEN status' = [status EXCEPT ![t] = "running"]
  ELSE \E s \in Blocked(T) :
         status' = [status EXCEPT ![t] = "running", ![s] = "notified"]

NotifyAll(T) ==
  status' = [t \in Threads |-> IF t \in Blocked(T) THEN "notified" ELSE status[t]]

-----------------------------------------------------------------------------
(* push(v) *)

(* Producer p is awake and calls push with its next item.  How often a      *)
(* producer calls is not the queue's affair: PerProducer bounds it.         *)
CanPush(p) == p \in Producers /\ Awake(p) /\ sent[p] < PerProducer

(* Fault: push waits only while the queue holds more than capacity_ items. *)
PushAcceptOneMore(p) ==
  /\ CanPush(p)
  /\ ~done
  /\ Len(data) <= Capacity
  /\ data' = Append(data, <<p, sent[p] + 1>>)
  /\ accepted' = Append(accepted, <<p, sent[p] + 1>>)
  /\ sent' = [sent EXCEPT ![p] = @ + 1]
  /\ ReturnNotifyOne(p, Consumers)
  /\ UNCHANGED <<done, closing, delivered>>

(* Fault: push notifies only when the queue was empty. *)
PushAcceptNotifyFirst(p) ==
  /\ CanPush(p)
  /\ ~done
  /\ Len(data) < Capacity
  /\ data' = Append(data, <<p, sent[p] + 1>>)
  /\ accepted' = Append(accepted, <<p, sent[p] + 1>>)
  /\ sent' = [sent EXCEPT ![p] = @ + 1]
  /\ ReturnNotifyOne(p, IF data = <<>> THEN Consumers ELSE {})
  /\ UNCHANGED <<done, closing, delivered>>

(* Fault: push does not look at done_. *)
PushAcceptWhenDone(p) ==
  /\ CanPush(p)
  /\ Len(data) < Capacity
  /\ data' = Append(data, <<p, sent[p] + 1>>)
  /\ accepted' = Append(accepted, <<p, sent[p] + 1>>)
  /\ sent' = [sent EXCEPT ![p] = @ + 1]
  /\ ReturnNotifyOne(p, Consumers)
  /\ UNCHANGED <<done, closing, delivered>>

PushAccept(p) ==
  /\ CanPush(p)
  /\ ~done
  /\ Len(data) < Capacity
  /\ data' = Append(data, <<p, sent[p] + 1>>)
  /\ accepted' = Append(accepted, <<p, sent[p] + 1>>)
  /\ sent' = [sent EXCEPT ![p] = @ + 1]
  /\ ReturnNotifyOne(p, Consumers)
  /\ UNCHANGED <<done, closing, delivered>>

PushDrop(p) ==
  /\ CanPush(p)
  /\ done
  /\ sent' = [sent EXCEPT ![p] = @ + 1]
  /\ status' = [status EXCEPT ![p] = "running"]
  /\ UNCHANGED <<data, done, closing, accepted, delivered>>

PushWait(p) ==
  /\ CanPush(p)
  /\ ~done
  /\ Len(data) >= Capacity
  /\ status' = [status EXCEPT ![p] = "blocked"]
  /\ UNCHANGED <<data, done, sent, closing, accepted, delivered>>

Push(p) == PushAccept(p) \/ PushDrop(p) \/ PushWait(p)

-----------------------------------------------------------------------------
(* pop(v) *)

(* Fault: pop takes the newest item. *)
PopTakeBack(c) ==
  /\ c \in Consumers /\ Awake(c)
  /\ data # <<>>
  /\ data' = SubSeq(data, 1, Len(data) - 1)
  /\ delivered' = Append(delivered, data[Len(data)])
  /\ ReturnNotifyOne(c, Producers)
  /\ UNCHANGED <<done, sent, closing, accepted>>

(* Fault: pop forgets cvNotFull_. *)
PopTakeSilent(c) ==
  /\ c \in Consumers /\ Awake(c)
  /\ data # <<>>
  /\ data' = Tail(data)
  /\ delivered' = Append(delivered, Head(data))
  /\ ReturnNotifyOne(c, {})
  /\ UNCHANGED <<done, sent, closing, accepted>>

PopTake(c) ==
  /\ c \in Consumers /\ Awake(c)
  /\ data # <<>>
  /\ data' = Tail(data)
  /\ delivered' = Append(delivered, Head(data))
  /\ ReturnNotifyOne(c, Producers)
  /\ UNCHANGED <<done, sent, closing, accepted>>

PopEnd(c) ==
  /\ c \in Consumers /\ Awake(c)
  /\ data = <<>>
  /\ done
  /\ status' = [status EXCEPT ![c] = "finished"]
  /\ UNCHANGED <<data, done, sent, closing, accepted, delivered>>

(* Fault: the wait predicate of pop omits done_. *)
PopWaitForItem(c) ==
  /\ c \in Consumers /\ Awake(c)
  /\ data = <<>>
  /\ status' = [status EXCEPT ![c] = "blocked"]
  /\ UNCHANGED <<data, done, sent, closing, accepted, delivered>>

PopWait(c) ==
  /\ c \in Consumers /\ Awake(c)
  /\ data = <<>>
  /\ ~done
  /\ status' = [status EXCEPT ![c] = "blocked"]
  /\ UNCHANGED <<data, done, sent, closing, accepted, delivered>>

Pop(c) == PopTake(c) \/ PopEnd(c) \/ PopWait(c)

-----------------------------------------------------------------------------
(* markDone(): sets the flag under the mutex, then notifies both condition *)
(* variables without it.                                                   *)

SetDone ==
  /\ closing = "open"
  /\ done' = TRUE
  /\ closing' = "doneSet"
  /\ UNCHANGED <<data, status, sent, accepted, delivered>>

(* Fault: markDone calls notify_one. *)
NotifyOneEmpty ==
  /\ closing = "doneSet"
  /\ IF Blocked(Consumers) = {}
     THEN UNCHANGED status
     ELSE \E s \in Blocked(Consumers) : status' = [status EXCEPT ![s] = "notified"]
  /\ closing' = "emptyNotified"
  /\ UNCHANGED <<data, done, sent, accepted, delivered>>

NotifyAllEmpty ==
  /\ closing = "doneSet"
  /\ NotifyAll(Consumers)
  /\ closing' = "emptyNotified"
  /\ UNCHANGED <<data, done, sent, accepted, delivered>>

NotifyAllFull ==
  /\ closing = "emptyNotified"
  /\ NotifyAll(Producers)
  /\ closing' = "closed"
  /\ UNCHANGED <<data, done, sent, accepted, delivered>>

FinishMarkDone == NotifyAllEmpty \/ NotifyAllFull

(* wait() may return without a notification; the predicate is re-evaluated. *)
SpuriousWakeup(t) ==
  /\ status[t] = "blocked"
  /\ status' = [status EXCEPT ![t] = "notified"]
  /\ UNCHANGED <<data, done, sent, closing, accepted, delivered>>

Next ==
  \/ \E p \in Producers : Push(p)
  \/ \E c \in Consumers : Pop(c)
  \/ SetDone
  \/ FinishMarkDone
  \/ \E t \in Threads : SpuriousWakeup(t)

(* The scheduler runs every thread that can run; markDone, once called,    *)
(* finishes.  Nothing obliges anyone to call markDone, and a spurious      *)
(* wakeup is never relied on.                                              *)
Fairness ==
  /\ \A p \in Producers : WF_vars(Push(p))
  /\ \A c \in Consumers : WF_vars(Pop(c))
  /\ WF_vars(FinishMarkDone)

Spec == Init /\ [][Next]_vars /\ Fairness

-----------------------------------------------------------------------------
(* The buffer never outgrows its capacity, whoever a wakeup is stolen by   *)
(* (the wait predicate of push is evaluated again after every wakeup).     *)
WithinCapacity == Len(data) <= Capacity

(* Types of the variables; data_ is a queue of at most capacity_ items.     *)
TypeOK ==
  /\ data \in Seq(Items)
  /\ WithinCapacity
  /\ done \in BOOLEAN
  /\ status \in [Threads -> Status]
  /\ sent \in [Producers -> 0..PerProducer]
  /\ closing \in Closing
  /\ accepted \in Seq(Items)
  /\ delivered \in Seq(Items)

(* Every accepted item is delivered exactly once, in the order of          *)
(* acceptance, or still queued: nothing is lost, duplicated or reordered   *)
(* between push_back and pop_front.                                        *)
FifoExactlyOnce == accepted = delivered \o data

(* No lost wakeup.  While a consumer sleeps, each queued item has a        *)
(* notified consumer on its way; while a producer sleeps on an open queue, *)
(* each free slot has a notified producer on its way.  notify_one per call *)
(* is enough although wakeups may be stolen by threads that never slept.   *)
NoLostWakeup ==
  /\ Blocked(Consumers) # {} => Len(data) <= Cardinality(Notified(Consumers))
  /\ Blocked(Producers) # {} /\ ~done
       => Capacity - Len(data) <= Cardinality(Notified(Producers))

(* Once markDone has returned nobody sleeps in the queue any more, and     *)
(* nobody ever will: its notifications are sent without the mutex, after   *)
(* the flag is visible.                                                    *)
NobodySleepsWhenClosed ==
  /\ closing = "closed" => Blocked(Threads) = {}
  /\ closing = "emptyNotified" => Blocked(Consumers) = {}

(* Every push call returns: a producer cannot sleep for ever while the     *)
(* consumers keep popping.                                                 *)
EveryPushReturns == <>(\A p \in Producers : sent[p] = PerProducer)

(* Once the queue is closed every consumer's loop ends: this is what lets  *)
(* the callers join their workers.                                         *)
EveryConsumerReturns ==
  done ~> (\A c \in Consumers : status[c] = "finished")

(* The detailed queue implements the bounded FIFO buffer the pipelines use. *)
Abstract == INSTANCE BoundedQueue
RefinesBoundedQueue == Abstract!Spec
=============================================================================
