---------------------------- MODULE BoundedQueue ----------------------------
(***************************************************************************)
(* What ast::BlockingQueue<T> (include/ast-workspace.h) promises its       *)
(* users: a bounded FIFO buffer that can be closed.  Blocking is a guard   *)
(* that is false; the threads, the mutex and the condition variables that  *)
(* implement it are in BlockingQueue, which is shown to refine this        *)
(* module.  The thread pipelines (CacheWarm) use the operations below.     *)
(***************************************************************************)
EXTENDS Naturals, Sequences

CONSTANTS
  Items,      \* what the queue can hold
  Capacity    \* capacity_, fixed by the constructor

VARIABLES
  data,       \* data_ : the deque, front first
  done        \* done_ : set once by markDone, never reset

queueVars == <<data, done>>

Init == data = <<>> /\ done = FALSE

(* push returns with the item queued ... *)
Accept(v) ==
  /\ ~done
  /\ Len(data) < Capacity
  /\ data' = Append(data, v)
  /\ UNCHANGED done

(* ... or, once the queue is closed, with the item silently dropped. *)
Refuse ==
  /\ done
  /\ UNCHANGED queueVars

(* pop returns true with the front item ... *)
Take(v) ==
  /\ data # <<>>
  /\ v = Head(data)
  /\ data' = Tail(data)
  /\ UNCHANGED done

(* ... or false: closed and drained. *)
Drained ==
  /\ done
  /\ data = <<>>
  /\ UNCHANGED queueVars

MarkDone ==
  /\ done' = TRUE
  /\ UNCHANGED data

Next ==
  \/ \E v \in Items : Accept(v) \/ Take(v)
  \/ MarkDone

Spec == Init /\ [][Next]_queueVars
=============================================================================
