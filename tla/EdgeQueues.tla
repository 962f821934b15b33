----------------------------- MODULE EdgeQueues -----------------------------
(***************************************************************************)
(* The data of async_pipeline_edge_impl (async_pipeline_edge.h): a queue   *)
(* of step statuses, one entry per step of the upstream node, and a queue  *)
(* of output values, one entry per SUCCESS in the first queue.  The code   *)
(* pushes at the front and pops at the back of a list; here the oldest     *)
(* entry is the head of a sequence.                                        *)
(*                                                                         *)
(* The operators are what pull_data() and push_data() do to an edge while  *)
(* they hold its mutex.  The modules that say which thread runs them, and  *)
(* where a thread waits, extend this one.                                  *)
(***************************************************************************)
EXTENDS Subsequences, ProcessSteps

CONSTANT Capacity     (* max_queue_size; zero stands for "no limit" *)

ASSUME CapacityAssumption == Capacity \in Nat

(* NO_OUTPUT never travels: a node that returns it leaves its outgoing     *)
(* edges alone.                                                            *)
EdgeStatus == StepStatus \ {"NO_OUTPUT"}

EmptyEdge ==
  [status        |-> << >>,    \* status_queue_
   data          |-> << >>,    \* data_queue_
   no_more_input |-> FALSE,
   last_size     |-> 0]

-----------------------------------------------------------------------------
(* pull_data(): the producer's half.                                       *)

Survivors(q) == {i \in 1 .. Len(q) : q[i] # "SUCCESS"}

(* Every status but SUCCESS outlives a flush, in its place. *)
flush_status_queue(q) == Subsequence(q, Survivors(q))

(* Mutants of Flushed: nothing outlives a flush; the values in transit do. *)
FlushedEntirely(e, st) ==
  IF st = "FLUSH" THEN [e EXCEPT !.status = << >>, !.data = << >>] ELSE e

FlushedKeepingData(e, st) ==
  IF st = "FLUSH" THEN [e EXCEPT !.status = flush_status_queue(@)] ELSE e

(* A producer about to announce FLUSH first drops the data in transit.     *)
Flushed(e, st) ==
  IF st = "FLUSH"
  THEN [e EXCEPT !.status = flush_status_queue(@), !.data = << >>]
  ELSE e

(* The producer waits while this holds: the comparison is a strict one, so *)
(* that an edge of capacity c takes c + 1 entries.                         *)
FullAt(e, c) == c # 0 /\ Len(e.status) > c

Full(e) == FullAt(e, Capacity)

Stored(e, st, v) ==
  [status        |-> Append(e.status, st),
   data          |-> IF st = "SUCCESS" THEN Append(e.data, v) ELSE e.data,
   no_more_input |-> FALSE,
   last_size     |-> Len(e.status) + 1]

-----------------------------------------------------------------------------
(* push_data(): the consumer's half.                                       *)

(* The call returns without waiting. *)
Ready(e) == e.no_more_input \/ e.status # << >>

(* The status the call returns. *)
Delivered(e) == IF e.no_more_input THEN "FAILURE" ELSE Head(e.status)

(* It moves a value to the sink's input port. *)
SetsInput(e) == ~e.no_more_input /\ Head(e.status) = "SUCCESS"

(* A mutant of Popped: the size is taken before the entry is removed. *)
PoppedAfterCounting(e) ==
  [status        |-> Tail(e.status),
   data          |-> IF Head(e.status) = "SUCCESS" THEN Tail(e.data)
                                                   ELSE e.data,
   no_more_input |-> Head(e.status) = "FAILURE" /\ Tail(e.status) = << >>,
   last_size     |-> Len(e.status)]

Popped(e) ==
  [status        |-> Tail(e.status),
   data          |-> IF Head(e.status) = "SUCCESS" THEN Tail(e.data)
                                                   ELSE e.data,
   no_more_input |-> Head(e.status) = "FAILURE" /\ Tail(e.status) = << >>,
   last_size     |-> Len(e.status) - 1]

(* A producer that failed with nothing left behind it is not waited for    *)
(* again: the edge keeps answering FAILURE and its queues stay as they are.*)
Taken(e) == IF e.no_more_input THEN e ELSE Popped(e)

-----------------------------------------------------------------------------
(* reset(): the queues are reported when they are not empty, and kept.     *)

WasReset(e) == [e EXCEPT !.no_more_input = FALSE]

-----------------------------------------------------------------------------
(* What the two queues have to do with each other.                         *)

SuccessesUpTo(q, i) == {j \in 1 .. i : q[j] = "SUCCESS"}
=============================================================================
