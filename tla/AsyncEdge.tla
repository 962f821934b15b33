------------------------------ MODULE AsyncEdge ------------------------------
(***************************************************************************)
(* One edge of an asynchronous pipeline and the two threads it connects.   *)
(* The upstream node's thread calls pull_data() after each of its steps,   *)
(* the downstream node's thread calls push_data() before each of its own   *)
(* (async_pipeline_edge.h).  Each call holds the edge's mutex, waits on a  *)
(* condition variable while it cannot go on, and notifies the other        *)
(* thread's condition variable after it has released the mutex; a wait is  *)
(* also where an interrupted thread leaves the call, and its loop.         *)
(***************************************************************************)
EXTENDS EdgeQueues

CONSTANTS Data,      (* output values of the upstream process *)
          NoData     (* no value *)

ASSUME NoDataAssumption == NoData \notin Data

VARIABLES
  edge,                (* the record of EdgeQueues *)
  producer,            (* where the upstream node's thread is *)
  consumer,            (* where the downstream node's thread is *)
  last_execute_state,  (* of the upstream node *)
  output,              (* what get_output_() returns *)
  given                (* the last status push_data() returned, and the value
                          it moved to the sink *)

vars == << edge, producer, consumer, last_execute_state, output, given >>

(***************************************************************************)
(* A thread is outside the edge ("running"), before the mutex ("locking"), *)
(* blocked in a wait ("waiting"), out of that wait and before the mutex    *)
(* again ("woken"), past the mutex with the other side still to be         *)
(* notified ("notifying"), or it has ended.                                *)
(***************************************************************************)
ThreadState ==
  {"running", "locking", "waiting", "woken", "notifying", "ended"}

Init ==
  /\ edge = EmptyEdge
  /\ producer = "running"
  /\ consumer = "running"
  /\ last_execute_state = "SUCCESS"
  /\ output = NoData
  /\ given = [st |-> "SKIP", val |-> NoData]

-----------------------------------------------------------------------------
(* The upstream thread.                                                    *)

(* A step of the upstream process ends. *)
ProducerExecutes ==
  /\ producer = "running"
  /\ last_execute_state' \in EdgeStatus
  /\ IF last_execute_state' = "SUCCESS" THEN output' \in Data
                                        ELSE UNCHANGED output
  /\ producer' = "locking"
  /\ UNCHANGED << edge, consumer, given >>

(* The loop around cond_queue_not_full.wait(), and what follows it. *)
StoreOrWait(e) ==
  IF Full(e)
  THEN producer' = "waiting" /\ edge' = e
  ELSE producer' = "notifying" /\ edge' = Stored(e, last_execute_state, output)

PullData ==
  /\ producer = "locking"
  /\ StoreOrWait(Flushed(edge, last_execute_state))
  /\ UNCHANGED << consumer, last_execute_state, output, given >>

PullDataResumes ==
  /\ producer = "woken"
  /\ StoreOrWait(edge)
  /\ UNCHANGED << consumer, last_execute_state, output, given >>

(* cond_data_available.notify_one(), and back to the loop of the node, *)
(* which ends after a FAILURE. *)
ProducerNotifies ==
  /\ producer = "notifying"
  /\ producer' = IF last_execute_state = "FAILURE" THEN "ended" ELSE "running"
  /\ consumer' = IF consumer = "waiting" THEN "woken" ELSE consumer
  /\ UNCHANGED << edge, last_execute_state, output, given >>

-----------------------------------------------------------------------------
(* The downstream thread.                                                  *)

ConsumerCalls ==
  /\ consumer = "running"
  /\ consumer' = "locking"
  /\ UNCHANGED << edge, producer, last_execute_state, output, given >>

(* A node whose required input failed ends; one whose optional input did   *)
(* goes on asking.                                                         *)
ConsumerEnds ==
  /\ consumer = "running"
  /\ given.st = "FAILURE"
  /\ consumer' = "ended"
  /\ UNCHANGED << edge, producer, last_execute_state, output, given >>

(* A mutant of PushData: the consumer returns without notifying. *)
PushDataQuietly ==
  /\ consumer \in {"locking", "woken"}
  /\ IF Ready(edge)
     THEN /\ given' = [st  |-> Delivered(edge),
                       val |-> IF SetsInput(edge) THEN Head(edge.data)
                                                  ELSE NoData]
          /\ edge' = Taken(edge)
          /\ consumer' = "running"
     ELSE /\ consumer' = "waiting"
          /\ UNCHANGED << edge, given >>
  /\ UNCHANGED << producer, last_execute_state, output >>

PushData ==
  /\ consumer \in {"locking", "woken"}
  /\ IF Ready(edge)
     THEN /\ given' = [st  |-> Delivered(edge),
                       val |-> IF SetsInput(edge) THEN Head(edge.data)
                                                  ELSE NoData]
          /\ edge' = Taken(edge)
          /\ consumer' = IF edge.no_more_input THEN "running" ELSE "notifying"
     ELSE /\ consumer' = "waiting"
          /\ UNCHANGED << edge, given >>
  /\ UNCHANGED << producer, last_execute_state, output >>

(* cond_queue_not_full.notify_one() *)
ConsumerNotifies ==
  /\ consumer = "notifying"
  /\ consumer' = "running"
  /\ producer' = IF producer = "waiting" THEN "woken" ELSE producer
  /\ UNCHANGED << edge, last_execute_state, output, given >>

-----------------------------------------------------------------------------
(* Conditions that may end a wait at any time, and the restart.            *)

(* A condition variable may wake its waiter for no reason. *)
SpuriousWakeup ==
  /\ \/ /\ producer = "waiting"
        /\ producer' = "woken"
        /\ UNCHANGED consumer
     \/ /\ consumer = "waiting"
        /\ consumer' = "woken"
        /\ UNCHANGED producer
  /\ UNCHANGED << edge, last_execute_state, output, given >>

(* thread::interrupt() takes effect in a wait: thread_interrupted is thrown *)
(* out of the call and caught where the thread ends. *)
Interrupted ==
  /\ \/ /\ producer \in {"waiting", "woken"}
        /\ producer' = "ended"
        /\ UNCHANGED consumer
     \/ /\ consumer \in {"waiting", "woken"}
        /\ consumer' = "ended"
        /\ UNCHANGED producer
  /\ UNCHANGED << edge, last_execute_state, output, given >>

(* Both nodes are reset, the edge with them, and started again. *)
Restart ==
  /\ producer = "ended"
  /\ consumer = "ended"
  /\ edge' = WasReset(edge)
  /\ last_execute_state' = "SUCCESS"
  /\ producer' = "running"
  /\ consumer' = "running"
  /\ UNCHANGED << output, given >>

-----------------------------------------------------------------------------
ProducerInCall == PullData \/ PullDataResumes \/ ProducerNotifies

ConsumerInCall == PushData \/ ConsumerNotifies

Next ==
  \/ ProducerExecutes
  \/ ProducerInCall
  \/ ConsumerCalls
  \/ ConsumerEnds
  \/ ConsumerInCall
  \/ SpuriousWakeup
  \/ Interrupted
  \/ Restart

Spec == Init /\ [][Next]_vars

(***************************************************************************)
(* A thread that can go on inside a call does: the operating system runs   *)
(* every runnable thread.  Nothing is assumed of how long a process takes  *)
(* between two calls, nor of whether it makes the next one.                *)
(***************************************************************************)
FairSpec ==
  /\ Spec
  /\ WF_vars(ProducerInCall)
  /\ WF_vars(ConsumerInCall)

-----------------------------------------------------------------------------
(* Properties.                                                             *)

EdgeType ==
  [status        : Seq(EdgeStatus),
   data          : Seq(Data),
   no_more_input : BOOLEAN,
   last_size     : Nat]

(* Every variable of the edge and of its two threads has its type; the     *)
(* value about to be stored for a SUCCESS is a value.                      *)
TypeOK ==
  /\ edge \in EdgeType
  /\ producer \in ThreadState
  /\ consumer \in ThreadState
  /\ last_execute_state \in EdgeStatus
  /\ output \in Data \cup {NoData}
  /\ given \in [st : EdgeStatus, val : Data \cup {NoData}]
  /\ producer \in {"locking", "waiting", "woken"} /\ last_execute_state = "SUCCESS"
        => output \in Data

(* The two queues of push_data() are popped in step: there is exactly one  *)
(* value for each SUCCESS in the status queue, through every flush, wait,  *)
(* interruption and restart (data_queue_.back() on an empty list is        *)
(* undefined behaviour, async_pipeline_edge.h:148).                        *)
DataMatchesStatus ==
  Len(edge.data) = Cardinality(SuccessesUpTo(edge.status, Len(edge.status)))

(* A bounded edge never holds more than one entry above its capacity, also *)
(* when the producer is woken for no reason.                               *)
BoundedInTransit == Capacity # 0 => Len(edge.status) <= Capacity + 1

(* No wakeup is lost although notify_one() is called after the mutex is    *)
(* released: a thread that waits for a condition that now holds is about   *)
(* to be notified by the other.                                            *)
NoLostWakeup ==
  /\ consumer = "waiting" /\ Ready(edge) => producer = "notifying"
  /\ producer = "waiting" /\ ~Full(edge) => consumer = "notifying"

(* The edge answers FAILURE by itself only when its queues are drained and *)
(* FAILURE was the last status it delivered: nothing sent is hidden behind *)
(* no_more_input.                                                          *)
ClosedWhenDrained ==
  edge.no_more_input => edge.status = << >> /\ edge.data = << >>
                        /\ given.st = "FAILURE"

(* edge_queue_length(), which the queue monitor reads without the mutex,   *)
(* is the length of the queue, although a flush shortens the queue without *)
(* updating it and may be followed by a wait: an edge that is full after a *)
(* flush had nothing to drop.                                              *)
SizeIsCurrent == edge.last_size = Len(edge.status)

(* A waiting thread whose condition holds gets out of its wait.            *)
WaitsEnd ==
  /\ (consumer = "waiting" /\ Ready(edge)) ~> (consumer # "waiting")
  /\ (producer = "waiting" /\ ~Full(edge)) ~> (producer # "waiting")

(***************************************************************************)
(* The edge implements a single queue of messages: the n-th SUCCESS in the *)
(* status queue goes with the n-th value in the data queue.                *)
(***************************************************************************)
MessageAt(e, i) ==
  [st  |-> e.status[i],
   val |-> IF e.status[i] = "SUCCESS"
           THEN e.data[Cardinality(SuccessesUpTo(e.status, i))]
           ELSE NoData]

Messages(e) == [i \in 1 .. Len(e.status) |-> MessageAt(e, i)]

Channel ==
  INSTANCE StatusChannel WITH
    Bound    <- IF Capacity = 0 THEN 0 ELSE Capacity + 1,
    Statuses <- EdgeStatus,
    Values   <- Data,
    NoValue  <- NoData,
    queue    <- Messages(edge),
    closed   <- edge.no_more_input,
    received <- given

(* What the downstream node is given is what the channel of StatusChannel  *)
(* gives: in order, without loss or duplication but for the values a flush *)
(* drops, each status with its own value.                                  *)
ImplementsChannel == Channel!Spec
=============================================================================
