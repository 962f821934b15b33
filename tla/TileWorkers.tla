---------------------------- MODULE TileWorkers ------------------------------
(***************************************************************************)
(* threaded_detector (threaded_detector.h; threaded_image_transform.h has  *)
(* the same code): apply_function() cuts an image into tiles, deals them   *)
(* out to one queue per thread, does the tiles of queue 0 itself and waits *)
(* for the other threads.                                                  *)
(*                                                                         *)
(* Caller and worker talk through a status per thread that both write      *)
(* without the thread's mutex, and one condition variable per thread that  *)
(* serves both directions; the mutex is held only from the test of the     *)
(* status to the wait.  Notifications can be lost, and every wait gives up *)
(* after a second and tests again.  The writes reach the other thread in   *)
(* the order they were made.                                               *)
(***************************************************************************)
EXTENDS Integers, FiniteSets

CONSTANTS
  ThreadCount,   (* thread_count_, the caller's thread included *)
  TaskCounts,    (* how many tiles an image may be cut into *)
  MaxCalls       (* a bound on the calls of apply_function() *)

ASSUME TileAssumption ==
  /\ ThreadCount \in Nat \ {0}
  /\ TaskCounts \subseteq Nat
  /\ MaxCalls \in Nat

VARIABLES
  caller,        (* where apply_function() is, and for which thread *)
  thread,        (* where each thread is in worker_thread() *)
  status,        (* thread_status_ *)
  queue,         (* thread_worker_queues_ *)
  mutex,         (* thread_muti_: who holds it *)
  tasks,         (* the tiles of the last call *)
  done,          (* those that were handled *)
  calls,         (* the calls made *)
  destroyed      (* the destructor was called *)

vars ==
  << caller, thread, status, queue, mutex, tasks, done, calls, destroyed >>

Ids == 0 .. ThreadCount - 1

Workers == Ids \ {0}

Status == {"WAITING", "TASKED", "RUNNING", "FINISHED"}

(* Tile t goes to queue t % thread_count_; a queue is taken in the order of *)
(* its tiles, which is that of their numbers. *)
Share(n, id) == {t \in 0 .. n - 1 : t % ThreadCount = id}

Front(q) == CHOOSE t \in q : \A u \in q : t <= u

(* The caller is outside ("idle"), starts the threads ("starting",         *)
(* "notifying"), is thread 0 ("working"), or waits for the others.         *)
CallerState ==
  [pc : {"idle", "starting", "notifying", "working", "locking", "deciding",
         "waiting"},
   id : Ids]

ThreadState ==
  {"none", "locking", "deciding", "waiting", "tasked", "executing",
   "finished", "ended"}

Init ==
  /\ caller = [pc |-> "idle", id |-> 0]
  /\ thread = [id \in Ids |-> IF id = 0 THEN "none" ELSE "locking"]
  /\ status \in [Ids -> Status]
  /\ \A id \in Workers : status[id] = "WAITING"
  /\ queue = [id \in Ids |-> {}]
  /\ mutex = [id \in Ids |-> "free"]
  /\ tasks = {} /\ done = {}
  /\ calls = 0
  /\ destroyed = FALSE

-----------------------------------------------------------------------------
(* worker_thread(): the threads 1 and up for ever, and the caller as       *)
(* thread 0 once.                                                          *)

CheckStatus(id) ==
  /\ thread[id] = "locking" /\ mutex[id] = "free"
  /\ IF status[id] = "TASKED"
     THEN thread' = [thread EXCEPT ![id] = "tasked"] /\ UNCHANGED mutex
     ELSE /\ thread' = [thread EXCEPT ![id] = "deciding"]
          /\ mutex' = [mutex EXCEPT ![id] = "worker"]
  /\ UNCHANGED << caller, status, queue, tasks, done, calls, destroyed >>

(* An interrupted thread leaves worker_thread() at either end of a wait. *)
Uninterruptible(next) == next    \* a mutant of Interruptible

Interruptible(next) == IF destroyed THEN "ended" ELSE next

BeginWait(id) ==
  /\ thread[id] = "deciding"
  /\ thread' = [thread EXCEPT ![id] = Interruptible("waiting")]
  /\ mutex' = [mutex EXCEPT ![id] = "free"]
  /\ UNCHANGED << caller, status, queue, tasks, done, calls, destroyed >>

(* The second is over, or the thread was interrupted. *)
WaitEnds(id) ==
  /\ thread[id] = "waiting"
  /\ thread' = [thread EXCEPT ![id] = Interruptible("locking")]
  /\ UNCHANGED << caller, status, queue, mutex, tasks, done, calls, destroyed >>

BeginTasks(id) ==
  /\ thread[id] = "tasked"
  /\ status' = [status EXCEPT ![id] = "RUNNING"]
  /\ thread' = [thread EXCEPT ![id] = "executing"]
  /\ UNCHANGED << caller, queue, mutex, tasks, done, calls, destroyed >>

(* A mutant of ExecuteTask: the tile stays in its queue. *)
ExecuteFrontTask(id) ==
  /\ thread[id] = "executing" /\ queue[id] # {}
  /\ done' = done \cup {Front(queue[id])}
  /\ UNCHANGED << caller, thread, status, queue, mutex, tasks, calls, destroyed >>

ExecuteTask(id) ==
  /\ thread[id] = "executing" /\ queue[id] # {}
  /\ queue' = [queue EXCEPT ![id] = @ \ {Front(@)}]
  /\ done' = done \cup {Front(queue[id])}
  /\ UNCHANGED << caller, thread, status, mutex, tasks, calls, destroyed >>

FinishTasks(id) ==
  /\ thread[id] = "executing" /\ queue[id] = {}
  /\ status' = [status EXCEPT ![id] = "FINISHED"]
  /\ thread' = [thread EXCEPT ![id] = "finished"]
  /\ UNCHANGED << caller, queue, mutex, tasks, done, calls, destroyed >>

(* notify_one() on the condition variable of thread id wakes the thread or *)
(* the caller, whichever waits; if none does, it is lost. *)
WakesWorker(id) == thread[id] = "waiting"

WakesCaller(id) == caller.pc = "waiting" /\ caller.id = id

(* The loops over the threads, in apply_function(). *)
StartNext(id) ==
  IF id + 1 < ThreadCount THEN [pc |-> "starting", id |-> id + 1]
                          ELSE [pc |-> "working", id |-> 0]

WaitForNext(id) ==
  IF id + 1 < ThreadCount THEN [pc |-> "locking", id |-> id + 1]
                          ELSE [pc |-> "idle", id |-> 0]

NotifyFinished(id) ==
  /\ thread[id] = "finished"
  /\ IF id = 0
     THEN thread' = [thread EXCEPT ![0] = "none"] /\ caller' = WaitForNext(0)
     ELSE /\ thread' = [thread EXCEPT ![id] = "locking"]
          /\ caller' = IF WakesCaller(id) THEN [caller EXCEPT !.pc = "locking"]
                                          ELSE caller
  /\ UNCHANGED << status, queue, mutex, tasks, done, calls, destroyed >>

ThreadStep(id) ==
  \/ CheckStatus(id)
  \/ BeginWait(id)
  \/ WaitEnds(id)
  \/ BeginTasks(id)
  \/ ExecuteTask(id)
  \/ FinishTasks(id)
  \/ NotifyFinished(id)

-----------------------------------------------------------------------------
(* apply_function() and the destructor.                                    *)

ApplyFunction ==
  /\ caller.pc = "idle" /\ ~destroyed /\ calls < MaxCalls
  /\ \E n \in TaskCounts :
       /\ tasks' = 0 .. n - 1
       /\ queue' = [id \in Ids |-> queue[id] \cup Share(n, id)]
  /\ done' = {}
  /\ calls' = calls + 1
  /\ caller' = [pc |-> "starting", id |-> 0]
  /\ UNCHANGED << thread, status, mutex, destroyed >>

(* Once the threads are started, the caller becomes thread 0. *)
Continue(next) ==
  /\ caller' = next
  /\ thread' = IF next.pc = "working" THEN [thread EXCEPT ![0] = "locking"]
                                      ELSE thread

StartThread ==
  /\ caller.pc = "starting"
  /\ LET id == caller.id
     IN  IF queue[id] # {}
         THEN /\ status' = [status EXCEPT ![id] = "TASKED"]
              /\ caller' = [caller EXCEPT !.pc = "notifying"]
              /\ UNCHANGED thread
         ELSE /\ status' = [status EXCEPT ![id] = "FINISHED"]
              /\ Continue(StartNext(id))
  /\ UNCHANGED << queue, mutex, tasks, done, calls, destroyed >>

NotifyThread ==
  /\ caller.pc = "notifying"
  /\ LET id    == caller.id
         next  == StartNext(id)
         woken == IF WakesWorker(id) THEN [thread EXCEPT ![id] = "locking"]
                                     ELSE thread
     IN  /\ caller' = next
         /\ thread' = IF next.pc = "working" THEN [woken EXCEPT ![0] = "locking"]
                                             ELSE woken
  /\ UNCHANGED << status, queue, mutex, tasks, done, calls, destroyed >>

(* A mutant of CheckFinished: a thread that is not tasked is taken for one *)
(* that has finished. *)
CheckNotTasked ==
  /\ caller.pc = "locking" /\ mutex[caller.id] = "free"
  /\ IF status[caller.id] # "TASKED"
     THEN /\ status' = [status EXCEPT ![caller.id] = "WAITING"]
          /\ caller' = WaitForNext(caller.id)
          /\ UNCHANGED mutex
     ELSE /\ mutex' = [mutex EXCEPT ![caller.id] = "caller"]
          /\ caller' = [caller EXCEPT !.pc = "deciding"]
          /\ UNCHANGED status
  /\ UNCHANGED << thread, queue, tasks, done, calls, destroyed >>

CheckFinished ==
  /\ caller.pc = "locking" /\ mutex[caller.id] = "free"
  /\ IF status[caller.id] = "FINISHED"
     THEN /\ status' = [status EXCEPT ![caller.id] = "WAITING"]
          /\ caller' = WaitForNext(caller.id)
          /\ UNCHANGED mutex
     ELSE /\ mutex' = [mutex EXCEPT ![caller.id] = "caller"]
          /\ caller' = [caller EXCEPT !.pc = "deciding"]
          /\ UNCHANGED status
  /\ UNCHANGED << thread, queue, tasks, done, calls, destroyed >>

CallerBeginsWait ==
  /\ caller.pc = "deciding"
  /\ caller' = [caller EXCEPT !.pc = "waiting"]
  /\ mutex' = [mutex EXCEPT ![caller.id] = "free"]
  /\ UNCHANGED << thread, status, queue, tasks, done, calls, destroyed >>

(* A mutant of CallerWaitEnds: the wait has no time limit. *)
CallerWaitsForever == FALSE /\ UNCHANGED vars

CallerWaitEnds ==
  /\ caller.pc = "waiting"
  /\ caller' = [caller EXCEPT !.pc = "locking"]
  /\ UNCHANGED << thread, status, queue, mutex, tasks, done, calls, destroyed >>

(* The destructor interrupts the threads, and then joins them. *)
Destroy ==
  /\ caller.pc = "idle" /\ ~destroyed
  /\ destroyed' = TRUE
  /\ UNCHANGED << caller, thread, status, queue, mutex, tasks, done, calls >>

CallerStep ==
  \/ StartThread
  \/ NotifyThread
  \/ CheckFinished
  \/ CallerBeginsWait
  \/ CallerWaitEnds

Next ==
  \/ \E id \in Ids : ThreadStep(id)
  \/ CallerStep
  \/ ApplyFunction
  \/ Destroy

Spec == Init /\ [][Next]_vars

(***************************************************************************)
(* Every runnable thread is run, a timed wait ends, and the function that  *)
(* is called on a tile returns.  Who asks for a mutex again and again gets *)
(* it: the other side holds it for an instant between two waits of a       *)
(* second.                                                                 *)
(***************************************************************************)
FairSpec ==
  /\ Spec
  /\ \A id \in Ids : WF_vars(ThreadStep(id)) /\ SF_vars(CheckStatus(id))
  /\ WF_vars(CallerStep) /\ SF_vars(CheckFinished)

-----------------------------------------------------------------------------
(* Properties.                                                             *)

(* Every variable has its type; a mutex is held only on the way to a wait. *)
TypeOK ==
  /\ caller \in CallerState
  /\ thread \in [Ids -> ThreadState]
  /\ status \in [Ids -> Status]
  /\ queue \in [Ids -> SUBSET Nat]
  /\ mutex \in [Ids -> {"free", "worker", "caller"}]
  /\ tasks \in SUBSET Nat /\ done \in SUBSET Nat
  /\ calls \in 0 .. MaxCalls
  /\ destroyed \in BOOLEAN
  /\ \A id \in Ids : (mutex[id] = "worker" <=> thread[id] = "deciding")
                     /\ (mutex[id] = "caller" <=> caller = [pc |-> "deciding", id |-> id])

(* No tile is lost and none is handled twice: each is in one queue, or was *)
(* taken out and handled.                                                  *)
TilesAccountedFor ==
  /\ done \cup UNION {queue[id] : id \in Ids} = tasks
  /\ \A id \in Ids : queue[id] \cap done = {}
  /\ \A id, other \in Ids : id # other => queue[id] \cap queue[other] = {}

(* apply_function() returns when every tile has been handled, although it  *)
(* learns that a thread has finished from a status that both sides write   *)
(* without a lock.                                                         *)
ReturnsWhenDone == caller.pc = "idle" => done = tasks

(* The queues have no lock of their own: when the caller looks at one or   *)
(* pushes to it, its thread is not at its tiles.                           *)
QueueHasOneUser ==
  \A id \in Workers :
    caller.pc = "idle" \/ (caller.pc = "starting" /\ caller.id <= id)
      => thread[id] \notin {"tasked", "executing"}

(* apply_function() returns, although notifications can be lost.           *)
ApplyReturns == (caller.pc # "idle") ~> (caller.pc = "idle")

(* The destructor can join every thread.                                   *)
ShutdownCompletes == destroyed ~> \A id \in Workers : thread[id] = "ended"
=============================================================================
