--------------------------- MODULE TrainingThread -----------------------------
(***************************************************************************)
(* training_thread (training_thread.cxx): one caller hands training tasks  *)
(* to a thread, may wait for it, may abandon it for a new one, and destroys *)
(* the object.                                                             *)
(*                                                                         *)
(* The sections under a thread's mutex are atomic.  forced_reset() tests    *)
(* the status before it locks, and the last status of a thread is written   *)
(* without the lock: these are steps of their own.  Every wait gives up     *)
(* after a second and tests again, so that a wait is a guard and a          *)
(* notification only shortens it.                                          *)
(***************************************************************************)
EXTENDS Integers, Sequences

CONSTANTS
  MaxTasks,      (* a bound on the calls of execute_if_able() *)
  MaxResets      (* a bound on the threads launched by forced_reset() *)

ASSUME TrainingAssumption == MaxTasks \in Nat /\ MaxResets \in Nat

VARIABLES
  caller,        (* the call that is being made *)
  current,       (* current_thread_index_ *)
  thread,        (* where each thread is in thread_job() *)
  status,        (* thread_info_t::status *)
  interrupted,   (* an interruption of the thread is pending *)
  queue,         (* thread_info_t::task_queue *)
  task,          (* the task a thread took last *)
  submitted,     (* the tasks handed over so far; they are numbered *)
  invalid        (* those that were marked as invalid *)

vars == << caller, current, thread, status, interrupted, queue, task,
           submitted, invalid >>

Threads == 0 .. MaxResets

Tasks == 1 .. MaxTasks

Running == {"UNTASKED", "TASKED"}

Init ==
  /\ caller = "idle"
  /\ current = 0
  /\ thread = [id \in Threads |-> IF id = 0 THEN "locking" ELSE "none"]
  /\ status = [id \in Threads |-> "UNTASKED"]
  /\ interrupted = [id \in Threads |-> FALSE]
  /\ queue = [id \in Threads |-> << >>]
  /\ task = [id \in Threads |-> 0]
  /\ submitted = 0
  /\ invalid = {}

-----------------------------------------------------------------------------
(* thread_job().                                                           *)

(* A mutant of LookForTask: the status says that there is a task. *)
LookForTaskSilently(id) ==
  /\ thread[id] = "locking" /\ queue[id] = << >>
  /\ thread' = [thread EXCEPT ![id] = "waiting"]
  /\ UNCHANGED << caller, current, status, interrupted, queue, task, submitted,
                  invalid >>

LookForTask(id) ==
  /\ thread[id] = "locking" /\ queue[id] = << >>
  /\ status' = [status EXCEPT ![id] = "UNTASKED"]
  /\ thread' = [thread EXCEPT ![id] = "waiting"]
  /\ UNCHANGED << caller, current, interrupted, queue, task, submitted, invalid >>

(* The wait throws in an interrupted thread. *)
LeaveWait(id) ==
  /\ thread[id] = "waiting" /\ interrupted[id]
  /\ thread' = [thread EXCEPT ![id] = "leaving"]
  /\ UNCHANGED << caller, current, status, interrupted, queue, task, submitted,
                  invalid >>

HasTask(id) ==
  /\ queue[id] # << >>
  /\ \/ thread[id] = "locking"
     \/ thread[id] = "waiting" /\ ~interrupted[id]

(* Mutants of TakeTask: the oldest task is taken; an abandoned thread goes *)
(* on.                                                                     *)
TakeOldestTask(id) ==
  /\ HasTask(id)
  /\ task' = [task EXCEPT ![id] = Head(queue[id])]
  /\ queue' = [queue EXCEPT ![id] = << >>]
  /\ IF status[id] = "ABANDONED"
     THEN thread' = [thread EXCEPT ![id] = "leaving"] /\ UNCHANGED status
     ELSE /\ thread' = [thread EXCEPT ![id] = "executing"]
          /\ status' = [status EXCEPT ![id] = "TASKED"]
  /\ UNCHANGED << caller, current, interrupted, submitted, invalid >>

TakeTaskAlways(id) ==
  /\ HasTask(id)
  /\ task' = [task EXCEPT ![id] = queue[id][Len(queue[id])]]
  /\ queue' = [queue EXCEPT ![id] = << >>]
  /\ thread' = [thread EXCEPT ![id] = "executing"]
  /\ status' = [status EXCEPT ![id] = "TASKED"]
  /\ UNCHANGED << caller, current, interrupted, submitted, invalid >>

(* All tasks but the last are dropped, and an abandoned thread drops that  *)
(* one too.                                                                *)
TakeTask(id) ==
  /\ HasTask(id)
  /\ task' = [task EXCEPT ![id] = queue[id][Len(queue[id])]]
  /\ queue' = [queue EXCEPT ![id] = << >>]
  /\ IF status[id] = "ABANDONED"
     THEN thread' = [thread EXCEPT ![id] = "leaving"] /\ UNCHANGED status
     ELSE /\ thread' = [thread EXCEPT ![id] = "executing"]
          /\ status' = [status EXCEPT ![id] = "TASKED"]
  /\ UNCHANGED << caller, current, interrupted, submitted, invalid >>

(* execute() returns, with true or false, or throws. *)
FinishTask(id) ==
  /\ thread[id] = "executing"
  /\ \E next \in {"locking", "leaving"} :
       thread' = [thread EXCEPT ![id] = next]
  /\ UNCHANGED << caller, current, status, interrupted, queue, task, submitted,
                  invalid >>

Terminate(id) ==
  /\ thread[id] = "leaving"
  /\ thread' = [thread EXCEPT ![id] = "ended"]
  /\ status' = [status EXCEPT ![id] = "TERMINATED"]
  /\ UNCHANGED << caller, current, interrupted, queue, task, submitted, invalid >>

ThreadStep(id) ==
  \/ LookForTask(id)
  \/ LeaveWait(id)
  \/ TakeTask(id)
  \/ FinishTask(id)
  \/ Terminate(id)

-----------------------------------------------------------------------------
(* The operations of the caller.                                           *)

ExecuteIfAble ==
  /\ caller = "idle" /\ submitted < MaxTasks
  /\ submitted' = submitted + 1
  /\ queue' = [queue EXCEPT ![current] = Append(@, submitted + 1)]
  /\ UNCHANGED << caller, current, thread, status, interrupted, task, invalid >>

BlockUntilFinished ==
  /\ caller = "idle"
  /\ caller' = "blocking"
  /\ UNCHANGED << current, thread, status, interrupted, queue, task, submitted,
                  invalid >>

StopBlocking ==
  /\ caller = "blocking" /\ status[current] = "UNTASKED"
  /\ caller' = "idle"
  /\ UNCHANGED << current, thread, status, interrupted, queue, task, submitted,
                  invalid >>

(* forced_reset() does nothing unless the status, read without the lock,   *)
(* is another than UNTASKED.                                               *)
CheckStatus ==
  /\ caller = "idle" /\ current < MaxResets
  /\ status[current] # "UNTASKED"
  /\ caller' = "resetting"
  /\ UNCHANGED << current, thread, status, interrupted, queue, task, submitted,
                  invalid >>

(* A mutant of ForcedReset: no thread is launched. *)
ForcedResetOnly ==
  /\ caller = "resetting"
  /\ invalid' = invalid \cup {queue[current][n] : n \in DOMAIN queue[current]}
  /\ status' = [status EXCEPT ![current] = "ABANDONED"]
  /\ interrupted' = [interrupted EXCEPT ![current] = TRUE]
  /\ current' = current + 1
  /\ caller' = "idle"
  /\ UNCHANGED << thread, queue, task, submitted >>

ForcedReset ==
  /\ caller = "resetting"
  /\ invalid' = invalid \cup {queue[current][n] : n \in DOMAIN queue[current]}
  /\ status' = [status EXCEPT ![current] = "ABANDONED"]
  /\ interrupted' = [interrupted EXCEPT ![current] = TRUE]
  /\ current' = current + 1
  /\ thread' = [thread EXCEPT ![current + 1] = "locking"]
  /\ caller' = "idle"
  /\ UNCHANGED << queue, task, submitted >>

(* A mutant of Destroy: the thread is not interrupted. *)
DestroyQuietly ==
  /\ caller = "idle"
  /\ IF status[current] \in Running
     THEN /\ status' = [status EXCEPT ![current] = "ABANDONED"]
          /\ caller' = "joining"
     ELSE caller' = "destroyed" /\ UNCHANGED status
  /\ UNCHANGED << current, thread, interrupted, queue, task, submitted, invalid >>

(* The destructor joins the current thread only: no other was ever put     *)
(* into old_threads_.  What is between its test and the interruption       *)
(* changes nothing that is read again.                                     *)
Destroy ==
  /\ caller = "idle"
  /\ IF status[current] \in Running
     THEN /\ status' = [status EXCEPT ![current] = "ABANDONED"]
          /\ interrupted' = [interrupted EXCEPT ![current] = TRUE]
          /\ caller' = "joining"
     ELSE caller' = "destroyed" /\ UNCHANGED << status, interrupted >>
  /\ UNCHANGED << current, thread, queue, task, submitted, invalid >>

Join ==
  /\ caller = "joining" /\ thread[current] = "ended"
  /\ caller' = "destroyed"
  /\ UNCHANGED << current, thread, status, interrupted, queue, task, submitted,
                  invalid >>

CallStep == StopBlocking \/ ForcedReset \/ Join

Next ==
  \/ \E id \in Threads : ThreadStep(id)
  \/ CallStep
  \/ ExecuteIfAble
  \/ BlockUntilFinished
  \/ CheckStatus
  \/ Destroy

Spec == Init /\ [][Next]_vars

(* Every thread is run, a task ends, and who waits tests again. *)
FairSpec ==
  /\ Spec
  /\ \A id \in Threads : WF_vars(ThreadStep(id))
  /\ WF_vars(CallStep)

-----------------------------------------------------------------------------
(* Properties.                                                             *)

Begins(id) == thread[id] # "executing" /\ thread'[id] = "executing"

(* Every variable has its type; a thread executes a task it took from its  *)
(* queue, and a thread that was not launched has no task.                  *)
TypeOK ==
  /\ caller \in {"idle", "blocking", "resetting", "joining", "destroyed"}
  /\ current \in Threads
  /\ thread \in [Threads -> {"none", "locking", "waiting", "executing",
                             "leaving", "ended"}]
  /\ status \in [Threads -> Running \cup {"ABANDONED", "TERMINATED"}]
  /\ interrupted \in [Threads -> BOOLEAN]
  /\ queue \in [Threads -> Seq(1 .. submitted)]
  /\ task \in [Threads -> 0 .. submitted]
  /\ submitted \in 0 .. MaxTasks
  /\ invalid \in SUBSET (1 .. submitted)
  /\ \A id \in Threads :
       /\ thread[id] = "none" <=> id > current
       /\ thread[id] = "executing" => task[id] # 0

(* A thread that forced_reset() has abandoned begins no further task,      *)
(* although its last status may say that it is untasked.                   *)
AbandonedBeginNothing ==
  [][\A id \in Threads : Begins(id) => id = current]_vars

(* A thread begins the task that was handed over last, and never one that  *)
(* was marked as invalid.                                                  *)
NewestBegins ==
  [][\A id \in Threads :
       Begins(id) => task'[id] = submitted /\ task'[id] \notin invalid]_vars

(* The last task that was handed over does not stay in the queue: it is    *)
(* taken, unless a newer one is handed over, or the thread has ended       *)
(* because a task threw.                                                   *)
Queued(t) ==
  /\ caller # "destroyed" /\ submitted = t
  /\ thread[current] # "ended"
  /\ \E n \in DOMAIN queue[current] : queue[current][n] = t

LastTaskIsTaken == \A t \in Tasks : Queued(t) ~> ~Queued(t)

(* block_until_finished() returns, unless the thread it waits for has ended *)
(* because a task threw.                                                   *)
BlockReturns ==
  caller = "blocking" ~> (caller # "blocking" \/ thread[current] = "ended")

(* The destructor returns.                                                 *)
DestructorReturns == caller = "joining" ~> caller = "destroyed"

(* block_until_finished() "Blocks until all thread tasks have finished, and *)
(* the thread is unoccupied" (training_thread.h:91).                        *)
FinishedWhenUnblocked ==
  [][StopBlocking =>
       queue[current] = << >> /\ thread[current] # "executing"]_vars

(* The destructor waits for the threads of old_threads_ as well, "past     *)
(* threads which we no longer care anything about" (training_thread.h:140): *)
(* when it has returned no task is executed.                               *)
NoTaskAfterDestructor ==
  caller = "destroyed" => \A id \in Threads : thread[id] # "executing"
=============================================================================
