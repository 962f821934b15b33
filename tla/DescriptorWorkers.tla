------------------------- MODULE DescriptorWorkers --------------------------
(***************************************************************************)
(* online_descriptor_thread_system: process_tasks() deals the tasks of a   *)
(* frame out to one queue per thread and waits for every thread.  Status,  *)
(* mutex and condition variable are used as in TileWorkers; here all       *)
(* threads run in the background, a task tells whether it succeeded, and   *)
(* a task that throws ends its thread with the status RUNNING.             *)
(***************************************************************************)
EXTENDS Integers

CONSTANTS
  ThreadCount,   (* thread_count_ *)
  TaskCounts,    (* how many tasks a frame may have *)
  Outcomes,      (* what execute() may do: "succeeds", "fails", "throws" *)
  MaxCalls       (* a bound on the calls of process_tasks() *)

ASSUME DescriptorAssumption ==
  /\ ThreadCount \in Nat \ {0}
  /\ TaskCounts \subseteq Nat
  /\ Outcomes \subseteq {"succeeds", "fails", "throws"}
  /\ MaxCalls \in Nat

VARIABLES
  processing,     (* where process_tasks() is, and for which thread *)
  worker,         (* where each thread is in worker_thread() *)
  thread_status,  (* thread_status_ *)
  worker_queue,   (* thread_worker_queues_ *)
  mutex,          (* thread_muti_: who holds it *)
  success,        (* the flag of each thread *)
  result,         (* ret_flag, and what the last call returned *)
  executed,       (* how often each task of the last call was executed *)
  failed,         (* the tasks whose execute() returned false *)
  calls,          (* the calls made *)
  shut_down       (* shutdown() was called *)

callVars == << result, calls, shut_down >>
taskVars == << executed, failed >>
descriptorVars ==
  << processing, worker, thread_status, worker_queue, mutex, success, callVars,
     taskVars >>

Ids == 0 .. ThreadCount - 1

FinishedStatus == {"FINISHED_W_SUCCESS", "FINISHED_W_FAILURE"}

Status == {"WAITING", "TASKED", "RUNNING"} \cup FinishedStatus

Share(n, id) == {t \in 0 .. n - 1 : t % ThreadCount = id}

Front(q) == CHOOSE t \in q : \A u \in q : t <= u

(* Where the loops over the threads go on. *)
AfterStart(id) ==
  IF id + 1 < ThreadCount THEN [pc |-> "starting", id |-> id + 1]
                          ELSE [pc |-> "locking", id |-> 0]

AfterCollect(id) ==
  IF id + 1 < ThreadCount THEN [pc |-> "locking", id |-> id + 1]
                          ELSE [pc |-> "idle", id |-> 0]

DescriptorInit ==
  /\ processing = [pc |-> "idle", id |-> 0]
  /\ worker = [id \in Ids |-> "locking"]
  /\ thread_status = [id \in Ids |-> "WAITING"]
  /\ worker_queue = [id \in Ids |-> {}]
  /\ mutex = [id \in Ids |-> "free"]
  /\ success = [id \in Ids |-> TRUE]
  /\ result = TRUE /\ calls = 0 /\ shut_down = FALSE
  /\ executed = [t \in {} |-> 0] /\ failed = {}

-----------------------------------------------------------------------------
(* worker_thread().                                                        *)

LookForTasks(id) ==
  /\ worker[id] = "locking" /\ mutex[id] = "free"
  /\ IF thread_status[id] = "TASKED"
     THEN worker' = [worker EXCEPT ![id] = "tasked"] /\ UNCHANGED mutex
     ELSE /\ worker' = [worker EXCEPT ![id] = "deciding"]
          /\ mutex' = [mutex EXCEPT ![id] = "worker"]
  /\ UNCHANGED << processing, thread_status, worker_queue, success, callVars,
                  taskVars >>

(* An interrupted thread ends at either end of a wait. *)
Interruptible(next) == IF shut_down THEN "ended" ELSE next

BeginWait(id) ==
  /\ worker[id] = "deciding"
  /\ worker' = [worker EXCEPT ![id] = Interruptible("waiting")]
  /\ mutex' = [mutex EXCEPT ![id] = "free"]
  /\ UNCHANGED << processing, thread_status, worker_queue, success, callVars,
                  taskVars >>

WaitEnds(id) ==
  /\ worker[id] = "waiting"
  /\ worker' = [worker EXCEPT ![id] = Interruptible("locking")]
  /\ UNCHANGED << processing, thread_status, worker_queue, mutex, success,
                  callVars, taskVars >>

(* A mutant of BeginTasks: the flag of the last frame is kept. *)
BeginTasksKeepingFlag(id) ==
  /\ worker[id] = "tasked"
  /\ worker' = [worker EXCEPT ![id] = "executing"]
  /\ thread_status' = [thread_status EXCEPT ![id] = "RUNNING"]
  /\ UNCHANGED << processing, worker_queue, mutex, success, callVars, taskVars >>

BeginTasks(id) ==
  /\ worker[id] = "tasked"
  /\ worker' = [worker EXCEPT ![id] = "executing"]
  /\ thread_status' = [thread_status EXCEPT ![id] = "RUNNING"]
  /\ success' = [success EXCEPT ![id] = TRUE]
  /\ UNCHANGED << processing, worker_queue, mutex, callVars, taskVars >>

(* The task leaves its queue before it is executed. *)
ExecuteTask(id) ==
  /\ worker[id] = "executing" /\ worker_queue[id] # {}
  /\ \E outcome \in Outcomes :
       LET front == Front(worker_queue[id])
       IN  /\ worker_queue' = [worker_queue EXCEPT ![id] = @ \ {front}]
           /\ executed' = [executed EXCEPT ![front] = @ + 1]
           /\ failed' = failed \cup (IF outcome = "fails" THEN {front} ELSE {})
           /\ success' = [success EXCEPT ![id] = @ /\ outcome # "fails"]
           /\ worker' = [worker EXCEPT ![id] = IF outcome = "throws"
                                                THEN "crashed" ELSE @]
  /\ UNCHANGED << processing, thread_status, mutex, callVars >>

FinishTasks(id) ==
  /\ worker[id] = "executing" /\ worker_queue[id] = {}
  /\ thread_status' = [thread_status EXCEPT ![id] =
                         IF success[id] THEN "FINISHED_W_SUCCESS"
                                        ELSE "FINISHED_W_FAILURE"]
  /\ worker' = [worker EXCEPT ![id] = "finished"]
  /\ UNCHANGED << processing, worker_queue, mutex, success, callVars, taskVars >>

NotifyFinished(id) ==
  /\ worker[id] = "finished"
  /\ worker' = [worker EXCEPT ![id] = "locking"]
  /\ processing' = IF processing = [pc |-> "waiting", id |-> id]
               THEN [processing EXCEPT !.pc = "locking"] ELSE processing
  /\ UNCHANGED << thread_status, worker_queue, mutex, success, callVars, taskVars >>

WorkerStep(id) ==
  \/ LookForTasks(id)
  \/ BeginWait(id)
  \/ WaitEnds(id)
  \/ BeginTasks(id)
  \/ ExecuteTask(id)
  \/ FinishTasks(id)
  \/ NotifyFinished(id)

-----------------------------------------------------------------------------
(* process_tasks() and shutdown().                                         *)

ProcessTasks ==
  /\ processing.pc = "idle" /\ ~shut_down /\ calls < MaxCalls
  /\ \E n \in TaskCounts :
       /\ executed' = [t \in 0 .. n - 1 |-> 0]
       /\ worker_queue' = [id \in Ids |-> worker_queue[id] \cup Share(n, id)]
  /\ failed' = {}
  /\ result' = TRUE
  /\ calls' = calls + 1
  /\ processing' = [pc |-> "starting", id |-> 0]
  /\ UNCHANGED << worker, thread_status, mutex, success, shut_down >>

(* No lock is held: a thread that has no task is set to finished, any      *)
(* other is tasked, and in a step of its own notified.                     *)
StartThread ==
  /\ processing.pc = "starting"
  /\ IF worker_queue[processing.id] = {}
     THEN /\ thread_status' =
               [thread_status EXCEPT ![processing.id] = "FINISHED_W_SUCCESS"]
          /\ processing' = AfterStart(processing.id)
     ELSE /\ thread_status' = [thread_status EXCEPT ![processing.id] = "TASKED"]
          /\ processing' = [processing EXCEPT !.pc = "notifying"]
  /\ UNCHANGED << worker, worker_queue, mutex, success, callVars, taskVars >>

NotifyThread ==
  /\ processing.pc = "notifying"
  /\ worker' = IF worker[processing.id] = "waiting"
               THEN [worker EXCEPT ![processing.id] = "locking"] ELSE worker
  /\ processing' = AfterStart(processing.id)
  /\ UNCHANGED << thread_status, worker_queue, mutex, success, callVars, taskVars >>

Collect(finished) ==
  /\ processing.pc = "locking" /\ mutex[processing.id] = "free"
  /\ IF thread_status[processing.id] \in finished
     THEN /\ result' =
               (result /\ thread_status[processing.id] # "FINISHED_W_FAILURE")
          /\ thread_status' = [thread_status EXCEPT ![processing.id] = "WAITING"]
          /\ processing' = AfterCollect(processing.id)
          /\ UNCHANGED mutex
     ELSE /\ mutex' = [mutex EXCEPT ![processing.id] = "caller"]
          /\ processing' = [processing EXCEPT !.pc = "deciding"]
          /\ UNCHANGED << result, thread_status >>
  /\ UNCHANGED << worker, worker_queue, success, calls, shut_down, taskVars >>

(* A mutant of CollectThread: a thread that is no longer tasked counts as  *)
(* finished. *)
CollectUntasked == Collect(Status \ {"TASKED"})

CollectThread == Collect(FinishedStatus)

CallerBeginsWait ==
  /\ processing.pc = "deciding"
  /\ processing' = [processing EXCEPT !.pc = "waiting"]
  /\ mutex' = [mutex EXCEPT ![processing.id] = "free"]
  /\ UNCHANGED << worker, thread_status, worker_queue, success, callVars,
                  taskVars >>

(* A mutant of CallerWaitEnds: the wait has no time limit. *)
CallerWaitsForever == FALSE /\ UNCHANGED descriptorVars

CallerWaitEnds ==
  /\ processing.pc = "waiting"
  /\ processing' = [processing EXCEPT !.pc = "locking"]
  /\ UNCHANGED << worker, thread_status, worker_queue, mutex, success, callVars,
                  taskVars >>

Shutdown ==
  /\ processing.pc = "idle" /\ ~shut_down
  /\ shut_down' = TRUE
  /\ UNCHANGED << processing, worker, thread_status, worker_queue, mutex, success,
                  result, calls, taskVars >>

CallerStep ==
  \/ StartThread
  \/ NotifyThread
  \/ CollectThread
  \/ CallerBeginsWait
  \/ CallerWaitEnds

DescriptorNext ==
  \/ \E id \in Ids : WorkerStep(id)
  \/ CallerStep
  \/ ProcessTasks
  \/ Shutdown

DescriptorSpec == DescriptorInit /\ [][DescriptorNext]_descriptorVars

(* Every runnable thread is run, a timed wait ends, execute() comes to an  *)
(* end, and who asks for a mutex again and again gets it.                  *)
DescriptorFairSpec ==
  /\ DescriptorSpec
  /\ \A id \in Ids : /\ WF_descriptorVars(WorkerStep(id))
                      /\ SF_descriptorVars(LookForTasks(id))
  /\ WF_descriptorVars(CallerStep) /\ SF_descriptorVars(CollectThread)

-----------------------------------------------------------------------------
(* Properties.                                                             *)

(* Every variable has its type; a mutex is held only on the way to a wait. *)
DescriptorTypes ==
  /\ processing \in [pc : {"idle", "starting", "notifying", "locking", "deciding",
                       "waiting"},
                 id : Ids]
  /\ worker \in [Ids -> {"locking", "deciding", "waiting", "tasked",
                         "executing", "finished", "crashed", "ended"}]
  /\ thread_status \in [Ids -> Status]
  /\ mutex \in [Ids -> {"free", "worker", "caller"}]
  /\ success \in [Ids -> BOOLEAN] /\ result \in BOOLEAN
  /\ executed \in [DOMAIN executed -> Nat]
  /\ worker_queue \in [Ids -> SUBSET DOMAIN executed]
  /\ failed \subseteq DOMAIN executed
  /\ calls \in 0 .. MaxCalls /\ shut_down \in BOOLEAN
  /\ \A id \in Ids : (mutex[id] = "worker" <=> worker[id] = "deciding")
                     /\ (mutex[id] = "caller"
                           <=> processing = [pc |-> "deciding", id |-> id])

(* process_tasks() returns true if and only if every task of this call     *)
(* succeeded: no failure is lost between the threads, their flags and      *)
(* their statuses, and none of an earlier frame is reported again.         *)
ResultTellsFailure == processing.pc = "idle" => (result <=> failed = {})

(* When process_tasks() returns, each of its tasks was executed once, and  *)
(* none is left in a queue: the generator may go on to the next frame,     *)
(* and drop what the tasks point to.                                       *)
EachTaskOnce ==
  processing.pc = "idle" =>
    /\ \A t \in DOMAIN executed : executed[t] = 1
    /\ \A id \in Ids : /\ worker_queue[id] = {}
                        /\ worker[id] \notin {"tasked", "executing"}

(* process_tasks() returns, although notifications can be lost, unless a   *)
(* task threw: then a thread has gone with the status RUNNING, for which   *)
(* the call waits for ever.                                                *)
ProcessReturns ==
  (processing.pc # "idle") ~>
    (processing.pc = "idle" \/ \E id \in Ids : worker[id] = "crashed")

(* What the caller expects, and does not get once a task has thrown.       *)
AlwaysReturns == (processing.pc # "idle") ~> (processing.pc = "idle")
=============================================================================
