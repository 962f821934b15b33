--------------------------- MODULE UtilityProofs ----------------------------
(***************************************************************************)
(* Three classes that own threads: what a training thread may begin, for   *)
(* every number of tasks and resets, what the readers of an observer       *)
(* process get, for any number of readers and items, and what the online   *)
(* descriptor workers do, for any number of threads, tasks and frames.     *)
(***************************************************************************)
EXTENDS TrainingThread, ObserverProcess, DescriptorWorkers, WellFoundedInduction,
        TLAPS

(* An abandoned thread is interrupted, and what its queue still holds it   *)
(* will drop.                                                              *)
AbandonedLeave ==
  \A id \in Threads : id < current =>
    /\ interrupted[id]
    /\ queue[id] = << >> \/ status[id] = "ABANDONED" \/ thread[id] = "ended"

(* A thread that is still to be launched has nothing in its queue. *)
UnlaunchedEmpty == \A id \in Threads : id > current => queue[id] = << >>

(* The last task of the current queue is the newest, and is valid. *)
NewestIsLast ==
  queue[current] # << >> =>
    /\ queue[current][Len(queue[current])] = submitted
    /\ submitted \notin invalid

TrainingInvariant ==
  /\ TypeOK
  /\ caller = "resetting" => current < MaxResets
  /\ AbandonedLeave
  /\ UnlaunchedEmpty
  /\ NewestIsLast

LEMMA TrainingInvariantInit == Init => TrainingInvariant
<1> SUFFICES ASSUME Init PROVE TrainingInvariant
  OBVIOUS
<1> USE TrainingAssumption
<1>1. 0 \in Threads /\ (\A id \in Threads : id \in Nat)
  BY DEF Threads
<1>2. TypeOK
  <2>1. /\ caller = "idle" /\ current \in Threads
        /\ status \in [Threads -> Running \cup {"ABANDONED", "TERMINATED"}]
        /\ thread \in [Threads -> {"none", "locking", "waiting", "executing",
                                   "leaving", "ended"}]
    BY <1>1 DEF Init, Running
  <2>2. interrupted \in [Threads -> BOOLEAN]
    BY DEF Init
  <2>3. /\ submitted \in 0 .. MaxTasks /\ task \in [Threads -> 0 .. submitted]
        /\ invalid \in SUBSET (1 .. submitted)
        /\ queue \in [Threads -> Seq(1 .. submitted)]
    BY DEF Init
  <2>4. ASSUME NEW id \in Threads
        PROVE  /\ thread[id] = "none" <=> id > current
               /\ thread[id] = "executing" => task[id] # 0
    BY <1>1 DEF Init
  <2> QED
    BY <2>1, <2>2, <2>3, <2>4 DEF TypeOK
<1>3. AbandonedLeave
  BY <1>1 DEF Init, AbandonedLeave
<1>4. UnlaunchedEmpty /\ NewestIsLast
  BY <1>1 DEF Init, UnlaunchedEmpty, NewestIsLast
<1>5. caller # "resetting"
  BY DEF Init
<1> QED
  BY <1>2, <1>3, <1>4, <1>5 DEF TrainingInvariant

(***************************************************************************)
(* The last of a queue that is not empty is one of its tasks.              *)
(***************************************************************************)
LEMMA LastOfQueue ==
  ASSUME NEW S, NEW q \in Seq(S), q # << >>
  PROVE  q[Len(q)] \in S
  OBVIOUS

LEMMA QueueOfMore ==
  ASSUME NEW S, NEW T, S \subseteq T, NEW q \in Seq(S)
  PROVE  q \in Seq(T)
<1>1. Len(q) \in Nat /\ q \in [1 .. Len(q) -> S]
  OBVIOUS
<1>2. q \in [1 .. Len(q) -> T]
  BY <1>1
<1> QED
  BY <1>1, <1>2

(***************************************************************************)
(* thread_job().                                                           *)
(***************************************************************************)
LEMMA ThreadStepPreserves ==
  ASSUME TrainingInvariant, NEW id \in Threads, ThreadStep(id)
  PROVE  TrainingInvariant'
<1> USE TrainingAssumption DEF TrainingInvariant
<1>1. UNCHANGED << caller, current, interrupted, submitted, invalid >>
  BY DEF ThreadStep, LookForTask, LeaveWait, TakeTask, FinishTask, Terminate
<1>2. CASE TakeTask(id)
  <2>1. queue[id] \in Seq(1 .. submitted) /\ queue[id] # << >>
    BY <1>2 DEF TypeOK, TakeTask, HasTask
  <2>2. queue[id][Len(queue[id])] \in 1 .. submitted
    BY <2>1, LastOfQueue
  <2>3. /\ queue' = [queue EXCEPT ![id] = << >>]
        /\ task' = [task EXCEPT ![id] = queue[id][Len(queue[id])]]
        /\ thread[id] \in {"locking", "waiting"}
        /\ \/ /\ thread' = [thread EXCEPT ![id] = "leaving"]
              /\ status' = status
           \/ /\ thread' = [thread EXCEPT ![id] = "executing"]
              /\ status' = [status EXCEPT ![id] = "TASKED"]
    BY <1>2 DEF TakeTask, HasTask
  <2>4. TypeOK'
    <3>1. queue' \in [Threads -> Seq(1 .. submitted)]
      BY <2>3 DEF TypeOK
    <3>2. task' \in [Threads -> 0 .. submitted] /\ task'[id] # 0
      BY <2>2, <2>3 DEF TypeOK
    <3>3. /\ thread' \in [Threads -> {"none", "locking", "waiting", "executing",
                                      "leaving", "ended"}]
          /\ status' \in [Threads -> Running \cup {"ABANDONED", "TERMINATED"}]
      BY <2>3 DEF TypeOK, Running
    <3>4. ASSUME NEW other \in Threads
          PROVE  /\ thread'[other] = "none" <=> other > current'
                 /\ thread'[other] = "executing" => task'[other] # 0
      BY <1>1, <2>3, <3>2 DEF TypeOK
    <3> QED
      BY <1>1, <3>1, <3>2, <3>3, <3>4 DEF TypeOK
  <2>5. AbandonedLeave'
    BY <1>1, <2>3 DEF TypeOK, AbandonedLeave
  <2>6. UnlaunchedEmpty' /\ NewestIsLast'
    BY <1>1, <2>3 DEF TypeOK, UnlaunchedEmpty, NewestIsLast
  <2> QED
    BY <1>1, <2>4, <2>5, <2>6
<1>3. CASE ~TakeTask(id)
  <2>1. /\ UNCHANGED << queue, task >>
        /\ \/ /\ thread[id] = "locking" /\ queue[id] = << >>
              /\ thread' = [thread EXCEPT ![id] = "waiting"]
              /\ status' = [status EXCEPT ![id] = "UNTASKED"]
           \/ /\ thread[id] \in {"waiting", "executing"}
              /\ \/ thread' = [thread EXCEPT ![id] = "locking"]
                 \/ thread' = [thread EXCEPT ![id] = "leaving"]
              /\ status' = status
           \/ /\ thread[id] = "leaving"
              /\ thread' = [thread EXCEPT ![id] = "ended"]
              /\ status' = [status EXCEPT ![id] = "TERMINATED"]
    BY <1>3 DEF ThreadStep, LookForTask, LeaveWait, FinishTask, Terminate
  <2>2. TypeOK'
    <3>1. /\ thread' \in [Threads -> {"none", "locking", "waiting", "executing",
                                      "leaving", "ended"}]
          /\ status' \in [Threads -> Running \cup {"ABANDONED", "TERMINATED"}]
      BY <2>1 DEF TypeOK, Running
    <3>2. ASSUME NEW other \in Threads
          PROVE  /\ thread'[other] = "none" <=> other > current'
                 /\ thread'[other] = "executing" => task'[other] # 0
      BY <1>1, <2>1 DEF TypeOK
    <3> QED
      BY <1>1, <2>1, <3>1, <3>2 DEF TypeOK
  <2>3. AbandonedLeave'
    BY <1>1, <2>1 DEF TypeOK, AbandonedLeave
  <2>4. UnlaunchedEmpty' /\ NewestIsLast'
    BY <1>1, <2>1 DEF UnlaunchedEmpty, NewestIsLast
  <2> QED
    BY <1>1, <2>2, <2>3, <2>4
<1> QED
  BY <1>2, <1>3

(***************************************************************************)
(* The operations of the caller.                                           *)
(***************************************************************************)
LEMMA ExecuteIfAblePreserves ==
  ASSUME TrainingInvariant, ExecuteIfAble
  PROVE  TrainingInvariant'
<1> USE TrainingAssumption DEF TrainingInvariant
<1> DEFINE new == submitted + 1
<1>1. /\ submitted \in Nat /\ submitted < MaxTasks /\ current \in Threads
      /\ submitted' = new /\ queue' = [queue EXCEPT ![current] = Append(@, new)]
      /\ UNCHANGED << caller, current, thread, status, interrupted, task,
                      invalid >>
  BY DEF TypeOK, ExecuteIfAble
<1>2. queue[current] \in Seq(1 .. submitted)
  BY <1>1 DEF TypeOK
<1>3. ASSUME NEW id \in Threads PROVE queue[id] \in Seq(1 .. new)
  <2>1. queue[id] \in Seq(1 .. submitted)
    BY DEF TypeOK
  <2>2. 1 .. submitted \subseteq 1 .. new
    BY <1>1
  <2> QED
    BY <2>1, <2>2, QueueOfMore
<1>4. TypeOK'
  <2>1. Append(queue[current], new) \in Seq(1 .. new)
    BY <1>1, <1>3
  <2>2. queue' \in [Threads -> Seq(1 .. new)]
    BY <1>1, <1>3, <2>1 DEF TypeOK
  <2>3. task \in [Threads -> 0 .. new] /\ invalid \in SUBSET (1 .. new)
    BY <1>1 DEF TypeOK
  <2>4. new \in 0 .. MaxTasks
    BY <1>1
  <2> QED
    BY <1>1, <2>2, <2>3, <2>4 DEF TypeOK
<1>5. ASSUME NEW id \in Threads, id # current PROVE queue'[id] = queue[id]
  BY <1>1, <1>5 DEF TypeOK
<1>6. \A id \in Threads : id \in Nat
  BY DEF Threads
<1>7. AbandonedLeave'
  BY <1>1, <1>5, <1>6 DEF AbandonedLeave
<1>8. UnlaunchedEmpty'
  BY <1>1, <1>5, <1>6 DEF UnlaunchedEmpty
<1>9. NewestIsLast'
  <2>1. queue'[current] = Append(queue[current], new)
    BY <1>1 DEF TypeOK
  <2>2. queue'[current][Len(queue'[current])] = new
    BY <1>2, <2>1
  <2>3. new \notin invalid
    BY <1>1 DEF TypeOK
  <2> QED
    BY <1>1, <2>2, <2>3 DEF NewestIsLast
<1> QED
  BY <1>1, <1>4, <1>7, <1>8, <1>9

LEMMA ForcedResetPreserves ==
  ASSUME TrainingInvariant, ForcedReset
  PROVE  TrainingInvariant'
<1> USE TrainingAssumption DEF TrainingInvariant
<1> DEFINE next == current + 1
<1>1. /\ current \in Threads /\ next \in Threads /\ current \in Nat
      /\ \A id \in Threads : id \in Nat
  BY DEF TypeOK, Threads, ForcedReset
<1>2. /\ invalid' = invalid \cup {queue[current][n] : n \in DOMAIN queue[current]}
      /\ status' = [status EXCEPT ![current] = "ABANDONED"]
      /\ interrupted' = [interrupted EXCEPT ![current] = TRUE]
      /\ current' = next
      /\ thread' = [thread EXCEPT ![next] = "locking"]
      /\ caller' = "idle"
      /\ UNCHANGED << queue, task, submitted >>
  BY DEF ForcedReset
<1>3. TypeOK'
  <2>1. \A n \in DOMAIN queue[current] : queue[current][n] \in 1 .. submitted
    BY <1>1 DEF TypeOK
  <2>2. invalid' \in SUBSET (1 .. submitted)
    BY <1>2, <2>1 DEF TypeOK
  <2>3. /\ thread' \in [Threads -> {"none", "locking", "waiting", "executing",
                                    "leaving", "ended"}]
        /\ status' \in [Threads -> Running \cup {"ABANDONED", "TERMINATED"}]
    BY <1>2 DEF TypeOK, Running
  <2>4. interrupted' \in [Threads -> BOOLEAN]
    BY <1>2 DEF TypeOK
  <2>5. ASSUME NEW id \in Threads
        PROVE  /\ thread'[id] = "none" <=> id > next
               /\ thread'[id] = "executing" => task[id] # 0
    BY <1>1, <1>2 DEF TypeOK
  <2> QED
    BY <1>1, <1>2, <2>2, <2>3, <2>4, <2>5 DEF TypeOK
<1>4. AbandonedLeave'
  <2> SUFFICES ASSUME NEW id \in Threads, id < next
               PROVE  /\ interrupted'[id]
                      /\ \/ queue[id] = << >>
                         \/ status'[id] = "ABANDONED"
                         \/ thread'[id] = "ended"
    BY <1>2 DEF AbandonedLeave
  <2>1. CASE id = current
    <3>1. interrupted'[id]
      BY <1>2, <2>1 DEF TypeOK
    <3>2. status'[id] = "ABANDONED"
      BY <1>2, <2>1 DEF TypeOK
    <3> QED
      BY <3>1, <3>2
  <2>2. CASE id # current
    <3>1. id < current /\ id # next
      BY <1>1, <2>2
    <3>2. interrupted'[id] = interrupted[id]
      BY <1>2, <2>2 DEF TypeOK
    <3>3. status'[id] = status[id] /\ thread'[id] = thread[id]
      BY <1>2, <2>2, <3>1 DEF TypeOK
    <3> QED
      BY <3>1, <3>2, <3>3 DEF AbandonedLeave
  <2> QED
    BY <2>1, <2>2
<1>5. UnlaunchedEmpty' /\ NewestIsLast'
  BY <1>1, <1>2 DEF UnlaunchedEmpty, NewestIsLast
<1> QED
  BY <1>2, <1>3, <1>4, <1>5

LEMMA DestroyPreserves ==
  ASSUME TrainingInvariant, Destroy
  PROVE  TrainingInvariant'
<1> USE TrainingAssumption DEF TrainingInvariant
<1>1. UNCHANGED << current, thread, queue, task, submitted, invalid >>
  BY DEF Destroy
<1>2. /\ caller' \in {"joining", "destroyed"}
      /\ \/ /\ status' = [status EXCEPT ![current] = "ABANDONED"]
            /\ interrupted' = [interrupted EXCEPT ![current] = TRUE]
         \/ UNCHANGED << status, interrupted >>
  BY DEF Destroy
<1>3. TypeOK'
  <2>1. status' \in [Threads -> Running \cup {"ABANDONED", "TERMINATED"}]
    BY <1>2 DEF TypeOK
  <2>2. interrupted' \in [Threads -> BOOLEAN]
    BY <1>2 DEF TypeOK
  <2> QED
    BY <1>1, <1>2, <2>1, <2>2 DEF TypeOK
<1>4. AbandonedLeave'
  <2> SUFFICES ASSUME NEW id \in Threads, id < current
               PROVE  /\ interrupted'[id]
                      /\ \/ queue[id] = << >>
                         \/ status'[id] = "ABANDONED"
                         \/ thread[id] = "ended"
    BY <1>1 DEF AbandonedLeave
  <2>1. id # current
    BY DEF TypeOK, Threads
  <2>2. interrupted'[id] = interrupted[id]
    BY <1>2, <2>1 DEF TypeOK
  <2>3. status'[id] = status[id]
    BY <1>2, <2>1 DEF TypeOK
  <2> QED
    BY <2>2, <2>3 DEF AbandonedLeave
<1>5. UnlaunchedEmpty' /\ NewestIsLast'
  BY <1>1 DEF UnlaunchedEmpty, NewestIsLast
<1> QED
  BY <1>1, <1>2, <1>3, <1>4, <1>5

(***************************************************************************)
(* A call that begins or ends to wait changes nothing but where the caller *)
(* is.                                                                     *)
(***************************************************************************)
LEMMA CallerMovePreserves ==
  ASSUME TrainingInvariant,
         BlockUntilFinished \/ StopBlocking \/ CheckStatus \/ Join
           \/ UNCHANGED vars
  PROVE  TrainingInvariant'
<1> USE DEF TrainingInvariant
<1>1. /\ UNCHANGED << current, thread, status, interrupted, queue, task,
                      submitted, invalid >>
      /\ caller' \in {"idle", "blocking", "resetting", "joining", "destroyed"}
      /\ caller' = "resetting" => current < MaxResets
  BY DEF TypeOK, BlockUntilFinished, StopBlocking, CheckStatus, Join, vars
<1>2. TypeOK'
  BY <1>1 DEF TypeOK
<1>3. AbandonedLeave' /\ UnlaunchedEmpty' /\ NewestIsLast'
  BY <1>1 DEF AbandonedLeave, UnlaunchedEmpty, NewestIsLast
<1> QED
  BY <1>1, <1>2, <1>3

(***************************************************************************)
(* An abandoned thread is on its way out and the current queue ends with   *)
(* the newest task, whatever the calls and the threads do.                 *)
(***************************************************************************)
THEOREM TrainingInvariantHolds == Spec => []TrainingInvariant
<1>1. Init => TrainingInvariant
  BY TrainingInvariantInit
<1>2. TrainingInvariant /\ [Next]_vars => TrainingInvariant'
  BY ThreadStepPreserves, ExecuteIfAblePreserves, ForcedResetPreserves,
     DestroyPreserves, CallerMovePreserves
  DEF Next, CallStep
<1> QED
  BY <1>1, <1>2, PTL DEF Spec

(***************************************************************************)
(* The variables of training_thread keep their types.                      *)
(***************************************************************************)
THEOREM TrainingTypes == Spec => []TypeOK
<1>1. TrainingInvariant => TypeOK
  BY DEF TrainingInvariant
<1> QED
  BY <1>1, TrainingInvariantHolds, PTL

(***************************************************************************)
(* A thread that begins a task takes it under the lock, from a queue that  *)
(* is not empty, while its status is not ABANDONED.                        *)
(***************************************************************************)
LEMMA BeginningTakesTask ==
  ASSUME TypeOK, [Next]_vars, NEW id \in Threads, Begins(id)
  PROVE  TakeTask(id) /\ status[id] # "ABANDONED"
<1>1. \E other \in Threads : ThreadStep(other)
  BY DEF Begins, Next, CallStep, vars, TypeOK, Threads, StopBlocking,
     ForcedReset, Join, ExecuteIfAble, BlockUntilFinished, CheckStatus, Destroy
<1>2. PICK other \in Threads : ThreadStep(other)
  BY <1>1
<1>3. other = id /\ TakeTask(id)
  BY <1>2 DEF Begins, TypeOK, ThreadStep, LookForTask, LeaveWait, TakeTask,
     FinishTask, Terminate
<1> QED
  BY <1>3 DEF Begins, TakeTask, TypeOK

(***************************************************************************)
(* No thread but the current one begins a task.                            *)
(***************************************************************************)
LEMMA OnlyCurrentBegins ==
  ASSUME TrainingInvariant, [Next]_vars, NEW id \in Threads, Begins(id)
  PROVE  id = current
<1>1. TakeTask(id) /\ status[id] # "ABANDONED"
  BY BeginningTakesTask DEF TrainingInvariant
<1>2. queue[id] # << >> /\ thread[id] # "ended"
  BY <1>1 DEF TakeTask, HasTask
<1>3. ~(id < current)
  BY <1>1, <1>2 DEF TrainingInvariant, AbandonedLeave
<1>4. ~(id > current)
  BY <1>2 DEF TrainingInvariant, UnlaunchedEmpty
<1> QED
  BY <1>3, <1>4 DEF TrainingInvariant, TypeOK, Threads

(***************************************************************************)
(* A thread abandoned by forced_reset() never begins a task again.         *)
(***************************************************************************)
THEOREM AbandonedThreadsBeginNothing == Spec => AbandonedBeginNothing
<1>1. TrainingInvariant /\ [Next]_vars
        => [\A id \in Threads : Begins(id) => id = current]_vars
  BY OnlyCurrentBegins
<1> QED
  BY <1>1, TrainingInvariantHolds, PTL DEF Spec, AbandonedBeginNothing

(***************************************************************************)
(* The task a thread begins is the one that was handed over last, and it   *)
(* is valid.                                                               *)
(***************************************************************************)
THEOREM NewestTaskBegins == Spec => NewestBegins
<1>1. ASSUME TrainingInvariant, [Next]_vars, NEW id \in Threads, Begins(id)
      PROVE  task'[id] = submitted /\ task'[id] \notin invalid
  <2>1. TakeTask(id) /\ id = current
    BY <1>1, BeginningTakesTask, OnlyCurrentBegins DEF TrainingInvariant
  <2>2. queue[id] # << >> /\ task'[id] = queue[id][Len(queue[id])]
    BY <1>1, <2>1 DEF TakeTask, HasTask, TrainingInvariant, TypeOK
  <2> QED
    BY <1>1, <2>1, <2>2 DEF TrainingInvariant, NewestIsLast
<1>2. TrainingInvariant /\ [Next]_vars
        => [\A id \in Threads :
              Begins(id) => task'[id] = submitted /\ task'[id] \notin invalid]_vars
  BY <1>1
<1> QED
  BY <1>2, TrainingInvariantHolds, PTL DEF Spec, NewestBegins

-----------------------------------------------------------------------------
(***************************************************************************)
(* The hand-over of items by an async_observer_process, for any number of  *)
(* items and of readers.                                                   *)
(***************************************************************************)

ThreadsOfAll == Readers \cup {Pipeline}

ObserverType ==
  /\ users \subseteq Readers
  /\ data \in Nat /\ arrived \in Nat /\ got \in Seq(Nat)
  /\ data_available \in BOOLEAN /\ data_set \in BOOLEAN /\ is_done \in BOOLEAN
  /\ pc \in [ThreadsOfAll ->
       {"idle", "setting", "stepping", "notifying", "ended", "cancelled",
        "getting", "told"}]
  /\ waiting \subseteq ThreadsOfAll

(* Where a thread can be when it waits, and who is a reader. *)
WaitsInCall ==
  /\ Pipeline \in waiting => pc[Pipeline] \in {"setting", "stepping"}
  /\ \A r \in Readers :
       /\ r \in waiting => pc[r] = "getting"
       /\ pc[r] # "idle" => r \in users
       /\ pc[r] \in {"idle", "getting", "notifying", "told"}

(* Every item that arrived was got, or is available, or is being set. *)
ItemsCounted ==
  ~is_done /\ pc[Pipeline] \in {"idle", "setting", "stepping", "notifying"} =>
    arrived = Len(got) + (IF data_available THEN 1 ELSE 0)
                       + (IF pc[Pipeline] = "setting" \/ data_set THEN 1 ELSE 0)

SetBeforeStep ==
  /\ data_set => /\ pc[Pipeline] = "stepping" /\ ~data_available
                 /\ ~is_done /\ data = arrived /\ Pipeline \notin waiting
  /\ is_done => data_available /\ pc[Pipeline] \in {"notifying", "ended"}
  /\ pc[Pipeline] = "ended" => is_done

ObserverInvariant ==
  /\ ObserverType
  /\ WaitsInCall
  /\ ItemsCounted
  /\ SetBeforeStep
  /\ EachItemOnce
  /\ NoLostWakeup

LEMMA ObserverInvariantInit == ObserverInit => ObserverInvariant
<1> USE ObserverAssumption
<1> SUFFICES ASSUME ObserverInit PROVE ObserverInvariant
  OBVIOUS
<1>1. ObserverType
  <2>1. pc \in [ThreadsOfAll -> {"idle"}] /\ got \in Seq(Nat)
    BY DEF ObserverInit, ThreadsOfAll
  <2> QED
    BY <2>1 DEF ObserverInit, ObserverType
<1>2. WaitsInCall /\ ItemsCounted /\ SetBeforeStep
  BY DEF ObserverInit, WaitsInCall, ItemsCounted, SetBeforeStep
<1>3. EachItemOnce /\ NoLostWakeup
  BY DEF ObserverInit, EachItemOnce, NoLostWakeup
<1> QED
  BY <1>1, <1>2, <1>3 DEF ObserverInvariant

LEMMA ObserverInvariantStep ==
  ObserverInvariant /\ [ObserverNext]_observerVars => ObserverInvariant'
<1> USE ObserverAssumption
<1> SUFFICES ASSUME ObserverInvariant, [ObserverNext]_observerVars PROVE ObserverInvariant'
  OBVIOUS
<1> USE DEF ObserverInvariant, ObserverType, WaitsInCall, ItemsCounted,
            SetBeforeStep, EachItemOnce, NoLostWakeup, ThreadsOfAll, Goes, At
<1>1. CASE TakeInput
  <2>1. ObserverType' /\ WaitsInCall'
    BY <1>1 DEF TakeInput
  <2>2. ItemsCounted' /\ SetBeforeStep'
    <3>1. Len(got) \in Nat /\ pc'[Pipeline] \in {"setting", "stepping"}
      BY <1>1 DEF TakeInput
    <3>2. CASE pc'[Pipeline] = "setting"
      <4>1. /\ arrived' = arrived + 1 /\ pc[Pipeline] = "idle" /\ ~data_set
            /\ UNCHANGED << data_available, data_set, is_done, got >>
        BY <1>1, <3>2 DEF TakeInput
      <4>2. arrived = Len(got) + (IF data_available THEN 1 ELSE 0) \/ is_done
        BY <4>1
      <4> QED
        BY <3>1, <3>2, <4>1, <4>2
    <3>3. CASE pc'[Pipeline] = "stepping"
      BY <1>1, <3>1, <3>3 DEF TakeInput
    <3> QED
      BY <3>1, <3>2, <3>3
  <2>3. EachItemOnce'
    BY <1>1 DEF TakeInput
  <2>4. NoLostWakeup'
    BY <1>1 DEF TakeInput
  <2> QED
    BY <2>1, <2>2, <2>3, <2>4
<1>2. CASE set_input
  <2>1. ObserverType' /\ WaitsInCall'
    BY <1>2 DEF set_input, Wait
  <2>2. ItemsCounted' /\ SetBeforeStep'
    BY <1>2 DEF set_input, Wait
  <2>3. EachItemOnce'
    BY <1>2 DEF set_input, Wait
  <2>4. NoLostWakeup'
    BY <1>2 DEF set_input, Wait
  <2> QED
    BY <2>1, <2>2, <2>3, <2>4
<1>3. CASE step
  <2>1. ObserverType' /\ WaitsInCall'
    BY <1>3 DEF step, Wait
  <2>0. Len(got) \in Nat
    OBVIOUS
  <2>2. ItemsCounted' /\ SetBeforeStep'
    <3>1. CASE data_available
      BY <1>3, <3>1 DEF step, Wait
    <3>2. CASE ~data_available
      <4>1. pc'[Pipeline] = "notifying" /\ ~is_done
        BY <1>3, <3>2 DEF step
      <4>2. data_available' = TRUE /\ data_set' = FALSE /\ is_done' = ~data_set
        BY <1>3, <3>2, <4>1 DEF step
      <4>3. UNCHANGED << got, arrived, data >> /\ pc[Pipeline] = "stepping"
        BY <1>3, <3>2 DEF step
      <4>4. arrived = Len(got) + (IF data_set THEN 1 ELSE 0)
        BY <2>0, <3>2, <4>1, <4>3
      <4>5. ItemsCounted'
        <5>1. CASE data_set
          <6>1. arrived' = Len(got') + 1
            BY <2>0, <4>3, <4>4, <5>1
          <6> QED
            BY <4>1, <4>2, <5>1, <6>1
        <5>2. CASE ~data_set
          BY <4>2, <5>2
        <5> QED
          BY <5>1, <5>2
      <4>6. SetBeforeStep'
        BY <4>1, <4>2
      <4> QED
        BY <4>5, <4>6
    <3> QED
      BY <3>1, <3>2
  <2>3. EachItemOnce'
    <3>1. CASE data_available
      BY <1>3, <3>1 DEF step, Wait
    <3>2. CASE ~data_available /\ data_set
      BY <1>3, <2>0, <3>2 DEF step
    <3>3. CASE ~data_available /\ ~data_set
      BY <1>3, <3>3 DEF step
    <3> QED
      BY <3>1, <3>2, <3>3
  <2>4. NoLostWakeup'
    BY <1>3 DEF step, Wait
  <2> QED
    BY <2>1, <2>2, <2>3, <2>4
<1>4. CASE StepReturns
  <2>1. ObserverType' /\ WaitsInCall'
    BY <1>4 DEF StepReturns, NotifyOne
  <2>2. ItemsCounted' /\ SetBeforeStep'
    BY <1>4 DEF StepReturns, NotifyOne
  <2>3. EachItemOnce'
    BY <1>4 DEF StepReturns, NotifyOne
  <2>4. NoLostWakeup'
    BY <1>4 DEF StepReturns, NotifyOne
  <2> QED
    BY <2>1, <2>2, <2>3, <2>4
<1>5. CASE Interrupted
  <2>1. ObserverType' /\ WaitsInCall'
    BY <1>5 DEF Interrupted
  <2>2. ItemsCounted' /\ SetBeforeStep'
    <3>1. pc'[Pipeline] = "cancelled" /\ ~is_done
      BY <1>5 DEF Interrupted
    <3>2. ~data_set
      BY <1>5 DEF Interrupted
    <3> QED
      BY <1>5, <3>1, <3>2 DEF Interrupted
  <2>3. EachItemOnce'
    BY <1>5 DEF Interrupted
  <2>4. NoLostWakeup'
    BY <1>5 DEF Interrupted
  <2> QED
    BY <2>1, <2>2, <2>3, <2>4
<1>6. CASE SpuriousWakeup
  <2>1. ObserverType' /\ WaitsInCall'
    BY <1>6 DEF SpuriousWakeup
  <2>2. ItemsCounted' /\ SetBeforeStep'
    BY <1>6 DEF SpuriousWakeup
  <2>3. EachItemOnce'
    BY <1>6 DEF SpuriousWakeup
  <2>4. NoLostWakeup'
    BY <1>6 DEF SpuriousWakeup
  <2> QED
    BY <2>1, <2>2, <2>3, <2>4
<1>7. ASSUME NEW r \in Readers, Call(r) PROVE ObserverInvariant'
  <2>1. ObserverType' /\ WaitsInCall'
    BY <1>7 DEF Call
  <2>2. ItemsCounted' /\ SetBeforeStep'
    BY <1>7 DEF Call
  <2>3. EachItemOnce'
    BY <1>7 DEF Call
  <2>4. NoLostWakeup'
    BY <1>7 DEF Call
  <2> QED
    BY <2>1, <2>2, <2>3, <2>4
<1>8. ASSUME NEW r \in Readers, get_data(r) PROVE ObserverInvariant'
  <2>0. r # Pipeline /\ pc'[Pipeline] = pc[Pipeline] /\ Len(got) \in Nat
    BY <1>8 DEF get_data, Wait
  <2>1. ObserverType' /\ WaitsInCall'
    <3>1. ObserverType'
      <4>1. data_available' \in BOOLEAN
        BY <1>8 DEF get_data, Wait
      <4>4. got' = got \/ got' = Append(got, data)
        BY <1>8 DEF get_data, Wait
      <4>5. got' \in Seq(Nat)
        BY <4>4
      <4>2. waiting' \subseteq ThreadsOfAll
        BY <1>8 DEF get_data, Wait
      <4>3. pc' \in [ThreadsOfAll ->
              {"idle", "setting", "stepping", "notifying", "ended", "cancelled",
               "getting", "told"}]
        BY <1>8 DEF get_data, Wait
      <4> QED
        BY <1>8, <4>1, <4>2, <4>3, <4>5 DEF get_data, Wait
    <3>2. WaitsInCall'
      BY <1>8, <2>0 DEF get_data, Wait
    <3> QED
      BY <3>1, <3>2
  <2>2. ItemsCounted' /\ SetBeforeStep'
    <3>1. CASE data_available /\ ~is_done
      <4>1. got' = Append(got, data) /\ ~data_available' /\ ~data_set /\ ~is_done'
        BY <1>8, <3>1 DEF get_data
      <4>2. Len(got') = Len(got) + 1
        BY <4>1
      <4> QED
        BY <1>8, <2>0, <3>1, <4>1, <4>2 DEF get_data
    <3>2. CASE ~data_available \/ is_done
      BY <1>8, <2>0, <3>2 DEF get_data, Wait
    <3> QED
      BY <3>1, <3>2
  <2>3. EachItemOnce'
    BY SMTT(30), <1>8 DEF get_data, Wait
  <2>4. NoLostWakeup'
    BY <1>8 DEF get_data, Wait
  <2> QED
    BY <2>1, <2>2, <2>3, <2>4
<1>9. ASSUME NEW r \in Readers, GetReturns(r) PROVE ObserverInvariant'
  <2>1. ObserverType' /\ WaitsInCall'
    BY <1>9 DEF GetReturns, NotifyOne
  <2>2. ItemsCounted' /\ SetBeforeStep'
    BY <1>9 DEF GetReturns, NotifyOne
  <2>3. EachItemOnce'
    BY <1>9 DEF GetReturns, NotifyOne
  <2>4. NoLostWakeup'
    BY <1>9 DEF GetReturns, NotifyOne
  <2> QED
    BY <2>1, <2>2, <2>3, <2>4
<1>10. CASE UNCHANGED observerVars
  BY <1>10 DEF observerVars
<1> QED
  BY <1>1, <1>2, <1>3, <1>4, <1>5, <1>6, <1>7, <1>8, <1>9, <1>10
     DEF ObserverNext, PipelineStep, ReaderStep

(* The invariant of an async_observer_process.                             *)
THEOREM ObserverInvariantHolds == ObserverSpec => []ObserverInvariant
<1> QED
  BY ObserverInvariantInit, ObserverInvariantStep, PTL DEF ObserverSpec

(* The readers of async_observer_process::get_data() get every item of the *)
(* pipeline once, and in order.                                            *)
THEOREM ItemsAreGotOnce == ObserverSpec => []EachItemOnce
<1>1. ObserverInvariant => EachItemOnce
  BY DEF ObserverInvariant
<1> QED
  BY ObserverInvariantHolds, <1>1, PTL

(* With one reader no notify_one() of the observer process is lost.        *)
THEOREM OneReaderIsWoken == ObserverSpec => []NoLostWakeup
<1>1. ObserverInvariant => NoLostWakeup
  BY DEF ObserverInvariant
<1> QED
  BY ObserverInvariantHolds, <1>1, PTL

-----------------------------------------------------------------------------
(***************************************************************************)
(* The tasks that process_tasks() deals out, for any number of threads, of *)
(* tasks and of frames.                                                    *)
(***************************************************************************)

(* process_tasks() has still to start thread id. *)
Unstarted(id) ==
  \/ processing.pc = "starting" /\ processing.id <= id
  \/ processing.pc = "notifying" /\ processing.id < id

(* It has seen thread id finish, or has returned. *)
Collected(id) ==
  \/ processing.pc = "idle"
  \/ processing.pc \in {"locking", "deciding", "waiting"} /\ id < processing.id

(* The tasks of thread id that have failed in this frame. *)
FailuresOf(id) == {t \in failed : t % ThreadCount = id}

(* A task is in the queue of its thread, or was executed once. *)
TasksDealt ==
  /\ \E n \in Nat : DOMAIN executed = 0 .. n - 1
  /\ \A id \in Ids : \A t \in worker_queue[id] : t % ThreadCount = id
  /\ \A t \in DOMAIN executed :
       executed[t] = IF t \in worker_queue[t % ThreadCount] THEN 0 ELSE 1

(* What the status of a thread says of the thread, its queue and its       *)
(* failures. *)
StatusTells(id) ==
  /\ worker[id] = "tasked" => thread_status[id] = "TASKED"
  /\ worker[id] \in {"executing", "crashed"} => thread_status[id] = "RUNNING"
  /\ Unstarted(id) \/ Collected(id) => thread_status[id] = "WAITING"
  /\ thread_status[id] \in FinishedStatus \/ Collected(id) => worker_queue[id] = {}
  /\ thread_status[id] \in {"TASKED", "FINISHED_W_SUCCESS"} \/ Unstarted(id)
       => FailuresOf(id) = {}
  /\ thread_status[id] = "FINISHED_W_FAILURE" => FailuresOf(id) # {}
  /\ worker[id] = "executing" => (success[id] <=> FailuresOf(id) = {})

(* The result tells of the failures of the threads collected so far. *)
ResultSoFar == result <=> \A id \in Ids : Collected(id) => FailuresOf(id) = {}

DescriptorInvariant ==
  /\ DescriptorTypes
  /\ TasksDealt
  /\ \A id \in Ids : StatusTells(id)
  /\ ResultSoFar

(* A queue that is not empty has a front. *)
LEMMA FrontOfTasks ==
  ASSUME NEW q \in SUBSET Nat, q # {}
  PROVE  Front(q) \in q
<1>1. PICK t \in q : \A u \in q : << u, t >> \notin OpToRel(<, Nat)
  BY WFMin, NatLessThanWellFounded
<1>2. ASSUME NEW u \in q PROVE t <= u
  <2>1. u \in Nat /\ t \in Nat
    OBVIOUS
  <2>2. u < t => << u, t >> \in OpToRel(<, Nat)
    BY <2>1 DEF OpToRel
  <2>3. ~(u < t)
    BY <1>1, <2>2
  <2> QED
    BY <2>1, <2>3
<1> QED
  BY <1>2 DEF Front

(* Each task is dealt to one thread. *)
LEMMA OwnerOfTask ==
  ASSUME NEW n \in Nat
  PROVE  /\ \A t \in 0 .. n - 1 : /\ t % ThreadCount \in Ids
                                  /\ t \in Share(n, t % ThreadCount)
         /\ \A id \in Ids : /\ Share(n, id) \subseteq 0 .. n - 1
                            /\ \A t \in Share(n, id) : t % ThreadCount = id
<1>1. ASSUME NEW t \in 0 .. n - 1 PROVE t % ThreadCount \in Ids
  <2>1. t \in Nat /\ ThreadCount \in Nat /\ ThreadCount > 0
    BY DescriptorAssumption
  <2>2. t % ThreadCount \in 0 .. ThreadCount - 1
    BY <2>1
  <2> QED
    BY <2>2 DEF Ids
<1> QED
  BY <1>1 DEF Share

(* The loops over the threads go from one thread to the next. *)
LEMMA NextThread ==
  ASSUME NEW id \in Ids
  PROVE  /\ id \in Nat /\ ThreadCount \in Nat /\ 0 \in Ids
         /\ IF id + 1 < ThreadCount
            THEN /\ id + 1 \in Ids
                 /\ AfterStart(id) = [pc |-> "starting", id |-> id + 1]
                 /\ AfterCollect(id) = [pc |-> "locking", id |-> id + 1]
            ELSE /\ \A j \in Ids : j <= id
                 /\ AfterStart(id) = [pc |-> "locking", id |-> 0]
                 /\ AfterCollect(id) = [pc |-> "idle", id |-> 0]
BY DescriptorAssumption DEF Ids, AfterStart, AfterCollect

LEMMA DescriptorInvariantInit == DescriptorInit => DescriptorInvariant
<1> SUFFICES ASSUME DescriptorInit PROVE DescriptorInvariant
  OBVIOUS
<1>1. 0 \in Ids /\ MaxCalls \in Nat
  BY DescriptorAssumption DEF Ids
<1>2. DOMAIN executed = {} /\ executed \in [{} -> Nat]
  BY DEF DescriptorInit
<1>3. DescriptorTypes
  BY <1>1, <1>2 DEF DescriptorInit, DescriptorTypes, Status
<1>4. TasksDealt
  <2>1. 0 \in Nat /\ 0 .. 0 - 1 = {}
    OBVIOUS
  <2>2. \E n \in Nat : DOMAIN executed = 0 .. n - 1
    BY <1>2, <2>1
  <2> QED
    BY <1>2, <2>2 DEF TasksDealt, DescriptorInit
<1>5. \A id \in Ids : StatusTells(id)
  BY DEF StatusTells, DescriptorInit, FailuresOf, Unstarted, Collected, FinishedStatus
<1>6. ResultSoFar
  BY DEF ResultSoFar, DescriptorInit, FailuresOf
<1> QED
  BY <1>3, <1>4, <1>5, <1>6 DEF DescriptorInvariant

(* Every step keeps the types. *)
LEMMA DescriptorTypesStep ==
  DescriptorInvariant /\ [DescriptorNext]_descriptorVars => DescriptorTypes'
<1> SUFFICES ASSUME DescriptorTypes, TasksDealt, \A id \in Ids : StatusTells(id),
                    [DescriptorNext]_descriptorVars
             PROVE  DescriptorTypes'
  BY DEF DescriptorInvariant
<1> USE DEF DescriptorTypes
<1>1. ASSUME NEW id \in Ids, WorkerStep(id)
      PROVE  DescriptorTypes'
  <2>1. CASE LookForTasks(id)
    BY <2>1 DEF LookForTasks, callVars, taskVars
  <2>2. CASE BeginWait(id)
    BY <2>2 DEF BeginWait, Interruptible, callVars, taskVars
  <2>3. CASE WaitEnds(id)
    BY <2>3 DEF WaitEnds, Interruptible, callVars, taskVars
  <2>4. CASE BeginTasks(id)
    BY <2>4 DEF BeginTasks, callVars, taskVars, Status
  <2>5. CASE ExecuteTask(id)
    <3> DEFINE front == Front(worker_queue[id])
    <3>1. PICK outcome \in Outcomes :
            /\ worker_queue' = [worker_queue EXCEPT ![id] = @ \ {front}]
            /\ executed' = [executed EXCEPT ![front] = @ + 1]
            /\ failed' = failed \cup (IF outcome = "fails" THEN {front} ELSE {})
            /\ success' = [success EXCEPT ![id] = @ /\ outcome # "fails"]
            /\ worker' = [worker EXCEPT ![id] = IF outcome = "throws"
                                                THEN "crashed" ELSE @]
      BY <2>5 DEF ExecuteTask
    <3>2. front \in DOMAIN executed
      <4>1. worker_queue[id] \in SUBSET Nat /\ worker_queue[id] # {}
        BY <2>5 DEF ExecuteTask, TasksDealt
      <4> QED
        BY <4>1, FrontOfTasks
    <3> HIDE DEF front
    <3>3. /\ DOMAIN executed' = DOMAIN executed
          /\ executed' \in [DOMAIN executed -> Nat]
      BY <3>1, <3>2
    <3>4. /\ worker[id] = "executing"
          /\ UNCHANGED << processing, thread_status, mutex, result, calls, shut_down >>
      BY <2>5 DEF ExecuteTask, callVars
    <3>5. /\ worker_queue' \in [Ids -> SUBSET DOMAIN executed]
          /\ failed' \subseteq DOMAIN executed
          /\ success' \in [Ids -> BOOLEAN]
      BY <3>1, <3>2
    <3> QED
      BY <3>1, <3>3, <3>4, <3>5
  <2>6. CASE FinishTasks(id)
    BY <2>6 DEF FinishTasks, callVars, taskVars, Status, FinishedStatus
  <2>7. CASE NotifyFinished(id)
    BY <2>7 DEF NotifyFinished, callVars, taskVars
  <2> QED
    BY <1>1, <2>1, <2>2, <2>3, <2>4, <2>5, <2>6, <2>7 DEF WorkerStep
<1>2. ASSUME CallerStep
      PROVE  DescriptorTypes'
  <2>1. /\ processing.id \in Ids
        /\ AfterStart(processing.id) \in [pc : {"starting", "locking"}, id : Ids]
        /\ AfterCollect(processing.id) \in [pc : {"locking", "idle"}, id : Ids]
    BY NextThread
  <2>2. CASE StartThread
    BY <2>1, <2>2 DEF StartThread, callVars, taskVars, Status, FinishedStatus
  <2>3. CASE NotifyThread
    BY <2>1, <2>3 DEF NotifyThread, callVars, taskVars
  <2>4. CASE CollectThread
    <3>1. CASE thread_status[processing.id] \in FinishedStatus
      <4>1. /\ thread_status' = [thread_status EXCEPT ![processing.id] = "WAITING"]
            /\ processing' = AfterCollect(processing.id)
            /\ processing.pc = "locking" /\ result' \in BOOLEAN
            /\ UNCHANGED << mutex, worker, worker_queue, success, calls, shut_down,
                            executed, failed >>
        BY <2>4, <3>1 DEF CollectThread, Collect, taskVars
      <4>2. thread_status' \in [Ids -> Status]
        BY <4>1 DEF Status
      <4> HIDE DEF DescriptorTypes
      <4>3. processing' \in [pc : {"idle", "locking"}, id : Ids]
        BY <2>1, <4>1
      <4> QED
        BY <4>1, <4>2, <4>3 DEF DescriptorTypes
    <3>2. CASE thread_status[processing.id] \notin FinishedStatus
      BY <2>1, <2>4, <3>2 DEF CollectThread, Collect, taskVars
    <3> QED
      BY <3>1, <3>2
  <2>5. CASE CallerBeginsWait
    BY <2>1, <2>5 DEF CallerBeginsWait, callVars, taskVars
  <2>6. CASE CallerWaitEnds
    BY <2>1, <2>6 DEF CallerWaitEnds, callVars, taskVars
  <2> QED
    BY <1>2, <2>2, <2>3, <2>4, <2>5, <2>6 DEF CallerStep
<1>3. ASSUME ProcessTasks
      PROVE  DescriptorTypes'
  <2>1. PICK n \in TaskCounts :
          /\ executed' = [t \in 0 .. n - 1 |-> 0]
          /\ worker_queue' = [id \in Ids |-> worker_queue[id] \cup Share(n, id)]
    BY <1>3 DEF ProcessTasks
  <2>2. /\ 0 \in Ids /\ n \in Nat
        /\ \A id \in Ids : Share(n, id) \subseteq 0 .. n - 1
    BY NextThread, OwnerOfTask, DescriptorAssumption
  <2>3. \A id \in Ids : worker_queue[id] = {}
    BY <1>3 DEF ProcessTasks, StatusTells, Collected
  <2>4. /\ executed' \in [DOMAIN executed' -> Nat]
        /\ worker_queue' \in [Ids -> SUBSET DOMAIN executed']
    BY <2>1, <2>2, <2>3
  <2>5. /\ processing' = [pc |-> "starting", id |-> 0] /\ processing.pc = "idle"
        /\ failed' = {} /\ result' = TRUE /\ calls' \in 0 .. MaxCalls
        /\ UNCHANGED << worker, thread_status, mutex, success, shut_down >>
    BY <1>3, DescriptorAssumption DEF ProcessTasks
  <2> QED
    BY <2>2, <2>4, <2>5
<1>4. ASSUME Shutdown
      PROVE  DescriptorTypes'
  BY <1>4 DEF Shutdown, taskVars
<1>5. ASSUME UNCHANGED descriptorVars
      PROVE  DescriptorTypes'
  BY <1>5 DEF descriptorVars, callVars, taskVars
<1> QED
  BY <1>1, <1>2, <1>3, <1>4, <1>5 DEF DescriptorNext

(* A step of a thread keeps the rest of the invariant: it changes what its *)
(* own status tells, and no other's. *)
LEMMA WorkerStepKeeps ==
  ASSUME DescriptorInvariant, NEW id \in Ids, WorkerStep(id)
  PROVE  TasksDealt' /\ (\A j \in Ids : StatusTells(j)') /\ ResultSoFar'
<1>1. /\ DescriptorTypes /\ TasksDealt /\ ResultSoFar
      /\ \A j \in Ids : StatusTells(j)
  BY DEF DescriptorInvariant
<1>2. /\ worker \in [Ids -> {"locking", "deciding", "waiting", "tasked",
                             "executing", "finished", "crashed", "ended"}]
      /\ thread_status \in [Ids -> Status] /\ success \in [Ids -> BOOLEAN]
  BY <1>1 DEF DescriptorTypes
(* A step that begins or ends no task, and after which process_tasks() is  *)
(* as far as before. *)
<1>3. ASSUME UNCHANGED << executed, failed, worker_queue, result >>,
             \A j \in Ids : (Unstarted(j)' <=> Unstarted(j)) /\ (Collected(j)' <=> Collected(j)),
             \A j \in Ids \ {id} : /\ worker'[j] = worker[j]
                                   /\ thread_status'[j] = thread_status[j]
                                   /\ success'[j] = success[j],
             StatusTells(id)'
      PROVE  TasksDealt' /\ (\A j \in Ids : StatusTells(j)') /\ ResultSoFar'
  <2>1. TasksDealt'
    BY <1>1, <1>3 DEF TasksDealt
  <2>2. \A j \in Ids : FailuresOf(j)' = FailuresOf(j)
    BY <1>3 DEF FailuresOf
  <2>3. ASSUME NEW j \in Ids \ {id} PROVE StatusTells(j)'
    BY <1>1, <1>3, <2>2 DEF StatusTells
  <2>4. ResultSoFar'
    BY <1>1, <1>3, <2>2 DEF ResultSoFar
  <2> QED
    BY <1>3, <2>1, <2>3, <2>4
<1>4. ASSUME UNCHANGED processing
      PROVE  \A j \in Ids : /\ Unstarted(j)' <=> Unstarted(j)
                            /\ Collected(j)' <=> Collected(j)
  BY <1>4 DEF Unstarted, Collected
<1>5. ASSUME UNCHANGED << executed, failed, worker_queue, result, processing,
                          thread_status, success >>,
             NEW to \in {"locking", "deciding", "waiting", "ended"},
             worker' = [worker EXCEPT ![id] = to]
      PROVE  TasksDealt' /\ (\A j \in Ids : StatusTells(j)') /\ ResultSoFar'
  <2>1. worker'[id] = to /\ \A j \in Ids \ {id} : worker'[j] = worker[j]
    BY <1>2, <1>5
  <2>2. FailuresOf(id)' = FailuresOf(id)
    BY <1>5 DEF FailuresOf
  <2>3. StatusTells(id)'
    BY <1>1, <1>4, <1>5, <2>1, <2>2 DEF StatusTells
  <2> QED
    BY <1>3, <1>4, <1>5, <2>1, <2>3
<1>6. CASE LookForTasks(id)
  <2>1. CASE thread_status[id] = "TASKED"
    <3>1. /\ worker' = [worker EXCEPT ![id] = "tasked"]
          /\ UNCHANGED << executed, failed, worker_queue, result, processing,
                          thread_status, success >>
      BY <1>6, <2>1 DEF LookForTasks, callVars, taskVars
    <3>2. worker'[id] = "tasked" /\ \A j \in Ids \ {id} : worker'[j] = worker[j]
      BY <1>2, <3>1
    <3>3. FailuresOf(id)' = FailuresOf(id)
      BY <3>1 DEF FailuresOf
    <3>4. StatusTells(id)'
      BY <1>1, <1>4, <2>1, <3>1, <3>2, <3>3 DEF StatusTells
    <3> QED
      BY <1>3, <1>4, <3>1, <3>2, <3>4
  <2>2. CASE thread_status[id] # "TASKED"
    BY <1>5, <1>6, <2>2 DEF LookForTasks, callVars, taskVars
  <2> QED
    BY <2>1, <2>2
<1>7. CASE BeginWait(id)
  BY <1>5, <1>7 DEF BeginWait, Interruptible, callVars, taskVars
<1>8. CASE WaitEnds(id)
  BY <1>5, <1>8 DEF WaitEnds, Interruptible, callVars, taskVars
<1>9. CASE BeginTasks(id)
  <2>1. /\ worker[id] = "tasked"
        /\ worker' = [worker EXCEPT ![id] = "executing"]
        /\ thread_status' = [thread_status EXCEPT ![id] = "RUNNING"]
        /\ success' = [success EXCEPT ![id] = TRUE]
        /\ UNCHANGED << executed, failed, worker_queue, result, processing >>
    BY <1>9 DEF BeginTasks, callVars, taskVars
  <2>2. /\ worker'[id] = "executing" /\ thread_status'[id] = "RUNNING" /\ success'[id] = TRUE
        /\ \A j \in Ids \ {id} : /\ worker'[j] = worker[j]
                                 /\ thread_status'[j] = thread_status[j]
                                 /\ success'[j] = success[j]
    BY <1>2, <2>1
  <2>3. FailuresOf(id)' = FailuresOf(id) /\ FailuresOf(id) = {}
    BY <1>1, <2>1 DEF FailuresOf, StatusTells
  <2>4. ~Unstarted(id) /\ ~Collected(id)
    BY <1>1, <2>1 DEF StatusTells
  <2>5. StatusTells(id)'
    BY <1>4, <2>1, <2>2, <2>3, <2>4 DEF StatusTells, FinishedStatus
  <2> QED
    BY <1>3, <1>4, <2>1, <2>2, <2>5
<1>10. CASE ExecuteTask(id)
  <2> DEFINE front == Front(worker_queue[id])
  <2>1. PICK outcome \in Outcomes :
          /\ worker_queue' = [worker_queue EXCEPT ![id] = @ \ {front}]
          /\ executed' = [executed EXCEPT ![front] = @ + 1]
          /\ failed' = failed \cup (IF outcome = "fails" THEN {front} ELSE {})
          /\ success' = [success EXCEPT ![id] = @ /\ outcome # "fails"]
          /\ worker' = [worker EXCEPT ![id] = IF outcome = "throws"
                                              THEN "crashed" ELSE @]
    BY <1>10 DEF ExecuteTask
  <2>2. /\ worker[id] = "executing" /\ worker_queue[id] # {}
        /\ UNCHANGED << processing, thread_status, result >>
    BY <1>10 DEF ExecuteTask, callVars
  <2>3. front \in worker_queue[id] /\ front \in DOMAIN executed
    <3>1. worker_queue[id] \in SUBSET Nat /\ worker_queue[id] \subseteq DOMAIN executed
      BY <1>1 DEF TasksDealt, DescriptorTypes
    <3> QED
      BY <2>2, <3>1, FrontOfTasks
  <2> HIDE DEF front
  <2>4. /\ front % ThreadCount = id
        /\ executed[front] = 0
    BY <1>1, <2>3 DEF TasksDealt
  <2>5. /\ worker_queue \in [Ids -> SUBSET DOMAIN executed]
        /\ executed \in [DOMAIN executed -> Nat]
    BY <1>1 DEF DescriptorTypes
  <2>6. /\ worker_queue'[id] = worker_queue[id] \ {front}
        /\ \A j \in Ids \ {id} : /\ worker_queue'[j] = worker_queue[j]
                                 /\ worker'[j] = worker[j]
                                 /\ success'[j] = success[j]
        /\ worker'[id] \in {"executing", "crashed"}
        /\ success'[id] = (success[id] /\ outcome # "fails")
    BY <1>2, <2>1, <2>2, <2>5
  <2>7. TasksDealt'
    <3>1. DOMAIN executed' = DOMAIN executed
      BY <2>1
    <3>2. \A j \in Ids : \A t \in worker_queue'[j] : t % ThreadCount = j
      BY <1>1, <2>6 DEF TasksDealt
    <3>3. ASSUME NEW t \in DOMAIN executed
          PROVE  executed'[t] = IF t \in worker_queue'[t % ThreadCount] THEN 0 ELSE 1
      <4>1. t % ThreadCount \in Ids
        BY <1>1, OwnerOfTask DEF TasksDealt
      <4>2. executed[t] = IF t \in worker_queue[t % ThreadCount] THEN 0 ELSE 1
        BY <1>1 DEF TasksDealt
      <4>3. CASE t = front
        <5>1. executed'[t] = 0 + 1
          BY <2>1, <2>3, <2>4, <4>3
        <5>2. t \notin worker_queue'[t % ThreadCount]
          BY <2>4, <2>6, <4>3
        <5> QED
          BY <5>1, <5>2
      <4>4. CASE t # front
        <5>1. executed'[t] = executed[t]
          BY <2>1, <4>4
        <5>2. t \in worker_queue'[t % ThreadCount] <=> t \in worker_queue[t % ThreadCount]
          BY <2>6, <4>1, <4>4
        <5> QED
          BY <4>2, <5>1, <5>2
      <4> QED
        BY <4>3, <4>4
    <3> QED
      BY <1>1, <3>1, <3>2, <3>3 DEF TasksDealt
  <2>8. /\ \A j \in Ids \ {id} : FailuresOf(j)' = FailuresOf(j)
        /\ FailuresOf(id)' = {} <=> FailuresOf(id) = {} /\ outcome # "fails"
    <3>1. CASE outcome = "fails"
      <4>1. failed' = failed \cup {front}
        BY <2>1, <3>1
      <4> QED
        BY <2>4, <3>1, <4>1 DEF FailuresOf
    <3>2. CASE outcome # "fails"
      <4>1. failed' = failed
        BY <2>1, <3>2
      <4> QED
        BY <3>2, <4>1 DEF FailuresOf
    <3> QED
      BY <3>1, <3>2
  <2>9. \A j \in Ids : (Unstarted(j)' <=> Unstarted(j)) /\ (Collected(j)' <=> Collected(j))
    BY <1>4, <2>2
  <2>10. thread_status[id] = "RUNNING" /\ ~Unstarted(id) /\ ~Collected(id)
         /\ (success[id] <=> FailuresOf(id) = {})
    BY <1>1, <2>2 DEF StatusTells
  <2>11. StatusTells(id)'
    BY <2>2, <2>6, <2>8, <2>9, <2>10 DEF StatusTells, FinishedStatus
  <2>12. ASSUME NEW j \in Ids \ {id} PROVE StatusTells(j)'
    BY <1>1, <2>2, <2>6, <2>8, <2>9 DEF StatusTells
  <2>13. ResultSoFar'
    BY <1>1, <2>2, <2>8, <2>9, <2>10 DEF ResultSoFar
  <2> QED
    BY <2>7, <2>11, <2>12, <2>13
<1>11. CASE FinishTasks(id)
  <2>1. /\ worker[id] = "executing" /\ worker_queue[id] = {}
        /\ worker' = [worker EXCEPT ![id] = "finished"]
        /\ thread_status' = [thread_status EXCEPT ![id] =
                               IF success[id] THEN "FINISHED_W_SUCCESS"
                                              ELSE "FINISHED_W_FAILURE"]
        /\ UNCHANGED << executed, failed, worker_queue, result, processing, success >>
    BY <1>11 DEF FinishTasks, callVars, taskVars
  <2>2. /\ worker'[id] = "finished"
        /\ thread_status'[id] = IF success[id] THEN "FINISHED_W_SUCCESS"
                                               ELSE "FINISHED_W_FAILURE"
        /\ \A j \in Ids \ {id} : /\ worker'[j] = worker[j]
                                 /\ thread_status'[j] = thread_status[j]
    BY <1>2, <2>1
  <2>3. FailuresOf(id)' = FailuresOf(id) /\ (success[id] <=> FailuresOf(id) = {})
    BY <1>1, <2>1 DEF FailuresOf, StatusTells
  <2>4. ~Unstarted(id) /\ ~Collected(id)
    BY <1>1, <2>1 DEF StatusTells
  <2>5. StatusTells(id)'
    BY <1>4, <2>1, <2>2, <2>3, <2>4 DEF StatusTells, FinishedStatus
  <2> QED
    BY <1>3, <1>4, <2>1, <2>2, <2>5
<1>12. CASE NotifyFinished(id)
  <2>1. /\ worker' = [worker EXCEPT ![id] = "locking"]
        /\ UNCHANGED << executed, failed, worker_queue, result, thread_status, success >>
        /\ \/ UNCHANGED processing
           \/ processing.pc = "waiting" /\ processing' = [processing EXCEPT !.pc = "locking"]
    BY <1>12 DEF NotifyFinished, callVars, taskVars
  <2>2. \A j \in Ids : (Unstarted(j)' <=> Unstarted(j)) /\ (Collected(j)' <=> Collected(j))
    <3>1. CASE UNCHANGED processing
      BY <1>4, <3>1
    <3>2. CASE processing.pc = "waiting" /\ processing' = [processing EXCEPT !.pc = "locking"]
      <4>1. processing'.pc = "locking" /\ processing'.id = processing.id
        BY <1>1, <3>2 DEF DescriptorTypes
      <4> QED
        BY <3>2, <4>1 DEF Unstarted, Collected
    <3> QED
      BY <2>1, <3>1, <3>2
  <2>3. worker'[id] = "locking" /\ \A j \in Ids \ {id} : worker'[j] = worker[j]
    BY <1>2, <2>1
  <2>4. FailuresOf(id)' = FailuresOf(id)
    BY <2>1 DEF FailuresOf
  <2>5. StatusTells(id)'
    BY <1>1, <2>1, <2>2, <2>3, <2>4 DEF StatusTells
  <2> QED
    BY <1>3, <2>1, <2>2, <2>3, <2>5
<1> QED
  BY <1>6, <1>7, <1>8, <1>9, <1>10, <1>11, <1>12 DEF WorkerStep

(* How far process_tasks() is when one of its loops goes on. *)
LEMMA NextStart ==
  ASSUME NEW id \in Ids, processing' = AfterStart(id)
  PROVE  \A j \in Ids : (Unstarted(j)' <=> id < j) /\ ~Collected(j)'
<1> SUFFICES ASSUME NEW j \in Ids
             PROVE  (Unstarted(j)' <=> id < j) /\ ~Collected(j)'
  OBVIOUS
<1>1. /\ id \in Int /\ j \in Int /\ j >= 0 /\ j < ThreadCount /\ ThreadCount \in Int
      /\ id + 1 <= j <=> id < j
  BY DescriptorAssumption DEF Ids
<1>2. CASE id + 1 < ThreadCount
  <2>1. processing' = [pc |-> "starting", id |-> id + 1]
    BY <1>2 DEF AfterStart
  <2>2. processing'.pc = "starting" /\ processing'.id = id + 1
    BY <2>1
  <2> QED
    BY <1>1, <2>2 DEF Unstarted, Collected
<1>3. CASE ~(id + 1 < ThreadCount)
  <2>1. processing' = [pc |-> "locking", id |-> 0]
    BY <1>3 DEF AfterStart
  <2>2. processing'.pc = "locking" /\ processing'.id = 0
    BY <2>1
  <2>3. ~(id < j) /\ ~(j < 0)
    BY <1>1, <1>3
  <2> QED
    BY <2>2, <2>3 DEF Unstarted, Collected
<1> QED
  BY <1>2, <1>3

LEMMA NextCollect ==
  ASSUME NEW id \in Ids, processing' = AfterCollect(id)
  PROVE  \A j \in Ids : ~Unstarted(j)' /\ (Collected(j)' <=> j < id \/ j = id)
<1> SUFFICES ASSUME NEW j \in Ids
             PROVE  ~Unstarted(j)' /\ (Collected(j)' <=> j < id \/ j = id)
  OBVIOUS
<1>1. /\ id \in Int /\ j \in Int /\ j >= 0 /\ j < ThreadCount /\ ThreadCount \in Int
      /\ j < id + 1 <=> j < id \/ j = id
  BY DescriptorAssumption DEF Ids
<1>2. CASE id + 1 < ThreadCount
  <2>1. processing' = [pc |-> "locking", id |-> id + 1]
    BY <1>2 DEF AfterCollect
  <2>2. processing'.pc = "locking" /\ processing'.id = id + 1
    BY <2>1
  <2> QED
    BY <1>1, <2>2 DEF Unstarted, Collected
<1>3. CASE ~(id + 1 < ThreadCount)
  <2>1. processing' = [pc |-> "idle", id |-> 0]
    BY <1>3 DEF AfterCollect
  <2>2. processing'.pc = "idle"
    BY <2>1
  <2>3. j < id \/ j = id
    BY <1>1, <1>3
  <2> QED
    BY <2>2, <2>3 DEF Unstarted, Collected
<1> QED
  BY <1>2, <1>3

(* A step of process_tasks() after its first keeps the rest of the         *)
(* invariant. *)
LEMMA CallerStepKeeps ==
  ASSUME DescriptorInvariant, CallerStep
  PROVE  TasksDealt' /\ (\A j \in Ids : StatusTells(j)') /\ ResultSoFar'
<1>1. /\ DescriptorTypes /\ TasksDealt /\ ResultSoFar
      /\ \A j \in Ids : StatusTells(j)
  BY DEF DescriptorInvariant
<1>0. PICK id \in Ids : id = processing.id
  BY <1>1 DEF DescriptorTypes
<1>2. /\ thread_status \in [Ids -> Status] /\ id \in Ids /\ id = processing.id
      /\ processing \in [pc : {"idle", "starting", "notifying", "locking", "deciding",
                               "waiting"}, id : Ids]
      /\ Ids \subseteq Int
  BY <1>1, <1>0 DEF DescriptorTypes, Ids
<1>3. UNCHANGED << executed, failed, worker_queue, success >>
  BY DEF CallerStep, StartThread, NotifyThread, CollectThread, Collect, CallerBeginsWait,
         CallerWaitEnds, callVars, taskVars
<1>4. TasksDealt' /\ \A j \in Ids : FailuresOf(j)' = FailuresOf(j)
  BY <1>1, <1>3 DEF TasksDealt, FailuresOf
<1>5. CASE StartThread
  <2>1. /\ processing.pc = "starting" /\ UNCHANGED << worker, result >>
        /\ \/ /\ worker_queue[id] = {}
              /\ thread_status' = [thread_status EXCEPT ![id] = "FINISHED_W_SUCCESS"]
              /\ processing' = AfterStart(id)
           \/ /\ thread_status' = [thread_status EXCEPT ![id] = "TASKED"]
              /\ processing' = [processing EXCEPT !.pc = "notifying"]
    BY <1>2, <1>5 DEF StartThread, callVars
  <2>2. /\ \A j \in Ids : /\ Unstarted(j) <=> id <= j
                          /\ ~Collected(j)
        /\ processing' = [processing EXCEPT !.pc = "notifying"]
             => processing'.pc = "notifying" /\ processing'.id = id
    BY <1>2, <2>1 DEF Unstarted, Collected
  <2>3. \A j \in Ids : /\ Unstarted(j)' <=> id < j
                       /\ ~Collected(j)'
    <3>1. CASE processing' = AfterStart(id)
      BY <1>2, <3>1, NextStart
    <3>2. CASE processing' = [processing EXCEPT !.pc = "notifying"]
      <4>1. processing'.pc = "notifying" /\ processing'.id = id
        BY <2>2, <3>2
      <4> QED
        BY <1>2, <4>1 DEF Unstarted, Collected
    <3> QED
      BY <2>1, <3>1, <3>2
  <2>4. /\ thread_status'[id] \in {"TASKED", "FINISHED_W_SUCCESS"}
        /\ thread_status'[id] = "FINISHED_W_SUCCESS" => worker_queue[id] = {}
        /\ \A j \in Ids \ {id} : thread_status'[j] = thread_status[j]
    BY <1>2, <2>1
  <2>5. ASSUME NEW j \in Ids PROVE StatusTells(j)'
    <3>1. CASE j = id
      <4>1. /\ worker[id] \notin {"tasked", "executing", "crashed"} /\ FailuresOf(id) = {}
            /\ ~Unstarted(id)' /\ ~Collected(id)'
        <5>1. Unstarted(id) /\ id \in Int /\ id <= id /\ ~(id < id)
          <6>1. id \in Int
            BY <1>2
          <6>2. id <= id /\ ~(id < id)
            BY <6>1
          <6> QED
            BY <1>2, <2>2, <6>1, <6>2
        <5>2. ~Unstarted(id)' /\ ~Collected(id)'
          BY <1>2, <2>3, <5>1
        <5> QED
          BY <1>1, <1>2, <5>1, <5>2 DEF StatusTells
      <4> QED
        BY <1>3, <1>4, <2>1, <2>4, <3>1, <4>1 DEF StatusTells, FinishedStatus
    <3>2. CASE j # id
      <4>1. Unstarted(j)' => Unstarted(j)
        BY <1>2, <2>2, <2>3
      <4> QED
        BY <1>1, <1>3, <1>4, <2>1, <2>3, <2>4, <3>2, <4>1 DEF StatusTells
    <3> QED
      BY <3>1, <3>2
  <2>6. ResultSoFar'
    BY <1>1, <2>1, <2>2, <2>3 DEF ResultSoFar
  <2> QED
    BY <1>4, <2>5, <2>6
<1>6. CASE NotifyThread
  <2>1. /\ processing.pc = "notifying" /\ UNCHANGED << thread_status, result >>
        /\ worker' = IF worker[id] = "waiting" THEN [worker EXCEPT ![id] = "locking"]
                                               ELSE worker
        /\ processing' = AfterStart(id)
    BY <1>2, <1>6 DEF NotifyThread, callVars
  <2>2. \A j \in Ids : worker'[j] = worker[j] \/ worker'[j] = "locking"
    BY <1>1, <1>2, <2>1 DEF DescriptorTypes
  <2>3. \A j \in Ids : /\ Unstarted(j)' <=> Unstarted(j)
                       /\ ~Collected(j) /\ ~Collected(j)'
    <3>1. \A j \in Ids : (Unstarted(j)' <=> id < j) /\ ~Collected(j)'
      BY <1>2, <2>1, NextStart
    <3>2. \A j \in Ids : (Unstarted(j) <=> id < j) /\ ~Collected(j)
      BY <1>2, <2>1 DEF Unstarted, Collected
    <3> QED
      BY <3>1, <3>2
  <2>4. ASSUME NEW j \in Ids PROVE StatusTells(j)'
    BY <1>1, <1>3, <1>4, <2>1, <2>2, <2>3 DEF StatusTells
  <2>5. ResultSoFar'
    BY <1>1, <2>1, <2>3 DEF ResultSoFar
  <2> QED
    BY <1>4, <2>4, <2>5
<1>7. ASSUME UNCHANGED << worker, thread_status, result >>,
             processing.pc \in {"locking", "deciding", "waiting"},
             processing'.pc \in {"locking", "deciding", "waiting"},
             processing'.id = processing.id
      PROVE  TasksDealt' /\ (\A j \in Ids : StatusTells(j)') /\ ResultSoFar'
  <2>1. \A j \in Ids : (Unstarted(j)' <=> Unstarted(j)) /\ (Collected(j)' <=> Collected(j))
    BY <1>7 DEF Unstarted, Collected
  <2>2. ASSUME NEW j \in Ids PROVE StatusTells(j)'
    BY <1>1, <1>3, <1>4, <1>7, <2>1 DEF StatusTells
  <2>3. ResultSoFar'
    BY <1>1, <1>4, <1>7, <2>1 DEF ResultSoFar
  <2> QED
    BY <1>4, <2>2, <2>3
<1>8. CASE CollectThread
  <2>1. CASE thread_status[id] \in FinishedStatus
    <3>1. /\ processing.pc = "locking" /\ UNCHANGED worker
          /\ result' = (result /\ thread_status[id] # "FINISHED_W_FAILURE")
          /\ thread_status' = [thread_status EXCEPT ![id] = "WAITING"]
          /\ processing' = AfterCollect(id)
      BY <1>2, <1>8, <2>1 DEF CollectThread, Collect
    <3>2. /\ thread_status'[id] = "WAITING"
          /\ \A j \in Ids \ {id} : thread_status'[j] = thread_status[j]
      BY <1>2, <3>1
    <3>3. \A j \in Ids : /\ ~Unstarted(j) /\ ~Unstarted(j)'
                         /\ Collected(j) <=> j < id
                         /\ Collected(j)' <=> j < id \/ j = id
      <4>1. \A j \in Ids : ~Unstarted(j) /\ (Collected(j) <=> j < id)
        BY <1>2, <3>1 DEF Unstarted, Collected
      <4>2. \A j \in Ids : ~Unstarted(j)' /\ (Collected(j)' <=> j < id \/ j = id)
        BY <1>2, <3>1, NextCollect
      <4> QED
        BY <4>1, <4>2
    <3>4. /\ worker_queue[id] = {} /\ worker[id] \notin {"tasked", "executing", "crashed"}
          /\ thread_status[id] # "FINISHED_W_FAILURE" <=> FailuresOf(id) = {}
      BY <1>1, <1>2, <2>1 DEF StatusTells, FinishedStatus
    <3>5. ASSUME NEW j \in Ids PROVE StatusTells(j)'
      <4>1. CASE j = id
        BY <1>3, <3>1, <3>2, <3>3, <3>4, <4>1 DEF StatusTells, FinishedStatus
      <4>2. CASE j # id
        BY <1>1, <1>3, <1>4, <3>1, <3>2, <3>3, <4>2 DEF StatusTells
      <4> QED
        BY <4>1, <4>2
    <3>6. ResultSoFar'
      <4>1. result <=> \A j \in Ids : j < id => FailuresOf(j) = {}
        BY <1>1, <3>3 DEF ResultSoFar
      <4>2. result' <=> \A j \in Ids : j < id \/ j = id => FailuresOf(j) = {}
        <5>1. (\A j \in Ids : j < id \/ j = id => FailuresOf(j) = {})
                <=> (\A j \in Ids : j < id => FailuresOf(j) = {}) /\ FailuresOf(id) = {}
          BY <1>2
        <5>2. result' <=> result /\ FailuresOf(id) = {}
          BY <3>1, <3>4
        <5> QED
          BY <4>1, <5>1, <5>2
      <4> QED
        BY <1>4, <3>3, <4>2 DEF ResultSoFar
    <3> QED
      BY <1>4, <3>5, <3>6
  <2>2. CASE thread_status[id] \notin FinishedStatus
    <3>1. /\ processing.pc = "locking" /\ UNCHANGED << worker, thread_status, result >>
          /\ processing' = [processing EXCEPT !.pc = "deciding"]
      BY <1>2, <1>8, <2>2 DEF CollectThread, Collect
    <3>2. processing'.pc = "deciding" /\ processing'.id = processing.id
      BY <1>2, <3>1
    <3> QED
      BY <1>7, <3>1, <3>2
  <2> QED
    BY <2>1, <2>2
<1>9. CASE CallerBeginsWait
  <2>1. /\ processing.pc = "deciding" /\ UNCHANGED << worker, thread_status, result >>
        /\ processing' = [processing EXCEPT !.pc = "waiting"]
    BY <1>9 DEF CallerBeginsWait, callVars
  <2>2. processing'.pc = "waiting" /\ processing'.id = processing.id
    BY <1>2, <2>1
  <2> QED
    BY <1>7, <2>1, <2>2
<1>10. CASE CallerWaitEnds
  <2>1. /\ processing.pc = "waiting" /\ UNCHANGED << worker, thread_status, result >>
        /\ processing' = [processing EXCEPT !.pc = "locking"]
    BY <1>10 DEF CallerWaitEnds, callVars
  <2>2. processing'.pc = "locking" /\ processing'.id = processing.id
    BY <1>2, <2>1
  <2> QED
    BY <1>7, <2>1, <2>2
<1> QED
  BY <1>5, <1>6, <1>8, <1>9, <1>10 DEF CallerStep

(* The first step of process_tasks() finds every queue empty, and deals    *)
(* the new tasks out to them. *)
LEMMA ProcessTasksKeeps ==
  ASSUME DescriptorInvariant, ProcessTasks
  PROVE  TasksDealt' /\ (\A j \in Ids : StatusTells(j)') /\ ResultSoFar'
<1>1. PICK n \in TaskCounts :
        /\ executed' = [t \in 0 .. n - 1 |-> 0]
        /\ worker_queue' = [id \in Ids |-> worker_queue[id] \cup Share(n, id)]
  BY DEF ProcessTasks
<1>2. /\ processing.pc = "idle" /\ failed' = {} /\ result' = TRUE
      /\ processing' = [pc |-> "starting", id |-> 0]
      /\ UNCHANGED << worker, thread_status >>
  BY DEF ProcessTasks
<1>3. n \in Nat /\ \A j \in Ids : 0 <= j
  BY DescriptorAssumption DEF Ids
<1>4. \A j \in Ids : /\ StatusTells(j) /\ Collected(j)
                     /\ Unstarted(j)' /\ ~Collected(j)' /\ FailuresOf(j)' = {}
  <2>1. processing'.pc = "starting" /\ processing'.id = 0
    BY <1>2
  <2> QED
    BY <1>2, <1>3, <2>1 DEF Unstarted, Collected, FailuresOf, DescriptorInvariant
<1>5. \A j \in Ids : worker_queue'[j] = Share(n, j)
  BY <1>1, <1>4 DEF StatusTells
<1>6. TasksDealt'
  BY <1>1, <1>3, <1>5, OwnerOfTask DEF TasksDealt
<1>7. \A j \in Ids : StatusTells(j)'
  BY <1>2, <1>4 DEF StatusTells, FinishedStatus
<1>8. ResultSoFar'
  BY <1>2, <1>4 DEF ResultSoFar
<1> QED
  BY <1>6, <1>7, <1>8

(* The inductive invariant: process_tasks() and the threads of             *)
(* online_descriptor_thread_system agree on what was done and what failed. *)
THEOREM DescriptorInvariantHolds == DescriptorSpec => []DescriptorInvariant
<1>1. DescriptorInvariant /\ [DescriptorNext]_descriptorVars => DescriptorInvariant'
  <2> SUFFICES ASSUME DescriptorInvariant, [DescriptorNext]_descriptorVars
               PROVE  TasksDealt' /\ (\A j \in Ids : StatusTells(j)') /\ ResultSoFar'
    BY DescriptorTypesStep DEF DescriptorInvariant
  <2>1. CASE \E id \in Ids : WorkerStep(id)
    BY <2>1, WorkerStepKeeps
  <2>2. CASE CallerStep
    BY <2>2, CallerStepKeeps
  <2>3. CASE ProcessTasks
    BY <2>3, ProcessTasksKeeps
  <2>4. CASE Shutdown \/ UNCHANGED descriptorVars
    <3>1. UNCHANGED << processing, worker, thread_status, worker_queue, success, result,
                       executed, failed >>
      BY <2>4 DEF Shutdown, descriptorVars, callVars, taskVars
    <3> QED
      BY <3>1 DEF DescriptorInvariant, TasksDealt, StatusTells, ResultSoFar, Unstarted,
                  Collected, FailuresOf
  <2> QED
    BY <2>1, <2>2, <2>3, <2>4 DEF DescriptorNext
<1> QED
  BY <1>1, DescriptorInvariantInit, PTL DEF DescriptorSpec

(* For any number of threads, tasks and frames process_tasks() returns     *)
(* true if and only if no task of this frame failed: no failure is lost    *)
(* between flag, status and result, and none is reported for a later frame.*)
THEOREM ResultIsExact == DescriptorSpec => []ResultTellsFailure
<1>1. DescriptorInvariant => ResultTellsFailure
  <2> SUFFICES ASSUME DescriptorInvariant, processing.pc = "idle"
               PROVE  result <=> failed = {}
    BY DEF ResultTellsFailure
  <2>1. \A t \in failed : t % ThreadCount \in Ids
    BY OwnerOfTask DEF DescriptorInvariant, DescriptorTypes, TasksDealt
  <2>2. result <=> \A id \in Ids : FailuresOf(id) = {}
    BY DEF DescriptorInvariant, ResultSoFar, Collected
  <2> QED
    BY <2>1, <2>2 DEF FailuresOf
<1> QED
  BY <1>1, DescriptorInvariantHolds, PTL

(* For any number of threads, tasks and frames: when process_tasks()       *)
(* returns, each task of the frame was executed once, and no thread is at  *)
(* one.                                                                    *)
THEOREM TasksAreDoneOnce == DescriptorSpec => []EachTaskOnce
<1>1. DescriptorInvariant => EachTaskOnce
  <2> SUFFICES ASSUME DescriptorInvariant, processing.pc = "idle"
               PROVE  /\ \A t \in DOMAIN executed : executed[t] = 1
                      /\ \A id \in Ids : /\ worker_queue[id] = {}
                                         /\ worker[id] \notin {"tasked", "executing"}
    BY DEF EachTaskOnce
  <2>1. \A id \in Ids : StatusTells(id) /\ Collected(id)
    BY DEF DescriptorInvariant, Collected
  <2>2. \A id \in Ids : /\ worker_queue[id] = {}
                        /\ worker[id] \notin {"tasked", "executing"}
    BY <2>1 DEF StatusTells
  <2>3. ASSUME NEW t \in DOMAIN executed PROVE executed[t] = 1
    <3>1. t % ThreadCount \in Ids
      BY OwnerOfTask DEF DescriptorInvariant, TasksDealt
    <3> QED
      BY <2>2, <3>1 DEF DescriptorInvariant, TasksDealt
  <2> QED
    BY <2>2, <2>3
<1> QED
  BY <1>1, DescriptorInvariantHolds, PTL
=============================================================================
