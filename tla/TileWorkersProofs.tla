-------------------------- MODULE TileWorkersProofs --------------------------
(***************************************************************************)
(* The safety properties of TileWorkers for every number of threads, of    *)
(* tiles and of calls.                                                     *)
(***************************************************************************)
EXTENDS TileWorkers, WellFoundedInduction, TLAPS

(* apply_function() has still to start thread id. *)
Unstarted(id) ==
  \/ caller.pc = "starting" /\ caller.id <= id
  \/ caller.pc = "notifying" /\ caller.id < id

(* It waits for the threads to finish, in their order. *)
Waits == caller.pc \in {"locking", "deciding", "waiting"}

(* It has seen thread id finish, or has returned. *)
Collected(id) ==
  \/ caller.pc = "idle"
  \/ Waits /\ id < caller.id

(* The caller does nothing once the destructor was called; it is thread 0  *)
(* exactly while it works, and never waits for itself.                     *)
CallerInvariant ==
  /\ destroyed => caller.pc = "idle"
  /\ caller.pc = "working" <=> thread[0] # "none"
  /\ Waits => caller.id # 0
  /\ thread[0] = "finished" => status[0] = "FINISHED"

(* What the status of a thread says of the thread and of its queue. *)
ThreadInvariant(id) ==
  /\ thread[id] = "tasked" => status[id] = "TASKED"
  /\ thread[id] = "executing" => status[id] = "RUNNING"
  /\ (status[id] = "FINISHED" /\ ~Unstarted(id)) => queue[id] = {}
  /\ Collected(id) => queue[id] = {}
  /\ (id # 0 /\ (Unstarted(id) \/ Collected(id))) => status[id] = "WAITING"
  /\ id # 0 => thread[id] # "none"

TileInvariant ==
  /\ TypeOK
  /\ TilesAccountedFor
  /\ CallerInvariant
  /\ \A id \in Ids : ThreadInvariant(id)

(***************************************************************************)
(* A queue that is not empty has a front.                                  *)
(***************************************************************************)
LEMMA FrontOfQueue ==
  ASSUME NEW q \in SUBSET Nat, q # {}
  PROVE  Front(q) \in q
<1>1. \E t \in q : \A u \in q : << u, t >> \notin OpToRel(<, Nat)
  BY WFMin, NatLessThanWellFounded
<1>2. \A t, u \in Nat : u < t => << u, t >> \in OpToRel(<, Nat)
  BY DEF OpToRel
<1>3. \E t \in q : \A u \in q : t <= u
  <2>1. PICK t \in q : \A u \in q : << u, t >> \notin OpToRel(<, Nat)
    BY <1>1
  <2>2. ASSUME NEW u \in q PROVE t <= u
    <3>1. u \in Nat /\ t \in Nat /\ ~(u < t)
      BY <2>1, <1>2
    <3> QED
      BY <3>1
  <2> QED
    BY <2>2
<1> QED
  BY <1>3 DEF Front

(***************************************************************************)
(* Dealing out the tiles loses none and gives none to two threads.         *)
(***************************************************************************)
LEMMA SharesPartition ==
  ASSUME NEW n \in Nat
  PROVE  /\ UNION {Share(n, id) : id \in Ids} = 0 .. n - 1
         /\ \A id, other \in Ids : id # other => Share(n, id) \cap Share(n, other) = {}
         /\ \A id \in Ids : Share(n, id) \in SUBSET Nat
<1>1. ASSUME NEW t \in 0 .. n - 1 PROVE t % ThreadCount \in Ids
  <2>1. t \in Nat /\ ThreadCount \in Nat /\ ThreadCount > 0
    BY TileAssumption
  <2>2. t % ThreadCount \in 0 .. ThreadCount - 1
    BY <2>1
  <2> QED
    BY <2>2 DEF Ids
<1>2. ASSUME NEW t \in 0 .. n - 1 PROVE t \in Share(n, t % ThreadCount)
  BY DEF Share
<1> QED
  BY <1>1, <1>2 DEF Share

LEMMA TileInvariantInit == Init => TileInvariant
<1> SUFFICES ASSUME Init PROVE TileInvariant
  OBVIOUS
<1> USE TileAssumption
<1>1. ThreadCount \in Nat /\ 0 \in Ids
  BY DEF Ids
<1>2. TypeOK
  <2>1. caller \in CallerState
    BY <1>1 DEF Init, CallerState
  <2>2. thread \in [Ids -> ThreadState] /\ queue \in [Ids -> SUBSET Nat]
    BY DEF Init, ThreadState
  <2>3. mutex \in [Ids -> {"free", "worker", "caller"}]
    BY DEF Init
  <2>4. status \in [Ids -> Status] /\ tasks \in SUBSET Nat /\ done \in SUBSET Nat
    BY DEF Init
  <2>5. calls \in 0 .. MaxCalls /\ destroyed \in BOOLEAN
    <3>1. calls \in 0 .. MaxCalls
      BY DEF Init
    <3>2. destroyed \in BOOLEAN
      BY DEF Init
    <3> QED
      BY <3>1, <3>2
  <2>6. ASSUME NEW id \in Ids
        PROVE  mutex[id] = "free" /\ thread[id] # "deciding" /\ caller.pc # "deciding"
    BY DEF Init
  <2>7. ASSUME NEW id \in Ids
        PROVE  /\ mutex[id] = "worker" <=> thread[id] = "deciding"
               /\ mutex[id] = "caller" <=> caller = [pc |-> "deciding", id |-> id]
    BY <2>6
  <2> QED
    BY <2>1, <2>2, <2>3, <2>4, <2>5, <2>7 DEF TypeOK
<1>3. TilesAccountedFor
  BY DEF Init, TilesAccountedFor
<1>4. CallerInvariant
  BY <1>1 DEF Init, CallerInvariant, Waits
<1>5. ASSUME NEW id \in Ids PROVE ThreadInvariant(id)
  BY DEF Init, ThreadInvariant, Unstarted, Collected, Waits, Workers, Status
<1> QED
  BY <1>2, <1>3, <1>4, <1>5 DEF TileInvariant

(***************************************************************************)
(* The steps of a thread.                                                  *)
(***************************************************************************)
LEMMA CheckStatusPreserves ==
  ASSUME TileInvariant, NEW id \in Ids, CheckStatus(id)
  PROVE  TileInvariant'
<1> USE TileAssumption DEF TileInvariant, CheckStatus
<1>1. TypeOK'
  <2>1. CASE status[id] = "TASKED"
    BY <2>1 DEF TypeOK, ThreadState
  <2>2. CASE status[id] # "TASKED"
    BY <2>2 DEF TypeOK, ThreadState
  <2> QED
    BY <2>1, <2>2
<1>2. TilesAccountedFor'
  BY DEF TilesAccountedFor
<1>3. CallerInvariant'
  <2>1. 0 \in Ids
    BY DEF Ids
  <2>2. /\ thread'[0] # "none" <=> thread[0] # "none"
        /\ thread'[0] # "finished"  \/ thread'[0] = thread[0]
    BY <2>1 DEF TypeOK
  <2> QED
    BY <2>2 DEF CallerInvariant, Waits
<1>4. ASSUME NEW other \in Ids PROVE ThreadInvariant(other)'
  BY DEF TypeOK, ThreadInvariant, Unstarted, Collected, Waits
<1> QED
  BY <1>1, <1>2, <1>3, <1>4

LEMMA BeginWaitPreserves ==
  ASSUME TileInvariant, NEW id \in Ids, BeginWait(id)
  PROVE  TileInvariant'
<1> USE TileAssumption DEF TileInvariant, BeginWait, Interruptible
<1>1. TypeOK'
  BY DEF TypeOK, ThreadState
<1>2. TilesAccountedFor'
  BY DEF TilesAccountedFor
<1>3. CallerInvariant'
  BY DEF TypeOK, CallerInvariant, Waits
<1>4. ASSUME NEW other \in Ids PROVE ThreadInvariant(other)'
  BY DEF TypeOK, ThreadInvariant, Unstarted, Collected, Waits
<1> QED
  BY <1>1, <1>2, <1>3, <1>4

LEMMA WaitEndsPreserves ==
  ASSUME TileInvariant, NEW id \in Ids, WaitEnds(id)
  PROVE  TileInvariant'
<1> USE TileAssumption DEF TileInvariant, WaitEnds, Interruptible
<1>1. TypeOK'
  BY DEF TypeOK, ThreadState
<1>2. TilesAccountedFor'
  BY DEF TilesAccountedFor
<1>3. CallerInvariant'
  BY DEF TypeOK, CallerInvariant, Waits
<1>4. ASSUME NEW other \in Ids PROVE ThreadInvariant(other)'
  BY DEF TypeOK, ThreadInvariant, Unstarted, Collected, Waits
<1> QED
  BY <1>1, <1>2, <1>3, <1>4

LEMMA BeginTasksPreserves ==
  ASSUME TileInvariant, NEW id \in Ids, BeginTasks(id)
  PROVE  TileInvariant'
<1> USE TileAssumption DEF TileInvariant, BeginTasks
<1>1. TypeOK'
  BY DEF TypeOK, ThreadState, Status
<1>2. TilesAccountedFor'
  BY DEF TilesAccountedFor
<1>3. CallerInvariant'
  BY DEF TypeOK, CallerInvariant, Waits
<1>4. ASSUME NEW other \in Ids PROVE ThreadInvariant(other)'
  BY DEF TypeOK, ThreadInvariant, Unstarted, Collected, Waits
<1> QED
  BY <1>1, <1>2, <1>3, <1>4

LEMMA ExecuteTaskPreserves ==
  ASSUME TileInvariant, NEW id \in Ids, ExecuteTask(id)
  PROVE  TileInvariant'
<1> USE TileAssumption DEF TileInvariant
<1> DEFINE tile == Front(queue[id])
<1>1. /\ queue \in [Ids -> SUBSET Nat] /\ queue[id] \in SUBSET Nat
      /\ queue[id] # {} /\ done \in SUBSET Nat
  BY DEF TypeOK, ExecuteTask
<1>2. tile \in queue[id] /\ tile \in Nat
  BY <1>1, FrontOfQueue
<1>3. /\ queue' = [queue EXCEPT ![id] = queue[id] \ {tile}]
      /\ done' = done \cup {tile}
      /\ UNCHANGED << caller, thread, status, mutex, tasks, calls, destroyed >>
  BY DEF ExecuteTask
<1> HIDE DEF tile
<1>4. /\ queue'[id] = queue[id] \ {tile}
      /\ \A other \in Ids \ {id} : queue'[other] = queue[other]
  BY <1>1, <1>3
<1>5. TypeOK'
  BY <1>1, <1>2, <1>3 DEF TypeOK
<1>6. TilesAccountedFor'
  <2>1. /\ done \cup UNION {queue[other] : other \in Ids} = tasks
        /\ \A other \in Ids : queue[other] \cap done = {}
        /\ \A one, other \in Ids : one # other => queue[one] \cap queue[other] = {}
    BY DEF TilesAccountedFor
  <2>2. (UNION {queue'[other] : other \in Ids}) \cup {tile}
        = UNION {queue[other] : other \in Ids}
    <3>1. ASSUME NEW t, NEW other \in Ids, t \in queue[other], t # tile
          PROVE  t \in queue'[other]
      BY <1>4, <3>1
    <3>2. ASSUME NEW t, NEW other \in Ids, t \in queue'[other]
          PROVE  t \in queue[other]
      BY <1>4, <3>2
    <3> QED
      BY <1>2, <3>1, <3>2
  <2>3. done' \cup UNION {queue'[other] : other \in Ids} = tasks'
    BY <1>3, <2>1, <2>2
  <2>4. ASSUME NEW other \in Ids PROVE queue'[other] \cap done' = {}
    BY <1>2, <1>3, <1>4, <2>1
  <2>5. ASSUME NEW one \in Ids, NEW other \in Ids, one # other
        PROVE  queue'[one] \cap queue'[other] = {}
    BY <1>4, <2>1, <2>5
  <2> QED
    BY <2>3, <2>4, <2>5 DEF TilesAccountedFor
<1>7. CallerInvariant'
  BY <1>3 DEF CallerInvariant, Waits
<1>8. ASSUME NEW other \in Ids PROVE ThreadInvariant(other)'
  BY <1>3, <1>4 DEF ThreadInvariant, Unstarted, Collected, Waits
<1> QED
  BY <1>5, <1>6, <1>7, <1>8

LEMMA FinishTasksPreserves ==
  ASSUME TileInvariant, NEW id \in Ids, FinishTasks(id)
  PROVE  TileInvariant'
<1> USE TileAssumption DEF TileInvariant, FinishTasks
<1>1. TypeOK'
  BY DEF TypeOK, ThreadState, Status
<1>2. TilesAccountedFor'
  BY DEF TilesAccountedFor
<1>3. CallerInvariant'
  BY DEF TypeOK, CallerInvariant, Waits
<1>4. ASSUME NEW other \in Ids PROVE ThreadInvariant(other)'
  BY DEF TypeOK, ThreadInvariant, Unstarted, Collected, Waits
<1> QED
  BY <1>1, <1>2, <1>3, <1>4

(***************************************************************************)
(* Thread 0, the caller, goes on to wait for the others; any other thread  *)
(* may wake the caller.                                                    *)
(***************************************************************************)
LEMMA NotifyFinishedPreserves ==
  ASSUME TileInvariant, NEW id \in Ids, NotifyFinished(id)
  PROVE  TileInvariant'
<1> USE TileAssumption DEF TileInvariant
<1>1. ThreadCount \in Nat \ {0} /\ Ids = 0 .. ThreadCount - 1 /\ 0 \in Ids
  BY DEF Ids
<1>2. TilesAccountedFor'
  BY DEF NotifyFinished, TilesAccountedFor
<1>3. CASE id = 0
  <2>1. /\ thread[0] = "finished" /\ caller.pc = "working"
        /\ thread' = [thread EXCEPT ![0] = "none"]
        /\ caller' = WaitForNext(0)
        /\ UNCHANGED << status, queue, mutex, tasks, done, calls, destroyed >>
    BY <1>3 DEF NotifyFinished, CallerInvariant
  <2>2. caller' \in CallerState /\ caller'.pc \in {"locking", "idle"}
    BY <1>1, <2>1 DEF WaitForNext, CallerState
  <2>3. queue[0] = {}
    BY <1>1, <2>1 DEF CallerInvariant, ThreadInvariant, Unstarted
  <2>4. TypeOK'
    BY <1>1, <2>1, <2>2 DEF TypeOK, ThreadState
  <2>5. CallerInvariant'
    BY <1>1, <2>1 DEF TypeOK, CallerInvariant, Waits, WaitForNext
  <2>6. ASSUME NEW other \in Ids PROVE ThreadInvariant(other)'
    <3>1. Collected(other)' => other = 0
      BY <1>1, <2>1 DEF Collected, Waits, WaitForNext
    <3>2. ~Unstarted(other) /\ ~Unstarted(other)'
      BY <2>1, <2>2 DEF Unstarted
    <3> QED
      BY <1>1, <2>1, <2>3, <3>1, <3>2 DEF TypeOK, ThreadInvariant
  <2> QED
    BY <1>2, <2>4, <2>5, <2>6
<1>4. CASE id # 0
  <2>1. /\ thread[id] = "finished"
        /\ thread' = [thread EXCEPT ![id] = "locking"]
        /\ \/ caller' = caller
           \/ caller.pc = "waiting" /\ caller' = [caller EXCEPT !.pc = "locking"]
        /\ UNCHANGED << status, queue, mutex, tasks, done, calls, destroyed >>
    BY <1>4 DEF NotifyFinished, WakesCaller
  <2>2. /\ caller' \in CallerState /\ caller'.id = caller.id
        /\ \/ caller'.pc = caller.pc
           \/ caller.pc = "waiting" /\ caller'.pc = "locking"
    BY <2>1 DEF TypeOK, CallerState
  <2>3. TypeOK'
    BY <2>1, <2>2 DEF TypeOK, ThreadState
  <2>4. CallerInvariant'
    BY <1>1, <1>4, <2>1, <2>2 DEF TypeOK, CallerInvariant, Waits
  <2>5. ASSUME NEW other \in Ids PROVE ThreadInvariant(other)'
    BY <1>4, <2>1, <2>2 DEF TypeOK, ThreadInvariant, Unstarted, Collected, Waits
  <2> QED
    BY <1>2, <2>3, <2>4, <2>5
<1> QED
  BY <1>3, <1>4

(***************************************************************************)
(* The steps of apply_function() and the destructor.                       *)
(***************************************************************************)
LEMMA ApplyFunctionPreserves ==
  ASSUME TileInvariant, ApplyFunction
  PROVE  TileInvariant'
<1> USE TileAssumption DEF TileInvariant
<1>1. ThreadCount \in Nat \ {0} /\ Ids = 0 .. ThreadCount - 1 /\ 0 \in Ids
  BY DEF Ids
<1>2. PICK n \in TaskCounts :
        /\ tasks' = 0 .. n - 1
        /\ queue' = [id \in Ids |-> queue[id] \cup Share(n, id)]
  BY DEF ApplyFunction
<1>3. /\ caller.pc = "idle" /\ ~destroyed /\ calls < MaxCalls
      /\ done' = {} /\ calls' = calls + 1
      /\ caller' = [pc |-> "starting", id |-> 0]
      /\ UNCHANGED << thread, status, mutex, destroyed >>
  BY DEF ApplyFunction
<1>4. n \in Nat
  BY <1>2
<1>5. \A id \in Ids : queue[id] = {}
  BY <1>3 DEF ThreadInvariant, Collected
<1>6. \A id \in Ids : queue'[id] = Share(n, id) /\ queue'[id] \in SUBSET Nat
  BY <1>2, <1>4, <1>5, SharesPartition
<1>7. TypeOK'
  <2>1. caller' \in CallerState
    BY <1>1, <1>3 DEF CallerState
  <2>2. queue' \in [Ids -> SUBSET Nat]
    BY <1>2, <1>6
  <2>3. calls' \in 0 .. MaxCalls /\ tasks' \in SUBSET Nat /\ done' \in SUBSET Nat
    BY <1>2, <1>3, <1>4 DEF TypeOK
  <2>4. caller'.pc # "deciding"
    BY <1>3
  <2> QED
    BY <1>3, <2>1, <2>2, <2>3, <2>4 DEF TypeOK
<1>8. TilesAccountedFor'
  <2>1. UNION {queue'[id] : id \in Ids} = 0 .. n - 1
    <3>1. {queue'[id] : id \in Ids} = {Share(n, id) : id \in Ids}
      BY <1>6
    <3> QED
      BY <1>4, <3>1, SharesPartition
  <2>2. \A id, other \in Ids : id # other => queue'[id] \cap queue'[other] = {}
    BY <1>4, <1>6, SharesPartition
  <2> QED
    BY <1>2, <1>3, <2>1, <2>2 DEF TilesAccountedFor
<1>9. CallerInvariant'
  BY <1>3 DEF CallerInvariant, Waits
<1>10. ASSUME NEW id \in Ids PROVE ThreadInvariant(id)'
  <2>1. Unstarted(id)' /\ ~Collected(id)'
    BY <1>1, <1>3 DEF Unstarted, Collected, Waits
  <2>2. Collected(id)
    BY <1>3 DEF Collected
  <2> QED
    BY <1>3, <2>1, <2>2 DEF ThreadInvariant
<1> QED
  BY <1>7, <1>8, <1>9, <1>10

(***************************************************************************)
(* Where the loop that starts the threads goes next.                       *)
(***************************************************************************)
LEMMA StartNextAdvances ==
  ASSUME NEW id \in Ids
  PROVE  /\ StartNext(id) \in CallerState
         /\ StartNext(id).pc = "starting" => StartNext(id).id = id + 1
         /\ StartNext(id).pc = "working" => id = ThreadCount - 1
         /\ StartNext(id).pc \in {"starting", "working"}
  BY TileAssumption DEF StartNext, CallerState, Ids

LEMMA StartThreadPreserves ==
  ASSUME TileInvariant, StartThread
  PROVE  TileInvariant'
<1> USE TileAssumption DEF TileInvariant
<1> DEFINE id == caller.id
<1>1. ThreadCount \in Nat \ {0} /\ Ids = 0 .. ThreadCount - 1 /\ 0 \in Ids
  BY DEF Ids
<1>2. /\ caller \in CallerState /\ id \in Ids /\ caller.pc = "starting"
      /\ ~destroyed /\ thread[0] = "none"
      /\ UNCHANGED << queue, mutex, tasks, done, calls, destroyed >>
  BY <1>1 DEF StartThread, TypeOK, CallerState, CallerInvariant
<1>3. thread[id] \notin {"tasked", "executing"}
  BY <1>1, <1>2 DEF ThreadInvariant, Unstarted
<1>4. TilesAccountedFor'
  BY <1>2 DEF TilesAccountedFor
<1>5. CASE queue[id] # {}
  <2>1. /\ status' = [status EXCEPT ![id] = "TASKED"]
        /\ caller' = [caller EXCEPT !.pc = "notifying"]
        /\ UNCHANGED thread
    BY <1>5 DEF StartThread
  <2>2. caller' \in CallerState /\ caller'.pc = "notifying" /\ caller'.id = id
    BY <1>2, <2>1 DEF CallerState
  <2>3. TypeOK'
    BY <1>2, <2>1, <2>2 DEF TypeOK, Status
  <2>4. CallerInvariant'
    BY <1>2, <2>1, <2>2 DEF CallerInvariant, Waits
  <2>5. ASSUME NEW other \in Ids PROVE ThreadInvariant(other)'
    BY <1>1, <1>2, <1>3, <2>1, <2>2
    DEF TypeOK, ThreadInvariant, Unstarted, Collected, Waits
  <2> QED
    BY <1>4, <2>3, <2>4, <2>5
<1>6. CASE queue[id] = {}
  <2> DEFINE next == StartNext(id)
  <2>1. /\ status' = [status EXCEPT ![id] = "FINISHED"]
        /\ caller' = next
        /\ thread' = IF next.pc = "working" THEN [thread EXCEPT ![0] = "locking"]
                                            ELSE thread
    BY <1>6 DEF StartThread, Continue
  <2>2. /\ next \in CallerState
        /\ next.pc = "starting" => next.id = id + 1
        /\ next.pc = "working" => id = ThreadCount - 1
        /\ next.pc \in {"starting", "working"}
    BY <1>2, StartNextAdvances
  <2> HIDE DEF next
  <2>3. /\ thread' \in [Ids -> ThreadState]
        /\ \A other \in Ids \ {0} : thread'[other] = thread[other]
        /\ thread'[0] = IF next.pc = "working" THEN "locking" ELSE "none"
    BY <1>1, <1>2, <2>1 DEF TypeOK, ThreadState
  <2>4. TypeOK'
    <3>1. status' \in [Ids -> Status]
      BY <2>1 DEF TypeOK, Status
    <3>2. caller'.pc # "deciding" /\ caller.pc # "deciding"
      BY <1>2, <2>1, <2>2
    <3>3. ASSUME NEW other \in Ids
          PROVE  thread'[other] = "deciding" <=> thread[other] = "deciding"
      BY <1>2, <2>3
    <3> QED
      BY <1>2, <2>1, <2>2, <2>3, <3>1, <3>2, <3>3 DEF TypeOK
  <2>5. CallerInvariant'
    BY <1>2, <2>1, <2>2, <2>3 DEF CallerInvariant, Waits
  <2>6. ASSUME NEW other \in Ids PROVE ThreadInvariant(other)'
    <3>1. Unstarted(other)' => Unstarted(other) /\ other # id
      BY <1>1, <1>2, <2>1, <2>2 DEF Unstarted
    <3>2. Unstarted(other) => Unstarted(other)' \/ other = id
      BY <1>1, <1>2, <2>1, <2>2 DEF Unstarted
    <3>3. ~Collected(other)'
      BY <2>1, <2>2 DEF Collected, Waits
    <3>4. status'[other] = IF other = id THEN "FINISHED" ELSE status[other]
      BY <1>2, <2>1 DEF TypeOK
    <3>5. /\ thread'[other] = "tasked" => thread[other] = "tasked"
          /\ thread'[other] = "executing" => thread[other] = "executing"
          /\ other # 0 => thread'[other] # "none"
      BY <1>1, <2>3 DEF ThreadInvariant
    <3> QED
      BY <1>2, <1>3, <1>6, <3>1, <3>2, <3>3, <3>4, <3>5 DEF ThreadInvariant
  <2> QED
    BY <1>4, <2>4, <2>5, <2>6
<1> QED
  BY <1>5, <1>6

LEMMA NotifyThreadPreserves ==
  ASSUME TileInvariant, NotifyThread
  PROVE  TileInvariant'
<1> USE TileAssumption DEF TileInvariant
<1> DEFINE id    == caller.id
           next  == StartNext(id)
           woken == IF WakesWorker(id) THEN [thread EXCEPT ![id] = "locking"]
                                       ELSE thread
<1>1. ThreadCount \in Nat \ {0} /\ Ids = 0 .. ThreadCount - 1 /\ 0 \in Ids
  BY DEF Ids
<1>2. /\ caller \in CallerState /\ id \in Ids /\ caller.pc = "notifying"
      /\ ~destroyed /\ thread[0] = "none"
      /\ UNCHANGED << status, queue, mutex, tasks, done, calls, destroyed >>
  BY <1>1 DEF NotifyThread, TypeOK, CallerState, CallerInvariant
<1>3. /\ caller' = next
      /\ thread' = IF next.pc = "working" THEN [woken EXCEPT ![0] = "locking"]
                                          ELSE woken
  BY DEF NotifyThread
<1>4. /\ next \in CallerState
      /\ next.pc = "starting" => next.id = id + 1
      /\ next.pc = "working" => id = ThreadCount - 1
      /\ next.pc \in {"starting", "working"}
  BY <1>2, StartNextAdvances
<1>5. /\ woken \in [Ids -> ThreadState] /\ woken[0] = "none"
      /\ \A other \in Ids :
           \/ woken[other] = thread[other]
           \/ thread[other] = "waiting" /\ woken[other] = "locking"
  BY <1>1, <1>2 DEF TypeOK, ThreadState, WakesWorker
<1> HIDE DEF next, woken
<1>6. /\ thread' \in [Ids -> ThreadState]
      /\ \A other \in Ids \ {0} : thread'[other] = woken[other]
      /\ thread'[0] = IF next.pc = "working" THEN "locking" ELSE "none"
  BY <1>1, <1>3, <1>5 DEF ThreadState
<1>7. TypeOK'
  <2>1. caller'.pc # "deciding" /\ caller.pc # "deciding"
    BY <1>2, <1>3, <1>4
  <2>2. ASSUME NEW other \in Ids
        PROVE  thread'[other] = "deciding" <=> thread[other] = "deciding"
    BY <1>2, <1>5, <1>6
  <2> QED
    BY <1>2, <1>3, <1>4, <1>6, <2>1, <2>2 DEF TypeOK
<1>8. TilesAccountedFor'
  BY <1>2 DEF TilesAccountedFor
<1>9. CallerInvariant'
  BY <1>2, <1>3, <1>4, <1>6 DEF CallerInvariant, Waits
<1>10. ASSUME NEW other \in Ids PROVE ThreadInvariant(other)'
  <2>1. Unstarted(other)' <=> Unstarted(other)
    BY <1>1, <1>2, <1>3, <1>4 DEF Unstarted
  <2>2. ~Collected(other)'
    BY <1>3, <1>4 DEF Collected, Waits
  <2>3. /\ thread'[other] = "tasked" => thread[other] = "tasked"
        /\ thread'[other] = "executing" => thread[other] = "executing"
        /\ other # 0 => thread'[other] # "none"
    BY <1>1, <1>5, <1>6 DEF ThreadInvariant
  <2> QED
    BY <1>2, <2>1, <2>2, <2>3 DEF ThreadInvariant
<1> QED
  BY <1>7, <1>8, <1>9, <1>10

(***************************************************************************)
(* Where the loop that waits for the threads goes next.                    *)
(***************************************************************************)
LEMMA WaitForNextAdvances ==
  ASSUME NEW id \in Ids
  PROVE  /\ WaitForNext(id) \in CallerState
         /\ WaitForNext(id).pc = "locking" => WaitForNext(id).id = id + 1
         /\ WaitForNext(id).pc = "idle" => id = ThreadCount - 1
         /\ WaitForNext(id).pc \in {"locking", "idle"}
  BY TileAssumption DEF WaitForNext, CallerState, Ids

LEMMA CheckFinishedPreserves ==
  ASSUME TileInvariant, CheckFinished
  PROVE  TileInvariant'
<1> USE TileAssumption DEF TileInvariant
<1> DEFINE id == caller.id
<1>1. ThreadCount \in Nat \ {0} /\ Ids = 0 .. ThreadCount - 1 /\ 0 \in Ids
  BY DEF Ids
<1>2. /\ caller \in CallerState /\ id \in Ids /\ id # 0 /\ caller.pc = "locking"
      /\ ~destroyed /\ thread[0] = "none" /\ mutex[id] = "free"
      /\ UNCHANGED << thread, queue, tasks, done, calls, destroyed >>
  BY <1>1 DEF CheckFinished, TypeOK, CallerState, CallerInvariant, Waits
<1>3. TilesAccountedFor'
  BY <1>2 DEF TilesAccountedFor
<1>4. CASE status[id] = "FINISHED"
  <2> DEFINE next == WaitForNext(id)
  <2>1. /\ status' = [status EXCEPT ![id] = "WAITING"]
        /\ caller' = next /\ UNCHANGED mutex
    BY <1>4 DEF CheckFinished
  <2>2. /\ next \in CallerState
        /\ next.pc = "locking" => next.id = id + 1
        /\ next.pc = "idle" => id = ThreadCount - 1
        /\ next.pc \in {"locking", "idle"}
    BY <1>2, WaitForNextAdvances
  <2> HIDE DEF next
  <2>3. queue[id] = {} /\ thread[id] \notin {"tasked", "executing"}
    BY <1>2, <1>4 DEF ThreadInvariant, Unstarted
  <2>4. TypeOK'
    <3>1. status' \in [Ids -> Status]
      BY <2>1 DEF TypeOK, Status
    <3>2. caller'.pc # "deciding" /\ caller.pc # "deciding"
      BY <1>2, <2>1, <2>2
    <3> QED
      BY <1>2, <2>1, <2>2, <3>1, <3>2 DEF TypeOK
  <2>5. CallerInvariant'
    <3>1. status'[0] = status[0]
      BY <1>1, <1>2, <2>1 DEF TypeOK
    <3> QED
      BY <1>1, <1>2, <2>1, <2>2, <3>1 DEF CallerInvariant, Waits
  <2>6. ASSUME NEW other \in Ids PROVE ThreadInvariant(other)'
    <3>1. Collected(other)' => Collected(other) \/ other = id
      BY <1>1, <1>2, <2>1, <2>2 DEF Collected, Waits
    <3>2. ~Unstarted(other) /\ ~Unstarted(other)'
      BY <1>2, <2>1, <2>2 DEF Unstarted
    <3>3. status'[other] = IF other = id THEN "WAITING" ELSE status[other]
      BY <1>2, <2>1 DEF TypeOK
    <3> QED
      BY <1>2, <2>3, <3>1, <3>2, <3>3 DEF ThreadInvariant
  <2> QED
    BY <1>3, <2>4, <2>5, <2>6
<1>5. CASE status[id] # "FINISHED"
  <2>1. /\ mutex' = [mutex EXCEPT ![id] = "caller"]
        /\ caller' = [caller EXCEPT !.pc = "deciding"]
        /\ UNCHANGED status
    BY <1>5 DEF CheckFinished
  <2>2. caller' \in CallerState /\ caller' = [pc |-> "deciding", id |-> id]
    BY <1>2, <2>1 DEF CallerState
  <2>3. TypeOK'
    <3>1. mutex' \in [Ids -> {"free", "worker", "caller"}]
      BY <2>1 DEF TypeOK
    <3>2. ASSUME NEW other \in Ids
          PROVE  /\ mutex'[other] = "worker" <=> thread'[other] = "deciding"
                 /\ mutex'[other] = "caller"
                      <=> caller' = [pc |-> "deciding", id |-> other]
      <4>1. caller # [pc |-> "deciding", id |-> other] /\ mutex[other] # "caller"
        BY <1>2 DEF TypeOK
      <4>2. mutex'[other] = IF other = id THEN "caller" ELSE mutex[other]
        BY <2>1 DEF TypeOK
      <4>3. mutex[other] = "worker" <=> thread[other] = "deciding"
        BY DEF TypeOK
      <4>4. caller' = [pc |-> "deciding", id |-> other] <=> other = id
        BY <2>2
      <4> QED
        BY <1>2, <4>1, <4>2, <4>3, <4>4
    <3> QED
      BY <1>2, <2>1, <2>2, <3>1, <3>2 DEF TypeOK
  <2>4. CallerInvariant'
    BY <1>2, <2>1, <2>2 DEF CallerInvariant, Waits
  <2>5. ASSUME NEW other \in Ids PROVE ThreadInvariant(other)'
    BY <1>2, <2>1, <2>2 DEF ThreadInvariant, Unstarted, Collected, Waits
  <2> QED
    BY <1>3, <2>3, <2>4, <2>5
<1> QED
  BY <1>4, <1>5

LEMMA CallerBeginsWaitPreserves ==
  ASSUME TileInvariant, CallerBeginsWait
  PROVE  TileInvariant'
<1> USE TileAssumption DEF TileInvariant
<1> DEFINE id == caller.id
<1>1. /\ caller \in CallerState /\ id \in Ids /\ caller.pc = "deciding"
      /\ caller = [pc |-> "deciding", id |-> id]
      /\ mutex' = [mutex EXCEPT ![id] = "free"]
      /\ caller' = [caller EXCEPT !.pc = "waiting"]
      /\ UNCHANGED << thread, status, queue, tasks, done, calls, destroyed >>
  BY DEF CallerBeginsWait, TypeOK, CallerState
<1>2. caller' \in CallerState /\ caller'.pc = "waiting" /\ caller'.id = id
  BY <1>1 DEF CallerState
<1>3. TypeOK'
  <2>1. mutex' \in [Ids -> {"free", "worker", "caller"}]
    BY <1>1 DEF TypeOK
  <2>2. ASSUME NEW other \in Ids
        PROVE  /\ mutex'[other] = "worker" <=> thread'[other] = "deciding"
               /\ mutex'[other] # "caller"
    BY <1>1 DEF TypeOK
  <2> QED
    BY <1>1, <1>2, <2>1, <2>2 DEF TypeOK
<1>4. TilesAccountedFor'
  BY <1>1 DEF TilesAccountedFor
<1>5. CallerInvariant'
  BY <1>1, <1>2 DEF CallerInvariant, Waits
<1>6. ASSUME NEW other \in Ids PROVE ThreadInvariant(other)'
  BY <1>1, <1>2 DEF ThreadInvariant, Unstarted, Collected, Waits
<1> QED
  BY <1>3, <1>4, <1>5, <1>6

LEMMA CallerWaitEndsPreserves ==
  ASSUME TileInvariant, CallerWaitEnds
  PROVE  TileInvariant'
<1> USE TileAssumption DEF TileInvariant
<1>1. /\ caller \in CallerState /\ caller.pc = "waiting"
      /\ caller' = [caller EXCEPT !.pc = "locking"]
      /\ UNCHANGED << thread, status, queue, mutex, tasks, done, calls, destroyed >>
  BY DEF CallerWaitEnds, TypeOK
<1>2. caller' \in CallerState /\ caller'.pc = "locking" /\ caller'.id = caller.id
  BY <1>1 DEF CallerState
<1>3. TypeOK'
  BY <1>1, <1>2 DEF TypeOK
<1>4. TilesAccountedFor'
  BY <1>1 DEF TilesAccountedFor
<1>5. CallerInvariant'
  BY <1>1, <1>2 DEF CallerInvariant, Waits
<1>6. ASSUME NEW other \in Ids PROVE ThreadInvariant(other)'
  BY <1>1, <1>2 DEF ThreadInvariant, Unstarted, Collected, Waits
<1> QED
  BY <1>3, <1>4, <1>5, <1>6

LEMMA DestroyPreserves ==
  ASSUME TileInvariant, Destroy
  PROVE  TileInvariant'
<1> USE DEF TileInvariant, Destroy
<1>1. TypeOK'
  BY DEF TypeOK
<1>2. TilesAccountedFor'
  BY DEF TilesAccountedFor
<1>3. CallerInvariant'
  BY DEF CallerInvariant, Waits
<1>4. ASSUME NEW id \in Ids PROVE ThreadInvariant(id)'
  BY DEF ThreadInvariant, Unstarted, Collected, Waits
<1> QED
  BY <1>1, <1>2, <1>3, <1>4

LEMMA TileInvariantStutters ==
  ASSUME TileInvariant, UNCHANGED vars
  PROVE  TileInvariant'
<1> USE DEF TileInvariant, vars
<1>1. TypeOK'
  BY DEF TypeOK
<1>2. TilesAccountedFor'
  BY DEF TilesAccountedFor
<1>3. CallerInvariant'
  BY DEF CallerInvariant, Waits
<1>4. ASSUME NEW id \in Ids PROVE ThreadInvariant(id)'
  BY DEF ThreadInvariant, Unstarted, Collected, Waits
<1> QED
  BY <1>1, <1>2, <1>3, <1>4

(***************************************************************************)
(* What a thread's status says of its queue is an invariant of every step  *)
(* of worker_thread() and of apply_function().                             *)
(***************************************************************************)
THEOREM TileInvariantHolds == Spec => []TileInvariant
<1>1. Init => TileInvariant
  BY TileInvariantInit
<1>2. TileInvariant /\ [Next]_vars => TileInvariant'
  <2> SUFFICES ASSUME TileInvariant, [Next]_vars PROVE TileInvariant'
    OBVIOUS
  <2>1. ASSUME NEW id \in Ids, ThreadStep(id) PROVE TileInvariant'
    BY <2>1, CheckStatusPreserves, BeginWaitPreserves, WaitEndsPreserves,
       BeginTasksPreserves, ExecuteTaskPreserves, FinishTasksPreserves,
       NotifyFinishedPreserves
    DEF ThreadStep
  <2>2. ASSUME CallerStep PROVE TileInvariant'
    BY <2>2, StartThreadPreserves, NotifyThreadPreserves,
       CheckFinishedPreserves, CallerBeginsWaitPreserves,
       CallerWaitEndsPreserves
    DEF CallerStep
  <2> QED
    BY <2>1, <2>2, ApplyFunctionPreserves, DestroyPreserves,
       TileInvariantStutters
    DEF Next
<1> QED
  BY <1>1, <1>2, PTL DEF Spec

(***************************************************************************)
(* The variables of threaded_detector keep their types, and a thread's     *)
(* mutex is held only on the way to a wait.                                *)
(***************************************************************************)
THEOREM TileTypes == Spec => []TypeOK
<1>1. TileInvariant => TypeOK
  BY DEF TileInvariant
<1> QED
  BY <1>1, TileInvariantHolds, PTL

(***************************************************************************)
(* No tile of apply_function() is lost or handled twice.                   *)
(***************************************************************************)
THEOREM TilesStayAccountedFor == Spec => []TilesAccountedFor
<1>1. TileInvariant => TilesAccountedFor
  BY DEF TileInvariant
<1> QED
  BY <1>1, TileInvariantHolds, PTL

(***************************************************************************)
(* When apply_function() returns, every tile was handled.                  *)
(***************************************************************************)
THEOREM ApplyReturnsWhenDone == Spec => []ReturnsWhenDone
<1>1. TileInvariant => ReturnsWhenDone
  <2> SUFFICES ASSUME TileInvariant, caller.pc = "idle" PROVE done = tasks
    BY DEF ReturnsWhenDone
  <2>1. \A id \in Ids : queue[id] = {}
    BY DEF TileInvariant, ThreadInvariant, Collected
  <2> QED
    BY <2>1 DEF TileInvariant, TilesAccountedFor
<1> QED
  BY <1>1, TileInvariantHolds, PTL

(***************************************************************************)
(* The caller and a thread never use the thread's queue at the same time.  *)
(***************************************************************************)
THEOREM QueuesHaveOneUser == Spec => []QueueHasOneUser
<1>1. TileInvariant => QueueHasOneUser
  <2> SUFFICES ASSUME TileInvariant, NEW id \in Workers,
                      caller.pc = "idle"
                      \/ (caller.pc = "starting" /\ caller.id <= id)
               PROVE  thread[id] \notin {"tasked", "executing"}
    BY DEF QueueHasOneUser
  <2>1. id \in Ids /\ id # 0 /\ (Unstarted(id) \/ Collected(id))
    BY DEF Workers, Unstarted, Collected
  <2> QED
    BY <2>1 DEF TileInvariant, ThreadInvariant
<1> QED
  BY <1>1, TileInvariantHolds, PTL
=============================================================================
