-------------------------- MODULE ObserverProcess --------------------------
(***************************************************************************)
(* async_observer_process<T>: a process at the end of a pipeline, whose    *)
(* items are read from outside the pipeline by get_data().  The setter,    *)
(* the step and the readers wait on one condition variable, and wake one   *)
(* thread each.                                                            *)
(*                                                                         *)
(* Items have the numbers in which they arrive.                            *)
(***************************************************************************)
EXTENDS Integers, Sequences, FiniteSets

CONSTANTS
  Readers,
  Pipeline,           (* the thread of the node *)
  MaxItems            (* a bound on the items that arrive *)

ASSUME ObserverAssumption ==
  /\ MaxItems \in Nat /\ Pipeline \notin Readers /\ IsFiniteSet(Readers)

VARIABLES
  users,              (* the readers that there are *)
  data,               (* data_, data_available_, data_set_ and is_done_ *)
  data_available,
  data_set,
  is_done,
  pc,                 (* for each thread, where it is *)
  waiting,            (* the threads in cond_data_available_.wait() *)
  arrived,            (* the items that have arrived *)
  got                 (* the items that get_data() has returned *)

observerVars ==
  << users, data, data_available, data_set, is_done, pc, waiting, arrived, got >>

ObserverInit ==
  /\ users \in SUBSET Readers
  /\ data = 0
  /\ data_available = FALSE /\ data_set = FALSE /\ is_done = FALSE
  /\ pc = [t \in Readers \cup {Pipeline} |-> "idle"]
  /\ waiting = {}
  /\ arrived = 0
  /\ got = << >>

Goes(t, to) == pc' = [pc EXCEPT ![t] = to]

At(t, place) == pc[t] = place /\ t \notin waiting

Wait(t) ==
  /\ waiting' = waiting \cup {t}
  /\ UNCHANGED << data, data_available, data_set, is_done, pc, got >>

(* The lock was released before: the thread that is woken tests again. *)
NotifyOne(t, to) ==
  /\ At(t, "notifying")
  /\ \/ waiting = {} /\ UNCHANGED waiting
     \/ \E woken \in waiting : waiting' = waiting \ {woken}
  /\ Goes(t, to)
  /\ UNCHANGED << users, data, data_available, data_set, is_done, arrived, got >>

-----------------------------------------------------------------------------
(* The pipeline.                                                           *)

(* The node takes its inputs: the port is optional, so that it is stepped  *)
(* also when there is none. *)
TakeInput ==
  /\ At(Pipeline, "idle")
  /\ \/ arrived < MaxItems /\ arrived' = arrived + 1 /\ Goes(Pipeline, "setting")
     \/ Goes(Pipeline, "stepping") /\ UNCHANGED arrived
  /\ UNCHANGED << users, data, data_available, data_set, is_done, waiting, got >>

(* A mutant of set_input: an item that was not read is replaced. *)
set_input_at_once ==
  /\ At(Pipeline, "setting")
  /\ data_set' = TRUE /\ data' = arrived
  /\ data_available' = FALSE
  /\ Goes(Pipeline, "stepping")
  /\ UNCHANGED << users, is_done, waiting, arrived, got >>

set_input ==
  /\ At(Pipeline, "setting")
  /\ IF data_available
     THEN Wait(Pipeline)
     ELSE /\ data_set' = TRUE /\ data' = arrived
          /\ Goes(Pipeline, "stepping")
          /\ UNCHANGED << data_available, is_done, waiting, got >>
  /\ UNCHANGED << users, arrived >>

step ==
  /\ At(Pipeline, "stepping")
  /\ IF data_available
     THEN Wait(Pipeline)
     ELSE /\ is_done' = (is_done \/ ~data_set)
          /\ data_available' = TRUE /\ data_set' = FALSE
          /\ Goes(Pipeline, "notifying")
          /\ UNCHANGED << data, waiting, got >>
  /\ UNCHANGED << users, arrived >>

StepReturns == NotifyOne(Pipeline, IF is_done THEN "ended" ELSE "idle")

(* cancel() of the pipeline interrupts the thread in its wait. *)
Interrupted ==
  /\ Pipeline \in waiting
  /\ waiting' = waiting \ {Pipeline}
  /\ Goes(Pipeline, "cancelled")
  /\ UNCHANGED << users, data, data_available, data_set, is_done, arrived, got >>

-----------------------------------------------------------------------------
(* The readers.                                                            *)

Call(r) ==
  /\ r \in users /\ pc[r] \in {"idle", "told"}
  /\ Goes(r, "getting")
  /\ UNCHANGED << users, data, data_available, data_set, is_done, waiting, arrived,
                  got >>

(* A mutant of get_data: nobody is told that the item was taken. *)
get_data_silently(r) ==
  /\ At(r, "getting")
  /\ IF ~data_available
     THEN Wait(r)
     ELSE /\ data_available' = is_done
          /\ got' = IF is_done THEN got ELSE Append(got, data)
          /\ Goes(r, IF is_done THEN "told" ELSE "idle")
          /\ UNCHANGED << data, data_set, is_done, waiting >>
  /\ UNCHANGED << users, arrived >>

get_data(r) ==
  /\ At(r, "getting")
  /\ IF ~data_available
     THEN Wait(r)
     ELSE IF is_done
     THEN /\ Goes(r, "told")
          /\ UNCHANGED << data, data_available, data_set, is_done, waiting, got >>
     ELSE /\ data_available' = FALSE
          /\ got' = Append(got, data)
          /\ Goes(r, "notifying")
          /\ UNCHANGED << data, data_set, is_done, waiting >>
  /\ UNCHANGED << users, arrived >>

GetReturns(r) == NotifyOne(r, "idle")

-----------------------------------------------------------------------------
SpuriousWakeup ==
  /\ \E t \in waiting : waiting' = waiting \ {t}
  /\ UNCHANGED << users, data, data_available, data_set, is_done, pc, arrived, got >>

PipelineStep == TakeInput \/ set_input \/ step \/ StepReturns

ReaderStep(r) == get_data(r) \/ GetReturns(r)

ObserverNext ==
  \/ PipelineStep
  \/ Interrupted
  \/ \E r \in Readers : Call(r) \/ ReaderStep(r)
  \/ SpuriousWakeup

ObserverSpec == ObserverInit /\ [][ObserverNext]_observerVars

(* Runnable threads are run, and the pipeline goes on to an end.           *)
ObserverFairSpec ==
  /\ ObserverSpec
  /\ WF_observerVars(PipelineStep)
  /\ \A r \in Readers : WF_observerVars(ReaderStep(r))

-----------------------------------------------------------------------------
(* Properties.                                                             *)

(* The readers get every item once, and in the order of the pipeline: one  *)
(* that was not got is the one that is available.                          *)
EachItemOnce ==
  /\ \A i \in DOMAIN got : got[i] = i
  /\ data_available /\ ~is_done => data = Len(got) + 1

(* No wakeup is lost when there is one reader: of two threads that wait    *)
(* for each other, one is about to be woken.                               *)
NoLostWakeup ==
  \A r \in Readers :
    users = {r} =>
      /\ Pipeline \in waiting /\ ~data_available => pc[r] = "notifying"
      /\ r \in waiting /\ data_available => pc[Pipeline] = "notifying"

(* A single reader gets an item, or is told that there are no more, unless *)
(* the pipeline was cancelled; and the pipeline goes on when its item was  *)
(* taken.                                                                  *)
ReaderServed ==
  \A r \in Readers :
    users = {r} =>
      /\ pc[r] = "getting" ~> (pc[r] # "getting" \/ pc[Pipeline] = "cancelled")
      /\ (Pipeline \in waiting /\ ~data_available) ~> Pipeline \notin waiting
=============================================================================
