---------------------------- MODULE ProcessSteps ----------------------------
(***************************************************************************)
(* What a step of a process may end with, and what the statuses that a     *)
(* node finds on its inputs make of it.  Both kinds of pipelines share it. *)
(***************************************************************************)
EXTENDS Integers

(* process::step_status *)
StepStatus == {"FAILURE", "SUCCESS", "SKIP", "FLUSH", "NO_OUTPUT"}

(***************************************************************************)
(* A failure on a required input outdoes a skip on any other.  A process   *)
(* may ask to be stepped on skipped input.                                 *)
(***************************************************************************)
MayReturn(found, skipped, returns) ==
  IF "FAILURE" \in found THEN {"FAILURE"}
  ELSE IF "SKIP" \in found /\ ~skipped THEN {"SKIP"} ELSE returns
=============================================================================
