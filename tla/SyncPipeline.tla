---------------------------- MODULE SyncPipeline ----------------------------
(***************************************************************************)
(* sync_pipeline: one thread executes the nodes in order, frame by frame,  *)
(* until all output nodes have failed.  The application may then reset the *)
(* pipeline and run it again.                                              *)
(*                                                                         *)
(* A node keeps nothing but its last status, which is the last of its      *)
(* stream: what it returned in each step of this run.                      *)
(***************************************************************************)
EXTENDS PipelineNetwork

VARIABLES
  stream,   (* for each node, the statuses of its steps in this run *)
  mode,     (* what the application's thread is doing *)
  at,       (* the position in the execution order that execute() is at *)
  noted,    (* the statuses of the output nodes in this execute() *)
  run       (* the run of the pipeline that was started last *)

vars == << net, stream, mode, at, noted, run >>

(***************************************************************************)
(* It executes a frame, has returned from run(), is in the loop that       *)
(* empties the other edges up to a FLUSH, or has ended the program.        *)
(***************************************************************************)
Mode == {"executing", "returned", "emptying", "died"}

last_execute_state(n) ==
  IF stream[n] = << >> THEN "SUCCESS" ELSE stream[n][Len(stream[n])]

NothingYet == [n \in Nodes |-> << >>]

Init ==
  /\ net \in Networks
  /\ stream = NothingYet
  /\ mode = "executing" /\ at = 1 /\ noted = {} /\ run = 1

-----------------------------------------------------------------------------
From(i) == last_execute_state(net.edges[i].from)

(* A mutant of Stops: a failure on an optional input counts. *)
StopsAtAnyFailure(i) == From(i) \in {"FAILURE", "NO_OUTPUT", "FLUSH"}

(* The edges at which the loop of execute_incoming_edges() is left, or the *)
(* program.  An edge of add_execution_dependency() is not optional; one of *)
(* add_optional_execution_dependency() is an optional edge here.           *)
Stops(i) ==
  \/ From(i) = "FAILURE" /\ net.edges[i].kind # "optional"
  \/ From(i) \in {"NO_OUTPUT", "FLUSH"}

(* What the loop over the incoming edges of n ends with: the status of the *)
(* first edge that it is left at, if any. *)
StatusOfEdges(n) ==
  LET stops == {i \in EdgesTo(n) : Stops(i)}
  IN  IF stops # {}
      THEN From(CHOOSE i \in stops : \A j \in stops : i <= j)
      ELSE IF \E i \in EdgesTo(n) : From(i) = "SKIP" THEN "SKIP"
      ELSE "SUCCESS"

(* A source fails at the end of its frames. *)
Returns(n) ==
  IF IsSource(n) /\ net.frames # 0 /\ Len(stream[n]) >= net.frames
  THEN {"FAILURE"} ELSE net.returns[n]

(* The last status of n may become one of these. *)
Outcomes(n) ==
  IF StatusOfEdges(n) = "FLUSH" THEN {"FLUSH"}
  ELSE MayReturn({StatusOfEdges(n)}, n \in net.skipped, Returns(n))

This == net.order[at]

Executing == mode = "executing" /\ at <= Len(net.order)

(* A node that has failed is passed over. *)
PassOver ==
  /\ Executing /\ last_execute_state(This) = "FAILURE"
  /\ at' = at + 1
  /\ UNCHANGED << net, stream, mode, noted, run >>

(* The other edges of a join are asked for a FLUSH of their own, and an    *)
(* edge of this pipeline has none to give.                                 *)
Joins(n) == Cardinality(EdgesTo(n)) > 1

(* One turn of the loop of execute(). *)
ExecuteNode ==
  /\ Executing /\ last_execute_state(This) # "FAILURE"
  /\ StatusOfEdges(This) # "NO_OUTPUT"
  /\ ~(StatusOfEdges(This) = "FLUSH" /\ Joins(This))
  /\ \E st \in Outcomes(This) :
       /\ stream' = [stream EXCEPT ![This] = Append(@, st)]
       /\ noted' = IF This \in net.output THEN noted \cup {st} ELSE noted
  /\ at' = at + 1
  /\ UNCHANGED << net, mode, run >>

(* while( push_data() != FLUSH ): for ever, unless the edge has no datum   *)
(* yet, which it would read all the same. *)
EmptyOtherEdges ==
  /\ Executing /\ last_execute_state(This) # "FAILURE"
  /\ StatusOfEdges(This) = "FLUSH" /\ Joins(This)
  /\ mode' = "emptying"
  /\ UNCHANGED << net, stream, at, noted, run >>

(* LOG_AND_DIE *)
Die ==
  /\ Executing /\ last_execute_state(This) # "FAILURE"
  /\ StatusOfEdges(This) = "NO_OUTPUT"
  /\ mode' = "died"
  /\ UNCHANGED << net, stream, at, noted, run >>

all_outputs_failed == noted \subseteq {"FAILURE"}

(* What execute() returns. *)
Executed ==
  IF all_outputs_failed THEN "FAILURE"
  ELSE IF "SKIP" \in noted THEN "SKIP"
  ELSE IF "FLUSH" \in noted THEN "FLUSH" ELSE "SUCCESS"

(* A mutant of EndExecute: what was noted of the outputs is kept for the   *)
(* next frame. *)
EndExecuteRemembering ==
  /\ mode = "executing" /\ at > Len(net.order)
  /\ IF Executed = "FAILURE" THEN mode' = "returned" /\ UNCHANGED at
                             ELSE at' = 1 /\ UNCHANGED mode
  /\ UNCHANGED << net, stream, noted, run >>

(* run() executes again until execute() fails. *)
EndExecute ==
  /\ mode = "executing" /\ at > Len(net.order)
  /\ IF Executed = "FAILURE" THEN mode' = "returned" /\ UNCHANGED at
                             ELSE at' = 1 /\ UNCHANGED mode
  /\ noted' = {}
  /\ UNCHANGED << net, stream, run >>

(* reset(), and run() again. *)
RunAgain ==
  /\ mode = "returned" /\ run < net.runs
  /\ stream' = NothingYet
  /\ mode' = "executing" /\ at' = 1 /\ run' = run + 1
  /\ UNCHANGED << net, noted >>

Next ==
  \/ PassOver
  \/ ExecuteNode
  \/ EmptyOtherEdges
  \/ Die
  \/ EndExecute
  \/ RunAgain

Spec == Init /\ [][Next]_vars

(* The application's thread runs until run() returns. *)
FairSpec ==
  Spec /\ WF_vars(PassOver \/ ExecuteNode \/ EmptyOtherEdges \/ Die \/ EndExecute)

-----------------------------------------------------------------------------
(* Properties.                                                             *)

(* Every variable has its type. *)
TypeOK ==
  /\ net \in Networks
  /\ stream \in [Nodes -> Seq(StepStatus)]
  /\ mode \in Mode
  /\ at \in 1 .. Len(net.order) + 1
  /\ noted \subseteq StepStatus
  /\ run \in 1 .. net.runs

(* The synchronous pipeline gives every node the stream that any pipeline  *)
(* must: the order of execution is one in which every input is there when  *)
(* a node needs it, early returns and passed-over nodes change no status   *)
(* that counts, and a reset begins all streams anew.                       *)
Streams == INSTANCE FrameStreams

ImplementsFrameStreams == Streams!Spec

(* A run whose sources end returns, or ends the program for a NO_OUTPUT,   *)
(* or meets a FLUSH where branches join: there it never returns, and       *)
(* nowhere else.                                                           *)
FlushMeetsJoin ==
  \E i, j \in DOMAIN net.edges :
    /\ i # j /\ net.edges[i].to = net.edges[j].to
    /\ last_execute_state(net.edges[i].from) = "FLUSH"

RunReturns ==
  (mode = "executing" /\ net.frames # 0)
    ~> (mode \in {"returned", "died"} \/ (mode = "emptying" /\ FlushMeetsJoin))
=============================================================================
