---------------------------- MODULE FrameStreams ----------------------------
(***************************************************************************)
(* What any pipeline promises: each node turns its inputs, frame by frame, *)
(* into one stream of statuses, whoever runs it and whenever.  A node's    *)
(* k-th status depends on the k-th statuses of its sources and on nothing  *)
(* else, and a node that has failed counts as failed in every later frame. *)
(*                                                                         *)
(* Nothing is promised of networks in which a process flushes or gives no  *)
(* output: these change how many statuses travel on one branch.  A         *)
(* connection that carries no data means different things to the two kinds *)
(* of pipelines, and what a failure leaves in the queues of an             *)
(* asynchronous one reaches the next run.                                  *)
(***************************************************************************)
EXTENDS PipelineNetwork

VARIABLE stream     (* for each node, the statuses of its steps in this run *)

NothingYet == [n \in Nodes |-> << >>]

FramesOnly(w) ==
  /\ \A n \in Range(w.order) : w.returns[n] \cap {"FLUSH", "NO_OUTPUT"} = {}
  /\ \A i \in DOMAIN w.edges : w.edges[i].kind # "dependency"
  /\ w.runs > 1 =>
       /\ \A n \in Range(w.order) : "FAILURE" \notin w.returns[n]
       /\ \A i \in DOMAIN w.edges : w.edges[i].kind # "optional"

Failed(n) == stream[n] # << >> /\ stream[n][Len(stream[n])] = "FAILURE"

(* Edge i can tell what its source made of frame k, and what. *)
Known(i, k) ==
  \/ k <= Len(stream[net.edges[i].from])
  \/ Failed(net.edges[i].from)

StatusIn(i, k) ==
  IF k <= Len(stream[net.edges[i].from]) THEN stream[net.edges[i].from][k]
  ELSE "FAILURE"

(* What counts of the inputs of n in frame k: an optional connection does  *)
(* not fail its sink. *)
Found(n, k) ==
  {st \in {"SKIP", "FAILURE"} :
     \E i \in EdgesTo(n) :
       /\ StatusIn(i, k) = st
       /\ st = "FAILURE" => net.edges[i].kind = "required"}

(* A source fails at the end of its frames. *)
Returns(n) ==
  IF IsSource(n) /\ net.frames # 0 /\ Len(stream[n]) >= net.frames
  THEN {"FAILURE"} ELSE net.returns[n]

Init == net \in Networks /\ stream = NothingYet

Step(n) ==
  LET k == Len(stream[n]) + 1
  IN  /\ FramesOnly(net)
      /\ ~Failed(n)
      /\ \A i \in EdgesTo(n) : Known(i, k)
      /\ \E st \in MayReturn(Found(n, k), n \in net.skipped, Returns(n)) :
           stream' = [stream EXCEPT ![n] = Append(@, st)]
      /\ UNCHANGED net

(* A pipeline whose outputs have all failed may be reset. *)
Reset ==
  /\ \A n \in net.output : Failed(n)
  /\ stream' = NothingYet
  /\ UNCHANGED net

Unspecified == ~FramesOnly(net) /\ UNCHANGED net

Next ==
  \/ \E n \in Nodes : Step(n)
  \/ Reset
  \/ Unspecified

Spec == Init /\ [][Next]_<< net, stream >>
=============================================================================
