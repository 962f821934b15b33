--------------------------- MODULE MCSyncPipeline ---------------------------
(***************************************************************************)
(* Instances of SyncPipeline for TLC: every way to connect three nodes     *)
(* forwards, inserted in any order, and a few networks with flushes,       *)
(* missing outputs and a second run.                                       *)
(***************************************************************************)
EXTENDS SyncPipeline, PipelineGraph

Edge(from, to, kind) == [from |-> from, to |-> to, kind |-> kind]

Names == {"a", "b", "c"}

(* Connected in this order, so that the last node's inputs are not in the  *)
(* order of execution. *)
Connections == << << "a", "c" >>, << "b", "c" >>, << "a", "b" >> >>

(* A network as the application builds it. *)
Built(edges, inserted, returns, frames, runs) ==
  [order   |-> reorder(edges, inserted),
   edges   |-> edges,
   returns |-> returns,
   skipped |-> {"b"},
   output  |-> Sinks(edges, inserted),
   frames  |-> frames, runs |-> runs, cancels |-> "never"]

Anything == [n \in Names |-> {"SUCCESS", "SKIP", "FAILURE"}]

Inserted == {s \in [1 .. 3 -> Names] : Range(s) = Names}

(* At most one connection is optional, and its sink has another input: a   *)
(* node with none but optional inputs is never failed by them, and steps   *)
(* for ever. *)
EdgeLists ==
  {LET kept == Subsequence(Connections, S)
   IN  [i \in DOMAIN kept |->
          Edge(kept[i][1], kept[i][2],
               IF kept[i] = optional /\ 2 \in S THEN "optional" ELSE "required")] :
     S \in SUBSET (1 .. 3), optional \in {<< >>, << "a", "c" >>}}

FrameNetworks == {Built(edges, inserted, Anything, 2, 1) : edges \in EdgeLists, inserted \in Inserted}

ABC == << "a", "b", "c" >>

Chain == << Edge("a", "b", "required"), Edge("b", "c", "required") >>

Diamond == Append(Chain, Edge("a", "c", "required"))

OtherNetworks ==
  {Built(edges, ABC, [Anything EXCEPT !["a"] = {"SUCCESS", st}], 2, 1) :
     edges \in {Chain, Diamond}, st \in {"FLUSH", "NO_OUTPUT"}}
  \cup {Built(Diamond, ABC, [n \in Names |-> {"SUCCESS", "SKIP"}], 2, 2)}
  \cup {Built(<< Edge("a", "c", "required"), Edge("b", "c", kind) >>, ABC, Anything, 2, 1) :
           kind \in {"dependency", "optional"}}

MCNetworks == FrameNetworks \cup OtherNetworks

(* reorder() puts every node after its sources, whatever the order in      *)
(* which nodes were inserted and connected.                                *)
ASSUME BuiltInOrder == \A w \in Networks : InOrder(w)
=============================================================================
