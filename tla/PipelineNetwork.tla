-------------------------- MODULE PipelineNetwork ---------------------------
(***************************************************************************)
(* The nodes of a pipeline and their connections, for the modules that say *)
(* how the nodes are run.  The network is chosen in the initial state and  *)
(* never changes.                                                          *)
(***************************************************************************)
EXTENDS Subsequences, ProcessSteps, Functions

CONSTANT Networks

(***************************************************************************)
(* A network:                                                              *)
(*   order    the nodes, in execution order                                *)
(*   edges    the connections [from, to, kind], in the order of connecting *)
(*   returns  for each node, what a step of its process may return         *)
(*   skipped  the nodes whose process steps although an input was skipped  *)
(*   output   the output nodes, which a run waits for                      *)
(*   frames   how many steps a source makes before it fails; zero: no end  *)
(*   runs     how many times the application runs the pipeline             *)
(*   cancels  when another thread may cancel it: "never", while it is      *)
(*            "running", or at "any time", also while it is being started  *)
(***************************************************************************)
EdgeKind == {"required", "optional", "dependency"}

NetworkOK(w) ==
  LET nodes == Range(w.order)
  IN  /\ w.order \in Seq(nodes) /\ IsInjective(w.order)
      /\ w.edges \in Seq([from : nodes, to : nodes, kind : EdgeKind])
      /\ \A n \in nodes : w.returns[n] # {} /\ w.returns[n] \subseteq StepStatus
      /\ w.skipped \subseteq nodes
      /\ w.output \subseteq nodes
      /\ w.frames \in Nat /\ w.runs \in Nat \ {0}
      /\ w.cancels \in {"never", "running", "any time"}

ASSUME NetworksAssumption == \A w \in Networks : NetworkOK(w)

(* Every node comes after those that it takes anything from. *)
InOrder(w) ==
  \A i \in DOMAIN w.edges : \A p, q \in DOMAIN w.order :
    w.order[p] = w.edges[i].from /\ w.order[q] = w.edges[i].to => p < q

VARIABLE net    (* the network *)

Nodes == Range(net.order)

(* incoming_edges_ and outgoing_edges_, in the order of connecting. *)
EdgesTo(n) == {i \in DOMAIN net.edges : net.edges[i].to = n}

EdgesFrom(n) == {i \in DOMAIN net.edges : net.edges[i].from = n}

Incoming(n) == Enumeration(EdgesTo(n))

Outgoing(n) == Enumeration(EdgesFrom(n))

IsSource(n) == EdgesTo(n) = {}
=============================================================================
