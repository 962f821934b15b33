--------------------------- MODULE PipelineGraph ----------------------------
(***************************************************************************)
(* The order in which a pipeline executes its nodes, computed anew after   *)
(* every connection.  A cycle ends the program with a message, so edges    *)
(* are those of an acyclic graph.                                          *)
(***************************************************************************)
EXTENDS SequencesExt

(* The nodes that the incoming edges of n come from, in order. *)
Before(edges, n) ==
  LET into == SelectSeq(edges, LAMBDA e : e.to = n)
  IN  [i \in DOMAIN into |-> into[i].from]

(* Nodes that were not visited yet come first, depth first; then n. *)
RECURSIVE visit_depth_first(_, _, _)
visit_depth_first(edges, order, n) ==
  IF n \in Range(order) THEN order
  ELSE Append(FoldLeft(LAMBDA o, m : visit_depth_first(edges, o, m),
                       order, Before(edges, n)), n)

reorder(edges, insert_order) ==
  FoldLeft(LAMBDA o, n : visit_depth_first(edges, o, n), << >>, insert_order)

(* The nodes that nobody takes anything from are the output nodes, unless  *)
(* the application says otherwise. *)
Sinks(edges, insert_order) ==
  Range(insert_order) \ {edges[i].from : i \in DOMAIN edges}
=============================================================================
