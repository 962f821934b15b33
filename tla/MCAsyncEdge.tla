----------------------------- MODULE MCAsyncEdge -----------------------------
(***************************************************************************)
(* Instance of AsyncEdge for TLC, and a check of the selection operator of *)
(* Subsequences against the standard module's recursive one.               *)
(***************************************************************************)
EXTENDS AsyncEdge

(* Every sequence of at most three statuses is flushed as SelectSeq says.  *)
ASSUME FlushIsSelection ==
  \A n \in 0 .. 3 : \A q \in [1 .. n -> EdgeStatus] :
    flush_status_queue(q) = SelectSeq(q, LAMBDA st : st # "SUCCESS")
=============================================================================
