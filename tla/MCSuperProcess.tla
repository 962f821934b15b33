--------------------------- MODULE MCSuperProcess ---------------------------
(***************************************************************************)
(* Instances of SuperProcess for TLC.                                      *)
(***************************************************************************)
EXTENDS SuperProcess

(* One chain, without forwarding. *)
Plain ==
  [lanes |-> 1, depth |-> 2, forwarding |-> FALSE, frames |-> 2,
   source |-> {"SUCCESS", "SKIP", "FLUSH"}, inner |-> {"SUCCESS", "SKIP"},
   recoveries |-> 0, cancels |-> FALSE]

(* Two pads, of which one may fail, and enough frames to fill its edge.    *)
(* The outer pipeline may be cancelled at any time, also while the feeder  *)
(* or Main waits for ever.                                                 *)
TwoPads ==
  [Plain EXCEPT !.lanes = 2, !.depth = 1, !.frames = 3, !.source = {"SUCCESS"},
                !.inner = {"SUCCESS", "FAILURE"}, !.cancels = TRUE]

(* Two pads, of which one may have nothing for a frame, and frames that    *)
(* arrive with nothing. *)
SkippingPads ==
  [TwoPads EXCEPT !.frames = 2, !.source = {"SUCCESS", "SKIP"},
                  !.inner = {"SUCCESS", "SKIP"}, !.cancels = FALSE]

(* Two pads, of which one may have failed when the other has its FLUSH. *)
ForwardingPads ==
  [TwoPads EXCEPT !.forwarding = TRUE, !.frames = 2, !.source = {"SUCCESS", "FLUSH"}]

(* A process that returns nothing for some frames. *)
ForwardingChain ==
  [Plain EXCEPT !.forwarding = TRUE, !.source = {"SUCCESS", "SKIP"},
                !.inner = {"SUCCESS", "NO_OUTPUT"}]

(* It recovers once. *)
Recovering ==
  [Plain EXCEPT !.source = {"SUCCESS", "SKIP"}, !.inner = {"SUCCESS", "FAILURE"},
                !.recoveries = 1]

(* It is cancelled at any time. *)
Cancelled ==
  [Recovering EXCEPT !.depth = 1, !.cancels = TRUE]

MCSettings ==
  {Plain, TwoPads, SkippingPads, ForwardingPads, ForwardingChain, Recovering, Cancelled}

RecoveringSettings == {Recovering}
=============================================================================
