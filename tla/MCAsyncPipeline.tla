-------------------------- MODULE MCAsyncPipeline ---------------------------
(***************************************************************************)
(* Instances of AsyncPipeline for TLC: small networks, each with what is   *)
(* hard about one kind of network.                                         *)
(***************************************************************************)
EXTENDS AsyncStreams, TLC

Edge(from, to, kind) == [from |-> from, to |-> to, kind |-> kind]

Works == {"SUCCESS"}

(* The edges are all as long, and no process holds frames back. *)
Plain(w) ==
  w @@ [capacity |-> [i \in DOMAIN w.edges |-> Capacity],
        holds    |-> [n \in Range(w.order) |-> 0],
        breaks   |-> {}]

(* A source whose frames also go to the last node directly. *)
Diamond ==
  [order   |-> << "src", "mid", "end" >>,
   edges   |-> << Edge("src", "mid", "required"), Edge("mid", "end", "required"),
                  Edge("src", "end", "required") >>,
   returns |-> [src |-> {"SUCCESS", "SKIP"}, mid |-> {"SUCCESS", "SKIP", "FAILURE"},
                end |-> {"SUCCESS", "FAILURE"}],
   skipped |-> {},
   output  |-> {"end"},
   frames  |-> 3,
   runs    |-> 1,
   cancels |-> "never"]

(* The source flushes. *)
FlushedDiamond ==
  [Diamond EXCEPT !.returns = [src |-> {"SUCCESS", "FLUSH"},
                               mid |-> {"SUCCESS", "SKIP"}, end |-> Works]]

(* A node that steps on skipped input, and a second run. *)
RecoveringDiamond ==
  [Diamond EXCEPT !.edges = << Edge("src", "end", "required"),
                               Edge("src", "mid", "required"),
                               Edge("mid", "end", "required") >>,
                  !.returns = [src |-> {"SUCCESS", "SKIP"},
                               mid |-> Works, end |-> Works],
                  !.skipped = {"mid"}, !.frames = 2, !.runs = 2]

(* No branches, and a middle node that may return anything. *)
Chain ==
  [order   |-> << "src", "mid", "end" >>,
   edges   |-> << Edge("src", "mid", "required"), Edge("mid", "end", "required") >>,
   returns |-> [src |-> {"SUCCESS"}, mid |-> StepStatus, end |-> Works],
   skipped |-> {},
   output  |-> {"end"},
   frames  |-> 2,
   runs    |-> 1,
   cancels |-> "never"]

(* It is cancelled while it runs. *)
CancelledChain == [Chain EXCEPT !.frames = 1, !.cancels = "running"]

(* Two output nodes, one of them in the middle, connected in another order *)
(* than that of execution.                                                 *)
TwoOutputs ==
  [order   |-> << "src", "mid", "end" >>,
   edges   |-> << Edge("src", "end", "required"), Edge("src", "mid", "required"),
                  Edge("mid", "end", "dependency") >>,
   returns |-> [src |-> {"SUCCESS", "SKIP"}, mid |-> Works, end |-> Works],
   skipped |-> {},
   output  |-> {"mid", "end"},
   frames  |-> 2,
   runs    |-> 2,
   cancels |-> "never"]

(* A second source, which ends first, on an optional connection. *)
OptionalSource ==
  [order   |-> << "src", "mid", "end" >>,
   edges   |-> << Edge("mid", "end", "optional"), Edge("src", "end", "required") >>,
   returns |-> [src |-> Works, mid |-> {"SUCCESS", "FAILURE"}, end |-> Works],
   skipped |-> {},
   output  |-> {"end"},
   frames  |-> 2,
   runs    |-> 1,
   cancels |-> "running"]

(* A process that holds frames back, as many as the edge past it takes: an *)
(* edge of capacity c takes c + 1 entries.                                 *)
HoldingDiamond ==
  [Plain([Diamond EXCEPT !.returns = [src |-> Works, end |-> Works,
                                      mid |-> {"SUCCESS", "NO_OUTPUT"}],
                         !.frames = 4])
     EXCEPT !.holds = [src |-> 0, mid |-> 2, end |-> 0]]

(* It may begin again at any frame, the edge past it is longer, and the    *)
(* sink takes from that edge first.                                        *)
BreakingDiamond ==
  [HoldingDiamond EXCEPT !.edges = << Edge("src", "mid", "required"),
                                      Edge("src", "end", "required"),
                                      Edge("mid", "end", "required") >>,
                         !.capacity = << 1, 2, 1 >>,
                         !.holds = [src |-> 0, mid |-> 3, end |-> 0],
                         !.breaks = {"mid"},
                         !.frames = 5]

MCNetworks ==
  {Plain(w) : w \in {Diamond, FlushedDiamond, RecoveringDiamond, Chain,
                     CancelledChain, TwoOutputs, OptionalSource}}
  \cup {HoldingDiamond, BreakingDiamond}

-----------------------------------------------------------------------------
(* Networks in which something goes wrong.                                 *)

(* The middle node fails while the source flushes. *)
FlushPastFailure ==
  [Diamond EXCEPT !.returns = [src |-> {"SUCCESS", "FLUSH"},
                               mid |-> {"SUCCESS", "FAILURE"}, end |-> Works]]

(* The source has no end. *)
EndlessChain ==
  [Chain EXCEPT !.frames = 0, !.cancels = "running",
                !.returns = [src |-> Works, mid |-> Works, end |-> Works]]

(* It is cancelled while its threads are started. *)
CancelledAtStart ==
  [Chain EXCEPT !.cancels = "any time", !.frames = 1,
                !.returns = [src |-> Works, mid |-> Works, end |-> Works]]

(* The middle node fails, and the pipeline is reset and run again. *)
RestartedChain ==
  [Chain EXCEPT !.runs = 2,
                !.returns = [src |-> Works, mid |-> {"SUCCESS", "FAILURE"},
                             end |-> Works]]

(* The pipeline of metadata_mask_super_process: the recognizer takes the   *)
(* image of the source over an edge of the default capacity, connected     *)
(* before that of the obstruction detector; the edge to the output has the *)
(* capacity computed for what the detector holds.                          *)
ResetBuffer ==
  [order    |-> << "src", "detector", "recognizer", "end" >>,
   edges    |-> << Edge("src", "recognizer", "required"),
                   Edge("src", "detector", "required"),
                   Edge("detector", "recognizer", "required"),
                   Edge("src", "end", "required"),
                   Edge("recognizer", "end", "required") >>,
   capacity |-> << 1, 1, 1, 3, 1 >>,
   returns  |-> [src |-> Works, detector |-> {"SUCCESS", "NO_OUTPUT"},
                 recognizer |-> Works, end |-> Works],
   holds    |-> [src |-> 0, detector |-> 3, recognizer |-> 0, end |-> 0],
   breaks   |-> {},
   skipped  |-> {},
   output   |-> {"end"},
   frames   |-> 5,
   runs     |-> 1,
   cancels  |-> "never"]

(* The stream ends while frames are held, and the pipeline is run again. *)
HeldPastReset ==
  [Plain([Chain EXCEPT !.returns = [src |-> Works, end |-> Works,
                                    mid |-> {"SUCCESS", "NO_OUTPUT"}],
                       !.runs = 2])
     EXCEPT !.holds = [src |-> 0, mid |-> 2, end |-> 0]]

FlushPastFailureNetworks == {Plain(FlushPastFailure)}

EndlessNetworks == {Plain(EndlessChain)}

CancelledAtStartNetworks == {Plain(CancelledAtStart)}

ResetBufferNetworks == {ResetBuffer}

HeldPastResetNetworks == {HeldPastReset}

RestartedNetworks == {Plain(RestartedChain)}

(* What AsyncPipelineProofs assumes of networks that are run again. *)
ASSUME RunsEnd == NetworksEnd
=============================================================================
