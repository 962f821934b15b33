---------------------------- MODULE AsyncStreams ----------------------------
(***************************************************************************)
(* AsyncPipeline with a record of what its nodes announce, which the       *)
(* threads themselves keep nowhere: a history variable for the refinement  *)
(* of FrameStreams.                                                        *)
(***************************************************************************)
EXTENDS AsyncPipeline

VARIABLE stream     (* for each node, the statuses of its steps in this run *)

NothingYet == [n \in Nodes |-> << >>]

(* sent counts the steps that n has announced. *)
Recorded ==
  stream' =
    IF run' # run THEN NothingYet
    ELSE [n \in Nodes |-> IF /\ node'[n].sent.nth > node[n].sent.nth
                             /\ node'[n].last_execute_state # "NO_OUTPUT"
                          THEN Append(stream[n], node'[n].last_execute_state)
                          ELSE stream[n]]

InitRecorded == Init /\ stream = NothingYet

NextRecorded == Next /\ Recorded

varsRecorded == << vars, stream >>

SpecRecorded == InitRecorded /\ [][NextRecorded]_varsRecorded

(***************************************************************************)
(* Every runnable thread of a node and of a caller is run by the operating *)
(* system, and a process returns from its step.                            *)
(***************************************************************************)
FairSpecRecorded ==
  /\ SpecRecorded
  /\ \A n \in UNION {Range(w.order) : w \in Networks} :
       WF_varsRecorded(n \in Nodes /\ NodeStep(n) /\ Recorded)
  /\ \A c \in Callers : WF_varsRecorded(CallerStep(c) /\ Recorded)

-----------------------------------------------------------------------------
(* A thread for each node, queues of any capacity between them, skips on   *)
(* some branches, failures, interruptions and a second run do not change   *)
(* what any node makes of any frame: it is what a synchronous pipeline     *)
(* makes of it.                                                            *)
Streams == INSTANCE FrameStreams

ImplementsFrameStreams == Streams!Spec

-----------------------------------------------------------------------------
(* The networks for which AsyncPipelineProofs proves the most.             *)

(* Every node has a part in what an output node gets. *)
LeadToOutputs(w) ==
  \A S \in SUBSET Range(w.order) :
    /\ w.output \subseteq S
    /\ \A i \in DOMAIN w.edges :
         w.edges[i].kind # "dependency" /\ w.edges[i].to \in S
           => w.edges[i].from \in S
    => S = Range(w.order)

(* A run of the network ends by itself: only its sources fail, at their    *)
(* end, which reaches every node and is waited for there. *)
EndsByItself(w) ==
  /\ w.frames # 0
  /\ \A n \in Range(w.order) :
       /\ w.returns[n] \cap {"FAILURE", "FLUSH", "NO_OUTPUT"} = {}
       /\ (\E i \in DOMAIN w.edges : w.edges[i].to = n)
            => \E i \in DOMAIN w.edges :
                 w.edges[i].to = n /\ w.edges[i].kind # "dependency"
  /\ \A i \in DOMAIN w.edges : w.edges[i].kind # "optional"
  /\ LeadToOutputs(w)

(* A network that is run again is only stopped by the end of its stream: a *)
(* run that is cancelled, or whose interrupted nodes nobody waits for,     *)
(* leaves frames behind, which the next run meets.                         *)
NetworksEnd ==
  \A w \in Networks :
    Streams!FramesOnly(w) /\ w.runs > 1 => EndsByItself(w) /\ w.cancels = "never"
=============================================================================
