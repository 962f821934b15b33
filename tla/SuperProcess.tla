---------------------------- MODULE SuperProcess ----------------------------
(***************************************************************************)
(* A super process in an asynchronous pipeline: run_with_pads().  The      *)
(* thread of the outer node, here Main, starts a thread for each inner     *)
(* node and a feeder thread.  The feeder takes frames from the outer       *)
(* pipeline and gives them to the input pads; Main takes what comes out of *)
(* the output pads and announces it to the outer pipeline.                 *)
(*                                                                         *)
(* The inner pipeline is a set of lanes: chains of nodes from an input pad *)
(* to an output pad.  Of the outer pipeline nothing is known but that it   *)
(* may make the feeder wait for a frame, and Main for room.                *)
(***************************************************************************)
EXTENDS EdgeQueues

CONSTANT Settings

(***************************************************************************)
(* A setting:                                                              *)
(*   lanes, depth  the number of output pads, and of nodes before each     *)
(*   forwarding    ENABLE_STATUS_FORWARDING                                *)
(*   frames        how many frames arrive before a FAILURE                 *)
(*   source        what a frame may arrive with                            *)
(*   inner         what a step of an inner process may return              *)
(*   recoveries    how often fail_recover() resets the failed node and     *)
(*                 what is downstream of it                                *)
(*   cancels       whether the outer pipeline may be cancelled             *)
(***************************************************************************)
SettingOK(s) ==
  /\ s.lanes \in Nat \ {0} /\ s.depth \in Nat \ {0}
  /\ s.forwarding \in BOOLEAN /\ s.cancels \in BOOLEAN
  /\ s.frames \in Nat /\ s.recoveries \in Nat
  /\ s.source \subseteq EdgeStatus \ {"FAILURE"} /\ s.source # {}
  /\ s.inner \subseteq StepStatus /\ s.inner # {}
  /\ s.recoveries > 0 => s.lanes = 1

ASSUME SettingsAssumption == \A s \in Settings : SettingOK(s)

VARIABLES
  setting,
  edge,               (* for each segment of a lane, the edge *)
  item,               (* for each inner node, what it announces *)
  feeder,             (* what the feeder carries, and feeder_failed_, ... *)
  main,               (* the state of the outer node, and of run_with_pads() *)
  edge_status_queue,
  pc,                 (* where each thread is *)
  waiting,            (* the threads that have begun to wait *)
  interrupted,        (* the threads that are to be interrupted *)
  canceller           (* where cancel() of the outer pipeline is *)

superVars ==
  << setting, edge, item, feeder, main, edge_status_queue, pc, waiting, interrupted,
     canceller >>

Lanes == 1 .. setting.lanes

Cells == Lanes \X (1 .. setting.depth)

Segments == Lanes \X (0 .. setting.depth)

InEdge(c) == << c[1], c[2] - 1 >>

(* Threads have names of one form. *)
Feeder == << 0, 1 >>

Main == << 0, 2 >>

Threads == Cells \cup {Feeder, Main}

Over(t) == pc[t] \in {"none", "ended", "returned", "killed"}

InnerThreads == Cells \cup {Feeder}

SuperInit ==
  /\ setting \in Settings
  /\ edge = [s \in Segments |-> EmptyEdge]
  /\ item = [c \in Cells |-> [status |-> "SUCCESS", frame |-> 0, failed |-> FALSE]]
  /\ feeder = [status |-> "SUCCESS", arrived |-> 0, lane |-> 1,
               is_running |-> FALSE, failed |-> FALSE]
  /\ main = [status |-> "SUCCESS", round |-> 0, lane |-> 1, found |-> {}, rest |-> {},
             pad |-> [l \in Lanes |-> 0], sent |-> 0, recovered |-> 0,
             stopped |-> FALSE]
  /\ edge_status_queue = << >>
  /\ pc = [t \in Threads |-> IF t = Main THEN "start" ELSE "none"]
  /\ waiting = {} /\ interrupted = {}
  /\ canceller = "idle"

-----------------------------------------------------------------------------
(* Waiting.  The next operation of a thread goes on, or makes it wait.     *)

(* A thread that waits is taken out of the wait by its operation. *)
Goes(t, to) ==
  /\ pc' = [pc EXCEPT ![t] = to]
  /\ waiting' = waiting \ {t}

CanGoOn(t) ==
  CASE pc[t] = "in" /\ t \in Cells -> Ready(edge[InEdge(t)])
    [] pc[t] = "out" /\ t \in Cells -> ~Full(Flushed(edge[t], item[t].status))
    [] pc[t] = "pads" /\ t = Feeder ->
         ~Full(Flushed(edge[<< feeder.lane, 0 >>], feeder.status))
    [] pc[t] = "status" -> edge_status_queue # << >>
    [] pc[t] \in {"pads", "flush"} /\ t = Main ->
         Ready(edge[<< main.lane, setting.depth >>])
    [] pc[t] = "join" -> \A u \in InnerThreads : Over(u)
    [] OTHER -> TRUE

(* The operations that may take as long as the outer pipeline makes them,  *)
(* and those that look for a moment whether a thread is running.           *)
MayTakeTime(t) ==
  \/ t = Feeder /\ pc[t] = "in"
  \/ t = Main /\ pc[t] \in {"out", "last"}
  \/ t = Main /\ pc[t] = "feed" /\ feeder.is_running
  \/ t = Main /\ pc[t] = "recover" /\ \E c \in Cells : ~Over(c)

Wait(t) ==
  /\ t \notin waiting /\ ~Over(t)
  /\ ~CanGoOn(t) \/ MayTakeTime(t)
  /\ waiting' = waiting \cup {t}
  /\ UNCHANGED << setting, edge, item, feeder, main, edge_status_queue, pc,
                  interrupted, canceller >>

(* The thread is at this place, and a wait there has come to its end. *)
At(t, place) ==
  /\ pc[t] = place /\ CanGoOn(t)
  /\ ~(t \in waiting /\ t \in interrupted)

-----------------------------------------------------------------------------
(* The threads of the inner nodes: one turn of async_pipeline_node::run(). *)

(* One incoming edge, and the step. *)
StepNode(c) ==
  /\ c \in Cells /\ At(c, "in")
  /\ LET e  == edge[InEdge(c)]
         st == Delivered(e)
     IN  /\ edge' = [edge EXCEPT ![InEdge(c)] = Taken(@)]
         /\ \E outcome \in IF st = "FLUSH" THEN {"FLUSH"}
                           ELSE MayReturn({st}, FALSE, setting.inner) :
              /\ item' = [item EXCEPT ![c] =
                   [status |-> outcome,
                    frame  |-> IF SetsInput(e) THEN Head(e.data) ELSE @.frame,
                    failed |-> outcome = "FAILURE" /\ st # "FAILURE"]]
              /\ Goes(c, IF outcome = "NO_OUTPUT" THEN "in" ELSE "out")
  /\ UNCHANGED << setting, feeder, main, edge_status_queue, interrupted, canceller >>

(* The outgoing edge; a failed node's thread ends. *)
AnnounceStep(c) ==
  /\ c \in Cells /\ At(c, "out")
  /\ edge' = [edge EXCEPT ![c] =
       Stored(Flushed(@, item[c].status), item[c].status, item[c].frame)]
  /\ Goes(c, IF item[c].status = "FAILURE" THEN "ended" ELSE "in")
  /\ UNCHANGED << setting, item, feeder, main, edge_status_queue, interrupted,
                  canceller >>

-----------------------------------------------------------------------------
(* The feeder: feed_pads_job().                                            *)

FeederBegins ==
  /\ pc[Feeder] = "begin"
  /\ feeder' = [feeder EXCEPT !.is_running = TRUE, !.failed = FALSE]
  /\ Goes(Feeder, "in")
  /\ UNCHANGED << setting, edge, item, main, edge_status_queue, interrupted,
                  canceller >>

(* The incoming edges of the outer node. *)
TakeFrame ==
  /\ At(Feeder, "in")
  /\ \E st \in IF feeder.arrived < setting.frames THEN setting.source
               ELSE {"FAILURE"} :
       /\ feeder' = [feeder EXCEPT !.status = st, !.lane = 1,
            !.arrived = IF st = "FAILURE" THEN @ ELSE @ + 1]
       /\ Goes(Feeder, IF st = "SUCCESS" \/ setting.forwarding THEN "pads"
                       ELSE "queue")
  /\ UNCHANGED << setting, edge, item, main, edge_status_queue, interrupted,
                  canceller >>

FeederHead(st) == IF st = "FAILURE" THEN "fail" ELSE "in"

(* One input pad: it is stepped, and puts the frame on its edge. *)
FeedPad ==
  /\ At(Feeder, "pads")
  /\ edge' = [edge EXCEPT ![<< feeder.lane, 0 >>] =
       Stored(Flushed(@, feeder.status), feeder.status, feeder.arrived)]
  /\ IF feeder.lane < setting.lanes
     THEN /\ feeder' = [feeder EXCEPT !.lane = @ + 1]
          /\ Goes(Feeder, "pads")
     ELSE /\ Goes(Feeder, IF setting.forwarding THEN FeederHead(feeder.status)
                          ELSE "queue")
          /\ UNCHANGED feeder
  /\ UNCHANGED << setting, item, main, edge_status_queue, interrupted, canceller >>

(* A mutant of QueueStatus: the feeder ends without a word. *)
QueueUnlessFailure ==
  /\ At(Feeder, "queue")
  /\ edge_status_queue' = IF feeder.status = "FAILURE" THEN edge_status_queue
                          ELSE Append(edge_status_queue, feeder.status)
  /\ Goes(Feeder, FeederHead(feeder.status))
  /\ UNCHANGED << setting, edge, item, feeder, main, interrupted, canceller >>

QueueStatus ==
  /\ At(Feeder, "queue")
  /\ edge_status_queue' = Append(edge_status_queue, feeder.status)
  /\ Goes(Feeder, FeederHead(feeder.status))
  /\ UNCHANGED << setting, edge, item, feeder, main, interrupted, canceller >>

FeederFails ==
  /\ pc[Feeder] = "fail"
  /\ feeder' = [feeder EXCEPT !.failed = TRUE]
  /\ Goes(Feeder, "leave")
  /\ UNCHANGED << setting, edge, item, main, edge_status_queue, interrupted,
                  canceller >>

FeederLeaves ==
  /\ pc[Feeder] = "leave"
  /\ feeder' = [feeder EXCEPT !.is_running = FALSE]
  /\ Goes(Feeder, "ended")
  /\ UNCHANGED << setting, edge, item, main, edge_status_queue, interrupted,
                  canceller >>

-----------------------------------------------------------------------------
(* Main: run_with_pads(), which super_process::run() calls again after a   *)
(* recovery.                                                               *)

(* manage_thread() of every inner node. *)
StartNodes ==
  /\ pc[Main] = "start"
  /\ LET starts == {c \in Cells : \/ pc[c] = "none"
                                  \/ pc[c] = "ended" /\ item[c].status = "SUCCESS"}
     IN  /\ pc' = [t \in Threads |-> IF t \in starts THEN "in"
                                     ELSE IF t = Main THEN "feed" ELSE pc[t]]
         /\ interrupted' = interrupted \ starts
  /\ UNCHANGED << setting, edge, item, feeder, main, edge_status_queue, waiting,
                  canceller >>

(* The head of the loop, and the state m of Main in it. *)
LoopHead(m) ==
  IF m.status = "FAILURE" THEN "interrupt"
  ELSE IF setting.forwarding THEN "pads" ELSE "status"

NewRound(m) ==
  IF m.status = "FAILURE" THEN m
  ELSE [m EXCEPT !.round = @ + 1, !.lane = 1, !.found = {}]

(* A feeder that is running goes on, and one that has failed is not        *)
(* started again. *)
StartFeeder ==
  /\ At(Main, "feed")
  /\ IF feeder.is_running \/ feeder.failed
     THEN Goes(Main, LoopHead(main)) /\ UNCHANGED interrupted
     ELSE /\ pc' = [pc EXCEPT ![Feeder] = "begin", ![Main] = LoopHead(main)]
          /\ waiting' = waiting \ {Main}
          /\ interrupted' = interrupted \ {Feeder}
  /\ main' = NewRound(main)
  /\ UNCHANGED << setting, edge, item, feeder, edge_status_queue, canceller >>

(* What the next frame arrived with decides whether the pads are asked. *)
TakeStatus ==
  /\ At(Main, "status")
  /\ LET st == Head(edge_status_queue)
     IN  /\ main' = [main EXCEPT !.status = IF st = "SUCCESS" THEN @ ELSE st]
         /\ Goes(Main, IF st = "SUCCESS" THEN "pads"
                       ELSE IF st = "FAILURE" THEN "interrupt" ELSE "out")
  /\ edge_status_queue' = Tail(edge_status_queue)
  /\ UNCHANGED << setting, edge, item, feeder, interrupted, canceller >>

(* What the output pads make of the frame. *)
StatusOfPads(found) ==
  IF found = {"FAILURE"} THEN "FAILURE"
  ELSE IF "SKIP" \in found THEN "SKIP" ELSE "SUCCESS"

PadEdge(l) == << l, setting.depth >>

(* The pads of these lanes are still to be emptied, one after the other. *)
EmptyNext(m, lanes) ==
  [m EXCEPT !.rest = lanes,
            !.lane = IF lanes = {} THEN @
                     ELSE CHOOSE l \in lanes : \A k \in lanes : l <= k]

(* A mutant of ReadPad: a skip on one pad leaves the loop as a flush does. *)
ReadPadUntilSkip ==
  /\ At(Main, "pads")
  /\ LET e == edge[PadEdge(main.lane)]
         found == main.found \cup {Delivered(e)}
         m == [main EXCEPT !.found = found, !.lane = @ + 1,
                 !.pad[main.lane] = IF SetsInput(e) THEN Head(e.data) ELSE 0]
     IN  /\ edge' = [edge EXCEPT ![PadEdge(main.lane)] = Taken(@)]
         /\ IF main.lane < setting.lanes /\ Delivered(e) # "SKIP"
            THEN Goes(Main, "pads") /\ main' = m
            ELSE /\ Goes(Main, IF StatusOfPads(found) = "FAILURE" THEN "recover"
                               ELSE "out")
                 /\ main' = [m EXCEPT !.status = StatusOfPads(found)]
  /\ UNCHANGED << setting, item, feeder, edge_status_queue, interrupted, canceller >>

(* One output pad.  Its step clears the value when no new one was set.     *)
(* The first FLUSH leaves the loop, for the other pads to be emptied.      *)
ReadPad ==
  /\ At(Main, "pads")
  /\ LET e == edge[PadEdge(main.lane)]
         found == main.found \cup {Delivered(e)}
         m == [main EXCEPT !.found = found,
                 !.pad[main.lane] = IF SetsInput(e) THEN Head(e.data) ELSE 0]
         others == Lanes \ {main.lane}
     IN  /\ edge' = [edge EXCEPT ![PadEdge(main.lane)] = Taken(@)]
         /\ IF Delivered(e) = "FLUSH"
            THEN /\ main' = EmptyNext([m EXCEPT !.status = "FLUSH"], others)
                 /\ Goes(Main, IF others = {} THEN "out" ELSE "flush")
            ELSE IF main.lane < setting.lanes
            THEN main' = [m EXCEPT !.lane = @ + 1] /\ Goes(Main, "pads")
            ELSE IF StatusOfPads(found) = "FAILURE"
            THEN main' = m /\ Goes(Main, "recover")
            ELSE main' = [m EXCEPT !.status = StatusOfPads(found)] /\ Goes(Main, "out")
  /\ UNCHANGED << setting, item, feeder, edge_status_queue, interrupted, canceller >>

(* while( execute_incoming_edges() != FLUSH ): it spins on a closed edge.  *)
FlushPad ==
  /\ At(Main, "flush")
  /\ LET e == edge[PadEdge(main.lane)]
         rest == IF Delivered(e) = "FLUSH" THEN main.rest \ {main.lane} ELSE main.rest
     IN  /\ edge' = [edge EXCEPT ![PadEdge(main.lane)] = Taken(@)]
         /\ main' = EmptyNext(main, rest)
         /\ Goes(Main, IF rest = {} THEN "out" ELSE "flush")
  /\ UNCHANGED << setting, item, feeder, edge_status_queue, interrupted, canceller >>

(* The inner nodes from the failed one to the pad. *)
Downstream(c) == {d \in Cells : d[1] = c[1] /\ d[2] >= c[2]}

(* fail_recover() of a super process that calls reset_downstream() for the *)
(* node that failed by itself.  The edges keep what is on them, and run()  *)
(* begins again: the frame that failed is announced to nobody. *)
Recover ==
  /\ At(Main, "recover") /\ main.recovered < setting.recoveries
  /\ \E c \in Cells :
       /\ item[c].failed
       /\ \A d \in Downstream(c) : Over(d)
       /\ item' = [d \in Cells |->
            IF d \in Downstream(c) THEN [item[d] EXCEPT !.status = "SUCCESS", !.failed = FALSE]
                                  ELSE item[d]]
       /\ edge' = [s \in Segments |->
            IF s \in Downstream(c) THEN WasReset(edge[s]) ELSE edge[s]]
  /\ main' = [main EXCEPT !.status = "SKIP", !.recovered = @ + 1]
  /\ Goes(Main, "start")
  /\ UNCHANGED << setting, feeder, edge_status_queue, interrupted, canceller >>

(* There is nothing to recover, or a node downstream was still running     *)
(* after the moment that reset() gives it. *)
GiveUp ==
  /\ At(Main, "recover")
  /\ \/ main.recovered = setting.recoveries
     \/ ~ \E c \in Cells : item[c].failed /\ \A d \in Downstream(c) : Over(d)
  /\ main' = [main EXCEPT !.status = "FAILURE"]
  /\ Goes(Main, "interrupt")
  /\ UNCHANGED << setting, edge, item, feeder, edge_status_queue, interrupted,
                  canceller >>

(* The outgoing edges of the outer node; the loop begins again. *)
Announce ==
  /\ At(Main, "out")
  /\ main' = NewRound([main EXCEPT !.sent = @ + 1])
  /\ Goes(Main, LoopHead(main))
  /\ UNCHANGED << setting, edge, item, feeder, edge_status_queue, interrupted,
                  canceller >>

(* The threads of the inner pipeline are interrupted, ... *)
InterruptAll ==
  /\ pc[Main] = "interrupt"
  /\ interrupted' = interrupted \cup {t \in InnerThreads : ~Over(t)}
  /\ Goes(Main, "join")
  /\ UNCHANGED << setting, edge, item, feeder, main, edge_status_queue, canceller >>

(* A mutant of Join: the feeder is not joined. *)
JoinNodes ==
  /\ pc[Main] = "join" /\ \A c \in Cells : Over(c)
  /\ ~(Main \in waiting /\ Main \in interrupted)
  /\ Goes(Main, IF main.stopped THEN "returned" ELSE "last")
  /\ UNCHANGED << setting, edge, item, feeder, main, edge_status_queue, interrupted,
                  canceller >>

(* ... and joined. *)
Join ==
  /\ At(Main, "join")
  /\ Goes(Main, IF main.stopped THEN "returned" ELSE "last")
  /\ UNCHANGED << setting, edge, item, feeder, main, edge_status_queue, interrupted,
                  canceller >>

(* The outer pipeline is told of the failure. *)
AnnounceFailure ==
  /\ At(Main, "last")
  /\ main' = [main EXCEPT !.sent = @ + 1]
  /\ Goes(Main, "returned")
  /\ UNCHANGED << setting, edge, item, feeder, edge_status_queue, interrupted,
                  canceller >>

-----------------------------------------------------------------------------
(* Interruptions: boost::thread_interrupted leaves a wait.                 *)

ThreadInterrupted(t) ==
  /\ t \in waiting /\ t \in interrupted
  /\ interrupted' = interrupted \ {t}
  /\ \/ t \in Cells /\ Goes(t, "ended") /\ UNCHANGED main
     \/ t = Feeder /\ Goes(t, "fail") /\ UNCHANGED main
     \/ t = Main /\ pc[t] = "out"           \* caught: the outer node fails
        /\ main' = [main EXCEPT !.status = "FAILURE", !.stopped = TRUE]
        /\ Goes(t, "interrupt")
     \/ t = Main /\ pc[t] = "join"          \* caught: it joins again
        /\ main' = [main EXCEPT !.stopped = TRUE]
        /\ Goes(t, "join")
     \/ t = Main /\ pc[t] \notin {"out", "join"}  \* run_with_pads() is left
        /\ Goes(t, "killed") /\ UNCHANGED main
  /\ UNCHANGED << setting, edge, item, feeder, edge_status_queue, canceller >>

(* cancel() of the outer pipeline interrupts Main, joins it, and calls     *)
(* cancel() of the super process, which does the same with its threads.    *)
Cancel ==
  /\ setting.cancels /\ canceller = "idle"
  /\ interrupted' = interrupted \cup ({Main} \ {t \in Threads : Over(t)})
  /\ canceller' = "joining"
  /\ UNCHANGED << setting, edge, item, feeder, main, edge_status_queue, pc, waiting >>

(* A mutant of CancelInner: the threads are joined, and not interrupted. *)
CancelJoinsOnly ==
  /\ canceller = "joining" /\ Over(Main)
  /\ canceller' = "inner"
  /\ UNCHANGED << setting, edge, item, feeder, main, edge_status_queue, pc, waiting,
                  interrupted >>

CancelInner ==
  /\ canceller = "joining" /\ Over(Main)
  /\ interrupted' = interrupted \cup {t \in InnerThreads : ~Over(t)}
  /\ canceller' = "inner"
  /\ UNCHANGED << setting, edge, item, feeder, main, edge_status_queue, pc, waiting >>

CancelEnds ==
  /\ canceller = "inner" /\ \A t \in InnerThreads : Over(t)
  /\ canceller' = "done"
  /\ UNCHANGED << setting, edge, item, feeder, main, edge_status_queue, pc, waiting,
                  interrupted >>

-----------------------------------------------------------------------------
FeederStep ==
  FeederBegins \/ TakeFrame \/ FeedPad \/ QueueStatus \/ FeederFails \/ FeederLeaves

MainStep ==
  \/ StartNodes \/ StartFeeder \/ TakeStatus \/ ReadPad \/ FlushPad \/ Recover
  \/ GiveUp \/ Announce \/ InterruptAll \/ Join \/ AnnounceFailure

CancellerStep == CancelInner \/ CancelEnds

SuperNext ==
  \/ \E c \in Cells : StepNode(c) \/ AnnounceStep(c)
  \/ FeederStep
  \/ MainStep
  \/ \E t \in Threads : Wait(t) \/ ThreadInterrupted(t)
  \/ Cancel
  \/ CancellerStep

SuperSpec == SuperInit /\ [][SuperNext]_superVars

(***************************************************************************)
(* Every thread that can go on is run, a process returns from its step,    *)
(* and the outer pipeline at last has a frame, or room for one.            *)
(***************************************************************************)
ThreadNames ==
  UNION {((1 .. s.lanes) \X (1 .. s.depth)) \cup {Feeder, Main} : s \in Settings}

SuperFairSpec ==
  /\ SuperSpec
  /\ \A t \in ThreadNames :
       WF_superVars(t \in Threads /\ (\/ StepNode(t) \/ AnnounceStep(t) \/ Wait(t)
                                      \/ ThreadInterrupted(t)))
  /\ WF_superVars(FeederStep) /\ WF_superVars(MainStep) /\ WF_superVars(CancellerStep)

-----------------------------------------------------------------------------
(* Properties.                                                             *)

Place == {"none", "start", "begin", "in", "pads", "queue", "fail", "leave", "feed",
          "status", "flush", "recover", "out", "interrupt", "join", "last", "ended",
          "returned", "killed"}

(* Every variable has its type. *)
SuperTypes ==
  /\ \A s \in Segments :
       /\ edge[s].status \in Seq(EdgeStatus) /\ edge[s].data \in Seq(1 .. setting.frames)
       /\ edge[s].no_more_input \in BOOLEAN /\ edge[s].last_size \in Nat
  /\ \A c \in Cells :
       /\ item[c].status \in StepStatus /\ item[c].frame \in 0 .. setting.frames
       /\ item[c].failed \in BOOLEAN
  /\ feeder.status \in EdgeStatus /\ feeder.arrived \in 0 .. setting.frames
  /\ feeder.lane \in Lanes
  /\ feeder.is_running \in BOOLEAN /\ feeder.failed \in BOOLEAN
  /\ main.status \in EdgeStatus /\ main.round \in Nat /\ main.lane \in Lanes
  /\ main.found \subseteq EdgeStatus /\ main.rest \subseteq Lanes
  /\ main.pad \in [Lanes -> 0 .. setting.frames]
  /\ main.sent \in 0 .. main.round + 1 /\ main.recovered \in 0 .. setting.recoveries
  /\ edge_status_queue \in Seq(EdgeStatus)
  /\ pc \in [Threads -> Place]
  /\ waiting \subseteq Threads /\ interrupted \subseteq Threads
  /\ canceller \in {"idle", "joining", "inner", "done"}

LaneFailed(l) == \E c \in Cells : c[1] = l /\ item[c].status = "FAILURE"

(* Nothing in the setting changes how many statuses come out of a lane. *)
Counted ==
  /\ "NO_OUTPUT" \notin setting.inner /\ "FLUSH" \notin setting.inner
  /\ setting.forwarding => "FLUSH" \notin setting.source

(* What a super process announces together belongs together: when it       *)
(* announces SUCCESS, all its pads hold the same frame, and the frame is   *)
(* the one that it has come to, also behind a frame that it recovered      *)
(* from.  Only a lane that has failed has no value to give.                *)
PadsInStep ==
  pc[Main] = "out" /\ main.status = "SUCCESS" =>
    /\ \A l \in Lanes : main.pad[l] = 0 => LaneFailed(l)
    /\ \A l, k \in Lanes : main.pad[l] # 0 /\ main.pad[k] # 0
                             => main.pad[l] = main.pad[k]
    /\ Counted => \A l \in Lanes : main.pad[l] \in {0, main.round}

Successes(q) == Cardinality(SuccessesUpTo(q, Len(q)))

InLane(l) ==
  LET Held[d \in 0 .. setting.depth] ==
        Len(edge[<< l, d >>].status)
        + (IF d > 0 /\ pc[<< l, d >>] = "out" THEN 1 ELSE 0)
        + (IF d > 0 THEN Held[d - 1] ELSE 0)
  IN  Held[setting.depth]

(* As long as nothing in a lane has failed or was interrupted, it holds    *)
(* exactly the frames that the status queue promises: Main, which waits    *)
(* for one output per SUCCESS, never waits for one that will not come, and *)
(* never leaves one behind.                                                *)
LanesMatchStatusQueue ==
  ~setting.forwarding /\ Counted =>
    \A l \in Lanes :
      /\ ~LaneFailed(l) /\ interrupted \cap InnerThreads = {} /\ main.recovered = 0
      /\ pc[Main] \notin {"killed", "interrupt", "join", "last", "returned"}
      /\ pc[Feeder] # "fail" \/ feeder.status = "FAILURE"
      => InLane(l) = Successes(edge_status_queue)
           + (IF pc[Main] = "pads" /\ main.lane <= l THEN 1 ELSE 0)
           + (IF /\ feeder.status = "SUCCESS"
                 /\ pc[Feeder] = "queue" \/ (pc[Feeder] = "pads" /\ feeder.lane > l)
              THEN 1 ELSE 0)

(* When run_with_pads() has returned, or cancel() of the outer pipeline    *)
(* has, no thread of the inner pipeline is left.                           *)
NothingOutlivesRun ==
  pc[Main] = "returned" \/ canceller = "done" => \A t \in InnerThreads : Over(t)

(* Main looks for a FLUSH on a pad whose lane has failed. *)
Spins == pc[Main] = "flush" /\ LaneFailed(main.lane)

(* The two ways in which a lane that failed holds up the others: the       *)
(* feeder waits for room in it, or Main looks for a FLUSH that is not to   *)
(* come. *)
HeldUp ==
  \/ Spins
  \/ /\ pc[Feeder] = "pads" /\ LaneFailed(feeder.lane) /\ ~CanGoOn(Feeder)
     /\ pc[Main] \in {"status", "pads"} /\ ~CanGoOn(Main)

(* A super process whose input ends comes to its end, whatever its frames  *)
(* and its nodes return, unless one of several lanes has failed and the    *)
(* rest is held up by it.                                                  *)
RunEnds == <>Over(Main) \/ <>[]HeldUp

(* cancel() of the outer pipeline returns, also when the feeder or Main    *)
(* waits for ever in a lane that failed; unless Main spins: there is no    *)
(* interruption point in the loop at async_pipeline.cxx:349.               *)
CancelReturns == <>[](canceller \in {"idle", "done"}) \/ <>[]Spins

(* One status is announced for every frame that arrived, also for one that *)
(* the super process recovered from.                                       *)
EveryFrameAnswered ==
  pc[Main] = "out" => main.sent + 1 = main.round
=============================================================================
