--------------------------- MODULE AsyncPipeline ----------------------------
(***************************************************************************)
(* async_pipeline and its nodes: one thread per node, each in the loop of  *)
(* async_pipeline_node::run(); a thread of the application that starts     *)
(* them, waits for the output nodes, interrupts the others and may reset   *)
(* the pipeline and run it again; and another that may cancel it.          *)
(*                                                                         *)
(* What happens to an edge under its mutex is in EdgeQueues.  AsyncEdge    *)
(* shows that its condition variables lose no wakeup, so a wait is here a  *)
(* guard; that a thread has begun to wait is kept, because a wait is where *)
(* an interrupted thread stops.                                            *)
(*                                                                         *)
(***************************************************************************)
EXTENDS EdgeQueues, PipelineNetwork

VARIABLES
  edge,       (* for each edge, the record of EdgeQueues *)
  node,       (* for each node, its thread and its state *)
  call,       (* for each caller, the rest of the call it is in *)
  run,        (* the run of the pipeline that was started last *)
  cancelled   (* cancel() has been called *)

vars == << net, edge, node, call, run, cancelled >>

(***************************************************************************)
(* Three more fields of a network matter to its threads:                   *)
(*   capacity  for each connection, how much it takes before it makes its  *)
(*             source wait: the edge capacity of the pipeline when the     *)
(*             connection was made, which a super process changes          *)
(*   holds     for each node, how many frames its process holds back       *)
(*             before it gives them all in one step, by push_output()      *)
(*   breaks    the nodes whose process may begin to hold back again        *)
(***************************************************************************)
AsyncNetworkOK(w) ==
  /\ w.capacity \in [DOMAIN w.edges -> Nat]
  /\ w.holds \in [Range(w.order) -> Nat]
  /\ w.breaks \subseteq Range(w.order)
  /\ \A n \in Range(w.order) :
       w.holds[n] > 0 => /\ w.returns[n] = {"SUCCESS", "NO_OUTPUT"}
                         /\ w.frames > 0
                         /\ \E i \in DOMAIN w.edges : w.edges[i].from = n
                         /\ \E i \in DOMAIN w.edges : w.edges[i].to = n

ASSUME AsyncNetworksAssumption == \A w \in Networks : AsyncNetworkOK(w)

(***************************************************************************)
(* The callers: the application's thread, in run() or reset(), and the     *)
(* thread that cancels.  A call visits the nodes in execution order, once  *)
(* for each of its loops.  run_async() sets is_critical of every node, so  *)
(* the loops of wait(), which follow it in the same thread, visit nodes    *)
(* known from the start; those of cancel() may read is_critical before.    *)
(***************************************************************************)
Callers == {"application", "canceller"}

Visits(op, nodes) == [i \in DOMAIN nodes |-> [op |-> op, node |-> nodes[i]]]

Critical ==
  Subsequence(net.order, {p \in DOMAIN net.order : net.order[p] \in net.output})

NonCritical ==
  Subsequence(net.order, {p \in DOMAIN net.order : net.order[p] \notin net.output})

run_async == Visits("manage_thread", net.order)

wait ==
  Visits("join_critical", Critical)
  \o Visits("interrupt_non_critical", NonCritical)
  \o Visits("join_non_critical", NonCritical)

cancel ==
  Visits("interrupt_critical", net.order)
  \o Visits("interrupt_non_critical", net.order)
  \o Visits("join_critical", net.order)
  \o Visits("join_non_critical", net.order)

reset == Visits("reset", net.order)

(***************************************************************************)
(* A thread is not there ("none"), takes the status of its incoming edges  *)
(* ("in"), takes what is left up to a FLUSH ("resync"), is about to do its *)
(* step ("execute"), announces it ("out"), or has ended.  todo holds the   *)
(* edges that the loop it is in has still to visit.                        *)
(***************************************************************************)
ThreadState == {"none", "in", "resync", "execute", "out", "ended"}

(* A value is known by the run and the step that made it: the nth after so *)
(* many flushes.                                                           *)
NewRun(r) == [run |-> r, flush |-> 0, nth |-> 0]

NewNode(w) ==
  [pc                 |-> "none",
   todo               |-> << >>,
   last_execute_state |-> "SUCCESS",
   found              |-> {},      \* found_skip, found_failure
   fresh              |-> {},      \* the values given in this step
   sent               |-> NewRun(1),
   left               |-> w.frames,
   held               |-> << >>,   \* the frames its process holds back
   since              |-> 0,       \* how many it has got since it began to
   pushing            |-> FALSE,   \* it is in push_output()
   waiting            |-> FALSE,
   interrupted        |-> FALSE,
   is_critical        |-> FALSE,
   thread_mut         |-> "free"]

Init ==
  /\ net \in Networks
  /\ edge = [i \in DOMAIN net.edges |-> EmptyEdge]
  /\ node = [n \in Nodes |-> NewNode(net)]
  /\ call = [c \in Callers |-> IF c = "application" THEN run_async \o wait
                                                    ELSE << >>]
  /\ run = 1
  /\ cancelled = FALSE

-----------------------------------------------------------------------------
(* A node's thread: async_pipeline_node::run().                            *)

(* Where the loop goes when last_execute_state() is st: out, or round. *)
LoopHead(x, n, st) ==
  [x EXCEPT !.last_execute_state = st, !.found = {}, !.fresh = {},
            !.waiting = FALSE, !.pushing = FALSE,
            !.pc   = IF st = "FAILURE" THEN "ended"
                     ELSE IF IsSource(n) THEN "execute" ELSE "in",
            !.todo = IF st = "FAILURE" THEN << >> ELSE Incoming(n)]

NextSent(s, st) ==
  IF st = "FLUSH" THEN [s EXCEPT !.flush = @ + 1, !.nth = 0]
                  ELSE [s EXCEPT !.nth = @ + 1]

(* execute_outgoing_edges() begins, with status st. *)
Announces(x, n, st) ==
  [x EXCEPT !.last_execute_state = st, !.found = {}, !.fresh = {},
            !.waiting = FALSE, !.pc = "out", !.todo = Outgoing(n)]

(* A mutant of StepEnds: the loop ends before a FAILURE is announced. *)
StepEndsUnannounced(x, n, st) ==
  LET counted == [x EXCEPT !.sent = NextSent(@, st), !.pushing = FALSE]
  IN  IF Outgoing(n) = << >> \/ st \in {"FAILURE", "NO_OUTPUT"}
      THEN LoopHead(counted, n, st) ELSE Announces(counted, n, st)

(* A step ends with status st: its outgoing edges come next, if any. *)
StepEnds(x, n, st) ==
  LET counted == [x EXCEPT !.sent = IF net.frames = 0
                                    THEN @ ELSE NextSent(@, st),
                           !.pushing = FALSE]
  IN  IF st = "NO_OUTPUT" \/ Outgoing(n) = << >>
      THEN LoopHead(counted, n, st) ELSE Announces(counted, n, st)

(* An edge that only orders its two nodes never makes its sink wait. *)
CanPush(i) == net.edges[i].kind = "dependency" \/ Ready(edge[i])

PushedStatus(i) ==
  IF net.edges[i].kind = "dependency" THEN "SUCCESS" ELSE Delivered(edge[i])

PushedValues(i) ==
  IF net.edges[i].kind # "dependency" /\ SetsInput(edge[i])
  THEN {Head(edge[i].data)} ELSE {}

AfterPush(i) ==
  IF net.edges[i].kind = "dependency" THEN edge ELSE [edge EXCEPT ![i] = Taken(@)]

(* A flush that then finds no room had nothing to drop (SizeIsCurrent of   *)
(* AsyncEdge), so that it is applied when the status is stored.            *)
CanPull(n, i) ==
  \/ net.edges[i].kind = "dependency"
  \/ ~FullAt(Flushed(edge[i], node[n].last_execute_state), net.capacity[i])

AfterPull(n, i) ==
  LET st    == node[n].last_execute_state
      value == IF node[n].pushing THEN Head(node[n].held) ELSE node[n].sent
  IN  IF net.edges[i].kind = "dependency" THEN edge
      ELSE [edge EXCEPT ![i] = Stored(Flushed(@, st), st, value)]

(* The call the thread is in can go on, or has to wait. *)
CanGoOn(n) ==
  IF node[n].pc = "out" THEN CanPull(n, Head(node[n].todo))
                        ELSE CanPush(Head(node[n].todo))

InEdgeCall(n) == node[n].pc \in {"in", "resync", "out"}

Wait(n) ==
  /\ InEdgeCall(n) /\ ~node[n].waiting /\ ~CanGoOn(n)
  /\ node' = [node EXCEPT ![n].waiting = TRUE]
  /\ UNCHANGED << net, edge, call, run, cancelled >>

(* A wait is where an interruption is noticed. *)
GoesOn(n) == CanGoOn(n) /\ ~(node[n].waiting /\ node[n].interrupted)

(* A mutant of AfterFlush: the other edges are not emptied. *)
AfterFlushAlone(x, n, i) == StepEnds(x, n, "FLUSH")

(* The loop is left at the first FLUSH, and the other edges emptied up to  *)
(* theirs. *)
AfterFlush(x, n, i) ==
  LET others == Enumeration(EdgesTo(n) \ {i})
  IN  IF others = << >> THEN StepEnds(x, n, "FLUSH")
      ELSE [x EXCEPT !.pc = "resync", !.todo = others, !.waiting = FALSE]

(* Mutants of AfterStatus: a SKIP, or a FAILURE, ends the loop as a FLUSH  *)
(* does. *)
AfterStatusLeavingAt(stop, x, i, st) ==
  LET noted == IF st = "SKIP" \/ (st = "FAILURE" /\ net.edges[i].kind # "optional")
               THEN {st} ELSE {}
      rest  == IF st = stop THEN << >> ELSE Tail(x.todo)
  IN  [x EXCEPT !.found = @ \cup noted,
                !.fresh = @ \cup PushedValues(i),
                !.waiting = FALSE,
                !.todo = rest,
                !.pc = IF rest = << >> THEN "execute" ELSE @]

AfterStatusLeavingAtSkip(x, i, st) == AfterStatusLeavingAt("SKIP", x, i, st)

AfterStatusLeavingAtFailure(x, i, st) == AfterStatusLeavingAt("FAILURE", x, i, st)

(* Any other status is noted, and the loop goes on to the next edge. *)
AfterStatus(x, i, st) ==
  LET noted == IF st = "SKIP" \/ (st = "FAILURE" /\ net.edges[i].kind # "optional")
               THEN {st} ELSE {}
  IN  [x EXCEPT !.found = @ \cup noted,
                !.fresh = @ \cup PushedValues(i),
                !.waiting = FALSE,
                !.todo = Tail(@),
                !.pc = IF Tail(x.todo) = << >> THEN "execute" ELSE @]

(* One turn of the loop of execute_incoming_edges(). *)
ExecuteIncomingEdge(n) ==
  /\ node[n].pc = "in" /\ GoesOn(n)
  /\ LET i  == Head(node[n].todo)
         st == PushedStatus(i)
     IN  /\ edge' = AfterPush(i)
         /\ node' = [node EXCEPT ![n] = IF st = "FLUSH" THEN AfterFlush(@, n, i)
                                        ELSE AfterStatus(@, i, st)]
  /\ UNCHANGED << net, call, run, cancelled >>

(* The loop goes on to the next edge. *)
NextEdge(x) == [x EXCEPT !.todo = Tail(@), !.waiting = FALSE]

(* One turn of while( push_data() != FLUSH ) on one of the other edges: it *)
(* spins on an edge that is closed, or that only orders its nodes.         *)
Resynchronize(n) ==
  /\ node[n].pc = "resync" /\ GoesOn(n)
  /\ LET i == Head(node[n].todo)
     IN  /\ edge' = AfterPush(i)
         /\ node' = [node EXCEPT ![n] =
              IF PushedStatus(i) # "FLUSH" THEN [@ EXCEPT !.waiting = FALSE]
              ELSE IF Tail(@.todo) = << >> THEN StepEnds(@, n, "FLUSH")
              ELSE NextEdge(@)]
  /\ UNCHANGED << net, call, run, cancelled >>

(* What the process may return.  A source that has an end fails there. *)
Returns(n) ==
  IF IsSource(n) /\ net.frames # 0 /\ node[n].left = 0
  THEN {"FAILURE"} ELSE net.returns[n]

(***************************************************************************)
(* A process that holds frames back, such as                               *)
(* scene_obstruction_detector_process: it answers NO_OUTPUT to the first   *)
(* net.holds[n] frames.  In the step of the next it pushes those, and then *)
(* returns with that frame.  At a break it pushes what it holds and begins *)
(* again.  border_detection_process does so once.                          *)
(***************************************************************************)
Holds(x, n) == x.since <= net.holds[n]

(* A step whose frames were pushed, if any: x.since counts the new frame. *)
HolderEnds(x, n) ==
  IF Holds(x, n)
  THEN StepEnds([x EXCEPT !.held = Append(@, NextSent(x.sent, "SUCCESS"))],
                n, "NO_OUTPUT")
  ELSE StepEnds(x, n, "SUCCESS")

(* push_output() *)
PushBegins(x, n) == [Announces(x, n, "SUCCESS") EXCEPT !.pushing = TRUE]

(* A mutant of PushEnds: all but one of the frames are pushed, as by a     *)
(* process that returns with the last. *)
PushEndsEarly(x, n) ==
  LET given == [x EXCEPT !.held = Tail(@)]
  IN  IF Len(given.held) <= 1 THEN HolderEnds([given EXCEPT !.held = << >>], n)
                              ELSE PushBegins(given, n)

PushEnds(x, n) ==
  LET given == [x EXCEPT !.held = Tail(@)]
  IN  IF given.held = << >> THEN HolderEnds(given, n) ELSE PushBegins(given, n)

HolderStep(x, n, break) ==
  LET since   == IF break THEN 0 ELSE x.since
      counted == [x EXCEPT !.since = IF since > net.holds[n] THEN @ ELSE since + 1]
  IN  IF x.held # << >> /\ (break \/ ~Holds(counted, n))
      THEN PushBegins(counted, n) ELSE HolderEnds(counted, n)

(* The process is called, and not only its outgoing edges. *)
IsCalled(n) ==
  /\ "FAILURE" \notin node[n].found
  /\ "SKIP" \notin node[n].found \/ n \in net.skipped

ExecuteHolder(n) ==
  /\ node[n].pc = "execute" /\ net.holds[n] > 0 /\ IsCalled(n)
  /\ \E break \in IF n \in net.breaks THEN BOOLEAN ELSE {FALSE} :
       node' = [node EXCEPT ![n] = HolderStep(@, n, break)]
  /\ UNCHANGED << net, edge, call, run, cancelled >>

(* A source that has an end is one frame nearer to it. *)
Stepped(x, n) ==
  [x EXCEPT !.left = IF IsSource(n) /\ @ > 0 THEN @ - 1 ELSE @]

(* The rest of the loop's body, up to the outgoing edges. *)
Execute(n) ==
  /\ node[n].pc = "execute"
  /\ ~(net.holds[n] > 0 /\ IsCalled(n))
  /\ \E st \in MayReturn(node[n].found, n \in net.skipped, Returns(n)) :
       node' = [node EXCEPT ![n] = StepEnds(Stepped(@, n), n, st)]
  /\ UNCHANGED << net, edge, call, run, cancelled >>

(* One turn of the loop of execute_outgoing_edges(). *)
ExecuteOutgoingEdge(n) ==
  /\ node[n].pc = "out" /\ GoesOn(n)
  /\ edge' = AfterPull(n, Head(node[n].todo))
  /\ node' = [node EXCEPT ![n] =
       IF Tail(@.todo) = << >>
       THEN IF @.pushing THEN PushEnds(@, n)
                         ELSE LoopHead(@, n, @.last_execute_state)
       ELSE NextEdge(@)]
  /\ UNCHANGED << net, call, run, cancelled >>

(* boost::thread_interrupted ends the thread in a wait. *)
ThreadInterrupted(n) ==
  /\ node[n].waiting /\ node[n].interrupted
  /\ node' = [node EXCEPT ![n].pc = "ended", ![n].todo = << >>,
                          ![n].found = {}, ![n].fresh = {},
                          ![n].waiting = FALSE, ![n].pushing = FALSE]
  /\ UNCHANGED << net, edge, call, run, cancelled >>

NodeStep(n) ==
  \/ Wait(n)
  \/ ExecuteIncomingEdge(n)
  \/ Resynchronize(n)
  \/ ExecuteHolder(n)
  \/ Execute(n)
  \/ ExecuteOutgoingEdge(n)
  \/ ThreadInterrupted(n)

-----------------------------------------------------------------------------
(* The callers' threads.                                                   *)

Calls(c, ops) == call[c] # << >> /\ Head(call[c]).op \in ops

Visited(c) == Head(call[c]).node

Unlocked(n) == node[n].thread_mut = "free"

VisitEnds(c) == call' = [call EXCEPT ![c] = Tail(@)]

(* The node is of the kind that this loop of the call is for. *)
OfThisKind(c) ==
  node[Visited(c)].is_critical
    <=> Calls(c, {"join_critical", "interrupt_critical"})

(* manage_thread(): a thread is started when there is none, or when the    *)
(* one there was has ended and the node was reset since. *)
ManageThread(c) ==
  /\ Calls(c, {"manage_thread"}) /\ Unlocked(Visited(c))
  /\ LET n == Visited(c)
         x == [node[n] EXCEPT !.is_critical = n \in net.output]
         starts == \/ x.pc = "none"
                   \/ x.pc = "ended" /\ x.last_execute_state = "SUCCESS"
     IN  node' = [node EXCEPT ![n] =
           IF starts THEN LoopHead([x EXCEPT !.interrupted = FALSE], n, "SUCCESS")
           ELSE x]
  /\ VisitEnds(c)
  /\ UNCHANGED << net, edge, run, cancelled >>

PassOver(c) ==
  /\ Calls(c, {"interrupt_critical", "interrupt_non_critical",
               "join_critical", "join_non_critical"})
  /\ ~OfThisKind(c)
  /\ VisitEnds(c)
  /\ UNCHANGED << net, edge, node, run, cancelled >>

(* interrupt() *)
Interrupt(c) ==
  /\ Calls(c, {"interrupt_critical", "interrupt_non_critical"})
  /\ OfThisKind(c) /\ Unlocked(Visited(c))
  /\ node' = [node EXCEPT ![Visited(c)].interrupted =
                @ \/ node[Visited(c)].pc \notin {"none", "ended"}]
  /\ VisitEnds(c)
  /\ UNCHANGED << net, edge, run, cancelled >>

(* join() keeps thread_mut_ for as long as the thread lives. *)
JoinBegins(c) ==
  /\ Calls(c, {"join_critical", "join_non_critical"})
  /\ OfThisKind(c) /\ Unlocked(Visited(c))
  /\ IF node[Visited(c)].pc \in {"none", "ended"}
     THEN VisitEnds(c) /\ UNCHANGED node
     ELSE /\ node' = [node EXCEPT ![Visited(c)].thread_mut = c]
          /\ UNCHANGED call
  /\ UNCHANGED << net, edge, run, cancelled >>

JoinEnds(c) ==
  /\ Calls(c, {"join_critical", "join_non_critical"})
  /\ node[Visited(c)].thread_mut = c
  /\ node[Visited(c)].pc = "ended"
  /\ node' = [node EXCEPT ![Visited(c)].thread_mut = "free"]
  /\ VisitEnds(c)
  /\ UNCHANGED << net, edge, run, cancelled >>

(* async_pipeline_node::reset(): it refuses a running node, and edges whose *)
(* sink is running, and wait() has left none.  The outgoing edges are reset *)
(* and the process begins again.                                            *)
ResetNode(c) ==
  /\ Calls(c, {"reset"})
  /\ \A n \in {Visited(c)} \cup {net.edges[i].to : i \in EdgesFrom(Visited(c))} :
       node[n].pc = "ended"
  /\ edge' = [i \in DOMAIN edge |->
                IF net.edges[i].from = Visited(c)
                   /\ net.edges[i].kind # "dependency"
                THEN WasReset(edge[i]) ELSE edge[i]]
  /\ node' = [node EXCEPT ![Visited(c)].last_execute_state = "SUCCESS",
                          ![Visited(c)].sent = NewRun(run),
                          ![Visited(c)].left = net.frames]
  /\ VisitEnds(c)
  /\ UNCHANGED << net, run, cancelled >>

(* The application runs the pipeline again once a run has returned, and    *)
(* not while it is being cancelled. *)
RunAgain ==
  /\ call["application"] = << >> /\ call["canceller"] = << >>
  /\ run < net.runs
  /\ run' = run + 1
  /\ call' = [call EXCEPT !["application"] = reset \o run_async \o wait]
  /\ UNCHANGED << net, edge, node, cancelled >>

Cancel ==
  /\ net.cancels # "never" /\ ~cancelled
  /\ net.cancels = "running" =>
       \A i \in DOMAIN call["application"] :
         call["application"][i].op \notin {"reset", "manage_thread"}
  /\ cancelled' = TRUE
  /\ call' = [call EXCEPT !["canceller"] = cancel]
  /\ UNCHANGED << net, edge, node, run >>

CallerStep(c) ==
  \/ ManageThread(c)
  \/ PassOver(c)
  \/ Interrupt(c)
  \/ JoinBegins(c)
  \/ JoinEnds(c)
  \/ ResetNode(c)

Next ==
  \/ \E n \in Nodes : NodeStep(n)
  \/ \E c \in Callers : CallerStep(c)
  \/ RunAgain
  \/ Cancel

Spec == Init /\ [][Next]_vars

-----------------------------------------------------------------------------
(* Properties.                                                             *)

Origin == [run : Nat, flush : Nat, nth : Nat]

(* Every variable has its type; a wait is inside a call on an edge. *)
TypeOK ==
  /\ \A i \in DOMAIN net.edges :
       /\ edge[i].status \in Seq(EdgeStatus)
       /\ edge[i].data \in Seq(Origin)
       /\ edge[i].no_more_input \in BOOLEAN /\ edge[i].last_size \in Nat
  /\ \A n \in Nodes :
       /\ node[n].pc \in ThreadState
       /\ node[n].todo \in Seq(DOMAIN net.edges)
       /\ InEdgeCall(n) <=> node[n].todo # << >>
       /\ node[n].last_execute_state \in StepStatus
       /\ node[n].found \subseteq {"SKIP", "FAILURE"}
       /\ node[n].fresh \subseteq Origin
       /\ node[n].sent \in Origin
       /\ node[n].left \in 0 .. net.frames
       /\ node[n].held \in Seq(Origin)
       /\ node[n].since \in 0 .. net.holds[n] + 1
       /\ node[n].pushing \in BOOLEAN
       /\ node[n].pushing => node[n].pc = "out" /\ node[n].held # << >>
       /\ node[n].waiting \in BOOLEAN /\ (node[n].waiting => InEdgeCall(n))
       /\ node[n].interrupted \in BOOLEAN /\ node[n].is_critical \in BOOLEAN
       /\ node[n].thread_mut \in Callers \cup {"free"}
  /\ run \in 1 .. net.runs
  /\ cancelled \in BOOLEAN

(* The values that a process finds on its inputs in one step were made in  *)
(* the same step of their sources: what branches out of a node comes       *)
(* together again in the same frame, whatever is skipped, flushed or       *)
(* interrupted on one of the branches.                                     *)
InputsSynchronized ==
  \A n \in Nodes :
    node[n].pc = "execute" /\ node[n].found = {}
      => \A v, w \in node[n].fresh : v = w

(* Every frame gives one status, at once or after it was held back. *)
OneStatusPerFrame ==
  \A n \in Nodes : /\ "FLUSH" \notin net.returns[n]
                   /\ "NO_OUTPUT" \in net.returns[n] => net.holds[n] > 0

(* The statuses that the source of edge i has put on it in this run, and   *)
(* those that its sink has taken from it.                                  *)
Produced(i) ==
  LET x    == node[net.edges[i].from]
      done == x.pc = "out" /\ i \notin Range(x.todo)
  IN  x.sent.nth - Len(x.held)
        + (IF x.pc # "out" THEN 0
           ELSE IF x.pushing THEN (IF done THEN 1 ELSE 0)
           ELSE (IF done THEN 0 ELSE -1))

Consumed(i) ==
  LET x == node[net.edges[i].to]
  IN  x.sent.nth + (IF \/ x.pc = "execute" \/ x.pushing
                       \/ x.pc = "in" /\ i \notin Range(x.todo)
                    THEN 1 ELSE 0)

(* As long as no thread was interrupted in the middle of a frame, an edge  *)
(* holds exactly the frames that its source has finished, and does not     *)
(* hold back, and that its sink has not begun: no frame is taken twice,    *)
(* and none is lost on a branch, also on one whose process answers several *)
(* frames with nothing and the next one with all of them.                  *)
EdgesCountFrames ==
  OneStatusPerFrame /\ net.frames # 0 =>
    \A i \in DOMAIN net.edges :
      net.edges[i].kind # "dependency" /\ ~edge[i].no_more_input
      /\ ~node[net.edges[i].from].interrupted
      /\ ~node[net.edges[i].to].interrupted
      /\ node[net.edges[i].from].sent.run = node[net.edges[i].to].sent.run
        => Len(edge[i].status) = Produced(i) - Consumed(i)

RunReturned == call["application"] = << >>

(* The end of the stream is the only failure. *)
OnlySourcesFail ==
  /\ \A n \in Nodes : net.returns[n] \cap {"FAILURE", "FLUSH", "NO_OUTPUT"} = {}
  /\ \A i \in DOMAIN net.edges : net.edges[i].kind # "optional"

(* When a run that only the end of the stream stopped has returned, every  *)
(* node has handled every frame, each has passed the failure on, and no    *)
(* edge holds anything: nothing was cut short by interrupting the nodes    *)
(* that the run does not wait for.                                         *)
RunIsComplete ==
  RunReturned /\ ~cancelled /\ OnlySourcesFail =>
    /\ \A n \in Nodes : node[n].last_execute_state = "FAILURE"
                        /\ node[n].sent = [run |-> run, flush |-> 0,
                                           nth |-> net.frames + 1]
    /\ \A i \in DOMAIN net.edges : edge[i].status = << >> /\ edge[i].data = << >>

(* A value given to a process was made in the run it is in. *)
ValuesOfThisRun ==
  \A n \in Nodes : \A v \in node[n].fresh : v.run = run

(* A run returns once its sources have come to their end. *)
RunReturns == ~RunReturned ~> RunReturned

(* cancel() returns, also when it meets run() in the middle of its loops.  *)
CancelReturns == cancelled ~> (call["canceller"] = << >>)

(* cancel() reaches every node's thread without waiting for it to end by   *)
(* itself.                                                                 *)
CancelReachesEveryThread ==
  \A n \in UNION {Range(w.order) : w \in Networks} :
    (cancelled /\ n \in Nodes)
      ~> (node[n].interrupted \/ node[n].pc \in {"none", "ended"})
=============================================================================
