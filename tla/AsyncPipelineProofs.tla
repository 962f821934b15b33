------------------------- MODULE AsyncPipelineProofs -------------------------
(***************************************************************************)
(* What the threads of an asynchronous pipeline do to its frames, for      *)
(* every network, every capacity and any number of frames and runs.        *)
(***************************************************************************)
EXTENDS AsyncStreams, EdgeQueuesProofs

-----------------------------------------------------------------------------
(* The network.                                                            *)

(* What the assumptions say of a network. *)
LEMMA NetworkTypes ==
  ASSUME net \in Networks
  PROVE  /\ net.order \in Seq(Nodes) /\ Len(net.order) \in Nat
         /\ DOMAIN net.order = 1 .. Len(net.order)
         /\ \A p \in 1 .. Len(net.order) : net.order[p] \in Nodes
         /\ \A n \in Nodes : \E p \in 1 .. Len(net.order) : net.order[p] = n
         /\ \A p, q \in 1 .. Len(net.order) : net.order[p] = net.order[q] => p = q
         /\ DOMAIN net.edges = 1 .. Len(net.edges) /\ Len(net.edges) \in Nat
         /\ \A i \in DOMAIN net.edges : /\ net.edges[i].from \in Nodes
                                        /\ net.edges[i].to \in Nodes
                                        /\ net.edges[i].kind \in EdgeKind
         /\ \A n \in Nodes : net.returns[n] \subseteq StepStatus
         /\ net.output \subseteq Nodes
         /\ net.frames \in Nat /\ net.runs \in Nat \ {0}
         /\ net.holds \in [Nodes -> Nat]
         /\ \A n \in Nodes : net.holds[n] > 0 =>
              /\ net.returns[n] = {"SUCCESS", "NO_OUTPUT"}
              /\ net.frames > 0
              /\ EdgesFrom(n) # {} /\ EdgesTo(n) # {}
<1>1. NetworkOK(net) /\ AsyncNetworkOK(net)
  BY NetworksAssumption, AsyncNetworksAssumption
<1>2. net.order \in Seq(Nodes)
  BY <1>1 DEF NetworkOK, Nodes
<1>3. DOMAIN net.order = 1 .. Len(net.order) /\ Len(net.order) \in Nat
  BY <1>2
<1>4. /\ \A n \in Nodes : \E p \in 1 .. Len(net.order) : net.order[p] = n
      /\ \A p \in 1 .. Len(net.order) : net.order[p] \in Nodes
  BY <1>3 DEF Nodes, Range
<1>5. \A p, q \in 1 .. Len(net.order) : net.order[p] = net.order[q] => p = q
  BY <1>1, <1>3 DEF NetworkOK, IsInjective
<1>6. /\ DOMAIN net.edges = 1 .. Len(net.edges) /\ Len(net.edges) \in Nat
      /\ \A i \in DOMAIN net.edges : /\ net.edges[i].from \in Nodes
                                     /\ net.edges[i].to \in Nodes
                                     /\ net.edges[i].kind \in EdgeKind
  <2> DEFINE Connection == [from : Nodes, to : Nodes, kind : EdgeKind]
  <2>1. net.edges \in Seq(Connection)
    BY <1>1 DEF NetworkOK, Nodes
  <2> HIDE DEF Connection
  <2>2. /\ Len(net.edges) \in Nat /\ DOMAIN net.edges = 1 .. Len(net.edges)
        /\ \A i \in 1 .. Len(net.edges) : net.edges[i] \in Connection
    BY <2>1
  <2> QED
    BY <2>2 DEF Connection
<1>7. /\ \A n \in Nodes : net.returns[n] \subseteq StepStatus
      /\ net.output \subseteq Nodes
      /\ net.frames \in Nat /\ net.runs \in Nat \ {0}
  BY <1>1 DEF NetworkOK, Nodes
<1>8. /\ net.holds \in [Nodes -> Nat]
      /\ \A n \in Nodes : net.holds[n] > 0 =>
           /\ net.returns[n] = {"SUCCESS", "NO_OUTPUT"}
           /\ net.frames > 0
           /\ EdgesFrom(n) # {} /\ EdgesTo(n) # {}
  BY <1>1 DEF AsyncNetworkOK, Nodes, EdgesFrom, EdgesTo
<1> QED
  BY <1>2, <1>3, <1>4, <1>5, <1>6, <1>7, <1>8

(* The loops of a node visit each of its edges once. *)
LEMMA EdgeLoop ==
  ASSUME net \in Networks, NEW S \in SUBSET DOMAIN net.edges
  PROVE  /\ Enumeration(S) \in Seq(DOMAIN net.edges)
         /\ DOMAIN Enumeration(S) = 1 .. Len(Enumeration(S))
         /\ Range(Enumeration(S)) = S
         /\ Enumeration(S) = << >> <=> S = {}
         /\ \A k \in DOMAIN Enumeration(S) : Enumeration(S)[k] \in S
         /\ \A j, k \in DOMAIN Enumeration(S) :
              Enumeration(S)[j] = Enumeration(S)[k] => j = k
<1> DEFINE f == Enumeration(S)
           c == Cardinality(S)
           m == Len(net.edges)
<1>1. m \in Nat /\ S \in SUBSET (1 .. m)
  BY NetworkTypes
<1>2. /\ c \in Nat /\ f \in [1 .. c -> S]
      /\ \A j, k \in 1 .. c : j < k => f[j] < f[k]
  BY <1>1, EnumerationProperties DEF IsEnumeration
<1>3. \A i \in S : \E k \in 1 .. c : f[k] = i
  BY <1>1, EnumerationIsOnto
<1> HIDE DEF f, c
<1>4. f \in Seq(S) /\ Len(f) = c /\ DOMAIN f = 1 .. c
  BY <1>2
<1>5. f \in Seq(DOMAIN net.edges)
  BY <1>2, <1>4
<1>6. Range(f) = S
  BY <1>2, <1>3, <1>4 DEF Range
<1>7. f = << >> <=> S = {}
  <2>1. c = 0 => S = {}
    BY <1>3
  <2>2. S = {} => c = 0
    BY <1>2
  <2>3. f = << >> <=> c = 0
    BY <1>2, <1>4, EmptySeq
  <2> QED
    BY <2>1, <2>2, <2>3
<1>8. \A j, k \in 1 .. c : f[j] = f[k] => j = k
  <2> SUFFICES ASSUME NEW j \in 1 .. c, NEW k \in 1 .. c, j < k
               PROVE  f[j] # f[k]
    BY <1>2
  <2>1. f[j] < f[k] /\ f[j] \in 1 .. m /\ f[k] \in 1 .. m
    BY <1>1, <1>2
  <2> QED
    BY <1>1, <2>1
<1> QED
  BY <1>2, <1>4, <1>5, <1>6, <1>7, <1>8 DEF f

-----------------------------------------------------------------------------
(* Types.                                                                  *)

Operations ==
  {"manage_thread", "reset", "join_critical", "join_non_critical",
   "interrupt_critical", "interrupt_non_critical"}

Visit == [op : Operations, node : Nodes]

Thread ==
  [pc                 : ThreadState,
   todo               : Seq(DOMAIN net.edges),
   last_execute_state : StepStatus,
   found              : SUBSET {"SKIP", "FAILURE"},
   fresh              : SUBSET Origin,
   sent               : Origin,
   left               : 0 .. net.frames,
   held               : Seq(Origin),
   since              : Nat,
   pushing            : BOOLEAN,
   waiting            : BOOLEAN,
   interrupted        : BOOLEAN,
   is_critical        : BOOLEAN,
   thread_mut         : Callers \cup {"free"}]

HeldOK(x, n) ==
  /\ x.since <= net.holds[n] + 1
  /\ x.held # << >> => net.holds[n] > 0

(* The edges that the loop of a thread has still to visit are its own, and *)
(* it visits none twice; it pushes only what it holds. *)
ThreadOK(x, n) ==
  /\ x.pc \in {"in", "resync", "out"} <=> x.todo # << >>
  /\ \A k \in DOMAIN x.todo : IF x.pc = "out" THEN net.edges[x.todo[k]].from = n
                                              ELSE net.edges[x.todo[k]].to = n
  /\ \A j, k \in DOMAIN x.todo : x.todo[j] = x.todo[k] => j = k
  /\ x.pc = "out" => x.last_execute_state # "NO_OUTPUT"
  /\ HeldOK(x, n)
  /\ x.pushing => /\ x.pc = "out" /\ x.held # << >>
                  /\ x.last_execute_state = "SUCCESS"
  /\ x.waiting => /\ x.pc \in {"in", "resync", "out"}
                  /\ net.edges[Head(x.todo)].kind # "dependency"
  /\ x.fresh # {} => x.pc \in {"in", "resync", "execute"}

EdgesOK(e) ==
  /\ e \in [DOMAIN net.edges -> EdgeOf(Origin)]
  /\ \A i \in DOMAIN net.edges : Paired(e[i], Origin)

Types ==
  /\ net \in Networks
  /\ EdgesOK(edge)
  /\ node \in [Nodes -> Thread]
  /\ \A n \in Nodes : ThreadOK(node[n], n)
  /\ call \in [Callers -> Seq(Visit)]
  /\ run \in 1 .. net.runs
  /\ cancelled \in BOOLEAN

-----------------------------------------------------------------------------
(* What the steps of a thread make of it, field by field.                  *)

(* The fields of a value's origin. *)
LEMMA OriginFields ==
  /\ \A s \in Origin : s.run \in Nat /\ s.flush \in Nat /\ s.nth \in Nat
  /\ \A r \in Nat : /\ NewRun(r) \in Origin /\ NewRun(r).run = r
                    /\ NewRun(r).flush = 0 /\ NewRun(r).nth = 0
BY DEF Origin, NewRun

(* Every status but FLUSH is the next of its run. *)
LEMMA NextSentFields ==
  ASSUME NEW s \in Origin, NEW st
  PROVE  /\ NextSent(s, st) \in Origin
         /\ NextSent(s, st).run = s.run
         /\ st # "FLUSH" => /\ NextSent(s, st).flush = s.flush
                            /\ NextSent(s, st).nth = s.nth + 1
<1>1. CASE st = "FLUSH"
  <2>1. s.flush + 1 \in Nat /\ s.run \in Nat /\ 0 \in Nat
    BY DEF Origin
  <2> DEFINE f == s.flush + 1
             t == [s EXCEPT !.flush = f, !.nth = 0]
  <2>2. NextSent(s, st) = t
    BY <1>1 DEF NextSent
  <2> HIDE DEF f
  <2>3. t \in Origin /\ t.run = s.run
    BY <2>1 DEF Origin, f
  <2> QED
    BY <1>1, <2>2, <2>3
<1>2. CASE st # "FLUSH"
  BY <1>2 DEF NextSent, Origin
<1> QED
  BY <1>1, <1>2

(* Two origins with the same fields are the same. *)
LEMMA SameOrigin ==
  ASSUME NEW s \in Origin, NEW t \in Origin,
         s.run = t.run, s.flush = t.flush, s.nth = t.nth
  PROVE  s = t
BY DEF Origin

(* What the callers look at, and what the loops over the edges leave alone. *)
SameCalls(x, y) ==
  /\ y.interrupted = x.interrupted /\ y.is_critical = x.is_critical
  /\ y.thread_mut = x.thread_mut

SameRest(x, y) ==
  /\ y.sent = x.sent /\ y.left = x.left /\ y.held = x.held /\ y.since = x.since
  /\ SameCalls(x, y)

(* The thread is at the head of its loop, or has left it. *)
AtHead(y, n) ==
  /\ y.pc = IF y.last_execute_state = "FAILURE" THEN "ended"
            ELSE IF IsSource(n) THEN "execute" ELSE "in"
  /\ y.pc = "in" => Range(y.todo) = EdgesTo(n)
  /\ y.pc # "in" => y.todo = << >>
  /\ y.found = {} /\ y.fresh = {} /\ ~y.waiting /\ ~y.pushing

(* It begins to visit its outgoing edges. *)
AtOut(y, n) ==
  /\ y.pc = "out" /\ Range(y.todo) = EdgesFrom(n) /\ EdgesFrom(n) # {}
  /\ y.found = {} /\ y.fresh = {} /\ ~y.waiting

(* A thread that comes round to the head of its loop. *)
LEMMA LoopHeadFields ==
  ASSUME net \in Networks, NEW x \in Thread, NEW n \in Nodes, NEW st \in StepStatus,
         HeldOK(x, n)
  PROVE  LET y == LoopHead(x, n, st)
         IN  /\ y \in Thread /\ ThreadOK(y, n) /\ SameRest(x, y)
             /\ y.last_execute_state = st /\ AtHead(y, n)
<1> DEFINE y == LoopHead(x, n, st)
           pc == IF st = "FAILURE" THEN "ended"
                 ELSE IF IsSource(n) THEN "execute" ELSE "in"
           todo == IF st = "FAILURE" THEN << >> ELSE Incoming(n)
<1>1. /\ y.pc = pc /\ y.todo = todo /\ y.last_execute_state = st
      /\ y.found = {} /\ y.fresh = {} /\ y.pushing = FALSE /\ y.waiting = FALSE
      /\ SameRest(x, y)
  BY DEF LoopHead, Thread, SameRest, SameCalls
<1>2. EdgesTo(n) \in SUBSET DOMAIN net.edges
  BY DEF EdgesTo
<1>3. /\ Incoming(n) \in Seq(DOMAIN net.edges)
      /\ Range(Incoming(n)) = EdgesTo(n)
      /\ Incoming(n) = << >> <=> EdgesTo(n) = {}
      /\ \A k \in DOMAIN Incoming(n) : Incoming(n)[k] \in EdgesTo(n)
      /\ \A j, k \in DOMAIN Incoming(n) : Incoming(n)[j] = Incoming(n)[k] => j = k
  BY <1>2, EdgeLoop DEF Incoming
<1>4. /\ todo \in Seq(DOMAIN net.edges)
      /\ pc \in {"in", "resync", "out"} <=> todo # << >>
      /\ \A k \in DOMAIN todo : net.edges[todo[k]].to = n
      /\ \A j, k \in DOMAIN todo : todo[j] = todo[k] => j = k
      /\ pc = "in" => Range(todo) = EdgesTo(n)
      /\ pc \in {"ended", "execute", "in"}
  <2>1. \A k \in DOMAIN Incoming(n) : net.edges[Incoming(n)[k]].to = n
    BY <1>3 DEF EdgesTo
  <2>2. << >> \in Seq(DOMAIN net.edges) /\ DOMAIN << >> = {}
    OBVIOUS
  <2>3. CASE st = "FAILURE"
    BY <2>2, <2>3
  <2>4. CASE st # "FAILURE"
    BY <1>3, <2>1, <2>4 DEF IsSource
  <2> QED
    BY <2>3, <2>4
<1>5. y \in Thread
  <2> HIDE DEF pc, todo
  <2>1. y = [x EXCEPT !.last_execute_state = st, !.found = {}, !.fresh = {},
                      !.waiting = FALSE, !.pushing = FALSE, !.pc = pc,
                      !.todo = todo]
    BY DEF LoopHead, pc, todo
  <2> HIDE DEF y
  <2> QED
    BY <1>4, <2>1 DEF Thread, ThreadState
<1> HIDE DEF pc, todo, y
<1>6. ThreadOK(y, n)
  BY <1>1, <1>4 DEF ThreadOK, HeldOK, SameRest
<1>7. pc # "in" => todo = << >>
  BY <1>4 DEF pc
<1> QED
  BY <1>1, <1>4, <1>5, <1>6, <1>7 DEF pc, y, AtHead

(* A thread that begins to visit its outgoing edges. *)
LEMMA AnnouncesFields ==
  ASSUME net \in Networks, NEW x \in Thread, NEW n \in Nodes, NEW st \in StepStatus,
         HeldOK(x, n), st # "NO_OUTPUT", EdgesFrom(n) # {},
         NEW y, \/ ~x.pushing /\ y = Announces(x, n, st)
                \/ x.held # << >> /\ st = "SUCCESS" /\ y = PushBegins(x, n)
  PROVE  /\ y \in Thread /\ ThreadOK(y, n) /\ SameRest(x, y)
         /\ y.last_execute_state = st /\ AtOut(y, n)
         /\ y = PushBegins(x, n) => y.pushing
         /\ y = Announces(x, n, st) => y.pushing = x.pushing
<1>1. EdgesFrom(n) \in SUBSET DOMAIN net.edges
  BY DEF EdgesFrom
<1>2. /\ Outgoing(n) \in Seq(DOMAIN net.edges)
      /\ Range(Outgoing(n)) = EdgesFrom(n) /\ Outgoing(n) # << >>
      /\ \A k \in DOMAIN Outgoing(n) : net.edges[Outgoing(n)[k]].from = n
      /\ \A j, k \in DOMAIN Outgoing(n) : Outgoing(n)[j] = Outgoing(n)[k] => j = k
  BY <1>1, EdgeLoop DEF Outgoing, EdgesFrom
<1>3. /\ y \in Thread /\ SameRest(x, y)
      /\ y.last_execute_state = st /\ y.found = {} /\ y.fresh = {}
      /\ y.waiting = FALSE /\ y.pc = "out" /\ y.todo = Outgoing(n)
      /\ y.pushing => x.held # << >> /\ st = "SUCCESS"
      /\ y = PushBegins(x, n) => y.pushing
      /\ y = Announces(x, n, st) => y.pushing = x.pushing
  <2>1. /\ Announces(x, n, st) \in Thread
        /\ LET z == Announces(x, n, st) IN
           /\ SameRest(x, z)
           /\ z.last_execute_state = st /\ z.found = {} /\ z.fresh = {}
           /\ z.waiting = FALSE /\ z.pc = "out" /\ z.todo = Outgoing(n)
           /\ z.pushing = x.pushing
    BY <1>2 DEF Announces, Thread, ThreadState, SameRest, SameCalls
  <2>2. CASE x.held # << >> /\ st = "SUCCESS" /\ y = PushBegins(x, n)
    <3>1. /\ y \in Thread /\ y.pushing = TRUE
          /\ SameRest(x, y)
          /\ y.last_execute_state = st /\ y.found = {} /\ y.fresh = {}
          /\ y.waiting = FALSE /\ y.pc = "out" /\ y.todo = Outgoing(n)
      BY <2>1, <2>2 DEF PushBegins, Thread, SameRest, SameCalls
    <3> QED
      BY <2>1, <2>2, <3>1
  <2>3. CASE ~x.pushing /\ y = Announces(x, n, st)
    <3>1. y = PushBegins(x, n) => y.pushing
      BY <2>1, <2>3 DEF PushBegins, Thread
    <3> QED
      BY <2>1, <2>3, <3>1
  <2> QED
    BY <2>2, <2>3
<1>4. ThreadOK(y, n)
  BY <1>2, <1>3 DEF ThreadOK, HeldOK, SameRest
<1> QED
  BY <1>2, <1>3, <1>4 DEF AtOut

(* A thread whose step has ended, with any status. *)
LEMMA StepEndsFields ==
  ASSUME net \in Networks, NEW x \in Thread, NEW n \in Nodes, NEW st \in StepStatus,
         HeldOK(x, n)
  PROVE  LET y == StepEnds(x, n, st)
         IN  /\ y \in Thread /\ ThreadOK(y, n) /\ SameCalls(x, y)
             /\ y.left = x.left /\ y.held = x.held /\ y.since = x.since
             /\ y.sent = IF net.frames = 0 THEN x.sent ELSE NextSent(x.sent, st)
             /\ y.last_execute_state = st /\ ~y.pushing
             /\ IF st = "NO_OUTPUT" \/ EdgesFrom(n) = {} THEN AtHead(y, n)
                                                        ELSE AtOut(y, n)
<1> DEFINE sent == IF net.frames = 0 THEN x.sent ELSE NextSent(x.sent, st)
           counted == [x EXCEPT !.sent = sent, !.pushing = FALSE]
           y == StepEnds(x, n, st)
<1>1. sent \in Origin
  BY NextSentFields DEF Thread
<1>2. y = IF st = "NO_OUTPUT" \/ Outgoing(n) = << >>
          THEN LoopHead(counted, n, st) ELSE Announces(counted, n, st)
  BY DEF StepEnds
<1> HIDE DEF y, sent
<1>3. /\ counted \in Thread /\ SameCalls(x, counted)
      /\ counted.left = x.left /\ counted.held = x.held
      /\ counted.since = x.since /\ counted.sent = sent /\ counted.pushing = FALSE
  BY <1>1 DEF Thread, SameCalls
<1> HIDE DEF counted
<1>4. HeldOK(counted, n)
  BY <1>3 DEF HeldOK
<1>5. Outgoing(n) = << >> <=> EdgesFrom(n) = {}
  <2>1. EdgesFrom(n) \in SUBSET DOMAIN net.edges
    BY DEF EdgesFrom
  <2> QED
    BY <2>1, EdgeLoop DEF Outgoing
<1>6. CASE st = "NO_OUTPUT" \/ EdgesFrom(n) = {}
  <2>1. y = LoopHead(counted, n, st)
    BY <1>2, <1>5, <1>6
  <2>2. /\ y \in Thread /\ ThreadOK(y, n) /\ SameRest(counted, y)
        /\ y.last_execute_state = st /\ AtHead(y, n)
    BY <1>3, <1>4, <2>1, LoopHeadFields
  <2> QED
    BY <1>3, <1>6, <2>2 DEF SameRest, SameCalls, AtHead, y, sent
<1>7. CASE ~(st = "NO_OUTPUT" \/ EdgesFrom(n) = {})
  <2>1. y = Announces(counted, n, st)
    BY <1>2, <1>5, <1>7
  <2>2. /\ y \in Thread /\ ThreadOK(y, n) /\ SameRest(counted, y)
        /\ y.last_execute_state = st /\ AtOut(y, n)
        /\ y.pushing = counted.pushing
    BY <1>3, <1>4, <1>7, <2>1, AnnouncesFields
  <2> QED
    BY <1>3, <1>7, <2>2 DEF SameRest, SameCalls, y, sent
<1> QED
  BY <1>6, <1>7

-----------------------------------------------------------------------------
(* Processes that hold frames back.                                        *)

(* The process, that holds these frames, has answered to another: with     *)
(* nothing, holding it too, or with that frame. *)
HasAnswered(x, held, y, n) ==
  /\ y.left = x.left /\ SameCalls(x, y) /\ ~y.pushing
  /\ y.sent = NextSent(x.sent, "SUCCESS")
  /\ \/ /\ y.last_execute_state = "NO_OUTPUT" /\ AtHead(y, n)
        /\ y.held = Append(held, y.sent)
     \/ /\ y.last_execute_state = "SUCCESS" /\ AtOut(y, n)
        /\ y.held = held

(* It begins to push the first of those it holds. *)
HasBegunToPush(x, held, y, n) ==
  /\ y.left = x.left /\ SameCalls(x, y)
  /\ y.sent = x.sent /\ y.held = held
  /\ y.last_execute_state = "SUCCESS" /\ AtOut(y, n) /\ y.pushing

(* A frame that is held back is counted as one that is given. *)
LEMMA NextSentOfHeld ==
  ASSUME NEW s
  PROVE  NextSent(s, "NO_OUTPUT") = NextSent(s, "SUCCESS")
BY DEF NextSent

(* A process that holds frames back either keeps one more or gives the new *)
(* one.                                                                    *)
LEMMA HolderEndsFields ==
  ASSUME net \in Networks, NEW x \in Thread, NEW n \in Nodes,
         HeldOK(x, n), net.holds[n] > 0
  PROVE  LET y == HolderEnds(x, n)
         IN  /\ y \in Thread /\ ThreadOK(y, n) /\ HasAnswered(x, x.held, y, n)
             /\ y.held = x.held <=> ~Holds(x, n)
<1> DEFINE next == NextSent(x.sent, "SUCCESS")
           holding == [x EXCEPT !.held = Append(@, next)]
           y == HolderEnds(x, n)
<1>1. next \in Origin /\ x.held \in Seq(Origin) /\ net.frames # 0 /\ EdgesFrom(n) # {}
  <2>1. x.sent \in Origin /\ x.held \in Seq(Origin)
    BY DEF Thread
  <2>2. net.frames \in Nat /\ net.frames > 0 /\ EdgesFrom(n) # {}
    BY NetworkTypes
  <2> QED
    BY <2>1, <2>2, NextSentFields
<1>2. y = IF Holds(x, n) THEN StepEnds(holding, n, "NO_OUTPUT")
          ELSE StepEnds(x, n, "SUCCESS")
  BY DEF HolderEnds
<1>3. Append(x.held, next) \in Seq(Origin) /\ Append(x.held, next) # x.held
  <2>1. Len(Append(x.held, next)) = Len(x.held) + 1 /\ Len(x.held) \in Nat
    BY <1>1
  <2> QED
    BY <1>1, <2>1
<1> HIDE DEF y, next
<1>4. /\ holding \in Thread /\ SameCalls(x, holding) /\ HeldOK(holding, n)
      /\ holding.held = Append(x.held, next) /\ holding.sent = x.sent
      /\ holding.left = x.left
  BY <1>3 DEF Thread, SameCalls, HeldOK
<1> HIDE DEF holding
<1>5. CASE Holds(x, n)
  <2>1. y = StepEnds(holding, n, "NO_OUTPUT") /\ "NO_OUTPUT" \in StepStatus
    BY <1>2, <1>5 DEF StepStatus
  <2>2. /\ y \in Thread /\ ThreadOK(y, n) /\ SameCalls(holding, y)
        /\ y.left = holding.left /\ y.held = holding.held
        /\ y.sent = NextSent(holding.sent, "NO_OUTPUT")
        /\ y.last_execute_state = "NO_OUTPUT" /\ ~y.pushing /\ AtHead(y, n)
    BY <1>1, <1>4, <2>1, StepEndsFields
  <2>3. y.sent = next /\ y.held = Append(x.held, y.sent)
    BY <1>4, <2>2, NextSentOfHeld DEF next
  <2> QED
    BY <1>3, <1>4, <1>5, <2>2, <2>3 DEF HasAnswered, SameCalls, y, next
<1>6. CASE ~Holds(x, n)
  <2>1. y = StepEnds(x, n, "SUCCESS") /\ "SUCCESS" \in StepStatus
    BY <1>2, <1>6 DEF StepStatus
  <2>2. /\ y \in Thread /\ ThreadOK(y, n) /\ SameCalls(x, y)
        /\ y.left = x.left /\ y.held = x.held
        /\ y.sent = NextSent(x.sent, "SUCCESS")
        /\ y.last_execute_state = "SUCCESS" /\ ~y.pushing /\ AtOut(y, n)
    BY <1>1, <2>1, StepEndsFields
  <2> QED
    BY <1>6, <2>2 DEF HasAnswered, y
<1> QED
  BY <1>5, <1>6

(* It begins to push what it holds. *)
LEMMA PushBeginsFields ==
  ASSUME net \in Networks, NEW x \in Thread, NEW n \in Nodes,
         HeldOK(x, n), x.held # << >>
  PROVE  LET y == PushBegins(x, n)
         IN  y \in Thread /\ ThreadOK(y, n) /\ HasBegunToPush(x, x.held, y, n)
<1>1. EdgesFrom(n) # {} /\ "SUCCESS" \in StepStatus
  BY NetworkTypes DEF HeldOK, StepStatus
<1> QED
  BY <1>1, AnnouncesFields DEF HasBegunToPush, SameRest

(* One call of a process that holds frames back. *)
LEMMA HolderStepFields ==
  ASSUME net \in Networks, NEW x \in Thread, NEW n \in Nodes,
         HeldOK(x, n), net.holds[n] > 0, NEW break \in BOOLEAN
  PROVE  LET y == HolderStep(x, n, break)
         IN  /\ y \in Thread /\ ThreadOK(y, n)
             /\ \/ HasBegunToPush(x, x.held, y, n) /\ x.held # << >>
                \/ /\ HasAnswered(x, x.held, y, n)
                   /\ y.last_execute_state = "SUCCESS" => x.held = << >>
<1> DEFINE since == IF break THEN 0 ELSE x.since
           next == IF since > net.holds[n] THEN x.since ELSE since + 1
           counted == [x EXCEPT !.since = next]
           y == HolderStep(x, n, break)
<1>1. next \in Nat /\ next <= net.holds[n] + 1
  <2>1. net.holds[n] \in Nat /\ x.since \in Nat /\ x.since <= net.holds[n] + 1
    BY NetworkTypes DEF Thread, HeldOK
  <2>2. since \in Nat
    BY <2>1
  <2> QED
    BY <2>1, <2>2
<1>2. y = IF x.held # << >> /\ (break \/ ~Holds(counted, n))
          THEN PushBegins(counted, n) ELSE HolderEnds(counted, n)
  BY DEF HolderStep
<1> HIDE DEF y, next
<1>3. /\ counted \in Thread /\ SameCalls(x, counted)
      /\ counted.held = x.held /\ counted.sent = x.sent /\ counted.left = x.left
      /\ counted.since = next
  BY <1>1 DEF Thread, SameCalls
<1> HIDE DEF counted
<1>4. HeldOK(counted, n)
  BY <1>1, <1>3 DEF HeldOK
<1>5. CASE x.held # << >> /\ (break \/ ~Holds(counted, n))
  <2>1. y \in Thread /\ ThreadOK(y, n) /\ HasBegunToPush(counted, counted.held, y, n)
    BY <1>2, <1>3, <1>4, <1>5, PushBeginsFields
  <2> QED
    BY <1>3, <1>5, <2>1 DEF HasBegunToPush, SameCalls, y
<1>6. CASE ~(x.held # << >> /\ (break \/ ~Holds(counted, n)))
  <2>1. /\ y \in Thread /\ ThreadOK(y, n) /\ HasAnswered(counted, counted.held, y, n)
        /\ y.held = counted.held <=> ~Holds(counted, n)
    BY <1>2, <1>3, <1>4, <1>6, HolderEndsFields
  <2>2. y.last_execute_state = "SUCCESS" => y.held = counted.held
    BY <2>1 DEF HasAnswered
  <2> QED
    BY <1>3, <1>6, <2>1, <2>2 DEF HasAnswered, SameCalls, y
<1> QED
  BY <1>5, <1>6

(* One of the frames was pushed. *)
LEMMA PushEndsFields ==
  ASSUME net \in Networks, NEW x \in Thread, NEW n \in Nodes,
         HeldOK(x, n), x.held # << >>
  PROVE  LET y == PushEnds(x, n)
         IN  /\ y \in Thread /\ ThreadOK(y, n)
             /\ \/ HasBegunToPush(x, Tail(x.held), y, n) /\ Tail(x.held) # << >>
                \/ HasAnswered(x, Tail(x.held), y, n) /\ Tail(x.held) = << >>
<1> DEFINE given == [x EXCEPT !.held = Tail(@)]
           y == PushEnds(x, n)
<1>1. Tail(x.held) \in Seq(Origin) /\ net.holds[n] > 0
  BY DEF Thread, HeldOK
<1>2. y = IF given.held = << >> THEN HolderEnds(given, n) ELSE PushBegins(given, n)
  BY DEF PushEnds
<1> HIDE DEF y
<1>3. /\ given \in Thread /\ SameCalls(x, given) /\ HeldOK(given, n)
      /\ given.held = Tail(x.held) /\ given.sent = x.sent /\ given.left = x.left
  BY <1>1 DEF Thread, SameCalls, HeldOK
<1> HIDE DEF given
<1>4. CASE Tail(x.held) = << >>
  <2>1. y \in Thread /\ ThreadOK(y, n) /\ HasAnswered(given, given.held, y, n)
    BY <1>1, <1>2, <1>3, <1>4, HolderEndsFields
  <2> QED
    BY <1>3, <1>4, <2>1 DEF HasAnswered, SameCalls, y
<1>5. CASE Tail(x.held) # << >>
  <2>1. y \in Thread /\ ThreadOK(y, n) /\ HasBegunToPush(given, given.held, y, n)
    BY <1>1, <1>2, <1>3, <1>5, PushBeginsFields
  <2> QED
    BY <1>3, <1>5, <2>1 DEF HasBegunToPush, SameCalls, y
<1> QED
  BY <1>4, <1>5

-----------------------------------------------------------------------------
(* The loops over the edges of a node.                                     *)

(* One turn of a loop over distinct members. *)
LEMMA LoopTurn ==
  ASSUME NEW D, NEW s \in Seq(D), s # << >>,
         \A j, k \in DOMAIN s : s[j] = s[k] => j = k
  PROVE  /\ Head(s) \in D /\ Head(s) \in Range(s) /\ Head(s) = s[1] /\ 1 \in DOMAIN s
         /\ Tail(s) \in Seq(D)
         /\ Range(Tail(s)) = Range(s) \ {Head(s)}
         /\ \A j, k \in DOMAIN Tail(s) : Tail(s)[j] = Tail(s)[k] => j = k
         /\ \A k \in DOMAIN Tail(s) : \E j \in DOMAIN s : Tail(s)[k] = s[j]
<1> DEFINE m == Len(s)
           t == Tail(s)
<1>1. /\ m \in Nat /\ m >= 1 /\ DOMAIN s = 1 .. m
      /\ \A k \in 1 .. m : s[k] \in D
  BY EmptySeq
<1>2. /\ t \in Seq(D) /\ Len(t) = m - 1 /\ DOMAIN t = 1 .. m - 1
      /\ \A k \in 1 .. m - 1 : t[k] = s[k + 1]
      /\ Head(s) = s[1]
  BY <1>1, HeadTailProperties
<1> HIDE DEF t, m
<1>3. 1 \in 1 .. m /\ \A k \in 1 .. m - 1 : k + 1 \in 1 .. m
  BY <1>1
<1>4. Range(s) = {s[k] : k \in 1 .. m} /\ Range(t) = {t[k] : k \in 1 .. m - 1}
  BY <1>1, <1>2 DEF Range
<1>5. \A v \in Range(t) : v \in Range(s) /\ v # s[1]
  <2> SUFFICES ASSUME NEW k \in 1 .. m - 1
               PROVE  t[k] \in Range(s) /\ t[k] # s[1]
    BY <1>4
  <2>1. t[k] = s[k + 1] /\ k + 1 \in 1 .. m /\ k + 1 # 1
    BY <1>1, <1>2, <1>3
  <2> QED
    BY <1>1, <1>3, <1>4, <2>1
<1>6. \A v \in Range(s) : v # s[1] => v \in Range(t)
  <2> SUFFICES ASSUME NEW k \in 1 .. m, s[k] # s[1]
               PROVE  s[k] \in Range(t)
    BY <1>4
  <2>1. k # 1 /\ k - 1 \in 1 .. m - 1 /\ (k - 1) + 1 = k
    BY <1>1
  <2>2. t[k - 1] = s[k]
    BY <1>2, <2>1
  <2> QED
    BY <1>4, <2>1, <2>2
<1>7. \A j, k \in 1 .. m - 1 : t[j] = t[k] => j = k
  <2> SUFFICES ASSUME NEW j \in 1 .. m - 1, NEW k \in 1 .. m - 1, t[j] = t[k]
               PROVE  j = k
    OBVIOUS
  <2>1. s[j + 1] = s[k + 1] /\ j + 1 \in 1 .. m /\ k + 1 \in 1 .. m
    BY <1>2, <1>3
  <2>2. j + 1 = k + 1
    BY <1>1, <2>1
  <2> QED
    BY <1>1, <2>2
<1> QED
  BY <1>1, <1>2, <1>3, <1>4, <1>5, <1>6, <1>7 DEF t

(* Only the empty sequence has no members. *)
LEMMA EmptyRange ==
  ASSUME NEW D, NEW s \in Seq(D)
  PROVE  Range(s) = {} <=> s = << >>
<1>1. Len(s) \in Nat /\ DOMAIN s = 1 .. Len(s) /\ (Len(s) = 0 <=> s = << >>)
  BY EmptySeq
<1>2. s # << >> => 1 \in DOMAIN s
  BY <1>1
<1>3. s = << >> => DOMAIN s = {}
  BY <1>1
<1> QED
  BY <1>2, <1>3 DEF Range

(* The edge that the thread is at, and those that come after it. *)
LEMMA EdgeTurn ==
  ASSUME net \in Networks, NEW x \in Thread, NEW n \in Nodes, ThreadOK(x, n),
         x.todo # << >>
  PROVE  /\ Head(x.todo) \in DOMAIN net.edges /\ Head(x.todo) \in Range(x.todo)
         /\ IF x.pc = "out" THEN net.edges[Head(x.todo)].from = n
                            ELSE net.edges[Head(x.todo)].to = n
         /\ Tail(x.todo) \in Seq(DOMAIN net.edges)
         /\ Range(Tail(x.todo)) = Range(x.todo) \ {Head(x.todo)}
         /\ \A j, k \in DOMAIN Tail(x.todo) : Tail(x.todo)[j] = Tail(x.todo)[k] => j = k
         /\ \A k \in DOMAIN Tail(x.todo) :
              IF x.pc = "out" THEN net.edges[Tail(x.todo)[k]].from = n
                              ELSE net.edges[Tail(x.todo)[k]].to = n
<1>1. x.todo \in Seq(DOMAIN net.edges)
  BY DEF Thread
<1>2. \A j, k \in DOMAIN x.todo : x.todo[j] = x.todo[k] => j = k
  BY DEF ThreadOK
<1> DEFINE s == x.todo
           E == DOMAIN net.edges
<1> HIDE DEF s, E
<1>3. /\ Head(s) \in E /\ Head(s) \in Range(s) /\ Head(s) = s[1] /\ 1 \in DOMAIN s
      /\ Tail(s) \in Seq(E)
      /\ Range(Tail(s)) = Range(s) \ {Head(s)}
      /\ \A j, k \in DOMAIN Tail(s) : Tail(s)[j] = Tail(s)[k] => j = k
      /\ \A k \in DOMAIN Tail(s) : \E j \in DOMAIN s : Tail(s)[k] = s[j]
  <2>1. s \in Seq(E) /\ s # << >> /\ \A j, k \in DOMAIN s : s[j] = s[k] => j = k
    BY <1>1, <1>2 DEF s, E
  <2> QED
    BY <2>1, LoopTurn
<1>4. \A k \in DOMAIN s : IF x.pc = "out" THEN net.edges[s[k]].from = n
                                          ELSE net.edges[s[k]].to = n
  BY DEF ThreadOK, s
<1> QED
  BY <1>3, <1>4 DEF s, E

Noted(i, st) ==
  IF st = "SKIP" \/ (st = "FAILURE" /\ net.edges[i].kind # "optional")
  THEN {st} ELSE {}

(* A thread that has taken a status which does not flush. *)
LEMMA AfterStatusFields ==
  ASSUME net \in Networks, NEW x \in Thread, NEW n \in Nodes, ThreadOK(x, n),
         x.pc = "in", NEW st, PushedValues(Head(x.todo)) \subseteq Origin
  PROVE  LET i == Head(x.todo)
             y == AfterStatus(x, i, st)
         IN  /\ y \in Thread /\ ThreadOK(y, n) /\ SameRest(x, y)
             /\ y.last_execute_state = x.last_execute_state
             /\ y.found = x.found \cup Noted(i, st)
             /\ y.fresh = x.fresh \cup PushedValues(i)
             /\ y.pc = (IF y.todo = << >> THEN "execute" ELSE "in")
             /\ Range(y.todo) = Range(x.todo) \ {i}
             /\ ~y.waiting /\ ~y.pushing
<1> DEFINE i == Head(x.todo)
           t == Tail(x.todo)
           found == x.found \cup Noted(i, st)
           fresh == x.fresh \cup PushedValues(i)
           pc == IF t = << >> THEN "execute" ELSE "in"
           y == AfterStatus(x, i, st)
<1>1. x.todo # << >> /\ ~x.pushing
  BY DEF ThreadOK
<1>2. /\ t \in Seq(DOMAIN net.edges) /\ Range(t) = Range(x.todo) \ {i}
      /\ \A j, k \in DOMAIN t : t[j] = t[k] => j = k
      /\ \A k \in DOMAIN t : net.edges[t[k]].to = n
  BY <1>1, EdgeTurn
<1>3. found \in SUBSET {"SKIP", "FAILURE"} /\ fresh \in SUBSET Origin
      /\ pc \in ThreadState
  BY DEF Thread, Noted, ThreadState
<1>4. y = [x EXCEPT !.found = found, !.fresh = fresh, !.waiting = FALSE,
                    !.todo = t, !.pc = pc]
  BY DEF AfterStatus, Noted
<1> HIDE DEF y, found, fresh, pc, t
<1>5. /\ y \in Thread /\ SameRest(x, y)
      /\ y.found = found /\ y.fresh = fresh /\ y.pc = pc /\ y.todo = t
      /\ y.waiting = FALSE /\ y.pushing = x.pushing
      /\ y.last_execute_state = x.last_execute_state
  BY <1>2, <1>3, <1>4 DEF Thread, SameRest, SameCalls
<1>6. HeldOK(y, n)
  BY <1>5 DEF ThreadOK, HeldOK, SameRest
<1>7. ThreadOK(y, n)
  BY <1>1, <1>2, <1>5, <1>6 DEF ThreadOK, pc
<1> QED
  BY <1>1, <1>2, <1>5, <1>7 DEF found, fresh, pc, y, t

(* A thread that ends its step with a FLUSH. *)
LEMMA FlushEndsFields ==
  ASSUME net \in Networks, NEW x \in Thread, NEW n \in Nodes, HeldOK(x, n)
  PROVE  LET y == StepEnds(x, n, "FLUSH")
         IN  /\ y \in Thread /\ ThreadOK(y, n) /\ SameCalls(x, y)
             /\ y.pc # "none" /\ y.sent.run = x.sent.run
             /\ net.frames = 0 => y.sent = x.sent
<1> DEFINE y == StepEnds(x, n, "FLUSH")
<1>1. "FLUSH" \in StepStatus /\ x.sent \in Origin
  BY DEF StepStatus, Thread
<1>2. /\ y \in Thread /\ ThreadOK(y, n) /\ SameCalls(x, y)
      /\ y.sent = IF net.frames = 0 THEN x.sent ELSE NextSent(x.sent, "FLUSH")
      /\ AtHead(y, n) \/ AtOut(y, n)
  BY <1>1, StepEndsFields
<1>3. y.sent.run = x.sent.run
  BY <1>1, <1>2, NextSentFields
<1>4. y.pc # "none"
  BY <1>2 DEF AtHead, AtOut
<1> QED
  BY <1>2, <1>3, <1>4

(* A FLUSH ends the step, unless other edges must be emptied first. *)
LEMMA AfterFlushFields ==
  ASSUME net \in Networks, NEW x \in Thread, NEW n \in Nodes, ThreadOK(x, n),
         x.pc = "in"
  PROVE  LET y == AfterFlush(x, n, Head(x.todo))
         IN  /\ y \in Thread /\ ThreadOK(y, n) /\ SameCalls(x, y)
             /\ y.pc # "none" /\ y.sent.run = x.sent.run
             /\ net.frames = 0 => y.sent = x.sent
<1> DEFINE i == Head(x.todo)
           others == Enumeration(EdgesTo(n) \ {i})
           y == AfterFlush(x, n, i)
<1>1. x.todo # << >> /\ ~x.pushing /\ HeldOK(x, n)
  BY DEF ThreadOK
<1>2. CASE others = << >>
  <2>1. y = StepEnds(x, n, "FLUSH")
    BY <1>2 DEF AfterFlush
  <2> QED
    BY <1>1, <2>1, FlushEndsFields
<1>3. CASE others # << >>
  <2>1. EdgesTo(n) \ {i} \in SUBSET DOMAIN net.edges
    BY DEF EdgesTo
  <2>2. /\ others \in Seq(DOMAIN net.edges)
        /\ \A j, k \in DOMAIN others : others[j] = others[k] => j = k
        /\ \A k \in DOMAIN others : net.edges[others[k]].to = n
    BY <2>1, EdgeLoop DEF EdgesTo
  <2>3. y = [x EXCEPT !.pc = "resync", !.todo = others, !.waiting = FALSE]
    BY <1>3 DEF AfterFlush
  <2> HIDE DEF others, y
  <2>4. /\ y \in Thread /\ y.pc = "resync" /\ y.todo = others /\ y.waiting = FALSE
        /\ SameRest(x, y) /\ y.pushing = x.pushing
    BY <2>2, <2>3 DEF Thread, ThreadState, SameRest, SameCalls
  <2>5. HeldOK(y, n)
    BY <2>4, <1>1 DEF HeldOK, SameRest
  <2>6. ThreadOK(y, n)
    BY <1>1, <1>3, <2>2, <2>4, <2>5 DEF ThreadOK
  <2>7. y.pc # "none"
    BY <2>4
  <2> QED
    BY <2>4, <2>6, <2>7 DEF SameRest, y
<1> QED
  BY <1>2, <1>3

(* A thread whose loop goes on to its next edge. *)
LEMMA NextEdgeFields ==
  ASSUME net \in Networks, NEW x \in Thread, NEW n \in Nodes, ThreadOK(x, n),
         x.todo # << >>, Tail(x.todo) # << >>
  PROVE  LET y == NextEdge(x)
         IN  /\ y \in Thread /\ ThreadOK(y, n) /\ SameRest(x, y)
             /\ y.pc = x.pc /\ y.last_execute_state = x.last_execute_state
             /\ y.found = x.found /\ y.fresh = x.fresh /\ y.pushing = x.pushing
             /\ y.todo = Tail(x.todo) /\ ~y.waiting
             /\ Range(y.todo) = Range(x.todo) \ {Head(x.todo)}
<1> DEFINE t == Tail(x.todo)
           y == NextEdge(x)
<1>1. /\ t \in Seq(DOMAIN net.edges) /\ Range(t) = Range(x.todo) \ {Head(x.todo)}
      /\ \A j, k \in DOMAIN t : t[j] = t[k] => j = k
      /\ \A k \in DOMAIN t : IF x.pc = "out" THEN net.edges[t[k]].from = n
                                             ELSE net.edges[t[k]].to = n
  BY EdgeTurn
<1>2. y = [x EXCEPT !.todo = t, !.waiting = FALSE]
  BY DEF NextEdge
<1> HIDE DEF t, y
<1>3. /\ y \in Thread /\ SameRest(x, y) /\ y.todo = t /\ y.waiting = FALSE
      /\ y.pc = x.pc /\ y.last_execute_state = x.last_execute_state
      /\ y.found = x.found /\ y.fresh = x.fresh /\ y.pushing = x.pushing
  BY <1>1, <1>2 DEF Thread, SameRest, SameCalls
<1>4. HeldOK(y, n)
  BY <1>3 DEF ThreadOK, HeldOK, SameRest
<1>5. t # << >>
  BY DEF t
<1>6. ThreadOK(y, n)
  <2>1. /\ y.pc \in {"in", "resync", "out"} /\ y.todo # << >>
        /\ \A k \in DOMAIN y.todo : IF y.pc = "out" THEN net.edges[y.todo[k]].from = n
                                                   ELSE net.edges[y.todo[k]].to = n
        /\ \A j, k \in DOMAIN y.todo : y.todo[j] = y.todo[k] => j = k
    BY <1>1, <1>3, <1>5 DEF ThreadOK
  <2>2. /\ y.pc = "out" => y.last_execute_state # "NO_OUTPUT"
        /\ y.pushing => /\ y.pc = "out" /\ y.held # << >>
                        /\ y.last_execute_state = "SUCCESS"
        /\ ~y.waiting
        /\ y.fresh # {} => y.pc \in {"in", "resync", "execute"}
    BY <1>3 DEF ThreadOK, SameRest
  <2> QED
    BY <1>4, <2>1, <2>2 DEF ThreadOK
<1> QED
  BY <1>1, <1>3, <1>6 DEF y, t

(* A source that is one frame nearer to its end. *)
LEMMA SteppedFields ==
  ASSUME net \in Networks, NEW x \in Thread, NEW n \in Nodes
  PROVE  LET y == Stepped(x, n)
         IN  /\ y \in Thread /\ SameCalls(x, y) /\ y.held = x.held
             /\ y.since = x.since /\ y.sent = x.sent
             /\ y.left = IF IsSource(n) /\ x.left > 0 THEN x.left - 1 ELSE x.left
<1> DEFINE left == IF IsSource(n) /\ x.left > 0 THEN x.left - 1 ELSE x.left
           y == Stepped(x, n)
<1>1. x.left \in 0 .. net.frames
  BY DEF Thread
<1>2. left \in 0 .. net.frames
  <2>1. net.frames \in Nat
    BY NetworkTypes
  <2> QED
    BY <1>1, <2>1
<1> HIDE DEF left
<1>3. y = [x EXCEPT !.left = left]
  BY DEF Stepped, left
<1> HIDE DEF y
<1>4. /\ y \in Thread /\ SameCalls(x, y) /\ y.held = x.held
      /\ y.since = x.since /\ y.sent = x.sent /\ y.left = left
  BY <1>2, <1>3 DEF Thread, SameCalls
<1> QED
  BY <1>4 DEF y, left

-----------------------------------------------------------------------------
(* What a step does to an edge.                                            *)

(* Taking from an edge leaves every edge well formed. *)
LEMMA PushTypes ==
  ASSUME Types, NEW i \in DOMAIN net.edges, CanPush(i)
  PROVE  /\ EdgesOK(AfterPush(i))
         /\ AfterPush(i) = IF net.edges[i].kind = "dependency" THEN edge
                           ELSE [edge EXCEPT ![i] = Taken(edge[i])]
         /\ PushedStatus(i) \in EdgeStatus
         /\ PushedValues(i) \subseteq Origin
<1>1. /\ edge \in [DOMAIN net.edges -> EdgeOf(Origin)]
      /\ \A j \in DOMAIN net.edges : Paired(edge[j], Origin)
  BY DEF Types, EdgesOK
<1>2. AfterPush(i) = IF net.edges[i].kind = "dependency" THEN edge
                     ELSE [edge EXCEPT ![i] = Taken(edge[i])]
  BY <1>1 DEF AfterPush
<1>3. CASE net.edges[i].kind = "dependency"
  BY <1>1, <1>2, <1>3 DEF EdgesOK, PushedStatus, PushedValues, EdgeStatus, StepStatus
<1>4. CASE net.edges[i].kind # "dependency"
  <2> DEFINE e == edge[i]
             f == Taken(e)
  <2>1. Paired(e, Origin) /\ Ready(e)
    BY <1>1, <1>4 DEF CanPush
  <2> HIDE DEF e
  <2>2. /\ Paired(f, Origin) /\ Delivered(e) \in EdgeStatus
        /\ SetsInput(e) => Head(e.data) \in Origin
    <3>1. CASE e.no_more_input
      BY <2>1, <3>1 DEF Taken, Delivered, SetsInput, EdgeStatus, StepStatus
    <3>2. CASE ~e.no_more_input
      <4>1. e.status # << >> /\ f = Popped(e)
        BY <2>1, <3>2 DEF Ready, Taken
      <4>2. /\ Paired(Popped(e), Origin) /\ Head(e.status) \in EdgeStatus
            /\ Head(e.status) = e.status[1]
            /\ e.status[1] = "SUCCESS" => Head(e.data) \in Origin
        BY <2>1, <4>1, PoppedPaired
      <4> QED
        BY <3>2, <4>1, <4>2 DEF Delivered, SetsInput
    <3> QED
      BY <3>1, <3>2
  <2> HIDE DEF f
  <2>3. f \in EdgeOf(Origin)
    BY <2>2 DEF Paired
  <2>4. AfterPush(i) = [edge EXCEPT ![i] = f]
    BY <1>2, <1>4 DEF f, e
  <2>5. EdgesOK([edge EXCEPT ![i] = f])
    BY <1>1, <2>2, <2>3 DEF EdgesOK
  <2>6. PushedStatus(i) = Delivered(e) /\ PushedValues(i) \subseteq Origin
    BY <1>4, <2>2 DEF PushedStatus, PushedValues, e
  <2> QED
    BY <1>2, <2>2, <2>4, <2>5, <2>6
<1> QED
  BY <1>3, <1>4

Announced(n) == IF node[n].pushing THEN Head(node[n].held) ELSE node[n].sent

(* Giving to an edge leaves every edge well formed. *)
LEMMA PullTypes ==
  ASSUME Types, NEW n \in Nodes, NEW i \in DOMAIN net.edges, node[n].pc = "out"
  PROVE  /\ EdgesOK(AfterPull(n, i))
         /\ Announced(n) \in Origin
         /\ node[n].last_execute_state \in EdgeStatus
         /\ AfterPull(n, i) =
              IF net.edges[i].kind = "dependency" THEN edge
              ELSE [edge EXCEPT ![i] = Stored(Flushed(edge[i], node[n].last_execute_state),
                                              node[n].last_execute_state, Announced(n))]
<1> DEFINE x == node[n]
           st == x.last_execute_state
           v == Announced(n)
           f == Stored(Flushed(edge[i], st), st, v)
<1>1. /\ edge \in [DOMAIN net.edges -> EdgeOf(Origin)]
      /\ \A j \in DOMAIN net.edges : Paired(edge[j], Origin)
      /\ x \in Thread /\ ThreadOK(x, n)
  BY DEF Types, EdgesOK
<1>2. st \in EdgeStatus
  BY <1>1 DEF ThreadOK, EdgeStatus, Thread
<1>3. v \in Origin
  <2>1. x.sent \in Origin /\ x.held \in Seq(Origin) /\ (x.pushing => x.held # << >>)
    BY <1>1 DEF Thread, ThreadOK
  <2> QED
    BY <2>1, HeadTailProperties DEF Announced
<1>4. AfterPull(n, i) = IF net.edges[i].kind = "dependency" THEN edge
                        ELSE [edge EXCEPT ![i] = f]
  BY <1>1 DEF AfterPull, Announced
<1> HIDE DEF v, st
<1>5. Paired(f, Origin)
  <2>1. Paired(Flushed(edge[i], st), Origin)
    BY <1>1, FlushedPaired
  <2> QED
    BY <1>2, <1>3, <2>1, StoredPaired
<1> HIDE DEF f, x
<1>6. EdgesOK([edge EXCEPT ![i] = f]) /\ EdgesOK(edge)
  <2>1. f \in EdgeOf(Origin)
    BY <1>5 DEF Paired
  <2> QED
    BY <1>1, <1>5, <2>1 DEF EdgesOK
<1> QED
  BY <1>2, <1>3, <1>4, <1>6 DEF f, v, st, x

(* What a step of a thread must leave for the types to hold. *)
LEMMA TypesKept ==
  ASSUME Types, NEW n \in Nodes, NEW y \in Thread, ThreadOK(y, n),
         node' = [node EXCEPT ![n] = y], EdgesOK(edge'),
         UNCHANGED << net, call, run, cancelled >>
  PROVE  Types'
<1>1. Nodes' = Nodes /\ Thread' = Thread /\ Visit' = Visit
  BY DEF Nodes, Thread, Visit
<1>2. node' \in [Nodes -> Thread] /\ \A m \in Nodes : ThreadOK(node'[m], m)
  BY SMTT(30) DEF Types
<1>3. \A m \in Nodes : ThreadOK(node[m], m)' 
  BY SMTT(30), <1>2 DEF ThreadOK, HeldOK
<1>4. EdgesOK(edge)'
  BY DEF EdgesOK
<1> QED
  BY <1>1, <1>2, <1>3, <1>4 DEF Types

-----------------------------------------------------------------------------
(* What a step of node n makes of its thread, y, and of one of its edges.  *)

SameLoop(x, y) ==
  /\ y.pc = x.pc /\ y.last_execute_state = x.last_execute_state
  /\ y.found = x.found /\ y.fresh = x.fresh /\ y.pushing = x.pushing

AtEdge(n) == Head(node[n].todo)

Waits(n, y) ==
  /\ edge' = edge /\ InEdgeCall(n)
  /\ SameRest(node[n], y) /\ SameLoop(node[n], y) /\ y.todo = node[n].todo

Stops(n, y) ==
  /\ edge' = edge /\ node[n].waiting /\ node[n].interrupted
  /\ SameRest(node[n], y) /\ y.last_execute_state = node[n].last_execute_state
  /\ y.pc = "ended" /\ y.todo = << >> /\ ~y.pushing
  /\ y.found = {} /\ y.fresh = {}

Takes(n, y) ==
  LET x  == node[n]
      i  == AtEdge(n)
      st == PushedStatus(i)
  IN  /\ x.pc = "in" /\ CanPush(i) /\ st # "FLUSH"
      /\ edge' = AfterPush(i)
      /\ SameRest(x, y) /\ y.last_execute_state = x.last_execute_state
      /\ y.found = x.found \cup Noted(i, st)
      /\ y.fresh = x.fresh \cup PushedValues(i)
      /\ y.pc = (IF y.todo = << >> THEN "execute" ELSE "in")
      /\ Range(y.todo) = Range(x.todo) \ {i}
      /\ ~y.pushing

IsFlushed(n, y) ==
  LET x == node[n]
      i == AtEdge(n)
  IN  /\ (x.pc = "in" /\ PushedStatus(i) = "FLUSH") \/ x.pc = "resync"
      /\ CanPush(i)
      /\ edge' = AfterPush(i)
      /\ SameCalls(x, y) /\ y.pc # "none" /\ y.sent.run = x.sent.run
      /\ net.frames = 0 => y.sent = x.sent

Executes(n, y) ==
  LET x  == node[n]
      st == y.last_execute_state
  IN  /\ x.pc = "execute" /\ edge' = edge
      /\ st \in MayReturn(x.found, n \in net.skipped, Returns(n))
      /\ ~(net.holds[n] > 0 /\ IsCalled(n))
      /\ SameCalls(x, y) /\ y.held = x.held /\ ~y.pushing
      /\ y.left = IF IsSource(n) /\ x.left > 0 THEN x.left - 1 ELSE x.left
      /\ y.sent = IF net.frames = 0 THEN x.sent ELSE NextSent(x.sent, st)
      /\ IF st = "NO_OUTPUT" \/ EdgesFrom(n) = {} THEN AtHead(y, n) ELSE AtOut(y, n)

HoldsBack(n, y) ==
  LET x == node[n]
  IN  /\ x.pc = "execute" /\ edge' = edge
      /\ net.holds[n] > 0 /\ IsCalled(n)
      /\ \/ HasBegunToPush(x, x.held, y, n) /\ x.held # << >>
         \/ /\ HasAnswered(x, x.held, y, n)
            /\ y.last_execute_state = "SUCCESS" => x.held = << >>

Gives(n, y) ==
  LET x == node[n]
      i == AtEdge(n)
  IN  /\ x.pc = "out" /\ CanPull(n, i)
      /\ edge' = AfterPull(n, i)
      /\ \/ /\ Range(x.todo) # {i} /\ Range(y.todo) = Range(x.todo) \ {i}
            /\ SameRest(x, y) /\ SameLoop(x, y)
         \/ /\ Range(x.todo) = {i} /\ ~x.pushing
            /\ SameRest(x, y) /\ y.last_execute_state = x.last_execute_state
            /\ AtHead(y, n)
         \/ /\ Range(x.todo) = {i} /\ x.pushing
            /\ \/ HasBegunToPush(x, Tail(x.held), y, n) /\ Tail(x.held) # << >>
               \/ HasAnswered(x, Tail(x.held), y, n) /\ Tail(x.held) = << >>

NodeCases(n, y) ==
  \/ Waits(n, y) \/ Stops(n, y) \/ Takes(n, y) \/ IsFlushed(n, y)
  \/ Executes(n, y) \/ HoldsBack(n, y) \/ Gives(n, y)

(* Every step of a node is one of these cases, and leaves its types. *)
LEMMA NodeStepCases ==
  ASSUME Types, NEW n \in Nodes, NodeStep(n)
  PROVE  \E y \in Thread : /\ ThreadOK(y, n) /\ NodeCases(n, y)
                           /\ node' = [node EXCEPT ![n] = y]
                           /\ EdgesOK(edge')
                           /\ UNCHANGED << net, call, run, cancelled >>
<1> DEFINE x == node[n]
           i == AtEdge(n)
           Goal == \E y \in Thread : /\ ThreadOK(y, n) /\ NodeCases(n, y)
                                     /\ node' = [node EXCEPT ![n] = y]
                                     /\ EdgesOK(edge')
                                     /\ UNCHANGED << net, call, run, cancelled >>
<1>1. /\ net \in Networks /\ x \in Thread /\ ThreadOK(x, n) /\ HeldOK(x, n)
      /\ node \in [Nodes -> Thread] /\ EdgesOK(edge)
  BY DEF Types, ThreadOK
<1>2. x.todo # << >> =>
        /\ i \in DOMAIN net.edges /\ i \in Range(x.todo)
        /\ Tail(x.todo) \in Seq(DOMAIN net.edges)
        /\ Range(Tail(x.todo)) = Range(x.todo) \ {i}
  BY <1>1, EdgeTurn DEF AtEdge
<1>3. x.todo # << >> => (Tail(x.todo) = << >> <=> Range(x.todo) = {i})
  <2> SUFFICES ASSUME x.todo # << >>
               PROVE  Range(Tail(x.todo)) = {} <=> Tail(x.todo) = << >>
    BY <1>2
  <2>1. Tail(x.todo) \in Seq(DOMAIN net.edges)
    BY <1>2
  <2> QED
    BY <2>1, EmptyRange
<1>4. InEdgeCall(n) <=> x.todo # << >>
  BY <1>1 DEF InEdgeCall, ThreadOK
<1> HIDE DEF Goal
<1>5. CASE Wait(n)
  <2> DEFINE y == [x EXCEPT !.waiting = TRUE]
  <2>1. /\ node' = [node EXCEPT ![n] = y] /\ edge' = edge
        /\ InEdgeCall(n) /\ ~CanGoOn(n)
        /\ UNCHANGED << net, call, run, cancelled >>
    BY <1>1, <1>5 DEF Wait
  <2>2. /\ y \in Thread /\ SameRest(x, y) /\ SameLoop(x, y) /\ y.todo = x.todo
        /\ y.waiting = TRUE
    BY <1>1 DEF Thread, SameRest, SameLoop, SameCalls
  <2>3. net.edges[i].kind # "dependency"
    BY <2>1 DEF CanGoOn, CanPull, CanPush, AtEdge
  <2> HIDE DEF y
  <2>4. ThreadOK(y, n)
    <3>1. /\ y.pc = x.pc /\ y.todo = x.todo /\ y.held = x.held /\ y.since = x.since
          /\ y.last_execute_state = x.last_execute_state /\ y.fresh = x.fresh
          /\ y.pushing = x.pushing
      BY <2>2 DEF SameRest, SameLoop
    <3>2. x.pc \in {"in", "resync", "out"} /\ net.edges[Head(x.todo)].kind # "dependency"
      BY <2>1, <2>3 DEF InEdgeCall, AtEdge
    <3>3. HeldOK(y, n)
      BY <1>1, <3>1 DEF HeldOK
    <3> QED
      BY <1>1, <3>1, <3>2, <3>3 DEF ThreadOK
  <2>5. NodeCases(n, y)
    BY <2>1, <2>2 DEF NodeCases, Waits
  <2> QED
    BY <1>1, <2>1, <2>2, <2>4, <2>5 DEF Goal
<1>6. CASE ExecuteIncomingEdge(n)
  <2> DEFINE st == PushedStatus(i)
             y == IF st = "FLUSH" THEN AfterFlush(x, n, i) ELSE AfterStatus(x, i, st)
  <2>1. /\ x.pc = "in" /\ CanGoOn(n) /\ edge' = AfterPush(i)
        /\ node' = [node EXCEPT ![n] = y]
        /\ UNCHANGED << net, call, run, cancelled >>
    BY <1>1, <1>6 DEF ExecuteIncomingEdge, GoesOn, AtEdge
  <2>2. CanPush(i) /\ x.todo # << >>
    BY <1>4, <2>1 DEF CanGoOn, AtEdge, InEdgeCall
  <2>3. EdgesOK(edge') /\ PushedValues(i) \subseteq Origin
    BY <1>2, <2>1, <2>2, PushTypes
  <2>4. CASE st = "FLUSH"
    <3>1. /\ y \in Thread /\ ThreadOK(y, n) /\ SameCalls(x, y)
          /\ y.pc # "none" /\ y.sent.run = x.sent.run
          /\ net.frames = 0 => y.sent = x.sent
      BY <1>1, <2>1, <2>4, AfterFlushFields DEF AtEdge
    <3>2. NodeCases(n, y)
      BY <2>1, <2>2, <2>4, <3>1 DEF NodeCases, IsFlushed
    <3> QED
      BY <2>1, <2>3, <3>1, <3>2 DEF Goal
  <2>5. CASE st # "FLUSH"
    <3>1. /\ y \in Thread /\ ThreadOK(y, n) /\ SameRest(x, y)
          /\ y.last_execute_state = x.last_execute_state
          /\ y.found = x.found \cup Noted(i, st)
          /\ y.fresh = x.fresh \cup PushedValues(i)
          /\ y.pc = (IF y.todo = << >> THEN "execute" ELSE "in")
          /\ Range(y.todo) = Range(x.todo) \ {i}
          /\ ~y.pushing
      BY <1>1, <2>1, <2>3, <2>5, AfterStatusFields DEF AtEdge
    <3> HIDE DEF y
    <3>2. NodeCases(n, y)
      BY <2>1, <2>2, <2>5, <3>1 DEF NodeCases, Takes
    <3> QED
      BY <2>1, <2>3, <3>1, <3>2 DEF Goal
  <2> QED
    BY <2>4, <2>5
<1>7. CASE Resynchronize(n)
  <2> DEFINE y == IF PushedStatus(i) # "FLUSH" THEN [x EXCEPT !.waiting = FALSE]
                  ELSE IF Tail(x.todo) = << >> THEN StepEnds(x, n, "FLUSH")
                  ELSE NextEdge(x)
  <2>1. /\ x.pc = "resync" /\ CanGoOn(n) /\ edge' = AfterPush(i)
        /\ node' = [node EXCEPT ![n] = y]
        /\ UNCHANGED << net, call, run, cancelled >>
    BY <1>1, <1>7 DEF Resynchronize, GoesOn, AtEdge
  <2>2. CanPush(i) /\ x.todo # << >>
    BY <1>4, <2>1 DEF CanGoOn, AtEdge, InEdgeCall
  <2>3. EdgesOK(edge')
    BY <1>2, <2>1, <2>2, PushTypes
  <2>4. /\ [x EXCEPT !.waiting = FALSE] \in Thread
        /\ LET z == [x EXCEPT !.waiting = FALSE]
           IN  ThreadOK(z, n) /\ SameCalls(x, z) /\ z.pc # "none" /\ z.sent = x.sent
    <3> DEFINE z == [x EXCEPT !.waiting = FALSE]
    <3>1. z \in Thread /\ SameRest(x, z) /\ SameLoop(x, z) /\ z.todo = x.todo /\ z.waiting = FALSE
      BY <1>1 DEF Thread, SameRest, SameLoop, SameCalls
    <3> HIDE DEF z
    <3>2. ThreadOK(z, n)
      BY SMTT(30), <1>1, <3>1 DEF ThreadOK, HeldOK, SameRest, SameLoop
    <3> QED
      BY <2>1, <3>1, <3>2 DEF SameRest, SameLoop, z
  <2>5. StepEnds(x, n, "FLUSH") \in Thread /\ ThreadOK(StepEnds(x, n, "FLUSH"), n)
        /\ SameCalls(x, StepEnds(x, n, "FLUSH"))
        /\ StepEnds(x, n, "FLUSH").pc # "none"
        /\ StepEnds(x, n, "FLUSH").sent.run = x.sent.run
        /\ (net.frames = 0 => StepEnds(x, n, "FLUSH").sent = x.sent)
    BY <1>1, FlushEndsFields
  <2>6. ASSUME Tail(x.todo) # << >>
        PROVE  /\ NextEdge(x) \in Thread /\ ThreadOK(NextEdge(x), n)
               /\ SameCalls(x, NextEdge(x))
               /\ NextEdge(x).pc # "none" /\ NextEdge(x).sent = x.sent
    BY <1>1, <2>1, <2>2, <2>6, NextEdgeFields DEF SameRest
  <2>7. /\ y \in Thread /\ ThreadOK(y, n) /\ SameCalls(x, y)
        /\ y.pc # "none" /\ y.sent.run = x.sent.run
        /\ net.frames = 0 => y.sent = x.sent
    <3>1. CASE PushedStatus(i) # "FLUSH"
      BY <2>4, <3>1
    <3>2. CASE PushedStatus(i) = "FLUSH" /\ Tail(x.todo) = << >>
      BY <2>5, <3>2
    <3>3. CASE PushedStatus(i) = "FLUSH" /\ Tail(x.todo) # << >>
      BY <2>6, <3>3
    <3> QED
      BY <3>1, <3>2, <3>3
  <2> HIDE DEF y
  <2>8. NodeCases(n, y)
    BY <2>1, <2>2, <2>7 DEF NodeCases, IsFlushed
  <2> QED
    BY <2>1, <2>3, <2>7, <2>8 DEF Goal
<1>8. CASE ExecuteHolder(n)
  <2>1. PICK break \in BOOLEAN : node' = [node EXCEPT ![n] = HolderStep(x, n, break)]
    BY <1>1, <1>8 DEF ExecuteHolder
  <2> DEFINE y == HolderStep(x, n, break)
  <2>2. /\ x.pc = "execute" /\ net.holds[n] > 0 /\ IsCalled(n) /\ edge' = edge
        /\ UNCHANGED << net, call, run, cancelled >>
    BY <1>8 DEF ExecuteHolder
  <2>3. /\ y \in Thread /\ ThreadOK(y, n)
        /\ \/ HasBegunToPush(x, x.held, y, n) /\ x.held # << >>
           \/ /\ HasAnswered(x, x.held, y, n)
              /\ y.last_execute_state = "SUCCESS" => x.held = << >>
    BY <1>1, <2>2, HolderStepFields
  <2>4. NodeCases(n, y)
    BY <2>2, <2>3 DEF NodeCases, HoldsBack
  <2> QED
    BY <1>1, <2>1, <2>2, <2>3, <2>4 DEF Goal
<1>9. CASE Execute(n)
  <2> DEFINE z == Stepped(x, n)
  <2>1. PICK st \in MayReturn(x.found, n \in net.skipped, Returns(n)) :
          node' = [node EXCEPT ![n] = StepEnds(z, n, st)]
    BY <1>1, <1>9 DEF Execute
  <2>2. /\ x.pc = "execute" /\ ~(net.holds[n] > 0 /\ IsCalled(n)) /\ edge' = edge
        /\ UNCHANGED << net, call, run, cancelled >>
    BY <1>9 DEF Execute
  <2>3. st \in StepStatus
    <3>1. Returns(n) \subseteq StepStatus
      BY <1>1, NetworkTypes DEF Returns, StepStatus
    <3> QED
      BY <3>1 DEF MayReturn, StepStatus
  <2> DEFINE y == StepEnds(z, n, st)
  <2>5. /\ z \in Thread /\ SameCalls(x, z) /\ z.held = x.held
        /\ z.since = x.since /\ z.sent = x.sent
        /\ z.left = IF IsSource(n) /\ x.left > 0 THEN x.left - 1 ELSE x.left
    BY <1>1, SteppedFields
  <2> HIDE DEF z
  <2>6. HeldOK(z, n)
    BY <1>1, <2>5 DEF HeldOK
  <2>7. /\ y \in Thread /\ ThreadOK(y, n) /\ SameCalls(z, y)
        /\ y.left = z.left /\ y.held = z.held
        /\ y.sent = IF net.frames = 0 THEN z.sent ELSE NextSent(z.sent, st)
        /\ y.last_execute_state = st /\ ~y.pushing
        /\ IF st = "NO_OUTPUT" \/ EdgesFrom(n) = {} THEN AtHead(y, n)
                                                   ELSE AtOut(y, n)
    BY <1>1, <2>3, <2>5, <2>6, StepEndsFields
  <2>8. node' = [node EXCEPT ![n] = y]
    BY <2>1
  <2> HIDE DEF y
  <2>9. Executes(n, y)
    BY <2>1, <2>2, <2>5, <2>7 DEF Executes, SameCalls
  <2> QED
    BY <2>2, <1>1, <2>7, <2>8, <2>9 DEF Goal, NodeCases
<1>10. CASE ExecuteOutgoingEdge(n)
  <2> DEFINE t == Tail(x.todo)
             y == IF t = << >>
                  THEN IF x.pushing THEN PushEnds(x, n)
                                    ELSE LoopHead(x, n, x.last_execute_state)
                  ELSE NextEdge(x)
  <2>1. /\ x.pc = "out" /\ CanGoOn(n) /\ edge' = AfterPull(n, i)
        /\ node' = [node EXCEPT ![n] = y]
        /\ UNCHANGED << net, call, run, cancelled >>
    BY <1>1, <1>10 DEF ExecuteOutgoingEdge, GoesOn, AtEdge
  <2>2. CanPull(n, i) /\ x.todo # << >> /\ x.last_execute_state \in StepStatus
        /\ (x.pushing => x.held # << >>)
    BY <1>1, <1>4, <2>1 DEF CanGoOn, AtEdge, InEdgeCall, Thread, ThreadOK
  <2>3. EdgesOK(edge')
    BY <1>2, <2>1, <2>2, PullTypes
  <2>4. y \in Thread /\ ThreadOK(y, n) /\ Gives(n, y)
    <3>1. CASE t # << >>
      <4>1. y = NextEdge(x)
        BY <3>1
      <4>2. /\ y \in Thread /\ ThreadOK(y, n) /\ SameRest(x, y)
            /\ y.pc = x.pc /\ y.last_execute_state = x.last_execute_state
            /\ y.found = x.found /\ y.fresh = x.fresh /\ y.pushing = x.pushing
            /\ Range(y.todo) = Range(x.todo) \ {i}
        BY ZenonT(30), <1>1, <2>2, <3>1, <4>1, NextEdgeFields DEF AtEdge
      <4>3. Range(x.todo) # {i}
        BY <1>3, <2>2, <3>1
      <4> QED
        BY <2>1, <2>2, <4>2, <4>3 DEF Gives, SameLoop
    <3>2. CASE t = << >> /\ ~x.pushing
      <4>1. y = LoopHead(x, n, x.last_execute_state)
        BY <3>2
      <4>2. /\ y \in Thread /\ ThreadOK(y, n) /\ SameRest(x, y)
            /\ y.last_execute_state = x.last_execute_state /\ AtHead(y, n)
        BY SMTT(30), <1>1, <2>2, <4>1, LoopHeadFields
      <4> QED
        BY <1>3, <2>1, <2>2, <3>2, <4>2 DEF Gives
    <3>3. CASE t = << >> /\ x.pushing
      <4>1. y = PushEnds(x, n)
        BY <3>3
      <4>2. /\ y \in Thread /\ ThreadOK(y, n)
            /\ \/ HasBegunToPush(x, Tail(x.held), y, n) /\ Tail(x.held) # << >>
               \/ HasAnswered(x, Tail(x.held), y, n) /\ Tail(x.held) = << >>
        BY <1>1, <2>2, <3>3, <4>1, PushEndsFields
      <4> QED
        BY <1>3, <2>1, <2>2, <3>3, <4>2 DEF Gives
    <3> QED
      BY <3>1, <3>2, <3>3
  <2> HIDE DEF y
  <2> QED
    BY <2>1, <2>3, <2>4 DEF Goal, NodeCases
<1>11. CASE ThreadInterrupted(n)
  <2> DEFINE y == [x EXCEPT !.pc = "ended", !.todo = << >>, !.found = {}, !.fresh = {},
                            !.waiting = FALSE, !.pushing = FALSE]
  <2>1. /\ x.waiting /\ x.interrupted /\ edge' = edge
        /\ UNCHANGED << net, call, run, cancelled >>
    BY <1>11 DEF ThreadInterrupted
  <2>2. node' = [node EXCEPT ![n] = y]
    BY <1>1, <1>11 DEF ThreadInterrupted
  <2>3. /\ y \in Thread /\ SameRest(x, y) /\ y.pc = "ended" /\ y.todo = << >>
        /\ y.found = {} /\ y.fresh = {} /\ y.waiting = FALSE /\ y.pushing = FALSE
        /\ y.last_execute_state = x.last_execute_state
    BY <1>1, EmptySeq DEF Thread, SameRest, SameCalls, ThreadState
  <2> HIDE DEF y
  <2>4. ThreadOK(y, n)
    BY <1>1, <2>3, EmptySeq DEF ThreadOK, HeldOK, SameRest
  <2>5. NodeCases(n, y)
    BY <2>1, <2>3 DEF NodeCases, Stops
  <2> QED
    BY <1>1, <2>1, <2>2, <2>3, <2>4, <2>5 DEF Goal
<1> QED
  BY <1>5, <1>6, <1>7, <1>8, <1>9, <1>10, <1>11 DEF NodeStep, Goal

-----------------------------------------------------------------------------
(* What a step of caller c makes of the thread it visits, y.               *)

(* Only what the callers look at changes. *)
SameThread(x, y) ==
  /\ y.sent = x.sent /\ y.left = x.left /\ y.held = x.held /\ y.since = x.since
  /\ SameLoop(x, y) /\ y.todo = x.todo /\ y.waiting = x.waiting

NoThread(x) == x.pc \in {"none", "ended"}

Starts(c, y) ==
  LET x == node[Visited(c)]
  IN  /\ Calls(c, {"manage_thread"}) /\ edge' = edge /\ VisitEnds(c)
      /\ x.pc = "none" \/ (x.pc = "ended" /\ x.last_execute_state = "SUCCESS")
      /\ y.sent = x.sent /\ y.left = x.left /\ y.held = x.held
      /\ y.last_execute_state = "SUCCESS" /\ AtHead(y, Visited(c))
      /\ ~y.interrupted /\ y.is_critical = (Visited(c) \in net.output)

Keeps(c, y) ==
  LET x == node[Visited(c)]
  IN  /\ Calls(c, {"manage_thread"}) /\ edge' = edge /\ VisitEnds(c)
      /\ ~(x.pc = "none" \/ (x.pc = "ended" /\ x.last_execute_state = "SUCCESS"))
      /\ SameThread(x, y)
      /\ y.interrupted = x.interrupted
      /\ y.is_critical = (Visited(c) \in net.output)

Interrupts(c, y) ==
  LET x == node[Visited(c)]
  IN  /\ Calls(c, {"interrupt_critical", "interrupt_non_critical"})
      /\ OfThisKind(c) /\ edge' = edge /\ VisitEnds(c)
      /\ SameThread(x, y) /\ y.is_critical = x.is_critical
      /\ y.interrupted <=> x.interrupted \/ ~NoThread(x)

(* It passes over the node, or joins it. *)
Awaits(c, y) ==
  LET x == node[Visited(c)]
  IN  /\ Calls(c, {"interrupt_critical", "interrupt_non_critical",
                   "join_critical", "join_non_critical"})
      /\ edge' = edge /\ (VisitEnds(c) \/ UNCHANGED call)
      /\ VisitEnds(c) /\ OfThisKind(c) => NoThread(x)
      /\ SameThread(x, y) /\ y.is_critical = x.is_critical
      /\ y.interrupted = x.interrupted

Resets(c, y) ==
  LET v == Visited(c)
      x == node[v]
  IN  /\ Calls(c, {"reset"}) /\ VisitEnds(c)
      /\ x.pc = "ended"
      /\ edge' = [i \in DOMAIN edge |->
                    IF net.edges[i].from = v /\ net.edges[i].kind # "dependency"
                    THEN WasReset(edge[i]) ELSE edge[i]]
      /\ y.pc = "ended" /\ y.todo = x.todo /\ y.last_execute_state = "SUCCESS"
      /\ y.sent = NewRun(run) /\ y.left = net.frames
      /\ y.held = x.held /\ y.pushing = x.pushing /\ y.fresh = x.fresh
      /\ y.is_critical = x.is_critical /\ y.interrupted = x.interrupted

CallerCases(c, y) ==
  \/ Starts(c, y) \/ Keeps(c, y) \/ Interrupts(c, y) \/ Awaits(c, y) \/ Resets(c, y)

(* What is left of a call is a sequence of visits. *)
LEMMA CallTypes ==
  ASSUME Types, NEW c \in Callers, call[c] # << >>
  PROVE  /\ Head(call[c]) \in Visit /\ Visited(c) \in Nodes
         /\ Head(call[c]).op \in Operations
         /\ Tail(call[c]) \in Seq(Visit)
<1>1. call[c] \in Seq(Visit)
  BY DEF Types
<1>2. Head(call[c]) \in Visit /\ Tail(call[c]) \in Seq(Visit)
  BY <1>1, HeadTailProperties
<1> QED
  BY <1>2 DEF Visited, Visit

(* A thread that only a caller has touched is as it was. *)
LEMMA SameThreadOK ==
  ASSUME NEW n, NEW x, ThreadOK(x, n), NEW y, SameThread(x, y)
  PROVE  ThreadOK(y, n)
<1>1. HeldOK(y, n)
  BY DEF ThreadOK, HeldOK, SameThread
<1> QED
  BY <1>1 DEF ThreadOK, SameThread, SameLoop

(* Every step of a caller is one of these cases, and leaves the types. *)
LEMMA CallerStepCases ==
  ASSUME Types, NEW c \in Callers, CallerStep(c)
  PROVE  /\ call[c] # << >> /\ Visited(c) \in Nodes
         /\ \E y \in Thread : /\ ThreadOK(y, Visited(c)) /\ CallerCases(c, y)
                              /\ node' = [node EXCEPT ![Visited(c)] = y]
         /\ EdgesOK(edge') /\ call' \in [Callers -> Seq(Visit)]
         /\ VisitEnds(c) \/ UNCHANGED call
         /\ UNCHANGED << net, run, cancelled >>
<1> DEFINE v == Visited(c)
           x == node[v]
           Goal == /\ \E y \in Thread : /\ ThreadOK(y, v) /\ CallerCases(c, y)
                                        /\ node' = [node EXCEPT ![v] = y]
                   /\ EdgesOK(edge')
                   /\ VisitEnds(c) \/ UNCHANGED call
                   /\ UNCHANGED << net, run, cancelled >>
<1>1. call[c] # << >>
  BY DEF CallerStep, ManageThread, PassOver, Interrupt, JoinBegins, JoinEnds,
         ResetNode, Calls
<1>2. v \in Nodes /\ Tail(call[c]) \in Seq(Visit)
  BY <1>1, CallTypes
<1>3. /\ net \in Networks /\ EdgesOK(edge) /\ node \in [Nodes -> Thread]
      /\ x \in Thread /\ ThreadOK(x, v) /\ HeldOK(x, v)
      /\ call \in [Callers -> Seq(Visit)]
  BY <1>2 DEF Types, ThreadOK
<1>4. VisitEnds(c) \/ UNCHANGED call => call' \in [Callers -> Seq(Visit)]
  BY <1>2, <1>3 DEF VisitEnds
<1> SUFFICES Goal
  BY <1>1, <1>2, <1>4 DEF Goal
<1> HIDE DEF Goal
<1>5. CASE ManageThread(c)
  <2> DEFINE critical == v \in net.output
             z == [x EXCEPT !.is_critical = critical]
             w == [z EXCEPT !.interrupted = FALSE]
             starts == \/ z.pc = "none"
                       \/ z.pc = "ended" /\ z.last_execute_state = "SUCCESS"
             y == IF starts THEN LoopHead(w, v, "SUCCESS") ELSE z
  <2>1. /\ Calls(c, {"manage_thread"}) /\ edge' = edge /\ VisitEnds(c)
        /\ UNCHANGED << net, run, cancelled >>
    BY <1>5 DEF ManageThread
  <2>2. node' = [node EXCEPT ![v] = y]
    BY <1>5 DEF ManageThread
  <2> HIDE DEF critical
  <2>3. critical \in BOOLEAN /\ critical = (v \in net.output)
    BY DEF critical
  <2>4. /\ z \in Thread /\ SameThread(x, z) /\ z.is_critical = critical
        /\ z.interrupted = x.interrupted
    BY <1>3, <2>3 DEF Thread, SameThread, SameLoop
  <2> HIDE DEF z
  <2>5. /\ w \in Thread /\ SameThread(z, w) /\ w.is_critical = critical
        /\ w.interrupted = FALSE /\ w.thread_mut = z.thread_mut
    BY <2>4 DEF Thread, SameThread, SameLoop
  <2> HIDE DEF w
  <2>6. CASE starts
    <3>1. HeldOK(w, v) /\ "SUCCESS" \in StepStatus
      BY <1>3, <2>4, <2>5 DEF HeldOK, SameThread, StepStatus
    <3>2. y = LoopHead(w, v, "SUCCESS")
      BY <2>6
    <3>3. /\ y \in Thread /\ ThreadOK(y, v) /\ SameRest(w, y)
          /\ y.last_execute_state = "SUCCESS" /\ AtHead(y, v)
      BY <1>2, <1>3, <2>5, <3>1, <3>2, LoopHeadFields
    <3>4. x.pc = "none" \/ (x.pc = "ended" /\ x.last_execute_state = "SUCCESS")
      BY <2>4, <2>6 DEF SameThread, SameLoop
    <3> HIDE DEF y
    <3>5. Starts(c, y)
      BY <2>1, <2>3, <2>4, <2>5, <3>3, <3>4 DEF Starts, SameRest, SameCalls, SameThread
    <3> QED
      BY <1>3, <2>1, <2>2, <3>3, <3>5 DEF Goal, CallerCases
  <2>7. CASE ~starts
    <3>1. y = z
      BY <2>7
    <3>2. ThreadOK(z, v)
      BY <1>3, <2>4, SameThreadOK
    <3>3. ~(x.pc = "none" \/ (x.pc = "ended" /\ x.last_execute_state = "SUCCESS"))
      BY <2>4, <2>7 DEF SameThread, SameLoop
    <3> HIDE DEF y, starts
    <3>4. Keeps(c, z)
      BY <2>1, <2>3, <2>4, <3>3 DEF Keeps
    <3> QED
      BY <1>3, <2>1, <2>2, <2>4, <3>1, <3>2, <3>4 DEF Goal, CallerCases
  <2> QED
    BY <2>6, <2>7
<1>6. CASE PassOver(c)
  <2>1. Awaits(c, x)
    BY <1>6 DEF PassOver, Awaits, SameThread, SameLoop
  <2>2. node' = [node EXCEPT ![v] = x]
    BY <1>3, <1>6 DEF PassOver
  <2> QED
    BY <1>3, <1>6, <2>1, <2>2 DEF Goal, CallerCases, PassOver
<1>7. CASE Interrupt(c)
  <2> DEFINE b == x.interrupted \/ x.pc \notin {"none", "ended"}
             y == [x EXCEPT !.interrupted = b]
  <2>1. node' = [node EXCEPT ![v] = y]
    BY <1>3, <1>7 DEF Interrupt
  <2>2. b \in BOOLEAN
    BY <1>3 DEF Thread
  <2> HIDE DEF b
  <2>3. y \in Thread /\ SameThread(x, y) /\ y.is_critical = x.is_critical /\ y.interrupted = b
    BY <1>3, <2>2 DEF Thread, SameThread, SameLoop
  <2> HIDE DEF y
  <2>4. Interrupts(c, y)
    BY <1>7, <2>3 DEF Interrupt, Interrupts, NoThread, b
  <2>5. ThreadOK(y, v)
    BY <1>3, <2>3, SameThreadOK
  <2> QED
    BY <1>3, <1>7, <2>1, <2>3, <2>4, <2>5 DEF Goal, CallerCases, Interrupt
<1>8. CASE JoinBegins(c)
  <2>1. /\ Calls(c, {"join_critical", "join_non_critical"}) /\ OfThisKind(c)
        /\ edge' = edge /\ UNCHANGED << net, run, cancelled >>
    BY <1>8 DEF JoinBegins
  <2>2. CASE x.pc \in {"none", "ended"}
    <3>1. VisitEnds(c) /\ node' = [node EXCEPT ![v] = x]
      BY <1>3, <1>8, <2>2 DEF JoinBegins
    <3>2. Awaits(c, x)
      BY <2>1, <2>2, <3>1 DEF Awaits, SameThread, SameLoop, NoThread, Calls
    <3> QED
      BY <1>3, <2>1, <3>1, <3>2 DEF Goal, CallerCases
  <2>3. CASE x.pc \notin {"none", "ended"}
    <3> DEFINE y == [x EXCEPT !.thread_mut = c]
    <3>1. UNCHANGED call /\ node' = [node EXCEPT ![v] = y]
      BY <1>3, <1>8, <2>3 DEF JoinBegins
    <3>2. /\ y \in Thread /\ SameThread(x, y) /\ y.is_critical = x.is_critical
          /\ y.interrupted = x.interrupted
      BY <1>3 DEF Thread, SameThread, SameLoop
    <3> HIDE DEF y
    <3>3. ~VisitEnds(c)
      <4>1. Len(Tail(call[c])) = Len(call[c]) - 1 /\ Len(call[c]) \in Nat
        BY <1>1, <1>3, HeadTailProperties
      <4> DEFINE l == Len(call[c])
                 t == Len(Tail(call[c]))
      <4>2. t # l
        <5> HIDE DEF l, t
        <5> QED
          BY <4>1 DEF l, t
      <4> QED
        BY <1>3, <3>1, <4>2 DEF VisitEnds
    <3>4. Awaits(c, y)
      BY <2>1, <3>1, <3>2, <3>3 DEF Awaits, Calls
    <3>5. ThreadOK(y, v)
      BY <1>3, <3>2, SameThreadOK
    <3> QED
      BY <1>3, <2>1, <3>1, <3>2, <3>4, <3>5 DEF Goal, CallerCases
  <2> QED
    BY <2>2, <2>3
<1>9. CASE JoinEnds(c)
  <2> DEFINE y == [x EXCEPT !.thread_mut = "free"]
  <2>1. /\ Calls(c, {"join_critical", "join_non_critical"}) /\ x.pc = "ended"
        /\ VisitEnds(c)
        /\ edge' = edge /\ UNCHANGED << net, run, cancelled >>
    BY <1>9 DEF JoinEnds
  <2>2. node' = [node EXCEPT ![v] = y]
    BY <1>3, <1>9 DEF JoinEnds
  <2>3. /\ y \in Thread /\ SameThread(x, y) /\ y.is_critical = x.is_critical
        /\ y.interrupted = x.interrupted
    BY <1>3 DEF Thread, SameThread, SameLoop
  <2> HIDE DEF y
  <2>4. Awaits(c, y)
    BY <2>1, <2>3 DEF Awaits, Calls, NoThread
  <2>5. ThreadOK(y, v)
    BY <1>3, <2>3, SameThreadOK
  <2> QED
    BY <1>3, <2>1, <2>2, <2>3, <2>4, <2>5 DEF Goal, CallerCases
<1>10. CASE ResetNode(c)
  <2> DEFINE y == [x EXCEPT !.last_execute_state = "SUCCESS", !.sent = NewRun(run),
                            !.left = net.frames]
  <2>1. /\ Calls(c, {"reset"}) /\ x.pc = "ended" /\ VisitEnds(c)
        /\ edge' = [i \in DOMAIN edge |->
                      IF net.edges[i].from = v /\ net.edges[i].kind # "dependency"
                      THEN WasReset(edge[i]) ELSE edge[i]]
        /\ UNCHANGED << net, run, cancelled >>
    BY <1>10 DEF ResetNode
  <2>2. node' = [node EXCEPT ![v] = y]
    BY <1>3, <1>10 DEF ResetNode
  <2>3. NewRun(run) \in Origin /\ net.frames \in 0 .. net.frames /\ "SUCCESS" \in StepStatus
    <3>1. run \in Nat /\ net.frames \in Nat
      BY <1>3, NetworkTypes DEF Types
    <3> QED
      BY <3>1, OriginFields DEF StepStatus
  <2>4. /\ y \in Thread /\ y.pc = x.pc /\ y.todo = x.todo
        /\ y.last_execute_state = "SUCCESS" /\ y.sent = NewRun(run) /\ y.left = net.frames
        /\ y.held = x.held /\ y.since = x.since /\ y.pushing = x.pushing
        /\ y.fresh = x.fresh /\ y.waiting = x.waiting
        /\ y.is_critical = x.is_critical /\ y.interrupted = x.interrupted
    BY <1>3, <2>3 DEF Thread
  <2> HIDE DEF y
  <2>5. ThreadOK(y, v)
    <3>1. HeldOK(y, v)
      BY <1>3, <2>4 DEF HeldOK
    <3> QED
      BY <1>3, <2>1, <2>4, <3>1 DEF ThreadOK
  <2>6. EdgesOK(edge')
    <3>1. \A i \in DOMAIN net.edges : Paired(edge[i], Origin) /\ Paired(WasReset(edge[i]), Origin)
      BY <1>3, ResetPaired DEF EdgesOK
    <3>2. DOMAIN edge = DOMAIN net.edges
      BY <1>3 DEF EdgesOK
    <3> QED
      BY <2>1, <3>1, <3>2 DEF EdgesOK, Paired
  <2>7. Resets(c, y)
    BY <2>1, <2>4 DEF Resets
  <2> QED
    BY <2>1, <2>2, <2>4, <2>5, <2>6, <2>7 DEF Goal, CallerCases
<1> QED
  BY <1>5, <1>6, <1>7, <1>8, <1>9, <1>10 DEF CallerStep

-----------------------------------------------------------------------------
(* The application's call.                                                 *)

N == Len(net.order)

(* A run, with the reset before it, that the first run does without. *)
Program == reset \o run_async \o wait

(* The loops of wait() visit the output nodes, and then the others. *)
LEMMA OutputLoops ==
  ASSUME net \in Networks
  PROVE  /\ N \in Nat
         /\ Critical \in Seq(Nodes) /\ NonCritical \in Seq(Nodes)
         /\ Len(Critical) \in Nat /\ Len(NonCritical) \in Nat
         /\ \A k \in 1 .. Len(Critical) : Critical[k] \in net.output
         /\ \A k \in 1 .. Len(NonCritical) : NonCritical[k] \in Nodes \ net.output
         /\ \A n \in net.output : \E k \in 1 .. Len(Critical) : Critical[k] = n
         /\ \A n \in Nodes \ net.output :
              \E k \in 1 .. Len(NonCritical) : NonCritical[k] = n
<1>1. /\ net.order \in Seq(Nodes) /\ N \in Nat /\ DOMAIN net.order = 1 .. N
      /\ \A n \in Nodes : \E p \in 1 .. N : net.order[p] = n
      /\ net.output \subseteq Nodes
  BY NetworkTypes DEF N
<1>2. ASSUME NEW S \in SUBSET DOMAIN net.order
      PROVE  LET q == Subsequence(net.order, S)
             IN  /\ q \in Seq(Nodes) /\ Len(q) \in Nat
                 /\ \A k \in 1 .. Len(q) : \E p \in S : q[k] = net.order[p]
                 /\ \A p \in S : \E k \in 1 .. Len(q) : q[k] = net.order[p]
  <2> DEFINE q == Subsequence(net.order, S)
             c == Cardinality(S)
  <2>1. S \in SUBSET (1 .. Len(net.order)) /\ Len(net.order) \in Nat
    BY <1>1 DEF N
  <2>2. /\ q \in Seq(Nodes) /\ Len(q) = c /\ c \in Nat
        /\ Enumeration(S) \in [1 .. c -> S]
        /\ \A k \in 1 .. c : q[k] = net.order[Enumeration(S)[k]]
    BY <1>1, <2>1, SubsequenceProperties
  <2>3. \A p \in S : \E k \in 1 .. c : Enumeration(S)[k] = p
    BY <2>1, EnumerationIsOnto
  <2> HIDE DEF q, c
  <2>4. \A k \in 1 .. c : Enumeration(S)[k] \in S
    BY <2>2
  <2> QED
    BY <2>2, <2>3, <2>4 DEF q
<1> DEFINE C == {p \in DOMAIN net.order : net.order[p] \in net.output}
           D == {p \in DOMAIN net.order : net.order[p] \notin net.output}
<1>3. /\ Critical \in Seq(Nodes) /\ Len(Critical) \in Nat
      /\ \A k \in 1 .. Len(Critical) : \E p \in C : Critical[k] = net.order[p]
      /\ \A p \in C : \E k \in 1 .. Len(Critical) : Critical[k] = net.order[p]
  BY <1>2 DEF Critical
<1>4. /\ NonCritical \in Seq(Nodes) /\ Len(NonCritical) \in Nat
      /\ \A k \in 1 .. Len(NonCritical) : \E p \in D : NonCritical[k] = net.order[p]
      /\ \A p \in D : \E k \in 1 .. Len(NonCritical) : NonCritical[k] = net.order[p]
  BY <1>2 DEF NonCritical
<1>5. \A p \in DOMAIN net.order : net.order[p] \in Nodes
  BY <1>1
<1>6. \A n \in net.output : \E p \in C : net.order[p] = n
  BY <1>1
<1>7. \A n \in Nodes \ net.output : \E p \in D : net.order[p] = n
  BY <1>1
<1>8. /\ \A p \in C : net.order[p] \in net.output
      /\ \A p \in D : net.order[p] \in Nodes \ net.output
  BY <1>5
<1> HIDE DEF C, D
<1>9. /\ \A k \in 1 .. Len(Critical) : Critical[k] \in net.output
      /\ \A n \in net.output : \E k \in 1 .. Len(Critical) : Critical[k] = n
  <2>1. \A k \in 1 .. Len(Critical) : Critical[k] \in net.output
    BY <1>3, <1>8
  <2>2. ASSUME NEW n \in net.output
        PROVE  \E k \in 1 .. Len(Critical) : Critical[k] = n
    <3>1. PICK p \in C : net.order[p] = n
      BY <1>6
    <3>2. \E k \in 1 .. Len(Critical) : Critical[k] = net.order[p]
      BY <1>3
    <3> QED
      BY <3>1, <3>2
  <2> QED
    BY <2>1, <2>2
<1>10. /\ \A k \in 1 .. Len(NonCritical) : NonCritical[k] \in Nodes \ net.output
       /\ \A n \in Nodes \ net.output :
            \E k \in 1 .. Len(NonCritical) : NonCritical[k] = n
  <2>1. \A k \in 1 .. Len(NonCritical) : NonCritical[k] \in Nodes \ net.output
    BY <1>4, <1>8
  <2>2. ASSUME NEW n \in Nodes \ net.output
        PROVE  \E k \in 1 .. Len(NonCritical) : NonCritical[k] = n
    <3>1. PICK p \in D : net.order[p] = n
      BY <1>7
    <3>2. \E k \in 1 .. Len(NonCritical) : NonCritical[k] = net.order[p]
      BY <1>4
    <3> QED
      BY <3>1, <3>2
  <2> QED
    BY <2>1, <2>2
<1> QED
  BY <1>1, <1>3, <1>4, <1>9, <1>10

(* A loop over nodes visits each of them in turn. *)
LEMMA VisitsTypes ==
  ASSUME net \in Networks, NEW op \in Operations, NEW s \in Seq(Nodes)
  PROVE  /\ Visits(op, s) \in Seq(Visit)
         /\ Len(Visits(op, s)) = Len(s)
         /\ \A k \in 1 .. Len(s) : /\ Visits(op, s)[k].op = op
                                   /\ Visits(op, s)[k].node = s[k]
<1> DEFINE v == Visits(op, s)
<1>1. Len(s) \in Nat /\ DOMAIN s = 1 .. Len(s) /\ \A k \in 1 .. Len(s) : s[k] \in Nodes
  OBVIOUS
<1>2. v = [k \in 1 .. Len(s) |-> [op |-> op, node |-> s[k]]]
  BY <1>1 DEF Visits
<1> HIDE DEF v
<1>3. \A k \in 1 .. Len(s) : v[k] \in Visit /\ v[k].op = op /\ v[k].node = s[k]
  BY <1>1, <1>2 DEF Visit
<1>4. v \in Seq(Visit) /\ Len(v) = Len(s)
  BY <1>1, <1>2, <1>3
<1> QED
  BY <1>3, <1>4 DEF v

(* The members of a concatenation. *)
LEMMA ConcatOf ==
  ASSUME NEW D, NEW s \in Seq(D), NEW t \in Seq(D), NEW m, m = Len(s), NEW n, n = Len(t)
  PROVE  /\ s \o t \in Seq(D) /\ Len(s \o t) = m + n
         /\ \A k \in 1 .. m + n : (s \o t)[k] = IF k <= m THEN s[k] ELSE t[k - m]
BY ConcatProperties

(* The lengths of the loops, and what they visit. *)
LEMMA ProgramShape ==
  ASSUME net \in Networks
  PROVE  LET a == Len(Critical)
             b == Len(NonCritical)
         IN  /\ Program \in Seq(Visit) /\ Len(Program) = 2 * N + a + 2 * b
             /\ run_async \o wait \in Seq(Visit)
             /\ Len(run_async \o wait) = N + a + 2 * b
             /\ run_async \o wait = SubSeq(Program, N + 1, Len(Program))
             /\ \A k \in 1 .. N :
                  /\ Program[k].op = "reset" /\ Program[k].node = net.order[k]
                  /\ Program[N + k].op = "manage_thread"
                  /\ Program[N + k].node = net.order[k]
             /\ \A k \in 1 .. a : /\ Program[2 * N + k].op = "join_critical"
                                  /\ Program[2 * N + k].node = Critical[k]
             /\ \A k \in 1 .. b :
                  /\ Program[2 * N + a + k].op = "interrupt_non_critical"
                  /\ Program[2 * N + a + k].node = NonCritical[k]
                  /\ Program[2 * N + a + b + k].op = "join_non_critical"
                  /\ Program[2 * N + a + b + k].node = NonCritical[k]
<1> DEFINE a == Len(Critical)
           b == Len(NonCritical)
           A == Visits("reset", net.order)
           B == Visits("manage_thread", net.order)
           C == Visits("join_critical", Critical)
           D == Visits("interrupt_non_critical", NonCritical)
           E == Visits("join_non_critical", NonCritical)
           P == (A \o B) \o ((C \o D) \o E)
           Q == B \o ((C \o D) \o E)
<1>1. /\ N \in Nat /\ a \in Nat /\ b \in Nat
      /\ net.order \in Seq(Nodes) /\ Len(net.order) = N
      /\ Critical \in Seq(Nodes) /\ NonCritical \in Seq(Nodes)
  BY OutputLoops, NetworkTypes DEF N
<1>2. /\ A \in Seq(Visit) /\ Len(A) = N
      /\ \A k \in 1 .. N : A[k].op = "reset" /\ A[k].node = net.order[k]
  BY <1>1, VisitsTypes DEF Operations
<1>3. /\ B \in Seq(Visit) /\ Len(B) = N
      /\ \A k \in 1 .. N : B[k].op = "manage_thread" /\ B[k].node = net.order[k]
  BY <1>1, VisitsTypes DEF Operations
<1>4. /\ C \in Seq(Visit) /\ Len(C) = a
      /\ \A k \in 1 .. a : C[k].op = "join_critical" /\ C[k].node = Critical[k]
  BY <1>1, VisitsTypes DEF Operations
<1>5. /\ D \in Seq(Visit) /\ Len(D) = b
      /\ \A k \in 1 .. b : D[k].op = "interrupt_non_critical" /\ D[k].node = NonCritical[k]
  BY <1>1, VisitsTypes DEF Operations
<1>6. /\ E \in Seq(Visit) /\ Len(E) = b
      /\ \A k \in 1 .. b : E[k].op = "join_non_critical" /\ E[k].node = NonCritical[k]
  BY <1>1, VisitsTypes DEF Operations
<1>7. Program = P /\ run_async \o wait = Q
  BY DEF Program, reset, run_async, wait
<1> HIDE DEF A, B, C, D, E, a, b, N
<1>8. /\ A \o B \in Seq(Visit) /\ Len(A \o B) = N + N
      /\ \A k \in 1 .. N + N : (A \o B)[k] = IF k <= N THEN A[k] ELSE B[k - N]
  BY <1>2, <1>3, ConcatOf
<1>9. /\ C \o D \in Seq(Visit) /\ Len(C \o D) = a + b
      /\ \A k \in 1 .. a + b : (C \o D)[k] = IF k <= a THEN C[k] ELSE D[k - a]
  BY <1>4, <1>5, ConcatOf
<1> DEFINE W == (C \o D) \o E
<1>10. /\ W \in Seq(Visit) /\ Len(W) = a + b + b
       /\ \A k \in 1 .. a + b + b : W[k] = IF k <= a + b THEN (C \o D)[k] ELSE E[k - (a + b)]
  <2> DEFINE T == C \o D
  <2> HIDE DEF T
  <2>1. T \in Seq(Visit) /\ a + b = Len(T) /\ E \in Seq(Visit) /\ b = Len(E)
    BY <1>6, <1>9 DEF T
  <2>2. /\ T \o E \in Seq(Visit) /\ Len(T \o E) = (a + b) + b
        /\ \A k \in 1 .. (a + b) + b : (T \o E)[k] = IF k <= a + b THEN T[k] ELSE E[k - (a + b)]
    BY <2>1, ConcatOf
  <2> QED
    BY <2>2 DEF T
<1> HIDE DEF W
<1>11. /\ P \in Seq(Visit) /\ Len(P) = N + N + (a + b + b)
       /\ \A k \in 1 .. N + N + (a + b + b) :
            P[k] = IF k <= N + N THEN (A \o B)[k] ELSE W[k - (N + N)]
  <2> DEFINE T == A \o B
  <2> HIDE DEF T
  <2>1. T \in Seq(Visit) /\ N + N = Len(T) /\ W \in Seq(Visit) /\ a + b + b = Len(W)
    BY <1>8, <1>10 DEF T
  <2>2. /\ T \o W \in Seq(Visit) /\ Len(T \o W) = (N + N) + (a + b + b)
        /\ \A k \in 1 .. (N + N) + (a + b + b) :
             (T \o W)[k] = IF k <= N + N THEN T[k] ELSE W[k - (N + N)]
    BY <2>1, ConcatOf
  <2>3. P = T \o W
    BY DEF P, T, W
  <2> HIDE DEF P
  <2> QED
    BY <2>2, <2>3 DEF T
<1>12. Q \in Seq(Visit) /\ Len(Q) = N + (a + b + b)
  <2>1. B \in Seq(Visit) /\ N = Len(B) /\ W \in Seq(Visit) /\ a + b + b = Len(W)
    BY <1>3, <1>10
  <2>2. B \o W \in Seq(Visit) /\ Len(B \o W) = N + (a + b + b)
    BY <2>1, ConcatOf
  <2> QED
    BY <2>2 DEF W
<1>13. Q = SubSeq(P, N + 1, Len(P))
  <2>1. P = A \o Q
    <3>1. A \in Seq(Visit) /\ B \in Seq(Visit) /\ W \in Seq(Visit)
      BY <1>2, <1>3, <1>10
    <3>2. (A \o B) \o W = A \o (B \o W)
      BY <3>1, ConcatAssociative
    <3> QED
      BY <3>2 DEF W, P, Q
  <2> DEFINE T == SubSeq(P, N + 1, Len(P))
  <2> HIDE DEF P, Q
  <2>2. /\ Len(P) = N + Len(Q) /\ Len(P) \in Nat /\ Len(Q) \in Nat
        /\ \A k \in 1 .. N + Len(Q) : P[k] = IF k <= N THEN A[k] ELSE Q[k - N]
    <3>1. A \in Seq(Visit) /\ N = Len(A) /\ Q \in Seq(Visit) /\ Len(Q) \in Nat
      BY <1>1, <1>2, <1>12
    <3>2. /\ Len(A \o Q) = N + Len(Q)
          /\ \A k \in 1 .. N + Len(Q) : (A \o Q)[k] = IF k <= N THEN A[k] ELSE Q[k - N]
      BY <3>1, ConcatOf
    <3> QED
      BY <1>1, <2>1, <3>1, <3>2
  <2>3. \A k \in N + 1 .. Len(P) : P[k] \in Visit
    <3> SUFFICES ASSUME NEW k \in N + 1 .. Len(P)
                 PROVE  P[k] \in Visit
      OBVIOUS
    <3>1. k \in 1 .. Len(P)
      BY <1>1, <2>2
    <3> QED
      BY <1>11, <3>1, ElementOfSeq
  <2>4. /\ T \in Seq(Visit)
        /\ Len(T) = IF N + 1 <= Len(P) THEN Len(P) - (N + 1) + 1 ELSE 0
        /\ \A k \in 1 .. Len(P) - (N + 1) + 1 : T[k] = P[N + 1 + k - 1]
    <3>1. N + 1 \in Int /\ Len(P) \in Int
      BY <1>1, <2>2
    <3> QED
      BY <2>3, <3>1, SubSeqProperties
  <2> HIDE DEF T
  <2>5. Len(T) = Len(Q)
    BY <1>1, <2>2, <2>4
  <2>6. \A k \in 1 .. Len(Q) : T[k] = Q[k]
    <3> SUFFICES ASSUME NEW k \in 1 .. Len(Q)
                 PROVE  T[k] = Q[k]
      OBVIOUS
    <3>1. /\ k \in 1 .. Len(P) - (N + 1) + 1 /\ N + 1 + k - 1 = N + k
          /\ N + k \in 1 .. N + Len(Q) /\ ~(N + k <= N) /\ (N + k) - N = k
      BY <1>1, <2>2
    <3> QED
      BY <2>2, <2>4, <3>1
  <2>7. T = Q
    BY <1>12, <2>4, <2>5, <2>6, SeqEqual
  <2> QED
    BY <2>7 DEF T
<1> HIDE DEF P, Q
<1>14. ASSUME NEW k \in 1 .. N
       PROVE  P[k] = A[k] /\ P[N + k] = B[k]
  <2>1. k \in 1 .. N + N + (a + b + b) /\ k \in 1 .. N + N /\ k <= N + N /\ k <= N
    BY <1>1
  <2>2. /\ N + k \in 1 .. N + N + (a + b + b) /\ N + k \in 1 .. N + N /\ N + k <= N + N
        /\ ~(N + k <= N) /\ (N + k) - N = k
    BY <1>1
  <2> QED
    BY <1>8, <1>11, <2>1, <2>2
<1>15. ASSUME NEW k \in 1 .. a
       PROVE  P[2 * N + k] = C[k]
  <2>1. /\ 2 * N + k \in 1 .. N + N + (a + b + b) /\ ~(2 * N + k <= N + N)
        /\ (2 * N + k) - (N + N) = k /\ k \in 1 .. a + b + b /\ k <= a + b
        /\ k \in 1 .. a + b /\ k <= a
    BY <1>1
  <2> QED
    BY <1>9, <1>10, <1>11, <2>1
<1>16. ASSUME NEW k \in 1 .. b
       PROVE  P[2 * N + a + k] = D[k] /\ P[2 * N + a + b + k] = E[k]
  <2>1. /\ 2 * N + a + k \in 1 .. N + N + (a + b + b) /\ ~(2 * N + a + k <= N + N)
        /\ (2 * N + a + k) - (N + N) = a + k /\ a + k \in 1 .. a + b + b
        /\ a + k <= a + b /\ a + k \in 1 .. a + b /\ ~(a + k <= a) /\ (a + k) - a = k
    BY <1>1
  <2>2. /\ 2 * N + a + b + k \in 1 .. N + N + (a + b + b)
        /\ ~(2 * N + a + b + k <= N + N)
        /\ (2 * N + a + b + k) - (N + N) = a + b + k /\ a + b + k \in 1 .. a + b + b
        /\ ~(a + b + k <= a + b) /\ (a + b + k) - (a + b) = k
    BY <1>1
  <2> QED
    BY <1>9, <1>10, <1>11, <2>1, <2>2
<1>17. Len(P) = 2 * N + a + 2 * b /\ Len(Q) = N + a + 2 * b
  BY <1>1, <1>11, <1>12
<1>18. /\ \A k \in 1 .. N : /\ P[k].op = "reset" /\ P[k].node = net.order[k]
                            /\ P[N + k].op = "manage_thread"
                            /\ P[N + k].node = net.order[k]
       /\ \A k \in 1 .. a : /\ P[2 * N + k].op = "join_critical"
                            /\ P[2 * N + k].node = Critical[k]
  BY <1>2, <1>3, <1>4, <1>14, <1>15
<1>19. \A k \in 1 .. b : /\ P[2 * N + a + k].op = "interrupt_non_critical"
                        /\ P[2 * N + a + k].node = NonCritical[k]
                        /\ P[2 * N + a + b + k].op = "join_non_critical"
                        /\ P[2 * N + a + b + k].node = NonCritical[k]
  BY <1>5, <1>6, <1>16
<1> QED
  BY <1>7, <1>11, <1>12, <1>13, <1>17, <1>18, <1>19 DEF a, b

-----------------------------------------------------------------------------
(* Type correctness.                                                       *)

(* The cancelling thread starts and resets nothing. *)
LEMMA CancelShape ==
  ASSUME net \in Networks
  PROVE  /\ cancel \in Seq(Visit)
         /\ \A k \in DOMAIN cancel : cancel[k].op \notin {"manage_thread", "reset"}
<1> DEFINE Mild == {z \in Visit : z.op \notin {"manage_thread", "reset"}}
<1>1. net.order \in Seq(Nodes)
  BY NetworkTypes
<1>2. ASSUME NEW op \in Operations \ {"manage_thread", "reset"}
      PROVE  Visits(op, net.order) \in Seq(Mild)
  <2> DEFINE s == Visits(op, net.order)
  <2>1. /\ s \in Seq(Visit) /\ Len(s) = Len(net.order)
        /\ \A k \in 1 .. Len(net.order) : s[k].op = op
    BY <1>1, VisitsTypes
  <2> HIDE DEF s
  <2>2. /\ DOMAIN s = 1 .. Len(s) /\ Len(s) \in Nat
        /\ \A k \in 1 .. Len(s) : s[k] \in Mild
    BY <2>1
  <2> HIDE DEF Mild
  <2>3. s \in [1 .. Len(s) -> Mild]
    BY <2>1, <2>2
  <2> QED
    BY <2>2, <2>3 DEF s
<1> HIDE DEF Mild
<1>3. cancel \in Seq(Mild)
  BY <1>2 DEF cancel, Operations
<1>4. /\ cancel \in Seq(Visit)
      /\ \A k \in DOMAIN cancel : cancel[k] \in Mild
  BY <1>3, SeqMonotonic DEF Mild
<1> QED
  BY <1>4 DEF Mild

(* A new node is well formed. *)
LEMMA NewNodeTypes ==
  ASSUME net \in Networks, NEW n \in Nodes
  PROVE  NewNode(net) \in Thread /\ ThreadOK(NewNode(net), n)
<1> DEFINE z == NewNode(net)
<1>1. net.frames \in 0 .. net.frames /\ net.holds[n] \in Nat
  <2>1. net.frames \in Nat /\ net.holds[n] \in Nat
    BY NetworkTypes
  <2> QED
    BY <2>1
<1>2. NewRun(1) \in Origin
  BY DEF NewRun, Origin
<1>3. z \in Thread
  <2>1. << >> \in Seq(DOMAIN net.edges) /\ << >> \in Seq(Origin)
    BY EmptySeq
  <2> QED
    BY <1>1, <1>2, <2>1 DEF NewNode, Thread, ThreadState, StepStatus
<1>4. /\ z.pc = "none" /\ z.todo = << >> /\ z.held = << >> /\ z.since = 0
      /\ ~z.pushing /\ ~z.waiting /\ z.fresh = {}
  BY DEF NewNode
<1> HIDE DEF z
<1>5. DOMAIN z.todo = {}
  BY <1>4
<1>6. HeldOK(z, n)
  BY <1>1, <1>4 DEF HeldOK
<1>7. ThreadOK(z, n)
  BY <1>4, <1>5, <1>6 DEF ThreadOK
<1> QED
  BY <1>3, <1>7 DEF z

(* The types hold at the start. *)
LEMMA TypesInit == Init => Types
<1> SUFFICES ASSUME Init
             PROVE  Types
  OBVIOUS
<1>1. net \in Networks
  BY DEF Init
<1>2. EdgesOK(edge)
  <2>1. Paired(EmptyEdge, Origin)
    BY EmptyEdgePaired
  <2>2. edge = [i \in DOMAIN net.edges |-> EmptyEdge]
    BY DEF Init
  <2> HIDE DEF EmptyEdge
  <2> QED
    BY <2>1, <2>2 DEF EdgesOK, Paired
<1>3. /\ node \in [Nodes -> Thread]
      /\ \A n \in Nodes : ThreadOK(node[n], n)
  <2>1. node = [n \in Nodes |-> NewNode(net)]
    BY DEF Init
  <2> QED
    BY <1>1, <2>1, NewNodeTypes
<1>4. call \in [Callers -> Seq(Visit)]
  <2>1. run_async \o wait \in Seq(Visit) /\ << >> \in Seq(Visit)
    BY <1>1, ProgramShape, EmptySeq
  <2> QED
    BY <2>1 DEF Init
<1>5. run \in 1 .. net.runs /\ cancelled \in BOOLEAN
  <2>1. net.runs \in Nat \ {0}
    BY <1>1, NetworkTypes
  <2>2. 1 \in 1 .. net.runs
    BY <2>1
  <2> QED
    BY <2>2 DEF Init
<1> QED
  BY <1>1, <1>2, <1>3, <1>4, <1>5 DEF Types

(* What depends on the network alone does not change. *)
LEMMA SameNetwork ==
  ASSUME net' = net
  PROVE  /\ Nodes' = Nodes /\ Thread' = Thread /\ Visit' = Visit
         /\ \A x, n : ThreadOK(x, n)' <=> ThreadOK(x, n)
         /\ \A e : EdgesOK(e)' <=> EdgesOK(e)
BY DEF Nodes, Thread, Visit, ThreadOK, HeldOK, EdgesOK

(* Every step preserves the types. *)
LEMMA TypesStep == Types /\ [Next]_vars => Types'
<1> SUFFICES ASSUME Types, [Next]_vars
             PROVE  Types'
  OBVIOUS
<1>1. ASSUME NEW n \in Nodes, NodeStep(n)
      PROVE  Types'
  <2>1. PICK y \in Thread : /\ ThreadOK(y, n) /\ node' = [node EXCEPT ![n] = y]
                            /\ EdgesOK(edge')
                            /\ UNCHANGED << net, call, run, cancelled >>
    BY <1>1, NodeStepCases
  <2> QED
    BY <2>1, TypesKept
<1>2. ASSUME NEW c \in Callers, CallerStep(c)
      PROVE  Types'
  <2>1. /\ Visited(c) \in Nodes
        /\ \E y \in Thread : /\ ThreadOK(y, Visited(c))
                             /\ node' = [node EXCEPT ![Visited(c)] = y]
        /\ EdgesOK(edge') /\ call' \in [Callers -> Seq(Visit)]
        /\ UNCHANGED << net, run, cancelled >>
    BY <1>2, CallerStepCases
  <2>2. PICK y \in Thread : /\ ThreadOK(y, Visited(c))
                            /\ node' = [node EXCEPT ![Visited(c)] = y]
    BY <2>1
  <2>3. node' \in [Nodes -> Thread] /\ \A n \in Nodes : ThreadOK(node'[n], n)
    BY <2>1, <2>2 DEF Types
  <2> QED
    BY <2>1, <2>3, SameNetwork DEF Types
<1>3. CASE RunAgain
  <2>1. /\ net \in Networks /\ run \in 1 .. net.runs /\ net.runs \in Nat
        /\ call \in [Callers -> Seq(Visit)]
    BY NetworkTypes DEF Types
  <2>2. reset \o run_async \o wait \in Seq(Visit)
    BY <2>1, ProgramShape DEF Program
  <2>3. /\ call' = [call EXCEPT !["application"] = reset \o run_async \o wait]
        /\ run' = run + 1 /\ run < net.runs
        /\ UNCHANGED << net, edge, node, cancelled >>
    BY <1>3 DEF RunAgain
  <2>4. call' \in [Callers -> Seq(Visit)]
    <3> DEFINE s == reset \o run_async \o wait
    <3> HIDE DEF s
    <3>1. s \in Seq(Visit) /\ call' = [call EXCEPT !["application"] = s]
      BY <2>2, <2>3 DEF s
    <3> QED
      BY <2>1, <3>1
  <2>5. run' \in 1 .. net.runs
    BY <2>1, <2>3
  <2> QED
    BY <2>3, <2>4, <2>5, SameNetwork DEF Types
<1>4. CASE Cancel
  <2>1. net \in Networks /\ call \in [Callers -> Seq(Visit)]
    BY DEF Types
  <2>2. cancel \in Seq(Visit)
    BY <2>1, CancelShape
  <2>3. /\ call' = [call EXCEPT !["canceller"] = cancel] /\ cancelled' = TRUE
        /\ UNCHANGED << net, edge, node, run >>
    BY <1>4 DEF Cancel
  <2>4. call' \in [Callers -> Seq(Visit)]
    BY <2>1, <2>2, <2>3
  <2> QED
    BY <2>3, <2>4, SameNetwork DEF Types
<1>5. CASE UNCHANGED vars
  BY <1>5, SameNetwork DEF vars, Types
<1> QED
  BY <1>1, <1>2, <1>3, <1>4, <1>5 DEF Next

(* The types are stronger than the type invariant of the runs. *)
LEMMA TypesHold == Types => TypeOK
<1> SUFFICES ASSUME Types
             PROVE  TypeOK
  OBVIOUS
<1>1. net \in Networks /\ run \in 1 .. net.runs /\ cancelled \in BOOLEAN
  BY DEF Types
<1>2. ASSUME NEW i \in DOMAIN net.edges
      PROVE  /\ edge[i].status \in Seq(EdgeStatus)
             /\ edge[i].data \in Seq(Origin)
             /\ edge[i].no_more_input \in BOOLEAN /\ edge[i].last_size \in Nat
  <2>1. edge[i] \in EdgeOf(Origin)
    BY DEF Types, EdgesOK
  <2> QED
    BY <2>1 DEF EdgeOf
<1>3. ASSUME NEW n \in Nodes
      PROVE  /\ node[n].pc \in ThreadState
             /\ node[n].todo \in Seq(DOMAIN net.edges)
             /\ InEdgeCall(n) <=> node[n].todo # << >>
             /\ node[n].last_execute_state \in StepStatus
             /\ node[n].found \subseteq {"SKIP", "FAILURE"}
             /\ node[n].fresh \subseteq Origin
             /\ node[n].sent \in Origin
             /\ node[n].left \in 0 .. net.frames
             /\ node[n].held \in Seq(Origin)
             /\ node[n].since \in 0 .. net.holds[n] + 1
             /\ node[n].pushing \in BOOLEAN
             /\ node[n].pushing => node[n].pc = "out" /\ node[n].held # << >>
             /\ node[n].waiting \in BOOLEAN /\ (node[n].waiting => InEdgeCall(n))
             /\ node[n].interrupted \in BOOLEAN /\ node[n].is_critical \in BOOLEAN
             /\ node[n].thread_mut \in Callers \cup {"free"}
  <2> DEFINE x == node[n]
  <2>1. x \in Thread /\ ThreadOK(x, n) /\ net.holds[n] \in Nat
    BY <1>1, NetworkTypes DEF Types
  <2>2. InEdgeCall(n) <=> x.pc \in {"in", "resync", "out"}
    BY DEF InEdgeCall
  <2> HIDE DEF x
  <2>3. x.since \in 0 .. net.holds[n] + 1
    BY <2>1 DEF Thread, ThreadOK, HeldOK
  <2>4. /\ x.pc \in ThreadState /\ x.todo \in Seq(DOMAIN net.edges)
        /\ x.last_execute_state \in StepStatus
        /\ x.found \subseteq {"SKIP", "FAILURE"} /\ x.fresh \subseteq Origin
        /\ x.sent \in Origin /\ x.left \in 0 .. net.frames /\ x.held \in Seq(Origin)
        /\ x.pushing \in BOOLEAN /\ x.waiting \in BOOLEAN
        /\ x.interrupted \in BOOLEAN /\ x.is_critical \in BOOLEAN
        /\ x.thread_mut \in Callers \cup {"free"}
    BY <2>1 DEF Thread
  <2>5. /\ x.pc \in {"in", "resync", "out"} <=> x.todo # << >>
        /\ x.pushing => x.pc = "out" /\ x.held # << >>
        /\ x.waiting => x.pc \in {"in", "resync", "out"}
    BY <2>1 DEF ThreadOK
  <2> QED
    BY <2>2, <2>3, <2>4, <2>5 DEF x
<1> QED
  BY <1>1, <1>2, <1>3 DEF TypeOK

(* Every variable has its type: the threads visit only edges of their own, *)
(* wait only inside a call on an edge, and push only what they hold        *)
(* (async_pipeline_node::run, push_output).                                *)
THEOREM TypeCorrect == Spec => []TypeOK
<1>1. Spec => []Types
  BY TypesInit, TypesStep, PTL DEF Spec
<1> QED
  BY <1>1, TypesHold, PTL

-----------------------------------------------------------------------------
(* Where the application's thread is.                                      *)

(* How many visits of the program are done. *)
At == Len(Program) - Len(call["application"])

NotReset(n) == \E p \in 1 .. N : net.order[p] = n /\ At < p

NotStarted(n) == \E p \in 1 .. N : net.order[p] = n /\ At < N + p

(* The output nodes have been joined; the node has. *)
OutputsJoined == At >= 2 * N + Len(Critical)

Joined(n) ==
  \/ \E k \in 1 .. Len(Critical) : Critical[k] = n /\ At >= 2 * N + k
  \/ \E k \in 1 .. Len(NonCritical) :
       NonCritical[k] = n /\ At >= 2 * N + Len(Critical) + Len(NonCritical) + k

(* The application's call is what is left of the program; the canceller    *)
(* starts and resets nothing. *)
CallsAreKnown ==
  /\ At \in 0 .. Len(Program)
  /\ call["application"] = SubSeq(Program, At + 1, Len(Program))
  /\ run = 1 => At >= N
  /\ ~cancelled => call["canceller"] = << >>
  /\ cancelled => net.cancels # "never"
  /\ \A k \in DOMAIN call["canceller"] :
       call["canceller"][k].op \notin {"manage_thread", "reset"}

(* Nodes are started in order, each once in a run; those that were joined  *)
(* have ended; nobody interrupts a thread that is not there.               *)
ThreadKnown(n) ==
  LET x == node[n]
  IN  /\ NotStarted(n) => x.pc = IF run = 1 THEN "none" ELSE "ended"
      /\ NotStarted(n) /\ run = 1 => x.held = << >> /\ ~x.interrupted
      /\ NotStarted(n) /\ ~NotReset(n) =>
           /\ x.last_execute_state = "SUCCESS"
           /\ x.sent = NewRun(run) /\ x.left = net.frames
      /\ ~NotStarted(n) => x.pc # "none" /\ x.is_critical = (n \in net.output)
      /\ x.sent.run = IF NotReset(n) THEN run - 1 ELSE run
      /\ Joined(n) => x.pc = "ended"
      /\ ~cancelled /\ x.interrupted /\ ~NotStarted(n)
           => n \notin net.output /\ OutputsJoined

Known == Types /\ CallsAreKnown /\ \A n \in Nodes : ThreadKnown(n)

(* The next visit of the application, and which it is. *)
LEMMA NextVisit ==
  ASSUME Types, CallsAreKnown
  PROVE  LET a == Len(Critical)
             b == Len(NonCritical)
             v == Visited("application")
             o == Head(call["application"]).op
         IN  /\ At \in Nat /\ Len(Program) \in Nat /\ N \in Nat /\ a \in Nat /\ b \in Nat
             /\ Len(Program) = 2 * N + a + 2 * b
             /\ call["application"] = << >> <=> At = Len(Program)
             /\ call["application"] # << >> =>
                  /\ At + 1 \in 1 .. Len(Program)
                  /\ Tail(call["application"]) = SubSeq(Program, At + 2, Len(Program))
                  /\ Len(Tail(call["application"])) = Len(Program) - (At + 1)
                  /\ \/ At + 1 \in 1 .. N /\ o = "reset" /\ v = net.order[At + 1]
                     \/ /\ At + 1 - N \in 1 .. N /\ o = "manage_thread"
                        /\ v = net.order[At + 1 - N]
                     \/ /\ At + 1 - 2 * N \in 1 .. a /\ o = "join_critical"
                        /\ v = Critical[At + 1 - 2 * N]
                     \/ /\ At + 1 - 2 * N - a \in 1 .. b /\ o = "interrupt_non_critical"
                        /\ v = NonCritical[At + 1 - 2 * N - a]
                     \/ /\ At + 1 - 2 * N - a - b \in 1 .. b /\ o = "join_non_critical"
                        /\ v = NonCritical[At + 1 - 2 * N - a - b]
<1> DEFINE a == Len(Critical)
           b == Len(NonCritical)
           L == Len(Program)
           k == At + 1
           s == call["application"]
           v == Visited("application")
           o == Head(s).op
<1>1. net \in Networks
  BY DEF Types
<1>2. N \in Nat /\ a \in Nat /\ b \in Nat
  BY <1>1, OutputLoops
<1>3. /\ Program \in Seq(Visit) /\ L = 2 * N + a + 2 * b
      /\ \A j \in 1 .. N :
           /\ Program[j].op = "reset" /\ Program[j].node = net.order[j]
           /\ Program[N + j].op = "manage_thread"
           /\ Program[N + j].node = net.order[j]
  BY <1>1, ProgramShape
<1>4. /\ \A j \in 1 .. a : /\ Program[2 * N + j].op = "join_critical"
                           /\ Program[2 * N + j].node = Critical[j]
      /\ \A j \in 1 .. b :
           /\ Program[2 * N + a + j].op = "interrupt_non_critical"
           /\ Program[2 * N + a + j].node = NonCritical[j]
           /\ Program[2 * N + a + b + j].op = "join_non_critical"
           /\ Program[2 * N + a + b + j].node = NonCritical[j]
  BY <1>1, ProgramShape
<1>5. L \in Nat /\ At \in 0 .. L /\ At \in Nat /\ s = SubSeq(Program, k, L)
  BY <1>2, <1>3 DEF CallsAreKnown
<1>6. s \in Seq(Visit) /\ Len(s) = L - At /\ Len(s) \in Nat
  <2>1. s \in Seq(Visit)
    BY DEF Types, Callers
  <2>2. At = L - Len(s) /\ Len(s) \in Nat
    BY <2>1 DEF At
  <2> HIDE DEF s, L
  <2> QED
    BY <1>5, <2>1, <2>2
<1> HIDE DEF a, b, L, s
<1>7. s = << >> <=> At = L
  <2>1. s = << >> <=> Len(s) = 0
    BY <1>6, EmptySeq
  <2> QED
    BY <1>5, <1>6, <2>1
<1>8. ASSUME s # << >>
      PROVE  /\ k \in 1 .. L
             /\ Tail(s) = SubSeq(Program, k + 1, L) /\ Head(s) = Program[k]
             /\ Len(Tail(s)) = L - k
  <2>1. k \in 1 .. L /\ L \in k .. L
    BY <1>5, <1>6, <1>7, <1>8
  <2>2. /\ Head(SubSeq(Program, k, L)) = Program[k]
        /\ Tail(SubSeq(Program, k, L)) = SubSeq(Program, k + 1, L)
    BY <1>3, <2>1, HeadTailOfSubSeq DEF L
  <2>3. Len(Tail(s)) = Len(s) - 1
    BY <1>6, <1>8, HeadTailProperties
  <2> QED
    BY <1>5, <1>6, <2>1, <2>2, <2>3
<1>9. ASSUME s # << >>
      PROVE  \/ k \in 1 .. N /\ o = "reset" /\ v = net.order[k]
             \/ k - N \in 1 .. N /\ o = "manage_thread" /\ v = net.order[k - N]
             \/ k - 2 * N \in 1 .. a /\ o = "join_critical" /\ v = Critical[k - 2 * N]
             \/ /\ k - 2 * N - a \in 1 .. b /\ o = "interrupt_non_critical"
                /\ v = NonCritical[k - 2 * N - a]
             \/ /\ k - 2 * N - a - b \in 1 .. b /\ o = "join_non_critical"
                /\ v = NonCritical[k - 2 * N - a - b]
  <2>1. k \in 1 .. L /\ o = Program[k].op /\ v = Program[k].node
    BY <1>8, <1>9 DEF Visited, s
  <2> HIDE DEF o, v, k
  <2>2. CASE k \in 1 .. N
    BY <1>3, <2>1, <2>2
  <2>3. CASE k - N \in 1 .. N
    <3>1. k = N + (k - N)
      BY <1>2, <2>1
    <3> QED
      BY <1>3, <2>1, <2>3, <3>1
  <2>4. CASE k - 2 * N \in 1 .. a
    <3>1. k = 2 * N + (k - 2 * N)
      BY <1>2, <2>1
    <3> QED
      BY <1>4, <2>1, <2>4, <3>1
  <2>5. CASE k - 2 * N - a \in 1 .. b
    <3>1. k = 2 * N + a + (k - 2 * N - a)
      BY <1>2, <2>1
    <3> QED
      BY <1>4, <2>1, <2>5, <3>1
  <2>6. CASE k - 2 * N - a - b \in 1 .. b
    <3>1. k = 2 * N + a + b + (k - 2 * N - a - b)
      BY <1>2, <2>1
    <3> QED
      BY <1>4, <2>1, <2>6, <3>1
  <2> QED
    BY <1>2, <1>3, <2>1, <2>2, <2>3, <2>4, <2>5, <2>6 DEF L
<1>10. /\ At \in Nat /\ L \in Nat /\ N \in Nat /\ a \in Nat /\ b \in Nat
       /\ L = 2 * N + a + 2 * b
       /\ s = << >> <=> At = L
  BY <1>2, <1>3, <1>5, <1>7 DEF L
<1>11. k + 1 = At + 2
  BY <1>5
<1>12. s # << >> =>
         /\ k \in 1 .. L
         /\ Tail(s) = SubSeq(Program, At + 2, L)
         /\ Len(Tail(s)) = L - k
  BY <1>8, <1>11
<1> HIDE DEF k, o, v
<1>13. s # << >> =>
         \/ k \in 1 .. N /\ o = "reset" /\ v = net.order[k]
         \/ k - N \in 1 .. N /\ o = "manage_thread" /\ v = net.order[k - N]
         \/ k - 2 * N \in 1 .. a /\ o = "join_critical" /\ v = Critical[k - 2 * N]
         \/ /\ k - 2 * N - a \in 1 .. b /\ o = "interrupt_non_critical"
            /\ v = NonCritical[k - 2 * N - a]
         \/ /\ k - 2 * N - a - b \in 1 .. b /\ o = "join_non_critical"
            /\ v = NonCritical[k - 2 * N - a - b]
  BY <1>9
<1> QED
  BY <1>10, <1>12, <1>13 DEF a, b, L, s, k, o, v

(* The program depends on the network alone. *)
LEMMA SameProgram ==
  ASSUME net' = net
  PROVE  /\ Program' = Program /\ N' = N /\ Critical' = Critical
         /\ NonCritical' = NonCritical
         /\ call'["application"] = call["application"] => At' = At
BY DEF Program, N, Critical, NonCritical, reset, run_async, wait, At

(* When c is done with a visit. *)
LEMMA AfterVisit ==
  ASSUME Types, CallsAreKnown, NEW c \in Callers, call[c] # << >>, VisitEnds(c),
         net' = net
  PROVE  /\ At' = IF c = "application" THEN At + 1 ELSE At
         /\ call'[c] = Tail(call[c])
         /\ \A d \in Callers \ {c} : call'[d] = call[d]
<1>1. call \in [Callers -> Seq(Visit)]
  BY DEF Types
<1>2. /\ call'[c] = Tail(call[c])
      /\ \A d \in Callers \ {c} : call'[d] = call[d]
  BY <1>1 DEF VisitEnds
<1>3. CASE c = "application"
  <2>1. /\ Len(Tail(call["application"])) = Len(Program) - (At + 1)
        /\ At \in Nat /\ Len(Program) \in Nat
    BY <1>3, NextVisit
  <2>2. At' = Len(Program) - Len(call'["application"])
    BY SameProgram DEF At
  <2>3. call'["application"] = Tail(call["application"])
    BY <1>2, <1>3
  <2> DEFINE m == Len(call'["application"])
             L == Len(Program)
  <2>4. m = L - (At + 1) /\ At' = L - m /\ At \in Nat /\ L \in Nat
    BY <2>1, <2>2, <2>3
  <2> HIDE DEF m, L
  <2>5. At' = At + 1
    BY <2>4
  <2> QED
    BY <1>2, <1>3, <2>5
<1>4. CASE c # "application"
  <2>1. "application" \in Callers \ {c}
    BY <1>4 DEF Callers
  <2> QED
    BY <1>2, <1>4, <2>1, SameProgram
<1> QED
  BY <1>2, <1>3, <1>4

(* The calls are known at the start. *)
LEMMA CallsInit == Init => CallsAreKnown
<1> SUFFICES ASSUME Init
             PROVE  CallsAreKnown
  OBVIOUS
<1>1. net \in Networks
  BY DEF Init
<1>2. /\ call["application"] = run_async \o wait /\ call["canceller"] = << >>
      /\ run = 1 /\ cancelled = FALSE
  BY DEF Init, Callers
<1>3. /\ Len(Program) = 2 * N + Len(Critical) + 2 * Len(NonCritical)
      /\ Len(run_async \o wait) = N + Len(Critical) + 2 * Len(NonCritical)
      /\ run_async \o wait = SubSeq(Program, N + 1, Len(Program))
  BY <1>1, ProgramShape
<1>4. N \in Nat /\ Len(Critical) \in Nat /\ Len(NonCritical) \in Nat
  BY <1>1, OutputLoops
<1>5. At = Len(Program) - Len(run_async \o wait)
  BY <1>2 DEF At
<1>6. At = N /\ N \in 0 .. Len(Program)
  BY <1>3, <1>4, <1>5
<1>7. DOMAIN << >> = {}
  OBVIOUS
<1> QED
  BY <1>2, <1>3, <1>6, <1>7 DEF CallsAreKnown

(* Every step leaves the calls known. *)
LEMMA CallsStep == Types /\ CallsAreKnown /\ [Next]_vars => CallsAreKnown'
<1> SUFFICES ASSUME Types, CallsAreKnown, [Next]_vars
             PROVE  CallsAreKnown'
  OBVIOUS
<1>1. ASSUME UNCHANGED << net, call, run, cancelled >>
      PROVE  CallsAreKnown'
  BY <1>1, SameProgram DEF CallsAreKnown
<1>2. ASSUME NEW n \in Nodes, NodeStep(n)
      PROVE  CallsAreKnown'
  BY <1>1, <1>2, NodeStepCases
<1>3. ASSUME NEW c \in Callers, CallerStep(c)
      PROVE  CallsAreKnown'
  <2>1. /\ call[c] # << >> /\ (VisitEnds(c) \/ UNCHANGED call)
        /\ UNCHANGED << net, run, cancelled >>
    BY <1>3, CallerStepCases
  <2>2. CASE UNCHANGED call
    BY <1>1, <2>1, <2>2
  <2>3. CASE VisitEnds(c)
    <3>1. /\ At' = IF c = "application" THEN At + 1 ELSE At
          /\ call'[c] = Tail(call[c])
          /\ \A d \in Callers \ {c} : call'[d] = call[d]
      BY <2>1, <2>3, AfterVisit
    <3>2. Program' = Program /\ N' = N
      BY <2>1, SameProgram
    <3>3. CASE c = "application"
      <4>1. /\ At \in Nat /\ Len(Program) \in Nat /\ At + 1 \in 1 .. Len(Program) /\ N \in Nat
            /\ Tail(call["application"]) = SubSeq(Program, At + 2, Len(Program))
        BY <2>1, <3>3, NextVisit
      <4>2. At' = At + 1 /\ At' \in 0 .. Len(Program) /\ At' + 1 = At + 2
        BY <3>1, <3>3, <4>1
      <4>3. call'["canceller"] = call["canceller"]
        BY <3>1, <3>3 DEF Callers
      <4>4. call'["application"] = SubSeq(Program, At' + 1, Len(Program))
        BY <3>1, <3>3, <4>1, <4>2
      <4>5. run' = 1 => At' >= N
        BY <2>1, <4>1, <4>2 DEF CallsAreKnown
      <4> QED
        BY <2>1, <3>2, <4>2, <4>3, <4>4, <4>5 DEF CallsAreKnown
    <3>4. CASE c = "canceller"
      <4> DEFINE s == call["canceller"]
      <4>1. At' = At /\ call'["application"] = call["application"] /\ call'["canceller"] = Tail(s)
        BY <3>1, <3>4 DEF Callers
      <4>2. s \in Seq(Visit) /\ s # << >>
        BY <2>1, <3>4 DEF Types
      <4>3. cancelled
        BY <2>1, <3>4 DEF CallsAreKnown
      <4>4. \A k \in DOMAIN Tail(s) : Tail(s)[k].op \notin {"manage_thread", "reset"}
        <5>1. \A k \in DOMAIN s : s[k].op \notin {"manage_thread", "reset"}
          BY DEF CallsAreKnown
        <5> HIDE DEF s
        <5>2. /\ DOMAIN Tail(s) = 1 .. Len(s) - 1 /\ DOMAIN s = 1 .. Len(s) /\ Len(s) \in Nat
              /\ \A k \in 1 .. Len(s) - 1 : Tail(s)[k] = s[k + 1]
          BY <4>2, HeadTailProperties
        <5>3. \A k \in 1 .. Len(s) - 1 : k + 1 \in 1 .. Len(s)
          BY <5>2
        <5> QED
          BY <5>1, <5>2, <5>3
      <4> QED
        BY <2>1, <3>2, <4>1, <4>3, <4>4 DEF CallsAreKnown
    <3> QED
      BY <3>3, <3>4 DEF Callers
  <2> QED
    BY <2>1, <2>2, <2>3
<1>4. CASE RunAgain
  <2>1. /\ net \in Networks /\ call \in [Callers -> Seq(Visit)] /\ run \in Nat /\ run >= 1
    BY NetworkTypes DEF Types
  <2>2. /\ call'["application"] = Program /\ call'["canceller"] = << >>
        /\ run' = run + 1 /\ net' = net /\ cancelled' = cancelled
    BY <1>4, <2>1 DEF RunAgain, Program, Callers
  <2>3. Program \in Seq(Visit) /\ Len(Program) \in Nat
    BY <2>1, ProgramShape
  <2>4. Program' = Program /\ N' = N
    BY <2>2, SameProgram
  <2>5. At' = 0
    <3>1. At' = Len(Program) - Len(Program)
      BY <2>2, <2>4 DEF At
    <3> QED
      BY <2>3, <3>1
  <2>6. SubSeq(Program, 1, Len(Program)) = Program
    BY <2>3, SubSeqFull
  <2>7. run' # 1 /\ 0 \in 0 .. Len(Program) /\ 0 + 1 = 1
    BY <2>1, <2>2, <2>3
  <2>8. DOMAIN << >> = {}
    OBVIOUS
  <2> QED
    BY <2>2, <2>4, <2>5, <2>6, <2>7, <2>8 DEF CallsAreKnown
<1>5. CASE Cancel
  <2>1. net \in Networks /\ call \in [Callers -> Seq(Visit)]
    BY DEF Types
  <2>2. /\ call'["application"] = call["application"] /\ call'["canceller"] = cancel
        /\ cancelled' = TRUE /\ UNCHANGED << net, run >>
        /\ net.cancels # "never"
    BY <1>5, <2>1 DEF Cancel, Callers
  <2>3. \A k \in DOMAIN cancel : cancel[k].op \notin {"manage_thread", "reset"}
    BY <2>1, CancelShape
  <2> QED
    BY <2>2, <2>3, SameProgram DEF CallsAreKnown
<1>6. CASE UNCHANGED vars
  BY <1>1, <1>6 DEF vars
<1> QED
  BY <1>2, <1>3, <1>4, <1>5, <1>6 DEF Next

-----------------------------------------------------------------------------
(* The visits of the application, in order.                                *)

(* A step that is not the application's leaves its position. *)
LEMMA SamePosition ==
  ASSUME net' = net, call'["application"] = call["application"]
  PROVE  /\ \A n : NotStarted(n)' = NotStarted(n) /\ NotReset(n)' = NotReset(n)
         /\ \A n : Joined(n)' = Joined(n)
         /\ OutputsJoined' = OutputsJoined
BY SameProgram DEF NotStarted, NotReset, Joined, OutputsJoined

(* When the call is over, every node was started and joined. *)
LEMMA AtEnd ==
  ASSUME Types, CallsAreKnown, call["application"] = << >>, NEW n \in Nodes
  PROVE  ~NotStarted(n) /\ ~NotReset(n) /\ Joined(n)
<1> DEFINE a == Len(Critical)
           b == Len(NonCritical)
<1>1. /\ N \in Nat /\ a \in Nat /\ b \in Nat /\ At = 2 * N + a + 2 * b
  BY NextVisit
<1>2. ~NotStarted(n) /\ ~NotReset(n)
  BY <1>1 DEF NotStarted, NotReset
<1>3. Joined(n)
  <2>1. net \in Networks
    BY DEF Types
  <2>2. CASE n \in net.output
    <3>1. PICK k \in 1 .. a : Critical[k] = n
      BY <2>1, <2>2, OutputLoops
    <3>2. At >= 2 * N + k
      BY <1>1, <3>1
    <3> QED
      BY <3>1, <3>2 DEF Joined
  <2>3. CASE n \notin net.output
    <3>1. PICK k \in 1 .. b : NonCritical[k] = n
      BY <2>1, <2>3, OutputLoops
    <3>2. At >= 2 * N + a + b + k
      BY <1>1, <3>1
    <3> QED
      BY <3>1, <3>2 DEF Joined
  <2> QED
    BY <2>2, <2>3
<1> QED
  BY <1>2, <1>3

(* What the application is about, and what it has done after it. *)
LEMMA Phases ==
  ASSUME Types, CallsAreKnown, call["application"] # << >>,
         VisitEnds("application"), net' = net
  PROVE  LET v == Visited("application")
             o == Head(call["application"]).op
         IN  /\ v \in Nodes /\ At' = At + 1
             /\ OutputsJoined => OutputsJoined'
             /\ \/ /\ o = "reset" /\ NotReset(v)
                   /\ \A n \in Nodes :
                        /\ NotStarted(n) /\ NotStarted(n)' /\ ~Joined(n)'
                        /\ NotReset(n)' <=> NotReset(n) /\ n # v
                \/ /\ o = "manage_thread" /\ NotStarted(v)
                   /\ \A n \in Nodes :
                        /\ ~NotReset(n) /\ ~NotReset(n)' /\ ~Joined(n)'
                        /\ NotStarted(n)' <=> NotStarted(n) /\ n # v
                \/ /\ \A n \in Nodes : /\ ~NotReset(n) /\ ~NotReset(n)'
                                       /\ ~NotStarted(n) /\ ~NotStarted(n)'
                   /\ \/ /\ o = "join_critical" /\ v \in net.output
                         /\ \A n \in Nodes : Joined(n)' => Joined(n) \/ n = v
                      \/ /\ o = "interrupt_non_critical" /\ v \notin net.output
                         /\ OutputsJoined
                         /\ \A n \in Nodes : Joined(n)' => Joined(n)
                      \/ /\ o = "join_non_critical" /\ v \notin net.output
                         /\ OutputsJoined
                         /\ \A n \in Nodes : Joined(n)' => Joined(n) \/ n = v
<1> DEFINE a == Len(Critical)
           b == Len(NonCritical)
           k == At + 1
           v == Visited("application")
           o == Head(call["application"]).op
<1>0. /\ At \in Nat /\ N \in Nat /\ a \in Nat /\ b \in Nat
      /\ Len(Program) = 2 * N + a + 2 * b
      /\ At + 1 \in 1 .. Len(Program)
  BY NextVisit
<1>1. /\ At \in Nat /\ N \in Nat /\ a \in Nat /\ b \in Nat
      /\ \/ k \in 1 .. N /\ o = "reset" /\ v = net.order[k]
         \/ k - N \in 1 .. N /\ o = "manage_thread" /\ v = net.order[k - N]
         \/ k - 2 * N \in 1 .. a /\ o = "join_critical" /\ v = Critical[k - 2 * N]
         \/ /\ k - 2 * N - a \in 1 .. b /\ o = "interrupt_non_critical"
            /\ v = NonCritical[k - 2 * N - a]
         \/ /\ k - 2 * N - a - b \in 1 .. b /\ o = "join_non_critical"
            /\ v = NonCritical[k - 2 * N - a - b]
  <2> HIDE DEF k, o, v
  <2> QED
    BY <1>0, NextVisit DEF k, o, v
<1>2. net \in Networks /\ "application" \in Callers
  BY DEF Types, Callers
<1>3. v \in Nodes
  BY <1>2, CallTypes
<1>4. At' = k /\ N' = N /\ Critical' = Critical /\ NonCritical' = NonCritical
  BY <1>2, AfterVisit, SameProgram
<1>5. /\ \A p \in 1 .. N : net.order[p] \in Nodes
      /\ \A p, q \in 1 .. N : net.order[p] = net.order[q] => p = q
      /\ \A n \in Nodes : \E p \in 1 .. N : net.order[p] = n
  BY <1>2, NetworkTypes DEF N
<1>6. /\ \A n : NotReset(n)' <=> \E p \in 1 .. N : net.order[p] = n /\ k < p
      /\ \A n : NotStarted(n)' <=> \E p \in 1 .. N : net.order[p] = n /\ k < N + p
      /\ OutputsJoined' <=> k >= 2 * N + a
      /\ \A n : Joined(n)' <=>
           \/ \E j \in 1 .. a : Critical[j] = n /\ k >= 2 * N + j
           \/ \E j \in 1 .. b : NonCritical[j] = n /\ k >= 2 * N + a + b + j
  BY <1>4 DEF NotReset, NotStarted, OutputsJoined, Joined
<1>7. /\ \A n : NotReset(n) <=> \E p \in 1 .. N : net.order[p] = n /\ At < p
      /\ \A n : NotStarted(n) <=> \E p \in 1 .. N : net.order[p] = n /\ At < N + p
      /\ OutputsJoined <=> At >= 2 * N + a
      /\ \A n : Joined(n) <=>
           \/ \E j \in 1 .. a : Critical[j] = n /\ At >= 2 * N + j
           \/ \E j \in 1 .. b : NonCritical[j] = n /\ At >= 2 * N + a + b + j
  BY DEF NotReset, NotStarted, OutputsJoined, Joined
<1>8. OutputsJoined => OutputsJoined'
  BY <1>1, <1>6, <1>7
<1>9. At' = At + 1
  BY <1>4
<1> HIDE DEF a, b, v, o
<1>10. CASE k \in 1 .. N /\ o = "reset" /\ v = net.order[k]
  <2>1. \A p \in 1 .. N : /\ At < p <=> k < p \/ p = k
                          /\ At < N + p /\ k < N + p
                          /\ ~(k < k)
    BY <1>1, <1>10
  <2>2. NotReset(v)
    BY <1>7, <1>10, <2>1
  <2>3. ASSUME NEW n \in Nodes
        PROVE  NotReset(n)' <=> NotReset(n) /\ n # v
    BY <1>5, <1>6, <1>7, <1>10, <2>1
  <2>4. ASSUME NEW n \in Nodes
        PROVE  NotStarted(n) /\ NotStarted(n)'
    BY <1>5, <1>6, <1>7, <2>1
  <2>5. \A j \in 1 .. a : ~(k >= 2 * N + j)
    BY <1>1, <1>10
  <2>6. \A j \in 1 .. b : ~(k >= 2 * N + a + b + j)
    BY <1>1, <1>10
  <2>7. ASSUME NEW n \in Nodes
        PROVE  ~Joined(n)'
    BY <1>6, <2>5, <2>6
  <2> QED
    BY <1>3, <1>8, <1>9, <1>10, <2>2, <2>3, <2>4, <2>7 DEF v, o
<1>11. CASE k - N \in 1 .. N /\ o = "manage_thread" /\ v = net.order[k - N]
  <2>1. \A p \in 1 .. N : /\ ~(At < p) /\ ~(k < p)
                          /\ At < N + p <=> k < N + p \/ p = k - N
                          /\ ~(k < N + (k - N))
    BY <1>1, <1>11
  <2>2. NotStarted(v)
    BY <1>7, <1>11, <2>1
  <2>3. ASSUME NEW n \in Nodes
        PROVE  NotStarted(n)' <=> NotStarted(n) /\ n # v
    BY <1>5, <1>6, <1>7, <1>11, <2>1
  <2>4. ASSUME NEW n \in Nodes
        PROVE  ~NotReset(n) /\ ~NotReset(n)'
    BY <1>6, <1>7, <2>1
  <2>5. \A j \in 1 .. a : ~(k >= 2 * N + j)
    BY <1>1, <1>11
  <2>6. \A j \in 1 .. b : ~(k >= 2 * N + a + b + j)
    BY <1>1, <1>11
  <2>7. ASSUME NEW n \in Nodes
        PROVE  ~Joined(n)'
    BY <1>6, <2>5, <2>6
  <2> QED
    BY <1>3, <1>8, <1>9, <1>11, <2>2, <2>3, <2>4, <2>7 DEF v, o
<1>12. ASSUME k > 2 * N
       PROVE  \A n \in Nodes : /\ ~NotReset(n) /\ ~NotReset(n)'
                               /\ ~NotStarted(n) /\ ~NotStarted(n)'
  <2>1. \A p \in 1 .. N : ~(At < p) /\ ~(k < p) /\ ~(At < N + p) /\ ~(k < N + p)
    BY <1>1, <1>12
  <2> QED
    BY <1>6, <1>7, <2>1
<1>13. CASE k - 2 * N \in 1 .. a /\ o = "join_critical" /\ v = Critical[k - 2 * N]
  <2>1. /\ k > 2 * N
        /\ \A j \in 1 .. a : k >= 2 * N + j => At >= 2 * N + j \/ j = k - 2 * N
        /\ \A j \in 1 .. b : ~(k >= 2 * N + a + b + j)
    BY <1>1, <1>13
  <2>2. v \in net.output
    BY <1>2, <1>13, OutputLoops DEF a
  <2>3. \A n \in Nodes : Joined(n)' => Joined(n) \/ n = v
    BY <1>6, <1>7, <1>13, <2>1
  <2> QED
    BY <1>3, <1>8, <1>9, <1>12, <1>13, <2>1, <2>2, <2>3 DEF v, o
<1>14. CASE /\ k - 2 * N - a \in 1 .. b /\ o = "interrupt_non_critical"
            /\ v = NonCritical[k - 2 * N - a]
  <2>1. /\ k > 2 * N /\ At >= 2 * N + a
        /\ \A j \in 1 .. a : At >= 2 * N + j
        /\ \A j \in 1 .. b : ~(k >= 2 * N + a + b + j)
    BY <1>1, <1>14
  <2>2. v \notin net.output
    BY <1>2, <1>14, OutputLoops DEF b
  <2>3. \A n \in Nodes : Joined(n)' => Joined(n)
    BY <1>6, <1>7, <2>1
  <2> QED
    BY <1>3, <1>7, <1>8, <1>9, <1>12, <1>14, <2>1, <2>2, <2>3 DEF v, o
<1>15. CASE /\ k - 2 * N - a - b \in 1 .. b /\ o = "join_non_critical"
            /\ v = NonCritical[k - 2 * N - a - b]
  <2>1. /\ k > 2 * N /\ At >= 2 * N + a
        /\ \A j \in 1 .. a : At >= 2 * N + j
    BY <1>1, <1>15
  <2>4. \A j \in 1 .. b : k >= 2 * N + a + b + j
             => At >= 2 * N + a + b + j \/ j = k - 2 * N - a - b
    BY <1>1
  <2>2. v \notin net.output
    BY <1>2, <1>15, OutputLoops DEF b
  <2>3. \A n \in Nodes : Joined(n)' => Joined(n) \/ n = v
    BY <1>6, <1>7, <1>15, <2>1, <2>4
  <2> QED
    BY <1>3, <1>7, <1>8, <1>9, <1>12, <1>15, <2>1, <2>2, <2>3 DEF v, o
<1> QED
  BY <1>1, <1>10, <1>11, <1>13, <1>14, <1>15

-----------------------------------------------------------------------------
(* What is known of each thread.                                           *)

(* The threads are known at the start. *)
LEMMA KnownInit == Init => \A n \in Nodes : ThreadKnown(n)
<1> SUFFICES ASSUME Init, NEW n \in Nodes
             PROVE  ThreadKnown(n)
  OBVIOUS
<1>1. Types /\ CallsAreKnown /\ net \in Networks
  BY TypesInit, CallsInit DEF Types
<1>2. node[n] = NewNode(net) /\ run = 1 /\ cancelled = FALSE
  BY DEF Init
<1>3. At = N /\ N \in Nat /\ Len(Critical) \in Nat /\ Len(NonCritical) \in Nat
  <2>1. /\ Len(Program) = 2 * N + Len(Critical) + 2 * Len(NonCritical)
        /\ Len(run_async \o wait) = N + Len(Critical) + 2 * Len(NonCritical)
    BY <1>1, ProgramShape
  <2>2. N \in Nat /\ Len(Critical) \in Nat /\ Len(NonCritical) \in Nat
    BY <1>1, OutputLoops
  <2>3. call["application"] = run_async \o wait
    BY DEF Init, Callers
  <2>4. At = Len(Program) - Len(run_async \o wait)
    BY <2>3 DEF At
  <2> QED
    BY <2>1, <2>2, <2>4
<1>4. ~NotReset(n)
  BY <1>3 DEF NotReset
<1>5. ~Joined(n)
  <2>1. /\ \A k \in 1 .. Len(Critical) : ~(N >= 2 * N + k)
        /\ \A k \in 1 .. Len(NonCritical) :
             ~(N >= 2 * N + Len(Critical) + Len(NonCritical) + k)
    BY <1>3
  <2> QED
    BY <1>3, <2>1 DEF Joined
<1>6. NotStarted(n)
  <2>1. PICK p \in 1 .. N : net.order[p] = n
    BY <1>1, NetworkTypes DEF N
  <2>2. At < N + p
    BY <1>3, <2>1
  <2> QED
    BY <2>1, <2>2 DEF NotStarted
<1>7. /\ node[n].pc = "none" /\ node[n].held = << >> /\ node[n].interrupted = FALSE
      /\ node[n].last_execute_state = "SUCCESS" /\ node[n].sent = NewRun(1)
      /\ node[n].left = net.frames /\ NewRun(1).run = 1
  BY <1>2 DEF NewNode, NewRun
<1> QED
  BY <1>2, <1>4, <1>5, <1>6, <1>7 DEF ThreadKnown

(* A thread that nothing happens to. *)
LEMMA ThreadStays ==
  ASSUME NEW n, ThreadKnown(n), net' = net, run' = run, cancelled => cancelled',
         NotStarted(n)' <=> NotStarted(n), NotReset(n)' <=> NotReset(n),
         Joined(n)' => Joined(n), OutputsJoined => OutputsJoined',
         node'[n] = node[n]
  PROVE  ThreadKnown(n)'
BY DEF ThreadKnown

(* Only a thread that is there steps; its step begins and ends no run. *)
LEMMA NodeStepsInRun ==
  ASSUME Types, NEW n \in Nodes, NEW y \in Thread, NodeCases(n, y)
  PROVE  /\ ~NoThread(node[n]) /\ y.pc # "none" /\ SameCalls(node[n], y)
         /\ y.sent.run = node[n].sent.run
<1> DEFINE x == node[n]
<1>1. x \in Thread /\ ThreadOK(x, n) /\ x.sent \in Origin
  BY DEF Types, Thread
<1>2. \A st : NextSent(x.sent, st).run = x.sent.run
  BY <1>1, NextSentFields
<1> HIDE DEF x
<1>3. /\ AtHead(y, n) => y.pc # "none"
      /\ AtOut(y, n) => y.pc # "none"
  BY DEF AtHead, AtOut
<1>4. CASE Waits(n, y)
  BY <1>4 DEF Waits, InEdgeCall, NoThread, SameRest, SameLoop, x
<1>5. CASE Stops(n, y)
  BY <1>1, <1>5 DEF Stops, NoThread, SameRest, ThreadOK, x
<1>6. CASE Takes(n, y)
  BY <1>6 DEF Takes, NoThread, SameRest, x
<1>7. CASE IsFlushed(n, y)
  BY <1>7 DEF IsFlushed, NoThread, x
<1>8. CASE Executes(n, y)
  BY <1>2, <1>3, <1>8 DEF Executes, NoThread, x
<1>9. ASSUME NEW h, HasAnswered(x, h, y, n)
      PROVE  SameCalls(x, y) /\ y.pc # "none" /\ y.sent.run = x.sent.run
  BY <1>2, <1>3, <1>9 DEF HasAnswered
<1>10. ASSUME NEW h, HasBegunToPush(x, h, y, n)
       PROVE  SameCalls(x, y) /\ y.pc # "none" /\ y.sent.run = x.sent.run
  BY <1>3, <1>10 DEF HasBegunToPush
<1>11. CASE HoldsBack(n, y)
  BY <1>9, <1>10, <1>11 DEF HoldsBack, NoThread, x
<1>12. CASE Gives(n, y)
  BY <1>3, <1>9, <1>10, <1>12 DEF Gives, NoThread, SameRest, SameLoop, x
<1> QED
  BY <1>4, <1>5, <1>6, <1>7, <1>8, <1>11, <1>12 DEF NodeCases

(* A node's step leaves its thread known. *)
LEMMA KnownNodeStep ==
  ASSUME Known, NEW n \in Nodes, NodeStep(n)
  PROVE  \A m \in Nodes : ThreadKnown(m)'
<1>1. PICK y \in Thread : /\ NodeCases(n, y) /\ node' = [node EXCEPT ![n] = y]
                          /\ UNCHANGED << net, call, run, cancelled >>
  BY NodeStepCases DEF Known
<1>2. /\ ~NoThread(node[n]) /\ y.pc # "none" /\ SameCalls(node[n], y)
      /\ y.sent.run = node[n].sent.run
  BY <1>1, NodeStepsInRun DEF Known
<1>3. /\ \A m : NotStarted(m)' = NotStarted(m) /\ NotReset(m)' = NotReset(m)
      /\ \A m : Joined(m)' = Joined(m)
      /\ OutputsJoined' = OutputsJoined
  BY <1>1, SamePosition
<1>4. /\ node'[n] = y
      /\ \A m \in Nodes \ {n} : node'[m] = node[m]
  BY <1>1 DEF Known, Types
<1>5. ThreadKnown(n)'
  <2>1. ThreadKnown(n) /\ node[n].pc \notin {"none", "ended"}
    BY <1>2 DEF Known, NoThread
  <2>2. ~NotStarted(n) /\ ~Joined(n)
    BY <2>1 DEF ThreadKnown
  <2> QED
    BY <1>1, <1>2, <1>3, <1>4, <2>1, <2>2 DEF ThreadKnown, SameCalls
<1> QED
  BY <1>1, <1>3, <1>4, <1>5, ThreadStays DEF Known

(***************************************************************************)
(* What a caller makes of the thread of v, and where the application is    *)
(* then: it leaves it alone, or interrupts it; it starts it; it resets it. *)
(***************************************************************************)
LeavesThread(v, y) ==
  LET x == node[v]
  IN  /\ edge' = edge /\ SameThread(x, y) /\ y.is_critical = x.is_critical
      /\ \A n \in Nodes : /\ NotStarted(n)' <=> NotStarted(n)
                          /\ NotReset(n)' <=> NotReset(n)
                          /\ Joined(n)' => Joined(n) \/ (n = v /\ x.pc = "ended")
      /\ \/ y.interrupted = x.interrupted
         \/ /\ y.interrupted /\ ~NoThread(x)
            /\ cancelled \/ (v \notin net.output /\ OutputsJoined)

StartsThread(v, y) ==
  LET x == node[v]
  IN  /\ edge' = edge /\ NoThread(x)
      /\ NotStarted(v)
      /\ \A n \in Nodes : /\ ~NotReset(n) /\ ~NotReset(n)' /\ ~Joined(n)'
                          /\ NotStarted(n)' <=> NotStarted(n) /\ n # v
      /\ y.sent = x.sent /\ y.left = x.left /\ y.held = x.held
      /\ y.last_execute_state = "SUCCESS" /\ AtHead(y, v)
      /\ ~y.interrupted /\ y.is_critical = (v \in net.output)

ResetsThread(v, y) ==
  LET x == node[v]
  IN  /\ run # 1 /\ x.pc = "ended"
      /\ NotReset(v)
      /\ \A n \in Nodes : /\ NotStarted(n) /\ NotStarted(n)' /\ ~Joined(n)'
                          /\ NotReset(n)' <=> NotReset(n) /\ n # v
      /\ edge' = [i \in DOMAIN edge |->
                    IF net.edges[i].from = v /\ net.edges[i].kind # "dependency"
                    THEN WasReset(edge[i]) ELSE edge[i]]
      /\ y.pc = "ended" /\ y.todo = x.todo /\ y.last_execute_state = "SUCCESS"
      /\ y.sent = NewRun(run) /\ y.left = net.frames
      /\ y.held = x.held /\ y.pushing = x.pushing /\ y.fresh = x.fresh
      /\ y.is_critical = x.is_critical /\ y.interrupted = x.interrupted

(* A caller starts one thread, resets one node, or touches no loop at all. *)
LEMMA CallerEffects ==
  ASSUME Known, NEW c \in Callers, CallerStep(c)
  PROVE  \E v \in Nodes, y \in Thread :
           /\ LeavesThread(v, y) \/ StartsThread(v, y) \/ ResetsThread(v, y)
           /\ node' = [node EXCEPT ![v] = y]
           /\ OutputsJoined => OutputsJoined'
           /\ UNCHANGED << net, run, cancelled >>
<1>1. Types /\ CallsAreKnown
  BY DEF Known
<1>0. PICK v \in Nodes : v = Visited(c)
  BY <1>1, CallerStepCases
<1> DEFINE x == node[v]
           o == Head(call[c]).op
<1>2. /\ call[c] # << >>
      /\ VisitEnds(c) \/ UNCHANGED call
      /\ UNCHANGED << net, run, cancelled >>
  BY <1>1, CallerStepCases
<1>3. PICK y \in Thread : CallerCases(c, y) /\ node' = [node EXCEPT ![v] = y]
  BY <1>0, <1>1, CallerStepCases
<1>5. ThreadKnown(v)
  BY <1>2 DEF Known
<1>6. \A ops : Calls(c, ops) <=> o \in ops
  BY <1>2 DEF Calls
<1>4. x.interrupted \in BOOLEAN /\ y.interrupted \in BOOLEAN
  BY <1>1 DEF Types, Thread
<1> HIDE DEF x, o
<1> SUFFICES /\ LeavesThread(v, y) \/ StartsThread(v, y) \/ ResetsThread(v, y)
             /\ OutputsJoined => OutputsJoined'
  BY <1>2, <1>3
<1>7. ASSUME \A n \in Nodes : /\ NotStarted(n)' <=> NotStarted(n)
                              /\ NotReset(n)' <=> NotReset(n)
                              /\ Joined(n)' => Joined(n) \/ (n = v /\ x.pc = "ended"),
             \/ Awaits(c, y)
             \/ /\ Interrupts(c, y)
                /\ cancelled \/ (v \notin net.output /\ OutputsJoined)
      PROVE  LeavesThread(v, y)
  <2>1. /\ edge' = edge /\ SameThread(x, y) /\ y.is_critical = x.is_critical
        /\ \/ y.interrupted = x.interrupted
           \/ Interrupts(c, y) /\ y.interrupted /\ ~NoThread(x)
    BY <1>0, <1>4, <1>7 DEF Awaits, Interrupts, x
  <2>2. \/ y.interrupted = x.interrupted
        \/ /\ y.interrupted /\ ~NoThread(x)
           /\ cancelled \/ (v \notin net.output /\ OutputsJoined)
    BY <1>0, <1>4, <1>7, <2>1 DEF Awaits, x
  <2> QED
    BY <1>7, <2>1, <2>2 DEF LeavesThread, x
<1>10. CASE UNCHANGED call
  <2>1. /\ \A m : NotStarted(m)' = NotStarted(m) /\ NotReset(m)' = NotReset(m)
        /\ \A m : Joined(m)' = Joined(m)
        /\ OutputsJoined' = OutputsJoined
    BY <1>2, <1>10, SamePosition
  <2>2. ~VisitEnds(c)
    <3>1. call[c] \in Seq(Visit) /\ call \in [Callers -> Seq(Visit)]
      BY <1>1 DEF Types
    <3>2. Tail(call[c]) # call[c]
      <4> DEFINE s == call[c]
                 k == Len(s)
                 m == Len(Tail(s))
      <4>1. m = k - 1 /\ k \in Nat
        BY <1>2, <3>1, HeadTailProperties
      <4>2. Tail(s) = s => m = k
        OBVIOUS
      <4> HIDE DEF k, m
      <4> QED
        BY <4>1, <4>2
    <3> QED
      BY <1>10, <3>1, <3>2 DEF VisitEnds
  <2>3. Awaits(c, y)
    BY <1>3, <2>2 DEF CallerCases, Starts, Keeps, Interrupts, Resets
  <2> QED
    BY <1>7, <2>1, <2>3
<1>11. CASE VisitEnds(c) /\ c = "canceller"
  <2>1. call'["application"] = call["application"] /\ cancelled
    <3>1. "application" \in Callers \ {c}
      BY <1>11 DEF Callers
    <3> QED
      BY <1>1, <1>2, <1>11, <3>1, AfterVisit DEF CallsAreKnown
  <2>2. /\ \A m : NotStarted(m)' = NotStarted(m) /\ NotReset(m)' = NotReset(m)
        /\ \A m : Joined(m)' = Joined(m)
        /\ OutputsJoined' = OutputsJoined
    BY <1>2, <2>1, SamePosition
  <2>3. o \notin {"manage_thread", "reset"}
    <3>1. call[c] \in Seq(Visit)
      BY <1>1 DEF Types
    <3>2. Head(call[c]) = call[c][1] /\ 1 \in DOMAIN call[c]
      BY <1>2, <3>1, HeadTailProperties, EmptySeq
    <3> QED
      BY <1>1, <1>11, <3>2 DEF CallsAreKnown, o
  <2>4. Interrupts(c, y) \/ Awaits(c, y)
    BY <1>3, <1>6, <2>3 DEF CallerCases, Starts, Keeps, Resets
  <2> QED
    BY <1>7, <2>1, <2>2, <2>4
<1>12. CASE VisitEnds(c) /\ c = "application"
  <2> DEFINE Phase1 == /\ o = "reset" /\ NotReset(v)
                       /\ \A n \in Nodes :
                            /\ NotStarted(n) /\ NotStarted(n)' /\ ~Joined(n)'
                            /\ NotReset(n)' <=> NotReset(n) /\ n # v
             Phase2 == /\ o = "manage_thread" /\ NotStarted(v)
                       /\ \A n \in Nodes :
                            /\ ~NotReset(n) /\ ~NotReset(n)' /\ ~Joined(n)'
                            /\ NotStarted(n)' <=> NotStarted(n) /\ n # v
             Phase3 == /\ \A n \in Nodes : /\ ~NotReset(n) /\ ~NotReset(n)'
                                           /\ ~NotStarted(n) /\ ~NotStarted(n)'
                       /\ \/ /\ o = "join_critical" /\ v \in net.output
                             /\ \A n \in Nodes : Joined(n)' => Joined(n) \/ n = v
                          \/ /\ o = "interrupt_non_critical" /\ v \notin net.output
                             /\ OutputsJoined
                             /\ \A n \in Nodes : Joined(n)' => Joined(n)
                          \/ /\ o = "join_non_critical" /\ v \notin net.output
                             /\ OutputsJoined
                             /\ \A n \in Nodes : Joined(n)' => Joined(n) \/ n = v
  <2>1. /\ OutputsJoined => OutputsJoined'
        /\ Phase1 \/ Phase2 \/ Phase3
    BY <1>0, <1>1, <1>2, <1>12, Phases DEF o
  <2>2. CASE Phase1
    <3>1. Resets(c, y)
      BY <1>3, <1>6, <2>2 DEF CallerCases, Starts, Keeps, Interrupts, Awaits
    <3>2. run # 1
      <4>1. x.pc = "ended" /\ NotStarted(v)
        BY <1>0, <2>2, <3>1 DEF Resets, x
      <4> QED
        BY <1>5, <4>1 DEF ThreadKnown, x
    <3>3. ResetsThread(v, y)
      BY <1>0, <2>2, <3>1, <3>2 DEF Resets, ResetsThread
    <3> QED
      BY <2>1, <3>3
  <2>3. CASE Phase2
    <3>1. Starts(c, y) \/ Keeps(c, y)
      BY <1>3, <1>6, <2>3 DEF CallerCases, Interrupts, Awaits, Resets
    <3>2. /\ x.pc = "none" \/ (x.pc = "ended" /\ x.last_execute_state = "SUCCESS")
      BY <1>2, <1>5, <2>3 DEF ThreadKnown, x
    <3>3. Starts(c, y)
      BY <1>0, <3>1, <3>2 DEF Keeps, x
    <3>4. StartsThread(v, y)
      BY <1>0, <2>3, <3>2, <3>3 DEF Starts, StartsThread, NoThread, x
    <3> QED
      BY <2>1, <3>4
  <2>4. CASE Phase3
    <3>1. Interrupts(c, y) \/ Awaits(c, y)
      BY <1>3, <1>6, <2>4 DEF CallerCases, Starts, Keeps, Resets
    <3>2. x.is_critical = (v \in net.output) /\ x.pc # "none"
      BY <1>2, <1>5, <2>4 DEF ThreadKnown, x
    <3>3. /\ Interrupts(c, y) => v \notin net.output /\ OutputsJoined
          /\ o \in {"join_critical", "join_non_critical"} => Awaits(c, y)
      BY <1>6, <2>4, <3>1 DEF Interrupts
    <3>4. o \in {"join_critical", "join_non_critical"} => x.pc = "ended"
      <4>1. SUFFICES ASSUME o \in {"join_critical", "join_non_critical"}
                     PROVE  x.pc = "ended"
        OBVIOUS
      <4>2. OfThisKind(c)
        BY <1>0, <1>6, <2>4, <3>2, <4>1 DEF OfThisKind, x
      <4>3. NoThread(x)
        BY <1>0, <1>12, <3>3, <4>1, <4>2 DEF Awaits, x
      <4> QED
        BY <3>2, <4>3 DEF NoThread
    <3>5. \A n \in Nodes : Joined(n)' => Joined(n) \/ (n = v /\ x.pc = "ended")
      BY <2>4, <3>4
    <3>6. LeavesThread(v, y)
      BY <1>7, <2>4, <3>1, <3>3, <3>5
    <3> QED
      BY <2>1, <3>6
  <2> QED
    BY <2>1, <2>2, <2>3, <2>4
<1> QED
  BY <1>2, <1>10, <1>11, <1>12 DEF Callers

(* A caller's step leaves every thread known. *)
LEMMA KnownCallerStep ==
  ASSUME Known, NEW c \in Callers, CallerStep(c)
  PROVE  \A m \in Nodes : ThreadKnown(m)'
<1>1. PICK v \in Nodes, y \in Thread :
        /\ LeavesThread(v, y) \/ StartsThread(v, y) \/ ResetsThread(v, y)
        /\ node' = [node EXCEPT ![v] = y]
        /\ OutputsJoined => OutputsJoined'
        /\ UNCHANGED << net, run, cancelled >>
  BY CallerEffects
<1> DEFINE x == node[v]
<1>2. /\ node'[v] = y
      /\ \A m \in Nodes \ {v} : node'[m] = node[m]
      /\ x.interrupted \in BOOLEAN /\ y.interrupted \in BOOLEAN
  BY <1>1 DEF Known, Types, Thread
<1>3. \A m \in Nodes : ThreadKnown(m)
  BY DEF Known
<1>4. ThreadKnown(v)
  BY <1>3
<1> HIDE DEF x
<1> SUFFICES /\ ThreadKnown(v)'
             /\ \A m \in Nodes \ {v} : /\ NotStarted(m)' <=> NotStarted(m)
                                       /\ NotReset(m)' <=> NotReset(m)
                                       /\ Joined(m)' => Joined(m)
  BY <1>1, <1>2, <1>3, ThreadStays
<1>5. CASE LeavesThread(v, y)
  <2>1. /\ NotStarted(v)' <=> NotStarted(v)
        /\ NotReset(v)' <=> NotReset(v)
        /\ Joined(v)' => Joined(v) \/ x.pc = "ended"
        /\ SameThread(x, y) /\ y.is_critical = x.is_critical
    BY <1>5 DEF LeavesThread, x
  <2>2. \/ y.interrupted = x.interrupted
        \/ cancelled
        \/ v \notin net.output /\ OutputsJoined
    BY <1>5 DEF LeavesThread, x
  <2>3. NotStarted(v) => y.interrupted = x.interrupted
    BY <1>4, <1>5 DEF LeavesThread, ThreadKnown, NoThread, x
  <2>4. ThreadKnown(v)'
    BY <1>1, <1>2, <1>4, <2>1, <2>2, <2>3 DEF ThreadKnown, SameThread, SameLoop, x
  <2> QED
    BY <1>5, <2>4 DEF LeavesThread
<1>6. CASE StartsThread(v, y)
  <2>1. /\ y.pc # "none" /\ y.sent = x.sent /\ ~y.interrupted
        /\ y.is_critical = (v \in net.output) /\ ~NotStarted(v)' /\ ~NotReset(v)'
        /\ ~Joined(v)' /\ ~NotReset(v) /\ NotStarted(v)
    BY <1>6 DEF StartsThread, AtHead, x
  <2>2. x.sent.run = run
    BY <1>4, <2>1 DEF ThreadKnown, x
  <2>3. ThreadKnown(v)'
    BY <1>1, <1>2, <2>1, <2>2 DEF ThreadKnown
  <2> QED
    BY <1>6, <2>3 DEF StartsThread
<1>7. CASE ResetsThread(v, y)
  <2>1. /\ y.pc = "ended" /\ y.last_execute_state = "SUCCESS"
        /\ y.sent = NewRun(run) /\ y.left = net.frames /\ run # 1
        /\ y.is_critical = x.is_critical /\ y.interrupted = x.interrupted
        /\ NotStarted(v)' /\ ~NotReset(v)' /\ ~Joined(v)'
    BY <1>7 DEF ResetsThread, x
  <2>2. NewRun(run).run = run
    BY DEF NewRun
  <2>3. ThreadKnown(v)'
    BY <1>1, <1>2, <2>1, <2>2 DEF ThreadKnown
  <2> QED
    BY <1>7, <2>3 DEF ResetsThread
<1> QED
  BY <1>1, <1>5, <1>6, <1>7

(* Every step leaves the calls and the threads known. *)
LEMMA KnownStep == Known /\ [Next]_vars => Known'
<1> SUFFICES ASSUME Known, [Next]_vars
             PROVE  Known'
  OBVIOUS
<1>1. Types /\ CallsAreKnown /\ \A m \in Nodes : ThreadKnown(m)
  BY DEF Known
<1>5. Types' /\ CallsAreKnown'
  BY <1>1, TypesStep, CallsStep
<1>6. Nodes' = Nodes
  <2>1. ASSUME NEW n \in Nodes, NodeStep(n)
        PROVE  net' = net
    BY <1>1, <2>1, NodeStepCases
  <2>2. ASSUME NEW c \in Callers, CallerStep(c)
        PROVE  net' = net
    BY <1>1, <2>2, CallerStepCases
  <2>3. net' = net
    BY <2>1, <2>2 DEF Next, RunAgain, Cancel, vars
  <2> QED
    BY <2>3 DEF Nodes
<1> SUFFICES \A m \in Nodes : ThreadKnown(m)'
  BY <1>5, <1>6 DEF Known
<1>2. CASE RunAgain
  <2>1. /\ call["application"] = << >> /\ run' = run + 1 /\ UNCHANGED << net, node, cancelled >>
        /\ call'["application"] = Program
    BY <1>1, <1>2 DEF RunAgain, Types, Program, Callers
  <2>2. /\ N \in Nat /\ Len(Program) \in Nat /\ run \in Nat /\ run >= 1
        /\ Len(Critical) \in Nat /\ Len(NonCritical) \in Nat
    BY <1>1, NextVisit, NetworkTypes DEF Types
  <2>3. At' = 0 /\ N' = N /\ Critical' = Critical /\ NonCritical' = NonCritical
    <3>1. Program' = Program /\ N' = N /\ Critical' = Critical /\ NonCritical' = NonCritical
      BY <2>1, SameProgram
    <3>2. At' = Len(Program) - Len(Program)
      BY <2>1, <3>1 DEF At
    <3> QED
      BY <2>2, <3>1, <3>2
  <2> SUFFICES ASSUME NEW n \in Nodes
               PROVE  ThreadKnown(n)'
    OBVIOUS
  <2>4. ~NotStarted(n) /\ ~NotReset(n) /\ Joined(n)
    BY <1>1, <2>1, AtEnd
  <2>5. node[n].pc = "ended" /\ node[n].sent.run = run
    BY <1>1, <2>4 DEF ThreadKnown
  <2>6. NotReset(n)' /\ ~Joined(n)'
    <3>1. PICK p \in 1 .. N : net.order[p] = n
      BY <1>1, NetworkTypes DEF Types, N
    <3>2. 0 < p
      BY <3>1
    <3>3. /\ \A k \in 1 .. Len(Critical) : ~(0 >= 2 * N + k)
          /\ \A k \in 1 .. Len(NonCritical) :
               ~(0 >= 2 * N + Len(Critical) + Len(NonCritical) + k)
      BY <2>2
    <3> QED
      BY <2>1, <2>3, <3>1, <3>2, <3>3 DEF NotReset, Joined
  <2>7. NotStarted(n)'
    <3>1. PICK p \in 1 .. N : net.order[p] = n
      BY <1>1, NetworkTypes DEF Types, N
    <3>2. 0 < N + p
      BY <2>2, <3>1
    <3> QED
      BY <2>1, <2>3, <3>1, <3>2 DEF NotStarted
  <2>8. run' # 1 /\ run' - 1 = run
    BY <2>1, <2>2
  <2> QED
    BY <2>1, <2>5, <2>6, <2>7, <2>8 DEF ThreadKnown
<1>3. CASE Cancel
  <2>1. /\ call'["application"] = call["application"]
        /\ cancelled' = TRUE /\ UNCHANGED << net, edge, node, run >>
    BY <1>1, <1>3 DEF Cancel, Types, Callers
  <2> QED
    BY <1>1, <2>1, SamePosition, ThreadStays
<1>4. CASE UNCHANGED vars
  BY <1>1, <1>4, SamePosition, ThreadStays DEF vars
<1> QED
  BY <1>2, <1>3, <1>4, KnownNodeStep, KnownCallerStep DEF Next

(* Where the calls and the threads are is known in every state. *)
LEMMA KnownInvariant == Spec => []Known
<1>1. Init => Known
  BY TypesInit, CallsInit, KnownInit DEF Known
<1> QED
  BY <1>1, KnownStep, PTL DEF Spec

-----------------------------------------------------------------------------
(* The frames of a run.                                                    *)

Undisturbed == ~cancelled /\ EndsByItself(net)

(* No run but the first begins with what an unfinished one has left. *)
Counts == /\ OneStatusPerFrame /\ net.frames # 0
          /\ run = 1 \/ Undisturbed

Data == {i \in DOMAIN net.edges : net.edges[i].kind # "dependency"}

FromOf(i) == node[net.edges[i].from]
ToOf(i) == node[net.edges[i].to]

SameRun(i) == FromOf(i).sent.run = ToOf(i).sent.run

(* The thread was, or may have been, stopped within a frame. *)
Cut(n) == node[n].interrupted /\ node[n].pc = "ended" /\ ~Undisturbed

(* The source has failed, and told edge i. *)
HasFailed(i) ==
  LET x == FromOf(i)
  IN  /\ x.last_execute_state = "FAILURE"
      /\ x.pc = "ended" \/ (x.pc = "out" /\ i \notin Range(x.todo))

(* No thread ends but by the failure, or by an interruption. *)
NodeInStep(n) ==
  LET x == node[n]
  IN  /\ x.last_execute_state # "FLUSH" /\ x.pc # "resync" /\ x.sent.flush = 0
      /\ x.last_execute_state = "FAILURE" => x.pc \in {"out", "ended"}
      /\ x.pc = "ended" /\ (NotStarted(n) => NotReset(n)) /\ ~Cut(n)
           => x.last_execute_state = "FAILURE"

(* An edge holds what was made and not yet taken; a failure comes last. *)
EdgeInStep(i) ==
  LET q == edge[i].status
  IN  /\ \A j \in DOMAIN q : /\ q[j] # "FLUSH"
                             /\ q[j] = "FAILURE" => j = Len(q) /\ HasFailed(i)
      /\ edge[i].no_more_input => q = << >> /\ HasFailed(i)
      /\ ~edge[i].no_more_input /\ SameRun(i)
         /\ ~Cut(net.edges[i].from) /\ ~Cut(net.edges[i].to)
           => Len(q) = Produced(i) - Consumed(i)
      /\ run > 1 /\ NotStarted(net.edges[i].from) => q = << >>

InStep == Counts => /\ \A n \in Nodes : NodeInStep(n)
                    /\ \A i \in Data : EdgeInStep(i)

(* The thread has failed and told its data edges. *)
Past(n) ==
  LET x == node[n]
  IN  /\ x.sent.nth = net.frames + 1
      /\ x.last_execute_state = "FAILURE"
      /\ x.pc \in {"out", "ended"}
      /\ Range(x.todo) \cap Data = {}

NodeEnds(n) ==
  LET x == node[n]
  IN  /\ x.sent.nth <= net.frames + 1
      /\ x.last_execute_state = "FAILURE" <=> x.sent.nth = net.frames + 1
      /\ IsSource(n) => x.left = IF x.sent.nth <= net.frames
                                 THEN net.frames - x.sent.nth ELSE 0
      /\ IsSource(n) /\ x.pc = "execute" => x.found = {}
      /\ x.pc \in {"in", "execute"} =>
           ("FAILURE" \in x.found
              <=> /\ x.sent.nth = net.frames
                  /\ \E i \in EdgesTo(n) \cap Data : i \notin Range(x.todo))
      /\ x.interrupted /\ ~NotStarted(n) => Past(n)
      /\ NotReset(n) => Past(n)

(* The failure is the last thing that comes, and closes the edge. *)
EdgeEnds(i) ==
  SameRun(i) =>
    /\ Len(edge[i].status) = Produced(i) - Consumed(i)
    /\ edge[i].no_more_input <=> Consumed(i) = net.frames + 1
    /\ \A j \in DOMAIN edge[i].status :
         edge[i].status[j] = "FAILURE" <=> Consumed(i) + j = net.frames + 1

Ends == Undisturbed => /\ \A n \in Nodes : NodeEnds(n)
                       /\ \A i \in Data : EdgeEnds(i)

-----------------------------------------------------------------------------
(* What a step does to the edge it is about.                               *)

(* The edge a thread is at is one of its own, still to be visited. *)
LEMMA AtEdgeOf ==
  ASSUME Types, NEW n \in Nodes, node[n].todo # << >>
  PROVE  LET i == AtEdge(n)
         IN  /\ i \in DOMAIN net.edges /\ i \in Range(node[n].todo)
             /\ node[n].pc = "out" => i \in EdgesFrom(n)
             /\ node[n].pc # "out" => i \in EdgesTo(n)
<1>1. /\ net \in Networks /\ node[n] \in Thread /\ ThreadOK(node[n], n)
  BY DEF Types
<1>2. AtEdge(n) \in DOMAIN net.edges /\ AtEdge(n) \in Range(node[n].todo)
  BY <1>1, EdgeTurn DEF AtEdge
<1> QED
  BY <1>1, <1>2 DEF ThreadOK, Range, EdgesFrom, EdgesTo

(* The status it takes is the first; an edge that is closed keeps nothing. *)
LEMMA TakesEdge ==
  ASSUME Types, NEW i \in DOMAIN net.edges, CanPush(i), edge' = AfterPush(i)
  PROVE  LET e == edge[i]
             f == edge'[i]
             k == Len(e.status)
         IN  /\ \A j \in DOMAIN net.edges \ {i} : edge'[j] = edge[j]
             /\ i \notin Data => /\ edge' = edge /\ PushedStatus(i) = "SUCCESS"
                                 /\ PushedValues(i) = {}
             /\ i \in Data =>
                  \/ /\ e.no_more_input /\ f = e
                     /\ PushedStatus(i) = "FAILURE" /\ PushedValues(i) = {}
                  \/ /\ ~e.no_more_input /\ k \in Nat /\ k >= 1
                     /\ PushedStatus(i) = e.status[1]
                     /\ PushedValues(i) = IF e.status[1] = "SUCCESS" THEN {ValueAt(e, 1)}
                                                                    ELSE {}
                     /\ Len(f.status) = k - 1
                     /\ f.no_more_input <=> e.status[1] = "FAILURE" /\ k = 1
                     /\ \A j \in 1 .. k - 1 :
                          /\ f.status[j] = e.status[j + 1]
                          /\ f.status[j] = "SUCCESS" => ValueAt(f, j) = ValueAt(e, j + 1)
<1> DEFINE e == edge[i]
           f == edge'[i]
           k == Len(e.status)
<1>1. /\ edge \in [DOMAIN net.edges -> EdgeOf(Origin)] /\ Paired(e, Origin)
      /\ AfterPush(i) = IF net.edges[i].kind = "dependency" THEN edge
                        ELSE [edge EXCEPT ![i] = Taken(e)]
  BY PushTypes DEF Types, EdgesOK
<1>2. CASE i \notin Data
  BY <1>1, <1>2 DEF Data, PushedStatus, PushedValues
<1>3. CASE i \in Data
  <2>1. net.edges[i].kind # "dependency"
    BY <1>3 DEF Data
  <2>2. /\ f = Taken(e) /\ Ready(e)
        /\ \A j \in DOMAIN net.edges \ {i} : edge'[j] = edge[j]
        /\ PushedStatus(i) = Delivered(e)
        /\ PushedValues(i) = IF SetsInput(e) THEN {Head(e.data)} ELSE {}
    BY <1>1, <2>1 DEF CanPush, PushedStatus, PushedValues
  <2> HIDE DEF e, f
  <2>3. CASE e.no_more_input
    BY <1>3, <2>2, <2>3 DEF Taken, Delivered, SetsInput, e, f
  <2>4. CASE ~e.no_more_input
    <3>1. /\ f = Popped(e) /\ e.status # << >> /\ Delivered(e) = Head(e.status)
          /\ SetsInput(e) <=> Head(e.status) = "SUCCESS"
      BY <2>2, <2>4 DEF Taken, Ready, Delivered, SetsInput
    <3>2. /\ k \in Nat /\ k >= 1 /\ Head(e.status) = e.status[1]
          /\ Len(f.status) = k - 1
          /\ f.no_more_input <=> e.status[1] = "FAILURE" /\ k = 1
          /\ \A j \in 1 .. k - 1 :
               /\ f.status[j] = e.status[j + 1]
               /\ f.status[j] = "SUCCESS" => ValueAt(f, j) = ValueAt(e, j + 1)
          /\ e.status[1] = "SUCCESS" => Head(e.data) = ValueAt(e, 1)
      BY <1>1, <3>1, PoppedPaired
    <3>3. PushedValues(i) = IF e.status[1] = "SUCCESS" THEN {ValueAt(e, 1)} ELSE {}
      BY <2>2, <3>1, <3>2
    <3> QED
      BY <1>3, <2>2, <2>4, <3>1, <3>2, <3>3 DEF e, f
  <2> QED
    BY <2>3, <2>4
<1> QED
  BY <1>2, <1>3

(* The status it gives comes last. *)
LEMMA GivesEdge ==
  ASSUME Types, NEW n \in Nodes, NEW i \in DOMAIN net.edges, node[n].pc = "out",
         node[n].last_execute_state # "FLUSH", edge' = AfterPull(n, i)
  PROVE  LET e == edge[i]
             f == edge'[i]
             k == Len(e.status)
             st == node[n].last_execute_state
         IN  /\ \A j \in DOMAIN net.edges \ {i} : edge'[j] = edge[j]
             /\ i \notin Data => edge' = edge
             /\ i \in Data =>
                  /\ k \in Nat /\ Len(f.status) = k + 1 /\ ~f.no_more_input
                  /\ f.status[k + 1] = st
                  /\ st = "SUCCESS" => ValueAt(f, k + 1) = Announced(n)
                  /\ \A j \in 1 .. k :
                       /\ f.status[j] = e.status[j]
                       /\ e.status[j] = "SUCCESS" => ValueAt(f, j) = ValueAt(e, j)
<1> DEFINE e == edge[i]
           f == edge'[i]
           k == Len(e.status)
           st == node[n].last_execute_state
<1>1. /\ edge \in [DOMAIN net.edges -> EdgeOf(Origin)] /\ Paired(e, Origin)
      /\ Announced(n) \in Origin /\ st \in EdgeStatus
  BY PullTypes DEF Types, EdgesOK
<1>2. CASE i \notin Data
  BY <1>2 DEF Data, AfterPull
<1>3. CASE i \in Data
  <2>1. net.edges[i].kind # "dependency" /\ Flushed(e, st) = e
    BY <1>3 DEF Data, Flushed
  <2>2. AfterPull(n, i) = [edge EXCEPT ![i] = Stored(e, st, Announced(n))]
    BY <2>1 DEF AfterPull, Announced
  <2>3. /\ f = Stored(e, st, Announced(n))
        /\ \A j \in DOMAIN net.edges \ {i} : edge'[j] = edge[j]
    BY <1>1, <2>2
  <2> HIDE DEF e, f, st
  <2>4. k \in Nat
    BY <1>1 DEF Paired, EdgeOf
  <2>5. /\ Len(f.status) = k + 1 /\ ~f.no_more_input /\ f.status[k + 1] = st
        /\ st = "SUCCESS" => ValueAt(f, k + 1) = Announced(n)
        /\ \A j \in 1 .. k :
             /\ f.status[j] = e.status[j]
             /\ e.status[j] = "SUCCESS" => ValueAt(f, j) = ValueAt(e, j)
    BY <1>1, <2>3, StoredPaired
  <2> QED
    BY <1>3, <2>3, <2>4, <2>5 DEF e, f, st
<1> QED
  BY <1>2, <1>3

-----------------------------------------------------------------------------
(* What a step does to the count of the frames made and taken.             *)

ProducedOf(x, i) ==
  LET done == x.pc = "out" /\ i \notin Range(x.todo)
  IN  x.sent.nth - Len(x.held)
        + (IF x.pc # "out" THEN 0
           ELSE IF x.pushing THEN (IF done THEN 1 ELSE 0)
           ELSE (IF done THEN 0 ELSE -1))

ConsumedOf(x, i) ==
  x.sent.nth + (IF \/ x.pc = "execute" \/ x.pushing
                   \/ x.pc = "in" /\ i \notin Range(x.todo)
                THEN 1 ELSE 0)

(* The counts of an edge are those of its two threads. *)
LEMMA CountsOf ==
  ASSUME NEW i
  PROVE  /\ Produced(i) = ProducedOf(FromOf(i), i)
         /\ Consumed(i) = ConsumedOf(ToOf(i), i)
BY DEF Produced, ProducedOf, Consumed, ConsumedOf, FromOf, ToOf

(* The counts are integers. *)
LEMMA CountTypes ==
  ASSUME NEW x \in Thread, NEW i
  PROVE  /\ x.sent.nth \in Nat /\ Len(x.held) \in Nat
         /\ ProducedOf(x, i) \in Int /\ ConsumedOf(x, i) \in Nat
<1>1. x.sent \in Origin /\ x.held \in Seq(Origin)
  BY DEF Thread
<1>2. x.sent.nth \in Nat /\ Len(x.held) \in Nat
  BY <1>1, OriginFields
<1> QED
  BY <1>2 DEF ProducedOf, ConsumedOf

(* It is at the head of its loop, or has just begun to announce. *)
LEMMA CountsAtHead ==
  ASSUME NEW y \in Thread, NEW n \in Nodes, AtHead(y, n), NEW i \in DOMAIN net.edges
  PROVE  /\ ProducedOf(y, i) = y.sent.nth - Len(y.held)
         /\ i \in EdgesTo(n) => ConsumedOf(y, i) = y.sent.nth
<1>1. y.sent.nth \in Nat /\ Len(y.held) \in Nat
  BY CountTypes
<1>2. y.pc # "out"
  BY DEF AtHead
<1>3. i \in EdgesTo(n) => y.pc # "execute" /\ ~y.pushing /\ ~(y.pc = "in" /\ i \notin Range(y.todo))
  BY DEF AtHead, IsSource
<1> QED
  BY <1>1, <1>2, <1>3 DEF ProducedOf, ConsumedOf

(* The counts of a thread that begins to visit its outgoing edges. *)
LEMMA CountsAtOut ==
  ASSUME NEW y \in Thread, NEW n \in Nodes, AtOut(y, n), NEW i \in DOMAIN net.edges
  PROVE  /\ i \in EdgesFrom(n) =>
              ProducedOf(y, i) = y.sent.nth - Len(y.held) - (IF y.pushing THEN 0 ELSE 1)
         /\ ConsumedOf(y, i) = y.sent.nth + (IF y.pushing THEN 1 ELSE 0)
<1>1. y.sent.nth \in Nat /\ Len(y.held) \in Nat
  BY CountTypes
<1> QED
  BY <1>1 DEF ProducedOf, ConsumedOf, AtOut

(* Taking a status is the only thing that a sink counts. *)
LEMMA CountsOfTaking ==
  ASSUME Types, NEW n \in Nodes, NEW y \in Thread, Takes(n, y), NEW i \in DOMAIN net.edges
  PROVE  /\ ProducedOf(y, i) = ProducedOf(node[n], i)
         /\ ConsumedOf(y, i) = ConsumedOf(node[n], i)
              + (IF i = AtEdge(n) THEN 1 ELSE 0)
<1> DEFINE x == node[n]
<1>1. x \in Thread /\ ThreadOK(x, n)
  BY DEF Types
<1>2. x.sent.nth \in Nat /\ Len(x.held) \in Nat
  BY <1>1, CountTypes
<1>3. /\ x.pc = "in" /\ SameRest(x, y)
      /\ y.pc = IF y.todo = << >> THEN "execute" ELSE "in"
      /\ Range(y.todo) = Range(x.todo) \ {AtEdge(n)}
      /\ ~y.pushing
  BY DEF Takes
<1>4. AtEdge(n) \in Range(x.todo) /\ ~x.pushing
  BY <1>1, <1>3, AtEdgeOf DEF ThreadOK
<1>5. y.todo = << >> => Range(y.todo) = {}
  BY DEF Range
<1> HIDE DEF x
<1>6. y.sent = x.sent /\ y.held = x.held
  BY <1>3 DEF SameRest
<1>7. y.pc # "out" /\ y.pc = "execute" => i \notin Range(y.todo)
  BY <1>3, <1>5
<1> QED
  BY <1>2, <1>3, <1>4, <1>6, <1>7 DEF ProducedOf, ConsumedOf, x

(* The status of a step comes from the incoming edges or the process. *)
LEMMA ExecutesStatus ==
  ASSUME Types, OneStatusPerFrame, NEW n \in Nodes, NEW y, Executes(n, y)
  PROVE  /\ y.last_execute_state \in {"FAILURE", "SUCCESS", "SKIP"}
         /\ y.last_execute_state = "FAILURE" =>
              "FAILURE" \in node[n].found \/ "FAILURE" \in Returns(n)
         /\ y.last_execute_state = "SKIP" =>
              "SKIP" \in node[n].found \/ "SKIP" \in Returns(n)
         /\ "FAILURE" \in node[n].found => y.last_execute_state = "FAILURE"
         /\ Returns(n) = {"FAILURE"} => y.last_execute_state \in {"FAILURE", "SKIP"}
         /\ Returns(n) = {"FAILURE"} /\ node[n].found = {}
              => y.last_execute_state = "FAILURE"
<1> DEFINE st == y.last_execute_state
           x == node[n]
<1>1. /\ st \in MayReturn(x.found, n \in net.skipped, Returns(n))
      /\ ~(net.holds[n] > 0 /\ IsCalled(n))
  BY DEF Executes
<1>2. /\ net.returns[n] \subseteq StepStatus /\ "FLUSH" \notin net.returns[n]
      /\ "NO_OUTPUT" \in net.returns[n] => net.holds[n] > 0
  BY NetworkTypes DEF Types, OneStatusPerFrame
<1>3. Returns(n) = {"FAILURE"} \/ Returns(n) = net.returns[n]
  BY DEF Returns
<1> HIDE DEF st, x
<1>4. CASE "FAILURE" \in x.found
  BY <1>1, <1>4 DEF MayReturn, st, x
<1>5. CASE "FAILURE" \notin x.found /\ "SKIP" \in x.found /\ n \notin net.skipped
  BY <1>1, <1>5 DEF MayReturn, st, x
<1>6. CASE "FAILURE" \notin x.found /\ ~("SKIP" \in x.found /\ n \notin net.skipped)
  <2>1. st \in Returns(n) /\ IsCalled(n)
    BY <1>1, <1>6 DEF MayReturn, IsCalled, x
  <2> QED
    BY <1>1, <1>2, <1>3, <1>6, <2>1 DEF StepStatus, st, x
<1> QED
  BY <1>4, <1>5, <1>6

(* A frame is not one more made before it is announced. *)
LEMMA CountsOfWorking ==
  ASSUME Types, OneStatusPerFrame, net.frames # 0, NEW n \in Nodes, NEW y \in Thread,
         Waits(n, y) \/ Executes(n, y) \/ HoldsBack(n, y), NEW i \in DOMAIN net.edges
  PROVE  /\ i \in EdgesFrom(n) => ProducedOf(y, i) = ProducedOf(node[n], i)
         /\ i \in EdgesTo(n) => ConsumedOf(y, i) = ConsumedOf(node[n], i)
<1> DEFINE x == node[n]
<1>1. x \in Thread /\ ThreadOK(x, n)
  BY DEF Types
<1>2. /\ x.sent.nth \in Nat /\ Len(x.held) \in Nat
      /\ y.sent.nth \in Nat /\ Len(y.held) \in Nat
      /\ x.sent \in Origin /\ x.held \in Seq(Origin) /\ y.sent \in Origin
  BY <1>1, CountTypes DEF Thread
<1>3. ASSUME NEW st, st # "FLUSH"
      PROVE  NextSent(x.sent, st).nth = x.sent.nth + 1
  BY <1>2, <1>3, NextSentFields
<1>4. x.pc = "execute" => /\ ~x.pushing
                          /\ ProducedOf(x, i) = x.sent.nth - Len(x.held)
                          /\ ConsumedOf(x, i) = x.sent.nth + 1
  BY <1>1, <1>2 DEF ThreadOK, ProducedOf, ConsumedOf
<1> HIDE DEF x
<1>5. CASE Waits(n, y)
  BY <1>5 DEF Waits, SameRest, SameLoop, ProducedOf, ConsumedOf, x
<1>6. ASSUME y.sent.nth = x.sent.nth + 1, ~y.pushing, x.pc = "execute",
             \/ AtHead(y, n) /\ y.held = x.held /\ i \notin EdgesFrom(n)
             \/ AtHead(y, n) /\ Len(y.held) = Len(x.held) + 1
             \/ AtOut(y, n) /\ y.held = x.held
      PROVE  /\ i \in EdgesFrom(n) => ProducedOf(y, i) = ProducedOf(x, i)
             /\ i \in EdgesTo(n) => ConsumedOf(y, i) = ConsumedOf(x, i)
  <2>1. CASE AtHead(y, n)
    <3>1. /\ ProducedOf(y, i) = y.sent.nth - Len(y.held)
          /\ i \in EdgesTo(n) => ConsumedOf(y, i) = y.sent.nth
      BY <2>1, CountsAtHead
    <3>2. ~AtOut(y, n)
      BY <2>1 DEF AtHead, AtOut
    <3> QED
      BY <1>2, <1>4, <1>6, <3>1, <3>2
  <2>2. CASE AtOut(y, n)
    <3>1. /\ i \in EdgesFrom(n) =>
               ProducedOf(y, i) = y.sent.nth - Len(y.held) - (IF y.pushing THEN 0 ELSE 1)
          /\ ConsumedOf(y, i) = y.sent.nth + (IF y.pushing THEN 1 ELSE 0)
      BY <2>2, CountsAtOut
    <3>2. ~AtHead(y, n)
      BY <2>2 DEF AtHead, AtOut
    <3> QED
      BY <1>2, <1>4, <1>6, <3>1, <3>2
  <2> QED
    BY <1>6, <2>1, <2>2
<1>7. CASE Executes(n, y)
  <2>1. y.last_execute_state \in {"FAILURE", "SUCCESS", "SKIP"}
    BY <1>7, ExecutesStatus
  <2>2. /\ y.sent.nth = x.sent.nth + 1 /\ ~y.pushing /\ x.pc = "execute"
        /\ y.held = x.held
        /\ IF EdgesFrom(n) = {} THEN AtHead(y, n) ELSE AtOut(y, n)
    BY <1>3, <1>7, <2>1 DEF Executes, x
  <2> QED
    BY <1>6, <2>2 DEF x
<1>8. CASE HoldsBack(n, y)
  <2>1. CASE HasBegunToPush(x, x.held, y, n)
    <3>1. /\ y.sent = x.sent /\ y.held = x.held /\ AtOut(y, n) /\ y.pushing
          /\ x.pc = "execute"
      BY <1>8, <2>1 DEF HoldsBack, HasBegunToPush, x
    <3>2. /\ i \in EdgesFrom(n) => ProducedOf(y, i) = y.sent.nth - Len(y.held) - 0
          /\ ConsumedOf(y, i) = y.sent.nth + 1
      BY <3>1, CountsAtOut
    <3> QED
      BY <1>2, <1>4, <3>1, <3>2 DEF x
  <2>2. CASE HasAnswered(x, x.held, y, n)
    <3>1. /\ x.pc = "execute" /\ ~y.pushing /\ y.sent.nth = x.sent.nth + 1
          /\ \/ AtHead(y, n) /\ y.held = Append(x.held, y.sent)
             \/ AtOut(y, n) /\ y.held = x.held
      BY <1>3, <1>8, <2>2 DEF HoldsBack, HasAnswered, x
    <3>2. Len(Append(x.held, y.sent)) = Len(x.held) + 1
      BY <1>2, AppendProperties
    <3> QED
      BY <1>6, <3>1, <3>2 DEF x
  <2> QED
    BY <1>8, <2>1, <2>2 DEF HoldsBack, x
<1> QED
  BY <1>5, <1>7, <1>8

(* Giving a status is the only thing that a source counts. *)
LEMMA CountsOfGiving ==
  ASSUME Types, NEW n \in Nodes, NEW y \in Thread, Gives(n, y),
         node[n].last_execute_state # "FLUSH", NEW i \in DOMAIN net.edges
  PROVE  /\ i \in EdgesFrom(n) => ProducedOf(y, i) = ProducedOf(node[n], i)
                                    + (IF i = AtEdge(n) THEN 1 ELSE 0)
         /\ i \in EdgesTo(n) => ConsumedOf(y, i) = ConsumedOf(node[n], i)
<1> DEFINE x == node[n]
           a == AtEdge(n)
<1>1. x \in Thread /\ ThreadOK(x, n)
  BY DEF Types
<1>2. /\ x.sent.nth \in Nat /\ Len(x.held) \in Nat
      /\ y.sent.nth \in Nat /\ Len(y.held) \in Nat
      /\ x.sent \in Origin /\ x.held \in Seq(Origin) /\ y.sent \in Origin
  BY <1>1, CountTypes DEF Thread
<1>3. NextSent(x.sent, "SUCCESS").nth = x.sent.nth + 1
  BY <1>2, NextSentFields
<1>4. x.pc = "out" /\ a \in Range(x.todo)
  BY <1>1, AtEdgeOf DEF Gives, ThreadOK
<1>5. x.held # << >> => /\ Tail(x.held) \in Seq(Origin)
                        /\ Len(Tail(x.held)) = Len(x.held) - 1
                        /\ \A v : Len(Append(Tail(x.held), v)) = Len(x.held)
  <2> SUFFICES ASSUME x.held # << >>
               PROVE  /\ Tail(x.held) \in Seq(Origin)
                      /\ Len(Tail(x.held)) = Len(x.held) - 1
                      /\ \A v : Len(Append(Tail(x.held), v)) = Len(x.held)
    OBVIOUS
  <2> DEFINE t == Tail(x.held)
             k == Len(x.held)
  <2>1. t \in Seq(Origin) /\ Len(t) = k - 1 /\ k \in Nat
    BY <1>2, HeadTailProperties
  <2> HIDE DEF t, k
  <2>2. \A v : Len(Append(t, v)) = Len(t) + 1
    BY <2>1
  <2> QED
    BY <2>1, <2>2 DEF t, k
<1>6. x.pushing => x.held # << >>
  BY <1>1 DEF ThreadOK
<1> HIDE DEF x, a
<1>7. /\ ProducedOf(x, i) = x.sent.nth - Len(x.held)
           + (IF x.pushing THEN (IF i \notin Range(x.todo) THEN 1 ELSE 0)
                           ELSE (IF i \notin Range(x.todo) THEN 0 ELSE -1))
      /\ ConsumedOf(x, i) = x.sent.nth + (IF x.pushing THEN 1 ELSE 0)
  BY <1>4 DEF ProducedOf, ConsumedOf
<1>8. \/ /\ Range(x.todo) # {a} /\ Range(y.todo) = Range(x.todo) \ {a}
         /\ SameRest(x, y) /\ SameLoop(x, y)
      \/ /\ Range(x.todo) = {a} /\ ~x.pushing
         /\ SameRest(x, y) /\ y.last_execute_state = x.last_execute_state
         /\ AtHead(y, n)
      \/ /\ Range(x.todo) = {a} /\ x.pushing
         /\ \/ HasBegunToPush(x, Tail(x.held), y, n) /\ Tail(x.held) # << >>
            \/ HasAnswered(x, Tail(x.held), y, n) /\ Tail(x.held) = << >>
  BY DEF Gives, x, a
<1>9. CASE /\ Range(y.todo) = Range(x.todo) \ {a}
           /\ SameRest(x, y) /\ SameLoop(x, y)
  <2>1. /\ ProducedOf(y, i) = x.sent.nth - Len(x.held)
             + (IF x.pushing THEN (IF i \notin Range(y.todo) THEN 1 ELSE 0)
                             ELSE (IF i \notin Range(y.todo) THEN 0 ELSE -1))
        /\ ConsumedOf(y, i) = x.sent.nth + (IF x.pushing THEN 1 ELSE 0)
    BY <1>4, <1>9 DEF ProducedOf, ConsumedOf, SameRest, SameLoop
  <2> QED
    BY <1>2, <1>4, <1>7, <1>9, <2>1 DEF x, a
<1>10. CASE /\ Range(x.todo) = {a} /\ ~x.pushing
            /\ SameRest(x, y) /\ AtHead(y, n)
  <2>1. y.sent = x.sent /\ y.held = x.held
    BY <1>10 DEF SameRest
  <2>2. /\ ProducedOf(y, i) = y.sent.nth - Len(y.held)
        /\ i \in EdgesTo(n) => ConsumedOf(y, i) = y.sent.nth
    BY <1>10, CountsAtHead
  <2> QED
    BY <1>2, <1>7, <1>10, <2>1, <2>2 DEF x, a
<1>11. CASE /\ Range(x.todo) = {a} /\ x.pushing
            /\ HasBegunToPush(x, Tail(x.held), y, n)
  <2>1. y.sent = x.sent /\ Len(y.held) = Len(x.held) - 1 /\ y.pushing /\ AtOut(y, n)
    BY <1>5, <1>6, <1>11 DEF HasBegunToPush
  <2>2. /\ i \in EdgesFrom(n) => ProducedOf(y, i) = y.sent.nth - Len(y.held) - 0
        /\ ConsumedOf(y, i) = y.sent.nth + 1
    BY <2>1, CountsAtOut
  <2> QED
    BY <1>2, <1>7, <1>11, <2>1, <2>2 DEF x, a
<1>12. CASE /\ Range(x.todo) = {a} /\ x.pushing
            /\ HasAnswered(x, Tail(x.held), y, n)
  <2>1. /\ y.sent.nth = x.sent.nth + 1 /\ ~y.pushing
        /\ \/ AtHead(y, n) /\ Len(y.held) = Len(x.held)
           \/ AtOut(y, n) /\ Len(y.held) = Len(x.held) - 1
    BY <1>3, <1>5, <1>6, <1>12 DEF HasAnswered
  <2>2. CASE AtHead(y, n) /\ Len(y.held) = Len(x.held)
    <3>1. /\ ProducedOf(y, i) = y.sent.nth - Len(y.held)
          /\ i \in EdgesTo(n) => ConsumedOf(y, i) = y.sent.nth
      BY <2>2, CountsAtHead
    <3> QED
      BY <1>2, <1>7, <1>12, <2>1, <2>2, <3>1 DEF x, a
  <2>3. CASE AtOut(y, n) /\ Len(y.held) = Len(x.held) - 1
    <3>1. /\ i \in EdgesFrom(n) => ProducedOf(y, i) = y.sent.nth - Len(y.held) - 1
          /\ ConsumedOf(y, i) = y.sent.nth + 0
      BY <2>1, <2>3, CountsAtOut
    <3>2. i \in EdgesFrom(n) => ProducedOf(y, i) = ProducedOf(x, i)
                                  + (IF i = a THEN 1 ELSE 0)
      BY SMTT(30), <1>2, <1>7, <1>12, <2>1, <2>3, <3>1
    <3>3. ConsumedOf(y, i) = ConsumedOf(x, i)
      BY <1>2, <1>7, <1>12, <2>1, <3>1
    <3> QED
      BY <3>2, <3>3 DEF x, a
  <2> QED
    BY <2>1, <2>2, <2>3
<1> QED
  BY <1>8, <1>9, <1>10, <1>11, <1>12

-----------------------------------------------------------------------------
(* A node's step keeps the frames in step.                                 *)

(* What the invariants suppose depends on the network and the run alone. *)
LEMMA SameCounts ==
  ASSUME net' = net, run' = run, cancelled' = cancelled
  PROVE  /\ Counts' = Counts /\ Undisturbed' = Undisturbed /\ Data' = Data
         /\ Nodes' = Nodes
<1>1. Nodes' = Nodes
  BY DEF Nodes
<1>2. OneStatusPerFrame' = OneStatusPerFrame
  BY <1>1 DEF OneStatusPerFrame
<1> QED
  BY <1>1, <1>2 DEF Counts, Undisturbed, Data

(* A node is started when all have been reset. *)
LEMMA AllReset ==
  ASSUME Known, NEW n \in Nodes, ~NotStarted(n)
  PROVE  /\ \A m \in Nodes : ~NotReset(m) /\ node[m].sent.run = run
         /\ \A i \in DOMAIN net.edges : SameRun(i)
<1>1. At \in Nat /\ N \in Nat
  BY NextVisit DEF Known
<1>2. PICK p \in 1 .. N : net.order[p] = n
  BY NetworkTypes DEF Known, Types, N
<1>3. ~(At < N + p)
  BY <1>2 DEF NotStarted
<1>4. \A q \in 1 .. N : ~(At < q)
  BY <1>1, <1>2, <1>3
<1>5. \A m \in Nodes : ~NotReset(m)
  BY <1>4 DEF NotReset
<1>6. \A m \in Nodes : node[m].sent.run = run
  BY <1>5 DEF Known, ThreadKnown
<1>7. \A i \in DOMAIN net.edges : net.edges[i].from \in Nodes /\ net.edges[i].to \in Nodes
  BY NetworkTypes DEF Known, Types
<1> QED
  BY <1>5, <1>6, <1>7 DEF SameRun, FromOf, ToOf

(* A thread that makes a step was started in this run. *)
LEMMA NodeIsStarted ==
  ASSUME Known, NEW n \in Nodes, NEW y \in Thread, NodeCases(n, y)
  PROVE  ~NoThread(node[n]) /\ ~NotStarted(n) /\ ~NotReset(n) /\ ~Cut(n)
<1>1. ~NoThread(node[n])
  BY NodeStepsInRun DEF Known
<1>2. ~NotStarted(n)
  BY <1>1 DEF Known, ThreadKnown, NoThread
<1> QED
  BY <1>1, <1>2, AllReset DEF Cut, NoThread

(* Where every frame gives one status, nothing is flushed. *)
LEMMA NothingFlushed ==
  ASSUME Known, InStep, Counts, NEW n \in Nodes, NEW y \in Thread, NodeCases(n, y)
  PROVE  ~IsFlushed(n, y)
<1> SUFFICES ASSUME IsFlushed(n, y)
             PROVE  FALSE
  OBVIOUS
<1> DEFINE i == AtEdge(n)
<1>1. NodeInStep(n) /\ \A j \in Data : EdgeInStep(j)
  BY DEF InStep
<1>2. /\ node[n].pc = "in" /\ PushedStatus(i) = "FLUSH" /\ CanPush(i)
      /\ edge' = AfterPush(i)
  BY <1>1 DEF IsFlushed, NodeInStep
<1>3. i \in DOMAIN net.edges
  BY <1>2, AtEdgeOf DEF Known, Types, ThreadOK
<1>4. /\ i \in Data /\ Len(edge[i].status) \in Nat /\ Len(edge[i].status) >= 1
      /\ edge[i].status[1] = "FLUSH"
  BY <1>2, <1>3, TakesEdge DEF Known
<1>5. edge[i].status \in Seq(EdgeStatus)
  BY <1>3 DEF Known, Types, EdgesOK, EdgeOf
<1>6. 1 \in DOMAIN edge[i].status
  BY <1>4, <1>5
<1> QED
  BY <1>1, <1>4, <1>6 DEF EdgeInStep

(* A run that ends by itself has no process that holds frames back. *)
LEMMA NothingHeld ==
  ASSUME Types, EndsByItself(net), NEW n \in Nodes
  PROVE  /\ ~(net.holds[n] > 0) /\ node[n].held = << >> /\ ~node[n].pushing
         /\ {"FAILURE", "FLUSH", "NO_OUTPUT"} \cap net.returns[n] = {}
         /\ EdgesTo(n) # {} => EdgesTo(n) \cap Data # {}
<1>1. {"FAILURE", "FLUSH", "NO_OUTPUT"} \cap net.returns[n] = {}
  BY DEF EndsByItself, Nodes
<1>2. ~(net.holds[n] > 0)
  <2>1. "NO_OUTPUT" \notin net.returns[n]
    BY <1>1
  <2>2. net.holds[n] > 0 => net.returns[n] = {"SUCCESS", "NO_OUTPUT"}
    BY NetworkTypes DEF Types
  <2> QED
    BY <2>1, <2>2
<1>3. EdgesTo(n) # {} => EdgesTo(n) \cap Data # {}
  BY DEF EndsByItself, Nodes, EdgesTo, Data
<1> QED
  BY <1>1, <1>2, <1>3 DEF Types, ThreadOK, HeldOK

(* A thread that is interrupted after its last frame is not in a wait. *)
LEMMA NothingStopped ==
  ASSUME Known, Ends, Undisturbed, NEW n \in Nodes, NEW y \in Thread, NodeCases(n, y)
  PROVE  ~Stops(n, y)
<1> SUFFICES ASSUME Stops(n, y)
             PROVE  FALSE
  OBVIOUS
<1>1. ~NotStarted(n)
  BY NodeIsStarted
<1>2. node[n].waiting /\ node[n].interrupted
  BY DEF Stops
<1>3. Range(node[n].todo) \cap Data = {}
  BY <1>1, <1>2 DEF Ends, NodeEnds, Past
<1>4. /\ node[n].todo # << >>
      /\ net.edges[AtEdge(n)].kind # "dependency"
  BY <1>2 DEF Known, Types, ThreadOK, AtEdge
<1>5. AtEdge(n) \in Range(node[n].todo) /\ AtEdge(n) \in DOMAIN net.edges
  BY <1>4, AtEdgeOf DEF Known
<1> QED
  BY <1>3, <1>4, <1>5 DEF Data

(* What has failed stays so. *)
LEMMA FailedStays ==
  ASSUME Types, NEW n \in Nodes, NEW y \in Thread, NodeCases(n, y), ~IsFlushed(n, y),
         node' = [node EXCEPT ![n] = y], net' = net,
         NEW i \in DOMAIN net.edges, HasFailed(i)
  PROVE  HasFailed(i)'
<1> DEFINE x == node[n]
           m == net.edges[i].from
<1>1. m \in Nodes
  BY NetworkTypes DEF Types
<1>2. node'[n] = y /\ \A k \in Nodes \ {n} : node'[k] = node[k]
  BY DEF Types
<1>3. CASE m # n
  BY <1>1, <1>2, <1>3 DEF HasFailed, FromOf
<1>4. CASE m = n
  <2>1. /\ x.last_execute_state = "FAILURE"
        /\ x.pc = "ended" \/ (x.pc = "out" /\ i \notin Range(x.todo))
    BY <1>4 DEF HasFailed, FromOf
  <2>2. ThreadOK(x, n) /\ ~x.pushing
    BY <2>1 DEF Types, ThreadOK
  <2>3. Waits(n, y) \/ Stops(n, y) \/ Gives(n, y)
    BY <2>1 DEF NodeCases, Takes, Executes, HoldsBack
  <2>4. /\ y.last_execute_state = "FAILURE"
        /\ y.pc = "ended" \/ (y.pc = "out" /\ i \notin Range(y.todo))
    <3>1. CASE Waits(n, y)
      BY <2>1, <3>1 DEF Waits, SameLoop
    <3>2. CASE Stops(n, y)
      BY <2>1, <3>2 DEF Stops
    <3>3. CASE Gives(n, y)
      <4>1. x.pc = "out"
        BY <3>3 DEF Gives
      <4>2. CASE Range(y.todo) = Range(x.todo) \ {AtEdge(n)} /\ SameLoop(x, y)
        BY <2>1, <4>1, <4>2 DEF SameLoop
      <4>3. CASE y.last_execute_state = x.last_execute_state /\ AtHead(y, n)
        BY <2>1, <4>3 DEF AtHead
      <4> QED
        BY <2>2, <3>3, <4>2, <4>3 DEF Gives
    <3> QED
      BY <2>3, <3>1, <3>2, <3>3
  <2> QED
    BY <1>2, <1>4, <2>4 DEF HasFailed, FromOf
<1> QED
  BY <1>3, <1>4

(* What the thread itself keeps. *)
LEMMA NodeKept ==
  ASSUME Known, InStep, Counts, Undisturbed => Ends, NEW n \in Nodes,
         NEW y \in Thread, NodeCases(n, y)
  PROVE  /\ y.last_execute_state # "FLUSH" /\ y.pc # "resync" /\ y.sent.flush = 0
         /\ y.last_execute_state = "FAILURE" => y.pc \in {"out", "ended"}
         /\ y.pc = "ended" =>
              \/ y.last_execute_state = "FAILURE"
              \/ y.interrupted /\ ~Undisturbed
<1> DEFINE x == node[n]
           Goal == /\ y.last_execute_state # "FLUSH" /\ y.pc # "resync" /\ y.sent.flush = 0
                   /\ y.last_execute_state = "FAILURE" => y.pc \in {"out", "ended"}
                   /\ y.pc = "ended" =>
                        \/ y.last_execute_state = "FAILURE"
                        \/ y.interrupted /\ ~Undisturbed
<1>1. NodeInStep(n) /\ OneStatusPerFrame /\ net.frames # 0 /\ Types
  BY DEF InStep, Counts, Known
<1>2. /\ x \in Thread /\ ThreadOK(x, n) /\ x.sent \in Origin
      /\ x.last_execute_state # "FLUSH" /\ x.pc # "resync" /\ x.sent.flush = 0
      /\ x.last_execute_state = "FAILURE" => x.pc \in {"out", "ended"}
  BY <1>1 DEF NodeInStep, Types, Thread
<1>3. ~NoThread(x) /\ ~IsFlushed(n, y) /\ (Undisturbed => ~Stops(n, y))
  BY NodeIsStarted, NothingFlushed, NothingStopped
<1>4. \A st : st # "FLUSH" => NextSent(x.sent, st).flush = 0
  BY <1>2, NextSentFields
<1>5. ASSUME AtHead(y, n), y.last_execute_state # "FLUSH", y.sent.flush = 0
      PROVE  Goal
  BY <1>5 DEF AtHead
<1>6. ASSUME AtOut(y, n), y.last_execute_state # "FLUSH", y.sent.flush = 0
      PROVE  Goal
  BY <1>6 DEF AtOut
<1> SUFFICES Goal
  OBVIOUS
<1> HIDE DEF x, Goal
<1>7. CASE Waits(n, y)
  BY <1>2, <1>3, <1>7 DEF Waits, SameRest, SameLoop, NoThread, x, Goal
<1>8. CASE Stops(n, y)
  <2>1. /\ y.sent = x.sent /\ y.last_execute_state = x.last_execute_state
        /\ y.pc = "ended" /\ y.interrupted
    BY <1>8 DEF Stops, SameRest, SameCalls, x
  <2> QED
    BY <1>2, <1>3, <1>8, <2>1 DEF Goal
<1>9. CASE Takes(n, y)
  <2>1. /\ y.sent = x.sent /\ y.last_execute_state = x.last_execute_state
        /\ x.pc = "in" /\ y.pc \in {"execute", "in"}
    BY <1>9 DEF Takes, SameRest, x
  <2> QED
    BY <1>2, <2>1 DEF Goal
<1>10. CASE Executes(n, y)
  <2>1. y.last_execute_state \in {"FAILURE", "SUCCESS", "SKIP"}
    BY <1>1, <1>10, ExecutesStatus
  <2>2. y.sent.flush = 0
    BY <1>1, <1>4, <1>10, <2>1 DEF Executes, x
  <2>3. AtHead(y, n) \/ AtOut(y, n)
    BY <1>10 DEF Executes
  <2> QED
    BY <1>5, <1>6, <2>1, <2>2, <2>3
<1>11. ASSUME NEW h, HasAnswered(x, h, y, n)
       PROVE  Goal
  BY <1>4, <1>5, <1>6, <1>11 DEF HasAnswered
<1>12. ASSUME NEW h, HasBegunToPush(x, h, y, n)
       PROVE  Goal
  BY <1>2, <1>6, <1>12 DEF HasBegunToPush
<1>13. CASE HoldsBack(n, y)
  BY <1>11, <1>12, <1>13 DEF HoldsBack, x
<1>14. CASE Gives(n, y)
  <2>1. CASE SameRest(x, y) /\ SameLoop(x, y) /\ x.pc = "out"
    BY <1>2, <2>1 DEF SameRest, SameLoop, Goal
  <2>2. CASE /\ SameRest(x, y) /\ y.last_execute_state = x.last_execute_state
             /\ AtHead(y, n)
    BY <1>2, <1>5, <2>2 DEF SameRest
  <2> QED
    BY <1>11, <1>12, <1>14, <2>1, <2>2 DEF Gives, x
<1> QED
  BY <1>3, <1>7, <1>8, <1>9, <1>10, <1>13, <1>14 DEF NodeCases

(* An edge that its source has failed on is not given to any more. *)
LEMMA GivesBeforeFailing ==
  ASSUME Known, InStep, Counts, NEW n \in Nodes, NEW y \in Thread, Gives(n, y),
         NEW i \in Data, i = AtEdge(n)
  PROVE  /\ net.edges[i].from = n /\ ~HasFailed(i) /\ ~edge[i].no_more_input
         /\ \A j \in DOMAIN edge[i].status : edge[i].status[j] \notin {"FAILURE", "FLUSH"}
<1>1. node[n].pc = "out" /\ Types /\ EdgeInStep(i)
  BY DEF Gives, Known, InStep
<1>2. i \in Range(node[n].todo) /\ net.edges[i].from = n
  BY <1>1, AtEdgeOf DEF Types, ThreadOK, EdgesFrom
<1>3. ~HasFailed(i)
  BY <1>1, <1>2 DEF HasFailed, FromOf
<1> QED
  BY <1>1, <1>2, <1>3 DEF EdgeInStep

(* The edge that is given to or taken from; the others stay as they are.   *)
EdgeStays(i) == edge'[i] = edge[i]

(* A step takes from an edge, gives to it, or leaves it. *)
LEMMA EdgeCases ==
  ASSUME Types, NEW n \in Nodes, NEW y \in Thread, NodeCases(n, y), ~IsFlushed(n, y),
         node[n].last_execute_state # "FLUSH", NEW i \in Data
  PROVE  \/ Takes(n, y) /\ i = AtEdge(n)
         \/ Gives(n, y) /\ i = AtEdge(n)
         \/ EdgeStays(i)
<1>1. i \in DOMAIN net.edges
  BY DEF Data
<1>2. CASE Takes(n, y)
  <2>1. AtEdge(n) \in DOMAIN net.edges /\ CanPush(AtEdge(n)) /\ edge' = AfterPush(AtEdge(n))
    BY <1>2, AtEdgeOf DEF Takes, Types, ThreadOK
  <2> QED
    BY <1>1, <1>2, <2>1, TakesEdge DEF EdgeStays
<1>3. CASE Gives(n, y)
  <2>1. AtEdge(n) \in DOMAIN net.edges /\ edge' = AfterPull(n, AtEdge(n)) /\ node[n].pc = "out"
    BY <1>3, AtEdgeOf DEF Gives, Types, ThreadOK
  <2> QED
    BY <1>1, <1>3, <2>1, GivesEdge DEF EdgeStays
<1>4. ASSUME edge' = edge
      PROVE  EdgeStays(i)
  BY <1>4 DEF EdgeStays
<1> QED
  BY <1>2, <1>3, <1>4 DEF NodeCases, Waits, Stops, Executes, HoldsBack

(* The count of an edge that a node's step leaves alone. *)
LEMMA CountStays ==
  ASSUME Known, OneStatusPerFrame, net.frames # 0, NEW n \in Nodes, NEW y \in Thread,
         NodeCases(n, y), ~IsFlushed(n, y), node' = [node EXCEPT ![n] = y],
         net' = net, node[n].last_execute_state # "FLUSH", NEW i \in DOMAIN net.edges,
         Stops(n, y) => net.edges[i].from # n /\ net.edges[i].to # n
  PROVE  /\ Produced(i)' = Produced(i) + (IF Gives(n, y) /\ i = AtEdge(n) THEN 1 ELSE 0)
         /\ Consumed(i)' = Consumed(i) + (IF Takes(n, y) /\ i = AtEdge(n) THEN 1 ELSE 0)
         /\ SameRun(i)' = SameRun(i)
<1> DEFINE f == net.edges[i].from
           t == net.edges[i].to
<1>1. f \in Nodes /\ t \in Nodes /\ Types /\ node \in [Nodes -> Thread]
  BY NetworkTypes DEF Known, Types
<1>2. node'[n] = y /\ \A m \in Nodes \ {n} : node'[m] = node[m]
  BY <1>1
<1>3. /\ Produced(i)' = ProducedOf(node'[f], i) /\ Consumed(i)' = ConsumedOf(node'[t], i)
      /\ Produced(i) = ProducedOf(node[f], i) /\ Consumed(i) = ConsumedOf(node[t], i)
  BY DEF Produced, Consumed, ProducedOf, ConsumedOf
<1>4. /\ ProducedOf(node[f], i) \in Int /\ ConsumedOf(node[t], i) \in Int
  BY <1>1, CountTypes
<1>5. /\ Takes(n, y) /\ i = AtEdge(n) => t = n
      /\ Gives(n, y) /\ i = AtEdge(n) => f = n
  BY <1>1, AtEdgeOf DEF Takes, Gives, Types, ThreadOK, EdgesFrom, EdgesTo
<1>6. ~(Takes(n, y) /\ Gives(n, y))
  BY DEF Takes, Gives
<1>7. f = n => ProducedOf(y, i) = ProducedOf(node[n], i)
                                    + (IF Gives(n, y) /\ i = AtEdge(n) THEN 1 ELSE 0)
  <2> SUFFICES ASSUME f = n
               PROVE  ProducedOf(y, i) = ProducedOf(node[n], i)
                                    + (IF Gives(n, y) /\ i = AtEdge(n) THEN 1 ELSE 0)
    OBVIOUS
  <2>1. i \in EdgesFrom(n)
    BY DEF EdgesFrom
  <2>2. CASE Gives(n, y)
    BY <1>1, <2>1, <2>2, CountsOfGiving
  <2>3. CASE Takes(n, y)
    BY <1>1, <1>4, <1>6, <2>3, CountsOfTaking
  <2>4. CASE ~Gives(n, y) /\ (Waits(n, y) \/ Executes(n, y) \/ HoldsBack(n, y))
    BY <1>1, <1>4, <2>1, <2>4, CountsOfWorking
  <2> QED
    BY <2>2, <2>3, <2>4 DEF NodeCases
<1>8. t = n => ConsumedOf(y, i) = ConsumedOf(node[n], i)
                                    + (IF Takes(n, y) /\ i = AtEdge(n) THEN 1 ELSE 0)
  <2> SUFFICES ASSUME t = n
               PROVE  ConsumedOf(y, i) = ConsumedOf(node[n], i)
                                    + (IF Takes(n, y) /\ i = AtEdge(n) THEN 1 ELSE 0)
    OBVIOUS
  <2>1. i \in EdgesTo(n)
    BY DEF EdgesTo
  <2>2. CASE Takes(n, y)
    BY <1>1, <2>1, <2>2, CountsOfTaking
  <2>3. CASE Gives(n, y)
    BY <1>1, <1>4, <1>6, <2>1, <2>3, CountsOfGiving
  <2>4. CASE ~Takes(n, y) /\ (Waits(n, y) \/ Executes(n, y) \/ HoldsBack(n, y))
    BY <1>1, <1>4, <2>1, <2>4, CountsOfWorking
  <2> QED
    BY <2>2, <2>3, <2>4 DEF NodeCases
<1>9. SameRun(i)' = SameRun(i)
  <2>1. y.sent.run = node[n].sent.run
    BY <1>1, NodeStepsInRun
  <2>2. node'[f].sent.run = node[f].sent.run /\ node'[t].sent.run = node[t].sent.run
    BY <1>1, <1>2, <2>1
  <2> QED
    BY <2>2 DEF SameRun, FromOf, ToOf
<1> HIDE DEF f, t
<1>10. ProducedOf(node'[f], i) = ProducedOf(node[f], i)
         + (IF Gives(n, y) /\ i = AtEdge(n) THEN 1 ELSE 0)
  BY <1>1, <1>2, <1>4, <1>5, <1>7
<1>11. ConsumedOf(node'[t], i) = ConsumedOf(node[t], i)
         + (IF Takes(n, y) /\ i = AtEdge(n) THEN 1 ELSE 0)
  BY <1>1, <1>2, <1>4, <1>5, <1>8
<1> QED
  BY <1>3, <1>9, <1>10, <1>11

(* A node's step leaves the counts in step. *)
LEMMA InStepNodeStep ==
  ASSUME Known, InStep, Ends, NEW n \in Nodes, NodeStep(n)
  PROVE  InStep'
<1>1. PICK y \in Thread : /\ NodeCases(n, y) /\ node' = [node EXCEPT ![n] = y]
                          /\ UNCHANGED << net, call, run, cancelled >>
  BY NodeStepCases DEF Known
<1>2. Types /\ node \in [Nodes -> Thread] /\ edge \in [DOMAIN net.edges -> EdgeOf(Origin)]
  BY DEF Known, Types, EdgesOK
<1>3. /\ Counts' = Counts /\ Undisturbed' = Undisturbed /\ Data' = Data /\ Nodes' = Nodes
  BY <1>1, SameCounts
<1>4. \A m : NotStarted(m)' = NotStarted(m) /\ NotReset(m)' = NotReset(m)
  BY <1>1, SamePosition
<1>5. node'[n] = y /\ \A m \in Nodes \ {n} : node'[m] = node[m]
  BY <1>1, <1>2
<1> SUFFICES ASSUME Counts
             PROVE  /\ \A m \in Nodes : NodeInStep(m)'
                    /\ \A i \in Data : EdgeInStep(i)'
  BY <1>3 DEF InStep
<1>6. /\ \A m \in Nodes : NodeInStep(m)
      /\ \A i \in Data : EdgeInStep(i)
      /\ OneStatusPerFrame /\ net.frames # 0
  BY DEF InStep, Counts
<1>7. ~IsFlushed(n, y) /\ node[n].last_execute_state # "FLUSH"
  BY <1>1, <1>6, NothingFlushed DEF NodeInStep
<1>8. \A m \in Nodes : Cut(m) => Cut(m)'
  <2>1. ~Cut(n)
    BY <1>1, NodeIsStarted
  <2> QED
    BY <1>3, <1>5, <2>1 DEF Cut
<1>9. ASSUME NEW m \in Nodes
      PROVE  NodeInStep(m)'
  <2>1. CASE m = n
    <3>1. /\ y.last_execute_state # "FLUSH" /\ y.pc # "resync" /\ y.sent.flush = 0
          /\ y.last_execute_state = "FAILURE" => y.pc \in {"out", "ended"}
          /\ y.pc = "ended" =>
               \/ y.last_execute_state = "FAILURE"
               \/ y.interrupted /\ ~Undisturbed
      BY <1>1, NodeKept
    <3> QED
      BY <1>3, <1>5, <2>1, <3>1 DEF NodeInStep, Cut
  <2>2. CASE m # n
    BY <1>3, <1>4, <1>5, <1>6, <1>8, <2>2 DEF NodeInStep
  <2> QED
    BY <2>1, <2>2
<1> SUFFICES ASSUME NEW i \in Data
             PROVE  EdgeInStep(i)'
  BY <1>9
<1> DEFINE f == net.edges[i].from
           t == net.edges[i].to
<1>10. /\ i \in DOMAIN net.edges /\ f \in Nodes /\ t \in Nodes
       /\ EdgeInStep(i)
  BY <1>2, <1>6, NetworkTypes DEF Data, Types
<1>11. HasFailed(i) => HasFailed(i)'
  BY <1>1, <1>2, <1>7, <1>10, FailedStays
<1>12. /\ run' = run /\ net' = net
       /\ NotStarted(f)' = NotStarted(f)
       /\ Gives(n, y) /\ i = AtEdge(n) => ~NotStarted(f)
  <2>1. ~NotStarted(n)
    BY <1>1, NodeIsStarted
  <2>2. Gives(n, y) /\ i = AtEdge(n) => f = n
    BY GivesBeforeFailing DEF Known
  <2> QED
    BY <1>1, <1>4, <2>1, <2>2
(* The count, which is only kept where nothing was cut. *)
<1>13. ASSUME SameRun(i)', ~Cut(f)', ~Cut(t)'
       PROVE  /\ SameRun(i) /\ ~Cut(f) /\ ~Cut(t)
              /\ Produced(i)' = Produced(i) + (IF Gives(n, y) /\ i = AtEdge(n) THEN 1 ELSE 0)
              /\ Consumed(i)' = Consumed(i) + (IF Takes(n, y) /\ i = AtEdge(n) THEN 1 ELSE 0)
  <2>1. Stops(n, y) => f # n /\ t # n
    <3>1. Stops(n, y) => ~Undisturbed
      BY <1>1, NothingStopped
    <3>2. Stops(n, y) => y.interrupted /\ y.pc = "ended"
      BY DEF Stops, SameRest, SameCalls
    <3>3. Stops(n, y) => node'[n].interrupted /\ node'[n].pc = "ended" /\ ~Undisturbed'
      BY <1>3, <1>5, <3>1, <3>2
    <3>4. ~(node'[f].interrupted /\ node'[f].pc = "ended" /\ ~Undisturbed')
      BY <1>1, <1>13 DEF Cut
    <3>5. ~(node'[t].interrupted /\ node'[t].pc = "ended" /\ ~Undisturbed')
      BY <1>1, <1>13 DEF Cut
    <3> QED
      BY <3>3, <3>4, <3>5
  <2>2. /\ Produced(i)' = Produced(i) + (IF Gives(n, y) /\ i = AtEdge(n) THEN 1 ELSE 0)
        /\ Consumed(i)' = Consumed(i) + (IF Takes(n, y) /\ i = AtEdge(n) THEN 1 ELSE 0)
        /\ SameRun(i)' = SameRun(i)
    BY <1>1, <1>6, <1>7, <1>10, <2>1, CountStays
  <2>3. ~Cut(f) /\ ~Cut(t)
    <3>1. Cut(f) => Cut(f)'
      BY <1>1, <1>3, <1>8, <1>10 DEF Cut
    <3>2. Cut(t) => Cut(t)'
      BY <1>1, <1>3, <1>8, <1>10 DEF Cut
    <3> QED
      BY <1>13, <3>1, <3>2
  <2> QED
    BY <1>13, <2>2, <2>3
<1>14. Produced(i) \in Int /\ Consumed(i) \in Int
  <2>1. node[f] \in Thread /\ node[t] \in Thread
    BY <1>2, <1>10
  <2> QED
    BY <2>1, CountTypes, CountsOf DEF FromOf, ToOf
<1>15. /\ edge[i].status \in Seq(EdgeStatus) /\ Len(edge[i].status) \in Nat
       /\ DOMAIN edge[i].status = 1 .. Len(edge[i].status)
       /\ edge'[i].status \in Seq(EdgeStatus)
       /\ DOMAIN edge'[i].status = 1 .. Len(edge'[i].status)
  <2>1. edge'[i] \in EdgeOf(Origin)
    BY <1>10, NodeStepCases DEF Known, EdgesOK
  <2> QED
    BY <1>2, <1>10, <2>1 DEF EdgeOf
<1> DEFINE q == edge[i].status
           r == edge'[i].status
           k == Len(edge[i].status)
<1>16. /\ \A j \in DOMAIN q : q[j] # "FLUSH" /\ (q[j] = "FAILURE" => j = k /\ HasFailed(i))
       /\ edge[i].no_more_input => q = << >> /\ HasFailed(i)
       /\ ~edge[i].no_more_input /\ SameRun(i) /\ ~Cut(f) /\ ~Cut(t)
            => k = Produced(i) - Consumed(i)
       /\ run > 1 /\ NotStarted(f) => q = << >>
  BY <1>10 DEF EdgeInStep
<1> DEFINE Goal ==
             /\ \A j \in DOMAIN r : r[j] # "FLUSH" /\ (r[j] = "FAILURE" => j = Len(r) /\ HasFailed(i)')
             /\ edge'[i].no_more_input => r = << >> /\ HasFailed(i)'
             /\ ~edge'[i].no_more_input /\ SameRun(i)' /\ ~Cut(f)' /\ ~Cut(t)'
                  => Len(r) = Produced(i)' - Consumed(i)'
             /\ run > 1 /\ NotStarted(f)' => r = << >>
<1> SUFFICES Goal
  BY <1>12 DEF EdgeInStep
<1>17. CASE EdgeStays(i) /\ ~(i = AtEdge(n) /\ (Takes(n, y) \/ Gives(n, y)))
  <2>1. r = q /\ edge'[i].no_more_input = edge[i].no_more_input
    BY <1>17 DEF EdgeStays
  <2> HIDE DEF q, r, f, t
  <2>2. ASSUME ~edge'[i].no_more_input, SameRun(i)', ~Cut(f)', ~Cut(t)'
        PROVE  Len(r) = Produced(i)' - Consumed(i)'
    <3>1. /\ SameRun(i) /\ ~Cut(f) /\ ~Cut(t)
          /\ Produced(i)' = Produced(i) /\ Consumed(i)' = Consumed(i)
      BY <1>13, <1>14, <1>17, <2>2
    <3>2. Len(r) = k
      BY <2>1 DEF q
    <3> QED
      BY <1>16, <2>1, <2>2, <3>1, <3>2
  <2>3. Len(r) = k
    BY <2>1 DEF q
  <2> QED
    BY <1>11, <1>12, <1>16, <2>1, <2>2, <2>3 DEF Goal
<1>18. CASE Takes(n, y) /\ i = AtEdge(n)
  <2>1. CanPush(i) /\ edge' = AfterPush(i) /\ ~Gives(n, y)
    BY <1>18 DEF Takes, Gives
  <2>2. \/ edge[i].no_more_input /\ edge'[i] = edge[i]
        \/ /\ ~edge[i].no_more_input /\ k \in Nat /\ k >= 1
           /\ Len(r) = k - 1
           /\ edge'[i].no_more_input <=> q[1] = "FAILURE" /\ k = 1
           /\ \A j \in 1 .. k - 1 : r[j] = q[j + 1]
    BY <1>2, <1>10, <2>1, TakesEdge
  <2> HIDE DEF q, r, f, t
  <2>3. CASE edge[i].no_more_input /\ edge'[i] = edge[i]
    <3>1. r = q /\ edge'[i].no_more_input /\ Len(r) = k
      BY <2>3 DEF q, r
    <3> QED
      BY <1>11, <1>12, <1>16, <2>3, <3>1 DEF Goal
  <2>4. CASE /\ ~edge[i].no_more_input /\ k \in Nat /\ k >= 1
             /\ Len(r) = k - 1
             /\ edge'[i].no_more_input <=> q[1] = "FAILURE" /\ k = 1
             /\ \A j \in 1 .. k - 1 : r[j] = q[j + 1]
    <3>1. DOMAIN r = 1 .. k - 1 /\ DOMAIN q = 1 .. k
      BY <1>15, <2>4 DEF q, r
    <3>2. \A j \in 1 .. k - 1 : j + 1 \in 1 .. k /\ (j + 1 = k => j = k - 1)
      BY <2>4
    <3>3. \A j \in DOMAIN r : r[j] # "FLUSH" /\ (r[j] = "FAILURE" => j = Len(r) /\ HasFailed(i)')
      BY <1>11, <1>16, <2>4, <3>1, <3>2
    <3>4. edge'[i].no_more_input => r = << >> /\ HasFailed(i)'
      <4>1. SUFFICES ASSUME edge'[i].no_more_input
                     PROVE  r = << >> /\ HasFailed(i)'
        OBVIOUS
      <4>2. q[1] = "FAILURE" /\ k = 1 /\ 1 \in DOMAIN q
        BY <2>4, <3>1, <4>1
      <4>3. Len(r) = 0
        BY <2>4, <4>2
      <4>4. r \in Seq(EdgeStatus)
        BY <1>15 DEF r
      <4> QED
        BY <1>11, <1>16, <4>2, <4>3, <4>4, EmptySeq
    <3>5. ASSUME ~edge'[i].no_more_input, SameRun(i)', ~Cut(f)', ~Cut(t)'
          PROVE  Len(r) = Produced(i)' - Consumed(i)'
      <4>1. /\ SameRun(i) /\ ~Cut(f) /\ ~Cut(t)
            /\ Produced(i)' = Produced(i) /\ Consumed(i)' = Consumed(i) + 1
        BY <1>13, <1>14, <1>18, <2>1, <3>5
      <4>2. k = Produced(i) - Consumed(i)
        BY <1>16, <2>4, <4>1
      <4> QED
        BY <1>14, <2>4, <4>1, <4>2
    <3>6. q # << >>
      BY <2>4 DEF q
    <3> QED
      BY <1>12, <1>16, <3>3, <3>4, <3>5, <3>6 DEF Goal
  <2> QED
    BY <2>2, <2>3, <2>4
<1>19. CASE Gives(n, y) /\ i = AtEdge(n)
  <2>1. /\ f = n /\ ~HasFailed(i) /\ ~edge[i].no_more_input
        /\ \A j \in DOMAIN q : q[j] \notin {"FAILURE", "FLUSH"}
        /\ ~Takes(n, y)
    BY <1>19, GivesBeforeFailing DEF Takes, Gives
  <2>2. edge' = AfterPull(n, i) /\ node[n].pc = "out"
    BY <1>19 DEF Gives
  <2>3. /\ k \in Nat /\ Len(r) = k + 1 /\ ~edge'[i].no_more_input
        /\ r[k + 1] = node[n].last_execute_state
        /\ \A j \in 1 .. k : r[j] = q[j]
    BY <1>2, <1>7, <1>10, <2>2, GivesEdge
  <2> HIDE DEF q, r, t
  <2>4. DOMAIN r = 1 .. k + 1 /\ DOMAIN q = 1 .. k
    BY <1>15, <2>3 DEF q, r
  <2>5. node[n].last_execute_state = "FAILURE" => HasFailed(i)'
    <3>1. SUFFICES ASSUME node[n].last_execute_state = "FAILURE"
                   PROVE  HasFailed(i)'
      OBVIOUS
    <3>2. ~node[n].pushing
      BY <3>1 DEF Known, Types, ThreadOK
    <3>3. /\ y.last_execute_state = "FAILURE"
          /\ y.pc = "ended" \/ (y.pc = "out" /\ i \notin Range(y.todo))
      BY <1>19, <2>2, <3>1, <3>2 DEF Gives, SameLoop, AtHead
    <3> QED
      BY <1>1, <1>5, <2>1, <3>3 DEF HasFailed, FromOf, f
  <2>6. \A j \in DOMAIN r : r[j] # "FLUSH" /\ (r[j] = "FAILURE" => j = Len(r) /\ HasFailed(i)')
    <3>1. \A j \in DOMAIN r : j \in 1 .. k \/ j = k + 1
      BY <2>3, <2>4
    <3> QED
      BY <1>7, <2>1, <2>3, <2>4, <2>5, <3>1
  <2>7. ASSUME SameRun(i)', ~Cut(f)', ~Cut(t)'
        PROVE  Len(r) = Produced(i)' - Consumed(i)'
    <3>1. /\ SameRun(i) /\ ~Cut(f) /\ ~Cut(t)
          /\ Produced(i)' = Produced(i) + 1 /\ Consumed(i)' = Consumed(i)
      BY <1>13, <1>14, <1>19, <2>1, <2>7 DEF t
    <3>2. k = Produced(i) - Consumed(i)
      BY <1>16, <2>1, <3>1
    <3> QED
      BY <1>14, <2>3, <3>1, <3>2
  <2> QED
    BY <1>12, <1>19, <2>3, <2>6, <2>7 DEF Goal
<1> QED
  BY <1>1, <1>2, <1>7, <1>17, <1>18, <1>19, EdgeCases

-----------------------------------------------------------------------------
(* A node's step keeps the end of the stream in its place.                 *)

(* Where a run that ends by itself is, as seen from an edge. *)
LEMMA EdgeBounds ==
  ASSUME Known, Undisturbed, Ends, NEW i \in Data, SameRun(i)
  PROVE  LET x == node[net.edges[i].from]
             z == node[net.edges[i].to]
         IN  /\ Produced(i) \in Int /\ Consumed(i) \in Nat /\ net.frames \in Nat
             /\ x.sent.nth \in Nat /\ z.sent.nth \in Nat
             /\ Len(edge[i].status) \in Nat
             /\ Len(edge[i].status) = Produced(i) - Consumed(i)
             /\ Produced(i) = IF x.pc = "out" /\ i \in Range(x.todo)
                              THEN x.sent.nth - 1 ELSE x.sent.nth
             /\ Consumed(i) = IF z.pc = "execute" \/ (z.pc = "in" /\ i \notin Range(z.todo))
                              THEN z.sent.nth + 1 ELSE z.sent.nth
             /\ x.sent.nth <= net.frames + 1 /\ z.sent.nth <= net.frames + 1
             /\ edge[i].no_more_input <=> Consumed(i) = net.frames + 1
<1> DEFINE f == net.edges[i].from
           t == net.edges[i].to
           x == node[f]
           z == node[t]
<1>1. /\ i \in DOMAIN net.edges /\ f \in Nodes /\ t \in Nodes /\ net.frames \in Nat
      /\ x \in Thread /\ z \in Thread /\ Types
  BY NetworkTypes DEF Known, Types, Data
<1>2. NodeEnds(f) /\ NodeEnds(t) /\ EdgeEnds(i)
  BY <1>1 DEF Ends
<1>3. /\ x.sent.nth \in Nat /\ z.sent.nth \in Nat
      /\ ProducedOf(x, i) \in Int /\ ConsumedOf(z, i) \in Nat
  BY <1>1, CountTypes
<1>4. Produced(i) = ProducedOf(x, i) /\ Consumed(i) = ConsumedOf(z, i)
  BY CountsOf DEF FromOf, ToOf
<1>5. x.held = << >> /\ ~x.pushing /\ ~z.pushing
  BY <1>1, NothingHeld DEF Undisturbed
<1>6. Len(x.held) = 0
  BY <1>5
<1>7. edge[i].status \in Seq(EdgeStatus)
  BY <1>1 DEF Types, EdgesOK, EdgeOf
<1> HIDE DEF x, z
<1>8. /\ ProducedOf(x, i) = IF x.pc = "out" /\ i \in Range(x.todo)
                            THEN x.sent.nth - 1 ELSE x.sent.nth
      /\ ConsumedOf(z, i) = IF z.pc = "execute" \/ (z.pc = "in" /\ i \notin Range(z.todo))
                            THEN z.sent.nth + 1 ELSE z.sent.nth
  BY <1>3, <1>5, <1>6 DEF ProducedOf, ConsumedOf
<1>9. Len(edge[i].status) \in Nat
  BY <1>7
<1> QED
  BY <1>1, <1>2, <1>3, <1>4, <1>8, <1>9 DEF NodeEnds, EdgeEnds, x, z

(* A run that ends by itself gives one status for each frame. *)
LEMMA UndisturbedCounts ==
  ASSUME Types, Undisturbed
  PROVE  Counts
BY DEF Undisturbed, EndsByItself, Counts, OneStatusPerFrame, Nodes

(* The status that a node takes is a failure just when it is the last. *)
LEMMA TakesInTime ==
  ASSUME Known, InStep, Undisturbed, Ends, NEW n \in Nodes, NEW y \in Thread,
         Takes(n, y), NEW i \in Data, i = AtEdge(n)
  PROVE  /\ net.edges[i].to = n /\ SameRun(i) /\ ~edge[i].no_more_input
         /\ Len(edge[i].status) \in Nat /\ Len(edge[i].status) >= 1
         /\ Consumed(i) = node[n].sent.nth /\ node[n].sent.nth <= net.frames
         /\ PushedStatus(i) = edge[i].status[1]
         /\ PushedStatus(i) = "FAILURE" <=> node[n].sent.nth = net.frames
<1> DEFINE x == node[n]
<1>1. /\ x.pc = "in" /\ CanPush(i) /\ edge' = AfterPush(i) /\ Types
      /\ i \in DOMAIN net.edges
  BY DEF Takes, Known, Data
<1>2. net.edges[i].to = n /\ i \in Range(x.todo)
  BY <1>1, AtEdgeOf DEF Types, ThreadOK, EdgesTo
<1>3. SameRun(i) /\ NodeEnds(n) /\ EdgeEnds(i) /\ NodeInStep(n)
  <2>1. ~NotStarted(n)
    BY NodeIsStarted DEF NodeCases
  <2>2. SameRun(i)
    BY <1>1, <2>1, AllReset
  <2> QED
    BY <1>1, <2>2, UndisturbedCounts DEF Ends, InStep
<1>4. /\ Consumed(i) = x.sent.nth /\ x.sent.nth \in Nat /\ net.frames \in Nat
      /\ x.sent.nth <= net.frames + 1
      /\ edge[i].no_more_input <=> x.sent.nth = net.frames + 1
  <2>1. ~(x.pc = "execute" \/ (x.pc = "in" /\ i \notin Range(x.todo)))
    BY <1>1, <1>2
  <2> QED
    BY <1>2, <1>3, <2>1, EdgeBounds
<1>5. x.sent.nth # net.frames + 1
  BY <1>1, <1>3 DEF NodeInStep, NodeEnds
<1>6. ~edge[i].no_more_input /\ x.sent.nth <= net.frames
  BY <1>4, <1>5
<1>7. /\ PushedStatus(i) = edge[i].status[1]
      /\ Len(edge[i].status) \in Nat /\ Len(edge[i].status) >= 1
  BY <1>1, <1>6, TakesEdge
<1>8. edge[i].status[1] = "FAILURE" <=> Consumed(i) + 1 = net.frames + 1
  <2>1. edge[i].status \in Seq(EdgeStatus)
    BY <1>1 DEF Types, EdgesOK, EdgeOf
  <2>2. 1 \in DOMAIN edge[i].status
    BY <1>7, <2>1
  <2> QED
    BY <1>3, <2>2 DEF EdgeEnds
<1> QED
  BY <1>2, <1>3, <1>4, <1>6, <1>7, <1>8

(* At the end, a source fails, and so does what has got a failure. *)
LEMMA ExecutesInTime ==
  ASSUME Known, InStep, Undisturbed, Ends, NEW n \in Nodes, NEW y \in Thread,
         Executes(n, y)
  PROVE  /\ node[n].sent.nth \in Nat /\ node[n].sent.nth <= net.frames
         /\ y.sent.nth = node[n].sent.nth + 1
         /\ y.last_execute_state = "FAILURE" <=> node[n].sent.nth = net.frames
<1> DEFINE x == node[n]
           st == y.last_execute_state
<1>1. /\ Types /\ NodeEnds(n) /\ NodeInStep(n) /\ OneStatusPerFrame /\ net.frames # 0
      /\ x \in Thread /\ ThreadOK(x, n) /\ net.frames \in Nat
  BY UndisturbedCounts, NetworkTypes DEF Ends, InStep, Known, Counts, Types
<1>2. x.sent.nth \in Nat /\ x.sent \in Origin /\ x.left \in Nat
  <2>1. x.sent \in Origin /\ x.left \in 0 .. net.frames
    BY <1>1 DEF Thread
  <2> QED
    BY <1>1, <2>1, OriginFields
<1>3. x.pc = "execute"
  BY DEF Executes
<1>4. x.sent.nth <= net.frames
  <2>1. x.sent.nth # net.frames + 1 /\ x.sent.nth <= net.frames + 1
    BY <1>1, <1>3 DEF NodeInStep, NodeEnds
  <2> QED
    BY <1>1, <1>2, <2>1
<1>5. /\ st \in {"FAILURE", "SUCCESS", "SKIP"}
      /\ st = "FAILURE" => "FAILURE" \in x.found \/ "FAILURE" \in Returns(n)
      /\ "FAILURE" \in x.found => st = "FAILURE"
      /\ Returns(n) = {"FAILURE"} /\ x.found = {} => st = "FAILURE"
  BY <1>1, ExecutesStatus
<1>6. y.sent.nth = x.sent.nth + 1
  <2>1. y.sent = NextSent(x.sent, st) /\ st # "FLUSH"
    BY <1>1, <1>5 DEF Executes
  <2> QED
    BY <1>2, <2>1, NextSentFields
<1>7. "FAILURE" \notin net.returns[n] /\ (EdgesTo(n) # {} => EdgesTo(n) \cap Data # {})
  BY <1>1, NothingHeld DEF Undisturbed
<1>8. CASE IsSource(n)
  <2>1. x.found = {} /\ x.left = net.frames - x.sent.nth
    BY <1>1, <1>3, <1>4, <1>8 DEF NodeEnds
  <2>2. x.left = 0 <=> x.sent.nth = net.frames
    BY <1>1, <1>2, <2>1
  <2>3. Returns(n) = IF x.sent.nth = net.frames THEN {"FAILURE"} ELSE net.returns[n]
    BY <1>1, <1>8, <2>2 DEF Returns
  <2> QED
    BY <1>2, <1>4, <1>5, <1>6, <1>7, <2>1, <2>3
<1>9. CASE ~IsSource(n)
  <2>1. EdgesTo(n) \cap Data # {}
    BY <1>7, <1>9 DEF IsSource
  <2>2. Range(x.todo) = {}
    BY <1>1, <1>3 DEF ThreadOK, Range
  <2>3. "FAILURE" \in x.found <=> x.sent.nth = net.frames
    BY <1>1, <1>3, <2>1, <2>2 DEF NodeEnds
  <2>4. Returns(n) = net.returns[n]
    BY <1>9 DEF Returns
  <2> QED
    BY <1>2, <1>4, <1>5, <1>6, <1>7, <2>3, <2>4
<1> QED
  BY <1>8, <1>9

(* A node's step leaves every node at its frame. *)
LEMMA NodeEndsNodeStep ==
  ASSUME Known, InStep, Undisturbed, Ends, NEW n \in Nodes, NEW y \in Thread,
         NodeCases(n, y), node' = [node EXCEPT ![n] = y],
         UNCHANGED << net, call, run, cancelled >>
  PROVE  NodeEnds(n)'
<1> DEFINE x == node[n]
<1>1. /\ Types /\ NodeEnds(n) /\ NodeInStep(n) /\ x \in Thread /\ ThreadOK(x, n)
      /\ net.frames \in Nat /\ node'[n] = y /\ OneStatusPerFrame /\ net.frames # 0
  BY UndisturbedCounts, NetworkTypes DEF Ends, InStep, Known, Types, Counts
<1>2. ~NotStarted(n) /\ ~NotReset(n) /\ ~NoThread(x)
  BY NodeIsStarted
<1>3. NotStarted(n)' = NotStarted(n) /\ NotReset(n)' = NotReset(n)
  BY SamePosition
<1>4. ~IsFlushed(n, y) /\ ~Stops(n, y)
  BY NothingFlushed, NothingStopped, UndisturbedCounts DEF Known
<1>5. /\ ~(net.holds[n] > 0) /\ x.held = << >> /\ ~x.pushing
      /\ EdgesTo(n) # {} => EdgesTo(n) \cap Data # {}
  BY <1>1, NothingHeld DEF Undisturbed
<1>6. x.sent.nth \in Nat /\ x.left \in Nat
  <2>1. x.sent \in Origin /\ x.left \in 0 .. net.frames
    BY <1>1 DEF Thread
  <2> QED
    BY <1>1, <2>1, OriginFields
<1>7. y.interrupted = x.interrupted
  BY NodeStepsInRun DEF Known, SameCalls
<1>8. x.interrupted => Past(n)
  BY <1>1, <1>2 DEF NodeEnds
<1> DEFINE Goal ==
      /\ y.sent.nth <= net.frames + 1
      /\ y.last_execute_state = "FAILURE" <=> y.sent.nth = net.frames + 1
      /\ IsSource(n) => y.left = IF y.sent.nth <= net.frames
                                 THEN net.frames - y.sent.nth ELSE 0
      /\ IsSource(n) /\ y.pc = "execute" => y.found = {}
      /\ y.pc \in {"in", "execute"} =>
           ("FAILURE" \in y.found
              <=> /\ y.sent.nth = net.frames
                  /\ \E i \in EdgesTo(n) \cap Data : i \notin Range(y.todo))
      /\ y.interrupted =>
           /\ y.sent.nth = net.frames + 1
           /\ y.last_execute_state = "FAILURE"
           /\ y.pc \in {"out", "ended"}
           /\ Range(y.todo) \cap Data = {}
<1> SUFFICES Goal
  BY <1>1, <1>2, <1>3 DEF NodeEnds, Past, IsSource, EdgesTo, Data
<1>9. /\ x.sent.nth <= net.frames + 1
      /\ x.last_execute_state = "FAILURE" <=> x.sent.nth = net.frames + 1
      /\ IsSource(n) => x.left = IF x.sent.nth <= net.frames
                                 THEN net.frames - x.sent.nth ELSE 0
      /\ IsSource(n) /\ x.pc = "execute" => x.found = {}
      /\ x.pc \in {"in", "execute"} =>
           ("FAILURE" \in x.found
              <=> /\ x.sent.nth = net.frames
                  /\ \E i \in EdgesTo(n) \cap Data : i \notin Range(x.todo))
      /\ x.interrupted =>
           /\ x.sent.nth = net.frames + 1
           /\ x.last_execute_state = "FAILURE"
           /\ x.pc \in {"out", "ended"}
           /\ Range(x.todo) \cap Data = {}
  BY <1>1, <1>8 DEF NodeEnds, Past
<1>10. x.last_execute_state = "FAILURE" => x.pc \in {"out", "ended"}
  BY <1>1 DEF NodeInStep
<1> HIDE DEF x, Goal
(* At the head of the loop nothing was found yet. *)
<1>11. ASSUME AtHead(y, n)
       PROVE  /\ y.found = {}
              /\ y.pc \in {"in", "execute"} =>
                   ~\E i \in EdgesTo(n) \cap Data : i \notin Range(y.todo)
              /\ y.last_execute_state = "FAILURE" =>
                   y.pc = "ended" /\ Range(y.todo) \cap Data = {}
  <2>1. y.todo = << >> => Range(y.todo) = {}
    BY DEF Range
  <2>2. y.pc = "execute" => EdgesTo(n) = {}
    BY <1>11 DEF AtHead, IsSource
  <2> QED
    BY <1>11, <2>1, <2>2 DEF AtHead
<1>12. CASE Waits(n, y)
  <2>1. /\ y.sent = x.sent /\ y.left = x.left /\ y.found = x.found /\ y.todo = x.todo
        /\ y.pc = x.pc /\ y.last_execute_state = x.last_execute_state
    BY <1>12 DEF Waits, SameRest, SameLoop, x
  <2> QED
    BY <1>7, <1>9, <2>1 DEF Goal
<1>13. CASE Takes(n, y)
  <2> DEFINE i == AtEdge(n)
  <2>1. /\ y.sent = x.sent /\ y.left = x.left /\ x.pc = "in"
        /\ y.last_execute_state = x.last_execute_state
        /\ y.found = x.found \cup Noted(i, PushedStatus(i))
        /\ Range(y.todo) = Range(x.todo) \ {i}
        /\ CanPush(i) /\ edge' = AfterPush(i)
    BY <1>13 DEF Takes, SameRest, x
  <2>2. i \in EdgesTo(n) /\ i \in Range(x.todo) /\ i \in DOMAIN net.edges
    BY <1>1, <2>1, AtEdgeOf DEF ThreadOK, x
  <2>3. ~IsSource(n) /\ ~x.interrupted
    BY <1>9, <2>1, <2>2 DEF IsSource
  <2>4. CASE i \in Data
    <3>1. PushedStatus(i) = "FAILURE" <=> x.sent.nth = net.frames
      BY <1>13, <2>4, TakesInTime DEF x
    <3>2. net.edges[i].kind # "optional"
      BY <2>2 DEF Undisturbed, EndsByItself
    <3>3. "FAILURE" \in Noted(i, PushedStatus(i)) <=> PushedStatus(i) = "FAILURE"
      BY <3>2 DEF Noted
    <3>4. \E j \in EdgesTo(n) \cap Data : j \notin Range(y.todo)
      BY <2>1, <2>2, <2>4
    <3> HIDE DEF i
    <3> QED
      BY <1>7, <1>9, <2>1, <2>3, <3>1, <3>3, <3>4 DEF Goal
  <2>5. CASE i \notin Data
    <3>1. PushedStatus(i) = "SUCCESS"
      BY <1>1, <2>1, <2>2, <2>5, TakesEdge
    <3>2. Noted(i, PushedStatus(i)) = {}
      BY <3>1 DEF Noted
    <3>3. \A j \in EdgesTo(n) \cap Data : j \in Range(y.todo) <=> j \in Range(x.todo)
      BY <2>1, <2>5
    <3> HIDE DEF i
    <3> QED
      BY <1>7, <1>9, <2>1, <2>3, <3>2, <3>3 DEF Goal
  <2> QED
    BY <2>4, <2>5
<1>14. CASE Executes(n, y)
  <2>1. /\ x.sent.nth <= net.frames
        /\ y.sent.nth = x.sent.nth + 1
        /\ y.last_execute_state = "FAILURE" <=> x.sent.nth = net.frames
    BY <1>14, ExecutesInTime DEF x
  <2>2. /\ x.pc = "execute"
        /\ y.left = IF IsSource(n) /\ x.left > 0 THEN x.left - 1 ELSE x.left
        /\ AtHead(y, n) \/ AtOut(y, n)
    BY <1>14 DEF Executes, x
  <2>3. ~x.interrupted
    BY <1>9, <2>2
  <2>4. IsSource(n) => y.left = IF y.sent.nth <= net.frames
                                THEN net.frames - y.sent.nth ELSE 0
    BY <1>1, <1>6, <1>9, <2>1, <2>2
  <2>5. /\ y.sent.nth <= net.frames + 1
        /\ y.last_execute_state = "FAILURE" <=> y.sent.nth = net.frames + 1
    BY <1>1, <1>6, <2>1
  <2>6. CASE AtHead(y, n)
    BY <1>7, <1>11, <2>3, <2>4, <2>5, <2>6 DEF Goal
  <2>7. CASE AtOut(y, n)
    BY <1>7, <2>3, <2>4, <2>5, <2>7 DEF Goal, AtOut
  <2> QED
    BY <2>2, <2>6, <2>7
<1>15. CASE Gives(n, y)
  <2>1. /\ y.sent = x.sent /\ y.left = x.left /\ x.pc = "out"
        /\ y.last_execute_state = x.last_execute_state
        /\ \/ Range(y.todo) = Range(x.todo) \ {AtEdge(n)} /\ SameLoop(x, y)
           \/ AtHead(y, n)
    BY <1>5, <1>15 DEF Gives, SameRest, SameLoop, x
  <2>2. CASE Range(y.todo) = Range(x.todo) \ {AtEdge(n)} /\ SameLoop(x, y)
    <3>1. /\ y.pc = "out"
          /\ x.interrupted => Range(y.todo) \cap Data = {}
      BY <1>9, <2>1, <2>2 DEF SameLoop
    <3> QED
      BY <1>7, <1>9, <2>1, <3>1 DEF Goal
  <2>3. CASE AtHead(y, n)
    BY <1>7, <1>9, <1>11, <2>1, <2>3 DEF Goal
  <2> QED
    BY <2>1, <2>2, <2>3
<1>16. ~HoldsBack(n, y)
  BY <1>5 DEF HoldsBack
<1> QED
  BY <1>4, <1>12, <1>13, <1>14, <1>15, <1>16 DEF NodeCases

(* A node's step leaves the failure behind the last frame. *)
LEMMA EdgeEndsNodeStep ==
  ASSUME Known, InStep, Undisturbed, Ends, NEW n \in Nodes, NEW y \in Thread,
         NodeCases(n, y), node' = [node EXCEPT ![n] = y], EdgesOK(edge'),
         UNCHANGED << net, call, run, cancelled >>, NEW i \in Data
  PROVE  EdgeEnds(i)'
<1> DEFINE f == net.edges[i].from
           t == net.edges[i].to
           q == edge[i].status
           r == edge'[i].status
           k == Len(q)
<1>1. /\ i \in DOMAIN net.edges /\ Types /\ Counts /\ OneStatusPerFrame /\ net.frames # 0
      /\ EdgeEnds(i) /\ NodeInStep(n)
  BY UndisturbedCounts DEF Data, Known, Ends, InStep, Counts
<1>2. ~IsFlushed(n, y) /\ ~Stops(n, y) /\ node[n].last_execute_state # "FLUSH"
  BY <1>1, NothingFlushed, NothingStopped DEF NodeInStep
<1>17. SameRun(i)
  BY <1>1, NodeIsStarted, AllReset
<1>3. /\ Produced(i)' = Produced(i) + (IF Gives(n, y) /\ i = AtEdge(n) THEN 1 ELSE 0)
      /\ Consumed(i)' = Consumed(i) + (IF Takes(n, y) /\ i = AtEdge(n) THEN 1 ELSE 0)
      /\ SameRun(i)
  BY <1>1, <1>2, <1>17, CountStays
<1>4. /\ Produced(i) \in Int /\ Consumed(i) \in Nat /\ net.frames \in Nat
      /\ k \in Nat /\ k = Produced(i) - Consumed(i)
      /\ edge[i].no_more_input <=> Consumed(i) = net.frames + 1
      /\ Produced(i) <= net.frames + 1
      /\ Produced(i) = IF node[f].pc = "out" /\ i \in Range(node[f].todo)
                       THEN node[f].sent.nth - 1 ELSE node[f].sent.nth
      /\ node[f].sent.nth \in Nat /\ node[f].sent.nth <= net.frames + 1
  <2>1. /\ Produced(i) \in Int /\ Consumed(i) \in Nat /\ net.frames \in Nat
        /\ k \in Nat /\ k = Produced(i) - Consumed(i)
        /\ node[f].sent.nth \in Nat /\ node[f].sent.nth <= net.frames + 1
        /\ edge[i].no_more_input <=> Consumed(i) = net.frames + 1
        /\ Produced(i) = IF node[f].pc = "out" /\ i \in Range(node[f].todo)
                         THEN node[f].sent.nth - 1 ELSE node[f].sent.nth
    BY <1>17, EdgeBounds, Zenon
  <2> HIDE DEF f, k
  <2>3. Produced(i) <= net.frames + 1
    BY <2>1
  <2> QED
    BY <2>1, <2>3
<1> DEFINE p == Produced(i)
           c == Consumed(i)
           m == net.frames
<1>10. p \in Int /\ c \in Nat /\ m \in Nat /\ k \in Nat /\ k = p - c /\ p <= m + 1
  BY <1>4
<1>5. \A j \in DOMAIN q : q[j] = "FAILURE" <=> Consumed(i) + j = net.frames + 1
  BY <1>1, <1>3 DEF EdgeEnds
<1>6. DOMAIN q = 1 .. k /\ DOMAIN r = 1 .. Len(r)
  <2>1. q \in Seq(EdgeStatus) /\ r \in Seq(EdgeStatus)
    BY <1>1 DEF Types, EdgesOK, EdgeOf
  <2> QED
    BY <2>1
<1> DEFINE Goal == /\ Len(r) = Produced(i)' - Consumed(i)'
                   /\ edge'[i].no_more_input <=> Consumed(i)' = net.frames + 1
                   /\ \A j \in DOMAIN r :
                        r[j] = "FAILURE" <=> Consumed(i)' + j = net.frames + 1
<1> SUFFICES Goal
  BY DEF EdgeEnds
<1>7. CASE EdgeStays(i) /\ ~(i = AtEdge(n) /\ (Takes(n, y) \/ Gives(n, y)))
  <2>1. r = q /\ edge'[i].no_more_input = edge[i].no_more_input
    BY <1>7 DEF EdgeStays
  <2>2. Len(r) = k
    BY <2>1
  <2>3. Produced(i)' = p /\ Consumed(i)' = c
    <3> HIDE DEF p, c
    <3>1. /\ Produced(i)' = p + (IF Gives(n, y) /\ i = AtEdge(n) THEN 1 ELSE 0)
          /\ Consumed(i)' = c + (IF Takes(n, y) /\ i = AtEdge(n) THEN 1 ELSE 0)
      BY <1>3 DEF p, c
    <3> QED
      BY <1>7, <1>10, <3>1
  <2> HIDE DEF q, r, f, t, k
  <2> QED
    BY <1>4, <1>5, <2>1, <2>2, <2>3 DEF Goal
<1>8. CASE Takes(n, y) /\ i = AtEdge(n)
  <2>1. CanPush(i) /\ edge' = AfterPush(i) /\ ~Gives(n, y)
    BY <1>8 DEF Takes, Gives
  <2>2. ~edge[i].no_more_input /\ k >= 1
    BY <1>8, TakesInTime
  <2>3. /\ Len(r) = k - 1
        /\ edge'[i].no_more_input <=> q[1] = "FAILURE" /\ k = 1
        /\ \A j \in 1 .. k - 1 : r[j] = q[j + 1]
    BY <1>1, <2>1, <2>2, TakesEdge
  <2>4. Produced(i)' = Produced(i) /\ Consumed(i)' = Consumed(i) + 1
    <3>1. Produced(i)' = Produced(i) + 0 /\ Consumed(i)' = Consumed(i) + 1
      BY <1>3, <1>8, <2>1
    <3>2. Produced(i) \in Int
      BY <1>4
    <3> QED
      BY <3>1, <3>2
  <2> HIDE DEF q, r, f, t, k
  <2>5. Len(r) = Produced(i)' - Consumed(i)'
    <3>1. Produced(i)' = p /\ Consumed(i)' = c + 1 /\ Len(r) = k - 1
      BY <2>3, <2>4
    <3> HIDE DEF p, c
    <3> QED
      BY <1>10, <3>1
  <2>6. q[1] = "FAILURE" <=> Consumed(i) + 1 = net.frames + 1
    <3>1. 1 \in DOMAIN q
      BY <1>4, <1>6, <2>2
    <3> QED
      BY <1>5, <3>1
  <2>7. edge'[i].no_more_input <=> Consumed(i)' = net.frames + 1
    <3>1. /\ Consumed(i)' = c + 1 /\ k >= 1
          /\ q[1] = "FAILURE" <=> c + 1 = m + 1
          /\ edge'[i].no_more_input <=> (q[1] = "FAILURE" /\ k = 1)
      BY <2>2, <2>3, <2>4, <2>6
    <3> HIDE DEF p, c
    <3>2. c + 1 = m + 1 => k = 1
      BY <1>10, <3>1
    <3> QED
      BY <3>1, <3>2 DEF m
  <2>8. \A j \in DOMAIN r : r[j] = "FAILURE" <=> Consumed(i)' + j = net.frames + 1
    <3> SUFFICES ASSUME NEW j \in DOMAIN r
                 PROVE  r[j] = "FAILURE" <=> Consumed(i)' + j = net.frames + 1
      OBVIOUS
    <3>1. j \in 1 .. k - 1 /\ j + 1 \in DOMAIN q
      <4>1. k \in Nat /\ DOMAIN q = 1 .. k /\ DOMAIN r = 1 .. k - 1
        BY <1>4, <1>6, <2>3
      <4> QED
        BY <4>1
    <3>2. Consumed(i)' + j = Consumed(i) + (j + 1)
      BY <1>4, <2>4, <3>1
    <3> QED
      BY <1>5, <2>3, <3>1, <3>2
  <2> QED
    BY <2>5, <2>7, <2>8 DEF Goal
<1>9. CASE Gives(n, y) /\ i = AtEdge(n)
  <2>1. /\ f = n /\ ~edge[i].no_more_input /\ ~Takes(n, y)
        /\ edge' = AfterPull(n, i) /\ node[n].pc = "out"
    BY <1>1, <1>9, GivesBeforeFailing DEF Takes, Gives
  <2>2. /\ k \in Nat /\ Len(r) = k + 1 /\ ~edge'[i].no_more_input
        /\ r[k + 1] = node[n].last_execute_state
        /\ \A j \in 1 .. k : r[j] = q[j]
    BY <1>1, <1>2, <2>1, GivesEdge
  <2>3. Produced(i)' = Produced(i) + 1 /\ Consumed(i)' = Consumed(i)
    BY <1>3, <1>4, <1>9, <2>1
  <2>4. Produced(i) + 1 = node[n].sent.nth
    <3>1. i \in Range(node[n].todo)
      BY <1>1, <1>9, <2>1, AtEdgeOf DEF Types, ThreadOK
    <3> QED
      BY <1>4, <2>1, <3>1
  <2>5. node[n].last_execute_state = "FAILURE" <=> node[n].sent.nth = net.frames + 1
    BY DEF Ends, NodeEnds
  <2> HIDE DEF q, r, f, t, k
  <2>6. Len(r) = Produced(i)' - Consumed(i)'
    BY <1>4, <2>2, <2>3
  <2>7. edge'[i].no_more_input <=> Consumed(i)' = net.frames + 1
    BY <1>4, <2>1, <2>2, <2>3
  <2>8. \A j \in DOMAIN r : r[j] = "FAILURE" <=> Consumed(i)' + j = net.frames + 1
    <3> SUFFICES ASSUME NEW j \in DOMAIN r
                 PROVE  r[j] = "FAILURE" <=> Consumed(i)' + j = net.frames + 1
      OBVIOUS
    <3>1. CASE j = k + 1
      <4>1. Consumed(i)' + j = node[n].sent.nth
        BY <1>4, <2>3, <2>4, <3>1
      <4> QED
        BY <2>2, <2>5, <3>1, <4>1
    <3>2. CASE j # k + 1
      <4>1. j \in 1 .. k /\ j \in DOMAIN q
        BY <1>6, <2>2, <3>2
      <4> QED
        BY <1>5, <2>2, <2>3, <4>1
    <3> QED
      BY <3>1, <3>2
  <2> QED
    BY <2>6, <2>7, <2>8 DEF Goal
<1> QED
  BY <1>1, <1>2, <1>7, <1>8, <1>9, EdgeCases

(* A node's step leaves the end of the stream in its place. *)
LEMMA EndsNodeStep ==
  ASSUME Known, InStep, Ends, NEW n \in Nodes, NodeStep(n)
  PROVE  Ends'
<1>1. PICK y \in Thread : /\ NodeCases(n, y) /\ node' = [node EXCEPT ![n] = y]
                          /\ EdgesOK(edge')
                          /\ UNCHANGED << net, call, run, cancelled >>
  BY NodeStepCases DEF Known
<1>2. Undisturbed' = Undisturbed /\ Data' = Data /\ Nodes' = Nodes
  BY <1>1, SameCounts
<1> SUFFICES ASSUME Undisturbed
             PROVE  /\ \A m \in Nodes : NodeEnds(m)'
                    /\ \A i \in Data : EdgeEnds(i)'
  BY <1>2 DEF Ends
<1>3. \A i \in Data : EdgeEnds(i)'
  BY <1>1, EdgeEndsNodeStep
<1>4. NodeEnds(n)'
  BY <1>1, NodeEndsNodeStep
<1>5. ASSUME NEW m \in Nodes, m # n
      PROVE  NodeEnds(m)'
  <2>1. node'[m] = node[m] /\ NodeEnds(m)
    BY <1>1, <1>5 DEF Known, Types, Ends
  <2>2. NotStarted(m)' = NotStarted(m) /\ NotReset(m)' = NotReset(m)
    BY <1>1, SamePosition
  <2>3. Past(m)' = Past(m)
    BY <1>1, <1>2, <2>1 DEF Past
  <2>4. IsSource(m)' = IsSource(m) /\ EdgesTo(m)' = EdgesTo(m)
    BY <1>1 DEF IsSource, EdgesTo
  <2> QED
    BY <1>1, <1>2, <2>1, <2>2, <2>3, <2>4 DEF NodeEnds
<1> QED
  BY <1>3, <1>4, <1>5

-----------------------------------------------------------------------------
(* The steps of the callers keep both.                                     *)

(* Where the output nodes have been joined, all were started. *)
LEMMA OutputsAreJoined ==
  ASSUME Types, CallsAreKnown, OutputsJoined
  PROVE  /\ \A n \in net.output : Joined(n)
         /\ \A n \in Nodes : ~NotStarted(n)
<1>1. net \in Networks /\ At \in Nat /\ N \in Nat /\ Len(Critical) \in Nat
  BY NextVisit DEF Types
<1>2. At >= 2 * N + Len(Critical)
  BY DEF OutputsJoined
<1>3. ASSUME NEW n \in net.output
      PROVE  Joined(n)
  <2>1. PICK k \in 1 .. Len(Critical) : Critical[k] = n
    BY <1>1, NetworkTypes, OutputLoops
  <2>2. At >= 2 * N + k
    BY <1>1, <1>2
  <2> QED
    BY <2>1, <2>2 DEF Joined
<1>4. \A p \in 1 .. N : ~(At < N + p)
  BY <1>1, <1>2
<1>5. \A n \in Nodes : ~NotStarted(n)
  BY <1>4 DEF NotStarted
<1> QED
  BY <1>3, <1>5

(* When the output nodes have ended, every node is past the failure: it    *)
(* has a part in what one of them got. *)
LEMMA AllPast ==
  ASSUME Known, InStep, Ends, Undisturbed, OutputsJoined, NEW n \in Nodes
  PROVE  Past(n)
<1> DEFINE S == {m \in Nodes : node[m].sent.nth = net.frames + 1}
<1>1. /\ Types /\ Counts /\ CallsAreKnown /\ net.frames \in Nat
      /\ \A m \in Nodes : NodeInStep(m) /\ NodeEnds(m) /\ ThreadKnown(m)
  BY UndisturbedCounts, NetworkTypes DEF Known, InStep, Ends, Types
<1>2. \A m \in Nodes : ~NotStarted(m)
  BY <1>1, OutputsAreJoined
<1>3. \A i \in Data : SameRun(i) /\ i \in DOMAIN net.edges
  BY <1>2, AllReset DEF Data
<1>4. /\ \A i \in DOMAIN net.edges : net.edges[i].from \in Nodes /\ net.edges[i].to \in Nodes
      /\ net.output \subseteq Nodes
  BY <1>1, NetworkTypes DEF Types
<1>5. net.output \subseteq S
  <2> SUFFICES ASSUME NEW m \in net.output
               PROVE  m \in S
    OBVIOUS
  <2>1. m \in Nodes /\ Joined(m)
    BY <1>1, <1>4, OutputsAreJoined
  <2>2. node[m].pc = "ended" /\ ~Cut(m)
    BY <1>1, <2>1 DEF ThreadKnown, Cut
  <2>3. node[m].last_execute_state = "FAILURE"
    BY <1>1, <1>2, <2>1, <2>2 DEF NodeInStep
  <2> QED
    BY <1>1, <2>1, <2>3 DEF NodeEnds
<1>6. ASSUME NEW i \in Data, net.edges[i].to \in S
      PROVE  /\ net.edges[i].from \in S
             /\ ~(node[net.edges[i].from].pc = "out"
                    /\ i \in Range(node[net.edges[i].from].todo))
  <2> DEFINE x == node[net.edges[i].from]
             z == node[net.edges[i].to]
             p == Produced(i)
             c == Consumed(i)
             k == Len(edge[i].status)
             waits == x.pc = "out" /\ i \in Range(x.todo)
  <2>1. /\ p \in Int /\ c \in Nat /\ x.sent.nth \in Nat /\ k \in Nat
        /\ k = p - c
        /\ p = IF waits THEN x.sent.nth - 1 ELSE x.sent.nth
        /\ c = z.sent.nth + 1 \/ c = z.sent.nth
        /\ x.sent.nth <= net.frames + 1
        /\ z.sent.nth = net.frames + 1
    BY <1>3, <1>6, EdgeBounds
  <2>2. net.edges[i].from \in Nodes
    BY <1>3, <1>4
  <2> HIDE DEF x, z, p, c, k, waits
  <2>3. x.sent.nth = net.frames + 1 /\ ~waits
    BY <1>1, <2>1
  <2> QED
    BY <2>2, <2>3 DEF x, waits
<1>7. S = Nodes
  <2>1. LeadToOutputs(net)
    BY DEF Undisturbed, EndsByItself
  <2>2. S \in SUBSET Range(net.order)
    BY DEF Nodes
  <2>3. \A i \in DOMAIN net.edges :
          net.edges[i].kind # "dependency" /\ net.edges[i].to \in S
            => net.edges[i].from \in S
    BY <1>6 DEF Data
  <2> HIDE DEF S
  <2> QED
    BY <1>5, <2>1, <2>2, <2>3 DEF LeadToOutputs, Nodes
<1>8. /\ node[n].sent.nth = net.frames + 1
      /\ node[n].last_execute_state = "FAILURE"
      /\ node[n].pc \in {"out", "ended"}
  BY <1>1, <1>7 DEF NodeEnds, NodeInStep
<1>9. Range(node[n].todo) \cap Data = {}
  <2>1. ThreadOK(node[n], n) /\ node[n] \in Thread
    BY <1>1 DEF Types
  <2>2. CASE node[n].pc = "ended"
    BY <2>1, <2>2 DEF ThreadOK, Range
  <2>3. ASSUME node[n].pc = "out", NEW i \in Range(node[n].todo), i \in Data
        PROVE  FALSE
    <3>1. net.edges[i].from = n
      BY <2>1, <2>3 DEF ThreadOK, Range
    <3>2. net.edges[i].to \in S
      BY <1>3, <1>4, <1>7, <2>3
    <3> QED
      BY <1>6, <2>3, <3>1, <3>2
  <2> QED
    BY <1>8, <2>2, <2>3
<1> QED
  BY <1>8, <1>9 DEF Past

(* An edge that nothing happens to, between threads that go on as before.  *)
LEMMA EdgeKept ==
  ASSUME NEW i \in Data, net' = net, run' = run, cancelled' = cancelled,
         edge'[i] = edge[i],
         Produced(i)' = Produced(i), Consumed(i)' = Consumed(i),
         SameRun(i)' = SameRun(i)
  PROVE  /\ EdgeEnds(i) => EdgeEnds(i)'
         /\ EdgeInStep(i)
            /\ (HasFailed(i) => HasFailed(i)')
            /\ (Cut(net.edges[i].from) => Cut(net.edges[i].from)')
            /\ (Cut(net.edges[i].to) => Cut(net.edges[i].to)')
            /\ (NotStarted(net.edges[i].from)' => NotStarted(net.edges[i].from))
              => EdgeInStep(i)'
<1>1. EdgeEnds(i) => EdgeEnds(i)'
  BY DEF EdgeEnds
<1>2. ASSUME EdgeInStep(i), HasFailed(i) => HasFailed(i)',
             Cut(net.edges[i].from) => Cut(net.edges[i].from)',
             Cut(net.edges[i].to) => Cut(net.edges[i].to)',
             NotStarted(net.edges[i].from)' => NotStarted(net.edges[i].from)
      PROVE  EdgeInStep(i)'
  <2> DEFINE f == net.edges[i].from
             t == net.edges[i].to
  <2>1. Cut(f)' = Cut(net.edges[i].from)' /\ Cut(t)' = Cut(net.edges[i].to)'
    OBVIOUS
  <2> QED
    BY <1>2, <2>1 DEF EdgeInStep
<1> QED
  BY <1>1, <1>2

(* The counts of a thread that is not in its loop, before it is started    *)
(* and after. *)
LEMMA CountsOfStarting ==
  ASSUME NEW x \in Thread, NEW n \in Nodes, ThreadOK(x, n), NoThread(x),
         NEW i \in DOMAIN net.edges
  PROVE  /\ ProducedOf(x, i) = x.sent.nth - Len(x.held)
         /\ ConsumedOf(x, i) = x.sent.nth
         /\ \A y \in Thread : AtHead(y, n) /\ y.sent = x.sent /\ y.held = x.held =>
              /\ ProducedOf(y, i) = ProducedOf(x, i)
              /\ i \in EdgesTo(n) => ConsumedOf(y, i) = ConsumedOf(x, i)
<1>1. x.pc \in {"none", "ended"} /\ ~x.pushing
  BY DEF NoThread, ThreadOK
<1>2. /\ ProducedOf(x, i) = x.sent.nth - Len(x.held)
      /\ ConsumedOf(x, i) = x.sent.nth
  <2>1. x.sent.nth \in Nat /\ Len(x.held) \in Nat
    BY CountTypes
  <2> QED
    BY <1>1, <2>1 DEF ProducedOf, ConsumedOf
<1> QED
  BY <1>2, CountsAtHead

(* What the steps of a caller that starts or resets nothing leave alone.   *)
LEMMA SameThreadCounts ==
  ASSUME Types, NEW v \in Nodes, NEW y \in Thread, LeavesThread(v, y),
         node' = [node EXCEPT ![v] = y], UNCHANGED << net, run, cancelled >>
  PROVE  /\ \A n \in Nodes :
              /\ SameThread(node[n], node'[n])
              /\ NotStarted(n)' <=> NotStarted(n)
              /\ NotReset(n)' <=> NotReset(n)
              /\ Cut(n)' <=> Cut(n)
         /\ \A i \in DOMAIN net.edges :
              /\ Produced(i)' = Produced(i) /\ Consumed(i)' = Consumed(i)
              /\ SameRun(i)' = SameRun(i) /\ HasFailed(i)' = HasFailed(i)
<1>1. node'[v] = y /\ \A m \in Nodes \ {v} : node'[m] = node[m]
  BY DEF Types
<1>2. ASSUME NEW n \in Nodes
      PROVE  SameThread(node[n], node'[n])
  BY <1>1 DEF LeavesThread, SameThread, SameLoop
<1>3. /\ Undisturbed' = Undisturbed
      /\ node[v].interrupted \in BOOLEAN
  BY DEF Undisturbed, Types, Thread
<1>4. ASSUME NEW n \in Nodes
      PROVE  Cut(n)' <=> Cut(n)
  <2>1. node'[n].pc = node[n].pc
    BY <1>2 DEF SameThread, SameLoop
  <2>2. node[n].pc = "ended" => node'[n].interrupted = node[n].interrupted
    BY <1>1 DEF LeavesThread, NoThread
  <2> QED
    BY <1>3, <2>1, <2>2 DEF Cut
<1>5. ASSUME NEW i \in DOMAIN net.edges
      PROVE  /\ Produced(i)' = Produced(i) /\ Consumed(i)' = Consumed(i)
             /\ SameRun(i)' = SameRun(i) /\ HasFailed(i)' = HasFailed(i)
  <2>1. net.edges[i].from \in Nodes /\ net.edges[i].to \in Nodes
    BY NetworkTypes DEF Types
  <2>2. /\ SameThread(FromOf(i), FromOf(i)') /\ SameThread(ToOf(i), ToOf(i)')
    BY <1>2, <2>1 DEF FromOf, ToOf
  <2>3. /\ Produced(i)' = ProducedOf(FromOf(i)', i) /\ Consumed(i)' = ConsumedOf(ToOf(i)', i)
    BY DEF Produced, ProducedOf, Consumed, ConsumedOf, FromOf, ToOf
  <2>4. /\ ProducedOf(FromOf(i)', i) = ProducedOf(FromOf(i), i)
        /\ ConsumedOf(ToOf(i)', i) = ConsumedOf(ToOf(i), i)
    BY <2>2 DEF SameThread, SameLoop, ProducedOf, ConsumedOf
  <2> QED
    BY <2>2, <2>3, <2>4, CountsOf DEF SameThread, SameLoop, SameRun, HasFailed
<1> QED
  BY <1>2, <1>4, <1>5 DEF LeavesThread

(* What starting a thread leaves alone. *)
LEMMA StartedCounts ==
  ASSUME Known, Counts, NEW v \in Nodes, NEW y \in Thread, StartsThread(v, y),
         node' = [node EXCEPT ![v] = y], UNCHANGED << net, run, cancelled >>
  PROVE  /\ ~Cut(v) /\ node[v].last_execute_state = "SUCCESS"
         /\ node[v].sent = NewRun(run) /\ node[v].left = net.frames
         /\ \A i \in DOMAIN net.edges :
              /\ Produced(i)' = Produced(i) /\ Consumed(i)' = Consumed(i)
              /\ SameRun(i)' = SameRun(i) /\ (HasFailed(i) => HasFailed(i)')
<1> DEFINE x == node[v]
<1>1. node'[v] = y /\ \A m \in Nodes \ {v} : node'[m] = node[m]
  BY DEF Known, Types
<1>2. /\ x \in Thread /\ ThreadOK(x, v) /\ NoThread(x) /\ ThreadKnown(v)
      /\ NotStarted(v) /\ ~NotReset(v) /\ AtHead(y, v) /\ y.sent = x.sent
      /\ y.held = x.held
  BY DEF Known, Types, StartsThread
<1>3. x.last_execute_state = "SUCCESS" /\ x.sent = NewRun(run) /\ x.left = net.frames
  BY <1>2 DEF ThreadKnown
<1>4. ~Cut(v)
  BY <1>2 DEF Cut, ThreadKnown, Counts
<1> HIDE DEF x
<1>5. ASSUME NEW i \in DOMAIN net.edges
      PROVE  /\ Produced(i)' = Produced(i) /\ Consumed(i)' = Consumed(i)
             /\ SameRun(i)' = SameRun(i) /\ (HasFailed(i) => HasFailed(i)')
  <2>1. net.edges[i].from \in Nodes /\ net.edges[i].to \in Nodes
    BY NetworkTypes DEF Known, Types
  <2>2. Produced(i)' = ProducedOf(FromOf(i)', i) /\ Consumed(i)' = ConsumedOf(ToOf(i)', i)
    BY DEF Produced, ProducedOf, Consumed, ConsumedOf, FromOf, ToOf
  <2>3. /\ ProducedOf(FromOf(i)', i) = ProducedOf(FromOf(i), i)
        /\ FromOf(i)'.sent = FromOf(i).sent
    <3>1. CASE net.edges[i].from = v
      <4>1. FromOf(i) = x /\ FromOf(i)' = y
        BY <1>1, <3>1 DEF FromOf, x
      <4>2. ProducedOf(y, i) = ProducedOf(x, i)
        BY <1>2, CountsOfStarting
      <4> QED
        BY <1>2, <4>1, <4>2
    <3>2. CASE net.edges[i].from # v
      BY <1>1, <2>1, <3>2 DEF FromOf
    <3> QED
      BY <3>1, <3>2
  <2>4. /\ ConsumedOf(ToOf(i)', i) = ConsumedOf(ToOf(i), i)
        /\ ToOf(i)'.sent = ToOf(i).sent
    <3>1. CASE net.edges[i].to = v
      <4>1. ToOf(i) = x /\ ToOf(i)' = y
        BY <1>1, <3>1 DEF ToOf, x
      <4>2. i \in EdgesTo(v)
        BY <3>1 DEF EdgesTo
      <4>3. ConsumedOf(y, i) = ConsumedOf(x, i)
        BY <1>2, <4>2, CountsOfStarting
      <4> QED
        BY <1>2, <4>1, <4>3
    <3>2. CASE net.edges[i].to # v
      BY <1>1, <2>1, <3>2 DEF ToOf
    <3> QED
      BY <3>1, <3>2
  <2>5. HasFailed(i) => HasFailed(i)'
    <3>1. CASE net.edges[i].from = v
      BY <1>3, <3>1 DEF HasFailed, FromOf, x
    <3>2. CASE net.edges[i].from # v
      BY <1>1, <2>1, <3>2 DEF FromOf, HasFailed
    <3> QED
      BY <3>1, <3>2
  <2> QED
    BY <2>2, <2>3, <2>4, <2>5, CountsOf DEF SameRun
<1> QED
  BY <1>3, <1>4, <1>5 DEF x

(* While the nodes are reset, no edge holds anything; an edge between two  *)
(* nodes that were reset is as a new one. *)
LEMMA ResetEdges ==
  ASSUME Known, InStep, Ends, Counts, NEW v \in Nodes, NEW y \in Thread,
         ResetsThread(v, y), node' = [node EXCEPT ![v] = y],
         UNCHANGED << net, run, cancelled >>, \A m \in Nodes : ThreadKnown(m)',
         NEW i \in Data
  PROVE  /\ edge[i].status = << >> /\ edge'[i].status = << >>
         /\ edge'[i].no_more_input => edge[i].no_more_input
         /\ edge'[i].no_more_input => HasFailed(i)'
         /\ SameRun(i)' =>
              \/ /\ SameRun(i) /\ edge'[i] = edge[i]
                 /\ Produced(i)' = Produced(i) /\ Consumed(i)' = Consumed(i)
              \/ /\ Produced(i)' = 0 /\ Consumed(i)' = 0
                 /\ ~edge'[i].no_more_input
<1>0. /\ i \in DOMAIN net.edges /\ Types /\ net.edges[i].kind # "dependency"
      /\ EdgeInStep(i)
  BY DEF Data, Known, InStep
<1>16. PICK f \in Nodes, t \in Nodes : f = net.edges[i].from /\ t = net.edges[i].to
  BY <1>0, NetworkTypes DEF Types
<1>1. /\ Types /\ i \in DOMAIN net.edges /\ EdgeInStep(i)
      /\ f = net.edges[i].from /\ t = net.edges[i].to
      /\ f = net'.edges[i].from /\ t = net'.edges[i].to
      /\ run \in Nat /\ run > 1 /\ Undisturbed
      /\ net.edges[i].kind # "dependency" /\ i \in DOMAIN edge
  <2>1. run \in Nat /\ run >= 1 /\ run # 1
    BY <1>0, NetworkTypes DEF Types, ResetsThread
  <2>2. Undisturbed
    BY <2>1 DEF Counts
  <2>3. i \in DOMAIN edge
    BY <1>0 DEF Types, EdgesOK
  <2> QED
    BY <1>0, <1>16, <2>1, <2>2, <2>3
<1>2. /\ node'[v] = y /\ \A m \in Nodes \ {v} : node'[m] = node[m]
  BY <1>1 DEF Types
<1>3. /\ \A n \in Nodes : /\ NotStarted(n) /\ NotStarted(n)'
                          /\ NotReset(n)' <=> NotReset(n) /\ n # v
  BY DEF ResetsThread
<1>4. edge'[i] = IF f = v THEN WasReset(edge[i]) ELSE edge[i]
  BY <1>1 DEF ResetsThread
<1>5. edge[i].status = << >>
  BY <1>1, <1>3 DEF EdgeInStep
<1>6. edge[i] \in EdgeOf(Origin)
  BY <1>1 DEF Types, EdgesOK
<1>7. /\ edge'[i].status = << >>
      /\ f = v => ~edge'[i].no_more_input
      /\ f # v => edge'[i] = edge[i]
  BY <1>4, <1>5, <1>6 DEF WasReset, EdgeOf
<1>8. edge'[i].no_more_input => HasFailed(i)'
  <2>1. f # v => HasFailed(i)' = HasFailed(i)
    BY <1>1, <1>2 DEF HasFailed, FromOf
  <2> QED
    BY <1>1, <1>7, <2>1 DEF EdgeInStep
<1>9. ASSUME NEW n \in Nodes, ~NotReset(n)'
      PROVE  /\ node'[n].sent = NewRun(run) /\ node'[n].pc = "ended"
             /\ node'[n].last_execute_state = "SUCCESS"
             /\ node'[n].held = << >> /\ ~node'[n].pushing /\ node'[n].sent.nth = 0
  <2>1. ThreadKnown(n)' /\ NotStarted(n)'
    BY <1>3
  <2>2. /\ node'[n].pc = "ended" /\ node'[n].last_execute_state = "SUCCESS"
        /\ node'[n].sent = NewRun(run)
    BY <1>1, <1>9, <2>1 DEF ThreadKnown
  <2>3. node[n].held = << >> /\ ~node[n].pushing
    BY <1>1, NothingHeld DEF Undisturbed
  <2>4. node'[n].held = node[n].held /\ node'[n].pushing = node[n].pushing
    BY <1>2 DEF ResetsThread
  <2>5. NewRun(run).nth = 0
    BY <1>1, OriginFields
  <2> QED
    BY <2>2, <2>3, <2>4, <2>5
<1>10. \A n \in Nodes : node'[n].sent.run = IF NotReset(n)' THEN run - 1 ELSE run
  BY DEF ThreadKnown
<1>11. ASSUME SameRun(i)'
       PROVE  NotReset(f)' <=> NotReset(t)'
  <2> DEFINE a == node'[f].sent.run
             b == node'[t].sent.run
  <2>1. a = b
    BY <1>1, <1>11 DEF SameRun, FromOf, ToOf
  <2>2. /\ a = IF NotReset(f)' THEN run - 1 ELSE run
        /\ b = IF NotReset(t)' THEN run - 1 ELSE run
    BY <1>1, <1>10
  <2>3. run - 1 # run
    BY <1>1
  <2> HIDE DEF a, b
  <2> QED
    BY <2>1, <2>2, <2>3
<1>12. Produced(i)' = ProducedOf(node'[f], i) /\ Consumed(i)' = ConsumedOf(node'[t], i)
  BY <1>1 DEF Produced, ProducedOf, Consumed, ConsumedOf
<1>13. ASSUME SameRun(i)', NotReset(f)'
       PROVE  /\ SameRun(i) /\ edge'[i] = edge[i]
              /\ Produced(i)' = Produced(i) /\ Consumed(i)' = Consumed(i)
  <2>1. f # v /\ t # v
    BY <1>1, <1>3, <1>11, <1>13
  <2>2. FromOf(i)' = FromOf(i) /\ ToOf(i)' = ToOf(i)
    BY <1>1, <1>2, <2>1 DEF FromOf, ToOf
  <2>3. Produced(i)' = Produced(i) /\ Consumed(i)' = Consumed(i)
    <3>1. node'[f] = node[f] /\ node'[t] = node[t]
      BY <1>2, <2>1
    <3>2. FromOf(i) = node[f] /\ ToOf(i) = node[t]
      BY <1>1 DEF FromOf, ToOf
    <3> QED
      BY <1>12, <3>1, <3>2, CountsOf
  <2> QED
    BY <1>7, <1>13, <2>1, <2>2, <2>3 DEF SameRun
<1>14. ASSUME SameRun(i)', ~NotReset(f)'
       PROVE  Produced(i)' = 0 /\ Consumed(i)' = 0 /\ ~edge'[i].no_more_input
  <2>1. ~NotReset(t)'
    BY <1>11, <1>14
  <2>2. ProducedOf(node'[f], i) = 0
    <3>1. /\ node'[f].pc = "ended" /\ node'[f].sent.nth = 0 /\ node'[f].held = << >>
      BY <1>1, <1>9, <1>14
    <3>2. Len(<< >>) = 0
      OBVIOUS
    <3> QED
      BY <3>1, <3>2 DEF ProducedOf
  <2>3. ConsumedOf(node'[t], i) = 0
    <3>1. node'[t].pc = "ended" /\ node'[t].sent.nth = 0 /\ ~node'[t].pushing
      BY <1>1, <1>9, <2>1
    <3> QED
      BY <3>1 DEF ConsumedOf
  <2>4. ~HasFailed(i)'
    BY <1>1, <1>9, <1>14 DEF HasFailed, FromOf
  <2> QED
    BY <1>8, <1>12, <2>2, <2>3, <2>4
<1>15. edge'[i].no_more_input => edge[i].no_more_input
  BY <1>7
<1> QED
  BY <1>5, <1>7, <1>8, <1>13, <1>14, <1>15

(* A caller's step leaves the counts in step. *)
LEMMA InStepCallerStep ==
  ASSUME Known, InStep, Ends, NEW c \in Callers, CallerStep(c)
  PROVE  InStep'
<1>1. PICK v \in Nodes, y \in Thread :
        /\ LeavesThread(v, y) \/ StartsThread(v, y) \/ ResetsThread(v, y)
        /\ node' = [node EXCEPT ![v] = y]
        /\ OutputsJoined => OutputsJoined'
        /\ UNCHANGED << net, run, cancelled >>
  BY CallerEffects
<1>2. /\ Counts' = Counts /\ Undisturbed' = Undisturbed /\ Data' = Data /\ Nodes' = Nodes
      /\ net' = net
  BY <1>1, SameCounts
<1> SUFFICES ASSUME Counts
             PROVE  /\ \A m \in Nodes : NodeInStep(m)'
                    /\ \A i \in Data : EdgeInStep(i)'
  BY <1>2 DEF InStep
<1>3. /\ Types /\ \A m \in Nodes : NodeInStep(m)
      /\ \A i \in Data : EdgeInStep(i) /\ i \in DOMAIN net.edges
      /\ \A i \in Data : net.edges[i].from \in Nodes /\ net.edges[i].to \in Nodes
  BY NetworkTypes DEF InStep, Known, Types, Data
<1>4. node'[v] = y /\ \A m \in Nodes \ {v} : node'[m] = node[m]
  BY <1>1, <1>3 DEF Types
<1>5. CASE LeavesThread(v, y)
  <2>1. /\ \A n \in Nodes :
             /\ SameThread(node[n], node'[n])
             /\ NotStarted(n)' <=> NotStarted(n)
             /\ NotReset(n)' <=> NotReset(n)
             /\ Cut(n)' <=> Cut(n)
        /\ \A i \in DOMAIN net.edges :
             /\ Produced(i)' = Produced(i) /\ Consumed(i)' = Consumed(i)
             /\ SameRun(i)' = SameRun(i) /\ HasFailed(i)' = HasFailed(i)
    BY <1>1, <1>3, <1>5, SameThreadCounts
  <2>2. \A n \in Nodes : NodeInStep(n)'
    BY <1>3, <2>1 DEF NodeInStep, SameThread, SameLoop
  <2>3. edge' = edge
    BY <1>5 DEF LeavesThread
  <2>4. \A i \in Data : EdgeInStep(i)'
    BY <1>1, <1>3, <2>1, <2>3, EdgeKept
  <2> QED
    BY <2>2, <2>4
<1>6. CASE StartsThread(v, y)
  <2>1. /\ ~Cut(v) /\ node[v].last_execute_state = "SUCCESS"
        /\ node[v].sent = NewRun(run)
        /\ \A i \in DOMAIN net.edges :
             /\ Produced(i)' = Produced(i) /\ Consumed(i)' = Consumed(i)
             /\ SameRun(i)' = SameRun(i) /\ (HasFailed(i) => HasFailed(i)')
    BY <1>1, <1>6, StartedCounts
  <2>2. /\ edge' = edge
        /\ \A n \in Nodes : /\ NotStarted(n)' <=> NotStarted(n) /\ n # v
                            /\ ~NotReset(n) /\ ~NotReset(n)'
        /\ y.sent = node[v].sent /\ y.last_execute_state = "SUCCESS" /\ AtHead(y, v)
    BY <1>6 DEF StartsThread
  <2>3. \A n \in Nodes : Cut(n) => Cut(n)'
    BY <1>2, <1>4, <2>1 DEF Cut
  <2>4. NodeInStep(v)'
    <3>1. y.sent.flush = 0
      BY <2>1, <2>2 DEF NewRun
    <3>2. y.pc # "ended" /\ y.pc # "resync"
      BY <2>2 DEF AtHead
    <3> QED
      BY <1>4, <2>2, <3>1, <3>2 DEF NodeInStep
  <2>5. ASSUME NEW n \in Nodes, n # v
        PROVE  NodeInStep(n)'
    <3>1. NodeInStep(n) /\ node'[n] = node[n]
      BY <1>3, <1>4, <2>5
    <3> QED
      BY <2>2, <2>3, <2>5, <3>1 DEF NodeInStep
  <2>6. ASSUME NEW i \in Data
        PROVE  EdgeInStep(i)'
    <3>1. /\ EdgeInStep(i) /\ net.edges[i].from \in Nodes /\ net.edges[i].to \in Nodes
          /\ i \in DOMAIN net.edges
      BY <1>3
    <3>2. /\ Cut(net.edges[i].from) => Cut(net.edges[i].from)'
          /\ Cut(net.edges[i].to) => Cut(net.edges[i].to)'
          /\ NotStarted(net.edges[i].from)' => NotStarted(net.edges[i].from)
      <4> DEFINE f == net.edges[i].from
                 t == net.edges[i].to
      <4>1. PICK a \in Nodes, b \in Nodes : a = f /\ b = t
        BY <3>1
      <4>2. a = f' /\ b = t'
        BY <1>2, <4>1
      <4>3. /\ Cut(a) => Cut(a)'
            /\ Cut(b) => Cut(b)'
            /\ NotStarted(a)' => NotStarted(a)
        BY <2>2, <2>3
      <4> QED
        BY <4>1, <4>2, <4>3
    <3> QED
      BY <1>1, <2>1, <2>2, <3>1, <3>2, EdgeKept
  <2> QED
    BY <2>4, <2>5, <2>6
<1>7. CASE ResetsThread(v, y)
  <2>1. run > 1 /\ run # 1 /\ Undisturbed
    <3>1. run \in Nat /\ run >= 1 /\ run # 1
      BY <1>3, <1>7, NetworkTypes DEF Types, ResetsThread
    <3> QED
      BY <3>1 DEF Counts
  <2>2. /\ \A n \in Nodes : /\ NotStarted(n) /\ NotStarted(n)'
                            /\ NotReset(n)' <=> NotReset(n) /\ n # v
        /\ y.sent = NewRun(run) /\ y.last_execute_state = "SUCCESS" /\ y.pc = "ended"
    BY <1>7 DEF ResetsThread
  <2>3. NodeInStep(v)'
    <3>1. y.sent.flush = 0
      BY <2>2 DEF NewRun
    <3> QED
      BY <1>4, <2>2, <3>1 DEF NodeInStep
  <2>4. ASSUME NEW n \in Nodes, n # v
        PROVE  NodeInStep(n)'
    <3>1. NodeInStep(n) /\ node'[n] = node[n]
      BY <1>3, <1>4, <2>4
    <3>2. Cut(n)' = Cut(n)
      BY <1>2, <3>1 DEF Cut
    <3> QED
      BY <2>2, <2>4, <3>1, <3>2 DEF NodeInStep
  <2>5. ASSUME NEW i \in Data
        PROVE  EdgeInStep(i)'
    <3>1. /\ edge'[i].status = << >>
          /\ edge'[i].no_more_input => HasFailed(i)'
          /\ edge[i].status = << >>
          /\ SameRun(i)' =>
              \/ /\ SameRun(i) /\ edge'[i] = edge[i]
                 /\ Produced(i)' = Produced(i) /\ Consumed(i)' = Consumed(i)
              \/ /\ Produced(i)' = 0 /\ Consumed(i)' = 0
                 /\ ~edge'[i].no_more_input
      BY <1>1, <1>7, KnownCallerStep, ResetEdges
    <3>2. DOMAIN << >> = {} /\ Len(<< >>) = 0
      OBVIOUS
    <3>3. ~Cut(net.edges[i].from) /\ ~Cut(net.edges[i].to)
      BY <2>1 DEF Cut
    <3>4. ~edge'[i].no_more_input /\ SameRun(i)'
            => Len(edge'[i].status) = Produced(i)' - Consumed(i)'
      <4>1. CASE /\ SameRun(i) /\ edge'[i] = edge[i]
                 /\ Produced(i)' = Produced(i) /\ Consumed(i)' = Consumed(i)
        BY <1>3, <3>3, <4>1 DEF EdgeInStep
      <4>2. CASE Produced(i)' = 0 /\ Consumed(i)' = 0
        BY <3>1, <3>2, <4>2
      <4> QED
        BY <3>1, <4>1, <4>2
    <3> QED
      BY <3>1, <3>2, <3>4 DEF EdgeInStep
  <2> QED
    BY <2>3, <2>4, <2>5
<1> QED
  BY <1>1, <1>5, <1>6, <1>7

(* A caller interrupts only what has handled the end of the stream. *)
LEMMA EndsCallerStep ==
  ASSUME Known, InStep, Ends, NEW c \in Callers, CallerStep(c)
  PROVE  Ends'
<1>1. PICK v \in Nodes, y \in Thread :
        /\ LeavesThread(v, y) \/ StartsThread(v, y) \/ ResetsThread(v, y)
        /\ node' = [node EXCEPT ![v] = y]
        /\ OutputsJoined => OutputsJoined'
        /\ UNCHANGED << net, run, cancelled >>
  BY CallerEffects
<1>2. /\ Undisturbed' = Undisturbed /\ Data' = Data /\ Nodes' = Nodes
      /\ net' = net
  BY <1>1, SameCounts
<1> SUFFICES ASSUME Undisturbed
             PROVE  /\ \A m \in Nodes : NodeEnds(m)'
                    /\ \A i \in Data : EdgeEnds(i)'
  BY <1>2 DEF Ends
<1>3. /\ Types /\ Counts /\ net.frames \in Nat /\ ~cancelled
      /\ \A m \in Nodes : NodeEnds(m)
      /\ \A i \in Data : EdgeEnds(i) /\ i \in DOMAIN net.edges
  BY UndisturbedCounts, NetworkTypes DEF Ends, Known, Types, Data, Undisturbed
<1>4. node'[v] = y /\ \A m \in Nodes \ {v} : node'[m] = node[m]
  BY <1>1, <1>3 DEF Types
<1>5. \A n : IsSource(n)' = IsSource(n) /\ EdgesTo(n)' = EdgesTo(n)
  BY <1>1 DEF IsSource, EdgesTo
<1>6. ASSUME NEW n \in Nodes, SameThread(node[n], node'[n]),
             node'[n].interrupted /\ ~NotStarted(n)' =>
               Past(n) \/ (node[n].interrupted /\ ~NotStarted(n)),
             NotReset(n)' => NotReset(n)
      PROVE  NodeEnds(n)'
  <2>1. Past(n)' = Past(n)
    BY <1>2, <1>6 DEF Past, SameThread, SameLoop
  <2> QED
    BY <1>2, <1>3, <1>5, <1>6, <2>1 DEF NodeEnds, SameThread, SameLoop
<1>7. ASSUME NEW n \in Nodes, node'[n].sent = NewRun(run),
             node'[n].left = net.frames, node'[n].last_execute_state = "SUCCESS",
             AtHead(node'[n], n) \/ node'[n].pc = "ended",
             ~NotReset(n)', ~node'[n].interrupted \/ NotStarted(n)'
      PROVE  NodeEnds(n)'
  <2>1. /\ node'[n].sent.nth = 0 /\ 0 <= net.frames + 1 /\ 0 # net.frames + 1
        /\ 0 <= net.frames /\ net.frames - 0 = net.frames
        /\ ~(0 = net.frames)
    <3>1. net.frames # 0
      BY <1>3 DEF Counts
    <3> QED
      BY <1>3, <1>7, <3>1 DEF NewRun
  <2>2. node'[n].pc \in {"in", "execute"} => node'[n].found = {}
    BY <1>7 DEF AtHead
  <2> QED
    BY <1>2, <1>5, <1>7, <2>1, <2>2 DEF NodeEnds
<1>8. SameThread(node[v], y) \/ \A n \in Nodes \ {v} : SameThread(node[n], node'[n])
  BY <1>4 DEF SameThread, SameLoop
<1>9. CASE LeavesThread(v, y)
  <2>1. /\ \A n \in Nodes :
             /\ SameThread(node[n], node'[n])
             /\ NotStarted(n)' <=> NotStarted(n)
             /\ NotReset(n)' <=> NotReset(n)
        /\ \A i \in DOMAIN net.edges :
             /\ Produced(i)' = Produced(i) /\ Consumed(i)' = Consumed(i)
             /\ SameRun(i)' = SameRun(i)
    BY <1>1, <1>3, <1>9, SameThreadCounts
  <2>2. edge' = edge
    BY <1>9 DEF LeavesThread
  <2>3. \A n \in Nodes : node'[n].interrupted => node[n].interrupted \/ Past(n)
    <3>1. y.interrupted => node[v].interrupted \/ OutputsJoined
      BY <1>3, <1>9 DEF LeavesThread
    <3> QED
      BY <1>4, <3>1, AllPast
  <2>4. \A i \in Data : EdgeEnds(i)'
    BY <1>1, <1>3, <2>1, <2>2, EdgeKept
  <2>5. \A n \in Nodes : NodeEnds(n)'
    BY <1>6, <2>1, <2>3
  <2> QED
    BY <2>4, <2>5
<1>10. CASE StartsThread(v, y)
  <2>1. /\ node[v].sent = NewRun(run) /\ node[v].left = net.frames
        /\ \A i \in DOMAIN net.edges :
             /\ Produced(i)' = Produced(i) /\ Consumed(i)' = Consumed(i)
             /\ SameRun(i)' = SameRun(i)
    BY <1>1, <1>3, <1>10, StartedCounts
  <2>2. /\ edge' = edge
        /\ \A n \in Nodes : /\ NotStarted(n)' <=> NotStarted(n) /\ n # v
                            /\ ~NotReset(n) /\ ~NotReset(n)'
        /\ y.sent = node[v].sent /\ y.last_execute_state = "SUCCESS" /\ AtHead(y, v)
        /\ y.left = node[v].left /\ ~y.interrupted
    BY <1>10 DEF StartsThread
  <2>3. \A i \in Data : EdgeEnds(i)'
    BY <1>1, <1>3, <2>1, <2>2, EdgeKept
  <2>4. NodeEnds(v)'
    BY <1>4, <1>7, <2>1, <2>2
  <2>5. ASSUME NEW n \in Nodes, n # v
        PROVE  NodeEnds(n)'
    <3>1. SameThread(node[n], node'[n]) /\ node'[n] = node[n]
      BY <1>4, <2>5 DEF SameThread, SameLoop
    <3> QED
      BY <1>6, <2>2, <2>5, <3>1
  <2> QED
    BY <2>3, <2>4, <2>5
<1>11. CASE ResetsThread(v, y)
  <2>1. /\ \A n \in Nodes : /\ NotStarted(n) /\ NotStarted(n)'
                            /\ NotReset(n)' <=> NotReset(n) /\ n # v
        /\ y.sent = NewRun(run) /\ y.last_execute_state = "SUCCESS" /\ y.pc = "ended"
        /\ y.left = net.frames
    BY <1>11 DEF ResetsThread
  <2>2. NodeEnds(v)'
    BY <1>4, <1>7, <2>1
  <2>3. ASSUME NEW n \in Nodes, n # v
        PROVE  NodeEnds(n)'
    <3>1. SameThread(node[n], node'[n]) /\ node'[n] = node[n]
      BY <1>4, <2>3 DEF SameThread, SameLoop
    <3> QED
      BY <1>6, <2>1, <2>3, <3>1
  <2>4. ASSUME NEW i \in Data
        PROVE  EdgeEnds(i)'
    <3>1. /\ edge'[i].status = << >>
          /\ SameRun(i)' =>
              \/ /\ SameRun(i) /\ edge'[i] = edge[i]
                 /\ Produced(i)' = Produced(i) /\ Consumed(i)' = Consumed(i)
              \/ /\ Produced(i)' = 0 /\ Consumed(i)' = 0
                 /\ ~edge'[i].no_more_input
      BY <1>1, <1>3, <1>11, KnownCallerStep, ResetEdges
    <3>2. DOMAIN << >> = {} /\ Len(<< >>) = 0 - 0 /\ 0 # net.frames + 1
      BY <1>3
    <3>3. CASE /\ SameRun(i) /\ edge'[i] = edge[i]
               /\ Produced(i)' = Produced(i) /\ Consumed(i)' = Consumed(i)
      BY <1>2, <1>3, <3>3 DEF EdgeEnds
    <3>4. CASE Produced(i)' = 0 /\ Consumed(i)' = 0 /\ ~edge'[i].no_more_input
      BY <1>2, <3>1, <3>2, <3>4 DEF EdgeEnds
    <3> QED
      BY <3>1, <3>3, <3>4 DEF EdgeEnds
  <2> QED
    BY <2>2, <2>3, <2>4
<1> QED
  BY <1>1, <1>9, <1>10, <1>11

-----------------------------------------------------------------------------
(* A run begins where the last one has left nothing.                       *)

(* When the pipeline is run again, all nodes are to be reset and started.  *)
LEMMA BeginsAgain ==
  ASSUME Known, RunAgain
  PROVE  \A n \in Nodes : NotStarted(n)' /\ NotReset(n)'
<1>1. Types /\ CallsAreKnown /\ net' = net
  BY DEF Known, RunAgain
<1>2. /\ N \in Nat /\ Len(Program) \in Nat /\ N' = N /\ Program' = Program
      /\ call'["application"] = Program
  BY <1>1, NextVisit, SameProgram DEF RunAgain, Types, Program, Callers
<1>3. At' = 0
  BY <1>2 DEF At
<1>4. \A p \in 1 .. N : 0 < p /\ 0 < N + p
  BY <1>2
<1>5. \A n \in Nodes : \E p \in 1 .. N : net.order[p] = n
  BY <1>1, NetworkTypes DEF Types, N
<1> QED
  BY <1>1, <1>2, <1>3, <1>4, <1>5 DEF NotStarted, NotReset

(* The next run finds the counts in step. *)
LEMMA FramesAgain ==
  ASSUME Known, InStep, Ends, RunAgain
  PROVE  InStep' /\ Ends'
<1>1. /\ Types /\ CallsAreKnown /\ call["application"] = << >>
      /\ UNCHANGED << net, edge, node, cancelled >>
      /\ run \in Nat /\ run >= 1 /\ run' = run + 1
      /\ net.frames \in Nat
  BY NetworkTypes DEF Known, RunAgain, Types
<1>2. Undisturbed' = Undisturbed /\ Data' = Data /\ Nodes' = Nodes
  BY <1>1 DEF Undisturbed, Data, Nodes
<1>3. Counts' => Undisturbed
  BY <1>1, <1>2 DEF Counts
<1> SUFFICES ASSUME Undisturbed
             PROVE  /\ \A m \in Nodes : NodeInStep(m)' /\ NodeEnds(m)'
                    /\ \A i \in Data : EdgeInStep(i)' /\ EdgeEnds(i)'
  BY <1>2, <1>3 DEF InStep, Ends
<1>4. /\ \A m \in Nodes : NodeInStep(m) /\ NodeEnds(m) /\ ThreadKnown(m)
      /\ \A i \in Data : EdgeInStep(i) /\ EdgeEnds(i)
      /\ \A n : ~Cut(n) /\ ~Cut(n)'
  BY <1>1, <1>2, UndisturbedCounts DEF InStep, Ends, Known, Cut
<1>5. ASSUME NEW n \in Nodes
      PROVE  ~NotStarted(n) /\ Past(n) /\ node[n].pc = "ended"
  <2>1. ~NotStarted(n) /\ ~NotReset(n) /\ Joined(n)
    BY <1>1, AtEnd
  <2>2. node[n].pc = "ended"
    BY <1>4, <2>1 DEF ThreadKnown
  <2>3. node[n].last_execute_state = "FAILURE"
    BY <1>4, <2>1, <2>2 DEF NodeInStep
  <2>4. Range(node[n].todo) = {}
    BY <1>1, <2>2 DEF Types, ThreadOK, Range
  <2> QED
    BY <1>4, <2>1, <2>2, <2>3, <2>4 DEF NodeEnds, Past
<1>6. \A n \in Nodes : NotStarted(n)' /\ NotReset(n)'
  BY BeginsAgain
<1>7. \A n : Past(n)' = Past(n) /\ IsSource(n)' = IsSource(n) /\ EdgesTo(n)' = EdgesTo(n)
  BY <1>1, <1>2 DEF Past, IsSource, EdgesTo
<1>8. \A m \in Nodes : NodeInStep(m)' /\ NodeEnds(m)'
  BY <1>1, <1>2, <1>4, <1>5, <1>6, <1>7 DEF NodeInStep, NodeEnds, Past
<1>9. ASSUME NEW i \in Data
      PROVE  EdgeInStep(i)' /\ EdgeEnds(i)'
  <2>1. PICK f \in Nodes, t \in Nodes : f = net.edges[i].from /\ t = net.edges[i].to
    BY ZenonT(30), <1>1, NetworkTypes DEF Types, Data
  <2>2. SameRun(i)
    BY <1>5, <2>1, AllReset DEF Data
  <2>3. /\ Produced(i) \in Int /\ Consumed(i) \in Nat
        /\ Len(edge[i].status) = Produced(i) - Consumed(i)
        /\ Produced(i) = node[f].sent.nth /\ Consumed(i) = node[t].sent.nth
    BY <1>5, <2>1, <2>2, EdgeBounds
  <2>4. Len(edge[i].status) = 0
    BY <1>1, <1>5, <2>3 DEF Past
  <2>5. edge[i].status = << >>
    BY <1>1, <2>4, EmptySeq DEF Types, EdgesOK, EdgeOf, Data
  <2>6. /\ Produced(i)' = Produced(i) /\ Consumed(i)' = Consumed(i)
        /\ SameRun(i)' = SameRun(i) /\ HasFailed(i)' = HasFailed(i)
    BY <1>1 DEF Produced, Consumed, SameRun, HasFailed, FromOf, ToOf
  <2> QED
    BY <1>1, <1>4, <2>5, <2>6 DEF EdgeInStep, EdgeEnds
<1> QED
  BY <1>8, <1>9

(* The counts are in step at the start. *)
LEMMA FramesInit == Init => InStep /\ Ends
<1> SUFFICES ASSUME Init
             PROVE  InStep /\ Ends
  OBVIOUS
<1>1. /\ Known /\ Types /\ net \in Networks /\ run = 1
  BY TypesInit, CallsInit, KnownInit DEF Known, Types, Init
<1>2. \A n \in Nodes : node[n] = NewNode(net)
  BY DEF Init
<1>3. ASSUME NEW n \in Nodes
      PROVE  /\ node[n].pc = "none" /\ node[n].todo = << >> /\ node[n].held = << >>
             /\ node[n].last_execute_state = "SUCCESS" /\ ~node[n].interrupted
             /\ node[n].sent = NewRun(1) /\ node[n].left = net.frames
             /\ ~node[n].pushing
  BY <1>2 DEF NewNode
<1>4. NewRun(1).flush = 0 /\ NewRun(1).nth = 0
  BY DEF NewRun
<1>5. \A n \in Nodes : ~NotReset(n)
  <2>1. At >= N /\ At \in Nat /\ N \in Nat
    BY <1>1, NextVisit DEF Known, CallsAreKnown
  <2>2. \A p \in 1 .. N : ~(At < p)
    BY <2>1
  <2> QED
    BY <2>2 DEF NotReset
<1>6. \A n \in Nodes : NodeInStep(n)
  BY <1>3, <1>4 DEF NodeInStep
<1>7. net.frames \in Nat
  BY <1>1, NetworkTypes
<1>8. ASSUME Undisturbed, NEW n \in Nodes
      PROVE  NodeEnds(n)
  <2>1. net.frames # 0
    BY <1>8 DEF Undisturbed, EndsByItself
  <2>2. /\ 0 <= net.frames + 1 /\ 0 # net.frames + 1 /\ 0 <= net.frames
        /\ net.frames - 0 = net.frames
    BY <1>7
  <2> QED
    BY <1>3, <1>4, <1>5, <2>1, <2>2 DEF NodeEnds
<1>9. ASSUME NEW i \in Data
      PROVE  EdgeInStep(i) /\ EdgeEnds(i)
  <2>1. i \in DOMAIN net.edges /\ net.edges[i].from \in Nodes /\ net.edges[i].to \in Nodes
    BY <1>1, NetworkTypes DEF Data
  <2>2. edge[i].status = << >> /\ ~edge[i].no_more_input
    BY <2>1 DEF Init, EmptyEdge
  <2>3. Len(<< >>) = 0 /\ DOMAIN << >> = {}
    OBVIOUS
  <2>4. Produced(i) = 0 /\ Consumed(i) = 0
    <3> DEFINE x == FromOf(i)
               z == ToOf(i)
    <3>1. /\ x.pc = "none" /\ x.sent.nth = 0 /\ Len(x.held) = 0
          /\ z.pc = "none" /\ z.sent.nth = 0 /\ ~z.pushing
      BY <1>3, <1>4, <2>1, <2>3 DEF FromOf, ToOf
    <3> HIDE DEF x, z
    <3>2. ProducedOf(x, i) = 0 /\ ConsumedOf(z, i) = 0
      BY <3>1 DEF ProducedOf, ConsumedOf
    <3> QED
      BY <3>2, CountsOf DEF x, z
  <2> QED
    BY <1>1, <1>7, <2>2, <2>3, <2>4 DEF EdgeInStep, EdgeEnds
<1> QED
  BY <1>6, <1>8, <1>9 DEF InStep, Ends

(* Every step leaves the counts in step. *)
LEMMA FramesStep == Known /\ InStep /\ Ends /\ [Next]_vars => InStep' /\ Ends'
<1> SUFFICES ASSUME Known, InStep, Ends, [Next]_vars
             PROVE  InStep' /\ Ends'
  OBVIOUS
<1>1. CASE Cancel
  <2>1. /\ UNCHANGED << net, edge, node, run >> /\ cancelled' = TRUE
        /\ call'["application"] = call["application"]
    BY <1>1 DEF Cancel, Known, Types, Callers
  <2>2. ~Undisturbed' /\ Data' = Data /\ Nodes' = Nodes
    BY <2>1 DEF Undisturbed, Data, Nodes
  <2>3. Counts' => Counts
    BY <2>1, <2>2 DEF Counts, OneStatusPerFrame
  <2>4. \A n : NotStarted(n)' = NotStarted(n) /\ NotReset(n)' = NotReset(n)
    BY <2>1, SamePosition
  <2>5. \A n : Cut(n) => Cut(n)'
    BY <2>1, <2>2 DEF Cut
  <2>6. ASSUME Counts, NEW n \in Nodes
        PROVE  NodeInStep(n)'
    BY <2>1, <2>4, <2>5, <2>6 DEF InStep, NodeInStep
  <2>7. ASSUME Counts, NEW i \in Data
        PROVE  EdgeInStep(i)'
    <3>1. /\ Produced(i)' = Produced(i) /\ Consumed(i)' = Consumed(i)
          /\ SameRun(i)' = SameRun(i) /\ HasFailed(i)' = HasFailed(i)
      BY <2>1 DEF Produced, Consumed, SameRun, HasFailed, FromOf, ToOf
    <3>2. EdgeInStep(i)
      BY <2>7 DEF InStep
    <3>3. /\ Cut(net.edges[i].from) => Cut(net.edges[i].from)'
          /\ Cut(net.edges[i].to) => Cut(net.edges[i].to)'
          /\ NotStarted(net.edges[i].from)' = NotStarted(net.edges[i].from)
      BY <2>1, <2>2, <2>4 DEF Cut, NotStarted
    <3> QED
      BY <2>1, <3>1, <3>2, <3>3 DEF EdgeInStep
  <2> QED
    BY <2>2, <2>3, <2>6, <2>7 DEF InStep, Ends
<1>2. CASE UNCHANGED vars
  <2>1. UNCHANGED << net, edge, node, run, cancelled, call >>
    BY <1>2 DEF vars
  <2>2. /\ Counts' = Counts /\ Undisturbed' = Undisturbed /\ Data' = Data
        /\ Nodes' = Nodes
    BY <2>1, SameCounts
  <2>3. \A n : NotStarted(n)' = NotStarted(n) /\ NotReset(n)' = NotReset(n)
    BY <2>1, SamePosition
  <2>4. \A n : /\ Cut(n)' = Cut(n) /\ Past(n)' = Past(n) /\ IsSource(n)' = IsSource(n)
               /\ EdgesTo(n)' = EdgesTo(n)
    BY <2>1, <2>2 DEF Cut, Past, IsSource, EdgesTo
  <2>5. \A n \in Nodes : /\ NodeInStep(n) => NodeInStep(n)'
                         /\ NodeEnds(n) => NodeEnds(n)'
    BY <2>1, <2>2, <2>3, <2>4 DEF NodeInStep, NodeEnds
  <2>6. \A i \in Data : /\ EdgeInStep(i) => EdgeInStep(i)'
                        /\ EdgeEnds(i) => EdgeEnds(i)'
    <3>1. \A i : /\ Produced(i)' = Produced(i) /\ Consumed(i)' = Consumed(i)
                 /\ SameRun(i)' = SameRun(i) /\ HasFailed(i)' = HasFailed(i)
      BY <2>1 DEF Produced, Consumed, SameRun, HasFailed, FromOf, ToOf
    <3>2. \A i : /\ Cut(net.edges[i].from)' = Cut(net.edges[i].from)
                 /\ Cut(net.edges[i].to)' = Cut(net.edges[i].to)
                 /\ NotStarted(net.edges[i].from)' = NotStarted(net.edges[i].from)
      BY <2>1, <2>2, <2>3 DEF Cut
    <3> QED
      BY <2>1, <3>1, <3>2, EdgeKept
  <2> QED
    BY <2>2, <2>5, <2>6 DEF InStep, Ends
<1> QED
  BY <1>1, <1>2, InStepNodeStep, EndsNodeStep, InStepCallerStep, EndsCallerStep,
     FramesAgain DEF Next

(* The counts are in step in every state. *)
LEMMA FramesInvariant == Spec => [](Known /\ InStep /\ Ends)
<1>1. Init => Known /\ InStep /\ Ends
  BY TypesInit, CallsInit, KnownInit, FramesInit DEF Known
<1>2. Known /\ InStep /\ Ends /\ [Next]_vars => (Known /\ InStep /\ Ends)'
  BY KnownStep, FramesStep
<1> QED
  BY <1>1, <1>2, PTL DEF Spec

-----------------------------------------------------------------------------
(* What the frames of a run come to.                                       *)

(* An edge holds what its source has made and its sink has not taken, for  *)
(* every network whose processes give one status for each frame, at once   *)
(* or after holding it back: no frame is lost or taken twice on any edge   *)
(* of a first run, whatever fails and whoever cancels it, nor of the later *)
(* runs of a pipeline that only the end of its stream has stopped          *)
(* (async_pipeline_node::run, async_pipeline_edge_impl).                   *)
THEOREM CountsCorrect == Spec => [](run = 1 \/ Undisturbed => EdgesCountFrames)
<1>1. Known /\ InStep => (run = 1 \/ Undisturbed => EdgesCountFrames)
  <2> SUFFICES ASSUME Known, InStep, run = 1 \/ Undisturbed, OneStatusPerFrame,
                      net.frames # 0, NEW i \in DOMAIN net.edges,
                      net.edges[i].kind # "dependency", ~edge[i].no_more_input,
                      ~node[net.edges[i].from].interrupted,
                      ~node[net.edges[i].to].interrupted,
                      node[net.edges[i].from].sent.run = node[net.edges[i].to].sent.run
               PROVE  Len(edge[i].status) = Produced(i) - Consumed(i)
    BY DEF EdgesCountFrames
  <2>1. EdgeInStep(i)
    BY DEF InStep, Counts, Data
  <2> QED
    BY <2>1 DEF EdgeInStep, SameRun, FromOf, ToOf, Cut
<1> QED
  BY <1>1, FramesInvariant, PTL

(* Nothing passes over an edge that only orders its nodes. *)
DependenciesUnused == \A i \in DOMAIN net.edges \ Data : edge[i] = EmptyEdge

(* No step touches an edge that only orders its nodes. *)
LEMMA DependenciesStep == Known /\ DependenciesUnused /\ [Next]_vars => DependenciesUnused'
<1> SUFFICES ASSUME Known, DependenciesUnused, [Next]_vars
             PROVE  DependenciesUnused'
  OBVIOUS
<1>1. Types
  BY DEF Known
<1>2. ASSUME net' = net, \A i \in DOMAIN net.edges \ Data : edge'[i] = edge[i]
      PROVE  DependenciesUnused'
  BY <1>2 DEF DependenciesUnused, Data
<1>3. ASSUME NEW n \in Nodes, NodeStep(n)
      PROVE  DependenciesUnused'
  <2>1. PICK y \in Thread : NodeCases(n, y) /\ net' = net
    BY <1>1, <1>3, NodeStepCases
  <2>2. edge \in [DOMAIN net.edges -> EdgeOf(Origin)]
    BY <1>1 DEF Types, EdgesOK
  <2>3. ASSUME NEW j, edge' = AfterPush(j) \/ edge' = AfterPull(n, j),
               NEW i \in DOMAIN net.edges \ Data
        PROVE  edge'[i] = edge[i]
    BY <2>2, <2>3 DEF AfterPush, AfterPull, Data
  <2>4. edge' = edge \/ \E j : edge' = AfterPush(j) \/ edge' = AfterPull(n, j)
    BY <2>1 DEF NodeCases, Waits, Stops, Takes, IsFlushed, Executes, HoldsBack, Gives
  <2> QED
    BY <1>2, <2>1, <2>3, <2>4
<1>4. ASSUME NEW c \in Callers, CallerStep(c)
      PROVE  DependenciesUnused'
  <2>1. PICK v \in Nodes, y \in Thread :
          /\ LeavesThread(v, y) \/ StartsThread(v, y) \/ ResetsThread(v, y)
          /\ net' = net
    BY <1>4, CallerEffects
  <2>2. edge \in [DOMAIN net.edges -> EdgeOf(Origin)]
    BY <1>1 DEF Types, EdgesOK
  <2>3. \A i \in DOMAIN net.edges \ Data : edge'[i] = edge[i]
    BY <2>1, <2>2 DEF LeavesThread, StartsThread, ResetsThread, Data
  <2> QED
    BY <1>2, <2>1, <2>3
<1>5. CASE RunAgain \/ Cancel \/ UNCHANGED vars
  BY <1>2, <1>5 DEF RunAgain, Cancel, vars
<1> QED
  BY <1>3, <1>4, <1>5 DEF Next

(* Such an edge is empty in every state. *)
LEMMA DependenciesInvariant == Spec => []DependenciesUnused
<1>1. Init => DependenciesUnused
  BY DEF Init, DependenciesUnused
<1> QED
  BY <1>1, DependenciesStep, KnownInvariant, PTL DEF Spec

(* A run that the end of its stream has stopped is complete when it        *)
(* returns, also when the nodes that it does not wait for are interrupted: *)
(* if every node has a part in what an output node gets, each has handled  *)
(* every frame, and the failure, and every edge is empty                   *)
(* (async_pipeline::wait, reset).                                          *)
THEOREM CompleteCorrect == Spec => [](EndsByItself(net) => RunIsComplete)
<1>1. Known /\ InStep /\ Ends /\ DependenciesUnused
        => (EndsByItself(net) => RunIsComplete)
  <2> SUFFICES ASSUME Known, InStep, Ends, DependenciesUnused, EndsByItself(net),
                      call["application"] = << >>, ~cancelled
               PROVE  /\ \A n \in Nodes :
                           /\ node[n].last_execute_state = "FAILURE"
                           /\ node[n].sent = [run |-> run, flush |-> 0,
                                              nth |-> net.frames + 1]
                      /\ \A i \in DOMAIN net.edges :
                           edge[i].status = << >> /\ edge[i].data = << >>
    BY DEF RunIsComplete, RunReturned
  <2>1. /\ Types /\ CallsAreKnown /\ Undisturbed /\ Counts /\ net.frames \in Nat
        /\ run \in Nat
        /\ \A n \in Nodes : NodeInStep(n) /\ NodeEnds(n) /\ ThreadKnown(n)
    BY UndisturbedCounts, NetworkTypes DEF Known, Undisturbed, InStep, Ends, Types
  <2>2. ASSUME NEW n \in Nodes
        PROVE  /\ ~NotStarted(n) /\ node[n].pc = "ended"
               /\ node[n].last_execute_state = "FAILURE"
               /\ node[n].sent = [run |-> run, flush |-> 0, nth |-> net.frames + 1]
               /\ node[n].sent.nth = net.frames + 1
    <3>1. ~NotStarted(n) /\ ~NotReset(n) /\ Joined(n)
      BY <2>1, AtEnd
    <3>2. node[n].pc = "ended" /\ node[n].sent.run = run
      BY <2>1, <3>1 DEF ThreadKnown
    <3>3. node[n].last_execute_state = "FAILURE" /\ node[n].sent.flush = 0
      BY <2>1, <3>1, <3>2 DEF NodeInStep, Cut
    <3>4. node[n].sent.nth = net.frames + 1
      BY <2>1, <3>3 DEF NodeEnds
    <3>5. node[n].sent \in Origin
      BY <2>1 DEF Types, Thread
    <3>6. node[n].sent = [run |-> run, flush |-> 0, nth |-> net.frames + 1]
      BY <3>2, <3>3, <3>4, <3>5 DEF Origin
    <3> QED
      BY <3>1, <3>2, <3>3, <3>4, <3>6
  <2>3. ASSUME NEW i \in Data
        PROVE  edge[i].status = << >>
    <3>1. PICK f \in Nodes, t \in Nodes : f = net.edges[i].from /\ t = net.edges[i].to
      BY ZenonT(30), <2>1, NetworkTypes DEF Types, Data
    <3>2. SameRun(i)
      BY <2>2, <3>1, AllReset DEF Data
    <3>3. /\ Len(edge[i].status) = Produced(i) - Consumed(i)
          /\ Produced(i) = node[f].sent.nth /\ Consumed(i) = node[t].sent.nth
      BY <2>1, <2>2, <3>1, <3>2, EdgeBounds
    <3>4. Len(edge[i].status) = 0
      BY <2>1, <2>2, <3>3
    <3> QED
      BY <2>1, <3>4, EmptySeq DEF Types, EdgesOK, EdgeOf, Data
  <2>4. ASSUME NEW i \in DOMAIN net.edges
        PROVE  edge[i].status = << >> /\ edge[i].data = << >>
    <3>1. CASE i \in Data
      <4>1. /\ edge[i].status = << >> /\ edge[i].data \in Seq(Origin)
            /\ Paired(edge[i], Origin)
        BY <2>1, <2>3, <3>1 DEF Types, EdgesOK, EdgeOf
      <4>2. Len(edge[i].data) = 0
        <5>1. SuccessesUpTo(<< >>, Len(<< >>)) = {}
          BY DEF SuccessesUpTo
        <5> QED
          BY <4>1, <5>1, FS_EmptySet DEF Paired
      <4> QED
        BY <4>1, <4>2, EmptySeq
    <3>2. CASE i \notin Data
      BY <3>2 DEF DependenciesUnused, EmptyEdge
    <3> QED
      BY <3>1, <3>2
  <2> QED
    BY <2>2, <2>4
<1> QED
  BY <1>1, FramesInvariant, DependenciesInvariant, PTL

-----------------------------------------------------------------------------
(* The values that come together.                                          *)

MadeIn(v, r, k) == v.run = r /\ v.flush = 0 /\ v.nth = k

(* A process that holds frames back gives them later than the statuses of  *)
(* frames that it is not called for. *)
Timed(w) ==
  (\E n \in Range(w.order) : w.holds[n] > 0)
     => \A n \in Range(w.order) : "SKIP" \notin w.returns[n]

(* What a thread holds back are the last frames, and what it was given is  *)
(* of the frame it is in. *)
NodeValues(n) ==
  LET x == node[n]
  IN  /\ x.last_execute_state # "FAILURE" =>
           \A k \in DOMAIN x.held :
             MadeIn(x.held[k], x.sent.run, x.sent.nth - Len(x.held) + k)
      /\ \A v \in x.fresh : MadeIn(v, x.sent.run, x.sent.nth + 1)
      /\ x.pc = "out" /\ ~x.pushing /\ x.last_execute_state = "SUCCESS"
           => x.held = << >>

(* The values on an edge are those of the frames that its sink takes next. *)
EdgeValues(i) ==
  ~edge[i].no_more_input /\ SameRun(i) /\ ~Cut(net.edges[i].to) =>
    \A j \in DOMAIN edge[i].status :
      edge[i].status[j] = "SUCCESS"
        => MadeIn(ValueAt(edge[i], j), ToOf(i).sent.run, Consumed(i) + j)

HoldsSome == \E n \in Nodes : net.holds[n] > 0

NoSkips ==
  /\ \A n \in Nodes : /\ node[n].last_execute_state # "SKIP"
                      /\ "SKIP" \notin node[n].found
  /\ \A i \in Data : \A j \in DOMAIN edge[i].status : edge[i].status[j] # "SKIP"

InTime == Counts /\ Timed(net) => /\ \A n \in Nodes : NodeValues(n)
                                  /\ \A i \in Data : EdgeValues(i)
                                  /\ HoldsSome => NoSkips

(* The first value on an edge is the next that its sink takes. *)
LEMMA TakenValue ==
  ASSUME Known, Counts, NEW n \in Nodes, NEW y \in Thread, Takes(n, y),
         EdgeValues(AtEdge(n)) \/ AtEdge(n) \notin Data, ~Cut(n),
         NEW v \in PushedValues(AtEdge(n))
  PROVE  MadeIn(v, node[n].sent.run, node[n].sent.nth + 1)
<1> DEFINE i == AtEdge(n)
           x == node[n]
<1>1. /\ Types /\ x.pc = "in" /\ CanPush(i) /\ edge' = AfterPush(i)
      /\ x \in Thread /\ ThreadOK(x, n) /\ x.todo # << >>
  BY DEF Takes, Known, Types, ThreadOK
<1>2. i \in DOMAIN net.edges /\ i \in Range(x.todo) /\ i \in EdgesTo(n)
  BY <1>1, AtEdgeOf
<1>3. /\ i \in Data /\ ~edge[i].no_more_input
      /\ Len(edge[i].status) \in Nat /\ Len(edge[i].status) >= 1
      /\ edge[i].status[1] = "SUCCESS" /\ v = ValueAt(edge[i], 1)
  BY <1>1, <1>2, TakesEdge
<1>4. 1 \in DOMAIN edge[i].status
  <2>1. edge[i].status \in Seq(EdgeStatus)
    BY <1>1, <1>2 DEF Types, EdgesOK, EdgeOf
  <2> QED
    BY <1>3, <2>1
<1>5. net.edges[i].to = n /\ ToOf(i) = x
  BY <1>2 DEF EdgesTo, ToOf
<1>6. SameRun(i)
  <2>1. ~NotStarted(n)
    BY <1>1 DEF Known, ThreadKnown, Counts
  <2> QED
    BY <1>2, <2>1, AllReset
<1>7. Consumed(i) = x.sent.nth
  <2>1. ConsumedOf(x, i) = x.sent.nth
    <3>1. ~x.pushing /\ x.sent.nth \in Nat
      BY <1>1, CountTypes DEF ThreadOK
    <3> QED
      BY <1>1, <1>2, <3>1 DEF ConsumedOf
  <2> QED
    BY <1>5, <2>1, CountsOf
<1>8. MadeIn(ValueAt(edge[i], 1), x.sent.run, Consumed(i) + 1)
  BY <1>3, <1>4, <1>5, <1>6 DEF EdgeValues
<1> QED
  BY <1>3, <1>7, <1>8

(* What a thread holds, when it holds one frame more. *)
LEMMA HeldMore ==
  ASSUME NEW h \in Seq(Origin), NEW s \in Origin, NEW t \in Origin,
         t.run = s.run, t.flush = 0, t.nth = s.nth + 1,
         \A k \in DOMAIN h : MadeIn(h[k], s.run, s.nth - Len(h) + k)
  PROVE  LET g == Append(h, t)
         IN  \A k \in DOMAIN g : MadeIn(g[k], t.run, t.nth - Len(g) + k)
<1> DEFINE g == Append(h, t)
           l == Len(h)
<1>1. /\ l \in Nat /\ Len(g) = l + 1 /\ DOMAIN g = 1 .. l + 1 /\ DOMAIN h = 1 .. l
      /\ g[l + 1] = t
      /\ \A k \in 1 .. l : g[k] = h[k]
  BY AppendProperties
<1>2. s.nth \in Nat /\ t.nth \in Nat
  BY OriginFields
<1> HIDE DEF g, l
<1> SUFFICES ASSUME NEW k \in DOMAIN g
             PROVE  MadeIn(g[k], t.run, t.nth - Len(g) + k)
  BY DEF g
<1>3. CASE k = l + 1
  <2>1. t.nth - Len(g) + k = t.nth
    BY <1>1, <1>2, <1>3
  <2> QED
    BY <1>1, <1>3, <2>1 DEF MadeIn
<1>4. CASE k # l + 1
  <2>1. k \in 1 .. l
    BY <1>1, <1>4
  <2>2. t.nth - Len(g) + k = s.nth - l + k
    BY <1>1, <1>2, <2>1
  <2> QED
    BY <1>1, <2>1, <2>2 DEF l
<1> QED
  BY <1>3, <1>4

(* What a thread holds, once it has pushed the first. *)
LEMMA HeldLess ==
  ASSUME NEW h \in Seq(Origin), NEW s \in Origin, h # << >>,
         \A k \in DOMAIN h : MadeIn(h[k], s.run, s.nth - Len(h) + k)
  PROVE  \A k \in DOMAIN Tail(h) :
           MadeIn(Tail(h)[k], s.run, s.nth - Len(Tail(h)) + k)
<1> DEFINE g == Tail(h)
           l == Len(h)
<1>1. /\ l \in Nat /\ l >= 1 /\ Len(g) = l - 1 /\ DOMAIN g = 1 .. l - 1
      /\ DOMAIN h = 1 .. l
      /\ \A k \in 1 .. l - 1 : g[k] = h[k + 1]
  BY HeadTailProperties, EmptySeq
<1>2. s.nth \in Nat
  BY OriginFields
<1> HIDE DEF g, l
<1> SUFFICES ASSUME NEW k \in DOMAIN g
             PROVE  MadeIn(g[k], s.run, s.nth - Len(g) + k)
  BY DEF g
<1>3. k + 1 \in 1 .. l /\ k \in 1 .. l - 1
  BY <1>1
<1>4. s.nth - Len(g) + k = s.nth - l + (k + 1)
  <2>1. Len(g) = l - 1 /\ l \in Nat /\ k \in Nat
    BY <1>1, <1>3
  <2> QED
    BY <1>2, <2>1
<1> QED
  BY <1>1, <1>3, <1>4 DEF l

(* A process that holds frames back is called for every frame. *)
LEMMA CalledUnlessFailed ==
  ASSUME Types, OneStatusPerFrame, Timed(net), HoldsSome => NoSkips,
         NEW n \in Nodes, NEW y \in Thread, Executes(n, y),
         node[n].held # << >> \/ "SKIP" = y.last_execute_state
  PROVE  /\ node[n].held # << >> => y.last_execute_state = "FAILURE"
         /\ HoldsSome => y.last_execute_state # "SKIP"
<1>1. /\ y.last_execute_state = "SKIP" =>
           "SKIP" \in node[n].found \/ "SKIP" \in Returns(n)
      /\ "FAILURE" \in node[n].found => y.last_execute_state = "FAILURE"
  BY ExecutesStatus
<1>2. HoldsSome => "SKIP" \notin node[n].found /\ "SKIP" \notin Returns(n)
  BY DEF HoldsSome, Timed, NoSkips, Returns, Nodes
<1>3. node[n].held # << >> => HoldsSome /\ net.holds[n] > 0
  BY DEF Types, ThreadOK, HeldOK, HoldsSome
<1>4. net.holds[n] > 0 => ~IsCalled(n)
  BY DEF Executes
<1> QED
  BY <1>1, <1>2, <1>3, <1>4 DEF IsCalled

(* A node's step leaves it the values of the frame it is in. *)
LEMMA NodeValuesStep ==
  ASSUME Known, InStep, Ends, InTime, Counts, Timed(net), NEW n \in Nodes,
         NEW y \in Thread, NodeCases(n, y), node' = [node EXCEPT ![n] = y]
  PROVE  NodeValues(n)'
<1> DEFINE x == node[n]
           Held(z) == z.last_execute_state # "FAILURE" =>
                        \A k \in DOMAIN z.held :
                          MadeIn(z.held[k], z.sent.run, z.sent.nth - Len(z.held) + k)
           Fresh(z) == \A v \in z.fresh : MadeIn(v, z.sent.run, z.sent.nth + 1)
           Given(z) == z.pc = "out" /\ ~z.pushing /\ z.last_execute_state = "SUCCESS"
                         => z.held = << >>
<1>1. /\ Types /\ x \in Thread /\ ThreadOK(x, n) /\ NodeInStep(n) /\ node'[n] = y
      /\ OneStatusPerFrame /\ net.frames # 0
      /\ Held(x) /\ Fresh(x) /\ Given(x)
      /\ \A i \in Data : EdgeValues(i)
      /\ HoldsSome => NoSkips
  BY DEF Known, Types, InStep, InTime, NodeValues, Counts
<1>2. /\ x.sent \in Origin /\ y.sent \in Origin
      /\ x.held \in Seq(Origin) /\ y.held \in Seq(Origin)
  BY <1>1 DEF Thread
<1>3. ~IsFlushed(n, y) /\ ~Cut(n)
  BY NothingFlushed, NodeIsStarted
<1>4. y.sent.flush = 0 /\ x.sent.flush = 0
  BY <1>1, NodeKept DEF NodeInStep
<1> SUFFICES Held(y) /\ Fresh(y) /\ Given(y)
  BY <1>1 DEF NodeValues
<1>5. \A z : z.fresh = {} => Fresh(z)
  OBVIOUS
<1>6. AtHead(y, n) => Fresh(y) /\ Given(y)
  BY DEF AtHead
<1>7. AtOut(y, n) => Fresh(y)
  BY DEF AtOut
<1>8. ASSUME y.sent = x.sent, y.held = x.held,
             y.last_execute_state = x.last_execute_state
      PROVE  Held(y)
  BY <1>1, <1>8
<1>9. ASSUME y.held = << >>
      PROVE  Held(y) /\ Given(y)
  BY <1>9
<1>10. \A st : st # "FLUSH" => NextSent(x.sent, st).nth = x.sent.nth + 1
                               /\ NextSent(x.sent, st).run = x.sent.run
  BY <1>2, NextSentFields
<1> HIDE DEF x, Held, Fresh, Given
<1>11. CASE Waits(n, y)
  <2>1. /\ SameRest(x, y) /\ SameLoop(x, y)
    BY <1>11 DEF Waits, x
  <2> QED
    BY <1>1, <1>8, <2>1 DEF SameRest, SameLoop, Fresh, Given
<1>12. CASE Stops(n, y)
  <2>1. /\ SameRest(x, y) /\ y.last_execute_state = x.last_execute_state
        /\ y.pc = "ended" /\ y.fresh = {}
    BY <1>12 DEF Stops, x
  <2> QED
    BY <1>5, <1>8, <2>1 DEF SameRest, Given
<1>13. CASE Takes(n, y)
  <2>1. /\ SameRest(x, y) /\ y.last_execute_state = x.last_execute_state
        /\ y.fresh = x.fresh \cup PushedValues(AtEdge(n))
        /\ y.pc \in {"execute", "in"}
    BY <1>13 DEF Takes, x
  <2>2. \A v \in PushedValues(AtEdge(n)) : MadeIn(v, x.sent.run, x.sent.nth + 1)
    BY <1>1, <1>3, <1>13, TakenValue DEF x
  <2>3. Fresh(y)
    BY <1>1, <2>1, <2>2 DEF Fresh, SameRest
  <2> QED
    BY <1>8, <2>1, <2>3 DEF SameRest, Given
<1>14. CASE Executes(n, y)
  <2>1. /\ y.held = x.held /\ (AtHead(y, n) \/ AtOut(y, n))
    BY <1>14 DEF Executes, x
  <2>2. x.held # << >> => y.last_execute_state = "FAILURE"
    BY <1>1, <1>14, CalledUnlessFailed DEF x
  <2>3. Held(y) /\ Given(y)
    <3>1. CASE x.held = << >>
      BY <1>9, <2>1, <3>1
    <3>2. CASE x.held # << >>
      BY <2>2, <3>2 DEF Held, Given
    <3> QED
      BY <3>1, <3>2
  <2> QED
    BY <1>6, <1>7, <2>1, <2>3
<1>15. ASSUME NEW h \in Seq(Origin), HasAnswered(x, h, y, n),
              y.last_execute_state = "SUCCESS" => h = << >>,
              \A k \in DOMAIN h : MadeIn(h[k], x.sent.run, x.sent.nth - Len(h) + k)
       PROVE  Held(y) /\ Fresh(y) /\ Given(y)
  <2>1. /\ y.sent.run = x.sent.run /\ y.sent.nth = x.sent.nth + 1
    BY <1>10, <1>15 DEF HasAnswered
  <2>2. CASE AtHead(y, n) /\ y.held = Append(h, y.sent)
    <3>1. \A k \in DOMAIN y.held :
            MadeIn(y.held[k], y.sent.run, y.sent.nth - Len(y.held) + k)
      BY <1>2, <1>4, <1>15, <2>1, <2>2, HeldMore
    <3> QED
      BY <1>6, <2>2, <3>1 DEF Held
  <2>3. CASE y.last_execute_state = "SUCCESS" /\ AtOut(y, n) /\ y.held = h
    BY <1>7, <1>9, <1>15, <2>3
  <2> QED
    BY <1>15, <2>2, <2>3 DEF HasAnswered
<1>16. ASSUME NEW h \in Seq(Origin), HasBegunToPush(x, h, y, n),
              \A k \in DOMAIN h : MadeIn(h[k], x.sent.run, x.sent.nth - Len(h) + k)
       PROVE  Held(y) /\ Fresh(y) /\ Given(y)
  BY <1>7, <1>16 DEF HasBegunToPush, Held, Given
<1>17. CASE HoldsBack(n, y)
  <2>1. /\ x.pc = "execute"
        /\ \/ HasBegunToPush(x, x.held, y, n)
           \/ /\ HasAnswered(x, x.held, y, n)
              /\ y.last_execute_state = "SUCCESS" => x.held = << >>
    BY <1>17 DEF HoldsBack, x
  <2>2. x.last_execute_state # "FAILURE"
    BY <1>1, <2>1 DEF NodeInStep, x
  <2>3. \A k \in DOMAIN x.held :
          MadeIn(x.held[k], x.sent.run, x.sent.nth - Len(x.held) + k)
    BY <1>1, <2>2 DEF Held
  <2> QED
    BY <1>2, <1>15, <1>16, <2>1, <2>3
<1>18. CASE Gives(n, y)
  <2>1. CASE SameRest(x, y) /\ SameLoop(x, y)
    BY <1>1, <1>8, <2>1 DEF SameRest, SameLoop, Fresh, Given
  <2>2. CASE /\ SameRest(x, y) /\ y.last_execute_state = x.last_execute_state
             /\ AtHead(y, n)
    BY <1>6, <1>8, <2>2 DEF SameRest
  <2>3. CASE /\ x.pushing
             /\ \/ HasBegunToPush(x, Tail(x.held), y, n)
                \/ HasAnswered(x, Tail(x.held), y, n) /\ Tail(x.held) = << >>
    <3>1. x.held # << >> /\ x.last_execute_state # "FAILURE"
      BY <1>1, <2>3 DEF ThreadOK
    <3>2. \A k \in DOMAIN x.held :
            MadeIn(x.held[k], x.sent.run, x.sent.nth - Len(x.held) + k)
      BY <1>1, <3>1 DEF Held
    <3> DEFINE h == Tail(x.held)
    <3>3. h \in Seq(Origin)
      BY <1>2, <3>1, HeadTailProperties
    <3>4. \A k \in DOMAIN h : MadeIn(h[k], x.sent.run, x.sent.nth - Len(h) + k)
      BY <1>2, <3>1, <3>2, HeldLess
    <3>5. HasBegunToPush(x, h, y, n) \/ (HasAnswered(x, h, y, n) /\ h = << >>)
      BY <2>3
    <3> HIDE DEF h
    <3> QED
      BY <1>15, <1>16, <3>3, <3>4, <3>5
  <2> QED
    BY <1>18, <2>1, <2>2, <2>3 DEF Gives, x
<1> QED
  BY <1>3, <1>11, <1>12, <1>13, <1>14, <1>17, <1>18 DEF NodeCases


(* The value that a node gives is of the frame that the edge has next. *)
LEMMA GivenValue ==
  ASSUME Known, InStep, Counts, NEW n \in Nodes, NEW y \in Thread, Gives(n, y),
         NEW i \in Data, i = AtEdge(n), NodeValues(n),
         node[n].last_execute_state = "SUCCESS"
  PROVE  MadeIn(Announced(n), node[n].sent.run, Produced(i) + 1)
<1> DEFINE x == node[n]
<1>1. /\ Types /\ x \in Thread /\ ThreadOK(x, n) /\ NodeInStep(n) /\ x.pc = "out"
      /\ net.edges[i].from = n
  BY GivesBeforeFailing DEF Known, Types, InStep, Gives
<1>2. i \in Range(x.todo)
  BY <1>1, AtEdgeOf DEF ThreadOK
<1>3. Produced(i) = ProducedOf(x, i)
  BY <1>1, CountsOf DEF FromOf
<1>4. /\ x.sent.nth \in Nat /\ Len(x.held) \in Nat /\ x.sent.flush = 0
      /\ x.held \in Seq(Origin)
  BY <1>1, CountTypes DEF NodeInStep, Thread
<1>5. CASE x.pushing
  <2>1. x.held # << >> /\ Announced(n) = Head(x.held)
    BY <1>1, <1>5 DEF ThreadOK, Announced
  <2>2. Head(x.held) = x.held[1] /\ 1 \in DOMAIN x.held
    BY <1>4, <2>1, HeadTailProperties, EmptySeq
  <2>3. MadeIn(x.held[1], x.sent.run, x.sent.nth - Len(x.held) + 1)
    BY <2>2 DEF NodeValues
  <2>4. Produced(i) = x.sent.nth - Len(x.held)
    <3> HIDE DEF x
    <3>1. ProducedOf(x, i) = x.sent.nth - Len(x.held) + 0
      BY <1>1, <1>2, <1>5 DEF ProducedOf
    <3> QED
      BY <1>3, <1>4, <3>1
  <2> QED
    BY <2>1, <2>2, <2>3, <2>4
<1>6. CASE ~x.pushing
  <2>1. x.held = << >> /\ Announced(n) = x.sent
    BY <1>1, <1>6 DEF NodeValues, Announced
  <2>2. Produced(i) = x.sent.nth - 1
    <3> HIDE DEF x
    <3>1. ProducedOf(x, i) = x.sent.nth - Len(x.held) + (-1)
      BY <1>1, <1>2, <1>6 DEF ProducedOf
    <3>2. Len(x.held) = 0
      BY <2>1
    <3> QED
      BY <1>3, <1>4, <3>1, <3>2
  <2>3. Produced(i) + 1 = x.sent.nth
    BY <1>4, <2>2
  <2> QED
    BY <1>4, <2>1, <2>3 DEF MadeIn
<1> QED
  BY <1>5, <1>6

(* A node's step leaves each value on an edge in its place. *)
LEMMA EdgeValuesStep ==
  ASSUME Known, InStep, Ends, InTime, Counts, Timed(net), NEW n \in Nodes,
         NEW y \in Thread, NodeCases(n, y), node' = [node EXCEPT ![n] = y],
         EdgesOK(edge'), UNCHANGED << net, call, run, cancelled >>, NEW i \in Data
  PROVE  EdgeValues(i)'
<1>1. /\ Types /\ i \in DOMAIN net.edges /\ OneStatusPerFrame /\ net.frames # 0
      /\ EdgeValues(i) /\ EdgeInStep(i) /\ NodeValues(n) /\ NodeInStep(n)
      /\ edge'[i] \in EdgeOf(Origin) /\ edge[i] \in EdgeOf(Origin)
  BY DEF Known, Types, InStep, InTime, Counts, Data, EdgesOK
<1>2. PICK f \in Nodes, t \in Nodes :
        /\ f = net.edges[i].from /\ t = net.edges[i].to
        /\ f = net'.edges[i].from /\ t = net'.edges[i].to
  BY <1>1, NetworkTypes DEF Types
<1>3. /\ node'[n] = y /\ \A m \in Nodes \ {n} : node'[m] = node[m]
      /\ Undisturbed' = Undisturbed
  BY <1>1 DEF Types, Undisturbed
<1>4. /\ ~IsFlushed(n, y) /\ node[n].last_execute_state # "FLUSH" /\ ~Cut(n)
      /\ y.sent.run = node[n].sent.run
  BY <1>1, NothingFlushed, NodeIsStarted, NodeStepsInRun DEF NodeInStep
<1> SUFFICES ASSUME ~edge'[i].no_more_input, SameRun(i)', ~Cut(t)',
                    NEW j \in DOMAIN edge'[i].status, edge'[i].status[j] = "SUCCESS"
             PROVE  MadeIn(ValueAt(edge'[i], j), node'[t].sent.run, Consumed(i)' + j)
  BY <1>2 DEF EdgeValues, ToOf
<1>5. ~Cut(t)
  BY <1>3, <1>4 DEF Cut
<1>6. node'[t].sent.run = node[t].sent.run /\ node'[f].sent.run = node[f].sent.run
  BY <1>3, <1>4
<1>7. SameRun(i)
  BY <1>2, <1>6 DEF SameRun, FromOf, ToOf
<1>8. \A l \in DOMAIN edge[i].status :
        ~edge[i].no_more_input /\ edge[i].status[l] = "SUCCESS" =>
          MadeIn(ValueAt(edge[i], l), node[t].sent.run, Consumed(i) + l)
  BY <1>1, <1>2, <1>5, <1>7 DEF EdgeValues, ToOf
<1>9. CASE Stops(n, y)
  <2>1. edge' = edge /\ y.interrupted /\ y.pc = "ended" /\ ~Undisturbed
    BY <1>9, NothingStopped DEF Stops, SameRest, SameCalls
  <2>2. t # n
    BY <1>3, <2>1 DEF Cut
  <2>3. node'[t] = node[t]
    BY <1>3, <2>2
  <2>4. Consumed(i)' = Consumed(i)
    BY <1>2, <2>3 DEF Consumed
  <2> QED
    BY <1>6, <1>8, <2>1, <2>4
<1>10. ASSUME ~Stops(n, y)
       PROVE  Consumed(i)' = Consumed(i) + (IF Takes(n, y) /\ i = AtEdge(n) THEN 1 ELSE 0)
  BY <1>1, <1>4, <1>10, CountStays
<1>11. Consumed(i) \in Nat /\ Produced(i) \in Int
  <2>1. node[t] \in Thread /\ node[f] \in Thread
    BY <1>1 DEF Types
  <2> QED
    BY <1>2, <2>1, CountTypes, CountsOf DEF FromOf, ToOf
<1>12. /\ DOMAIN edge[i].status = 1 .. Len(edge[i].status)
       /\ DOMAIN edge'[i].status = 1 .. Len(edge'[i].status)
       /\ Len(edge[i].status) \in Nat
  BY <1>1 DEF EdgeOf
<1> DEFINE k == Len(edge[i].status)
           Stays == EdgeStays(i) /\ ~(Takes(n, y) /\ i = AtEdge(n))
<1>13. CASE ~Stops(n, y) /\ Stays
  <2>1. edge'[i] = edge[i] /\ Consumed(i)' = Consumed(i)
    BY <1>10, <1>11, <1>13 DEF EdgeStays
  <2> QED
    BY <1>6, <1>8, <2>1
<1>14. CASE ~Stops(n, y) /\ Takes(n, y) /\ i = AtEdge(n)
  <2>1. CanPush(i) /\ edge' = AfterPush(i)
    BY <1>14 DEF Takes
  <2>2. /\ ~edge[i].no_more_input /\ Len(edge'[i].status) = k - 1
        /\ \A l \in 1 .. k - 1 :
             /\ edge'[i].status[l] = edge[i].status[l + 1]
             /\ edge'[i].status[l] = "SUCCESS"
                  => ValueAt(edge'[i], l) = ValueAt(edge[i], l + 1)
    BY <1>1, <2>1, TakesEdge
  <2>3. j \in 1 .. k - 1 /\ j + 1 \in DOMAIN edge[i].status
    BY <1>12, <2>2
  <2>4. MadeIn(ValueAt(edge[i], j + 1), node[t].sent.run, Consumed(i) + (j + 1))
    BY <1>8, <2>2, <2>3
  <2>5. Consumed(i)' = Consumed(i) + 1
    BY <1>10, <1>14
  <2>6. Consumed(i)' + j = Consumed(i) + (j + 1)
    BY <1>11, <2>3, <2>5
  <2> QED
    BY <1>6, <2>2, <2>3, <2>4, <2>6
<1>15. CASE ~Stops(n, y) /\ Gives(n, y) /\ i = AtEdge(n)
  <2>1. /\ edge' = AfterPull(n, i) /\ node[n].pc = "out" /\ ~Takes(n, y)
        /\ ~edge[i].no_more_input /\ f = n
    BY <1>2, <1>15, GivesBeforeFailing DEF Gives, Takes
  <2>2. /\ Len(edge'[i].status) = k + 1
        /\ edge'[i].status[k + 1] = node[n].last_execute_state
        /\ node[n].last_execute_state = "SUCCESS"
             => ValueAt(edge'[i], k + 1) = Announced(n)
        /\ \A l \in 1 .. k :
             /\ edge'[i].status[l] = edge[i].status[l]
             /\ edge[i].status[l] = "SUCCESS"
                  => ValueAt(edge'[i], l) = ValueAt(edge[i], l)
    BY <1>1, <1>4, <2>1, GivesEdge
  <2>3. Consumed(i)' = Consumed(i)
    BY <1>10, <1>11, <1>15, <2>1
  <2>4. CASE j \in 1 .. k
    BY <1>6, <1>8, <1>12, <2>1, <2>2, <2>3, <2>4
  <2>5. CASE j = k + 1
    <3>1. MadeIn(Announced(n), node[n].sent.run, Produced(i) + 1)
      BY <1>1, <1>15, <2>2, <2>5, GivenValue
    <3>2. k = Produced(i) - Consumed(i)
      BY <1>1, <1>2, <1>4, <1>5, <1>7, <2>1 DEF EdgeInStep
    <3>3. Consumed(i)' + j = Produced(i) + 1
      BY <1>11, <1>12, <2>3, <2>5, <3>2
    <3>4. node[n].sent.run = node[t].sent.run
      BY <1>2, <1>7, <2>1 DEF SameRun, FromOf, ToOf
    <3> QED
      BY <1>6, <2>2, <2>5, <3>1, <3>3, <3>4
  <2>6. j \in 1 .. k \/ j = k + 1
    BY <1>12, <2>2
  <2> QED
    BY <2>4, <2>5, <2>6
<1> QED
  BY <1>1, <1>4, <1>9, <1>13, <1>14, <1>15, EdgeCases

(* Where a process holds frames back, no step skips one. *)
LEMMA NoSkipsStep ==
  ASSUME Known, InStep, Counts, Timed(net), NoSkips, HoldsSome, NEW n \in Nodes,
         NEW y \in Thread, NodeCases(n, y), node' = [node EXCEPT ![n] = y],
         EdgesOK(edge'), UNCHANGED << net, call, run, cancelled >>
  PROVE  NoSkips'
<1>1. /\ Types /\ OneStatusPerFrame /\ node[n].last_execute_state # "FLUSH"
      /\ node[n].last_execute_state # "SKIP" /\ "SKIP" \notin node[n].found
  BY DEF Known, InStep, NodeInStep, Counts, NoSkips
<1>2. ~IsFlushed(n, y)
  BY NothingFlushed
<1>3. /\ node'[n] = y /\ \A m \in Nodes \ {n} : node'[m] = node[m]
      /\ Nodes' = Nodes /\ Data' = Data
  BY <1>1 DEF Types, Nodes, Data
<1>4. Takes(n, y) => /\ AtEdge(n) \in DOMAIN net.edges /\ CanPush(AtEdge(n))
                     /\ edge' = AfterPush(AtEdge(n)) /\ ~Gives(n, y)
  BY <1>1, AtEdgeOf DEF Takes, Gives, Types, ThreadOK
<1>5. y.last_execute_state # "SKIP" /\ "SKIP" \notin y.found
  <2>1. CASE Waits(n, y) \/ Stops(n, y)
    BY <1>1, <2>1 DEF Waits, Stops, SameLoop
  <2>2. CASE Takes(n, y)
    <3>1. PushedStatus(AtEdge(n)) # "SKIP"
      <4>1. CASE AtEdge(n) \notin Data
        BY <1>1, <1>4, <2>2, <4>1, TakesEdge
      <4>2. CASE AtEdge(n) \in Data
        <5> DEFINE i == AtEdge(n)
        <5>1. \/ PushedStatus(i) = "FAILURE"
              \/ /\ Len(edge[i].status) >= 1 /\ Len(edge[i].status) \in Nat
                 /\ PushedStatus(i) = edge[i].status[1]
          BY <1>1, <1>4, <2>2, <4>2, TakesEdge
        <5>2. DOMAIN edge[i].status = 1 .. Len(edge[i].status)
          BY <1>1, <4>2 DEF Types, EdgesOK, EdgeOf, Data
        <5>3. Len(edge[i].status) >= 1 /\ Len(edge[i].status) \in Nat
                => 1 \in DOMAIN edge[i].status
          BY <5>2
        <5> QED
          BY <4>2, <5>1, <5>3 DEF NoSkips
      <4> QED
        BY <4>1, <4>2
    <3> QED
      BY <1>1, <2>2, <3>1 DEF Takes, Noted
  <2>3. CASE Executes(n, y)
    BY <1>1, <2>3, CalledUnlessFailed DEF Executes, AtHead, AtOut
  <2>4. CASE HoldsBack(n, y)
    BY <2>4 DEF HoldsBack, HasBegunToPush, HasAnswered, AtHead, AtOut
  <2>5. CASE Gives(n, y)
    BY <1>1, <2>5 DEF Gives, SameLoop, HasBegunToPush, HasAnswered, AtHead, AtOut
  <2> QED
    BY <1>2, <2>1, <2>2, <2>3, <2>4, <2>5 DEF NodeCases
<1>6. ASSUME NEW i \in Data, NEW j \in DOMAIN edge'[i].status
      PROVE  edge'[i].status[j] # "SKIP"
  <2> DEFINE k == Len(edge[i].status)
  <2>1. /\ i \in DOMAIN net.edges
        /\ DOMAIN edge[i].status = 1 .. k /\ k \in Nat
        /\ DOMAIN edge'[i].status = 1 .. Len(edge'[i].status)
        /\ \A l \in DOMAIN edge[i].status : edge[i].status[l] # "SKIP"
    BY <1>1 DEF Types, EdgesOK, EdgeOf, Data, NoSkips
  <2>2. CASE EdgeStays(i)
    BY <2>1, <2>2 DEF EdgeStays
  <2>3. CASE Takes(n, y) /\ i = AtEdge(n)
    <3>1. \/ edge'[i] = edge[i]
          \/ /\ Len(edge'[i].status) = k - 1
             /\ \A l \in 1 .. k - 1 : edge'[i].status[l] = edge[i].status[l + 1]
      BY <1>1, <1>4, <2>1, <2>3, TakesEdge
    <3>2. Len(edge'[i].status) = k - 1 => j \in 1 .. k - 1 /\ j + 1 \in 1 .. k
      BY <2>1
    <3> QED
      BY <2>1, <3>1, <3>2
  <2>4. CASE Gives(n, y) /\ i = AtEdge(n)
    <3>1. edge' = AfterPull(n, i) /\ node[n].pc = "out"
      BY <2>4 DEF Gives
    <3>2. /\ Len(edge'[i].status) = k + 1
          /\ edge'[i].status[k + 1] = node[n].last_execute_state
          /\ \A l \in 1 .. k : edge'[i].status[l] = edge[i].status[l]
      BY <1>1, <2>1, <3>1, GivesEdge
    <3>3. j \in 1 .. k \/ j = k + 1
      BY <2>1, <3>2
    <3> QED
      BY <1>1, <2>1, <3>2, <3>3
  <2> QED
    BY <1>1, <1>2, <2>2, <2>3, <2>4, EdgeCases
<1> QED
  BY <1>1, <1>3, <1>5, <1>6 DEF NoSkips


(* A caller takes nothing and gives nothing. *)
LEMMA InTimeCallerStep ==
  ASSUME Known, InStep, Ends, InTime, Counts, Timed(net), NEW c \in Callers, CallerStep(c)
  PROVE  /\ \A n \in Nodes : NodeValues(n)'
         /\ \A i \in Data : EdgeValues(i)'
         /\ HoldsSome => NoSkips'
<1>1. PICK v \in Nodes, y \in Thread :
        /\ LeavesThread(v, y) \/ StartsThread(v, y) \/ ResetsThread(v, y)
        /\ node' = [node EXCEPT ![v] = y]
        /\ UNCHANGED << net, run, cancelled >>
  BY CallerEffects
<1>2. /\ Types /\ Nodes' = Nodes /\ Data' = Data /\ Undisturbed' = Undisturbed
      /\ \A n \in Nodes : NodeValues(n)
      /\ \A i \in Data : EdgeValues(i) /\ i \in DOMAIN net.edges
      /\ HoldsSome => NoSkips
  BY <1>1, SameCounts DEF Known, InTime, Data
<1>3. node'[v] = y /\ \A m \in Nodes \ {v} : node'[m] = node[m]
  BY <1>1, <1>2 DEF Types
<1>4. \A n \in Nodes : node'[n] = node[n] => NodeValues(n)'
  BY <1>2 DEF NodeValues
<1>5. ASSUME NEW i \in Data, edge'[i] = edge[i], SameRun(i)' = SameRun(i),
             Consumed(i)' = Consumed(i), ~Cut(net.edges[i].to)' => ~Cut(net.edges[i].to),
             ToOf(i)'.sent = ToOf(i).sent
      PROVE  EdgeValues(i)'
  <2>1. EdgeValues(i) /\ net' = net
    BY <1>1, <1>2
  <2> QED
    BY <1>5, <2>1 DEF EdgeValues
<1>6. CASE LeavesThread(v, y)
  <2>1. /\ \A n \in Nodes : SameThread(node[n], node'[n]) /\ (Cut(n)' <=> Cut(n))
        /\ \A i \in DOMAIN net.edges : /\ Consumed(i)' = Consumed(i)
                                       /\ SameRun(i)' = SameRun(i)
    BY <1>1, <1>2, <1>6, SameThreadCounts
  <2>2. edge' = edge
    BY <1>6 DEF LeavesThread
  <2>3. \A n \in Nodes : NodeValues(n)'
    BY <1>2, <2>1 DEF NodeValues, SameThread, SameLoop
  <2>4. ASSUME NEW i \in Data
        PROVE  EdgeValues(i)'
    <3>1. PICK t \in Nodes : t = net.edges[i].to /\ t = net'.edges[i].to
      BY <1>1, <1>2, NetworkTypes DEF Types
    <3>2. /\ ToOf(i)'.sent = ToOf(i).sent
          /\ Cut(net.edges[i].to)' <=> Cut(net.edges[i].to)
      BY <2>1, <3>1 DEF ToOf, SameThread, Cut
    <3> QED
      BY <1>2, <1>5, <2>1, <2>2, <3>2
  <2>5. HoldsSome => NoSkips'
    BY <1>2, <2>1, <2>2 DEF NoSkips, SameThread, SameLoop
  <2> QED
    BY <2>3, <2>4, <2>5
<1>7. CASE StartsThread(v, y)
  <2>1. /\ ~Cut(v) /\ node[v].last_execute_state = "SUCCESS"
        /\ \A i \in DOMAIN net.edges : /\ Consumed(i)' = Consumed(i)
                                       /\ SameRun(i)' = SameRun(i)
    BY <1>1, <1>7, StartedCounts
  <2>2. /\ edge' = edge /\ y.sent = node[v].sent /\ y.held = node[v].held
        /\ y.last_execute_state = "SUCCESS" /\ y.fresh = {} /\ y.pc # "out"
        /\ y.found = {}
    BY <1>7 DEF StartsThread, AtHead
  <2>3. NodeValues(v)'
    <3>1. /\ \A k \in DOMAIN node[v].held :
               MadeIn(node[v].held[k], node[v].sent.run,
                      node[v].sent.nth - Len(node[v].held) + k)
      BY <1>2, <2>1 DEF NodeValues
    <3> QED
      BY <1>3, <2>2, <3>1 DEF NodeValues
  <2>4. ASSUME NEW i \in Data
        PROVE  EdgeValues(i)'
    <3>1. PICK t \in Nodes : t = net.edges[i].to /\ t = net'.edges[i].to
      BY <1>1, <1>2, NetworkTypes DEF Types
    <3>2. ToOf(i)'.sent = ToOf(i).sent
      BY <1>3, <2>2, <3>1 DEF ToOf
    <3>3. Cut(net.edges[i].to) => Cut(net.edges[i].to)'
      BY <1>2, <1>3, <2>1, <3>1 DEF Cut
    <3> QED
      BY <1>2, <1>5, <2>1, <2>2, <3>2, <3>3
  <2>5. HoldsSome => NoSkips'
    BY <1>2, <1>3, <2>2 DEF NoSkips
  <2> QED
    BY <1>3, <1>4, <2>3, <2>4, <2>5
<1>8. CASE ResetsThread(v, y)
  <2>1. /\ y.held = node[v].held /\ y.fresh = node[v].fresh /\ y.pc = "ended"
        /\ node[v].pc = "ended" /\ run # 1
    BY <1>8 DEF ResetsThread
  <2>2. EndsByItself(net)
    BY <2>1 DEF Counts, Undisturbed
  <2>3. ~HoldsSome /\ node[v].held = << >>
    BY <1>2, <2>2, NothingHeld DEF HoldsSome
  <2>4. node[v].fresh = {}
    BY <1>2, <2>1 DEF Types, ThreadOK
  <2>5. NodeValues(v)'
    BY <1>3, <2>1, <2>3, <2>4 DEF NodeValues
  <2>6. ASSUME NEW i \in Data
        PROVE  EdgeValues(i)'
    <3>1. edge'[i].status = << >>
      BY <1>1, <1>8, KnownCallerStep, ResetEdges
    <3> QED
      BY <3>1 DEF EdgeValues
  <2> QED
    BY <1>3, <1>4, <2>3, <2>5, <2>6
<1> QED
  BY <1>1, <1>6, <1>7, <1>8

(* The values are in their place at the start. *)
LEMMA InTimeInit == Init => InTime
<1> SUFFICES ASSUME Init
             PROVE  InTime
  OBVIOUS
<1>1. net \in Networks
  BY DEF Init
<1>2. ASSUME NEW n \in Nodes
      PROVE  /\ NodeValues(n)
             /\ node[n].last_execute_state = "SUCCESS" /\ node[n].found = {}
  BY DEF Init, NewNode, NodeValues
<1>3. ASSUME NEW i \in Data
      PROVE  EdgeValues(i) /\ edge[i].status = << >>
  BY DEF Init, EmptyEdge, EdgeValues, Data
<1>4. NoSkips
  BY <1>2, <1>3 DEF NoSkips
<1> QED
  BY <1>2, <1>3, <1>4 DEF InTime

(* Every step leaves the values in their place. *)
LEMMA InTimeStep ==
  Known /\ InStep /\ Ends /\ InTime /\ [Next]_vars => InTime'
<1> SUFFICES ASSUME Known, InStep, Ends, InTime, [Next]_vars
             PROVE  InTime'
  OBVIOUS
<1>1. ASSUME UNCHANGED << net, edge, node >>, Counts' => Counts,
             \A n \in Nodes : Cut(n) => Cut(n)'
      PROVE  InTime'
  <2>1. Nodes' = Nodes /\ Data' = Data /\ (Timed(net)' <=> Timed(net))
        /\ (HoldsSome' <=> HoldsSome) /\ (NoSkips' <=> NoSkips)
    BY <1>1 DEF Nodes, Data, Timed, HoldsSome, NoSkips
  <2> SUFFICES ASSUME Counts, Timed(net)
               PROVE  /\ \A n \in Nodes : NodeValues(n)'
                      /\ \A i \in Data : EdgeValues(i)'
                      /\ HoldsSome => NoSkips
    BY <1>1, <2>1 DEF InTime
  <2>2. /\ \A n \in Nodes : NodeValues(n)
        /\ \A i \in Data : EdgeValues(i)
        /\ HoldsSome => NoSkips
    BY DEF InTime
  <2>3. \A n \in Nodes : NodeValues(n)'
    BY <1>1, <2>2 DEF NodeValues
  <2>4. ASSUME NEW i \in Data
        PROVE  EdgeValues(i)'
    <3>1. PICK t \in Nodes : t = net.edges[i].to /\ t = net'.edges[i].to
      BY <1>1, NetworkTypes DEF Known, Types, Data
    <3>2. Cut(net.edges[i].to) => Cut(net.edges[i].to)'
      BY <1>1, <3>1 DEF Cut
    <3>3. Consumed(i)' = Consumed(i) /\ SameRun(i)' = SameRun(i) /\ ToOf(i)' = ToOf(i)
      BY <1>1 DEF Consumed, SameRun, FromOf, ToOf
    <3>4. EdgeValues(i)
      BY <2>2
    <3> QED
      BY <1>1, <3>2, <3>3, <3>4 DEF EdgeValues
  <2> QED
    BY <2>2, <2>3, <2>4
<1>2. ASSUME UNCHANGED << net, run, cancelled >>,
             Counts /\ Timed(net) => /\ \A n \in Nodes : NodeValues(n)'
                                     /\ \A i \in Data : EdgeValues(i)'
                                     /\ HoldsSome => NoSkips'
      PROVE  InTime'
  <2>1. /\ Counts' = Counts /\ Data' = Data /\ Nodes' = Nodes
        /\ HoldsSome' <=> HoldsSome
        /\ Timed(net)' <=> Timed(net)
    BY <1>2, SameCounts DEF HoldsSome, Timed, Nodes
  <2> QED
    BY <1>2, <2>1 DEF InTime
<1>3. ASSUME NEW n \in Nodes, NodeStep(n)
      PROVE  InTime'
  <2>1. PICK y \in Thread : /\ NodeCases(n, y) /\ node' = [node EXCEPT ![n] = y]
                            /\ EdgesOK(edge')
                            /\ UNCHANGED << net, call, run, cancelled >>
    BY <1>3, NodeStepCases DEF Known
  <2> SUFFICES ASSUME Counts, Timed(net)
               PROVE  /\ \A m \in Nodes : NodeValues(m)'
                      /\ \A i \in Data : EdgeValues(i)'
                      /\ HoldsSome => NoSkips'
    BY <1>2, <2>1
  <2>2. node'[n] = y /\ \A m \in Nodes \ {n} : node'[m] = node[m]
    BY <2>1 DEF Known, Types
  <2>3. NodeValues(n)'
    BY <2>1, NodeValuesStep
  <2>4. \A m \in Nodes \ {n} : NodeValues(m)'
    BY <2>2 DEF NodeValues, InTime
  <2>5. \A i \in Data : EdgeValues(i)'
    BY <2>1, EdgeValuesStep
  <2>6. HoldsSome => NoSkips'
    BY <2>1, NoSkipsStep DEF InTime
  <2> QED
    BY <2>3, <2>4, <2>5, <2>6
<1>4. ASSUME NEW c \in Callers, CallerStep(c)
      PROVE  InTime'
  <2>1. UNCHANGED << net, run, cancelled >>
    BY <1>4, CallerEffects
  <2> QED
    BY <1>2, <1>4, <2>1, InTimeCallerStep
<1>5. CASE RunAgain
  <2>1. /\ UNCHANGED << net, edge, node, cancelled >> /\ Types
        /\ run \in Nat /\ run >= 1 /\ run' = run + 1
    BY <1>5, NetworkTypes DEF Known, RunAgain, Types
  <2>2. Undisturbed' = Undisturbed
    BY <2>1 DEF Undisturbed
  <2>3. Counts' => Counts
    BY <2>1, <2>2, UndisturbedCounts DEF Counts
  <2> QED
    BY <1>1, <2>1, <2>2, <2>3 DEF Cut
<1>6. CASE Cancel
  <2>1. UNCHANGED << net, edge, node, run >> /\ cancelled' = TRUE
    BY <1>6 DEF Cancel
  <2>2. ~Undisturbed'
    BY <2>1 DEF Undisturbed
  <2>3. Counts' => Counts
    BY <2>1, <2>2 DEF Counts, OneStatusPerFrame, Nodes
  <2> QED
    BY <1>1, <2>1, <2>2, <2>3 DEF Cut
<1>7. CASE UNCHANGED vars
  <2>1. UNCHANGED << net, edge, node, run, cancelled >>
    BY <1>7 DEF vars
  <2>2. Counts' = Counts /\ Undisturbed' = Undisturbed
    BY <2>1, SameCounts
  <2> QED
    BY <1>1, <2>1, <2>2 DEF Cut
<1> QED
  BY <1>3, <1>4, <1>5, <1>6, <1>7 DEF Next

(* The values are in their place in every state. *)
LEMMA InTimeInvariant == Spec => [](Known /\ InTime)
<1>1. Init => Known /\ InTime
  BY TypesInit, CallsInit, KnownInit, InTimeInit DEF Known
<1> QED
  BY <1>1, InTimeStep, FramesInvariant, KnownInvariant, PTL DEF Spec

-----------------------------------------------------------------------------
(* What branches out of a node comes together again in the same frame,     *)
(* whatever is skipped, fails or is cancelled on one of the branches, in   *)
(* a first run, and in the later ones of a pipeline that only the end of   *)
(* its stream has stopped (execute_incoming_edges, execute_outgoing_edges, *)
(* node::push_output).                                                     *)
THEOREM InputsCorrect == Spec => [](Counts /\ Timed(net) => InputsSynchronized)
<1>1. Known /\ InTime => (Counts /\ Timed(net) => InputsSynchronized)
  <2> SUFFICES ASSUME Known, InTime, Counts, Timed(net), NEW n \in Nodes,
                      NEW v \in node[n].fresh, NEW w \in node[n].fresh
               PROVE  v = w
    BY DEF InputsSynchronized
  <2>1. v \in Origin /\ w \in Origin
    BY DEF Known, Types, Thread
  <2>2. /\ MadeIn(v, node[n].sent.run, node[n].sent.nth + 1)
        /\ MadeIn(w, node[n].sent.run, node[n].sent.nth + 1)
    BY DEF InTime, NodeValues
  <2> QED
    BY <2>1, <2>2, SameOrigin DEF MadeIn
<1> QED
  BY <1>1, InTimeInvariant, PTL

(* Nothing of an earlier run is given to a process: a reset leaves none of *)
(* it on an edge or in a node (async_pipeline_node::reset).                *)
THEOREM ValuesCorrect == Spec => [](Counts /\ Timed(net) => ValuesOfThisRun)
<1>1. Known /\ InTime => (Counts /\ Timed(net) => ValuesOfThisRun)
  <2> SUFFICES ASSUME Known, InTime, Counts, Timed(net), NEW n \in Nodes,
                      NEW v \in node[n].fresh
               PROVE  v.run = run
    BY DEF ValuesOfThisRun
  <2>1. v.run = node[n].sent.run
    BY DEF InTime, NodeValues, MadeIn
  <2>2. node[n].pc \in {"in", "resync", "execute"}
    BY DEF Known, Types, ThreadOK
  <2>3. ~NotStarted(n)
    BY <2>2 DEF Known, ThreadKnown
  <2> QED
    BY <2>1, <2>3, AllReset
<1> QED
  BY <1>1, InTimeInvariant, PTL

-----------------------------------------------------------------------------
(* What every node makes of every frame.                                   *)

(* The stream of a node, as its thread knows it. *)
NodeStream(n) ==
  LET x == node[n]
      s == stream[n]
  IN  /\ Len(s) = IF NotReset(n) THEN 0 ELSE x.sent.nth
      /\ s # << >> => s[Len(s)] = x.last_execute_state
      /\ \A j \in DOMAIN s : s[j] = "FAILURE" => j = Len(s)
      /\ x.last_execute_state = "FAILURE" => x.sent.nth > 0
      /\ IsSource(n) => x.left = IF x.sent.nth <= net.frames
                                 THEN net.frames - x.sent.nth ELSE 0

(* The edges that the thread has visited in this frame. *)
TakenFrom(n) == EdgesTo(n) \ Range(node[n].todo)

(* What the thread has found is what its sources have made of the frame. *)
NodeFound(n) ==
  LET x == node[n]
      k == x.sent.nth + 1
  IN  x.pc \in {"in", "execute"} =>
        /\ \A i \in TakenFrom(n) : Streams!Known(i, k)
        /\ \A st \in {"SKIP", "FAILURE"} :
             st \in x.found <=> \E i \in TakenFrom(n) :
                                  /\ Streams!StatusIn(i, k) = st
                                  /\ st = "FAILURE" => net.edges[i].kind = "required"

(* An edge holds the statuses of its source in the frames that its sink    *)
(* takes next. *)
EdgeStream(i) ==
  LET f == net.edges[i].from
      t == net.edges[i].to
      q == edge[i].status
  IN  ~NotReset(f) /\ ~NotReset(t) /\ ~Cut(t) =>
        IF edge[i].no_more_input THEN Len(stream[f]) <= Consumed(i)
        ELSE \A j \in DOMAIN q : /\ Consumed(i) + j \in DOMAIN stream[f]
                                 /\ q[j] = stream[f][Consumed(i) + j]

InStream ==
  /\ stream \in [Nodes -> Seq(StepStatus)]
  /\ net.frames = 0 => stream = NothingYet
  /\ Streams!FramesOnly(net) /\ net.frames # 0 =>
       /\ \A n \in Nodes : NodeStream(n) /\ NodeFound(n)
       /\ \A i \in DOMAIN net.edges : EdgeStream(i)


(* FrameStreams sees the same network. *)
LEMMA SameStreams ==
  /\ Streams!Nodes = Nodes
  /\ \A n : Streams!EdgesTo(n) = EdgesTo(n)
  /\ \A n : Streams!IsSource(n) <=> IsSource(n)
  /\ \A found, skipped, returns :
       Streams!MayReturn(found, skipped, returns) = MayReturn(found, skipped, returns)
  /\ Streams!NothingYet = NothingYet
BY DEF Streams!Nodes, Nodes, Streams!Range, Range, Streams!EdgesTo, EdgesTo,
       Streams!IsSource, IsSource, Streams!MayReturn, MayReturn,
       Streams!NothingYet, NothingYet

(* What a network that makes only frames does not do. *)
LEMMA OnlyFrames ==
  ASSUME NetworksEnd, Known, Streams!FramesOnly(net), net.frames # 0
  PROVE  /\ Counts /\ OneStatusPerFrame /\ Data = DOMAIN net.edges
         /\ \A n \in Nodes : /\ {"FLUSH", "NO_OUTPUT"} \cap net.returns[n] = {}
                             /\ ~(net.holds[n] > 0)
                             /\ node[n].held = << >> /\ ~node[n].pushing
         /\ run # 1 => Undisturbed
         /\ \A i \in DOMAIN net.edges : net.edges[i].kind \in {"required", "optional"}
<1>1. /\ Types /\ net \in Networks /\ run \in 1 .. net.runs /\ net.runs \in Nat
      /\ CallsAreKnown
  BY NetworkTypes DEF Known, Types
<1>2. Streams!Range(net.order) = Nodes
  BY DEF Streams!Range, Nodes, Range
<1>3. ASSUME NEW n \in Nodes
      PROVE  /\ {"FLUSH", "NO_OUTPUT"} \cap net.returns[n] = {}
             /\ ~(net.holds[n] > 0)
             /\ node[n].held = << >> /\ ~node[n].pushing
  <2>1. {"FLUSH", "NO_OUTPUT"} \cap net.returns[n] = {}
    BY <1>2 DEF Streams!FramesOnly
  <2>2. ~(net.holds[n] > 0)
    <3>1. net.holds[n] > 0 => net.returns[n] = {"SUCCESS", "NO_OUTPUT"}
      BY <1>1, NetworkTypes
    <3> QED
      BY <2>1, <3>1
  <2> QED
    BY <1>1, <2>1, <2>2 DEF Types, ThreadOK, HeldOK
<1>4. /\ \A i \in DOMAIN net.edges : net.edges[i].kind # "dependency"
      /\ \A i \in DOMAIN net.edges : net.edges[i].kind \in EdgeKind
  BY <1>1, NetworkTypes DEF Streams!FramesOnly
<1>5. Data = DOMAIN net.edges
  BY <1>4 DEF Data
<1>6. OneStatusPerFrame
  BY <1>3 DEF OneStatusPerFrame
<1>7. run # 1 => Undisturbed
  <2> SUFFICES ASSUME run # 1
               PROVE  Undisturbed
    OBVIOUS
  <2>1. net.runs > 1
    BY <1>1
  <2>2. EndsByItself(net) /\ net.cancels = "never"
    BY <1>1, <2>1 DEF NetworksEnd
  <2> QED
    BY <1>1, <2>2 DEF Undisturbed, CallsAreKnown
<1> QED
  BY <1>3, <1>4, <1>5, <1>6, <1>7 DEF Counts, EdgeKind

(* A thread that has failed makes no step; a failed node is one whose      *)
(* thread has. *)
LEMMA FailedStreams ==
  ASSUME Known, stream \in [Nodes -> Seq(StepStatus)], NEW n \in Nodes,
         NodeStream(n), ~NotReset(n)
  PROVE  /\ Streams!Failed(n) <=> node[n].last_execute_state = "FAILURE"
         /\ Len(stream[n]) \in Nat /\ DOMAIN stream[n] = 1 .. Len(stream[n])
         /\ Len(stream[n]) = node[n].sent.nth
<1>1. /\ stream[n] \in Seq(StepStatus) /\ Len(stream[n]) = node[n].sent.nth
      /\ Len(stream[n]) \in Nat /\ DOMAIN stream[n] = 1 .. Len(stream[n])
  BY DEF NodeStream
<1>2. node[n].last_execute_state = "FAILURE" => stream[n] # << >>
  BY <1>1 DEF NodeStream
<1> QED
  BY <1>1, <1>2 DEF NodeStream, Streams!Failed

(* What a node is known to have made of a frame stays so when another      *)
(* frame, or another node, is done. *)
LEMMA StatusStays ==
  ASSUME stream \in [Nodes -> Seq(StepStatus)], net' = net, NEW n \in Nodes, NEW st,
         ~Streams!Failed(n), stream' = [stream EXCEPT ![n] = Append(@, st)],
         NEW i, net.edges[i].from \in Nodes, NEW k \in Nat \ {0}, Streams!Known(i, k)
  PROVE  Streams!Known(i, k)' /\ Streams!StatusIn(i, k)' = Streams!StatusIn(i, k)
<1>1. PICK f \in Nodes : f = net.edges[i].from /\ f = net'.edges[i].from
  OBVIOUS
<1>2. CASE f # n
  <2>1. stream'[f] = stream[f]
    BY <1>2
  <2> QED
    BY <1>1, <2>1 DEF Streams!Known, Streams!StatusIn, Streams!Failed
<1>3. CASE f = n
  <2>1. k <= Len(stream[f]) /\ Len(stream[f]) \in Nat /\ stream[f] \in Seq(StepStatus)
    BY <1>1, <1>3 DEF Streams!Known
  <2>2. /\ stream'[f] = Append(stream[f], st)
        /\ Len(stream'[f]) = Len(stream[f]) + 1 /\ stream'[f][k] = stream[f][k]
    BY <1>3, <2>1
  <2>3. k <= Len(stream'[f])
    BY <2>1, <2>2
  <2> QED
    BY <1>1, <2>1, <2>2, <2>3 DEF Streams!Known, Streams!StatusIn
<1> QED
  BY <1>2, <1>3

(* Only the step of a process is recorded. *)
LEMMA StepRecorded ==
  ASSUME NetworksEnd, Known, InStep, Streams!FramesOnly(net), net.frames # 0,
         stream \in [Nodes -> Seq(StepStatus)], NEW n \in Nodes, NEW y \in Thread,
         NodeCases(n, y), node' = [node EXCEPT ![n] = y], UNCHANGED << net, run >>,
         Recorded
  PROVE  /\ ~IsFlushed(n, y) /\ ~HoldsBack(n, y)
         /\ Executes(n, y) =>
              /\ stream' = [stream EXCEPT ![n] = Append(@, y.last_execute_state)]
              /\ y.sent.nth = node[n].sent.nth + 1
              /\ y.last_execute_state \in {"FAILURE", "SUCCESS", "SKIP"}
         /\ ~Executes(n, y) =>
              /\ stream' = stream
              /\ y.sent = node[n].sent /\ y.left = node[n].left
              /\ y.last_execute_state = node[n].last_execute_state
<1> DEFINE x == node[n]
<1>1. /\ Types /\ x \in Thread /\ Counts /\ OneStatusPerFrame /\ ~(net.holds[n] > 0)
      /\ ~x.pushing
  BY OnlyFrames DEF Known, Types
<1>2. ~IsFlushed(n, y) /\ ~HoldsBack(n, y)
  BY <1>1, NothingFlushed DEF HoldsBack
<1>3. /\ node'[n] = y /\ \A m \in Nodes \ {n} : node'[m] = node[m]
      /\ \A m \in Nodes : node[m].sent.nth \in Nat
  <2>1. \A m \in Nodes : node[m] \in Thread
    BY <1>1 DEF Types
  <2> QED
    BY <1>1, <2>1, CountTypes DEF Types
<1>4. stream' = [m \in Nodes |-> IF /\ node'[m].sent.nth > node[m].sent.nth
                                    /\ node'[m].last_execute_state # "NO_OUTPUT"
                                 THEN Append(stream[m], node'[m].last_execute_state)
                                 ELSE stream[m]]
  BY DEF Recorded
<1>5. \A m \in Nodes \ {n} : stream'[m] = stream[m]
  BY <1>3, <1>4
<1>6. ASSUME Executes(n, y)
      PROVE  /\ stream' = [stream EXCEPT ![n] = Append(@, y.last_execute_state)]
             /\ y.sent.nth = x.sent.nth + 1
             /\ y.last_execute_state \in {"FAILURE", "SUCCESS", "SKIP"}
  <2>1. y.last_execute_state \in {"FAILURE", "SUCCESS", "SKIP"}
    BY <1>1, <1>6, ExecutesStatus
  <2>2. y.sent = NextSent(x.sent, y.last_execute_state) /\ x.sent \in Origin
    BY <1>1, <1>6 DEF Executes, Thread
  <2>3. y.sent.nth = x.sent.nth + 1
    BY <2>1, <2>2, NextSentFields
  <2>4. y.sent.nth > x.sent.nth /\ y.last_execute_state # "NO_OUTPUT"
    BY <1>3, <2>1, <2>3
  <2>5. stream'[n] = Append(stream[n], y.last_execute_state)
    BY <1>3, <1>4, <2>4
  <2>6. stream' = [stream EXCEPT ![n] = Append(@, y.last_execute_state)]
    BY ZenonT(30), <1>4, <1>5, <2>5
  <2> QED
    BY <2>1, <2>3, <2>6
<1>7. ASSUME ~Executes(n, y)
      PROVE  /\ stream' = stream /\ y.sent = x.sent /\ y.left = x.left
             /\ y.last_execute_state = x.last_execute_state
  <2>1. /\ y.sent = x.sent /\ y.left = x.left
        /\ y.last_execute_state = x.last_execute_state
    BY <1>1, <1>2, <1>7 DEF NodeCases, Waits, Stops, Takes, Gives, SameRest, SameLoop
  <2>2. stream'[n] = stream[n]
    BY <1>3, <1>4, <2>1
  <2> QED
    BY <1>4, <1>5, <2>1, <2>2
<1> QED
  BY <1>2, <1>6, <1>7

(* The step of a process is a step of the node's stream. *)
LEMMA StepsStream ==
  ASSUME NetworksEnd, Known, InStep, InStream, Streams!FramesOnly(net), net.frames # 0,
         NEW n \in Nodes, NEW y \in Thread, NodeCases(n, y), Executes(n, y),
         node' = [node EXCEPT ![n] = y], UNCHANGED << net, run >>, Recorded
  PROVE  ~Streams!Failed(n) /\ Streams!Step(n)
<1> DEFINE x == node[n]
           st == y.last_execute_state
           k == Len(stream[n]) + 1
<1>1. /\ Types /\ x \in Thread /\ ThreadOK(x, n) /\ ~NotReset(n) /\ NodeStream(n)
      /\ NodeFound(n) /\ NodeInStep(n) /\ Counts /\ net.frames \in Nat
      /\ stream \in [Nodes -> Seq(StepStatus)]
  BY NodeIsStarted, OnlyFrames, NetworkTypes DEF Known, Types, InStream, InStep
<1>2. x.pc = "execute" /\ st \in MayReturn(x.found, n \in net.skipped, Returns(n))
  BY DEF Executes
<1>3. x.last_execute_state # "FAILURE"
  BY <1>1, <1>2 DEF NodeInStep
<1>4. /\ ~Streams!Failed(n) /\ k = x.sent.nth + 1 /\ Len(stream[n]) = x.sent.nth
      /\ x.sent.nth \in Nat
  BY <1>1, <1>3, FailedStreams, CountTypes
<1>5. TakenFrom(n) = EdgesTo(n)
  <2>1. x.todo = << >>
    BY <1>1, <1>2 DEF ThreadOK
  <2> QED
    BY <2>1 DEF TakenFrom, Range
<1>6. \A i \in EdgesTo(n) : Streams!Known(i, k)
  BY <1>1, <1>2, <1>4, <1>5 DEF NodeFound
<1>7. x.found = Streams!Found(n, k)
  <2>1. x.found \subseteq {"SKIP", "FAILURE"}
    BY <1>1 DEF Thread
  <2>2. \A s \in {"SKIP", "FAILURE"} :
          s \in x.found <=> \E i \in EdgesTo(n) :
                              /\ Streams!StatusIn(i, k) = s
                              /\ s = "FAILURE" => net.edges[i].kind = "required"
    BY <1>1, <1>2, <1>4, <1>5 DEF NodeFound
  <2> HIDE DEF x, k
  <2>3. \A s : s \in Streams!Found(n, k) <=>
          /\ s \in {"SKIP", "FAILURE"}
          /\ \E i \in EdgesTo(n) : /\ Streams!StatusIn(i, k) = s
                                   /\ s = "FAILURE" => net.edges[i].kind = "required"
    BY SameStreams DEF Streams!Found
  <2> QED
    BY <2>1, <2>2, <2>3
<1>8. Returns(n) = Streams!Returns(n)
  <2>1. IsSource(n) => (x.left = 0 <=> Len(stream[n]) >= net.frames)
    <3> SUFFICES ASSUME IsSource(n)
                 PROVE  x.left = 0 <=> Len(stream[n]) >= net.frames
      OBVIOUS
    <3>1. x.left = IF x.sent.nth <= net.frames THEN net.frames - x.sent.nth ELSE 0
      BY <1>1 DEF NodeStream
    <3> HIDE DEF x
    <3> QED
      BY <1>1, <1>4, <3>1
  <2> QED
    BY <2>1, SameStreams DEF Returns, Streams!Returns
<1>9. stream' = [stream EXCEPT ![n] = Append(@, st)]
  BY <1>1, StepRecorded
<1>10. st \in Streams!MayReturn(Streams!Found(n, k), n \in net.skipped, Streams!Returns(n))
  BY <1>2, <1>7, <1>8, SameStreams
<1> QED
  BY <1>4, <1>6, <1>9, <1>10, SameStreams DEF Streams!Step

(* The status that a thread takes is that of the source in its frame. *)
LEMMA TakenStatus ==
  ASSUME NetworksEnd, Known, InStep, InStream, Streams!FramesOnly(net), net.frames # 0,
         NEW n \in Nodes, NEW y \in Thread, NodeCases(n, y), Takes(n, y)
  PROVE  LET i == AtEdge(n)
             f == net.edges[i].from
             k == node[n].sent.nth + 1
         IN  /\ i \in EdgesTo(n) /\ i \in Range(node[n].todo) /\ k \in Nat \ {0}
             /\ Consumed(i) = node[n].sent.nth
             /\ Streams!Known(i, k) /\ Streams!StatusIn(i, k) = PushedStatus(i)
             /\ PushedStatus(i) = "FAILURE" => Len(stream[f]) <= k
<1> DEFINE x == node[n]
           i == AtEdge(n)
           k == x.sent.nth + 1
<1>1. /\ Types /\ x \in Thread /\ ThreadOK(x, n) /\ x.pc = "in" /\ CanPush(i)
      /\ edge' = AfterPush(i) /\ ~NotStarted(n) /\ ~Cut(n) /\ Counts
      /\ stream \in [Nodes -> Seq(StepStatus)]
  BY NodeIsStarted, OnlyFrames DEF Known, Types, InStream, Takes
<1>2. i \in DOMAIN net.edges /\ i \in Range(x.todo) /\ i \in EdgesTo(n) /\ i \in Data
  BY <1>1, AtEdgeOf, OnlyFrames DEF ThreadOK
<1>3. PICK f \in Nodes : f = net.edges[i].from
  BY <1>1, <1>2, NetworkTypes DEF Types
<1>4. net.edges[i].to = n
  BY <1>2 DEF EdgesTo
<1>5. /\ ~NotReset(f) /\ ~NotReset(n) /\ NodeStream(f) /\ EdgeStream(i) /\ EdgeInStep(i)
  BY <1>1, <1>2, AllReset DEF InStream, InStep
<1>6. /\ Streams!Failed(f) <=> node[f].last_execute_state = "FAILURE"
      /\ Len(stream[f]) \in Nat /\ DOMAIN stream[f] = 1 .. Len(stream[f])
  BY <1>1, <1>5, FailedStreams
<1>7. x.sent.nth \in Nat /\ k \in Nat \ {0} /\ Consumed(i) = x.sent.nth
  <2>1. x.sent.nth \in Nat /\ Consumed(i) = ConsumedOf(x, i)
    BY <1>1, <1>4, CountTypes, CountsOf DEF ToOf
  <2>2. ~x.pushing
    BY <1>1 DEF ThreadOK
  <2> HIDE DEF x
  <2> QED
    BY <1>1, <1>2, <2>1, <2>2 DEF ConsumedOf
<1>8. CASE edge[i].no_more_input
  <2>1. PushedStatus(i) = "FAILURE"
    BY <1>1, <1>2, <1>8, TakesEdge
  <2>2. Len(stream[f]) <= x.sent.nth
    BY <1>1, <1>3, <1>4, <1>5, <1>7, <1>8 DEF EdgeStream
  <2>3. Streams!Failed(f)
    BY <1>3, <1>5, <1>6, <1>8 DEF EdgeInStep, HasFailed, FromOf
  <2>4. ~(k <= Len(stream[f])) /\ Len(stream[f]) <= k
    BY <1>6, <1>7, <2>2
  <2> QED
    BY <1>2, <1>3, <1>7, <2>1, <2>3, <2>4 DEF Streams!Known, Streams!StatusIn
<1>9. CASE ~edge[i].no_more_input
  <2>1. /\ Len(edge[i].status) >= 1 /\ Len(edge[i].status) \in Nat
        /\ PushedStatus(i) = edge[i].status[1]
    BY <1>1, <1>2, <1>9, TakesEdge
  <2>2. edge[i].status \in Seq(EdgeStatus)
    BY <1>1, <1>2 DEF Types, EdgesOK, EdgeOf
  <2>3. 1 \in DOMAIN edge[i].status
    BY <2>1, <2>2
  <2>4. Consumed(i) + 1 \in DOMAIN stream[f] /\ PushedStatus(i) = stream[f][Consumed(i) + 1]
    BY <1>1, <1>3, <1>4, <1>5, <1>9, <2>1, <2>3 DEF EdgeStream
  <2>5. k \in DOMAIN stream[f] /\ PushedStatus(i) = stream[f][k]
    BY <1>7, <2>4
  <2>6. k <= Len(stream[f])
    BY <1>6, <2>5
  <2>7. PushedStatus(i) = "FAILURE" => Len(stream[f]) <= k
    <3>1. stream[f][k] = "FAILURE" => k = Len(stream[f])
      BY <1>5, <2>5 DEF NodeStream
    <3> QED
      BY <1>6, <2>5, <3>1
  <2> QED
    BY <1>2, <1>3, <1>7, <2>5, <2>6, <2>7 DEF Streams!Known, Streams!StatusIn
<1> QED
  BY <1>8, <1>9

(* A node's step leaves its stream as its thread knows it. *)
LEMMA NodeStreamStep ==
  ASSUME NetworksEnd, Known, InStep, InStream, Streams!FramesOnly(net), net.frames # 0,
         NEW n \in Nodes, NEW y \in Thread, NodeCases(n, y),
         node' = [node EXCEPT ![n] = y], UNCHANGED << net, call, run, cancelled >>,
         Recorded
  PROVE  \A m \in Nodes : NodeStream(m)'
<1> DEFINE x == node[n]
           st == y.last_execute_state
<1>1. /\ Types /\ x \in Thread /\ ThreadOK(x, n) /\ ~NotReset(n) /\ NodeInStep(n)
      /\ Counts /\ net.frames \in Nat /\ \A m \in Nodes : NodeStream(m)
      /\ stream \in [Nodes -> Seq(StepStatus)]
  BY NodeIsStarted, OnlyFrames, NetworkTypes DEF Known, Types, InStream, InStep
<1>2. /\ node'[n] = y /\ \A m \in Nodes \ {n} : node'[m] = node[m]
      /\ \A m : NotReset(m)' = NotReset(m) /\ IsSource(m)' = IsSource(m)
  BY <1>1, SamePosition DEF Types, IsSource, EdgesTo
<1>3. CASE ~Executes(n, y)
  <2>1. /\ stream' = stream /\ y.sent = x.sent /\ y.left = x.left
        /\ y.last_execute_state = x.last_execute_state
    BY <1>1, <1>3, StepRecorded
  <2>2. ASSUME NEW m \in Nodes
        PROVE  /\ node'[m].sent = node[m].sent /\ node'[m].left = node[m].left
               /\ node'[m].last_execute_state = node[m].last_execute_state
    BY <1>2, <2>1
  <2>3. ASSUME NEW m \in Nodes
        PROVE  NodeStream(m)'
    <3>1. NodeStream(m)
      BY <1>1
    <3> QED
      BY <1>2, <2>1, <2>2, <3>1 DEF NodeStream
  <2> QED
    BY <2>3
<1>4. CASE Executes(n, y)
  <2>1. /\ stream' = [stream EXCEPT ![n] = Append(@, st)]
        /\ y.sent.nth = x.sent.nth + 1 /\ st \in {"FAILURE", "SUCCESS", "SKIP"}
    BY <1>1, <1>4, StepRecorded
  <2>2. /\ x.pc = "execute" /\ x.last_execute_state # "FAILURE"
        /\ y.left = IF IsSource(n) /\ x.left > 0 THEN x.left - 1 ELSE x.left
    BY <1>1, <1>4 DEF Executes, NodeInStep
  <2>3. ASSUME NEW m \in Nodes, m # n
        PROVE  NodeStream(m)'
    <3>1. stream'[m] = stream[m] /\ node'[m] = node[m] /\ NodeStream(m)
      BY <1>1, <1>2, <2>1, <2>3
    <3> QED
      BY <1>2, <3>1 DEF NodeStream
  <2>4. NodeStream(n)'
    <3> DEFINE s == stream[n]
               r == stream'[n]
    <3>1. /\ s \in Seq(StepStatus) /\ Len(s) \in Nat /\ DOMAIN s = 1 .. Len(s)
          /\ Len(s) = x.sent.nth
      BY <1>1, FailedStreams
    <3>2. r = Append(s, st)
      BY <1>1, <2>1
    <3>3. NodeStream(n)
      BY <1>1
    <3>4. \A j \in DOMAIN s : s[j] # "FAILURE"
      <4>1. s # << >> => s[Len(s)] # "FAILURE"
        BY <2>2, <3>3 DEF NodeStream
      <4>2. \A j \in DOMAIN s : s # << >>
        BY <3>1
      <4>3. \A j \in DOMAIN s : s[j] = "FAILURE" => j = Len(s)
        BY <3>3 DEF NodeStream
      <4> QED
        BY <4>1, <4>2, <4>3
    <3>5. x.left = (IF x.sent.nth <= net.frames THEN net.frames - x.sent.nth ELSE 0)
            \/ ~IsSource(n)
      BY <3>3 DEF NodeStream
    <3> HIDE DEF s, r, st
    <3>6. /\ Len(r) = Len(s) + 1 /\ r[Len(r)] = st /\ DOMAIN r = 1 .. Len(r)
          /\ \A j \in 1 .. Len(s) : r[j] = s[j]
      BY <3>1, <3>2
    <3>7. \A j \in DOMAIN r : r[j] = "FAILURE" => j = Len(r)
      BY <3>1, <3>4, <3>6
    <3>8. r # << >> /\ Len(r) = y.sent.nth /\ y.sent.nth > 0
      BY <2>1, <3>1, <3>6
    <3>9. IsSource(n) => y.left = IF y.sent.nth <= net.frames
                                  THEN net.frames - y.sent.nth ELSE 0
      <4> SUFFICES ASSUME IsSource(n)
                   PROVE  y.left = IF y.sent.nth <= net.frames
                                   THEN net.frames - y.sent.nth ELSE 0
        OBVIOUS
      <4>1. /\ y.left = IF x.left > 0 THEN x.left - 1 ELSE x.left
            /\ x.left = IF x.sent.nth <= net.frames THEN net.frames - x.sent.nth ELSE 0
            /\ y.sent.nth = x.sent.nth + 1 /\ x.sent.nth \in Nat /\ net.frames \in Nat
        BY <1>1, <2>1, <2>2, <3>1, <3>5
      <4> HIDE DEF x
      <4> QED
        BY <4>1
    <3> QED
      BY <1>1, <1>2, <3>6, <3>7, <3>8, <3>9 DEF NodeStream, r, st
  <2> QED
    BY <2>3, <2>4
<1> QED
  BY <1>3, <1>4

(* A node's step leaves what the other threads have found as it is, and    *)
(* notes in its own what it takes. *)
LEMMA NodeFoundStep ==
  ASSUME NetworksEnd, Known, InStep, InStream, Streams!FramesOnly(net), net.frames # 0,
         NEW n \in Nodes, NEW y \in Thread, ThreadOK(y, n), NodeCases(n, y),
         node' = [node EXCEPT ![n] = y], UNCHANGED << net, call, run, cancelled >>,
         Recorded, NEW m \in Nodes
  PROVE  NodeFound(m)'
<1>1. /\ Types /\ node[m] \in Thread /\ NodeFound(m) /\ Counts
      /\ stream \in [Nodes -> Seq(StepStatus)]
      /\ \A i \in DOMAIN net.edges : net.edges[i].from \in Nodes
  BY OnlyFrames, NetworkTypes DEF Known, Types, InStream
<1>2. /\ node'[n] = y /\ (m # n => node'[m] = node[m])
      /\ \A k : EdgesTo(k)' = EdgesTo(k)
  BY <1>1 DEF Types, EdgesTo
<1>3. ASSUME NEW i \in DOMAIN net.edges, NEW k \in Nat \ {0}, Streams!Known(i, k)
      PROVE  Streams!Known(i, k)' /\ Streams!StatusIn(i, k)' = Streams!StatusIn(i, k)
  <2>1. CASE Executes(n, y)
    <3>1. /\ ~Streams!Failed(n)
          /\ stream' = [stream EXCEPT ![n] = Append(@, y.last_execute_state)]
      BY <1>1, <2>1, StepsStream, StepRecorded
    <3> QED
      BY <1>1, <1>3, <3>1, StatusStays
  <2>2. CASE ~Executes(n, y)
    <3>1. stream' = stream
      BY <1>1, <2>2, StepRecorded
    <3> QED
      BY <1>3, <3>1 DEF Streams!Known, Streams!StatusIn, Streams!Failed
  <2> QED
    BY <2>1, <2>2
<1>4. ASSUME NEW z \in Thread, node'[m] = z, z.pc \in {"in", "execute"},
             z.pc = node[m].pc, z.found = node[m].found, z.sent = node[m].sent,
             Range(z.todo) = Range(node[m].todo)
      PROVE  NodeFound(m)'
  <2> DEFINE k == z.sent.nth + 1
             S == TakenFrom(m)
  <2>1. k \in Nat \ {0} /\ S \subseteq DOMAIN net.edges
    <3>1. z.sent.nth \in Nat
      BY CountTypes
    <3> QED
      BY <3>1 DEF TakenFrom, EdgesTo
  <2>2. net' = net /\ TakenFrom(m)' = S
    BY <1>2, <1>4 DEF TakenFrom
  <2>3. /\ \A i \in S : Streams!Known(i, k)
        /\ \A st \in {"SKIP", "FAILURE"} :
             st \in node[m].found <=> \E i \in S :
                          /\ Streams!StatusIn(i, k) = st
                          /\ st = "FAILURE" => net.edges[i].kind = "required"
    BY <1>1, <1>4 DEF NodeFound
  <2> HIDE DEF k, S
  <2>4. \A i \in S : Streams!Known(i, k)' /\ Streams!StatusIn(i, k)' = Streams!StatusIn(i, k)
    BY <1>3, <2>1, <2>3
  <2>5. \A st \in {"SKIP", "FAILURE"} :
          st \in z.found <=> \E i \in S :
                          /\ Streams!StatusIn(i, k)' = st
                          /\ st = "FAILURE" => net'.edges[i].kind = "required"
    BY <1>4, <2>2, <2>3, <2>4
  <2> QED
    BY <1>4, <2>2, <2>4, <2>5 DEF NodeFound, k
<1>5. CASE m # n
  <2>1. CASE node[m].pc \in {"in", "execute"}
    BY <1>1, <1>2, <1>4, <1>5, <2>1
  <2>2. CASE node[m].pc \notin {"in", "execute"}
    BY <1>2, <1>5, <2>2 DEF NodeFound
  <2> QED
    BY <2>1, <2>2
<1>6. CASE m = n /\ Takes(n, y)
  <2> DEFINE x == node[n]
             a == AtEdge(n)
             k == y.sent.nth + 1
             S == TakenFrom(n)
  <2>0. y.sent = x.sent
    BY <1>6 DEF Takes, SameRest
  <2>1. /\ a \in EdgesTo(n) /\ a \in Range(x.todo) /\ k \in Nat \ {0}
        /\ Streams!Known(a, k) /\ Streams!StatusIn(a, k) = PushedStatus(a)
    BY <1>6, <2>0, TakenStatus
  <2>2. /\ x.pc = "in" /\ y.sent = x.sent /\ y.pc \in {"in", "execute"}
        /\ y.found = x.found \cup Noted(a, PushedStatus(a))
        /\ Range(y.todo) = Range(x.todo) \ {a}
    BY <1>6 DEF Takes, SameRest
  <2>3. /\ EdgesTo(n) \ Range(y.todo) = S \cup {a} /\ S \subseteq DOMAIN net.edges
    BY <2>1, <2>2 DEF TakenFrom, EdgesTo
  <2>4. /\ \A i \in S : Streams!Known(i, k)
        /\ \A st \in {"SKIP", "FAILURE"} :
             st \in x.found <=> \E i \in S :
                          /\ Streams!StatusIn(i, k) = st
                          /\ st = "FAILURE" => net.edges[i].kind = "required"
    BY <1>1, <1>6, <2>2 DEF NodeFound
  <2>5. /\ net.edges[a].kind \in {"required", "optional"} /\ a \in DOMAIN net.edges
    BY <2>1, OnlyFrames DEF EdgesTo
  <2> HIDE DEF k, S, a
  <2>6. \A i \in S \cup {a} :
          /\ Streams!Known(i, k)'
          /\ Streams!StatusIn(i, k)' = Streams!StatusIn(i, k)
    BY <1>3, <2>1, <2>3, <2>4, <2>5
  <2>7. \A st \in {"SKIP", "FAILURE"} :
          st \in Noted(a, PushedStatus(a)) <=>
            /\ Streams!StatusIn(a, k) = st
            /\ st = "FAILURE" => net.edges[a].kind = "required"
    BY <2>1, <2>5 DEF Noted
  <2>8. \A st \in {"SKIP", "FAILURE"} :
          st \in y.found <=> \E i \in S \cup {a} :
                          /\ Streams!StatusIn(i, k)' = st
                          /\ st = "FAILURE" => net'.edges[i].kind = "required"
    <3> SUFFICES ASSUME NEW st \in {"SKIP", "FAILURE"}
                 PROVE  st \in y.found <=> \E i \in S \cup {a} :
                          /\ Streams!StatusIn(i, k)' = st
                          /\ st = "FAILURE" => net'.edges[i].kind = "required"
      OBVIOUS
    <3>1. st \in y.found <=> st \in x.found \/ st \in Noted(a, PushedStatus(a))
      BY <2>2
    <3>2. \A i \in S \cup {a} :
            /\ Streams!StatusIn(i, k)' = Streams!StatusIn(i, k)
            /\ net'.edges[i].kind = net.edges[i].kind
      BY <2>6
    <3> HIDE DEF x
    <3> QED
      BY <2>4, <2>7, <3>1, <3>2
  <2>9. TakenFrom(m)' = S \cup {a} /\ node'[m].sent.nth + 1 = k
    BY <1>2, <1>6, <2>2, <2>3 DEF TakenFrom, k
  <2> QED
    BY <1>2, <1>6, <2>6, <2>8, <2>9 DEF NodeFound
<1>7. CASE m = n /\ ~Takes(n, y)
  <2> DEFINE x == node[n]
  <2>1. \/ y.pc \notin {"in", "execute"}
        \/ AtHead(y, n)
        \/ Waits(n, y)
    <3>1. ~IsFlushed(n, y) /\ ~HoldsBack(n, y) /\ ~x.pushing
      BY <1>1, StepRecorded, OnlyFrames
    <3>2. CASE Stops(n, y)
      BY <3>2 DEF Stops
    <3>3. CASE Executes(n, y)
      BY <3>3 DEF Executes, AtOut
    <3>4. CASE Gives(n, y)
      BY <3>1, <3>4 DEF Gives, SameLoop
    <3> QED
      BY <1>7, <3>1, <3>2, <3>3, <3>4 DEF NodeCases
  <2>2. CASE y.pc \notin {"in", "execute"}
    BY <1>2, <1>7, <2>2 DEF NodeFound
  <2>3. CASE AtHead(y, n)
    <3>1. y.found = {} /\ (y.pc \in {"in", "execute"} => EdgesTo(n) \ Range(y.todo) = {})
      BY <2>3 DEF AtHead, TakenFrom, IsSource
    <3>2. TakenFrom(m)' = EdgesTo(n) \ Range(y.todo) /\ node'[m] = y
      BY <1>2, <1>7 DEF TakenFrom
    <3> QED
      BY <3>1, <3>2 DEF NodeFound
  <2>4. CASE Waits(n, y) /\ y.pc \in {"in", "execute"}
    <3>1. /\ y.pc = x.pc /\ y.found = x.found /\ y.sent = x.sent
          /\ Range(y.todo) = Range(x.todo)
      BY <2>4 DEF Waits, SameRest, SameLoop
    <3> QED
      BY <1>2, <1>4, <1>7, <2>4, <3>1
  <2> QED
    BY <2>1, <2>2, <2>3, <2>4
<1> QED
  BY <1>5, <1>6, <1>7

(* A node's step leaves the statuses on an edge those of its source. *)
LEMMA EdgeStreamStep ==
  ASSUME NetworksEnd, Known, InStep, Ends, InStream, Streams!FramesOnly(net),
         net.frames # 0, NEW n \in Nodes, NEW y \in Thread, NodeCases(n, y),
         node' = [node EXCEPT ![n] = y], EdgesOK(edge'),
         UNCHANGED << net, call, run, cancelled >>, Recorded,
         NEW i \in DOMAIN net.edges
  PROVE  EdgeStream(i)'
<1>1. /\ Types /\ Counts /\ OneStatusPerFrame /\ i \in Data
      /\ EdgeStream(i) /\ EdgeInStep(i) /\ NodeInStep(n)
      /\ \A m \in Nodes : NodeStream(m)
      /\ stream \in [Nodes -> Seq(StepStatus)]
      /\ edge'[i] \in EdgeOf(Origin) /\ edge[i] \in EdgeOf(Origin)
  BY OnlyFrames DEF Known, Types, InStep, InStream, EdgesOK
<1>2. PICK f \in Nodes, t \in Nodes :
        /\ f = net.edges[i].from /\ t = net.edges[i].to
        /\ f = net'.edges[i].from /\ t = net'.edges[i].to
  BY <1>1, NetworkTypes DEF Types
<1>3. /\ node'[n] = y /\ \A m \in Nodes \ {n} : node'[m] = node[m]
      /\ Undisturbed' = Undisturbed /\ \A m : NotReset(m)' = NotReset(m)
  BY <1>1, SamePosition DEF Types, Undisturbed
<1>4. /\ ~IsFlushed(n, y) /\ node[n].last_execute_state # "FLUSH" /\ ~Cut(n)
      /\ ~NotReset(n) /\ ~NotStarted(n)
  BY <1>1, NothingFlushed, NodeIsStarted DEF NodeInStep
<1> SUFFICES ASSUME ~NotReset(f), ~NotReset(t), ~Cut(t)'
             PROVE  IF edge'[i].no_more_input THEN Len(stream'[f]) <= Consumed(i)'
                    ELSE \A j \in DOMAIN edge'[i].status :
                           /\ Consumed(i)' + j \in DOMAIN stream'[f]
                           /\ edge'[i].status[j] = stream'[f][Consumed(i)' + j]
  BY <1>2, <1>3 DEF EdgeStream
<1>5. ~Cut(t) /\ SameRun(i)
  BY <1>1, <1>3, <1>4, AllReset DEF Cut
<1>6. IF edge[i].no_more_input THEN Len(stream[f]) <= Consumed(i)
      ELSE \A j \in DOMAIN edge[i].status :
             /\ Consumed(i) + j \in DOMAIN stream[f]
             /\ edge[i].status[j] = stream[f][Consumed(i) + j]
  BY <1>1, <1>2, <1>5 DEF EdgeStream
<1>7. /\ Consumed(i) \in Nat /\ Produced(i) \in Int
      /\ Len(stream[f]) \in Nat /\ DOMAIN stream[f] = 1 .. Len(stream[f])
      /\ Len(stream[f]) = node[f].sent.nth
      /\ DOMAIN edge[i].status = 1 .. Len(edge[i].status)
      /\ DOMAIN edge'[i].status = 1 .. Len(edge'[i].status)
      /\ Len(edge[i].status) \in Nat
  <2>1. node[t] \in Thread /\ node[f] \in Thread
    BY <1>1 DEF Types
  <2>2. Consumed(i) \in Nat /\ Produced(i) \in Int
    BY <1>2, <2>1, CountTypes, CountsOf DEF FromOf, ToOf
  <2>3. /\ Len(stream[f]) \in Nat /\ DOMAIN stream[f] = 1 .. Len(stream[f])
        /\ Len(stream[f]) = node[f].sent.nth
    BY <1>1, FailedStreams
  <2>4. /\ DOMAIN edge[i].status = 1 .. Len(edge[i].status)
        /\ DOMAIN edge'[i].status = 1 .. Len(edge'[i].status)
        /\ Len(edge[i].status) \in Nat
    BY <1>1 DEF EdgeOf
  <2> QED
    BY <2>2, <2>3, <2>4
<1>8. CASE EdgeStays(i) /\ Consumed(i)' = Consumed(i)
  <2>1. CASE stream' = stream
    BY <1>6, <1>8, <2>1 DEF EdgeStays
  <2>2. CASE stream' # stream
    <3>1. /\ Executes(n, y) /\ ~Streams!Failed(n)
          /\ stream' = [stream EXCEPT ![n] = Append(@, y.last_execute_state)]
      BY <1>1, <2>2, StepsStream, StepRecorded
    <3>2. CASE f # n
      <4>1. stream'[f] = stream[f]
        BY <1>1, <3>1, <3>2
      <4> QED
        BY <1>6, <1>8, <4>1 DEF EdgeStays
    <3>3. CASE f = n
      <4>1. ~edge[i].no_more_input
        <5>1. node[n].last_execute_state # "FAILURE"
          BY <1>1, <1>4, <3>1, FailedStreams
        <5> QED
          BY <1>1, <1>2, <3>3, <5>1 DEF EdgeInStep, HasFailed, FromOf
      <4>2. /\ stream'[f] = Append(stream[f], y.last_execute_state)
            /\ stream[f] \in Seq(StepStatus)
        BY <1>1, <3>1, <3>3
      <4>3. /\ DOMAIN stream[f] \subseteq DOMAIN stream'[f]
            /\ \A j \in DOMAIN stream[f] : stream'[f][j] = stream[f][j]
        BY <1>7, <4>2
      <4> QED
        BY <1>6, <1>8, <4>1, <4>3 DEF EdgeStays
    <3> QED
      BY <3>2, <3>3
  <2> QED
    BY <2>1, <2>2
<1>9. CASE Stops(n, y)
  <2>1. edge' = edge /\ y.interrupted /\ y.pc = "ended" /\ ~Undisturbed
    BY <1>9, NothingStopped DEF Stops, SameRest, SameCalls
  <2>2. t # n
    BY <1>3, <2>1 DEF Cut
  <2>3. node'[t] = node[t]
    BY <1>3, <2>2
  <2>4. Consumed(i)' = Consumed(i)
    BY <1>2, <2>3 DEF Consumed
  <2> QED
    BY <1>8, <2>1, <2>4 DEF EdgeStays
<1>10. ASSUME ~Stops(n, y)
       PROVE  Consumed(i)' = Consumed(i) + (IF Takes(n, y) /\ i = AtEdge(n) THEN 1 ELSE 0)
  BY <1>1, <1>4, <1>10, CountStays
<1> DEFINE k == Len(edge[i].status)
<1>11. CASE ~Stops(n, y) /\ Takes(n, y) /\ i = AtEdge(n)
  <2>1. /\ CanPush(i) /\ edge' = AfterPush(i) /\ stream' = stream
    <3>1. ~Executes(n, y)
      BY <1>11 DEF Takes, Executes
    <3> QED
      BY <1>1, <1>11, <3>1, StepRecorded DEF Takes
  <2>2. /\ Consumed(i) = node[n].sent.nth
        /\ PushedStatus(i) = "FAILURE" => Len(stream[f]) <= node[n].sent.nth + 1
    BY <1>2, <1>11, TakenStatus
  <2>3. Consumed(i)' = Consumed(i) + 1
    BY <1>10, <1>11
  <2>4. CASE edge'[i].no_more_input
    <3>1. PushedStatus(i) = "FAILURE"
      BY <1>1, <2>1, <2>4, TakesEdge
    <3> QED
      BY <2>1, <2>2, <2>3, <2>4, <3>1
  <2>5. CASE ~edge'[i].no_more_input
    <3>1. /\ ~edge[i].no_more_input /\ Len(edge'[i].status) = k - 1
          /\ \A l \in 1 .. k - 1 : edge'[i].status[l] = edge[i].status[l + 1]
      BY <1>1, <2>1, <2>5, TakesEdge
    <3>2. ASSUME NEW j \in DOMAIN edge'[i].status
          PROVE  /\ Consumed(i)' + j \in DOMAIN stream'[f]
                 /\ edge'[i].status[j] = stream'[f][Consumed(i)' + j]
      <4>1. j \in 1 .. k - 1 /\ j + 1 \in DOMAIN edge[i].status
        BY <1>7, <3>1
      <4>2. /\ Consumed(i) + (j + 1) \in DOMAIN stream[f]
            /\ edge[i].status[j + 1] = stream[f][Consumed(i) + (j + 1)]
        BY <1>6, <3>1, <4>1
      <4>3. Consumed(i)' + j = Consumed(i) + (j + 1)
        BY <1>7, <2>3, <4>1
      <4> QED
        BY <2>1, <3>1, <4>1, <4>2, <4>3
    <3> QED
      BY <2>5, <3>2
  <2> QED
    BY <2>4, <2>5
<1>12. CASE ~Stops(n, y) /\ Gives(n, y) /\ i = AtEdge(n)
  <2>1. /\ edge' = AfterPull(n, i) /\ node[n].pc = "out" /\ ~Takes(n, y)
        /\ ~Executes(n, y) /\ ~edge[i].no_more_input /\ f = n
    BY <1>1, <1>2, <1>12, GivesBeforeFailing DEF Gives, Takes, Executes
  <2>2. /\ Len(edge'[i].status) = k + 1 /\ ~edge'[i].no_more_input
        /\ edge'[i].status[k + 1] = node[n].last_execute_state
        /\ \A l \in 1 .. k : edge'[i].status[l] = edge[i].status[l]
    BY <1>1, <1>4, <2>1, GivesEdge
  <2>3. Consumed(i)' = Consumed(i) /\ stream' = stream
    <3>1. Consumed(i)' = Consumed(i) + 0
      BY <1>10, <1>12, <2>1
    <3>2. stream' = stream
      BY <1>1, <2>1, StepRecorded
    <3> QED
      BY <1>7, <3>1, <3>2
  <2>4. /\ k = Produced(i) - Consumed(i)
    BY <1>1, <1>2, <1>4, <1>5, <2>1 DEF EdgeInStep
  <2>5. Produced(i) = node[n].sent.nth - 1
    <3> DEFINE x == node[n]
    <3>1. /\ Produced(i) = ProducedOf(x, i) /\ x \in Thread /\ ThreadOK(x, n)
          /\ x.held = << >> /\ ~x.pushing
      BY <1>1, <1>2, <2>1, CountsOf, OnlyFrames DEF FromOf, Types
    <3>2. i \in Range(x.todo)
      BY <1>1, <1>12, <2>1, <3>1, AtEdgeOf DEF ThreadOK
    <3>3. x.sent.nth \in Nat /\ Len(x.held) = 0
      BY <3>1, CountTypes
    <3> HIDE DEF x
    <3>4. ProducedOf(x, i) = x.sent.nth - Len(x.held) + (-1)
      BY <2>1, <3>1, <3>2 DEF ProducedOf, x
    <3> QED
      BY <3>1, <3>3, <3>4 DEF x
  <2>6. /\ Consumed(i) + (k + 1) = Len(stream[f]) /\ Len(stream[f]) > 0
        /\ stream[f][Len(stream[f])] = node[n].last_execute_state
    <3>1. Consumed(i) + (k + 1) = Len(stream[f])
      <4>1. /\ Consumed(i) \in Nat /\ k \in Nat /\ Produced(i) \in Int
            /\ Len(stream[f]) \in Nat /\ Len(stream[f]) = node[n].sent.nth
        BY <1>7, <2>1
      <4> HIDE DEF k
      <4>2. Produced(i) = Len(stream[f]) - 1
        BY <4>1, <2>5
      <4>3. \A a, c, l \in Nat : \A p \in Int :
              p = l - 1 /\ a = p - c => c + (a + 1) = l
        OBVIOUS
      <4>4. k = Produced(i) - Consumed(i)
        BY <2>4
      <4> QED
        BY <4>1, <4>2, <4>3, <4>4
    <3>2. Len(stream[f]) > 0
      BY <1>7, <3>1
    <3>3. stream[f] # << >>
      BY <3>2
    <3> QED
      BY <1>1, <2>1, <3>1, <3>2, <3>3 DEF NodeStream
  <2>7. ASSUME NEW j \in DOMAIN edge'[i].status
        PROVE  /\ Consumed(i)' + j \in DOMAIN stream'[f]
               /\ edge'[i].status[j] = stream'[f][Consumed(i)' + j]
    <3>1. CASE j \in 1 .. k
      BY <1>6, <1>7, <2>1, <2>2, <2>3, <3>1
    <3>2. CASE j = k + 1
      <4>1. Len(stream[f]) \in DOMAIN stream[f]
        BY <1>7, <2>6
      <4> QED
        BY <2>2, <2>3, <2>6, <3>2, <4>1
    <3> QED
      BY <1>7, <2>2, <3>1, <3>2
  <2> QED
    BY <2>2, <2>7
<1>13. CASE ~Stops(n, y) /\ ~(Takes(n, y) /\ i = AtEdge(n)) /\ ~(Gives(n, y) /\ i = AtEdge(n))
  <2>1. EdgeStays(i)
    BY <1>1, <1>4, <1>13, EdgeCases
  <2>2. Consumed(i)' = Consumed(i)
    BY <1>7, <1>10, <1>13
  <2> QED
    BY <1>8, <2>1, <2>2
<1> QED
  BY <1>9, <1>11, <1>12, <1>13


(* What is known of a node's stream, of what its thread has found and of   *)
(* an edge depends on little. *)
LEMMA NodeStreamKept ==
  ASSUME NEW n, net' = net, stream' = stream, NodeStream(n),
         NotReset(n)' <=> NotReset(n), node'[n].sent = node[n].sent,
         node'[n].left = node[n].left,
         node'[n].last_execute_state = node[n].last_execute_state
  PROVE  NodeStream(n)'
<1>1. IsSource(n)' = IsSource(n)
  BY DEF IsSource, EdgesTo
<1> QED
  BY <1>1 DEF NodeStream

LEMMA NodeFoundKept ==
  ASSUME NEW n, net' = net, stream' = stream, NodeFound(n),
         node'[n].pc = node[n].pc, node'[n].found = node[n].found,
         node'[n].sent = node[n].sent, node'[n].todo = node[n].todo
  PROVE  NodeFound(n)'
<1>1. TakenFrom(n)' = TakenFrom(n)
  BY DEF TakenFrom, EdgesTo
<1>2. \A i, k : /\ Streams!Known(i, k)' = Streams!Known(i, k)
               /\ Streams!StatusIn(i, k)' = Streams!StatusIn(i, k)
  BY DEF Streams!Known, Streams!StatusIn, Streams!Failed
<1> QED
  BY <1>1, <1>2 DEF NodeFound

LEMMA EdgeStreamKept ==
  ASSUME NEW i, NEW f, NEW t, f = net.edges[i].from, t = net.edges[i].to,
         f = net'.edges[i].from, t = net'.edges[i].to,
         stream' = stream, EdgeStream(i), edge'[i] = edge[i],
         Consumed(i)' = Consumed(i), NotReset(f)' <=> NotReset(f),
         NotReset(t)' <=> NotReset(t), Cut(t) => Cut(t)'
  PROVE  EdgeStream(i)'
BY DEF EdgeStream

(* A caller's step announces nothing, and leaves the streams as they are   *)
(* known. *)
LEMMA NothingAnnounced ==
  ASSUME Known, Recorded, run' = run, net' = net, stream \in [Nodes -> Seq(StepStatus)],
         \A m \in Nodes : node'[m].sent.nth = node[m].sent.nth \/ node'[m].sent.nth = 0
  PROVE  stream' = stream
<1>1. \A m \in Nodes : node[m].sent.nth \in Nat
  BY CountTypes DEF Known, Types
<1>2. \A m \in Nodes : ~(node'[m].sent.nth > node[m].sent.nth)
  BY <1>1
<1>3. stream' = [m \in Nodes |-> stream[m]]
  BY <1>2 DEF Recorded
<1> QED
  BY <1>3

LEMMA StreamsCallerStep ==
  ASSUME NetworksEnd, Known, InStep, Ends, InStream, NEW c \in Callers, CallerStep(c),
         Recorded
  PROVE  /\ UNCHANGED << net, stream, run >>
         /\ Streams!FramesOnly(net) /\ net.frames # 0 =>
              /\ \A n \in Nodes : NodeStream(n)' /\ NodeFound(n)'
              /\ \A i \in DOMAIN net.edges : EdgeStream(i)'
<1>1. PICK v \in Nodes, y \in Thread :
        /\ LeavesThread(v, y) \/ StartsThread(v, y) \/ ResetsThread(v, y)
        /\ node' = [node EXCEPT ![v] = y]
        /\ OutputsJoined => OutputsJoined'
        /\ UNCHANGED << net, run, cancelled >>
  BY CallerEffects
<1> DEFINE x == node[v]
<1>2. /\ Types /\ stream \in [Nodes -> Seq(StepStatus)]
      /\ node'[v] = y /\ \A m \in Nodes \ {v} : node'[m] = node[m]
  BY SMTT(30), <1>1 DEF Known, Types, InStream
<1>3. stream' = stream
  <2>1. y.sent.nth = x.sent.nth \/ y.sent.nth = 0
    <3>1. CASE LeavesThread(v, y)
      BY <3>1 DEF LeavesThread, SameThread, SameLoop
    <3>2. CASE StartsThread(v, y)
      BY <3>2 DEF StartsThread
    <3>3. CASE ResetsThread(v, y)
      BY <3>3 DEF ResetsThread, NewRun
    <3> QED
      BY <1>1, <3>1, <3>2, <3>3
  <2>2. \A m \in Nodes : node'[m].sent.nth = node[m].sent.nth \/ node'[m].sent.nth = 0
    BY <1>2, <2>1
  <2> QED
    BY <1>1, <1>2, <2>2, NothingAnnounced
<1> SUFFICES ASSUME Streams!FramesOnly(net), net.frames # 0
             PROVE  /\ \A n \in Nodes : NodeStream(n)' /\ NodeFound(n)'
                    /\ \A i \in DOMAIN net.edges : EdgeStream(i)'
  BY <1>1, <1>3
<1>4. /\ Counts /\ Data = DOMAIN net.edges
      /\ \A n \in Nodes : NodeStream(n) /\ NodeFound(n)
      /\ \A i \in DOMAIN net.edges : EdgeStream(i)
  BY OnlyFrames DEF InStream
<1>5. ASSUME NEW i \in DOMAIN net.edges
      PROVE  \E f \in Nodes, t \in Nodes :
               /\ f = net.edges[i].from /\ t = net.edges[i].to
               /\ f = net'.edges[i].from /\ t = net'.edges[i].to
  BY <1>1, <1>2, NetworkTypes DEF Types
<1>6. CASE LeavesThread(v, y)
  <2>1. /\ edge' = edge
        /\ \A n \in Nodes :
             /\ SameThread(node[n], node'[n])
             /\ NotReset(n)' <=> NotReset(n)
             /\ Cut(n)' <=> Cut(n)
        /\ \A i \in DOMAIN net.edges : Consumed(i)' = Consumed(i)
    BY <1>1, <1>2, <1>6, SameThreadCounts DEF LeavesThread
  <2>2. \A n \in Nodes : NodeStream(n)' /\ NodeFound(n)'
    BY <1>1, <1>3, <1>4, <2>1, NodeStreamKept, NodeFoundKept DEF SameThread, SameLoop
  <2>3. ASSUME NEW i \in DOMAIN net.edges
        PROVE  EdgeStream(i)'
    BY <1>3, <1>4, <1>5, <2>1, EdgeStreamKept
  <2> QED
    BY <2>2, <2>3
<1>7. CASE StartsThread(v, y)
  <2>1. /\ ~Cut(v) /\ x.last_execute_state = "SUCCESS"
        /\ \A i \in DOMAIN net.edges : Consumed(i)' = Consumed(i)
    BY <1>1, <1>4, <1>7, StartedCounts
  <2>2. /\ edge' = edge
        /\ \A n \in Nodes : ~NotReset(n) /\ ~NotReset(n)'
        /\ y.sent = x.sent /\ y.left = x.left /\ y.last_execute_state = "SUCCESS"
        /\ AtHead(y, v)
    BY <1>7 DEF StartsThread
  <2>3. \A n \in Nodes : Cut(n) => Cut(n)'
    <3>1. Undisturbed' = Undisturbed
      BY <1>1 DEF Undisturbed
    <3> QED
      BY <1>2, <2>1, <3>1 DEF Cut
  <2>4. ASSUME NEW n \in Nodes
        PROVE  NodeStream(n)'
    <3>1. /\ node'[n].sent = node[n].sent /\ node'[n].left = node[n].left
          /\ node'[n].last_execute_state = node[n].last_execute_state
      BY <1>2, <2>1, <2>2
    <3> QED
      BY <1>1, <1>3, <1>4, <2>2, <3>1, NodeStreamKept
  <2>5. ASSUME NEW n \in Nodes
        PROVE  NodeFound(n)'
    <3>1. CASE n # v
      BY <1>1, <1>2, <1>3, <1>4, <3>1, NodeFoundKept
    <3>2. CASE n = v
      <4>1. y.found = {} /\ (y.pc \in {"in", "execute"} => EdgesTo(v) \ Range(y.todo) = {})
        BY <2>2 DEF AtHead, IsSource
      <4>2. TakenFrom(n)' = EdgesTo(v) \ Range(y.todo)
        BY <1>1, <1>2, <3>2 DEF TakenFrom, EdgesTo
      <4> QED
        BY <1>2, <3>2, <4>1, <4>2 DEF NodeFound
    <3> QED
      BY <3>1, <3>2
  <2>6. ASSUME NEW i \in DOMAIN net.edges
        PROVE  EdgeStream(i)'
    BY <1>3, <1>4, <1>5, <2>1, <2>2, <2>3, EdgeStreamKept
  <2> QED
    BY <2>4, <2>5, <2>6
<1>8. CASE ResetsThread(v, y)
  <2>1. /\ NotReset(v) /\ y.pc = "ended" /\ y.last_execute_state = "SUCCESS"
        /\ y.sent = NewRun(run) /\ y.left = net.frames
        /\ \A n \in Nodes : /\ NotStarted(n) /\ NotStarted(n)'
                            /\ NotReset(n)' <=> NotReset(n) /\ n # v
    BY <1>8 DEF ResetsThread
  <2>2. \A m \in Nodes : ThreadKnown(m)'
    BY KnownCallerStep
  <2>3. NodeStream(v)'
    <3>1. stream[v] \in Seq(StepStatus) /\ Len(stream[v]) = 0
      BY <1>2, <1>4, <2>1 DEF NodeStream
    <3>2. stream[v] = << >> /\ DOMAIN stream[v] = {}
      BY <3>1, EmptySeq
    <3>3. NewRun(run).nth = 0 /\ net.frames \in Nat
      BY <1>2, NetworkTypes DEF NewRun, Types
    <3>4. /\ node'[v].sent.nth = 0 /\ node'[v].left = net.frames
          /\ node'[v].last_execute_state = "SUCCESS"
      BY <1>2, <2>1, <3>3
    <3>5. ~NotReset(v)'
      BY <2>1
    <3>6. 0 <= net.frames /\ net.frames - 0 = net.frames
      BY <3>3
    <3> QED
      BY <1>1, <1>3, <3>1, <3>2, <3>4, <3>5, <3>6 DEF NodeStream
  <2>4. ASSUME NEW n \in Nodes, n # v
        PROVE  NodeStream(n)' /\ NodeFound(n)'
    BY <1>1, <1>2, <1>3, <1>4, <2>1, <2>4, NodeStreamKept, NodeFoundKept
  <2>5. NodeFound(v)'
    BY <1>2, <2>1 DEF NodeFound
  <2>6. ASSUME NEW i \in DOMAIN net.edges
        PROVE  EdgeStream(i)'
    <3>1. PICK f \in Nodes, t \in Nodes :
            /\ f = net.edges[i].from /\ t = net.edges[i].to
            /\ f = net'.edges[i].from /\ t = net'.edges[i].to
      BY <1>5
    <3>2. /\ edge'[i].status = << >>
          /\ edge'[i].no_more_input => HasFailed(i)'
      BY <1>1, <1>4, <1>8, <2>2, ResetEdges
    <3>3. ASSUME ~NotReset(f)'
          PROVE  ~edge'[i].no_more_input
      <4>1. node'[f].last_execute_state = "SUCCESS"
        BY <2>1, <2>2, <3>3 DEF ThreadKnown
      <4> QED
        BY <3>1, <3>2, <4>1 DEF HasFailed, FromOf
    <3>4. DOMAIN edge'[i].status = {}
      BY <3>2
    <3> QED
      BY <3>1, <3>3, <3>4 DEF EdgeStream
  <2> QED
    BY <2>3, <2>4, <2>5, <2>6
<1> QED
  BY <1>1, <1>6, <1>7, <1>8


(* Before the first step nothing is announced, taken or on an edge. *)
LEMMA InStreamInit == InitRecorded => InStream
<1> SUFFICES ASSUME InitRecorded
             PROVE  InStream
  OBVIOUS
<1>1. /\ Types /\ Known /\ net \in Networks /\ net.frames \in Nat
      /\ \A n \in Nodes : node[n] = NewNode(net)
      /\ edge = [i \in DOMAIN net.edges |-> EmptyEdge]
      /\ stream = NothingYet
  BY TypesInit, CallsInit, KnownInit, NetworkTypes DEF InitRecorded, Init, Known, Types
<1>2. stream \in [Nodes -> Seq(StepStatus)] /\ \A n \in Nodes : stream[n] = << >>
  BY <1>1, EmptySeq DEF NothingYet
<1>3. /\ Len(<< >>) = 0 /\ DOMAIN << >> = {} /\ NewRun(1).nth = 0
      /\ 0 <= net.frames /\ net.frames - 0 = net.frames
  BY <1>1 DEF NewRun
<1>4. ASSUME NEW n \in Nodes
      PROVE  NodeStream(n) /\ NodeFound(n)
  <2>1. /\ node[n].pc = "none" /\ node[n].last_execute_state = "SUCCESS"
        /\ node[n].left = net.frames /\ node[n].sent.nth = 0
    BY <1>1, <1>3 DEF NewNode
  <2> QED
    BY <1>2, <1>3, <2>1 DEF NodeStream, NodeFound
<1>5. ASSUME NEW i \in DOMAIN net.edges
      PROVE  EdgeStream(i)
  <2>1. edge[i].status = << >> /\ ~edge[i].no_more_input
    BY <1>1 DEF EmptyEdge
  <2> QED
    BY <1>3, <2>1 DEF EdgeStream
<1> QED
  BY <1>1, <1>2, <1>4, <1>5 DEF InStream

(* Whatever is recorded is a status of each node. *)
LEMMA RecordedTypes ==
  ASSUME Types, Types', net' = net, stream \in [Nodes -> Seq(StepStatus)], Recorded
  PROVE  stream' \in [Nodes' -> Seq(StepStatus)]
<1>1. Nodes' = Nodes
  BY DEF Nodes
<1>2. \A n \in Nodes : node'[n].last_execute_state \in StepStatus
  BY <1>1 DEF Types, Thread
<1>3. NothingYet' \in [Nodes -> Seq(StepStatus)] /\ NothingYet \in [Nodes -> Seq(StepStatus)]
  BY <1>1, EmptySeq DEF NothingYet
<1>4. \A n \in Nodes : /\ stream[n] \in Seq(StepStatus)
                       /\ Append(stream[n], node'[n].last_execute_state) \in Seq(StepStatus)
  BY <1>2
<1> QED
  BY <1>1, <1>3, <1>4 DEF Recorded

(* Sources without an end are not counted. *)
LEMMA NothingCounted ==
  ASSUME Types, net.frames = 0, NEW n \in Nodes, NEW y \in Thread, NodeCases(n, y)
  PROVE  y.sent = node[n].sent
<1> DEFINE x == node[n]
<1>1. x \in Thread /\ ThreadOK(x, n) /\ ~(net.holds[n] > 0)
  <2>1. net.holds[n] > 0 => net.frames > 0
    BY NetworkTypes DEF Types
  <2> QED
    BY <2>1 DEF Types
<1>2. ~HoldsBack(n, y) /\ ~x.pushing
  BY <1>1 DEF HoldsBack, ThreadOK, HeldOK
<1> QED
  BY <1>1, <1>2 DEF NodeCases, Waits, Stops, Takes, IsFlushed, Executes, Gives, SameRest

(* A node's step leaves its stream, or adds a status to it. *)
LEMMA StreamsNodeStep ==
  ASSUME NetworksEnd, Known, InStep, Ends, InStream, NEW n \in Nodes, NodeStep(n),
         Recorded
  PROVE  /\ UNCHANGED << net, run >>
         /\ net.frames = 0 => stream' = stream
         /\ Streams!FramesOnly(net) /\ net.frames # 0 =>
              /\ \A m \in Nodes : NodeStream(m)' /\ NodeFound(m)'
              /\ \A i \in DOMAIN net.edges : EdgeStream(i)'
              /\ Streams!Step(n) \/ stream' = stream
<1>1. Types /\ stream \in [Nodes -> Seq(StepStatus)]
  BY DEF Known, InStream
<1>2. PICK y \in Thread : /\ ThreadOK(y, n) /\ NodeCases(n, y)
                          /\ node' = [node EXCEPT ![n] = y]
                          /\ EdgesOK(edge')
                          /\ UNCHANGED << net, call, run, cancelled >>
  BY <1>1, NodeStepCases
<1>3. ASSUME net.frames = 0
      PROVE  stream' = stream
  <2>1. y.sent = node[n].sent
    BY <1>1, <1>2, <1>3, NothingCounted
  <2>2. \A m \in Nodes : node'[m].sent.nth = node[m].sent.nth
    BY <1>1, <1>2, <2>1 DEF Types
  <2> QED
    BY <1>1, <1>2, <2>2, NothingAnnounced
<1>4. ASSUME Streams!FramesOnly(net), net.frames # 0
      PROVE  /\ \A m \in Nodes : NodeStream(m)' /\ NodeFound(m)'
             /\ \A i \in DOMAIN net.edges : EdgeStream(i)'
             /\ Streams!Step(n) \/ stream' = stream
  <2>1. \A m \in Nodes : NodeStream(m)'
    BY <1>2, <1>4, NodeStreamStep
  <2>2. \A m \in Nodes : NodeFound(m)'
    BY <1>2, <1>4, NodeFoundStep
  <2>3. \A i \in DOMAIN net.edges : EdgeStream(i)'
    BY <1>2, <1>4, EdgeStreamStep
  <2>4. CASE Executes(n, y)
    BY <1>2, <1>4, <2>1, <2>2, <2>3, <2>4, StepsStream
  <2>5. CASE ~Executes(n, y)
    <3>1. stream' = stream
      BY <1>1, <1>2, <1>4, <2>5, StepRecorded
    <3> QED
      BY <2>1, <2>2, <2>3, <3>1
  <2> QED
    BY <2>4, <2>5
<1> QED
  BY <1>2, <1>3, <1>4

(* A new run begins with no stream, and after an end of every node's. *)
LEMMA StreamsAgain ==
  ASSUME NetworksEnd, Known, InStep, Ends, InStream, RunAgain, Recorded
  PROVE  /\ net' = net /\ stream' = NothingYet
         /\ Streams!FramesOnly(net) /\ net.frames # 0 =>
              /\ \A m \in Nodes : NodeStream(m)' /\ NodeFound(m)'
              /\ \A i \in DOMAIN net.edges : EdgeStream(i)'
              /\ \A m \in net.output : Streams!Failed(m)
<1>1. /\ Types /\ CallsAreKnown /\ call["application"] = << >>
      /\ UNCHANGED << net, edge, node, cancelled >>
      /\ run \in 1 .. net.runs /\ net.runs \in Nat /\ run' = run + 1 /\ run < net.runs
      /\ net \in Networks /\ net.output \subseteq Nodes
      /\ \A i \in DOMAIN net.edges : net.edges[i].from \in Nodes
      /\ stream \in [Nodes -> Seq(StepStatus)]
  BY NetworkTypes DEF Known, RunAgain, Types, InStream
<1>2. run' # run /\ net.runs > 1
  BY <1>1
<1>3. stream' = NothingYet
  BY <1>2 DEF Recorded
<1> SUFFICES ASSUME Streams!FramesOnly(net), net.frames # 0
             PROVE  /\ \A m \in Nodes : NodeStream(m)' /\ NodeFound(m)'
                    /\ \A i \in DOMAIN net.edges : EdgeStream(i)'
                    /\ \A m \in net.output : Streams!Failed(m)
  BY <1>1, <1>3
<1>4. \A m \in Nodes : NotStarted(m)' /\ NotReset(m)'
  BY BeginsAgain
<1>5. Counts /\ EndsByItself(net) /\ net.cancels = "never"
  BY <1>1, <1>2, OnlyFrames DEF NetworksEnd
<1>6. Undisturbed
  BY <1>1, <1>5 DEF Undisturbed, CallsAreKnown
<1>7. ASSUME NEW m \in Nodes
      PROVE  /\ ~NotReset(m) /\ ~NotStarted(m) /\ node[m].pc = "ended"
             /\ node[m].last_execute_state = "FAILURE" /\ NodeStream(m)
  <2>1. ~NotStarted(m) /\ ~NotReset(m) /\ Joined(m)
    BY <1>1, AtEnd
  <2>2. node[m].pc = "ended"
    BY <2>1 DEF Known, ThreadKnown
  <2>3. ~Cut(m)
    BY <1>6 DEF Cut
  <2>4. node[m].last_execute_state = "FAILURE"
    BY <1>5, <2>1, <2>2, <2>3 DEF InStep, NodeInStep
  <2> QED
    BY <2>1, <2>2, <2>4 DEF InStream
<1>8. \A m \in net.output : Streams!Failed(m)
  BY <1>1, <1>7, FailedStreams
<1>9. ASSUME NEW m \in Nodes
      PROVE  NodeStream(m)' /\ NodeFound(m)'
  <2>1. stream'[m] = << >> /\ Len(<< >>) = 0 /\ DOMAIN << >> = {}
    BY <1>3 DEF NothingYet
  <2>2. node'[m] = node[m] /\ NotReset(m)' /\ IsSource(m)' = IsSource(m)
    BY <1>1, <1>4 DEF IsSource, EdgesTo
  <2> QED
    BY <1>1, <1>7, <2>1, <2>2 DEF NodeStream, NodeFound
<1>10. ASSUME NEW i \in DOMAIN net.edges
       PROVE  EdgeStream(i)'
  <2>1. PICK f \in Nodes : f = net.edges[i].from /\ f = net'.edges[i].from
    BY <1>1
  <2> QED
    BY <1>4, <2>1 DEF EdgeStream
<1> QED
  BY <1>8, <1>9, <1>10

(* Neither cancelling nor nothing at all changes what is announced. *)
LEMMA StreamsCancel ==
  ASSUME NetworksEnd, Known, InStream, Cancel \/ UNCHANGED vars, Recorded
  PROVE  /\ UNCHANGED << net, stream, run >>
         /\ Streams!FramesOnly(net) /\ net.frames # 0 =>
              /\ \A m \in Nodes : NodeStream(m)' /\ NodeFound(m)'
              /\ \A i \in DOMAIN net.edges : EdgeStream(i)'
<1>1. /\ UNCHANGED << net, edge, node, run >> /\ (cancelled => cancelled')
      /\ call'["application"] = call["application"] /\ Types
      /\ \A i \in DOMAIN net.edges : net.edges[i].from \in Nodes /\ net.edges[i].to \in Nodes
      /\ stream \in [Nodes -> Seq(StepStatus)]
  BY NetworkTypes DEF Cancel, Known, Types, Callers, vars, InStream
<1>2. stream' = stream
  BY <1>1, NothingAnnounced
<1>3. /\ \A n : NotReset(n)' = NotReset(n)
      /\ \A n : Cut(n) => Cut(n)'
      /\ \A i : Consumed(i)' = Consumed(i)
  BY <1>1, SamePosition DEF Cut, Undisturbed, Consumed
<1> SUFFICES ASSUME Streams!FramesOnly(net), net.frames # 0
             PROVE  /\ \A m \in Nodes : NodeStream(m)' /\ NodeFound(m)'
                    /\ \A i \in DOMAIN net.edges : EdgeStream(i)'
  BY <1>1, <1>2
<1>4. /\ \A m \in Nodes : NodeStream(m) /\ NodeFound(m)
      /\ \A i \in DOMAIN net.edges : EdgeStream(i)
  BY DEF InStream
<1>5. \A m \in Nodes : NodeStream(m)' /\ NodeFound(m)'
  BY <1>1, <1>2, <1>3, <1>4, NodeStreamKept, NodeFoundKept
<1>6. ASSUME NEW i \in DOMAIN net.edges
      PROVE  EdgeStream(i)'
  <2>1. PICK f \in Nodes, t \in Nodes :
          /\ f = net.edges[i].from /\ t = net.edges[i].to
          /\ f = net'.edges[i].from /\ t = net'.edges[i].to
    BY <1>1
  <2> QED
    BY <1>1, <1>2, <1>3, <1>4, <2>1, EdgeStreamKept
<1> QED
  BY <1>5, <1>6


(* Every step leaves the streams known, and is one of FrameStreams.        *)
LEMMA InStreamStep ==
  ASSUME NetworksEnd, Known, InStep, Ends, InStream, [NextRecorded]_varsRecorded
  PROVE  InStream' /\ [Streams!Next]_<< net, stream >>
<1>1. /\ Types /\ stream \in [Nodes -> Seq(StepStatus)]
      /\ \A n \in Nodes : node[n].sent.nth \in Nat
  BY CountTypes DEF Known, Types, InStream
<1>2. [Next]_vars /\ Recorded
  <2>1. CASE NextRecorded
    BY <2>1 DEF NextRecorded
  <2>2. CASE UNCHANGED varsRecorded
    <3>1. UNCHANGED << vars, stream, node, run >>
      BY <2>2 DEF varsRecorded, vars
    <3>2. \A n \in Nodes : ~(node'[n].sent.nth > node[n].sent.nth)
      BY <1>1, <3>1
    <3>3. stream = [n \in Nodes |-> stream[n]]
      BY <1>1
    <3> QED
      BY <3>1, <3>2, <3>3 DEF Recorded
  <2> QED
    BY <2>1, <2>2
<1> DEFINE Specified == Streams!FramesOnly(net) /\ net.frames # 0
           Kept == /\ \A n \in Nodes : NodeStream(n)' /\ NodeFound(n)'
                   /\ \A i \in DOMAIN net.edges : EdgeStream(i)'
<1> HIDE DEF Kept
<1>3. /\ net' = net /\ (Specified => Kept)
      /\ \/ stream' = stream
         \/ stream' = NothingYet /\ (Specified => \A n \in net.output : Streams!Failed(n))
         \/ net.frames # 0 /\ (Specified => \E n \in Nodes : Streams!Step(n))
  <2>1. ASSUME NEW n \in Nodes, NodeStep(n)
        PROVE  /\ net' = net /\ (Specified => Kept)
               /\ \/ stream' = stream
                  \/ net.frames # 0 /\ (Specified => \E m \in Nodes : Streams!Step(m))
    BY <1>2, <2>1, StreamsNodeStep DEF Kept
  <2>2. ASSUME NEW c \in Callers, CallerStep(c)
        PROVE  net' = net /\ (Specified => Kept) /\ stream' = stream
    BY <1>2, <2>2, StreamsCallerStep DEF Kept
  <2>3. ASSUME RunAgain
        PROVE  /\ net' = net /\ (Specified => Kept)
               /\ stream' = NothingYet
               /\ Specified => \A n \in net.output : Streams!Failed(n)
    BY <1>2, <2>3, StreamsAgain DEF Kept
  <2>4. ASSUME Cancel \/ UNCHANGED vars
        PROVE  net' = net /\ (Specified => Kept) /\ stream' = stream
    BY <1>2, <2>4, StreamsCancel DEF Kept
  <2> QED
    BY <1>2, <2>1, <2>2, <2>3, <2>4 DEF Next
<1>4. Nodes' = Nodes /\ NothingYet' = NothingYet
  BY <1>3 DEF Nodes, NothingYet
<1>5. Streams!FramesOnly(net)' <=> Streams!FramesOnly(net)
  BY <1>3
<1>6. net.frames = 0 => stream' = NothingYet
  BY <1>3 DEF InStream
<1>7. stream' \in [Nodes -> Seq(StepStatus)]
  <2>1. Types'
    BY <1>1, <1>2, TypesStep
  <2> QED
    BY <1>1, <1>2, <1>3, <1>4, <2>1, RecordedTypes
<1>8. InStream'
  <2>1. Specified => /\ \A n \in Nodes : NodeStream(n)' /\ NodeFound(n)'
                     /\ \A i \in DOMAIN net.edges : EdgeStream(i)'
    BY <1>3 DEF Kept
  <2> QED
    BY <1>3, <1>4, <1>5, <1>6, <1>7, <2>1 DEF InStream
<1>9. [Streams!Next]_<< net, stream >>
  <2>1. CASE ~Streams!FramesOnly(net)
    BY <1>3, <2>1 DEF Streams!Next, Streams!Unspecified
  <2>2. CASE net.frames = 0
    <3>1. stream' = stream
      BY <1>6, <2>2 DEF InStream
    <3> QED
      BY <1>3, <3>1
  <2>3. CASE Specified
    BY <1>3, <2>3, SameStreams DEF Streams!Next, Streams!Reset
  <2> QED
    BY <2>1, <2>2, <2>3
<1> QED
  BY <1>8, <1>9

(* What is recorded is a behaviour of the pipeline. *)
LEMMA SpecOfRecorded == SpecRecorded => Spec
<1>1. InitRecorded => Init
  BY DEF InitRecorded
<1>2. [NextRecorded]_varsRecorded => [Next]_vars
  BY DEF NextRecorded, varsRecorded
<1> QED
  BY <1>1, <1>2, PTL DEF SpecRecorded, Spec

(* async_pipeline gives every node, in every network without FLUSH and     *)
(* NO_OUTPUT, whatever the other processes return, with a thread for each  *)
(* node, edges of any capacity and in every run, the stream of statuses    *)
(* that FrameStreams promises, which is what sync_pipeline gives it.       *)
THEOREM AsyncImplementsFrameStreams ==
  ASSUME NetworksEnd PROVE SpecRecorded => ImplementsFrameStreams
<1> DEFINE Inv == Known /\ InStep /\ Ends
<1>1. InitRecorded => InStream
  BY InStreamInit
<1>2. Inv /\ InStream /\ [NextRecorded]_varsRecorded
        => InStream' /\ [Streams!Next]_<< net, stream >>
  BY InStreamStep
<1>3. InitRecorded => Streams!Init
  BY SameStreams DEF InitRecorded, Init, Streams!Init
<1>4. SpecRecorded => []Inv
  BY SpecOfRecorded, FramesInvariant, PTL
<1> HIDE DEF Inv
<1>5. SpecRecorded => []InStream
  BY <1>1, <1>2, <1>4, PTL DEF SpecRecorded
<1> QED
  BY <1>2, <1>3, <1>4, <1>5, PTL
     DEF SpecRecorded, ImplementsFrameStreams, Streams!Spec
=============================================================================
