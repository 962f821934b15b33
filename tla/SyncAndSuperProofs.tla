------------------------ MODULE SyncAndSuperProofs ------------------------
(***************************************************************************)
(* The synchronous pipeline keeps its types, and gives every node the      *)
(* stream that FrameStreams promises, in every network whose execution     *)
(* order puts the sources of a node before it.                             *)
(*                                                                         *)
(* The super process keeps its types, leaves no thread behind, waits at    *)
(* its pads for no output that will not come, and announces together what  *)
(* belongs together, for any number of lanes, nodes and frames.            *)
(***************************************************************************)
EXTENDS SyncPipeline, SuperProcess, EdgeQueuesProofs, SequenceTheorems,
        WellFoundedInduction, TLAPS

(* What pipeline::reorder() is for. *)
NetworksInOrder == \A w \in Networks : InOrder(w)

-----------------------------------------------------------------------------
(* Types.                                                                  *)

LEMMA NetworkTypes ==
  ASSUME net \in Networks
  PROVE  /\ net.order \in Seq(Nodes) /\ Len(net.order) \in Nat
         /\ DOMAIN net.order = 1 .. Len(net.order)
         /\ \A p \in 1 .. Len(net.order) : net.order[p] \in Nodes
         /\ \A n \in Nodes : \E p \in 1 .. Len(net.order) : n = net.order[p]
         /\ \A p, q \in 1 .. Len(net.order) : net.order[p] = net.order[q] => p = q
         /\ \A i \in DOMAIN net.edges : net.edges[i].from \in Nodes /\ net.edges[i].to \in Nodes
         /\ \A i \in DOMAIN net.edges : net.edges[i].kind \in EdgeKind
         /\ DOMAIN net.edges \subseteq Nat
         /\ \A n \in Nodes : net.returns[n] \subseteq StepStatus
         /\ net.output \subseteq Nodes
         /\ net.frames \in Nat /\ net.runs \in Nat \ {0}
<1>1. NetworkOK(net)
  BY NetworksAssumption
<1>2. net.order \in Seq(Nodes)
  BY <1>1 DEF NetworkOK, Nodes
<1>3. DOMAIN net.order = 1 .. Len(net.order) /\ Len(net.order) \in Nat
  BY <1>2
<1>4. \A n \in Nodes : \E p \in 1 .. Len(net.order) : n = net.order[p]
  BY <1>3 DEF Nodes, Range
<1>5. \A p \in 1 .. Len(net.order) : net.order[p] \in Nodes
  BY <1>3 DEF Nodes, Range
<1>6. \A p, q \in 1 .. Len(net.order) : net.order[p] = net.order[q] => p = q
  BY <1>1, <1>3 DEF NetworkOK, IsInjective
<1>7. /\ \A i \in DOMAIN net.edges : net.edges[i].from \in Nodes /\ net.edges[i].to \in Nodes
      /\ \A i \in DOMAIN net.edges : net.edges[i].kind \in EdgeKind
      /\ DOMAIN net.edges \subseteq Nat
  <2>1. net.edges \in Seq([from : Nodes, to : Nodes, kind : EdgeKind])
    BY <1>1 DEF NetworkOK, Nodes
  <2>2. \A i \in DOMAIN net.edges :
          i \in Nat /\ net.edges[i] \in [from : Nodes, to : Nodes, kind : EdgeKind]
    <3> DEFINE Edge == [from : Nodes, to : Nodes, kind : EdgeKind]
    <3>1. net.edges \in Seq(Edge)
      BY <2>1
    <3> HIDE DEF Edge
    <3>2. /\ Len(net.edges) \in Nat /\ DOMAIN net.edges = 1 .. Len(net.edges)
          /\ \A i \in 1 .. Len(net.edges) : net.edges[i] \in Edge
      BY <3>1
    <3> QED
      BY <3>2 DEF Edge
  <2> QED
    BY <2>2
<1>8. /\ \A n \in Nodes : net.returns[n] \subseteq StepStatus
      /\ net.output \subseteq Nodes
      /\ net.frames \in Nat /\ net.runs \in Nat \ {0}
  BY <1>1 DEF NetworkOK, Nodes
<1> QED
  BY <1>2, <1>3, <1>4, <1>5, <1>6, <1>7, <1>8

LEMMA OutcomesTyped ==
  ASSUME net \in Networks, NEW n \in Nodes
  PROVE  Outcomes(n) \subseteq StepStatus
BY NetworkTypes DEF Outcomes, MayReturn, Returns, StepStatus

LEMMA TypeInit == Init => TypeOK
<1> SUFFICES ASSUME Init PROVE TypeOK
  OBVIOUS
<1>1. net \in Networks
  BY DEF Init
<1>2. stream \in [Nodes -> Seq(StepStatus)]
  BY DEF Init, NothingYet
<1>3. Len(net.order) \in Nat /\ net.runs \in Nat \ {0}
  BY <1>1, NetworkTypes
<1> QED
  BY <1>1, <1>2, <1>3 DEF Init, TypeOK, Mode

LEMMA TypeStep ==
  ASSUME TypeOK, [Next]_vars
  PROVE  TypeOK'
<1> DEFINE N == Len(net.order)
<1>1. net \in Networks /\ N \in Nat /\ net.runs \in Nat \ {0}
  BY NetworkTypes DEF TypeOK
<1>2. /\ stream \in [Nodes -> Seq(StepStatus)] /\ mode \in Mode /\ at \in 1 .. N + 1
      /\ noted \subseteq StepStatus /\ run \in 1 .. net.runs
  BY DEF TypeOK
<1>3. CASE UNCHANGED vars
  BY <1>1, <1>2, <1>3 DEF vars, TypeOK, Nodes
<1>4. CASE PassOver
  BY <1>1, <1>2, <1>4 DEF PassOver, Executing, TypeOK, Nodes
<1>5. CASE ExecuteNode
  <2>1. at \in 1 .. N /\ at' = at + 1 /\ net' = net /\ mode' = mode /\ run' = run
    BY <1>1, <1>2, <1>5 DEF ExecuteNode, Executing
  <2>2. This \in Nodes
    BY <1>1, <2>1, NetworkTypes DEF This
  <2>3. PICK st \in Outcomes(This) :
          /\ stream' = [stream EXCEPT ![This] = Append(@, st)]
          /\ noted' = IF This \in net.output THEN noted \cup {st} ELSE noted
    BY <1>5 DEF ExecuteNode
  <2>4. st \in StepStatus
    BY <1>1, <2>2, OutcomesTyped
  <2>5. stream' \in [Nodes -> Seq(StepStatus)]
    BY <1>2, <2>2, <2>3, <2>4
  <2>6. noted' \subseteq StepStatus
    BY <1>2, <2>3, <2>4
  <2> QED
    BY <1>1, <1>2, <2>1, <2>5, <2>6 DEF TypeOK, Nodes
<1>6. CASE EmptyOtherEdges
  BY <1>1, <1>2, <1>6 DEF EmptyOtherEdges, TypeOK, Nodes, Mode
<1>7. CASE Die
  BY <1>1, <1>2, <1>7 DEF Die, TypeOK, Nodes, Mode
<1>8. CASE EndExecute
  BY <1>1, <1>2, <1>8 DEF EndExecute, TypeOK, Nodes, Mode
<1>9. CASE RunAgain
  BY <1>1, <1>2, <1>9 DEF RunAgain, TypeOK, Nodes, Mode, NothingYet
<1> QED
  BY <1>3, <1>4, <1>5, <1>6, <1>7, <1>8, <1>9 DEF Next

(* Whatever the network, the order and what the processes return: execute() *)
(* visits only nodes of its order, and a node's statuses are those that     *)
(* process::step_status has.                                                *)
THEOREM TypeCorrect == Spec => []TypeOK
BY TypeInit, TypeStep, PTL DEF Spec

-----------------------------------------------------------------------------
(* The streams.                                                            *)

(* Where only frames travel, the nodes before the position that execute()  *)
(* is at have a status for this frame, the k-th, and the others for those  *)
(* before; a node that has failed has fewer.                               *)
Frame(k) ==
  \A p \in 1 .. Len(net.order) :
    LET n == net.order[p]
        m == IF p < at THEN k ELSE k - 1
    IN  /\ Len(stream[n]) <= m
        /\ Len(stream[n]) = m \/ Streams!Failed(n)

(* noted is what the output nodes before this position ended with; run()   *)
(* returns when they have all failed.                                      *)
OutputsNoted ==
  /\ \A p \in 1 .. Len(net.order) :
       p < at /\ net.order[p] \in net.output
         => Streams!Failed(net.order[p]) \/ last_execute_state(net.order[p]) \in noted
  /\ mode = "returned" => \A n \in net.output : Streams!Failed(n)

StreamInvariant ==
  Streams!FramesOnly(net) =>
    /\ mode \in {"executing", "returned"}
    /\ \A n \in Nodes : last_execute_state(n) \in {"SUCCESS", "SKIP", "FAILURE"}
    /\ \E k \in Nat \ {0} : Frame(k)
    /\ OutputsNoted

LEMMA SameNetwork ==
  /\ Streams!Nodes = Nodes
  /\ \A n : Streams!EdgesTo(n) = EdgesTo(n)
  /\ \A n : Streams!IsSource(n) <=> IsSource(n)
  /\ \A n : Streams!Returns(n) = Returns(n)
  /\ \A found, skipped, returns :
       Streams!MayReturn(found, skipped, returns) = MayReturn(found, skipped, returns)
BY DEF Streams!Nodes, Nodes, Streams!Range, Range, Streams!EdgesTo, EdgesTo,
       Streams!IsSource, IsSource, Streams!Returns, Returns, Streams!MayReturn, MayReturn

LEMMA LastStatus ==
  ASSUME TypeOK, NEW n \in Nodes
  PROVE  /\ Streams!Failed(n) <=> last_execute_state(n) = "FAILURE"
         /\ stream[n] \in Seq(StepStatus) /\ Len(stream[n]) \in Nat
         /\ stream[n] # << >> => last_execute_state(n) = stream[n][Len(stream[n])]
BY DEF TypeOK, Streams!Failed, last_execute_state

(* Some edge is the first of those that the loop is left at. *)
LEMMA FirstStop ==
  ASSUME NEW S \in SUBSET Nat, S # {}
  PROVE  (CHOOSE i \in S : \A j \in S : i <= j) \in S
<1>1. PICK i \in S : \A j \in S : << j, i >> \notin OpToRel(<, Nat)
  BY WFMin, NatLessThanWellFounded
<1>2. ASSUME NEW j \in S PROVE i <= j
  <2>1. i \in Nat /\ j \in Nat /\ ~(j < i)
    BY <1>1 DEF OpToRel
  <2> QED
    BY <2>1
<1> QED
  BY <1>2

(* In a network of frames the loop over the incoming edges finds what      *)
(* counts of the statuses of its sources.                                  *)
LEMMA EdgesFind ==
  ASSUME TypeOK, Streams!FramesOnly(net), NEW n \in Nodes,
         \A m \in Nodes : last_execute_state(m) \in {"SUCCESS", "SKIP", "FAILURE"}
  PROVE  LET failure == \E i \in EdgesTo(n) : /\ From(i) = "FAILURE"
                                              /\ net.edges[i].kind = "required"
             skip == \E i \in EdgesTo(n) : From(i) = "SKIP"
         IN  StatusOfEdges(n) =
               IF failure THEN "FAILURE" ELSE IF skip THEN "SKIP" ELSE "SUCCESS"
<1> DEFINE stops == {i \in EdgesTo(n) : Stops(i)}
<1>1. net \in Networks
  BY DEF TypeOK
<1>2. \A i \in EdgesTo(n) : From(i) \in {"SUCCESS", "SKIP", "FAILURE"}
  BY <1>1, NetworkTypes DEF EdgesTo, From
<1>0. \A i \in EdgesTo(n) : net.edges[i].kind \in {"required", "optional"}
  BY <1>1, NetworkTypes DEF EdgesTo, EdgeKind, Streams!FramesOnly
<1>3. \A i \in EdgesTo(n) : Stops(i) <=> /\ From(i) = "FAILURE"
                                        /\ net.edges[i].kind = "required"
  BY <1>0, <1>2 DEF Stops
<1>4. stops \in SUBSET Nat
  BY <1>1, NetworkTypes DEF EdgesTo
<1>5. CASE stops # {}
  <2> DEFINE first == CHOOSE i \in stops : \A j \in stops : i <= j
  <2>1. first \in stops
    BY <1>4, <1>5, FirstStop
  <2>2. From(first) = "FAILURE"
    BY <1>3, <2>1
  <2>3. StatusOfEdges(n) = From(first)
    BY <1>5 DEF StatusOfEdges
  <2> QED
    BY <1>3, <1>5, <2>2, <2>3
<1>6. CASE stops = {}
  BY <1>3, <1>6 DEF StatusOfEdges
<1> QED
  BY <1>5, <1>6

(* A node that is stepped in frame k finds the k-th status of each source. *)
LEMMA StepsInFrame ==
  ASSUME NetworksInOrder, TypeOK, StreamInvariant, Streams!FramesOnly(net),
         ExecuteNode
  PROVE  Streams!Step(This)
<1> DEFINE N == Len(net.order)
           n == This
           k == Len(stream[n]) + 1
<1>1. /\ net \in Networks /\ N \in Nat /\ at \in 1 .. N
      /\ last_execute_state(n) # "FAILURE"
  BY NetworkTypes DEF TypeOK, ExecuteNode, Executing
<1>2. n \in Nodes
  BY <1>1, NetworkTypes DEF This
<1>3. ~Streams!Failed(n) /\ k \in Nat \ {0}
  BY <1>1, <1>2, LastStatus
<1>4. \A m \in Nodes : last_execute_state(m) \in {"SUCCESS", "SKIP", "FAILURE"}
  BY DEF StreamInvariant
<1>5. Frame(k)
  <2>1. PICK f \in Nat \ {0} : Frame(f)
    BY DEF StreamInvariant
  <2>2. Len(stream[n]) = f - 1
    BY <1>1, <1>3, <2>1 DEF Frame, This
  <2> QED
    BY <1>2, <2>1, <2>2, LastStatus
<1>6. ASSUME NEW i \in EdgesTo(n)
      PROVE  /\ Streams!Known(i, k)
             /\ Streams!StatusIn(i, k) = From(i)
  <2> DEFINE m == net.edges[i].from
  <2>1. i \in DOMAIN net.edges /\ net.edges[i].to = n /\ m \in Nodes
    BY <1>1, NetworkTypes DEF EdgesTo
  <2>2. PICK p \in 1 .. N : net.order[p] = m
    BY <1>1, <2>1, NetworkTypes
  <2>3. p < at
    BY <1>1, <2>1, <2>2, NetworkTypes DEF NetworksInOrder, InOrder, This
  <2>4. /\ Len(stream[m]) <= k
        /\ Len(stream[m]) = k \/ Streams!Failed(m)
    BY <1>5, <2>2, <2>3 DEF Frame
  <2>5. /\ Streams!Failed(m) <=> From(i) = "FAILURE"
        /\ Len(stream[m]) \in Nat
        /\ stream[m] # << >> => From(i) = stream[m][Len(stream[m])]
        /\ stream[m] \in Seq(StepStatus)
    BY <2>1, LastStatus DEF From
  <2>6. Streams!Known(i, k)
    BY <2>4, <2>5 DEF Streams!Known
  <2>7. CASE Len(stream[m]) = k
    <3>1. stream[m] # << >>
      BY <1>3, <2>5, <2>7
    <3> QED
      BY <2>5, <2>6, <2>7, <3>1 DEF Streams!StatusIn
  <2>8. CASE Len(stream[m]) # k
    BY <1>3, <2>4, <2>5, <2>6, <2>8 DEF Streams!StatusIn
  <2> QED
    BY <2>7, <2>8
<1> DEFINE failure == \E i \in EdgesTo(n) : /\ From(i) = "FAILURE"
                                            /\ net.edges[i].kind = "required"
           skip == \E i \in EdgesTo(n) : From(i) = "SKIP"
           found == Streams!Found(n, k)
<1>7. StatusOfEdges(n) = IF failure THEN "FAILURE" ELSE IF skip THEN "SKIP" ELSE "SUCCESS"
  BY <1>2, <1>4, EdgesFind
<1>8. /\ "FAILURE" \in found <=> failure
      /\ "SKIP" \in found <=> skip
  BY <1>6, SameNetwork DEF Streams!Found
<1>9. Outcomes(n) = MayReturn(found, n \in net.skipped, Returns(n))
  BY <1>7, <1>8 DEF Outcomes, MayReturn
<1>10. \E st \in Outcomes(n) : stream' = [stream EXCEPT ![n] = Append(@, st)]
  BY DEF ExecuteNode
<1>11. \E st \in Streams!MayReturn(found, n \in net.skipped, Streams!Returns(n)) :
         stream' = [stream EXCEPT ![n] = Append(@, st)]
  BY <1>9, <1>10, SameNetwork
<1>12. \A i \in Streams!EdgesTo(n) : Streams!Known(i, k)
  BY <1>6, SameNetwork
<1>13. UNCHANGED net
  BY DEF ExecuteNode
<1> QED
  BY <1>3, <1>11, <1>12, <1>13 DEF Streams!Step

LEMMA StreamInvariantInit == Init => StreamInvariant
<1> SUFFICES ASSUME Init, Streams!FramesOnly(net)
             PROVE  /\ mode \in {"executing", "returned"}
                    /\ \A n \in Nodes : last_execute_state(n) \in {"SUCCESS", "SKIP", "FAILURE"}
                    /\ \E k \in Nat \ {0} : Frame(k)
                    /\ OutputsNoted
  BY DEF StreamInvariant
<1>1. net \in Networks /\ at = 1 /\ mode = "executing" /\ \A n \in Nodes : stream[n] = << >>
  BY DEF Init, NothingYet
<1>2. \A p \in 1 .. Len(net.order) : Len(stream[net.order[p]]) = 0
  <2>1. \A p \in 1 .. Len(net.order) : stream[net.order[p]] = << >>
    BY <1>1, NetworkTypes
  <2> QED
    BY <2>1
<1>3. Frame(1)
  BY SMTT(30), <1>1, <1>2, NetworkTypes DEF Frame
<1>4. \A n \in Nodes : last_execute_state(n) = "SUCCESS"
  BY <1>1 DEF last_execute_state
<1>5. OutputsNoted
  BY <1>1, NetworkTypes DEF OutputsNoted
<1> QED
  BY <1>1, <1>3, <1>4, <1>5

(* The node that was stepped has one status more. *)
LEMMA ExecuteKeepsInvariant ==
  ASSUME TypeOK, StreamInvariant, Streams!FramesOnly(net), ExecuteNode
  PROVE  StreamInvariant'
<1> DEFINE N == Len(net.order)
<1>1. /\ net \in Networks /\ N \in Nat /\ at \in 1 .. N /\ at' = at + 1
      /\ net' = net /\ mode' = mode /\ mode = "executing"
  BY NetworkTypes DEF TypeOK, ExecuteNode, Executing
<1>2. PICK n \in Nodes : n = net.order[at]
  BY <1>1, NetworkTypes
<1>3. last_execute_state(n) # "FAILURE" /\ n = This
  BY <1>2 DEF ExecuteNode, This
<1>4. PICK st \in Outcomes(n) :
        /\ stream' = [stream EXCEPT ![n] = Append(@, st)]
        /\ noted' = IF n \in net.output THEN noted \cup {st} ELSE noted
  BY <1>3 DEF ExecuteNode
<1>5. \A m \in Nodes : last_execute_state(m) \in {"SUCCESS", "SKIP", "FAILURE"}
  BY DEF StreamInvariant
<1>6. st \in {"SUCCESS", "SKIP", "FAILURE"}
  <2>1. StatusOfEdges(n) \in {"FAILURE", "SKIP", "SUCCESS"}
    BY <1>5, EdgesFind
  <2>2. net.returns[n] \subseteq {"SUCCESS", "SKIP", "FAILURE"}
    <3>1. net.returns[n] \cap {"FLUSH", "NO_OUTPUT"} = {}
      BY DEF Streams!FramesOnly, Nodes, Streams!Range, Range
    <3> QED
      BY <1>1, <3>1, NetworkTypes DEF StepStatus
  <2> QED
    BY <2>1, <2>2 DEF Outcomes, MayReturn, Returns
<1>7. /\ stream \in [Nodes -> Seq(StepStatus)] /\ st \in StepStatus
      /\ stream'[n] = Append(stream[n], st)
      /\ \A m \in Nodes \ {n} : stream'[m] = stream[m]
  BY <1>4, <1>6 DEF TypeOK, StepStatus
<1>8. /\ Len(stream'[n]) = Len(stream[n]) + 1 /\ Len(stream[n]) \in Nat
      /\ stream'[n] # << >> /\ stream'[n][Len(stream'[n])] = st
  BY <1>7
<1>9. last_execute_state(n)' = st /\ (Streams!Failed(n)' <=> st = "FAILURE")
  BY <1>8 DEF last_execute_state, Streams!Failed
<1>10. \A m \in Nodes \ {n} : last_execute_state(m)' = last_execute_state(m)
  BY <1>7 DEF last_execute_state
<1>11. \A m \in Nodes \ {n} : Streams!Failed(m)' <=> Streams!Failed(m)
  BY <1>7 DEF Streams!Failed
<1>12. ~Streams!Failed(n)
  BY <1>3, LastStatus
<1>13. PICK k \in Nat \ {0} : Frame(k)
  BY DEF StreamInvariant
<1>14. Frame(k)'
  <2> SUFFICES ASSUME NEW p \in 1 .. N
               PROVE  LET m == net.order[p]
                          f == IF p < at + 1 THEN k ELSE k - 1
                      IN  /\ Len(stream'[m]) <= f
                          /\ Len(stream'[m]) = f \/ Streams!Failed(m)'
    BY <1>1 DEF Frame
  <2>1. CASE p = at
    <3>1. Len(stream[n]) = k - 1
      BY <1>1, <1>2, <1>12, <1>13 DEF Frame
    <3> QED
      BY <1>1, <1>2, <1>8, <2>1, <3>1
  <2>2. CASE p # at
    <3>1. net.order[p] \in Nodes \ {n}
      BY <1>1, <1>2, <2>2, NetworkTypes
    <3>2. p < at + 1 <=> p < at
      BY <1>1, <2>2
    <3>3. LET f == IF p < at THEN k ELSE k - 1
          IN  /\ Len(stream[net.order[p]]) <= f
              /\ Len(stream[net.order[p]]) = f \/ Streams!Failed(net.order[p])
      BY <1>13 DEF Frame
    <3>4. PICK m \in Nodes \ {n} : m = net.order[p]
      BY <3>1
    <3>5. stream'[m] = stream[m] /\ (Streams!Failed(m)' <=> Streams!Failed(m))
      BY <1>7, <1>11
    <3> QED
      BY <1>1, <3>2, <3>3, <3>4, <3>5
  <2> QED
    BY <2>1, <2>2
<1>15. OutputsNoted'
  <2>1. mode' # "returned"
    BY <1>1
  <2>2. ASSUME NEW p \in 1 .. N, p < at + 1, net.order[p] \in net.output,
               NEW m \in Nodes, m = net.order[p]
        PROVE  Streams!Failed(m)' \/ last_execute_state(m)' \in noted'
    <3>1. CASE p = at
      BY <1>2, <1>4, <1>9, <2>2, <3>1
    <3>2. CASE p # at
      <4>1. m # n /\ p < at
        <5>1. net.order[p] # net.order[at]
          BY <1>1, <3>2, NetworkTypes
        <5>2. p < at
          BY <1>1, <2>2, <3>2
        <5> QED
          BY <1>2, <2>2, <5>1, <5>2
      <4>2. Streams!Failed(m) \/ last_execute_state(m) \in noted
        BY <2>2, <4>1 DEF StreamInvariant, OutputsNoted
      <4> QED
        BY <1>4, <1>10, <1>11, <4>1, <4>2
    <3> QED
      BY <3>1, <3>2
  <2>3. \A p \in 1 .. N : net.order[p] \in Nodes
    BY <1>1, NetworkTypes
  <2>4. ASSUME NEW p \in 1 .. N, p < at', net'.order[p] \in net'.output
        PROVE  Streams!Failed(net.order[p])' \/ last_execute_state(net.order[p])' \in noted'
    <3>1. PICK m \in Nodes : m = net.order[p]
      BY <2>3
    <3> QED
      BY <1>1, <2>2, <2>4, <3>1
  <2> QED
    BY <1>1, <2>1, <2>4 DEF OutputsNoted
<1>16. \A m \in Nodes : last_execute_state(m)' \in {"SUCCESS", "SKIP", "FAILURE"}
  BY <1>5, <1>6, <1>9, <1>10
<1>17. Nodes' = Nodes
  BY <1>1 DEF Nodes
<1> QED
  BY <1>1, <1>13, <1>14, <1>15, <1>16, <1>17 DEF StreamInvariant

LEMMA StreamInvariantStep ==
  ASSUME TypeOK, StreamInvariant, [Next]_vars
  PROVE  StreamInvariant'
<1> DEFINE N == Len(net.order)
<1>1. net \in Networks /\ net' = net /\ N \in Nat /\ at \in 1 .. N + 1
  BY NetworkTypes DEF TypeOK, vars, Next, PassOver, ExecuteNode, EmptyOtherEdges, Die,
                      EndExecute, RunAgain
<1> SUFFICES ASSUME Streams!FramesOnly(net) PROVE StreamInvariant'
  BY <1>1 DEF StreamInvariant, Streams!FramesOnly
<1>2. /\ mode \in {"executing", "returned"} /\ OutputsNoted
      /\ \A n \in Nodes : last_execute_state(n) \in {"SUCCESS", "SKIP", "FAILURE"}
  BY DEF StreamInvariant
<1>3. PICK k \in Nat \ {0} : Frame(k)
  BY DEF StreamInvariant
<1>4. \A p \in 1 .. N : net.order[p] \in Nodes
  BY <1>1, NetworkTypes
<1>5. Nodes' = Nodes
  BY <1>1 DEF Nodes
<1>6. ASSUME stream' = stream, at' \in {at, at + 1}, mode' = mode, noted' = noted,
             at' # at => at \in 1 .. N /\ Streams!Failed(net.order[at])
      PROVE  StreamInvariant'
  <2>1. \A n : Streams!Failed(n)' <=> Streams!Failed(n)
    BY <1>6 DEF Streams!Failed
  <2>2. \A n : last_execute_state(n)' = last_execute_state(n)
    BY <1>6 DEF last_execute_state
  <2>3. ASSUME NEW p \in 1 .. N, p < at', ~(p < at) PROVE Streams!Failed(net.order[p])
    BY <1>1, <1>6, <2>3
  <2>4. ASSUME NEW p \in 1 .. N, NEW n, n = net.order[p]
        PROVE  LET f == IF p < at' THEN k ELSE k - 1
               IN  Len(stream[n]) <= f /\ (Len(stream[n]) = f \/ Streams!Failed(n))
    <3>1. LET f == IF p < at THEN k ELSE k - 1
          IN  Len(stream[n]) <= f /\ (Len(stream[n]) = f \/ Streams!Failed(n))
      BY <1>3, <2>4 DEF Frame
    <3>2. Len(stream[n]) \in Nat
      BY <1>4, <2>4, LastStatus
    <3> QED
      BY <1>1, <1>6, <2>3, <2>4, <3>1, <3>2
  <2>5. Frame(k)'
    BY <1>1, <1>6, <2>1, <2>4 DEF Frame
  <2>6. OutputsNoted'
    <3>1. ASSUME NEW p \in 1 .. N, NEW n, n = net.order[p], p < at', n \in net.output
          PROVE  Streams!Failed(n) \/ last_execute_state(n) \in noted
      BY <1>2, <2>3, <3>1 DEF OutputsNoted
    <3> QED
      BY <1>1, <1>2, <1>6, <2>1, <2>2, <3>1 DEF OutputsNoted
  <2> QED
    BY <1>1, <1>2, <1>5, <1>6, <2>2, <2>5, <2>6 DEF StreamInvariant
<1>7. CASE UNCHANGED vars
  BY <1>6, <1>7 DEF vars
<1>8. CASE PassOver
  <2>1. at \in 1 .. N /\ last_execute_state(net.order[at]) = "FAILURE"
    BY <1>1, <1>8 DEF PassOver, Executing, This
  <2>2. Streams!Failed(net.order[at])
    BY <1>4, <2>1, LastStatus
  <2> QED
    BY <1>6, <1>8, <2>1, <2>2 DEF PassOver
<1>9. CASE ExecuteNode
  BY <1>9, ExecuteKeepsInvariant
<1>10. ASSUME EmptyOtherEdges \/ Die PROVE FALSE
  <2>1. at \in 1 .. N /\ StatusOfEdges(net.order[at]) \in {"FLUSH", "NO_OUTPUT"}
    BY <1>1, <1>10 DEF EmptyOtherEdges, Die, Executing, This
  <2>2. StatusOfEdges(net.order[at]) \in {"FAILURE", "SKIP", "SUCCESS"}
    BY <1>2, <1>4, <2>1, EdgesFind
  <2> QED
    BY <2>1, <2>2
<1>11. CASE EndExecute
  <2>1. /\ stream' = stream /\ noted' = {} /\ at = N + 1 /\ mode = "executing"
        /\ IF Executed = "FAILURE" THEN mode' = "returned" /\ at' = at
                                   ELSE mode' = mode /\ at' = 1
    BY <1>1, <1>11 DEF EndExecute
  <2>2. \A n : Streams!Failed(n)' <=> Streams!Failed(n)
    BY <2>1 DEF Streams!Failed
  <2>3. \A n : last_execute_state(n)' = last_execute_state(n)
    BY <2>1 DEF last_execute_state
  <2>4. ASSUME Executed = "FAILURE", NEW n \in net.output PROVE Streams!Failed(n)
    <3>1. noted \subseteq {"FAILURE"}
      BY <2>4 DEF Executed, all_outputs_failed
    <3>2. PICK p \in 1 .. N : n = net.order[p]
      BY <1>1, NetworkTypes
    <3>3. Streams!Failed(n) \/ last_execute_state(n) \in noted
      BY <1>1, <1>2, <2>1, <3>2 DEF OutputsNoted
    <3> QED
      BY <1>4, <3>1, <3>2, <3>3, LastStatus
  <2>5. CASE Executed = "FAILURE"
    <3>1. Frame(k)'
      BY <1>1, <1>3, <2>1, <2>2, <2>5 DEF Frame
    <3>2. OutputsNoted'
      <4>1. \A n \in net.output : Streams!Failed(n)'
        BY <2>2, <2>4, <2>5
      <4> QED
        BY <1>1, <4>1 DEF OutputsNoted
    <3> QED
      BY <1>1, <1>2, <1>3, <1>5, <2>1, <2>3, <2>5, <3>1, <3>2 DEF StreamInvariant
  <2>6. CASE Executed # "FAILURE"
    <3>1. Frame(k + 1)'
      <4>1. \A p \in 1 .. N :
              /\ Len(stream[net.order[p]]) <= k
              /\ Len(stream[net.order[p]]) = k \/ Streams!Failed(net.order[p])
        BY <1>1, <1>3, <2>1 DEF Frame
      <4>2. at' = 1 /\ stream' = stream /\ net' = net
        BY <1>1, <2>1, <2>6
      <4>3. \A p \in 1 .. N : (IF p < 1 THEN k + 1 ELSE k + 1 - 1) = k
        BY <1>1, <1>3
      <4>4. ASSUME NEW p \in 1 .. N
            PROVE  LET f == IF p < 1 THEN k + 1 ELSE k + 1 - 1
                   IN  /\ Len(stream[net.order[p]]) <= f
                       /\ Len(stream[net.order[p]]) = f \/ Streams!Failed(net.order[p])
        BY <4>1, <4>3
      <4> QED
        BY <4>2, <4>4 DEF Frame, Streams!Failed
    <3>2. OutputsNoted'
      BY <1>1, <2>1, <2>6 DEF OutputsNoted
    <3> QED
      BY <1>1, <1>2, <1>3, <1>5, <2>1, <2>3, <2>6, <3>1, <3>2 DEF StreamInvariant
  <2> QED
    BY <2>5, <2>6
<1>12. CASE RunAgain
  <2>1. stream' = NothingYet /\ mode' = "executing" /\ at' = 1
    BY <1>12 DEF RunAgain
  <2>2. \A n \in Nodes : stream'[n] = << >> /\ Len(stream'[n]) = 0
    BY <2>1 DEF NothingYet
  <2>3. Frame(1)'
    BY <1>1, <1>4, <2>1, <2>2 DEF Frame
  <2>4. OutputsNoted'
    BY <1>1, <2>1 DEF OutputsNoted
  <2>5. \A n \in Nodes : last_execute_state(n)' = "SUCCESS"
    BY <2>2 DEF last_execute_state
  <2> QED
    BY <1>5, <2>1, <2>3, <2>4, <2>5 DEF StreamInvariant
<1> QED
  BY <1>7, <1>8, <1>9, <1>10, <1>11, <1>12 DEF Next

(* sync_pipeline::run() gives every node, in every network whose order has *)
(* the sources first, whatever its processes return, and in every run, the *)
(* stream of statuses that FrameStreams promises: the loops, the early     *)
(* returns and the nodes that are passed over change none of them.         *)
THEOREM SyncImplementsFrameStreams ==
  ASSUME NetworksInOrder PROVE Spec => ImplementsFrameStreams
<1> DEFINE Inv == TypeOK /\ StreamInvariant
<1>1. Init => Inv
  BY TypeInit, StreamInvariantInit
<1>2. Inv /\ [Next]_vars => Inv'
  BY TypeStep, StreamInvariantStep
<1>3. Init => Streams!Init
  BY SameNetwork DEF Init, Streams!Init, NothingYet, Streams!NothingYet
<1>4. Inv /\ [Next]_vars => [Streams!Next]_<< net, stream >>
  <2> SUFFICES ASSUME TypeOK, StreamInvariant, [Next]_vars
               PROVE  Streams!Next \/ UNCHANGED << net, stream >>
    OBVIOUS
  <2>1. net' = net
    BY DEF vars, Next, PassOver, ExecuteNode, EmptyOtherEdges, Die, EndExecute, RunAgain
  <2>2. CASE ~Streams!FramesOnly(net)
    BY <2>1, <2>2 DEF Streams!Next, Streams!Unspecified
  <2>3. CASE Streams!FramesOnly(net)
    <3>1. CASE ExecuteNode
      <4>1. Streams!Step(This)
        BY <2>3, <3>1, StepsInFrame
      <4>2. This \in Streams!Nodes
        BY <3>1, NetworkTypes, SameNetwork DEF ExecuteNode, Executing, This, TypeOK
      <4> QED
        BY <4>1, <4>2 DEF Streams!Next
    <3>2. CASE RunAgain
      <4>1. \A n \in net.output : Streams!Failed(n)
        BY <2>3, <3>2 DEF StreamInvariant, OutputsNoted, RunAgain
      <4>2. stream' = Streams!NothingYet
        BY <3>2, SameNetwork DEF RunAgain, NothingYet, Streams!NothingYet
      <4> QED
        BY <2>1, <4>1, <4>2 DEF Streams!Next, Streams!Reset
    <3>3. CASE UNCHANGED vars \/ PassOver \/ EmptyOtherEdges \/ Die \/ EndExecute
      BY <3>3 DEF vars, PassOver, EmptyOtherEdges, Die, EndExecute
    <3> QED
      BY <3>1, <3>2, <3>3 DEF Next
  <2> QED
    BY <2>2, <2>3
<1> QED
  BY <1>1, <1>2, <1>3, <1>4, PTL DEF Spec, ImplementsFrameStreams, Streams!Spec
-----------------------------------------------------------------------------
(***************************************************************************)
(* The super process.  Its types: the values on an edge are numbers of     *)
(* frames, one for each SUCCESS.                                           *)
(***************************************************************************)
FrameNumbers == 1 .. setting.frames

CellPlaces == {"none", "in", "out", "ended"}

FeederPlaces == {"none", "begin", "in", "pads", "queue", "fail", "leave", "ended"}

MainPlaces ==
  {"start", "feed", "status", "pads", "flush", "recover", "out", "interrupt", "join",
   "last", "returned", "killed"}

ItemRecords ==
  [status : StepStatus, frame : 0 .. setting.frames, failed : BOOLEAN]

FeederRecords ==
  [status : EdgeStatus, arrived : 0 .. setting.frames, lane : Lanes,
   is_running : BOOLEAN, failed : BOOLEAN]

MainRecords ==
  [status : EdgeStatus, round : Nat, lane : Lanes, found : SUBSET EdgeStatus,
   rest : SUBSET Lanes, pad : [Lanes -> 0 .. setting.frames], sent : Nat,
   recovered : 0 .. setting.recoveries, stopped : BOOLEAN]

DataTyped ==
  /\ setting \in Settings
  /\ DOMAIN edge = Segments
  /\ \A s \in Segments : Paired(edge[s], FrameNumbers)
  /\ item \in [Cells -> ItemRecords]
  /\ feeder \in FeederRecords
  /\ main \in MainRecords
  /\ edge_status_queue \in Seq(EdgeStatus)

PlacesTyped ==
  /\ pc \in [Threads -> Place]
  /\ \A c \in Cells : pc[c] \in CellPlaces
  /\ pc[Feeder] \in FeederPlaces
  /\ pc[Main] \in MainPlaces
  /\ waiting \subseteq Threads /\ interrupted \subseteq Threads
  /\ canceller \in {"idle", "joining", "inner", "done"}

(* A step that ended with SUCCESS has a frame to announce, and so has the  *)
(* feeder; what the outer node announces is never a FAILURE.  It has       *)
(* announced one status for a round at most.                               *)
WorkInHand ==
  /\ \A c \in Cells :
       pc[c] = "out" => /\ item[c].status # "NO_OUTPUT"
                        /\ item[c].status = "SUCCESS" => item[c].frame # 0
  /\ pc[Feeder] \in {"pads", "queue"} /\ feeder.status # "FAILURE"
       => feeder.arrived # 0
  /\ pc[Main] = "out" => main.status # "FAILURE"
  /\ pc[Main] = "flush" => main.status = "FLUSH" /\ main.rest # {}
  /\ \/ main.sent <= main.round
     \/ pc[Main] = "returned" /\ main.sent <= main.round + 1

SuperTyped == DataTyped /\ PlacesTyped /\ WorkInHand

(* Threads wait where they may, and nobody waits who is over; the flags of *)
(* the feeder tell where it is.  The threads of the inner pipeline are     *)
(* over once Main has joined them, or cancel() has, and Main is over       *)
(* before cancel() looks for them.                                         *)
ThreadInvariant ==
  /\ feeder.is_running <=> pc[Feeder] \in {"in", "pads", "queue", "fail", "leave"}
  /\ feeder.failed <=> pc[Feeder] \in {"leave", "ended"}
  /\ \A c \in Cells : c \in waiting => pc[c] \in {"in", "out"}
  /\ Feeder \in waiting => pc[Feeder] \in {"in", "pads"}
  /\ Main \in waiting => ~Over(Main)
  /\ pc[Main] \in {"last", "returned"} => \A t \in InnerThreads : Over(t)
  /\ canceller \in {"inner", "done"} => Over(Main)
  /\ canceller = "done" => \A t \in InnerThreads : Over(t)
-----------------------------------------------------------------------------
(***************************************************************************)
(* What the pads give.  All that follows is about Main in its loop: no     *)
(* inner thread has been interrupted yet.                                  *)
(***************************************************************************)
InLoop ==
  pc[Main] \in {"start", "feed", "status", "pads", "flush", "recover", "out"}

(* The feeder is started once, and leaves after a FAILURE. *)
FeederInvariant ==
  /\ pc[Feeder] \in {"none", "begin"}
       => feeder.status = "SUCCESS" /\ feeder.arrived = 0
  /\ pc[Feeder] = "in" => feeder.status # "FAILURE"
  /\ pc[Feeder] \in {"fail", "leave", "ended"} => feeder.status = "FAILURE"
  /\ pc[Feeder] = "queue" => ~setting.forwarding
  /\ pc[Feeder] = "pads" => IF setting.forwarding THEN feeder.status # "FLUSH"
                                                  ELSE feeder.status = "SUCCESS"

(* No FLUSH is in a lane. *)
NoFlush ==
  /\ \A s \in Segments : \A i \in 1 .. Len(edge[s].status) : edge[s].status[i] # "FLUSH"
  /\ \A c \in Cells : item[c].status # "FLUSH"

(* Whoever has closed the edge before it has failed because of it. *)
ClosedBehind(c) ==
  edge[InEdge(c)].no_more_input =>
    pc[c] \in {"out", "ended"} /\ item[c].status = "FAILURE" /\ ~item[c].failed

(* The last node of a lane ends after its FAILURE, which is the last thing *)
(* to come out of the lane before a recovery.                              *)
FailureIsLast(c) ==
  /\ \A i \in 1 .. Len(edge[c].status) :
       edge[c].status[i] = "FAILURE" =>
         i = Len(edge[c].status) /\ pc[c] = "ended" /\ item[c].status = "FAILURE"
  /\ edge[c].no_more_input =>
       edge[c].status = << >> /\ pc[c] = "ended" /\ item[c].status = "FAILURE"

LoopInvariant ==
  /\ interrupted \cap InnerThreads = {}
  /\ FeederInvariant
  /\ NoFlush
  /\ \A c \in Cells : pc[c] \in {"none", "in"} => item[c].status # "FAILURE"
  /\ \A c \in Cells : ClosedBehind(c)
  /\ \A l \in Lanes : FailureIsLast(PadEdge(l))
  /\ setting.lanes = 1 => (edge[PadEdge(1)].no_more_input <=> pc[Main] = "recover")
  /\ pc[Main] = "status" => ~setting.forwarding /\ main.lane = 1 /\ main.found = {}
  /\ pc[Main] = "pads" /\ main.lane = 1 => main.found = {}
  /\ pc[Main] # "flush"

(***************************************************************************)
(* The statuses that the feeder gives to the lanes are numbered from 1, in *)
(* every lane: number k was given for frame g[k].  Of them, took[s] were   *)
(* taken from segment s, and r from every pad when the last round ended.   *)
(***************************************************************************)
One(b) == IF b THEN 1 ELSE 0

Given(l) == One(pc[Feeder] = "pads" /\ feeder.lane <= l)

ReadingPads == One(pc[Main] = "pads")

ReadFrom(l) == One(pc[Main] = "pads" /\ main.lane > l)

(* A node takes one status for each that it announces. *)
LanesAligned(g, took, r) ==
  /\ \A s \in Segments : took[s] + Len(edge[s].status) <= Len(g)
  /\ \A l \in Lanes :
       took[<< l, 0 >>] + Len(edge[<< l, 0 >>].status) = Len(g) - Given(l)
  /\ \A c \in Cells :
       took[InEdge(c)] = took[c] + Len(edge[c].status) + One(pc[c] = "out")
  /\ \A l \in Lanes :
       setting.lanes = 1 \/ ~edge[PadEdge(l)].no_more_input =>
         took[PadEdge(l)] = r + ReadFrom(l)

(* And a value is the number of the frame that it was given for. *)
ValuesAligned(g, took) ==
  /\ \A s \in Segments : \A i \in 1 .. Len(edge[s].status) :
       edge[s].status[i] = "SUCCESS" => ValueAt(edge[s], i) = g[took[s] + i]
  /\ \A c \in Cells :
       pc[c] = "out" /\ item[c].status = "SUCCESS" => item[c].frame = g[took[InEdge(c)]]

(* With forwarding every frame is given to the lanes, and its FAILURE. *)
ForwardingAligned(g, r) ==
  /\ Len(g) = feeder.arrived + One(feeder.status = "FAILURE")
  /\ \A k \in 1 .. Len(g) : g[k] = k
  /\ main.round = r + ReadingPads

(* Without, those that arrived with SUCCESS, and the queue has a status    *)
(* for each frame.                                                         *)
FeedsSuccess ==
  feeder.status = "SUCCESS" /\ pc[Feeder] \in {"pads", "queue"}

QueueAligned(g, r) ==
  LET taken == main.round - One(pc[Main] = "status")
      asked == r + ReadingPads
      q     == edge_status_queue
  IN  /\ Len(g) = asked + Successes(q) + One(FeedsSuccess)
      /\ FeedsSuccess => g[Len(g)] = feeder.arrived
      /\ pc[Main] = "pads" => g[r + 1] = main.round
      /\ \A i \in 1 .. Len(q) :
           q[i] = "SUCCESS" => g[asked + Cardinality(SuccessesUpTo(q, i))] = taken + i
      /\ feeder.status # "FAILURE" =>
           taken + Len(q) = feeder.arrived - One(pc[Feeder] \in {"pads", "queue"})

Alignment(g, took, r) ==
  /\ g \in Seq(Nat) /\ took \in [Segments -> Nat] /\ r \in Nat
  /\ LanesAligned(g, took, r)
  /\ ValuesAligned(g, took)
  /\ IF setting.forwarding THEN ForwardingAligned(g, r) ELSE QueueAligned(g, r)

(* A pad that was read in this round holds the frame of the round, or      *)
(* nothing: its status was a SKIP, or its lane has failed.                 *)
PadRead(l) ==
  /\ main.pad[l] \in {0, main.round}
  /\ main.pad[l] = 0 => "SKIP" \in main.found \/ LaneFailed(l)

PadsInvariant ==
  /\ pc[Main] = "pads" => \A l \in Lanes : l < main.lane => PadRead(l)
  /\ pc[Main] = "out" /\ main.status = "SUCCESS" =>
       \A l \in Lanes : PadRead(l) /\ "SKIP" \notin main.found

Aligned == \E g, took, r : Alignment(g, took, r)

SuperInvariant ==
  Counted /\ InLoop => LoopInvariant /\ PadsInvariant /\ Aligned

-----------------------------------------------------------------------------
(* Facts about the parts of a super process.                               *)

LEMMA SettingTypes ==
  ASSUME setting \in Settings
  PROVE  /\ setting.lanes \in Nat /\ setting.lanes > 0
         /\ setting.depth \in Nat /\ setting.depth > 0
         /\ setting.forwarding \in BOOLEAN
         /\ setting.frames \in Nat /\ setting.recoveries \in Nat
         /\ setting.source \subseteq EdgeStatus \ {"FAILURE"}
         /\ setting.inner \subseteq StepStatus
         /\ setting.recoveries > 0 => setting.lanes = 1
<1>1. SettingOK(setting)
  BY SettingsAssumption
<1> QED
  BY <1>1 DEF SettingOK

LEMMA Names ==
  ASSUME setting \in Settings
  PROVE  /\ Feeder \notin Cells /\ Main \notin Cells /\ Feeder # Main
         /\ Feeder \in Threads /\ Main \in Threads /\ Cells \subseteq Threads
         /\ InnerThreads = Cells \cup {Feeder} /\ Threads = InnerThreads \cup {Main}
         /\ Main \notin InnerThreads
<1>1. \A c \in Cells : c[1] > 0
  BY SettingTypes DEF Cells, Lanes
<1>2. Feeder[1] = 0 /\ Main[1] = 0
  BY DEF Feeder, Main
<1>3. Feeder # Main
  BY DEF Feeder, Main
<1> QED
  BY <1>1, <1>2, <1>3 DEF Threads, InnerThreads

LEMMA LaneParts ==
  ASSUME setting \in Settings
  PROVE  /\ 1 \in Lanes /\ setting.lanes \in Lanes
         /\ \A l \in Lanes : /\ l \in Nat /\ l > 0 /\ l <= setting.lanes
                             /\ l < setting.lanes => l + 1 \in Lanes
         /\ \A l \in Lanes : /\ << l, 0 >> \in Segments /\ << l, 0 >> \notin Cells
                             /\ PadEdge(l) \in Cells
         /\ \A l \in Lanes, k \in Lanes :
              /\ << l, 0 >> = << k, 0 >> => l = k
              /\ PadEdge(l) = PadEdge(k) => l = k
         /\ \A c \in Cells :
              /\ c \in Segments /\ InEdge(c) \in Segments /\ InEdge(c) # c
              /\ c[1] \in Lanes /\ c[2] \in Nat /\ c[2] > 0 /\ c[2] <= setting.depth
              /\ c = << c[1], c[2] >>
              /\ \A l \in Lanes : InEdge(c) # PadEdge(l)
         /\ \A c \in Cells, d \in Cells : InEdge(c) = InEdge(d) => c = d
         /\ \A s \in Segments : s \in Cells \/ \E l \in Lanes : s = << l, 0 >>
<1>1. /\ setting.lanes \in Nat /\ setting.lanes > 0
      /\ setting.depth \in Nat /\ setting.depth > 0
  BY SettingTypes
<1>2. \A l \in Lanes : l \in Nat /\ l > 0 /\ l <= setting.lanes
  BY <1>1 DEF Lanes
<1>3. /\ 1 \in Lanes /\ setting.lanes \in Lanes
      /\ \A l \in Lanes : l < setting.lanes => l + 1 \in Lanes
  BY <1>1 DEF Lanes
<1>4. \A l \in Lanes : /\ << l, 0 >> \in Segments /\ << l, 0 >> \notin Cells
                       /\ PadEdge(l) \in Cells
  <2> TAKE l \in Lanes
  <2>1. 0 \in 0 .. setting.depth /\ setting.depth \in 1 .. setting.depth
    BY <1>1
  <2>2. 0 \notin 1 .. setting.depth
    OBVIOUS
  <2> QED
    BY <2>1, <2>2 DEF Segments, Cells, PadEdge
<1>5. \A l \in Lanes, k \in Lanes : /\ << l, 0 >> = << k, 0 >> => l = k
                                    /\ PadEdge(l) = PadEdge(k) => l = k
  BY DEF PadEdge
<1>6. ASSUME NEW c \in Cells
      PROVE  /\ c \in Segments /\ InEdge(c) \in Segments
             /\ c[1] \in Lanes /\ c[2] \in Nat /\ c[2] > 0 /\ c[2] <= setting.depth
             /\ c = << c[1], c[2] >>
             /\ InEdge(c)[1] = c[1] /\ InEdge(c)[2] = c[2] - 1
  <2>1. /\ c[1] \in Lanes /\ c[2] \in 1 .. setting.depth
        /\ c = << c[1], c[2] >>
    BY DEF Cells
  <2>2. c[2] \in 0 .. setting.depth /\ c[2] - 1 \in 0 .. setting.depth
    BY <1>1, <2>1
  <2>3. c[2] \in Nat /\ c[2] > 0 /\ c[2] <= setting.depth
    BY <1>1, <2>1
  <2>4. InEdge(c) = << c[1], c[2] - 1 >>
    BY DEF InEdge
  <2>5. << c[1], c[2] - 1 >> \in Segments /\ << c[1], c[2] >> \in Segments
    BY <2>1, <2>2 DEF Segments
  <2> QED
    BY <2>1, <2>3, <2>4, <2>5
<1>7. ASSUME NEW c \in Cells
      PROVE  InEdge(c) # c /\ \A l \in Lanes : InEdge(c) # PadEdge(l)
  <2>1. c[2] - 1 # c[2] /\ c[2] - 1 # setting.depth
    BY <1>1, <1>6
  <2>2. \A l \in Lanes : PadEdge(l)[2] = setting.depth
    BY DEF PadEdge
  <2> QED
    BY <1>6, <2>1, <2>2
<1>8. ASSUME NEW c \in Cells, NEW d \in Cells, InEdge(c) = InEdge(d)
      PROVE  c = d
  <2>1. c[1] = d[1] /\ c[2] - 1 = d[2] - 1
    BY <1>6, <1>8
  <2>2. c[2] = d[2]
    BY <1>6, <2>1
  <2> QED
    BY <1>6, <2>1, <2>2
<1>9. ASSUME NEW s \in Segments, s \notin Cells
      PROVE  \E l \in Lanes : s = << l, 0 >>
  <2>1. s[1] \in Lanes /\ s[2] \in 0 .. setting.depth /\ s = << s[1], s[2] >>
    BY DEF Segments
  <2>2. s[2] = 0 \/ s[2] \in 1 .. setting.depth
    BY <1>1, <2>1
  <2> QED
    BY <1>9, <2>1, <2>2 DEF Cells
<1> QED
  BY <1>2, <1>3, <1>4, <1>5, <1>6, <1>7, <1>8, <1>9

(* A thread moves, and the others stay where they are. *)
LEMMA GoesTo ==
  ASSUME DOMAIN pc = Threads, NEW t \in Threads, NEW to, Goes(t, to)
  PROVE  /\ DOMAIN pc' = Threads
         /\ pc'[t] = to
         /\ \A u \in Threads : u # t => pc'[u] = pc[u]
         /\ waiting' = waiting \ {t}
BY DEF Goes

(* Where a thread stands that goes on, or begins to wait. *)
LEMMA GoesOn ==
  ASSUME setting \in Settings, PlacesTyped
  PROVE  /\ \A c \in Cells : At(c, "in") => Ready(edge[InEdge(c)])
         /\ At(Main, "status") => edge_status_queue # << >>
         /\ \A place \in {"pads", "flush"} : At(Main, place) => Ready(edge[PadEdge(main.lane)])
         /\ At(Main, "join") => \A t \in InnerThreads : Over(t)
<1>1. ASSUME NEW c \in Cells, At(c, "in")
      PROVE  Ready(edge[InEdge(c)])
  BY <1>1, Zenon DEF At, CanGoOn
<1>2. ASSUME At(Main, "status")
      PROVE  edge_status_queue # << >>
  <2>1. Main \notin Cells /\ Main # Feeder
    BY Names
  <2> QED
    BY <1>2, <2>1 DEF At, CanGoOn
<1>3. ASSUME NEW place \in {"pads", "flush"}, At(Main, place)
      PROVE  Ready(edge[PadEdge(main.lane)])
  <2>1. Main \notin Cells /\ Main # Feeder
    BY Names
  <2> QED
    BY <1>3, <2>1 DEF At, CanGoOn, PadEdge
<1>4. ASSUME At(Main, "join")
      PROVE  \A t \in InnerThreads : Over(t)
  <2>1. Main \notin Cells /\ Main # Feeder
    BY Names
  <2> QED
    BY <1>4, <2>1 DEF At, CanGoOn
<1> QED
  BY <1>1, <1>2, <1>3, <1>4

LEMMA WaitsWhere ==
  ASSUME setting \in Settings, PlacesTyped, NEW t \in Threads, Wait(t)
  PROVE  /\ ~Over(t)
         /\ t \in Cells => pc[t] \in {"in", "out"}
         /\ t = Feeder => pc[t] \in {"in", "pads"}
<1>1. Feeder \notin Cells /\ Main \notin Cells /\ Feeder # Main
  BY Names
<1>2. ~Over(t) /\ (~CanGoOn(t) \/ MayTakeTime(t))
  BY DEF Wait
<1>3. ASSUME t \in Cells
      PROVE  pc[t] \in {"in", "out"}
  <2>1. pc[t] \in CellPlaces /\ t # Feeder /\ t # Main
    BY <1>1, <1>3 DEF PlacesTyped
  <2>2. ~CanGoOn(t)
    BY <1>2, <2>1 DEF MayTakeTime
  <2> QED
    BY <1>3, <2>1, <2>2 DEF CellPlaces, CanGoOn
<1>4. ASSUME t = Feeder
      PROVE  pc[t] \in {"in", "pads"}
  <2>1. pc[t] \in FeederPlaces /\ t \notin Cells /\ t # Main
    BY <1>1, <1>4 DEF PlacesTyped
  <2>2. ~CanGoOn(t) \/ pc[t] = "in"
    BY <1>2, <2>1 DEF MayTakeTime
  <2> QED
    BY <2>1, <2>2 DEF FeederPlaces, CanGoOn
<1> QED
  BY <1>2, <1>3, <1>4

-----------------------------------------------------------------------------
(* What the operations do to the data.                                     *)

LEMMA SameSetting ==
  ASSUME setting' = setting
  PROVE  /\ Lanes' = Lanes /\ Cells' = Cells /\ Segments' = Segments
         /\ Threads' = Threads /\ InnerThreads' = InnerThreads
         /\ FrameNumbers' = FrameNumbers /\ ItemRecords' = ItemRecords
         /\ FeederRecords' = FeederRecords /\ MainRecords' = MainRecords
         /\ Counted' = Counted
         /\ \A l : PadEdge(l)' = PadEdge(l)
         /\ \A c : InEdge(c)' = InEdge(c)
BY DEF Lanes, Cells, Segments, Threads, InnerThreads, FrameNumbers, ItemRecords,
       FeederRecords, MainRecords, PadEdge, InEdge, Counted

LEMMA TakenPaired ==
  ASSUME NEW D, NEW e, Paired(e, D), Ready(e)
  PROVE  /\ Paired(Taken(e), D)
         /\ Delivered(e) \in EdgeStatus
         /\ SetsInput(e) <=> Delivered(e) = "SUCCESS"
         /\ SetsInput(e) => Head(e.data) \in D
<1>1. CASE e.no_more_input
  BY <1>1 DEF Taken, Delivered, SetsInput, EdgeStatus, StepStatus
<1>2. CASE ~e.no_more_input
  <2>1. e.status # << >>
    BY <1>2 DEF Ready
  <2>2. /\ Paired(Popped(e), D)
        /\ Head(e.status) = e.status[1] /\ Head(e.status) \in EdgeStatus
        /\ e.status[1] = "SUCCESS" => Head(e.data) \in D
    BY <2>1, PoppedPaired
  <2> QED
    BY <1>2, <2>2 DEF Taken, Delivered, SetsInput
<1> QED
  BY <1>1, <1>2

LEMMA AnnouncedPaired ==
  ASSUME NEW D, NEW e, Paired(e, D), NEW st \in EdgeStatus, NEW v,
         st = "SUCCESS" => v \in D
  PROVE  Paired(Stored(Flushed(e, st), st, v), D)
BY FlushedPaired, StoredPaired

(* One edge changes. *)
LEMMA EdgeChanges ==
  ASSUME DataTyped, NEW x \in Segments, NEW e, Paired(e, FrameNumbers),
         edge' = [edge EXCEPT ![x] = e]
  PROVE  /\ DOMAIN edge' = Segments
         /\ edge'[x] = e
         /\ \A s \in Segments : s # x => edge'[s] = edge[s]
         /\ \A s \in Segments : Paired(edge'[s], FrameNumbers)
BY DEF DataTyped

LEMMA DataStep ==
  ASSUME DataTyped, setting' = setting,
         edge' = edge \/ /\ DOMAIN edge' = Segments
                         /\ \A s \in Segments : Paired(edge'[s], FrameNumbers),
         item' = item \/ item' \in [Cells -> ItemRecords],
         feeder' = feeder \/ feeder' \in FeederRecords,
         main' = main \/ main' \in MainRecords,
         edge_status_queue' = edge_status_queue \/ edge_status_queue' \in Seq(EdgeStatus)
  PROVE  DataTyped'
<1>1. \A s \in Segments : Paired(edge'[s], FrameNumbers')
  BY SameSetting DEF DataTyped
<1>2. DOMAIN edge' = Segments /\ item' \in [Cells -> ItemRecords]
      /\ feeder' \in FeederRecords /\ main' \in MainRecords
      /\ edge_status_queue' \in Seq(EdgeStatus)
  BY DEF DataTyped
<1>3. \A s \in Segments : Paired(edge[s], FrameNumbers)'
  BY <1>1 DEF Paired
<1> QED
  BY <1>2, <1>3, SameSetting DEF DataTyped

(* One thread moves to a place of its own. *)
LEMMA PlaceStep ==
  ASSUME PlacesTyped, setting' = setting, setting \in Settings, NEW t \in Threads, NEW to,
         t \in Cells => to \in CellPlaces,
         t = Feeder => to \in FeederPlaces,
         t = Main => to \in MainPlaces,
         Goes(t, to), canceller' = canceller, interrupted' \subseteq Threads
  PROVE  PlacesTyped'
<1>1. /\ DOMAIN pc' = Threads /\ pc'[t] = to
      /\ \A u \in Threads : u # t => pc'[u] = pc[u]
      /\ waiting' = waiting \ {t}
  BY GoesTo DEF PlacesTyped
<1>2. /\ Feeder \in Threads /\ Main \in Threads /\ Cells \subseteq Threads
      /\ Threads = Cells \cup {Feeder, Main}
  BY Names DEF Threads
<1>p. pc' \in [Threads -> Place] /\ Place' = Place
  <2>1. to \in Place
    BY <1>2 DEF CellPlaces, FeederPlaces, MainPlaces, Place
  <2> QED
    BY <2>1 DEF PlacesTyped, Goes, Place
<1>3. \A c \in Cells : pc'[c] \in CellPlaces
  BY <1>1, <1>2 DEF PlacesTyped
<1>4. pc'[Feeder] \in FeederPlaces /\ pc'[Main] \in MainPlaces
  BY <1>1, <1>2 DEF PlacesTyped
<1>5. waiting' \subseteq Threads /\ canceller' \in {"idle", "joining", "inner", "done"}
  BY <1>1 DEF PlacesTyped
<1>6. /\ pc' \in [Threads' -> Place'] /\ \A c \in Cells' : pc'[c] \in CellPlaces
      /\ waiting' \subseteq Threads' /\ interrupted' \subseteq Threads'
  BY <1>3, <1>5, <1>p, SameSetting
<1>7. CellPlaces' = CellPlaces /\ FeederPlaces' = FeederPlaces /\ MainPlaces' = MainPlaces
      /\ Feeder' = Feeder /\ Main' = Main
  BY DEF CellPlaces, FeederPlaces, MainPlaces, Feeder, Main
<1> QED
  BY <1>4, <1>5, <1>6, <1>7 DEF PlacesTyped

(* An inner thread moves: nothing else changes for ThreadInvariant if it   *)
(* was not over.                                                           *)
LEMMA InnerThreadStep ==
  ASSUME SuperTyped, ThreadInvariant, setting' = setting, NEW t \in InnerThreads, NEW to,
         ~Over(t), Goes(t, to), canceller' = canceller,
         t \in Cells => to \in CellPlaces /\ feeder' = feeder,
         t = Feeder =>
           /\ to \in FeederPlaces
           /\ feeder'.is_running <=> to \in {"in", "pads", "queue", "fail", "leave"}
           /\ feeder'.failed <=> to \in {"leave", "ended"}
  PROVE  /\ ThreadInvariant'
         /\ pc'[t] = to /\ pc'[Main] = pc[Main]
         /\ \A u \in Threads : u # t => pc'[u] = pc[u]
<1>0. setting \in Settings /\ PlacesTyped /\ DOMAIN pc = Threads
  BY DEF SuperTyped, DataTyped, PlacesTyped
<1>1. /\ Feeder \notin Cells /\ Main \notin Cells /\ Feeder # Main
      /\ Feeder \in Threads /\ Main \in Threads /\ Cells \subseteq Threads
      /\ InnerThreads = Cells \cup {Feeder} /\ Main \notin InnerThreads
      /\ t \in Threads /\ t # Main
  BY <1>0, Names
<1>2. /\ DOMAIN pc' = Threads /\ pc'[t] = to
      /\ \A u \in Threads : u # t => pc'[u] = pc[u]
      /\ waiting' = waiting \ {t}
  BY <1>0, <1>1, GoesTo
<1>3. pc'[Main] = pc[Main]
  BY <1>1, <1>2
<1>4. Over(Main)' = Over(Main) /\ Main' = Main /\ Feeder' = Feeder
  BY <1>3 DEF Over, Main, Feeder
<1>5. pc[Main] \notin {"last", "returned"} /\ canceller # "done"
  BY <1>1 DEF ThreadInvariant
<1>6. \A c \in Cells : c \in waiting' => pc'[c] \in {"in", "out"}
  BY <1>1, <1>2 DEF ThreadInvariant
<1>7. Feeder \in waiting' => pc'[Feeder] \in {"in", "pads"}
  BY <1>1, <1>2 DEF ThreadInvariant
<1>8. Main \in waiting' => ~Over(Main)'
  BY <1>1, <1>2, <1>4 DEF ThreadInvariant
<1>9. canceller' \in {"inner", "done"} => Over(Main)'
  BY <1>4 DEF ThreadInvariant
<1>10. Cells' = Cells
  BY SameSetting
<1>f. /\ feeder'.is_running <=> pc'[Feeder] \in {"in", "pads", "queue", "fail", "leave"}
      /\ feeder'.failed <=> pc'[Feeder] \in {"leave", "ended"}
  BY <1>1, <1>2 DEF ThreadInvariant
<1>11. ThreadInvariant'
  BY <1>3, <1>4, <1>5, <1>6, <1>7, <1>8, <1>9, <1>10, <1>f DEF ThreadInvariant
<1> QED
  BY <1>2, <1>3, <1>11

(* Main moves, and is not over.                                            *)
LEMMA MainThreadStep ==
  ASSUME SuperTyped, ThreadInvariant, setting' = setting, NEW to, to \in MainPlaces,
         ~Over(Main), Goes(Main, to), UNCHANGED << feeder, canceller >>,
         to \in {"last", "returned"} => \A t \in InnerThreads : Over(t)
  PROVE  /\ ThreadInvariant'
         /\ pc'[Main] = to
         /\ \A u \in InnerThreads : pc'[u] = pc[u]
         /\ \A c \in Cells : pc'[c] = pc[c]
         /\ pc'[Feeder] = pc[Feeder]
<1>0. setting \in Settings /\ PlacesTyped /\ DOMAIN pc = Threads
  BY DEF SuperTyped, DataTyped, PlacesTyped
<1>1. /\ Feeder \notin Cells /\ Main \notin Cells /\ Feeder # Main
      /\ Feeder \in Threads /\ Main \in Threads /\ Cells \subseteq Threads
      /\ InnerThreads = Cells \cup {Feeder} /\ Main \notin InnerThreads
  BY <1>0, Names
<1>2. /\ DOMAIN pc' = Threads /\ pc'[Main] = to
      /\ \A u \in Threads : u # Main => pc'[u] = pc[u]
      /\ waiting' = waiting \ {Main}
  BY <1>0, <1>1, GoesTo
<1>3. \A u \in InnerThreads : pc'[u] = pc[u] /\ (Over(u)' <=> Over(u))
  <2>1. \A u \in InnerThreads : pc'[u] = pc[u]
    BY <1>1, <1>2
  <2> QED
    BY <2>1 DEF Over
<1>4. Main' = Main /\ Feeder' = Feeder /\ Cells' = Cells /\ InnerThreads' = InnerThreads
  BY SameSetting DEF Main, Feeder
<1>5. canceller \notin {"inner", "done"}
  BY DEF ThreadInvariant
<1>6. \A c \in Cells : c \in waiting' => pc'[c] \in {"in", "out"}
  BY <1>1, <1>2 DEF ThreadInvariant
<1>7. Feeder \in waiting' => pc'[Feeder] \in {"in", "pads"}
  BY <1>1, <1>2 DEF ThreadInvariant
<1>8. Main \notin waiting'
  BY <1>2
<1>9. pc'[Main] \in {"last", "returned"} => \A u \in InnerThreads : Over(u)'
  BY <1>2, <1>3
<1>f. /\ feeder'.is_running <=> pc'[Feeder] \in {"in", "pads", "queue", "fail", "leave"}
      /\ feeder'.failed <=> pc'[Feeder] \in {"leave", "ended"}
  BY <1>1, <1>3 DEF ThreadInvariant
<1>10. ThreadInvariant'
  BY <1>4, <1>5, <1>6, <1>7, <1>8, <1>9, <1>f DEF ThreadInvariant
<1> QED
  BY <1>1, <1>2, <1>3, <1>10

-----------------------------------------------------------------------------
(* The types and the threads, one step after the other.                    *)

LEMMA StepOutcome ==
  ASSUME setting \in Settings, NEW st \in EdgeStatus,
         NEW outcome \in IF st = "FLUSH" THEN {"FLUSH"}
                         ELSE MayReturn({st}, FALSE, setting.inner)
  PROVE  /\ outcome \in StepStatus
         /\ outcome = "SUCCESS" => st = "SUCCESS"
         /\ st = "FAILURE" => outcome = "FAILURE"
         /\ st # "FLUSH" /\ Counted => outcome \notin {"FLUSH", "NO_OUTPUT"}
<1>1. setting.inner \subseteq StepStatus
  BY SettingTypes
<1> QED
  BY <1>1 DEF MayReturn, EdgeStatus, StepStatus, Counted

(* What StepNode(c) does. *)
LEMMA StepNodeFacts ==
  ASSUME SuperTyped, NEW c \in Cells, StepNode(c)
  PROVE  /\ setting' = setting /\ pc[c] = "in" /\ ~Over(c)
         /\ Paired(edge[InEdge(c)], FrameNumbers) /\ Ready(edge[InEdge(c)])
         /\ edge' = [edge EXCEPT ![InEdge(c)] = Taken(edge[InEdge(c)])]
         /\ item'[c].status \in IF Delivered(edge[InEdge(c)]) = "FLUSH" THEN {"FLUSH"}
              ELSE MayReturn({Delivered(edge[InEdge(c)])}, FALSE, setting.inner)
         /\ item'[c].failed = (item'[c].status = "FAILURE"
                                 /\ Delivered(edge[InEdge(c)]) # "FAILURE")
         /\ SetsInput(edge[InEdge(c)]) =>
              item'[c].frame = Head(edge[InEdge(c)].data)
         /\ item' \in [Cells -> ItemRecords]
         /\ \A d \in Cells : d # c => item'[d] = item[d]
         /\ Goes(c, IF item'[c].status = "NO_OUTPUT" THEN "in" ELSE "out")
         /\ UNCHANGED << feeder, main, edge_status_queue, interrupted, canceller >>
<1>0. setting \in Settings /\ DataTyped /\ PlacesTyped /\ DOMAIN pc = Threads
  BY DEF SuperTyped, DataTyped, PlacesTyped
<1> DEFINE e == edge[InEdge(c)]
           st == Delivered(e)
<1>1. pc[c] = "in" /\ Ready(e) /\ ~Over(c)
  BY <1>0, GoesOn DEF StepNode, At, Over
<1>2. Paired(e, FrameNumbers)
  BY <1>0, LaneParts DEF DataTyped
<1>3. PICK outcome \in IF st = "FLUSH" THEN {"FLUSH"}
                       ELSE MayReturn({st}, FALSE, setting.inner) :
        /\ item' = [item EXCEPT ![c] =
             [status |-> outcome,
              frame  |-> IF SetsInput(e) THEN Head(e.data) ELSE item[c].frame,
              failed |-> outcome = "FAILURE" /\ st # "FAILURE"]]
        /\ Goes(c, IF outcome = "NO_OUTPUT" THEN "in" ELSE "out")
  BY DEF StepNode
<1>4. outcome \in StepStatus
  <2>1. st \in EdgeStatus
    BY <1>1, <1>2, TakenPaired
  <2> QED
    BY <1>0, <1>3, <2>1, StepOutcome
<1>5. item \in [Cells -> ItemRecords] /\ item[c] \in ItemRecords
  BY <1>0 DEF DataTyped
<1>6. SetsInput(e) => Head(e.data) \in 0 .. setting.frames
  <2>1. SetsInput(e) => Head(e.data) \in FrameNumbers
    BY <1>1, <1>2, TakenPaired
  <2>2. FrameNumbers \subseteq 0 .. setting.frames
    BY <1>0, SettingTypes DEF FrameNumbers
  <2> QED
    BY <2>1, <2>2
<1> DEFINE fr == IF SetsInput(e) THEN Head(e.data) ELSE item[c].frame
           fl == outcome = "FAILURE" /\ st # "FAILURE"
<1>7. fr \in 0 .. setting.frames /\ fl \in BOOLEAN
  BY <1>5, <1>6 DEF ItemRecords
<1> HIDE DEF fr, fl
<1>8. [status |-> outcome, frame |-> fr, failed |-> fl] \in ItemRecords
  BY <1>4, <1>7 DEF ItemRecords
<1>9. item' = [item EXCEPT ![c] = [status |-> outcome, frame |-> fr, failed |-> fl]]
  BY <1>3 DEF fr, fl
<1>10. /\ item'[c].status = outcome /\ item'[c].frame = fr /\ item'[c].failed = fl
       /\ item' \in [Cells -> ItemRecords]
       /\ \A d \in Cells : d # c => item'[d] = item[d]
  BY <1>5, <1>8, <1>9
<1>11. edge' = [edge EXCEPT ![InEdge(c)] = Taken(e)]
  BY DEF StepNode
<1>12. UNCHANGED << setting, feeder, main, edge_status_queue, interrupted, canceller >>
  BY DEF StepNode
<1> QED
  BY <1>1, <1>2, <1>3, <1>10, <1>11, <1>12 DEF fr, fl

LEMMA StepNodeTyped ==
  ASSUME SuperTyped, ThreadInvariant, NEW c \in Cells, StepNode(c)
  PROVE  SuperTyped' /\ ThreadInvariant'
<1> DEFINE e == edge[InEdge(c)]
           to == IF item'[c].status = "NO_OUTPUT" THEN "in" ELSE "out"
<1>0. setting \in Settings /\ DataTyped /\ PlacesTyped /\ DOMAIN pc = Threads
      /\ WorkInHand
  BY DEF SuperTyped, DataTyped, PlacesTyped
<1>1. /\ setting' = setting /\ pc[c] = "in" /\ ~Over(c)
      /\ Paired(e, FrameNumbers) /\ Ready(e)
      /\ edge' = [edge EXCEPT ![InEdge(c)] = Taken(e)]
      /\ item' \in [Cells -> ItemRecords]
      /\ \A d \in Cells : d # c => item'[d] = item[d]
      /\ Goes(c, to)
      /\ UNCHANGED << feeder, main, edge_status_queue, interrupted, canceller >>
  BY StepNodeFacts
<1>2. /\ Cells \subseteq Threads /\ c \in InnerThreads /\ c # Feeder /\ c # Main
      /\ c \in Threads /\ Feeder \in Threads /\ Main \in Threads
  BY <1>0, Names
<1>3. DataTyped'
  <2>1. InEdge(c) \in Segments
    BY <1>0, LaneParts
  <2>2. Paired(Taken(e), FrameNumbers)
    BY <1>1, TakenPaired
  <2>3. DOMAIN edge' = Segments /\ \A s \in Segments : Paired(edge'[s], FrameNumbers)
    BY <1>0, <1>1, <2>1, <2>2, EdgeChanges
  <2> QED
    BY <1>0, <1>1, <2>3, DataStep
<1>4. PlacesTyped'
  <2>1. to \in CellPlaces
    BY DEF CellPlaces
  <2> HIDE DEF to
  <2>2. interrupted' \subseteq Threads
    BY <1>0, <1>1 DEF PlacesTyped
  <2> QED
    BY <1>0, <1>1, <1>2, <2>1, <2>2, PlaceStep
<1>5. /\ ThreadInvariant' /\ pc'[c] = to /\ pc'[Main] = pc[Main]
      /\ \A u \in Threads : u # c => pc'[u] = pc[u]
  <2>1. to \in CellPlaces
    BY DEF CellPlaces
  <2> HIDE DEF to
  <2> QED
    BY <1>1, <1>2, <2>1, InnerThreadStep
<1>6. WorkInHand'
  <2>1. ASSUME pc'[c] = "out"
        PROVE  /\ item'[c].status # "NO_OUTPUT"
               /\ item'[c].status = "SUCCESS" => item'[c].frame # 0
    <3>1. item'[c].status # "NO_OUTPUT"
      BY <1>5, <2>1
    <3>2. ASSUME item'[c].status = "SUCCESS"
          PROVE  item'[c].frame # 0
      <4>1. /\ Delivered(e) \in EdgeStatus
            /\ SetsInput(e) <=> Delivered(e) = "SUCCESS"
            /\ SetsInput(e) => Head(e.data) \in FrameNumbers
        BY <1>1, TakenPaired
      <4>2. /\ item'[c].status \in IF Delivered(e) = "FLUSH" THEN {"FLUSH"}
                 ELSE MayReturn({Delivered(e)}, FALSE, setting.inner)
            /\ SetsInput(e) => item'[c].frame = Head(e.data)
        BY StepNodeFacts
      <4>3. Delivered(e) = "SUCCESS"
        BY <1>0, <3>2, <4>1, <4>2, StepOutcome
      <4> QED
        BY <1>0, <4>1, <4>2, <4>3, SettingTypes DEF FrameNumbers
    <3> QED
      BY <3>1, <3>2
  <2>2. \A d \in Cells : pc'[d] = "out" => /\ item'[d].status # "NO_OUTPUT"
                                           /\ item'[d].status = "SUCCESS" => item'[d].frame # 0
    BY <1>0, <1>1, <1>2, <1>5, <2>1 DEF WorkInHand
  <2>3. Cells' = Cells /\ pc'[Feeder] = pc[Feeder] /\ Feeder' = Feeder /\ Main' = Main
    BY <1>1, <1>2, <1>5, SameSetting DEF Feeder, Main
  <2> QED
    BY <1>0, <1>1, <1>5, <2>2, <2>3 DEF WorkInHand
<1> QED
  BY <1>3, <1>4, <1>5, <1>6 DEF SuperTyped

LEMMA AnnounceStepTyped ==
  ASSUME SuperTyped, ThreadInvariant, NEW c \in Cells, AnnounceStep(c)
  PROVE  SuperTyped' /\ ThreadInvariant'
<1> DEFINE to == IF item[c].status = "FAILURE" THEN "ended" ELSE "in"
           f  == Stored(Flushed(edge[c], item[c].status), item[c].status, item[c].frame)
<1>0. setting \in Settings /\ DataTyped /\ PlacesTyped /\ DOMAIN pc = Threads
      /\ WorkInHand
  BY DEF SuperTyped, DataTyped, PlacesTyped
<1>1. /\ setting' = setting /\ pc[c] = "out" /\ ~Over(c)
      /\ edge' = [edge EXCEPT ![c] = f]
      /\ Goes(c, to)
      /\ UNCHANGED << item, feeder, main, edge_status_queue, interrupted, canceller >>
  BY DEF AnnounceStep, At, Over
<1>2. /\ Cells \subseteq Threads /\ c \in InnerThreads /\ c # Feeder /\ c # Main
      /\ c \in Threads /\ Feeder \in Threads /\ Main \in Threads
  BY <1>0, Names
<1>3. DataTyped'
  <2>1. c \in Segments /\ Paired(edge[c], FrameNumbers)
    BY <1>0, LaneParts DEF DataTyped
  <2>2. /\ item[c].status \in EdgeStatus
        /\ item[c].status = "SUCCESS" => item[c].frame \in FrameNumbers
    <3>1. item[c].status \in StepStatus /\ item[c].frame \in 0 .. setting.frames
      BY <1>0 DEF DataTyped, ItemRecords
    <3>2. /\ item[c].status # "NO_OUTPUT"
          /\ item[c].status = "SUCCESS" => item[c].frame # 0
      BY <1>0, <1>1 DEF WorkInHand
    <3> QED
      BY <1>0, <3>1, <3>2, SettingTypes DEF EdgeStatus, FrameNumbers
  <2>3. Paired(f, FrameNumbers)
    BY <2>1, <2>2, AnnouncedPaired
  <2> HIDE DEF f
  <2>4. DOMAIN edge' = Segments /\ \A s \in Segments : Paired(edge'[s], FrameNumbers)
    BY <1>0, <1>1, <2>1, <2>3, EdgeChanges
  <2> QED
    BY <1>0, <1>1, <2>4, DataStep
<1>t. to \in CellPlaces /\ to # "out"
  BY DEF CellPlaces
<1> HIDE DEF to
<1>4. PlacesTyped'
  <2>2. interrupted' \subseteq Threads
    BY <1>0, <1>1 DEF PlacesTyped
  <2> QED
    BY <1>0, <1>1, <1>2, <1>t, <2>2, PlaceStep
<1>5. /\ ThreadInvariant' /\ pc'[c] = to /\ pc'[Main] = pc[Main]
      /\ \A u \in Threads : u # c => pc'[u] = pc[u]
  BY <1>1, <1>2, <1>t, InnerThreadStep
<1>6. WorkInHand'
  <2>2. \A d \in Cells : pc'[d] = "out" => /\ item'[d].status # "NO_OUTPUT"
                                           /\ item'[d].status = "SUCCESS" => item'[d].frame # 0
    BY <1>0, <1>1, <1>2, <1>5, <1>t DEF WorkInHand
  <2>3. Cells' = Cells /\ pc'[Feeder] = pc[Feeder] /\ Feeder' = Feeder /\ Main' = Main
    BY <1>1, <1>2, <1>5, SameSetting DEF Feeder, Main
  <2> QED
    BY <1>0, <1>1, <1>5, <2>2, <2>3 DEF WorkInHand
<1> QED
  BY <1>3, <1>4, <1>5, <1>6 DEF SuperTyped

(* The feeder goes on. *)
LEMMA FeederTyped ==
  ASSUME SuperTyped, ThreadInvariant, setting' = setting, NEW to, to \in FeederPlaces,
         ~Over(Feeder), Goes(Feeder, to),
         UNCHANGED << item, main, interrupted, canceller >>,
         edge' = edge \/ /\ DOMAIN edge' = Segments
                         /\ \A s \in Segments : Paired(edge'[s], FrameNumbers),
         feeder' \in FeederRecords,
         edge_status_queue' \in Seq(EdgeStatus),
         to \in {"pads", "queue"} /\ feeder'.status # "FAILURE" => feeder'.arrived # 0,
         feeder'.is_running <=> to \in {"in", "pads", "queue", "fail", "leave"},
         feeder'.failed <=> to \in {"leave", "ended"}
  PROVE  /\ SuperTyped' /\ ThreadInvariant'
         /\ pc'[Feeder] = to /\ pc'[Main] = pc[Main]
         /\ \A c \in Cells : pc'[c] = pc[c]
<1>0. setting \in Settings /\ DataTyped /\ PlacesTyped /\ DOMAIN pc = Threads
      /\ WorkInHand
  BY DEF SuperTyped, DataTyped, PlacesTyped
<1>1. /\ Cells \subseteq Threads /\ Feeder \in InnerThreads /\ Feeder \notin Cells
      /\ Feeder # Main /\ Feeder \in Threads /\ Main \in Threads
  BY <1>0, Names
<1>2. DataTyped'
  BY <1>0, DataStep
<1>3. PlacesTyped'
  <2>1. interrupted' \subseteq Threads
    BY <1>0 DEF PlacesTyped
  <2> QED
    BY <1>0, <1>1, <2>1, PlaceStep
<1>4. /\ ThreadInvariant' /\ pc'[Feeder] = to /\ pc'[Main] = pc[Main]
      /\ \A u \in Threads : u # Feeder => pc'[u] = pc[u]
  BY <1>1, InnerThreadStep
<1>5. WorkInHand'
  <2>1. /\ Cells' = Cells /\ \A c \in Cells : pc'[c] = pc[c]
        /\ Feeder' = Feeder /\ Main' = Main
    BY <1>1, <1>4, SameSetting DEF Feeder, Main
  <2> QED
    BY <1>0, <1>4, <2>1 DEF WorkInHand
<1> QED
  BY <1>1, <1>2, <1>3, <1>4, <1>5 DEF SuperTyped

(* Main goes on. *)
LEMMA MainTyped ==
  ASSUME SuperTyped, ThreadInvariant, setting' = setting, NEW to, to \in MainPlaces,
         ~Over(Main), Goes(Main, to),
         UNCHANGED << feeder, canceller >>,
         item' \in [Cells -> ItemRecords],
         \A c \in Cells : pc[c] = "out" => item'[c] = item[c],
         edge' = edge \/ /\ DOMAIN edge' = Segments
                         /\ \A s \in Segments : Paired(edge'[s], FrameNumbers),
         main' \in MainRecords,
         edge_status_queue' \in Seq(EdgeStatus),
         interrupted' \subseteq Threads,
         to \in {"last", "returned"} => \A t \in InnerThreads : Over(t),
         to = "out" => main'.status # "FAILURE",
         to = "flush" => main'.status = "FLUSH" /\ main'.rest # {},
         main'.sent <= main'.round \/ (to = "returned" /\ main'.sent <= main'.round + 1)
  PROVE  /\ SuperTyped' /\ ThreadInvariant'
         /\ pc'[Main] = to /\ pc'[Feeder] = pc[Feeder]
         /\ \A c \in Cells : pc'[c] = pc[c]
<1>0. setting \in Settings /\ DataTyped /\ PlacesTyped /\ DOMAIN pc = Threads
      /\ WorkInHand
  BY DEF SuperTyped, DataTyped, PlacesTyped
<1>1. /\ Main \notin Cells /\ Feeder # Main /\ Main \in Threads
  BY <1>0, Names
<1>2. DataTyped'
  BY <1>0, DataStep
<1>3. PlacesTyped'
  BY <1>0, <1>1, PlaceStep
<1>4. /\ ThreadInvariant' /\ pc'[Main] = to
      /\ \A c \in Cells : pc'[c] = pc[c]
      /\ pc'[Feeder] = pc[Feeder]
  BY MainThreadStep
<1>5. WorkInHand'
  <2>1. Cells' = Cells /\ Feeder' = Feeder /\ Main' = Main
    BY SameSetting DEF Feeder, Main
  <2>2. \A c \in Cells : pc'[c] = "out" => /\ item'[c].status # "NO_OUTPUT"
                                           /\ item'[c].status = "SUCCESS" => item'[c].frame # 0
    BY <1>0, <1>4 DEF WorkInHand
  <2> QED
    BY <1>0, <1>4, <2>1, <2>2 DEF WorkInHand
<1> QED
  BY <1>2, <1>3, <1>4, <1>5 DEF SuperTyped

LEMMA FeederStepTyped ==
  ASSUME SuperTyped, ThreadInvariant, FeederStep
  PROVE  SuperTyped' /\ ThreadInvariant'
<1>0. /\ setting \in Settings /\ DataTyped /\ PlacesTyped /\ WorkInHand
      /\ feeder \in FeederRecords /\ edge_status_queue \in Seq(EdgeStatus)
  BY DEF SuperTyped, DataTyped
<1>1. /\ feeder.status \in EdgeStatus /\ feeder.arrived \in 0 .. setting.frames
      /\ feeder.lane \in Lanes /\ feeder.is_running \in BOOLEAN /\ feeder.failed \in BOOLEAN
  BY <1>0 DEF FeederRecords
<1>2. CASE FeederBegins
  <2>1. /\ UNCHANGED << setting, edge, item, main, edge_status_queue, interrupted, canceller >>
        /\ feeder' = [feeder EXCEPT !.is_running = TRUE, !.failed = FALSE]
        /\ Goes(Feeder, "in") /\ ~Over(Feeder)
    BY <1>2 DEF FeederBegins, Over
  <2>2. /\ feeder' \in FeederRecords /\ "in" \in FeederPlaces
        /\ feeder'.is_running /\ ~feeder'.failed
    BY <1>0, <2>1 DEF FeederRecords, FeederPlaces
  <2> QED
    BY <1>0, <2>1, <2>2, FeederTyped
<1>3. CASE TakeFrame
  <2> DEFINE to == IF feeder'.status = "SUCCESS" \/ setting.forwarding THEN "pads" ELSE "queue"
  <2>1. PICK st \in IF feeder.arrived < setting.frames THEN setting.source ELSE {"FAILURE"} :
          /\ feeder' = [feeder EXCEPT !.status = st, !.lane = 1,
               !.arrived = IF st = "FAILURE" THEN @ ELSE @ + 1]
          /\ Goes(Feeder, IF st = "SUCCESS" \/ setting.forwarding THEN "pads" ELSE "queue")
    BY <1>3 DEF TakeFrame
  <2>2. st \in EdgeStatus /\ (st # "FAILURE" => feeder.arrived < setting.frames)
    BY <1>0, <2>1, SettingTypes DEF EdgeStatus, StepStatus
  <2> DEFINE n == IF st = "FAILURE" THEN feeder.arrived ELSE feeder.arrived + 1
  <2>3. n \in 0 .. setting.frames /\ (st # "FAILURE" => n # 0)
    BY <1>0, <1>1, <2>2, SettingTypes
  <2>4. feeder' = [feeder EXCEPT !.status = st, !.lane = 1, !.arrived = n]
    BY <2>1
  <2> HIDE DEF n
  <2>5. /\ feeder' \in FeederRecords /\ feeder'.status = st /\ feeder'.arrived = n
        /\ feeder'.is_running = feeder.is_running /\ feeder'.failed = feeder.failed
    BY <1>0, <2>2, <2>3, <2>4, LaneParts DEF FeederRecords
  <2>6. /\ UNCHANGED << setting, edge, item, main, edge_status_queue, interrupted, canceller >>
        /\ Goes(Feeder, to) /\ to \in FeederPlaces /\ ~Over(Feeder)
        /\ pc[Feeder] = "in"
    BY <1>3, <2>1, <2>5 DEF TakeFrame, At, Over, FeederPlaces
  <2>7. to \in {"pads", "queue"} /\ feeder.is_running /\ ~feeder.failed
    BY <2>6 DEF ThreadInvariant
  <2> HIDE DEF to
  <2> QED
    BY <1>0, <2>3, <2>5, <2>6, <2>7, FeederTyped
<1>4. CASE FeedPad
  <2> DEFINE to == IF feeder.lane < setting.lanes THEN "pads"
                   ELSE IF setting.forwarding THEN FeederHead(feeder.status) ELSE "queue"
             s == << feeder.lane, 0 >>
             f == Stored(Flushed(edge[s], feeder.status), feeder.status, feeder.arrived)
  <2>1. /\ UNCHANGED << setting, item, main, edge_status_queue, interrupted, canceller >>
        /\ pc[Feeder] = "pads" /\ ~Over(Feeder)
        /\ edge' = [edge EXCEPT ![s] = f]
        /\ \/ feeder' = feeder
           \/ /\ feeder.lane < setting.lanes
              /\ feeder' = [feeder EXCEPT !.lane = @ + 1]
        /\ Goes(Feeder, to)
    BY <1>4 DEF FeedPad, At, Over
  <2>2. to \in FeederPlaces /\ to \in {"pads", "queue", "fail", "in"}
        /\ feeder.is_running /\ ~feeder.failed
    BY <2>1 DEF FeederPlaces, FeederHead, ThreadInvariant
  <2> HIDE DEF to
  <2>3. feeder' \in FeederRecords /\ feeder'.status = feeder.status
        /\ feeder'.arrived = feeder.arrived
        /\ feeder'.is_running = feeder.is_running /\ feeder'.failed = feeder.failed
    <3>1. CASE feeder' = feeder
      BY <1>0, <3>1
    <3>2. CASE feeder.lane < setting.lanes /\ feeder' = [feeder EXCEPT !.lane = @ + 1]
      <4>1. feeder.lane + 1 \in Lanes
        BY <1>0, <1>1, <3>2, LaneParts
      <4> QED
        BY <1>0, <3>2, <4>1 DEF FeederRecords
    <3> QED
      BY <2>1, <3>1, <3>2
  <2>4. feeder.status # "FAILURE" => feeder.arrived # 0
    BY <1>0, <2>1 DEF WorkInHand
  <2>5. s \in Segments /\ Paired(edge[s], FrameNumbers)
    BY <1>0, <1>1, LaneParts DEF DataTyped
  <2>6. Paired(f, FrameNumbers)
    <3>1. feeder.status = "SUCCESS" => feeder.arrived \in FrameNumbers
      BY <1>0, <1>1, <2>4, SettingTypes DEF FrameNumbers
    <3> QED
      BY <1>1, <2>5, <3>1, AnnouncedPaired
  <2> HIDE DEF f, s
  <2>7. DOMAIN edge' = Segments /\ \A x \in Segments : Paired(edge'[x], FrameNumbers)
    BY <1>0, <2>1, <2>5, <2>6, EdgeChanges
  <2> QED
    BY <1>0, <2>1, <2>2, <2>3, <2>4, <2>7, FeederTyped
<1>5. CASE QueueStatus
  <2>1. /\ UNCHANGED << setting, edge, item, feeder, main, interrupted, canceller >>
        /\ ~Over(Feeder) /\ pc[Feeder] = "queue"
        /\ edge_status_queue' = Append(edge_status_queue, feeder.status)
        /\ Goes(Feeder, FeederHead(feeder.status))
    BY <1>5 DEF QueueStatus, At, Over
  <2>2. FeederHead(feeder.status) \in {"fail", "in"}
        /\ FeederHead(feeder.status) \in FeederPlaces
        /\ feeder.is_running /\ ~feeder.failed
    BY <2>1 DEF FeederPlaces, FeederHead, ThreadInvariant
  <2>3. edge_status_queue' \in Seq(EdgeStatus)
    BY <1>0, <1>1, <2>1, AppendProperties
  <2> QED
    BY <1>0, <2>1, <2>2, <2>3, FeederTyped
<1>6. CASE FeederFails
  <2>1. /\ UNCHANGED << setting, edge, item, main, edge_status_queue, interrupted, canceller >>
        /\ feeder' = [feeder EXCEPT !.failed = TRUE]
        /\ Goes(Feeder, "leave") /\ ~Over(Feeder) /\ feeder.is_running
    BY <1>6 DEF FeederFails, Over, ThreadInvariant
  <2>2. /\ feeder' \in FeederRecords /\ "leave" \in FeederPlaces
        /\ feeder'.is_running /\ feeder'.failed
    BY <1>0, <2>1 DEF FeederRecords, FeederPlaces
  <2> QED
    BY <1>0, <2>1, <2>2, FeederTyped
<1>7. CASE FeederLeaves
  <2>1. /\ UNCHANGED << setting, edge, item, main, edge_status_queue, interrupted, canceller >>
        /\ feeder' = [feeder EXCEPT !.is_running = FALSE]
        /\ Goes(Feeder, "ended") /\ ~Over(Feeder) /\ feeder.failed
    BY <1>7 DEF FeederLeaves, Over, ThreadInvariant
  <2>2. /\ feeder' \in FeederRecords /\ "ended" \in FeederPlaces
        /\ ~feeder'.is_running /\ feeder'.failed
    BY <1>0, <2>1 DEF FeederRecords, FeederPlaces
  <2> QED
    BY <1>0, <2>1, <2>2, FeederTyped
<1> QED
  BY <1>2, <1>3, <1>4, <1>5, <1>6, <1>7 DEF FeederStep

LEMMA MainParts ==
  ASSUME setting \in Settings, NEW m \in MainRecords
  PROVE  /\ m.status \in EdgeStatus /\ m.round \in Nat /\ m.lane \in Lanes
         /\ m.found \in SUBSET EdgeStatus /\ m.rest \in SUBSET Lanes
         /\ m.pad \in [Lanes -> 0 .. setting.frames] /\ m.sent \in Nat
         /\ m.recovered \in 0 .. setting.recoveries /\ m.stopped \in BOOLEAN
         /\ \A st \in EdgeStatus : [m EXCEPT !.status = st] \in MainRecords
BY DEF MainRecords

(* The next round begins, unless the super process has failed. *)
LEMMA NewRoundParts ==
  ASSUME setting \in Settings, NEW m \in MainRecords
  PROVE  /\ NewRound(m) \in MainRecords
         /\ NewRound(m).sent = m.sent /\ NewRound(m).status = m.status
         /\ NewRound(m).round = IF m.status = "FAILURE" THEN m.round ELSE m.round + 1
         /\ NewRound(m).pad = m.pad
         /\ m.status # "FAILURE" => NewRound(m).lane = 1 /\ NewRound(m).found = {}
         /\ LoopHead(m) \in {"interrupt", "pads", "status"}
         /\ m.status # "FAILURE" =>
              LoopHead(m) = IF setting.forwarding THEN "pads" ELSE "status"
         /\ m.status = "FAILURE" => LoopHead(m) = "interrupt"
<1>1. 1 \in Lanes /\ m.round + 1 \in Nat /\ {} \in SUBSET EdgeStatus
  BY LaneParts, MainParts
<1> QED
  BY <1>1 DEF NewRound, MainRecords, LoopHead

LEMMA EmptyNextParts ==
  ASSUME setting \in Settings, NEW m \in MainRecords, NEW lanes \in SUBSET Lanes
  PROVE  /\ EmptyNext(m, lanes) \in MainRecords
         /\ EmptyNext(m, lanes).rest = lanes
         /\ EmptyNext(m, lanes).status = m.status
         /\ EmptyNext(m, lanes).round = m.round
         /\ EmptyNext(m, lanes).sent = m.sent
<1> DEFINE next == IF lanes = {} THEN m.lane
                   ELSE CHOOSE l \in lanes : \A k \in lanes : l <= k
<1>1. next \in Lanes
  <2>1. CASE lanes = {}
    BY <2>1, MainParts
  <2>2. CASE lanes # {}
    <3>1. lanes \subseteq Nat
      BY LaneParts
    <3>2. \E l \in lanes : \A k \in lanes : << k, l >> \notin OpToRel(<, Nat)
      BY <2>2, <3>1, WFMin, NatLessThanWellFounded
    <3>3. \A x, y \in Nat : y < x => << y, x >> \in OpToRel(<, Nat)
      BY DEF OpToRel
    <3>4. \E l \in lanes : \A k \in lanes : l <= k
      <4>1. PICK l \in lanes : \A k \in lanes : << k, l >> \notin OpToRel(<, Nat)
        BY <3>2
      <4>2. \A k \in lanes : k \in Nat /\ l \in Nat /\ ~(k < l)
        BY <3>1, <3>3, <4>1
      <4>3. \A k \in lanes : l <= k
        BY <4>2
      <4> QED
        BY <4>3
    <3>5. (CHOOSE l \in lanes : \A k \in lanes : l <= k) \in lanes
      BY <3>4
    <3> QED
      BY <2>2, <3>5
  <2> QED
    BY <2>1, <2>2
<1>2. EmptyNext(m, lanes) = [m EXCEPT !.rest = lanes, !.lane = next]
  BY DEF EmptyNext
<1> HIDE DEF next
<1> QED
  BY <1>1, <1>2 DEF MainRecords

(* What reading a pad gives to Main. *)
LEMMA PadParts ==
  ASSUME SuperTyped, Ready(edge[PadEdge(main.lane)])
  PROVE  LET e     == edge[PadEdge(main.lane)]
             found == main.found \cup {Delivered(e)}
             m     == [main EXCEPT !.found = found,
                         !.pad[main.lane] = IF SetsInput(e) THEN Head(e.data) ELSE 0]
         IN  /\ Paired(e, FrameNumbers)
             /\ Delivered(e) \in EdgeStatus
             /\ SetsInput(e) <=> Delivered(e) = "SUCCESS"
             /\ SetsInput(e) => Head(e.data) \in FrameNumbers
             /\ m \in MainRecords
             /\ m.found = found /\ m.lane = main.lane /\ m.status = main.status
             /\ m.round = main.round /\ m.sent = main.sent
             /\ m.recovered = main.recovered
             /\ m.pad[main.lane] = IF SetsInput(e) THEN Head(e.data) ELSE 0
             /\ \A l \in Lanes : l # main.lane => m.pad[l] = main.pad[l]
             /\ \A edg : edg = [edge EXCEPT ![PadEdge(main.lane)] = Taken(e)] =>
                  /\ DOMAIN edg = Segments
                  /\ \A s \in Segments : Paired(edg[s], FrameNumbers)
                  /\ edg[PadEdge(main.lane)] = Taken(e)
                  /\ \A s \in Segments : s # PadEdge(main.lane) => edg[s] = edge[s]
<1> DEFINE e     == edge[PadEdge(main.lane)]
           found == main.found \cup {Delivered(e)}
           v     == IF SetsInput(e) THEN Head(e.data) ELSE 0
           m     == [main EXCEPT !.found = found, !.pad[main.lane] = v]
<1>0. /\ setting \in Settings /\ main \in MainRecords /\ DataTyped
      /\ main.lane \in Lanes /\ main.found \in SUBSET EdgeStatus
      /\ main.pad \in [Lanes -> 0 .. setting.frames]
  BY MainParts DEF SuperTyped, DataTyped
<1>1. PadEdge(main.lane) \in Segments /\ Paired(e, FrameNumbers)
  BY <1>0, LaneParts DEF DataTyped
<1>2. /\ Delivered(e) \in EdgeStatus
      /\ SetsInput(e) <=> Delivered(e) = "SUCCESS"
      /\ SetsInput(e) => Head(e.data) \in FrameNumbers
      /\ Paired(Taken(e), FrameNumbers)
  BY <1>1, TakenPaired
<1>3. v \in 0 .. setting.frames /\ found \in SUBSET EdgeStatus
  <2>1. FrameNumbers \subseteq 0 .. setting.frames /\ 0 \in 0 .. setting.frames
    BY <1>0, SettingTypes DEF FrameNumbers
  <2> QED
    BY <1>0, <1>2, <2>1
<1> DEFINE p == [main.pad EXCEPT ![main.lane] = v]
<1>4. p \in [Lanes -> 0 .. setting.frames] /\ p[main.lane] = v
      /\ \A l \in Lanes : l # main.lane => p[l] = main.pad[l]
  BY <1>0, <1>3
<1>5. m = [main EXCEPT !.found = found, !.pad = p]
  OBVIOUS
<1> HIDE DEF p, v, found
<1>6. /\ m \in MainRecords /\ m.found = found /\ m.pad = p /\ m.lane = main.lane
      /\ m.status = main.status /\ m.round = main.round /\ m.sent = main.sent
      /\ m.recovered = main.recovered
  BY <1>0, <1>3, <1>4, <1>5 DEF MainRecords
<1>7. ASSUME NEW edg, edg = [edge EXCEPT ![PadEdge(main.lane)] = Taken(e)]
      PROVE  /\ DOMAIN edg = Segments
             /\ \A s \in Segments : Paired(edg[s], FrameNumbers)
             /\ edg[PadEdge(main.lane)] = Taken(e)
             /\ \A s \in Segments : s # PadEdge(main.lane) => edg[s] = edge[s]
  BY <1>0, <1>1, <1>2, <1>7 DEF DataTyped
<1> QED
  BY <1>1, <1>2, <1>4, <1>6, <1>7 DEF v, found

LEMMA StatusOfPadsParts ==
  ASSUME NEW found \in SUBSET EdgeStatus
  PROVE  StatusOfPads(found) \in {"FAILURE", "SKIP", "SUCCESS"}
BY DEF StatusOfPads

LEMMA StartTyped ==
  ASSUME SuperTyped, ThreadInvariant, StartNodes
  PROVE  SuperTyped' /\ ThreadInvariant'
<1> DEFINE starts == {c \in Cells : \/ pc[c] = "none"
                                    \/ pc[c] = "ended" /\ item[c].status = "SUCCESS"}
<1>0. /\ setting \in Settings /\ DataTyped /\ PlacesTyped /\ DOMAIN pc = Threads
      /\ WorkInHand
  BY DEF SuperTyped, DataTyped, PlacesTyped
<1>1. /\ pc[Main] = "start"
      /\ pc' = [t \in Threads |-> IF t \in starts THEN "in"
                                  ELSE IF t = Main THEN "feed" ELSE pc[t]]
      /\ interrupted' = interrupted \ starts
      /\ UNCHANGED << setting, edge, item, feeder, main, edge_status_queue, waiting, canceller >>
  BY DEF StartNodes
<1>2. /\ Feeder \notin Cells /\ Main \notin Cells /\ Feeder # Main
      /\ Feeder \in Threads /\ Main \in Threads /\ Cells \subseteq Threads
  BY <1>0, Names
<1>3. /\ DOMAIN pc' = Threads /\ pc'[Main] = "feed" /\ pc'[Feeder] = pc[Feeder]
      /\ \A c \in Cells : pc'[c] = pc[c] \/ (pc'[c] = "in" /\ pc[c] \in {"none", "ended"})
  BY <1>1, <1>2
<1>4. Cells' = Cells /\ Threads' = Threads /\ Feeder' = Feeder /\ Main' = Main
  BY <1>1, SameSetting DEF Feeder, Main
<1>5. DataTyped'
  BY <1>0, <1>1, DataStep
<1>6. PlacesTyped'
  <2>1. \A c \in Cells : pc'[c] \in CellPlaces
    BY <1>0, <1>3 DEF PlacesTyped, CellPlaces
  <2>2. pc'[Feeder] \in FeederPlaces /\ pc'[Main] \in MainPlaces
    BY <1>0, <1>3 DEF PlacesTyped, MainPlaces
  <2>3. waiting' \subseteq Threads /\ interrupted' \subseteq Threads
        /\ canceller' \in {"idle", "joining", "inner", "done"}
    BY <1>0, <1>1 DEF PlacesTyped
  <2>4. pc' \in [Threads -> Place]
    BY <1>0, <1>1 DEF PlacesTyped, Place
  <2> QED
    BY <1>3, <1>4, <2>1, <2>2, <2>3, <2>4
       DEF PlacesTyped, CellPlaces, FeederPlaces, MainPlaces, Place
<1>7. WorkInHand'
  BY <1>0, <1>1, <1>3, <1>4 DEF WorkInHand
<1>8. ThreadInvariant'
  <2>1. /\ Over(Main)' <=> FALSE
        /\ ~Over(Main)
    BY <1>1, <1>3, <1>4 DEF Over
  <2>2. canceller \notin {"inner", "done"}
    BY <2>1 DEF ThreadInvariant
  <2>3. \A c \in Cells : c \in waiting' => pc'[c] \in {"in", "out"}
    BY <1>1, <1>3 DEF ThreadInvariant
  <2>4. Feeder \in waiting' => pc'[Feeder] \in {"in", "pads"}
    BY <1>1, <1>3 DEF ThreadInvariant
  <2>5. /\ feeder'.is_running <=> pc'[Feeder] \in {"in", "pads", "queue", "fail", "leave"}
        /\ feeder'.failed <=> pc'[Feeder] \in {"leave", "ended"}
    BY <1>1, <1>3 DEF ThreadInvariant
  <2> QED
    BY <1>1, <1>3, <1>4, <2>1, <2>2, <2>3, <2>4, <2>5 DEF ThreadInvariant
<1> QED
  BY <1>5, <1>6, <1>7, <1>8 DEF SuperTyped

LEMMA StartFeederTyped ==
  ASSUME SuperTyped, ThreadInvariant, StartFeeder
  PROVE  SuperTyped' /\ ThreadInvariant'
<1>0. /\ setting \in Settings /\ DataTyped /\ PlacesTyped /\ DOMAIN pc = Threads
      /\ WorkInHand /\ main \in MainRecords /\ edge_status_queue \in Seq(EdgeStatus)
      /\ item \in [Cells -> ItemRecords] /\ interrupted \subseteq Threads
  BY DEF SuperTyped, DataTyped, PlacesTyped
<1>1. /\ pc[Main] = "feed" /\ ~Over(Main) /\ main' = NewRound(main)
      /\ UNCHANGED << setting, edge, item, feeder, edge_status_queue, canceller >>
  BY DEF StartFeeder, At, Over
<1>2. /\ main' \in MainRecords /\ main'.sent = main.sent /\ main'.status = main.status
      /\ main'.round = IF main.status = "FAILURE" THEN main.round ELSE main.round + 1
      /\ LoopHead(main) \in {"interrupt", "pads", "status"}
  BY <1>0, <1>1, NewRoundParts
<1>3. main'.sent <= main'.round
  <2>1. main.sent <= main.round /\ main.sent \in Nat /\ main.round \in Nat
    BY <1>0, <1>1, MainParts DEF WorkInHand
  <2> QED
    BY <1>2, <2>1
<1>4. LoopHead(main) \in MainPlaces
  BY <1>2 DEF MainPlaces
<1>5. CASE Goes(Main, LoopHead(main)) /\ UNCHANGED interrupted
  <2>1. \A c \in Cells : item'[c] = item[c]
    BY <1>1
  <2> QED
    BY <1>0, <1>1, <1>2, <1>3, <1>4, <1>5, <2>1, MainTyped
<1>6. CASE /\ pc' = [pc EXCEPT ![Feeder] = "begin", ![Main] = LoopHead(main)]
           /\ waiting' = waiting \ {Main}
           /\ interrupted' = interrupted \ {Feeder}
           /\ ~(feeder.is_running \/ feeder.failed)
  <2>1. /\ Feeder \notin Cells /\ Main \notin Cells /\ Feeder # Main
        /\ Feeder \in Threads /\ Main \in Threads /\ Cells \subseteq Threads
    BY <1>0, Names
  <2>2. /\ DOMAIN pc' = Threads /\ pc'[Main] = LoopHead(main) /\ pc'[Feeder] = "begin"
        /\ \A c \in Cells : pc'[c] = pc[c]
    BY <1>0, <1>6, <2>1
  <2>3. Cells' = Cells /\ Threads' = Threads /\ Feeder' = Feeder /\ Main' = Main
    BY <1>1, SameSetting DEF Feeder, Main
  <2>4. DataTyped'
    BY <1>0, <1>1, <1>2, DataStep
  <2>5. PlacesTyped'
    <3>1. \A c \in Cells : pc'[c] \in CellPlaces
      BY <1>0, <2>2 DEF PlacesTyped
    <3>2. pc'[Feeder] \in FeederPlaces /\ pc'[Main] \in MainPlaces
      BY <1>4, <2>2 DEF FeederPlaces
    <3>3. waiting' \subseteq Threads /\ interrupted' \subseteq Threads
          /\ canceller' \in {"idle", "joining", "inner", "done"}
      BY <1>0, <1>1, <1>6 DEF PlacesTyped
    <3>4. pc' \in [Threads -> Place]
      BY <1>0, <1>2, <1>6 DEF PlacesTyped, Place
    <3> QED
      BY <2>2, <2>3, <3>1, <3>2, <3>3, <3>4
         DEF PlacesTyped, CellPlaces, FeederPlaces, MainPlaces, Place
  <2>6. WorkInHand'
    BY <1>0, <1>1, <1>2, <1>3, <2>2, <2>3 DEF WorkInHand
  <2>7. ThreadInvariant'
    <3>1. /\ Over(Main)' <=> FALSE
          /\ ~Over(Main) /\ pc'[Main] \notin {"last", "returned"}
      BY <1>1, <1>2, <2>2, <2>3 DEF Over
    <3>2. canceller \notin {"inner", "done"}
      BY <3>1 DEF ThreadInvariant
    <3>3. \A c \in Cells : c \in waiting' => pc'[c] \in {"in", "out"}
      BY <1>6, <2>2 DEF ThreadInvariant
    <3>4. Feeder \notin waiting'
      BY <1>6 DEF ThreadInvariant
    <3>5. ~feeder'.is_running /\ ~feeder'.failed
      BY <1>1, <1>6
    <3> QED
      BY <1>1, <2>2, <2>3, <3>1, <3>2, <3>3, <3>4, <3>5 DEF ThreadInvariant
  <2> QED
    BY <2>4, <2>5, <2>6, <2>7 DEF SuperTyped
<1> QED
  BY <1>5, <1>6 DEF StartFeeder

(* Main in its loop. *)
LEMMA MainStepTyped ==
  ASSUME SuperTyped, ThreadInvariant, MainStep
  PROVE  SuperTyped' /\ ThreadInvariant'
<1>0. /\ setting \in Settings /\ DataTyped /\ PlacesTyped /\ WorkInHand
      /\ main \in MainRecords /\ edge_status_queue \in Seq(EdgeStatus)
      /\ item \in [Cells -> ItemRecords] /\ interrupted \subseteq Threads
      /\ DOMAIN edge = Segments
  BY DEF SuperTyped, DataTyped, PlacesTyped
<1>1. /\ main.status \in EdgeStatus /\ main.round \in Nat /\ main.sent \in Nat
      /\ main.lane \in Lanes /\ main.found \in SUBSET EdgeStatus /\ main.rest \in SUBSET Lanes
      /\ pc[Main] # "returned" => main.sent <= main.round
  BY <1>0, MainParts DEF WorkInHand
<1>2. CASE StartNodes
  BY <1>2, StartTyped
<1>3. CASE StartFeeder
  BY <1>3, StartFeederTyped
<1>4. CASE TakeStatus
  <2> DEFINE st == Head(edge_status_queue)
             to == IF st = "SUCCESS" THEN "pads"
                   ELSE IF st = "FAILURE" THEN "interrupt" ELSE "out"
             s2 == IF st = "SUCCESS" THEN main.status ELSE st
  <2>1. /\ UNCHANGED << setting, edge, item, feeder, interrupted, canceller >>
        /\ main' = [main EXCEPT !.status = s2]
        /\ Goes(Main, to)
        /\ edge_status_queue' = Tail(edge_status_queue)
        /\ edge_status_queue # << >>
        /\ pc[Main] = "status" /\ ~Over(Main)
    BY <1>0, <1>4, GoesOn DEF TakeStatus, At, Over
  <2>2. st \in EdgeStatus /\ edge_status_queue' \in Seq(EdgeStatus)
    BY <1>0, <2>1, HeadTailProperties
  <2>3. s2 \in EdgeStatus /\ (to = "out" => s2 # "FAILURE")
    BY <1>1, <2>2
  <2>4. to \in {"pads", "interrupt", "out"} /\ to \in MainPlaces
    BY DEF MainPlaces
  <2> HIDE DEF to, s2
  <2>5. /\ main' \in MainRecords /\ main'.status = s2
        /\ main'.sent = main.sent /\ main'.round = main.round
    BY <1>0, <2>1, <2>3 DEF MainRecords
  <2> QED
    BY <1>0, <1>1, <2>1, <2>2, <2>3, <2>4, <2>5, MainTyped
<1>5. CASE ReadPad
  <2> DEFINE e     == edge[PadEdge(main.lane)]
             found == main.found \cup {Delivered(e)}
             m     == [main EXCEPT !.found = found,
                         !.pad[main.lane] = IF SetsInput(e) THEN Head(e.data) ELSE 0]
             others == Lanes \ {main.lane}
  <2>1. /\ UNCHANGED << setting, item, feeder, edge_status_queue, interrupted, canceller >>
        /\ edge' = [edge EXCEPT ![PadEdge(main.lane)] = Taken(e)]
        /\ pc[Main] = "pads" /\ ~Over(Main) /\ Ready(e)
    BY <1>0, <1>5, GoesOn DEF ReadPad, At, Over
  <2>2. /\ m \in MainRecords /\ m.lane = main.lane /\ m.status = main.status
        /\ m.round = main.round /\ m.sent = main.sent
        /\ found \in SUBSET EdgeStatus
        /\ DOMAIN edge' = Segments /\ \A s \in Segments : Paired(edge'[s], FrameNumbers)
    BY <1>1, <2>1, PadParts
  <2>3. IF Delivered(e) = "FLUSH"
            THEN /\ main' = EmptyNext([m EXCEPT !.status = "FLUSH"], others)
                 /\ Goes(Main, IF others = {} THEN "out" ELSE "flush")
            ELSE IF main.lane < setting.lanes
            THEN main' = [m EXCEPT !.lane = @ + 1] /\ Goes(Main, "pads")
            ELSE IF StatusOfPads(found) = "FAILURE"
            THEN main' = m /\ Goes(Main, "recover")
            ELSE main' = [m EXCEPT !.status = StatusOfPads(found)] /\ Goes(Main, "out")
    BY <1>5 DEF ReadPad
  <2> HIDE DEF m, found
  <2>4. \E to : /\ to \in {"out", "flush", "pads", "recover"} /\ Goes(Main, to)
                /\ main' \in MainRecords /\ main'.sent = main.sent /\ main'.round = main.round
                /\ to = "out" => main'.status # "FAILURE"
                /\ to = "flush" => main'.status = "FLUSH" /\ main'.rest # {}
    <3>1. CASE Delivered(e) = "FLUSH"
      <4> DEFINE m2 == [m EXCEPT !.status = "FLUSH"]
      <4>1. m2 \in MainRecords /\ m2.sent = m.sent /\ m2.round = m.round /\ m2.status = "FLUSH"
        BY <2>2 DEF MainRecords, EdgeStatus, StepStatus
      <4>2. /\ main' = EmptyNext(m2, others)
            /\ Goes(Main, IF others = {} THEN "out" ELSE "flush")
        BY <2>3, <3>1
      <4> HIDE DEF m2
      <4>3. /\ main' \in MainRecords /\ main'.rest = others /\ main'.status = "FLUSH"
            /\ main'.round = main.round /\ main'.sent = main.sent
        BY <1>0, <2>2, <4>1, <4>2, EmptyNextParts
      <4> QED
        BY <4>2, <4>3
    <3>2. CASE Delivered(e) # "FLUSH" /\ main.lane < setting.lanes
      <4>1. main' = [m EXCEPT !.lane = main.lane + 1] /\ Goes(Main, "pads")
        BY <2>2, <2>3, <3>2
      <4>2. main.lane + 1 \in Lanes
        BY <1>0, <1>1, <3>2, LaneParts
      <4>3. main' \in MainRecords /\ main'.sent = main.sent /\ main'.round = main.round
        BY <2>2, <4>1, <4>2 DEF MainRecords
      <4> QED
        BY <4>1, <4>3
    <3>3. CASE Delivered(e) # "FLUSH" /\ ~(main.lane < setting.lanes)
               /\ StatusOfPads(found) = "FAILURE"
      BY <2>2, <2>3, <3>3
    <3>4. CASE Delivered(e) # "FLUSH" /\ ~(main.lane < setting.lanes)
               /\ StatusOfPads(found) # "FAILURE"
      <4>1. main' = [m EXCEPT !.status = StatusOfPads(found)] /\ Goes(Main, "out")
        BY <2>3, <3>4
      <4>2. StatusOfPads(found) \in EdgeStatus
        BY <2>2, StatusOfPadsParts DEF EdgeStatus, StepStatus
      <4>3. /\ main' \in MainRecords /\ main'.sent = main.sent /\ main'.round = main.round
            /\ main'.status = StatusOfPads(found)
        BY <2>2, <4>1, <4>2 DEF MainRecords
      <4> QED
        BY <3>4, <4>1, <4>3
    <3> QED
      BY <3>1, <3>2, <3>3, <3>4
  <2>5. PICK to : /\ to \in {"out", "flush", "pads", "recover"} /\ Goes(Main, to)
                  /\ main' \in MainRecords /\ main'.sent = main.sent /\ main'.round = main.round
                  /\ to = "out" => main'.status # "FAILURE"
                  /\ to = "flush" => main'.status = "FLUSH" /\ main'.rest # {}
    BY <2>4
  <2>6. to \in MainPlaces
    BY <2>5 DEF MainPlaces
  <2> QED
    BY <1>0, <1>1, <2>1, <2>2, <2>5, <2>6, MainTyped
<1>6. CASE FlushPad
  <2> DEFINE e == edge[PadEdge(main.lane)]
             rest == IF Delivered(e) = "FLUSH" THEN main.rest \ {main.lane} ELSE main.rest
             to == IF rest = {} THEN "out" ELSE "flush"
  <2>1. /\ UNCHANGED << setting, item, feeder, edge_status_queue, interrupted, canceller >>
        /\ edge' = [edge EXCEPT ![PadEdge(main.lane)] = Taken(e)]
        /\ main' = EmptyNext(main, rest) /\ Goes(Main, to)
        /\ pc[Main] = "flush" /\ ~Over(Main) /\ Ready(e)
    BY <1>0, <1>6, GoesOn DEF FlushPad, At, Over
  <2>2. DOMAIN edge' = Segments /\ \A s \in Segments : Paired(edge'[s], FrameNumbers)
    BY <2>1, PadParts
  <2>3. rest \in SUBSET Lanes
    BY <1>1
  <2>4. to \in {"out", "flush"} /\ (to = "flush" => rest # {}) /\ to \in MainPlaces
    BY DEF MainPlaces
  <2> HIDE DEF rest, to
  <2>5. /\ main' \in MainRecords /\ main'.rest = rest /\ main'.status = main.status
        /\ main'.round = main.round /\ main'.sent = main.sent
    BY <1>0, <2>1, <2>3, EmptyNextParts
  <2>6. main.status = "FLUSH"
    BY <1>0, <2>1 DEF WorkInHand
  <2> QED
    BY <1>0, <1>1, <2>1, <2>2, <2>4, <2>5, <2>6, MainTyped
<1>7. CASE Recover
  <2>1. PICK c \in Cells :
          /\ \A d \in Downstream(c) : Over(d)
          /\ item' = [d \in Cells |->
               IF d \in Downstream(c) THEN [item[d] EXCEPT !.status = "SUCCESS", !.failed = FALSE]
                                     ELSE item[d]]
          /\ edge' = [s \in Segments |->
               IF s \in Downstream(c) THEN WasReset(edge[s]) ELSE edge[s]]
    BY <1>7 DEF Recover
  <2>2. /\ main' = [main EXCEPT !.status = "SKIP", !.recovered = @ + 1]
        /\ main.recovered < setting.recoveries
        /\ Goes(Main, "start") /\ pc[Main] = "recover" /\ ~Over(Main)
        /\ UNCHANGED << setting, feeder, edge_status_queue, interrupted, canceller >>
    BY <1>7 DEF Recover, At, Over
  <2>3. item' \in [Cells -> ItemRecords]
    <3>1. \A d \in Cells : [item[d] EXCEPT !.status = "SUCCESS", !.failed = FALSE] \in ItemRecords
      BY <1>0 DEF ItemRecords, StepStatus
    <3> QED
      BY <1>0, <2>1, <3>1
  <2>4. \A d \in Cells : pc[d] = "out" => item'[d] = item[d]
    BY <2>1 DEF Over
  <2>5. DOMAIN edge' = Segments /\ \A s \in Segments : Paired(edge'[s], FrameNumbers)
    <3>1. \A s \in Segments : Paired(WasReset(edge[s]), FrameNumbers)
      BY <1>0, ResetPaired DEF DataTyped
    <3>2. \A s \in Segments : edge'[s] = WasReset(edge[s]) \/ edge'[s] = edge[s]
      BY <2>1
    <3> QED
      BY <1>0, <2>1, <3>1, <3>2 DEF DataTyped
  <2>6. /\ main' \in MainRecords /\ main'.sent = main.sent /\ main'.round = main.round
    <3>1. main.recovered + 1 \in 0 .. setting.recoveries
      BY <1>0, <2>2, MainParts, SettingTypes
    <3> QED
      BY <1>0, <2>2, <3>1 DEF MainRecords, EdgeStatus, StepStatus
  <2>7. "start" \in MainPlaces
    BY DEF MainPlaces
  <2> QED
    BY <1>0, <1>1, <2>2, <2>3, <2>4, <2>5, <2>6, <2>7, MainTyped
<1>8. CASE GiveUp
  <2>1. /\ main' = [main EXCEPT !.status = "FAILURE"]
        /\ Goes(Main, "interrupt") /\ pc[Main] = "recover" /\ ~Over(Main)
        /\ UNCHANGED << setting, edge, item, feeder, edge_status_queue, interrupted,
                        canceller >>
    BY <1>8 DEF GiveUp, At, Over
  <2>2. /\ main' \in MainRecords /\ main'.sent = main.sent /\ main'.round = main.round
        /\ "interrupt" \in MainPlaces
    BY <1>0, <2>1 DEF MainRecords, EdgeStatus, StepStatus, MainPlaces
  <2> QED
    BY <1>0, <1>1, <2>1, <2>2, MainTyped
<1>9. CASE Announce
  <2> DEFINE m == [main EXCEPT !.sent = main.sent + 1]
  <2>1. /\ main' = NewRound(m)
        /\ Goes(Main, LoopHead(main)) /\ pc[Main] = "out" /\ ~Over(Main)
        /\ UNCHANGED << setting, edge, item, feeder, edge_status_queue, interrupted,
                        canceller >>
    BY <1>9 DEF Announce, At, Over
  <2>2. m \in MainRecords /\ m.sent = main.sent + 1 /\ m.status = main.status /\ m.round = main.round
    <3>1. main.sent + 1 \in Nat
      BY <1>1
    <3> QED
      BY <1>0, <3>1 DEF MainRecords
  <2> HIDE DEF m
  <2>3. main.status # "FAILURE"
    BY <1>0, <2>1 DEF WorkInHand
  <2>4. /\ main' \in MainRecords /\ main'.sent = main.sent + 1
        /\ main'.round = main.round + 1
        /\ LoopHead(main) \in {"interrupt", "pads", "status"}
    BY <1>0, <2>1, <2>2, <2>3, NewRoundParts
  <2>5. main'.sent <= main'.round /\ LoopHead(main) \in MainPlaces
    BY <1>1, <2>1, <2>4 DEF MainPlaces
  <2> QED
    BY <1>0, <2>1, <2>4, <2>5, MainTyped
<1>10. CASE InterruptAll
  <2>1. /\ interrupted' = interrupted \cup {t \in InnerThreads : ~Over(t)}
        /\ Goes(Main, "join") /\ pc[Main] = "interrupt" /\ ~Over(Main)
        /\ UNCHANGED << setting, edge, item, feeder, main, edge_status_queue, canceller >>
    BY <1>10 DEF InterruptAll, Over
  <2>2. interrupted' \subseteq Threads /\ "join" \in MainPlaces
    BY <1>0, <2>1, Names DEF MainPlaces
  <2> QED
    BY <1>0, <1>1, <2>1, <2>2, MainTyped
<1>11. CASE Join
  <2> DEFINE to == IF main.stopped THEN "returned" ELSE "last"
  <2>1. /\ \A t \in InnerThreads : Over(t)
        /\ Goes(Main, to) /\ pc[Main] = "join" /\ ~Over(Main)
        /\ UNCHANGED << setting, edge, item, feeder, main, edge_status_queue, interrupted,
                        canceller >>
    BY <1>0, <1>11, GoesOn DEF Join, At, Over
  <2>2. to \in {"returned", "last"} /\ to \in MainPlaces
    BY DEF MainPlaces
  <2> HIDE DEF to
  <2> QED
    BY <1>0, <1>1, <2>1, <2>2, MainTyped
<1>12. CASE AnnounceFailure
  <2>1. /\ main' = [main EXCEPT !.sent = @ + 1]
        /\ Goes(Main, "returned") /\ pc[Main] = "last" /\ ~Over(Main)
        /\ UNCHANGED << setting, edge, item, feeder, edge_status_queue, interrupted,
                        canceller >>
    BY <1>12 DEF AnnounceFailure, At, Over
  <2>2. main' \in MainRecords /\ "returned" \in MainPlaces
    <3>1. main.sent + 1 \in Nat
      BY <1>1
    <3> QED
      BY <1>0, <2>1, <3>1 DEF MainRecords, MainPlaces
  <2>3. \A t \in InnerThreads : Over(t)
    BY <2>1 DEF ThreadInvariant
  <2>4. main'.sent <= main'.round + 1
    <3>1. main'.sent = main.sent + 1 /\ main'.round = main.round
      BY <1>0, <2>1 DEF MainRecords
    <3> QED
      BY <1>1, <2>1, <3>1
  <2> QED
    BY <1>0, <2>1, <2>2, <2>3, <2>4, MainTyped
<1> QED
  BY <1>2, <1>3, <1>4, <1>5, <1>6, <1>7, <1>8, <1>9, <1>10, <1>11, <1>12 DEF MainStep

(* A thread leaves its wait, or begins one; cancel() goes on. *)
LEMMA InterruptTyped ==
  ASSUME SuperTyped, ThreadInvariant, NEW t \in Threads, ThreadInterrupted(t)
  PROVE  SuperTyped' /\ ThreadInvariant'
<1>0. /\ setting \in Settings /\ DataTyped /\ PlacesTyped /\ WorkInHand
      /\ main \in MainRecords /\ edge_status_queue \in Seq(EdgeStatus)
      /\ item \in [Cells -> ItemRecords] /\ interrupted \subseteq Threads
      /\ feeder \in FeederRecords /\ DOMAIN pc = Threads
  BY DEF SuperTyped, DataTyped, PlacesTyped
<1>1. /\ t \in waiting /\ interrupted' = interrupted \ {t}
      /\ UNCHANGED << setting, edge, item, feeder, edge_status_queue, canceller >>
  BY DEF ThreadInterrupted
<1>2. interrupted' \subseteq Threads
  BY <1>0, <1>1
<1>3. /\ Feeder \notin Cells /\ Main \notin Cells /\ Feeder # Main
      /\ Feeder \in Threads /\ Main \in Threads /\ Cells \subseteq Threads
      /\ InnerThreads = Cells \cup {Feeder}
  BY <1>0, Names
<1>4. CASE t \in Cells /\ Goes(t, "ended") /\ UNCHANGED main
  <2>1. t \in InnerThreads /\ t # Feeder /\ t # Main /\ ~Over(t) /\ "ended" \in CellPlaces
    BY <1>1, <1>3, <1>4 DEF ThreadInvariant, Over, CellPlaces
  <2>2. /\ ThreadInvariant' /\ pc'[t] = "ended" /\ pc'[Main] = pc[Main]
        /\ \A u \in Threads : u # t => pc'[u] = pc[u]
    BY <1>1, <1>4, <2>1, InnerThreadStep
  <2>3. DataTyped'
    BY <1>0, <1>1, <1>4, DataStep
  <2>4. PlacesTyped'
    BY <1>0, <1>1, <1>2, <1>4, <2>1, PlaceStep
  <2>5. WorkInHand'
    <3>1. \A d \in Cells : pc'[d] = "out" => pc[d] = "out"
      BY <1>3, <2>2
    <3>2. Cells' = Cells /\ pc'[Feeder] = pc[Feeder] /\ Feeder' = Feeder /\ Main' = Main
      BY <1>1, <1>3, <2>1, <2>2, SameSetting DEF Feeder, Main
    <3> QED
      BY <1>0, <1>1, <1>4, <2>2, <3>1, <3>2 DEF WorkInHand
  <2> QED
    BY <2>2, <2>3, <2>4, <2>5 DEF SuperTyped
<1>5. CASE t = Feeder /\ Goes(t, "fail") /\ UNCHANGED main
  <2>1. t \in InnerThreads /\ t # Main /\ t \notin Cells /\ ~Over(t) /\ "fail" \in FeederPlaces
        /\ feeder.is_running /\ ~feeder.failed
    BY <1>1, <1>3, <1>5 DEF ThreadInvariant, Over, FeederPlaces
  <2>2. /\ ThreadInvariant' /\ pc'[t] = "fail" /\ pc'[Main] = pc[Main]
        /\ \A u \in Threads : u # t => pc'[u] = pc[u]
    BY <1>1, <1>5, <2>1, InnerThreadStep
  <2>3. DataTyped'
    BY <1>0, <1>1, <1>5, DataStep
  <2>4. PlacesTyped'
    BY <1>0, <1>1, <1>2, <1>5, <2>1, PlaceStep
  <2>5. WorkInHand'
    <3>1. \A d \in Cells : pc'[d] = pc[d]
      BY <1>3, <2>1, <2>2
    <3>2. Cells' = Cells /\ pc'[Feeder] = "fail" /\ Feeder' = Feeder /\ Main' = Main
      BY <1>1, <1>5, <2>2, SameSetting DEF Feeder, Main
    <3> QED
      BY <1>0, <1>1, <1>5, <2>2, <3>1, <3>2 DEF WorkInHand
  <2> QED
    BY <2>2, <2>3, <2>4, <2>5 DEF SuperTyped
<1>6. CASE t = Main /\ pc[t] = "out" /\ Goes(t, "interrupt")
           /\ main' = [main EXCEPT !.status = "FAILURE", !.stopped = TRUE]
  <2>1. /\ main' \in MainRecords /\ main'.sent = main.sent /\ main'.round = main.round
        /\ "interrupt" \in MainPlaces /\ ~Over(Main)
    BY <1>0, <1>6 DEF MainRecords, EdgeStatus, StepStatus, MainPlaces, Over
  <2>2. main.sent <= main.round /\ \A c \in Cells : item'[c] = item[c]
    BY <1>0, <1>1, <1>6 DEF WorkInHand
  <2> QED
    BY <1>0, <1>1, <1>2, <1>6, <2>1, <2>2, MainTyped
<1>7. CASE t = Main /\ pc[t] = "join" /\ Goes(t, "join")
           /\ main' = [main EXCEPT !.stopped = TRUE]
  <2>1. /\ main' \in MainRecords /\ main'.sent = main.sent /\ main'.round = main.round
        /\ "join" \in MainPlaces /\ ~Over(Main)
    BY <1>0, <1>7 DEF MainRecords, MainPlaces, Over
  <2>2. main.sent <= main.round /\ \A c \in Cells : item'[c] = item[c]
    BY <1>0, <1>1, <1>7 DEF WorkInHand
  <2> QED
    BY <1>0, <1>1, <1>2, <1>7, <2>1, <2>2, MainTyped
<1>8. CASE t = Main /\ Goes(t, "killed") /\ UNCHANGED main
  <2>1. ~Over(Main) /\ "killed" \in MainPlaces
    BY <1>1, <1>8 DEF ThreadInvariant, MainPlaces
  <2>2. main.sent <= main.round /\ \A c \in Cells : item'[c] = item[c]
    BY <1>0, <1>1, <1>8, <2>1 DEF WorkInHand, Over
  <2> QED
    BY <1>0, <1>1, <1>2, <1>8, <2>1, <2>2, MainTyped
<1> QED
  BY <1>4, <1>5, <1>6, <1>7, <1>8 DEF ThreadInterrupted

LEMMA QuietTyped ==
  ASSUME SuperTyped, ThreadInvariant,
         \/ \E t \in Threads : Wait(t)
         \/ Cancel
         \/ CancellerStep
         \/ UNCHANGED superVars
  PROVE  SuperTyped' /\ ThreadInvariant'
<1>0. /\ setting \in Settings /\ DataTyped /\ PlacesTyped /\ WorkInHand
  BY DEF SuperTyped, DataTyped
<1>1. UNCHANGED << setting, edge, item, feeder, main, edge_status_queue, pc >>
  BY DEF Wait, Cancel, CancellerStep, CancelInner, CancelEnds, superVars
<1>2. /\ Feeder \in Threads /\ Main \in Threads /\ Cells \subseteq Threads
      /\ InnerThreads \subseteq Threads
  BY <1>0, Names
<1>3. DataTyped' /\ WorkInHand'
  <2>1. Cells' = Cells /\ Feeder' = Feeder /\ Main' = Main
    BY <1>1, SameSetting DEF Feeder, Main
  <2> QED
    BY <1>0, <1>1, <2>1, DataStep DEF WorkInHand
<1>4. \/ \E t \in Threads : /\ Wait(t) /\ waiting' = waiting \cup {t}
                            /\ UNCHANGED << interrupted, canceller >>
      \/ UNCHANGED waiting
  BY DEF Wait, Cancel, CancellerStep, CancelInner, CancelEnds, superVars
<1>5. /\ waiting' \subseteq Threads /\ interrupted' \subseteq Threads
      /\ canceller' \in {"idle", "joining", "inner", "done"}
  BY <1>0, <1>2 DEF Wait, Cancel, CancellerStep, CancelInner, CancelEnds, superVars, PlacesTyped
<1>6. PlacesTyped'
  <2>1. Cells' = Cells /\ Threads' = Threads /\ Feeder' = Feeder /\ Main' = Main
    BY <1>1, SameSetting DEF Feeder, Main
  <2> QED
    BY <1>0, <1>1, <1>5, <2>1 DEF PlacesTyped, CellPlaces, FeederPlaces, MainPlaces, Place
<1>7. ThreadInvariant'
  <2>1. /\ Cells' = Cells /\ InnerThreads' = InnerThreads /\ Feeder' = Feeder /\ Main' = Main
        /\ \A t \in Threads : Over(t)' <=> Over(t)
    BY <1>1, SameSetting DEF Feeder, Main, Over
  <2>2. /\ \A c \in Cells : c \in waiting' => pc[c] \in {"in", "out"}
        /\ Feeder \in waiting' => pc[Feeder] \in {"in", "pads"}
        /\ Main \in waiting' => ~Over(Main)
    <3>1. CASE UNCHANGED waiting
      BY <3>1 DEF ThreadInvariant
    <3>2. CASE \E t \in Threads : Wait(t) /\ waiting' = waiting \cup {t}
      <4>1. PICK t \in Threads : Wait(t) /\ waiting' = waiting \cup {t}
        BY <3>2
      <4>2. /\ ~Over(t)
            /\ t \in Cells => pc[t] \in {"in", "out"}
            /\ t = Feeder => pc[t] \in {"in", "pads"}
        BY <1>0, <4>1, WaitsWhere
      <4> QED
        BY <4>1, <4>2 DEF ThreadInvariant
    <3> QED
      BY <1>4, <3>1, <3>2
  <2>3. /\ canceller' \in {"inner", "done"} => Over(Main)
        /\ canceller' = "done" => \A t \in InnerThreads : Over(t)
    BY DEF ThreadInvariant, Wait, Cancel, CancellerStep, CancelInner, CancelEnds, superVars
  <2>4. /\ Main \in waiting' => ~Over(Main)'
        /\ canceller' \in {"inner", "done"} => Over(Main)'
        /\ canceller' = "done" => \A t \in InnerThreads' : Over(t)'
        /\ pc'[Main] \in {"last", "returned"} => \A t \in InnerThreads' : Over(t)'
    BY <1>1, <1>2, <2>1, <2>2, <2>3 DEF ThreadInvariant
  <2> QED
    BY <1>1, <2>1, <2>2, <2>4 DEF ThreadInvariant
<1> QED
  BY <1>3, <1>6, <1>7 DEF SuperTyped

LEMMA SuperTypedInit ==
  ASSUME SuperInit
  PROVE  SuperTyped /\ ThreadInvariant
<1>0. setting \in Settings
  BY DEF SuperInit
<1>1. /\ Feeder \notin Cells /\ Main \notin Cells /\ Feeder # Main
      /\ Feeder \in Threads /\ Main \in Threads /\ Cells \subseteq Threads
      /\ InnerThreads \subseteq Threads /\ Main \notin InnerThreads
  BY <1>0, Names
<1>2. /\ 0 \in 0 .. setting.frames /\ 0 \in 0 .. setting.recoveries /\ 1 \in Lanes
      /\ "SUCCESS" \in EdgeStatus /\ "SUCCESS" \in StepStatus
  BY <1>0, SettingTypes, LaneParts DEF EdgeStatus, StepStatus
<1>3. DataTyped
  <2>1. DOMAIN edge = Segments /\ \A s \in Segments : Paired(edge[s], FrameNumbers)
    BY EmptyEdgePaired DEF SuperInit
  <2>2. item \in [Cells -> ItemRecords]
    BY <1>2 DEF SuperInit, ItemRecords
  <2>3. feeder \in FeederRecords
    BY <1>2 DEF SuperInit, FeederRecords
  <2>4. main \in MainRecords
    <3>1. [l \in Lanes |-> 0] \in [Lanes -> 0 .. setting.frames]
      BY <1>2
    <3> QED
      BY <1>2, <3>1 DEF SuperInit, MainRecords
  <2>5. edge_status_queue \in Seq(EdgeStatus)
    BY EmptySeq DEF SuperInit
  <2> QED
    BY <1>0, <2>1, <2>2, <2>3, <2>4, <2>5 DEF DataTyped
<1>4. /\ DOMAIN pc = Threads /\ pc[Main] = "start" /\ pc[Feeder] = "none"
      /\ \A t \in InnerThreads : pc[t] = "none"
      /\ \A c \in Cells : pc[c] = "none"
  BY <1>1 DEF SuperInit
<1>5. waiting = {} /\ interrupted = {} /\ canceller = "idle" /\ main.sent = 0 /\ main.round = 0
      /\ ~feeder.is_running /\ ~feeder.failed
  BY DEF SuperInit
<1>6. PlacesTyped
  <2>1. pc \in [Threads -> Place]
    BY DEF SuperInit, Place
  <2> QED
    BY <1>4, <1>5, <2>1 DEF PlacesTyped, CellPlaces, FeederPlaces, MainPlaces
<1>7. WorkInHand
  BY <1>4, <1>5 DEF WorkInHand
<1>8. ThreadInvariant
  BY <1>4, <1>5 DEF ThreadInvariant
<1> QED
  BY <1>3, <1>6, <1>7, <1>8 DEF SuperTyped

LEMMA SuperTypedStep ==
  ASSUME SuperTyped, ThreadInvariant, [SuperNext]_superVars
  PROVE  SuperTyped' /\ ThreadInvariant'
<1>1. CASE \E c \in Cells : StepNode(c) \/ AnnounceStep(c)
  BY <1>1, StepNodeTyped, AnnounceStepTyped
<1>2. CASE \E t \in Threads : ThreadInterrupted(t)
  BY <1>2, InterruptTyped
<1>3. CASE \/ \E t \in Threads : Wait(t)
           \/ Cancel
           \/ CancellerStep
           \/ UNCHANGED superVars
  BY <1>3, QuietTyped
<1> QED
  BY <1>1, <1>2, <1>3, FeederStepTyped, MainStepTyped DEF SuperNext

THEOREM SuperTypedHolds == SuperSpec => [](SuperTyped /\ ThreadInvariant)
<1>1. SuperInit => SuperTyped /\ ThreadInvariant
  BY SuperTypedInit
<1>2. SuperTyped /\ ThreadInvariant /\ [SuperNext]_superVars
        => (SuperTyped /\ ThreadInvariant)'
  BY SuperTypedStep
<1> QED
  BY <1>1, <1>2, PTL DEF SuperSpec

(***************************************************************************)
(* When run_with_pads() has returned, or cancel() of the outer pipeline    *)
(* has, no thread of the inner pipeline is left: for any number of lanes   *)
(* and nodes, whatever fails, recovers or is interrupted.                  *)
(***************************************************************************)
THEOREM NothingIsLeftRunning == SuperSpec => []NothingOutlivesRun
<1>1. SuperTyped /\ ThreadInvariant => NothingOutlivesRun
  BY DEF ThreadInvariant, NothingOutlivesRun
<1> QED
  BY <1>1, SuperTypedHolds, PTL

(***************************************************************************)
(* Every variable has its type, for any capacity and any setting.          *)
(***************************************************************************)
THEOREM SuperTypeCorrect == SuperSpec => []SuperTypes
<1>1. ASSUME SuperTyped
      PROVE  SuperTypes
  <2>0. /\ setting \in Settings /\ DataTyped /\ PlacesTyped /\ WorkInHand
    BY <1>1 DEF SuperTyped, DataTyped
  <2>1. \A s \in Segments :
          /\ edge[s].status \in Seq(EdgeStatus) /\ edge[s].data \in Seq(1 .. setting.frames)
          /\ edge[s].no_more_input \in BOOLEAN /\ edge[s].last_size \in Nat
    <3>1. \A s \in Segments : edge[s] \in EdgeOf(1 .. setting.frames)
      BY <2>0 DEF DataTyped, Paired, FrameNumbers
    <3> QED
      BY <3>1 DEF EdgeOf
  <2>2. \A c \in Cells :
          /\ item[c].status \in StepStatus /\ item[c].frame \in 0 .. setting.frames
          /\ item[c].failed \in BOOLEAN
    BY <2>0 DEF DataTyped, ItemRecords
  <2>3. /\ feeder.status \in EdgeStatus /\ feeder.arrived \in 0 .. setting.frames
        /\ feeder.lane \in Lanes
        /\ feeder.is_running \in BOOLEAN /\ feeder.failed \in BOOLEAN
    BY <2>0 DEF DataTyped, FeederRecords
  <2>4. /\ main.status \in EdgeStatus /\ main.round \in Nat /\ main.lane \in Lanes
        /\ main.found \in SUBSET EdgeStatus /\ main.rest \in SUBSET Lanes
        /\ main.pad \in [Lanes -> 0 .. setting.frames]
        /\ main.sent \in Nat /\ main.recovered \in 0 .. setting.recoveries
    BY <2>0, MainParts DEF DataTyped
  <2>5. main.sent \in 0 .. main.round + 1
    <3>1. main.sent <= main.round \/ main.sent <= main.round + 1
      BY <2>0 DEF WorkInHand
    <3> QED
      BY <2>4, <3>1
  <2>6. pc \in [Threads -> Place]
    BY <2>0 DEF PlacesTyped
  <2> QED
    BY <2>0, <2>1, <2>2, <2>3, <2>4, <2>5, <2>6 DEF SuperTypes, PlacesTyped, DataTyped
<1> QED
  BY <1>1, SuperTypedHolds, PTL

-----------------------------------------------------------------------------
(* What the pads give.                                                     *)

(* What an edge does without a FLUSH. *)
LEMMA UnflushedStored ==
  ASSUME NEW D, NEW e, Paired(e, D), NEW st \in EdgeStatus, st # "FLUSH", NEW v,
         st = "SUCCESS" => v \in D, NEW f, f = Stored(Flushed(e, st), st, v)
  PROVE  /\ Len(e.status) \in Nat /\ Len(f.status) = Len(e.status) + 1
         /\ ~f.no_more_input
         /\ \A j \in 1 .. Len(e.status) : f.status[j] = e.status[j]
         /\ f.status[Len(e.status) + 1] = st
         /\ \A j \in 1 .. Len(e.status) :
              e.status[j] = "SUCCESS" => ValueAt(f, j) = ValueAt(e, j)
         /\ st = "SUCCESS" => ValueAt(f, Len(e.status) + 1) = v
<1>1. Flushed(e, st) = e
  BY DEF Flushed
<1>2. Len(e.status) \in Nat
  BY DEF Paired, EdgeOf
<1> QED
  BY <1>1, <1>2, StoredPaired

(* An open edge gives what came first. *)
LEMMA OpenTaken ==
  ASSUME NEW D, NEW e, Paired(e, D), Ready(e), ~e.no_more_input, NEW f, f = Taken(e)
  PROVE  /\ Len(e.status) \in Nat /\ Len(e.status) >= 1
         /\ Len(f.status) = Len(e.status) - 1
         /\ Delivered(e) = e.status[1] /\ Delivered(e) \in EdgeStatus
         /\ f.no_more_input <=> e.status[1] = "FAILURE" /\ Len(e.status) = 1
         /\ \A j \in 1 .. Len(f.status) :
              /\ f.status[j] = e.status[j + 1]
              /\ f.status[j] = "SUCCESS" => ValueAt(f, j) = ValueAt(e, j + 1)
         /\ SetsInput(e) <=> e.status[1] = "SUCCESS"
         /\ SetsInput(e) => Head(e.data) = ValueAt(e, 1)
<1>1. e.status # << >> /\ f = Popped(e)
  BY DEF Ready, Taken
<1>2. /\ Len(e.status) \in Nat /\ Len(e.status) >= 1
      /\ Head(e.status) = e.status[1] /\ Head(e.status) \in EdgeStatus
      /\ Len(f.status) = Len(e.status) - 1
      /\ f.no_more_input <=> e.status[1] = "FAILURE" /\ Len(e.status) = 1
      /\ \A j \in 1 .. Len(e.status) - 1 :
           /\ f.status[j] = e.status[j + 1]
           /\ f.status[j] = "SUCCESS" => ValueAt(f, j) = ValueAt(e, j + 1)
      /\ e.status[1] = "SUCCESS" => Head(e.data) = ValueAt(e, 1)
  <2>1. LET p == Popped(e)
            n == Len(e.status)
        IN  /\ n \in Nat /\ n >= 1
            /\ Head(e.status) = e.status[1] /\ Head(e.status) \in EdgeStatus
            /\ Len(p.status) = n - 1
            /\ p.no_more_input <=> e.status[1] = "FAILURE" /\ n = 1
            /\ \A j \in 1 .. n - 1 :
                 /\ p.status[j] = e.status[j + 1]
                 /\ p.status[j] = "SUCCESS" => ValueAt(p, j) = ValueAt(e, j + 1)
            /\ e.status[1] = "SUCCESS" => Head(e.data) = ValueAt(e, 1)
    BY <1>1, PoppedPaired
  <2> QED
    BY <1>1, <2>1
<1> QED
  BY <1>2 DEF Delivered, SetsInput

(* Where the parts of a well aligned super process are. *)
LEMMA AlignmentTypes ==
  ASSUME DataTyped, NEW g, NEW took, NEW r, Alignment(g, took, r)
  PROVE  /\ g \in Seq(Nat) /\ Len(g) \in Nat /\ r \in Nat
         /\ took \in [Segments -> Nat]
         /\ \A s \in Segments : took[s] \in Nat /\ Len(edge[s].status) \in Nat
         /\ LanesAligned(g, took, r) /\ ValuesAligned(g, took)
         /\ setting.forwarding => ForwardingAligned(g, r)
         /\ ~setting.forwarding => QueueAligned(g, r)
<1>1. \A s \in Segments : Len(edge[s].status) \in Nat
  BY DEF DataTyped, Paired, EdgeOf
<1> QED
  BY <1>1 DEF Alignment

(* The feeder's side and Main's side do not change. *)
LEMMA EndsStay ==
  ASSUME setting' = setting, NEW g, NEW r,
         UNCHANGED << feeder, main, edge_status_queue >>,
         pc'[Feeder] = pc[Feeder], pc'[Main] = pc[Main]
  PROVE  /\ \A l : Given(l)' = Given(l) /\ ReadFrom(l)' = ReadFrom(l)
         /\ ReadingPads' = ReadingPads
         /\ ForwardingAligned(g, r)' = ForwardingAligned(g, r)
         /\ QueueAligned(g, r)' = QueueAligned(g, r)
<1>1. Feeder' = Feeder /\ Main' = Main
  BY DEF Feeder, Main
<1>2. \A l : Given(l)' = Given(l) /\ ReadFrom(l)' = ReadFrom(l)
  BY <1>1 DEF Given, ReadFrom
<1>3. ReadingPads' = ReadingPads /\ FeedsSuccess' = FeedsSuccess
  BY <1>1 DEF ReadingPads, FeedsSuccess
<1>4. ForwardingAligned(g, r)' = ForwardingAligned(g, r)
  BY <1>3 DEF ForwardingAligned
<1>5. QueueAligned(g, r)' = QueueAligned(g, r)
  BY <1>1, <1>3 DEF QueueAligned, Successes
<1> QED
  BY <1>2, <1>3, <1>4, <1>5

LEMMA StepNodeAligned ==
  ASSUME SuperTyped, Counted, InLoop, LoopInvariant, PadsInvariant,
         NEW c \in Cells, StepNode(c), NEW g, NEW took, NEW r, Alignment(g, took, r)
  PROVE  LoopInvariant' /\ PadsInvariant' /\ Aligned'
<1> DEFINE e == edge[InEdge(c)]
           f == Taken(e)
           n == Len(e.status)
           took2 == [took EXCEPT ![InEdge(c)] = took[InEdge(c)] + 1]
<1>0. /\ setting \in Settings /\ DataTyped /\ PlacesTyped /\ DOMAIN pc = Threads
      /\ WorkInHand /\ item \in [Cells -> ItemRecords]
  BY DEF SuperTyped, DataTyped, PlacesTyped
<1>1. /\ setting' = setting /\ pc[c] = "in"
      /\ Paired(e, FrameNumbers) /\ Ready(e)
      /\ edge' = [edge EXCEPT ![InEdge(c)] = f]
      /\ item'[c].status \in IF Delivered(e) = "FLUSH" THEN {"FLUSH"}
                             ELSE MayReturn({Delivered(e)}, FALSE, setting.inner)
      /\ item'[c].failed = (item'[c].status = "FAILURE" /\ Delivered(e) # "FAILURE")
      /\ SetsInput(e) => item'[c].frame = Head(e.data)
      /\ \A d \in Cells : d # c => item'[d] = item[d]
      /\ Goes(c, IF item'[c].status = "NO_OUTPUT" THEN "in" ELSE "out")
      /\ UNCHANGED << feeder, main, edge_status_queue, interrupted, canceller >>
  BY StepNodeFacts
<1>2. /\ Cells \subseteq Threads /\ c # Feeder /\ c # Main
      /\ Feeder \in Threads /\ Main \in Threads
      /\ InEdge(c) \in Segments /\ InEdge(c) # c /\ Cells \subseteq Segments
      /\ \A l \in Lanes : InEdge(c) # PadEdge(l) /\ PadEdge(l) \in Cells
      /\ \A d \in Cells : d # c => InEdge(d) # InEdge(c)
      /\ \A d \in Cells : InEdge(d) \in Segments
      /\ \A l \in Lanes : << l, 0 >> \in Segments
  BY <1>0, Names, LaneParts
<1>3. ~e.no_more_input
  BY <1>1 DEF LoopInvariant, ClosedBehind
<1>4. /\ n \in Nat /\ n >= 1 /\ Len(f.status) = n - 1
      /\ Delivered(e) = e.status[1] /\ Delivered(e) \in EdgeStatus
      /\ f.no_more_input <=> e.status[1] = "FAILURE" /\ n = 1
      /\ \A j \in 1 .. Len(f.status) :
           /\ f.status[j] = e.status[j + 1]
           /\ f.status[j] = "SUCCESS" => ValueAt(f, j) = ValueAt(e, j + 1)
      /\ SetsInput(e) <=> e.status[1] = "SUCCESS"
      /\ SetsInput(e) => Head(e.data) = ValueAt(e, 1)
  BY <1>1, <1>3, OpenTaken
<1>5. e.status[1] # "FLUSH"
  BY <1>2, <1>4 DEF LoopInvariant, NoFlush
<1>6. /\ item'[c].status \notin {"FLUSH", "NO_OUTPUT"}
      /\ item'[c].status = "SUCCESS" => e.status[1] = "SUCCESS"
      /\ e.status[1] = "FAILURE" => item'[c].status = "FAILURE"
  <2>1. /\ item'[c].status = "SUCCESS" => Delivered(e) = "SUCCESS"
        /\ Delivered(e) = "FAILURE" => item'[c].status = "FAILURE"
        /\ Delivered(e) # "FLUSH" /\ Counted => item'[c].status \notin {"FLUSH", "NO_OUTPUT"}
    <3> DEFINE o == item'[c].status
    <3>1. o \in IF Delivered(e) = "FLUSH" THEN {"FLUSH"}
               ELSE MayReturn({Delivered(e)}, FALSE, setting.inner)
      BY <1>1
    <3>2. Delivered(e) \in EdgeStatus
      BY <1>4
    <3> HIDE DEF o, e
    <3>3. /\ o = "SUCCESS" => Delivered(e) = "SUCCESS"
          /\ Delivered(e) = "FAILURE" => o = "FAILURE"
          /\ Delivered(e) # "FLUSH" /\ Counted => o \notin {"FLUSH", "NO_OUTPUT"}
      BY <1>0, <3>1, <3>2, StepOutcome
    <3> QED
      BY <3>3 DEF o
  <2> QED
    BY <1>4, <1>5, <2>1
<1> HIDE DEF f
<1>7. /\ edge'[InEdge(c)] = f
      /\ \A s \in Segments : s # InEdge(c) => edge'[s] = edge[s]
  BY <1>0, <1>1, <1>2 DEF DataTyped
<1>8. /\ pc'[c] = "out" /\ pc'[Feeder] = pc[Feeder] /\ pc'[Main] = pc[Main]
      /\ \A d \in Cells : d # c => pc'[d] = pc[d]
  BY <1>0, <1>1, <1>2, <1>6, GoesTo
<1>9. /\ Lanes' = Lanes /\ Cells' = Cells /\ Segments' = Segments
      /\ InnerThreads' = InnerThreads /\ Feeder' = Feeder /\ Main' = Main
      /\ \A l : PadEdge(l)' = PadEdge(l)
      /\ \A d : InEdge(d)' = InEdge(d)
  BY <1>1, SameSetting DEF Feeder, Main
<1>t. /\ g \in Seq(Nat) /\ Len(g) \in Nat /\ r \in Nat
      /\ took \in [Segments -> Nat]
      /\ \A s \in Segments : took[s] \in Nat /\ Len(edge[s].status) \in Nat
      /\ LanesAligned(g, took, r) /\ ValuesAligned(g, took)
      /\ setting.forwarding => ForwardingAligned(g, r)
      /\ ~setting.forwarding => QueueAligned(g, r)
  BY <1>0, AlignmentTypes
<1>e. /\ \A l : Given(l)' = Given(l) /\ ReadFrom(l)' = ReadFrom(l)
      /\ ForwardingAligned(g, r)' = ForwardingAligned(g, r)
      /\ QueueAligned(g, r)' = QueueAligned(g, r)
  BY <1>1, <1>8, EndsStay
<1>10. LoopInvariant'
  <2>1. FeederInvariant'
    BY <1>1, <1>8, <1>9 DEF LoopInvariant, FeederInvariant
  <2>2. NoFlush'
    <3>1. ASSUME NEW s \in Segments, NEW i \in 1 .. Len(edge'[s].status)
          PROVE  edge'[s].status[i] # "FLUSH"
      <4>1. CASE s = InEdge(c)
        <5>1. i \in 1 .. Len(f.status) /\ i + 1 \in 1 .. n
          BY <1>4, <1>7, <4>1
        <5>2. edge'[s].status[i] = e.status[i + 1]
          BY <1>4, <1>7, <4>1, <5>1
        <5>3. e.status[i + 1] # "FLUSH"
          BY <1>2, <5>1 DEF LoopInvariant, NoFlush
        <5> QED
          BY <5>2, <5>3
      <4>2. CASE s # InEdge(c)
        BY <1>7, <4>2 DEF LoopInvariant, NoFlush
      <4> QED
        BY <4>1, <4>2
    <3>2. \A d \in Cells : item'[d].status # "FLUSH"
      BY <1>1, <1>6 DEF LoopInvariant, NoFlush
    <3> QED
      BY <1>9, <3>1, <3>2 DEF NoFlush
  <2>a. \A d \in Cells : pc'[d] \in {"none", "in"} => item'[d].status # "FAILURE"
    BY <1>1, <1>8 DEF LoopInvariant
  <2>3. \A d \in Cells : ClosedBehind(d)'
    <3>1. ClosedBehind(c)'
      BY <1>1, <1>4, <1>6, <1>7, <1>8, <1>9 DEF ClosedBehind
    <3>2. ASSUME NEW d \in Cells, d # c
          PROVE  ClosedBehind(d)'
      BY <1>1, <1>2, <1>7, <1>8, <1>9, <3>2 DEF LoopInvariant, ClosedBehind
    <3> QED
      BY <3>1, <3>2
  <2>4. \A l \in Lanes : FailureIsLast(PadEdge(l))'
    <3>1. ASSUME NEW l \in Lanes
          PROVE  FailureIsLast(PadEdge(l))'
      <4>1. PadEdge(l) \in Cells /\ PadEdge(l) \in Segments /\ PadEdge(l) # InEdge(c)
            /\ edge'[PadEdge(l)] = edge[PadEdge(l)] /\ FailureIsLast(PadEdge(l))
        BY <1>2, <1>7 DEF LoopInvariant
      <4>2. CASE PadEdge(l) # c
        BY <1>1, <1>8, <1>9, <4>1, <4>2 DEF FailureIsLast
      <4>3. CASE PadEdge(l) = c
        <5>1. /\ \A i \in 1 .. Len(edge[c].status) : edge[c].status[i] # "FAILURE"
              /\ ~edge[c].no_more_input
          BY <1>1, <4>1, <4>3 DEF FailureIsLast
        <5> QED
          BY <1>9, <4>1, <4>3, <5>1 DEF FailureIsLast
      <4> QED
        BY <4>2, <4>3
    <3> QED
      BY <3>1
  <2>5. setting.lanes = 1 => (edge'[PadEdge(1)].no_more_input <=> pc'[Main] = "recover")
    <3>1. setting.lanes = 1 => PadEdge(1) \in Segments /\ edge'[PadEdge(1)] = edge[PadEdge(1)]
      BY <1>0, <1>2, <1>7, LaneParts
    <3> QED
      BY <1>8, <3>1 DEF LoopInvariant
  <2> QED
    BY <1>1, <1>8, <1>9, <2>1, <2>2, <2>a, <2>3, <2>4, <2>5 DEF LoopInvariant
<1>11. PadsInvariant'
  <2>1. \A l \in Lanes : LaneFailed(l) => LaneFailed(l)'
    <3>1. ASSUME NEW l \in Lanes, LaneFailed(l)
          PROVE  LaneFailed(l)'
      <4>1. PICK d \in Cells : d[1] = l /\ item[d].status = "FAILURE"
        BY <3>1 DEF LaneFailed
      <4>2. d # c
        BY <1>1, <4>1 DEF LoopInvariant
      <4> QED
        BY <1>1, <1>9, <4>1, <4>2 DEF LaneFailed
    <3> QED
      BY <3>1
  <2> QED
    BY <1>1, <1>8, <1>9, <2>1 DEF PadsInvariant, PadRead
<1>12. LanesAligned(g, took2, r)'
  <2>1. /\ took2[InEdge(c)] = took[InEdge(c)] + 1
        /\ \A s \in Segments : s # InEdge(c) => took2[s] = took[s]
    BY <1>2, <1>t
  <2> HIDE DEF took2
  <2>2. \A s \in Segments : took2[s] + Len(edge'[s].status) = took[s] + Len(edge[s].status)
    <3>1. /\ edge'[InEdge(c)] = f /\ Len(f.status) = n - 1 /\ n = Len(edge[InEdge(c)].status)
          /\ took[InEdge(c)] \in Nat /\ n \in Nat
      BY <1>2, <1>4, <1>7, <1>t
    <3>2. took2[InEdge(c)] + Len(edge'[InEdge(c)].status)
            = took[InEdge(c)] + Len(edge[InEdge(c)].status)
      <4> DEFINE before == took[InEdge(c)]
                 m == Len(edge[InEdge(c)].status)
      <4>1. took2[InEdge(c)] = before + 1 /\ Len(edge'[InEdge(c)].status) = m - 1
        BY <2>1, <3>1
      <4>2. before \in Nat /\ m \in Nat
        BY <3>1
      <4>3. (before + 1) + (m - 1) = before + m
        <5> HIDE DEF before, m
        <5> QED
          BY <4>2
      <4> QED
        BY <4>1, <4>3
    <3>3. \A s \in Segments :
            s # InEdge(c) => took2[s] = took[s] /\ edge'[s] = edge[s]
      BY <1>7, <2>1
    <3> QED
      BY <3>2, <3>3
  <2>3. \A d \in Cells :
          took2[InEdge(d)] = took2[d] + Len(edge'[d].status) + One(pc'[d] = "out")
    <3>1. took2[InEdge(c)] = took2[c] + Len(edge'[c].status) + One(pc'[c] = "out")
      BY <1>1, <1>2, <1>8, <1>t, <2>1, <2>2 DEF LanesAligned, One
    <3>2. ASSUME NEW d \in Cells, d # c
          PROVE  took2[InEdge(d)] = took2[d] + Len(edge'[d].status) + One(pc'[d] = "out")
      BY <1>2, <1>8, <1>t, <2>1, <2>2, <3>2 DEF LanesAligned, One
    <3> QED
      BY <3>1, <3>2
  <2>4. \A l \in Lanes : /\ edge'[PadEdge(l)] = edge[PadEdge(l)]
                         /\ took2[PadEdge(l)] = took[PadEdge(l)]
    BY <1>2, <1>7, <2>1
  <2> QED
    BY <1>1, <1>2, <1>9, <1>t, <1>e, <2>2, <2>3, <2>4 DEF LanesAligned
<1>13. ValuesAligned(g, took2)'
  <2>1. /\ took2[InEdge(c)] = took[InEdge(c)] + 1
        /\ \A s \in Segments : s # InEdge(c) => took2[s] = took[s]
    BY <1>2, <1>t
  <2> HIDE DEF took2
  <2>2. ASSUME NEW s \in Segments, NEW i \in 1 .. Len(edge'[s].status),
               edge'[s].status[i] = "SUCCESS"
        PROVE  ValueAt(edge'[s], i) = g[took2[s] + i]
    <3>1. CASE s = InEdge(c)
      <4>1. /\ i \in 1 .. Len(f.status) /\ i + 1 \in 1 .. n /\ i \in Nat
            /\ took[s] + (i + 1) = took2[s] + i
        <5>1. /\ i \in 1 .. Len(f.status) /\ Len(f.status) = n - 1 /\ n \in Nat
              /\ took2[s] = took[s] + 1 /\ took[s] \in Nat
          BY <1>4, <1>7, <1>t, <2>1, <3>1
        <5> HIDE DEF n, e
        <5> QED
          BY <5>1
      <4>2. e.status[i + 1] = "SUCCESS" /\ ValueAt(f, i) = ValueAt(e, i + 1)
        BY <1>4, <1>7, <2>2, <3>1, <4>1
      <4>3. ValueAt(e, i + 1) = g[took[s] + (i + 1)]
        BY <1>t, <3>1, <4>1, <4>2 DEF ValuesAligned
      <4> QED
        BY <1>7, <3>1, <4>1, <4>2, <4>3
    <3>2. CASE s # InEdge(c)
      <4>1. /\ edge'[s] = edge[s] /\ took2[s] = took[s] /\ i \in 1 .. Len(edge[s].status)
            /\ edge[s].status[i] = "SUCCESS"
        BY <1>7, <2>1, <2>2, <3>2
      <4>2. ValueAt(edge[s], i) = g[took[s] + i]
        BY <1>t, <4>1 DEF ValuesAligned
      <4> QED
        BY <4>1, <4>2
    <3> QED
      BY <3>1, <3>2
  <2>3. ASSUME item'[c].status = "SUCCESS"
        PROVE  item'[c].frame = g[took2[InEdge(c)]]
    <3>1. e.status[1] = "SUCCESS" /\ 1 \in 1 .. n
      BY <1>4, <1>6, <2>3
    <3>2. ValueAt(e, 1) = g[took[InEdge(c)] + 1]
      BY <1>2, <1>t, <3>1 DEF ValuesAligned
    <3> QED
      BY <1>1, <1>4, <2>1, <3>1, <3>2
  <2>4. ASSUME NEW d \in Cells, pc'[d] = "out", item'[d].status = "SUCCESS"
        PROVE  item'[d].frame = g[took2[InEdge(d)]]
    <3>1. CASE d = c
      BY <2>3, <2>4, <3>1
    <3>2. CASE d # c
      BY <1>1, <1>2, <1>8, <1>t, <2>1, <2>4, <3>2 DEF ValuesAligned
    <3> QED
      BY <3>1, <3>2
  <2> QED
    BY <1>9, <2>2, <2>4 DEF ValuesAligned
<1>14. Alignment(g, took2, r)'
  <2>1. took2 \in [Segments -> Nat]
    BY <1>2, <1>t
  <2> HIDE DEF took2
  <2> QED
    BY <1>1, <1>9, <1>12, <1>13, <1>t, <1>e, <2>1 DEF Alignment
<1> QED
  <2> HIDE DEF took2
  <2> QED
    BY <1>10, <1>11, <1>14 DEF Aligned

LEMMA AnnounceStepAligned ==
  ASSUME SuperTyped, Counted, InLoop, LoopInvariant, PadsInvariant,
         NEW c \in Cells, AnnounceStep(c), NEW g, NEW took, NEW r, Alignment(g, took, r)
  PROVE  LoopInvariant' /\ PadsInvariant' /\ Aligned'
<1> DEFINE e  == edge[c]
           st == item[c].status
           f  == Stored(Flushed(e, st), st, item[c].frame)
           n  == Len(e.status)
           to == IF st = "FAILURE" THEN "ended" ELSE "in"
<1>0. /\ setting \in Settings /\ DataTyped /\ PlacesTyped /\ DOMAIN pc = Threads
      /\ WorkInHand /\ item \in [Cells -> ItemRecords]
  BY DEF SuperTyped, DataTyped, PlacesTyped
<1>1. /\ setting' = setting /\ pc[c] = "out"
      /\ edge' = [edge EXCEPT ![c] = f]
      /\ Goes(c, to)
      /\ UNCHANGED << item, feeder, main, edge_status_queue, interrupted, canceller >>
  BY DEF AnnounceStep, At
<1>2. /\ Cells \subseteq Threads /\ c # Feeder /\ c # Main
      /\ Feeder \in Threads /\ Main \in Threads
      /\ c \in Segments /\ Cells \subseteq Segments
      /\ InEdge(c) \in Segments /\ InEdge(c) # c
      /\ \A l \in Lanes : PadEdge(l) \in Cells
      /\ \A d \in Cells : InEdge(d) \in Segments
      /\ \A l \in Lanes : << l, 0 >> \in Segments /\ << l, 0 >> \notin Cells
  BY <1>0, Names, LaneParts
<1>3. /\ st \in EdgeStatus /\ st # "FLUSH"
      /\ st = "SUCCESS" => item[c].frame \in FrameNumbers
  <2>1. item[c].status \in StepStatus /\ item[c].frame \in 0 .. setting.frames
    BY <1>0 DEF ItemRecords
  <2>2. /\ item[c].status # "NO_OUTPUT"
        /\ item[c].status = "SUCCESS" => item[c].frame # 0
    BY <1>0, <1>1 DEF WorkInHand
  <2>3. st # "FLUSH"
    BY DEF LoopInvariant, NoFlush
  <2> QED
    BY <1>0, <2>1, <2>2, <2>3, SettingTypes DEF EdgeStatus, FrameNumbers
<1>4. /\ n \in Nat /\ Len(f.status) = n + 1
      /\ ~f.no_more_input
      /\ \A j \in 1 .. n : f.status[j] = e.status[j]
      /\ f.status[n + 1] = st
      /\ \A j \in 1 .. n : e.status[j] = "SUCCESS" => ValueAt(f, j) = ValueAt(e, j)
      /\ st = "SUCCESS" => ValueAt(f, n + 1) = item[c].frame
  <2>1. Paired(e, FrameNumbers)
    BY <1>0, <1>2 DEF DataTyped
  <2>2. f = Stored(Flushed(e, st), st, item[c].frame) /\ n = Len(e.status)
    OBVIOUS
  <2> HIDE DEF e, st, f, n
  <2> QED
    BY <1>3, <2>1, <2>2, UnflushedStored
<1>5. to \in {"in", "ended"} /\ (to = "ended" <=> st = "FAILURE")
  OBVIOUS
<1> HIDE DEF f, to
<1>7. /\ edge'[c] = f
      /\ \A s \in Segments : s # c => edge'[s] = edge[s]
  BY <1>0, <1>1, <1>2 DEF DataTyped
<1>8. /\ pc'[c] = to /\ pc'[Feeder] = pc[Feeder] /\ pc'[Main] = pc[Main]
      /\ \A d \in Cells : d # c => pc'[d] = pc[d]
  BY <1>0, <1>1, <1>2, GoesTo
<1>9. /\ Lanes' = Lanes /\ Cells' = Cells /\ Segments' = Segments
      /\ InnerThreads' = InnerThreads /\ Feeder' = Feeder /\ Main' = Main
      /\ \A l : PadEdge(l)' = PadEdge(l)
      /\ \A d : InEdge(d)' = InEdge(d)
  BY <1>1, SameSetting DEF Feeder, Main
<1>t. /\ g \in Seq(Nat) /\ Len(g) \in Nat /\ r \in Nat
      /\ took \in [Segments -> Nat]
      /\ \A s \in Segments : took[s] \in Nat /\ Len(edge[s].status) \in Nat
      /\ LanesAligned(g, took, r) /\ ValuesAligned(g, took)
      /\ setting.forwarding => ForwardingAligned(g, r)
      /\ ~setting.forwarding => QueueAligned(g, r)
  BY <1>0, AlignmentTypes
<1>e. /\ \A l : Given(l)' = Given(l) /\ ReadFrom(l)' = ReadFrom(l)
      /\ ForwardingAligned(g, r)' = ForwardingAligned(g, r)
      /\ QueueAligned(g, r)' = QueueAligned(g, r)
  BY <1>1, <1>8, EndsStay
(* What was in the way: nothing has come after a FAILURE of the last node. *)
<1>f. ASSUME NEW l \in Lanes, PadEdge(l) = c
      PROVE  /\ \A i \in 1 .. n : e.status[i] # "FAILURE"
             /\ ~e.no_more_input
  BY <1>1, <1>f DEF LoopInvariant, FailureIsLast
<1>10. LoopInvariant'
  <2>1. FeederInvariant'
    BY <1>1, <1>8, <1>9 DEF LoopInvariant, FeederInvariant
  <2>2. NoFlush'
    <3>1. ASSUME NEW s \in Segments, NEW i \in 1 .. Len(edge'[s].status)
          PROVE  edge'[s].status[i] # "FLUSH"
      <4>1. CASE s = c
        <5>1. i \in 1 .. n \/ i = n + 1
          BY <1>4, <1>7, <4>1
        <5> QED
          BY <1>2, <1>3, <1>4, <1>7, <4>1, <5>1 DEF LoopInvariant, NoFlush
      <4>2. CASE s # c
        BY <1>7, <4>2 DEF LoopInvariant, NoFlush
      <4> QED
        BY <4>1, <4>2
    <3> QED
      BY <1>1, <1>9, <3>1 DEF NoFlush, LoopInvariant
  <2>a. \A d \in Cells : pc'[d] \in {"none", "in"} => item'[d].status # "FAILURE"
    BY <1>1, <1>5, <1>8 DEF LoopInvariant
  <2>3. \A d \in Cells : ClosedBehind(d)'
    <3>1. ASSUME NEW d \in Cells
          PROVE  ClosedBehind(d)'
      <4>1. ClosedBehind(d) /\ InEdge(d) \in Segments
        BY <1>2 DEF LoopInvariant
      <4>2. edge'[InEdge(d)].no_more_input => edge[InEdge(d)].no_more_input
        BY <1>4, <1>7, <4>1
      <4> QED
        BY <1>1, <1>5, <1>8, <1>9, <4>1, <4>2 DEF ClosedBehind
    <3> QED
      BY <3>1
  <2>4. \A l \in Lanes : FailureIsLast(PadEdge(l))'
    <3>1. ASSUME NEW l \in Lanes
          PROVE  FailureIsLast(PadEdge(l))'
      <4>1. PadEdge(l) \in Cells /\ PadEdge(l) \in Segments /\ FailureIsLast(PadEdge(l))
        BY <1>2 DEF LoopInvariant
      <4>2. CASE PadEdge(l) # c
        BY <1>1, <1>7, <1>8, <1>9, <4>1, <4>2 DEF FailureIsLast
      <4>3. CASE PadEdge(l) = c
        <5>1. \A i \in 1 .. Len(f.status) : i \in 1 .. n \/ i = Len(f.status)
          BY <1>4
        <5>2. \A i \in 1 .. Len(f.status) : f.status[i] = "FAILURE" =>
                i = Len(f.status) /\ pc'[c] = "ended" /\ item'[c].status = "FAILURE"
          BY <1>1, <1>4, <1>5, <1>8, <1>f, <4>3, <5>1
        <5> QED
          BY <1>4, <1>7, <1>9, <4>3, <5>2 DEF FailureIsLast
      <4> QED
        BY <4>2, <4>3
    <3> QED
      BY <3>1
  <2>5. setting.lanes = 1 => (edge'[PadEdge(1)].no_more_input <=> pc'[Main] = "recover")
    <3>1. ASSUME setting.lanes = 1
          PROVE  edge'[PadEdge(1)].no_more_input <=> edge[PadEdge(1)].no_more_input
      <4>1. 1 \in Lanes /\ PadEdge(1) \in Segments
        BY <1>0, <1>2, LaneParts
      <4> QED
        BY <1>4, <1>7, <1>f, <4>1
    <3> QED
      BY <1>8, <3>1 DEF LoopInvariant
  <2> QED
    BY <1>1, <1>8, <1>9, <2>1, <2>2, <2>a, <2>3, <2>4, <2>5 DEF LoopInvariant
<1>11. PadsInvariant'
  BY <1>1, <1>8, <1>9 DEF PadsInvariant, PadRead, LaneFailed
<1>s. took[InEdge(c)] = took[c] + n + 1 /\ took[InEdge(c)] <= Len(g)
  <2>1. took[InEdge(c)] = took[c] + n + One(pc[c] = "out")
    BY <1>t DEF LanesAligned
  <2>2. took[InEdge(c)] + Len(edge[InEdge(c)].status) <= Len(g)
    BY <1>2, <1>t DEF LanesAligned
  <2>3. took[InEdge(c)] \in Nat /\ Len(edge[InEdge(c)].status) \in Nat /\ took[c] \in Nat
    BY <1>2, <1>t
  <2>4. One(pc[c] = "out") = 1
    BY <1>1 DEF One
  <2>5. took[InEdge(c)] = took[c] + n + 1
    BY <2>1, <2>4
  <2> DEFINE before == took[InEdge(c)]
             queued == Len(edge[InEdge(c)].status)
  <2>6. before + queued <= Len(g) /\ before \in Nat /\ queued \in Nat
    BY <2>2, <2>3
  <2>7. before <= Len(g)
    <3> HIDE DEF before, queued
    <3> QED
      BY <1>t, <2>6
  <2> QED
    BY <2>5, <2>7
<1>12. LanesAligned(g, took, r)'
  <2>2. \A s \in Segments : took[s] + Len(edge'[s].status) <= Len(g)
    <3>1. took[c] + Len(edge'[c].status) <= Len(g)
      <4>1. took[c] \in Nat /\ Len(edge'[c].status) = n + 1
        BY <1>2, <1>4, <1>7, <1>t
      <4> HIDE DEF n
      <4> QED
        BY <1>4, <1>s, <1>t, <4>1
    <3> QED
      BY <1>7, <1>t, <3>1 DEF LanesAligned
  <2>3. ASSUME NEW d \in Cells
        PROVE  took[InEdge(d)] = took[d] + Len(edge'[d].status) + One(pc'[d] = "out")
    <3>1. CASE d = c
      <4>1. One(pc'[c] = "out") = 0 /\ Len(edge'[c].status) = n + 1 /\ took[c] \in Nat
        BY <1>2, <1>4, <1>5, <1>7, <1>8, <1>t DEF One
      <4> HIDE DEF n
      <4> QED
        BY <1>4, <1>s, <3>1, <4>1
    <3>2. CASE d # c
      BY <1>2, <1>7, <1>8, <1>t, <3>2 DEF LanesAligned
    <3> QED
      BY <3>1, <3>2
  <2>4. ASSUME NEW l \in Lanes, setting.lanes = 1 \/ ~edge'[PadEdge(l)].no_more_input
        PROVE  took[PadEdge(l)] = r + ReadFrom(l)
    BY <1>2, <1>4, <1>7, <1>f, <1>t, <2>4 DEF LanesAligned
  <2>5. \A l \in Lanes : edge'[<< l, 0 >>] = edge[<< l, 0 >>]
    BY <1>2, <1>7
  <2> QED
    BY <1>1, <1>9, <1>t, <1>e, <2>2, <2>3, <2>4, <2>5 DEF LanesAligned
<1>13. ValuesAligned(g, took)'
  <2>2. ASSUME NEW s \in Segments, NEW i \in 1 .. Len(edge'[s].status),
               edge'[s].status[i] = "SUCCESS"
        PROVE  ValueAt(edge'[s], i) = g[took[s] + i]
    <3>1. CASE s = c
      <4>1. i \in 1 .. n \/ i = n + 1
        BY <1>4, <1>7, <3>1
      <4>2. CASE i \in 1 .. n
        BY <1>2, <1>4, <1>7, <1>t, <2>2, <3>1, <4>2 DEF ValuesAligned
      <4>3. CASE i = n + 1
        <5>1. st = "SUCCESS" /\ ValueAt(f, i) = item[c].frame
          BY <1>4, <1>7, <2>2, <3>1, <4>3
        <5>2. item[c].frame = g[took[InEdge(c)]]
          BY <1>1, <1>t, <5>1 DEF ValuesAligned
        <5>3. took[InEdge(c)] = took[c] + i
          <6>1. took[c] \in Nat
            BY <1>2, <1>t
          <6> HIDE DEF n
          <6> QED
            BY <1>4, <1>s, <4>3, <6>1
        <5> QED
          BY <1>7, <3>1, <5>1, <5>2, <5>3
      <4> QED
        BY <4>1, <4>2, <4>3
    <3>2. CASE s # c
      <4>1. /\ edge'[s] = edge[s] /\ i \in 1 .. Len(edge[s].status)
            /\ edge[s].status[i] = "SUCCESS"
        BY <1>7, <2>2, <3>2
      <4>2. ValueAt(edge[s], i) = g[took[s] + i]
        BY <1>t, <4>1 DEF ValuesAligned
      <4> QED
        BY <4>1, <4>2
    <3> QED
      BY <3>1, <3>2
  <2>4. ASSUME NEW d \in Cells, pc'[d] = "out", item'[d].status = "SUCCESS"
        PROVE  item'[d].frame = g[took[InEdge(d)]]
    BY <1>1, <1>5, <1>8, <1>t, <2>4 DEF ValuesAligned
  <2> QED
    BY <1>9, <2>2, <2>4 DEF ValuesAligned
<1>14. Alignment(g, took, r)'
  BY <1>1, <1>9, <1>12, <1>13, <1>t, <1>e DEF Alignment
<1> QED
  BY <1>10, <1>11, <1>14 DEF Aligned

LEMMA IndexBound ==
  ASSUME NEW a \in Nat, NEW m \in Nat, NEW n \in Nat, a + m <= n, NEW i \in 1 .. m
  PROVE  a + i \in 1 .. n
OBVIOUS

(* The edges and the inner nodes stay as they are, but that some node may  *)
(* begin; the feeder may have more to give.                                *)
LEMMA LanesStay ==
  ASSUME SuperTyped, LoopInvariant, UNCHANGED << setting, edge, item >>,
         \A c \in Cells : \/ pc'[c] = pc[c]
                          \/ /\ pc[c] # "out" /\ pc'[c] = "in"
                             /\ item[c].status # "FAILURE",
         NEW g, NEW took, NEW r, Alignment(g, took, r),
         NEW g2 \in Seq(Nat), Len(g) <= Len(g2),
         \A k \in 1 .. Len(g) : g2[k] = g[k],
         \A l \in Lanes : Len(g2) - Given(l)' = Len(g) - Given(l),
         \A l \in Lanes : ReadFrom(l)' = ReadFrom(l)
  PROVE  /\ NoFlush'
         /\ (\A c \in Cells : pc[c] \in {"none", "in"} => item[c].status # "FAILURE")'
         /\ (\A c \in Cells : ClosedBehind(c))'
         /\ (\A l \in Lanes : FailureIsLast(PadEdge(l)))'
         /\ LanesAligned(g2, took, r)' /\ ValuesAligned(g2, took)'
<1>0. setting \in Settings /\ DataTyped
  BY DEF SuperTyped, DataTyped
<1>t. /\ g \in Seq(Nat) /\ Len(g) \in Nat /\ Len(g2) \in Nat /\ r \in Nat
      /\ \A s \in Segments : took[s] \in Nat /\ Len(edge[s].status) \in Nat
      /\ LanesAligned(g, took, r) /\ ValuesAligned(g, took)
  BY <1>0, AlignmentTypes
<1>1. /\ Lanes' = Lanes /\ Cells' = Cells /\ Segments' = Segments
      /\ \A l : PadEdge(l)' = PadEdge(l)
      /\ \A d : InEdge(d)' = InEdge(d)
  BY SameSetting
<1>2. /\ \A c \in Cells : InEdge(c) \in Segments /\ c \in Segments
      /\ \A l \in Lanes : PadEdge(l) \in Cells
  BY <1>0, LaneParts
<1>3. NoFlush'
  BY <1>1 DEF LoopInvariant, NoFlush
<1>4. \A c \in Cells : pc'[c] \in {"none", "in"} => item'[c].status # "FAILURE"
  BY DEF LoopInvariant
<1>5. ASSUME NEW c \in Cells
      PROVE  ClosedBehind(c)'
  <2>1. ClosedBehind(c)
    BY DEF LoopInvariant
  <2> QED
    BY <1>1, <2>1 DEF ClosedBehind
<1>6. ASSUME NEW c \in Cells, FailureIsLast(c)
      PROVE  FailureIsLast(c)'
  <2>1. item[c].status = "FAILURE" => pc'[c] = pc[c]
    OBVIOUS
  <2> QED
    BY <1>6, <2>1 DEF FailureIsLast
<1>7. \A l \in Lanes : FailureIsLast(PadEdge(l))'
  BY <1>1, <1>2, <1>6 DEF LoopInvariant
<1>8. ASSUME NEW c \in Cells
      PROVE  One(pc'[c] = "out") = One(pc[c] = "out")
  BY DEF One
<1>9. LanesAligned(g2, took, r)'
  <2>1. \A s \in Segments : took[s] + Len(edge'[s].status) <= Len(g2)
    BY <1>t DEF LanesAligned
  <2>2. \A l \in Lanes :
          took[<< l, 0 >>] + Len(edge'[<< l, 0 >>].status) = Len(g2) - Given(l)'
    BY <1>t DEF LanesAligned
  <2>3. \A c \in Cells :
          took[InEdge(c)] = took[c] + Len(edge'[c].status) + One(pc'[c] = "out")
    BY <1>t, <1>8 DEF LanesAligned
  <2>4. \A l \in Lanes : setting.lanes = 1 \/ ~edge'[PadEdge(l)].no_more_input =>
          took[PadEdge(l)] = r + ReadFrom(l)'
    BY <1>t DEF LanesAligned
  <2> QED
    BY <1>1, <2>1, <2>2, <2>3, <2>4 DEF LanesAligned
<1>10. ValuesAligned(g2, took)'
  <2>1. ASSUME NEW s \in Segments, NEW i \in 1 .. Len(edge[s].status),
               edge[s].status[i] = "SUCCESS"
        PROVE  ValueAt(edge[s], i) = g2[took[s] + i]
    <3>1. took[s] + Len(edge[s].status) <= Len(g)
      BY <1>t DEF LanesAligned
    <3>2. took[s] \in Nat /\ Len(edge[s].status) \in Nat
      BY <1>t
    <3>3. took[s] + i \in 1 .. Len(g)
      BY <1>t, <3>1, <3>2, IndexBound
    <3> QED
      BY <1>t, <2>1, <3>3 DEF ValuesAligned
  <2>2. ASSUME NEW c \in Cells, pc'[c] = "out", item[c].status = "SUCCESS"
        PROVE  item[c].frame = g2[took[InEdge(c)]]
    <3>0. pc[c] = "out"
      BY <2>2
    <3>1. /\ took[InEdge(c)] = took[c] + Len(edge[c].status) + 1
          /\ took[InEdge(c)] + Len(edge[InEdge(c)].status) <= Len(g)
      BY <1>2, <1>t, <3>0 DEF LanesAligned, One
    <3>2. /\ took[c] \in Nat /\ Len(edge[c].status) \in Nat
          /\ took[InEdge(c)] \in Nat /\ Len(edge[InEdge(c)].status) \in Nat
      BY <1>2, <1>t
    <3> DEFINE before == took[InEdge(c)]
               after == took[c]
               queued == Len(edge[c].status)
               coming == Len(edge[InEdge(c)].status)
    <3>3. before \in 1 .. Len(g)
      <4>1. /\ before = after + queued + 1 /\ before + coming <= Len(g)
            /\ after \in Nat /\ queued \in Nat /\ before \in Nat /\ coming \in Nat
        BY <3>1, <3>2
      <4>2. Len(g) \in Nat
        BY <1>t
      <4> HIDE DEF before, after, queued, coming
      <4> QED
        BY <4>1, <4>2
    <3> QED
      BY <1>t, <2>2, <3>0, <3>3 DEF ValuesAligned
  <2> QED
    BY <1>1, <2>1, <2>2 DEF ValuesAligned
<1> QED
  BY <1>1, <1>3, <1>4, <1>5, <1>7, <1>9, <1>10

(* Main stays where it is. *)
LEMMA MainStays ==
  ASSUME UNCHANGED << setting, item, main >>, pc'[Main] = pc[Main]
  PROVE  /\ PadsInvariant' = PadsInvariant /\ ReadingPads' = ReadingPads
         /\ \A l : ReadFrom(l)' = ReadFrom(l)
<1>1. Main' = Main /\ Lanes' = Lanes /\ Cells' = Cells
  BY SameSetting DEF Main
<1> QED
  BY <1>1 DEF PadsInvariant, PadRead, LaneFailed, ReadingPads, ReadFrom

(* The feeder goes on, and gives nothing to the lanes for now. *)
LEMMA FeederAligned ==
  ASSUME SuperTyped, LoopInvariant, PadsInvariant,
         UNCHANGED << setting, edge, item, main, interrupted >>,
         NEW to, Goes(Feeder, to), FeederInvariant',
         NEW g, NEW took, NEW r, Alignment(g, took, r),
         NEW g2 \in Seq(Nat), Len(g) <= Len(g2),
         \A k \in 1 .. Len(g) : g2[k] = g[k],
         \A l \in Lanes : Len(g2) - Given(l)' = Len(g) - Given(l),
         setting.forwarding => ForwardingAligned(g2, r)',
         ~setting.forwarding => QueueAligned(g2, r)'
  PROVE  LoopInvariant' /\ PadsInvariant' /\ Aligned'
<1>0. setting \in Settings /\ PlacesTyped /\ DOMAIN pc = Threads
  BY DEF SuperTyped, DataTyped, PlacesTyped
<1>1. /\ pc'[Main] = pc[Main] /\ \A c \in Cells : pc'[c] = pc[c]
  BY <1>0, Names, GoesTo
<1>2. /\ PadsInvariant' /\ \A l : ReadFrom(l)' = ReadFrom(l)
  BY <1>1, MainStays
<1>3. /\ NoFlush'
      /\ (\A c \in Cells : pc[c] \in {"none", "in"} => item[c].status # "FAILURE")'
      /\ (\A c \in Cells : ClosedBehind(c))'
      /\ (\A l \in Lanes : FailureIsLast(PadEdge(l)))'
      /\ LanesAligned(g2, took, r)' /\ ValuesAligned(g2, took)'
  BY <1>1, <1>2, LanesStay
<1>4. /\ Segments' = Segments /\ Main' = Main /\ InnerThreads' = InnerThreads
      /\ PadEdge(1)' = PadEdge(1)
  BY SameSetting DEF Main
<1>5. LoopInvariant'
  BY <1>1, <1>3, <1>4 DEF LoopInvariant
<1>6. Alignment(g2, took, r)'
  BY <1>3, <1>4 DEF Alignment
<1> QED
  BY <1>2, <1>5, <1>6 DEF Aligned

(* The parts of the feeder. *)
LEMMA FeederParts ==
  ASSUME setting \in Settings, DataTyped
  PROVE  /\ feeder \in FeederRecords
         /\ feeder.status \in EdgeStatus /\ feeder.arrived \in Nat /\ feeder.lane \in Lanes
         /\ main \in MainRecords /\ main.round \in Nat /\ main.lane \in Lanes
         /\ edge_status_queue \in Seq(EdgeStatus) /\ Len(edge_status_queue) \in Nat
         /\ item \in [Cells -> ItemRecords]
BY DEF DataTyped, FeederRecords, MainRecords

(* Where the queue speaks of the numbers. *)
LEMMA QueueIndex ==
  ASSUME DataTyped, NEW r \in Nat, NEW n \in Nat,
         n = r + ReadingPads + Successes(edge_status_queue) + One(FeedsSuccess)
  PROVE  /\ Successes(edge_status_queue) \in Nat
         /\ ReadingPads \in {0, 1} /\ One(FeedsSuccess) \in {0, 1}
         /\ pc[Main] = "pads" => r + 1 \in 1 .. n
         /\ \A i \in 1 .. Len(edge_status_queue) :
              edge_status_queue[i] = "SUCCESS" =>
                /\ Cardinality(SuccessesUpTo(edge_status_queue, i)) \in Nat
                /\ r + ReadingPads + Cardinality(SuccessesUpTo(edge_status_queue, i)) \in 1 .. n
<1> DEFINE q == edge_status_queue
<1>1. q \in Seq(EdgeStatus) /\ Len(q) \in Nat
  BY FeederParts DEF DataTyped
<1>2. /\ Successes(q) \in Nat /\ Successes(q) = Cardinality(SuccessesUpTo(q, Len(q)))
  BY <1>1, CountType DEF Successes
<1>3. ReadingPads \in {0, 1} /\ One(FeedsSuccess) \in {0, 1}
  BY DEF ReadingPads, One
<1>4. pc[Main] = "pads" => ReadingPads = 1
  BY DEF ReadingPads, One
<1>5. ASSUME NEW i \in 1 .. Len(q), q[i] = "SUCCESS"
      PROVE  /\ Cardinality(SuccessesUpTo(q, i)) \in Nat
             /\ Cardinality(SuccessesUpTo(q, i)) >= 1
             /\ Cardinality(SuccessesUpTo(q, i)) <= Successes(q)
  <2>1. i \in 0 .. Len(q) /\ i > 0 /\ i \in Nat
    BY <1>1
  <2> QED
    BY <1>1, <1>2, <1>5, <2>1, CountType, CountMonotone
<1> HIDE DEF q
<1>6. ASSUME NEW i \in 1 .. Len(q), q[i] = "SUCCESS"
      PROVE  r + ReadingPads + Cardinality(SuccessesUpTo(q, i)) \in 1 .. n
  <2> DEFINE k == Cardinality(SuccessesUpTo(q, i))
             m == Successes(q)
  <2>1. k \in Nat /\ k >= 1 /\ k <= m /\ m \in Nat /\ n = r + ReadingPads + m + One(FeedsSuccess)
    BY <1>2, <1>5, <1>6 DEF q
  <2> HIDE DEF k, m
  <2>2. r + ReadingPads + k \in 1 .. n
    BY <1>3, <2>1
  <2> QED
    BY <2>2 DEF k
<1>7. pc[Main] = "pads" => r + 1 \in 1 .. n
  BY <1>2, <1>3, <1>4 DEF q
<1> QED
  BY <1>2, <1>3, <1>5, <1>6, <1>7 DEF q

(* The feeder begins, or ends. *)
LEMMA FeederTurns ==
  ASSUME SuperTyped, LoopInvariant, PadsInvariant,
         FeederBegins \/ FeederFails \/ FeederLeaves,
         NEW g, NEW took, NEW r, Alignment(g, took, r)
  PROVE  LoopInvariant' /\ PadsInvariant' /\ Aligned'
<1>0. setting \in Settings /\ DataTyped /\ PlacesTyped /\ DOMAIN pc = Threads
      /\ feeder \in FeederRecords
  BY DEF SuperTyped, DataTyped, PlacesTyped
<1>1. PICK to \in {"in", "leave", "ended"} :
        /\ Goes(Feeder, to)
        /\ pc[Feeder] \in {"begin", "fail", "leave"}
        /\ to = "in" <=> pc[Feeder] = "begin"
        /\ feeder'.status = feeder.status /\ feeder'.arrived = feeder.arrived
        /\ feeder'.lane = feeder.lane
        /\ UNCHANGED << setting, edge, item, main, edge_status_queue, interrupted >>
  BY <1>0 DEF FeederBegins, FeederFails, FeederLeaves, FeederRecords
<1>2. pc'[Feeder] = to /\ pc'[Main] = pc[Main] /\ Feeder' = Feeder /\ Main' = Main
  BY <1>0, <1>1, Names, GoesTo DEF Feeder, Main
<1>3. FeederInvariant'
  BY <1>1, <1>2 DEF LoopInvariant, FeederInvariant
<1>4. /\ ReadingPads' = ReadingPads /\ \A l : Given(l)' = Given(l)
      /\ ~FeedsSuccess /\ ~FeedsSuccess'
      /\ One(pc'[Feeder] \in {"pads", "queue"}) = One(pc[Feeder] \in {"pads", "queue"})
      /\ One(FeedsSuccess') = One(FeedsSuccess)
  BY <1>1, <1>2 DEF ReadingPads, Given, FeedsSuccess, One
<1>t. /\ g \in Seq(Nat) /\ Len(g) \in Nat
      /\ setting.forwarding => ForwardingAligned(g, r)
      /\ ~setting.forwarding => QueueAligned(g, r)
  BY <1>0, AlignmentTypes
<1>5. setting.forwarding => ForwardingAligned(g, r)'
  BY <1>1, <1>4, <1>t DEF ForwardingAligned
<1>6. ~setting.forwarding => QueueAligned(g, r)'
  BY <1>1, <1>2, <1>4, <1>t DEF QueueAligned, Successes
<1> QED
  BY <1>1, <1>3, <1>4, <1>t, <1>5, <1>6, FeederAligned

(* The next frame has arrived, or their end: it is given its number. *)
LEMMA TakeFrameAligned ==
  ASSUME SuperTyped, Counted, LoopInvariant, PadsInvariant, TakeFrame,
         NEW g, NEW took, NEW r, Alignment(g, took, r)
  PROVE  LoopInvariant' /\ PadsInvariant' /\ Aligned'
<1>0. setting \in Settings /\ DataTyped /\ PlacesTyped /\ DOMAIN pc = Threads
      /\ feeder \in FeederRecords
  BY DEF SuperTyped, DataTyped, PlacesTyped
<1>1. PICK st \in IF feeder.arrived < setting.frames THEN setting.source ELSE {"FAILURE"} :
        /\ feeder' = [feeder EXCEPT !.status = st, !.lane = 1,
             !.arrived = IF st = "FAILURE" THEN @ ELSE @ + 1]
        /\ Goes(Feeder, IF st = "SUCCESS" \/ setting.forwarding THEN "pads" ELSE "queue")
  BY DEF TakeFrame
<1>a. PICK to : to = IF st = "SUCCESS" \/ setting.forwarding THEN "pads" ELSE "queue"
  OBVIOUS
<1>b. PICK v : v = IF setting.forwarding THEN Len(g) + 1 ELSE feeder'.arrived
  OBVIOUS
<1>c. PICK g2 : g2 = IF to = "pads" THEN Append(g, v) ELSE g
  OBVIOUS
<1>2. /\ pc[Feeder] = "in" /\ feeder.status # "FAILURE"
      /\ UNCHANGED << setting, edge, item, main, edge_status_queue, interrupted >>
      /\ feeder'.status = st /\ feeder'.lane = 1
      /\ feeder'.arrived = IF st = "FAILURE" THEN feeder.arrived ELSE feeder.arrived + 1
      /\ setting.forwarding => st # "FLUSH"
  BY <1>0, <1>1, SettingTypes
     DEF TakeFrame, At, LoopInvariant, FeederInvariant, Counted, FeederRecords
<1>3. pc'[Feeder] = to /\ pc'[Main] = pc[Main] /\ Feeder' = Feeder /\ Main' = Main
  BY <1>0, <1>1, <1>a, Names, GoesTo DEF Feeder, Main
<1>4. FeederInvariant'
  BY <1>2, <1>3, <1>a DEF FeederInvariant
<1>t. /\ g \in Seq(Nat) /\ Len(g) \in Nat /\ r \in Nat
      /\ setting.forwarding => ForwardingAligned(g, r)
      /\ ~setting.forwarding => QueueAligned(g, r)
  BY <1>0, AlignmentTypes
<1>5. feeder.arrived \in Nat /\ feeder'.arrived \in Nat
  BY <1>0, <1>2, FeederParts
<1>6. v \in Nat
  BY <1>5, <1>t, <1>b
<1>7. /\ g2 \in Seq(Nat) /\ Len(g) <= Len(g2)
      /\ Len(g2) = Len(g) + One(to = "pads")
      /\ \A k \in 1 .. Len(g) : g2[k] = g[k]
      /\ to = "pads" => g2[Len(g2)] = v
  <2>1. CASE to = "pads"
    <3> QED
      BY <1>6, <1>t, <1>c, <2>1, AppendProperties DEF One
  <2>2. CASE to # "pads"
    BY <1>t, <1>c, <2>2 DEF One
  <2> QED
    BY <2>1, <2>2
<1>8. /\ ReadingPads' = ReadingPads /\ \A l : Given(l) = 0
      /\ \A l \in Lanes : Given(l)' = One(to = "pads")
      /\ ~FeedsSuccess /\ One(FeedsSuccess) = 0
      /\ FeedsSuccess' <=> st = "SUCCESS"
  <2>1. \A l \in Lanes : 1 <= l
    BY <1>0, SettingTypes DEF Lanes
  <2> QED
    <3>1. ReadingPads' = ReadingPads /\ \A l : Given(l) = 0
      BY <1>2, <1>3 DEF ReadingPads, Given, One
    <3>2. \A l \in Lanes : Given(l)' = One(to = "pads")
      BY <1>2, <1>3, <2>1 DEF Given, One
    <3>3. ~FeedsSuccess /\ One(FeedsSuccess) = 0
      BY <1>2 DEF FeedsSuccess, One
    <3>4. FeedsSuccess' <=> st = "SUCCESS"
      BY <1>2, <1>3, <1>a DEF FeedsSuccess
    <3> QED
      BY <3>1, <3>2, <3>3, <3>4
<1>9. /\ to \in {"pads", "queue"}
      /\ (~setting.forwarding => (to = "pads" <=> st = "SUCCESS"))
      /\ setting.forwarding => to = "pads"
  BY <1>a
<1>10. setting.forwarding => ForwardingAligned(g2, r)'
  <2>1. ASSUME setting.forwarding
        PROVE  ForwardingAligned(g2, r)'
    <3>1. /\ Len(g) = feeder.arrived /\ \A k \in 1 .. Len(g) : g[k] = k
          /\ main.round = r + ReadingPads
      BY <1>2, <1>5, <1>t, <2>1 DEF ForwardingAligned, One
    <3>a. One(to = "pads") = 1
      BY <1>9, <2>1 DEF One
    <3>2. Len(g2) = Len(g) + 1 /\ g2[Len(g2)] = Len(g) + 1
      BY <1>7, <1>9, <1>b, <2>1, <3>a
    <3>3. Len(g2) = feeder'.arrived + One(feeder'.status = "FAILURE")
      BY <1>2, <1>5, <3>1, <3>2 DEF One
    <3>4. \A k \in 1 .. Len(g2) : g2[k] = k
      BY <1>7, <1>t, <3>1, <3>2
    <3> QED
      BY <1>2, <1>8, <3>1, <3>3, <3>4 DEF ForwardingAligned
  <2> QED
    BY <2>1
<1>11. ~setting.forwarding => QueueAligned(g2, r)'
  <2>1. ASSUME ~setting.forwarding
        PROVE  QueueAligned(g2, r)'
    <3> DEFINE taken == main.round - One(pc[Main] = "status")
               asked == r + ReadingPads
               q     == edge_status_queue
    <3>1. /\ Len(g) = asked + Successes(q) + One(FeedsSuccess)
          /\ pc[Main] = "pads" => g[r + 1] = main.round
          /\ \A i \in 1 .. Len(q) :
               q[i] = "SUCCESS" => g[asked + Cardinality(SuccessesUpTo(q, i))] = taken + i
          /\ taken + Len(q) = feeder.arrived - One(pc[Feeder] \in {"pads", "queue"})
      BY <1>2, <1>t, <2>1 DEF QueueAligned
    <3>2. /\ Successes(q) \in Nat
          /\ pc[Main] = "pads" => r + 1 \in 1 .. Len(g)
          /\ \A i \in 1 .. Len(q) :
               q[i] = "SUCCESS" => asked + Cardinality(SuccessesUpTo(q, i)) \in 1 .. Len(g)
      BY <1>0, <1>t, <3>1, QueueIndex
    <3>3. /\ Len(g2) = asked + Successes(q) + One(FeedsSuccess')
          /\ FeedsSuccess' => g2[Len(g2)] = feeder'.arrived
      <4>1. One(to = "pads") = One(FeedsSuccess')
        BY <1>8, <1>9, <2>1, Zenon DEF One
      <4>a. asked \in Nat
        BY <1>t DEF One, ReadingPads
      <4>2. Len(g) = asked + Successes(q)
        BY <1>8, <3>1, <3>2, <4>a
      <4> QED
        <5>1. Len(g2) = asked + Successes(q) + One(FeedsSuccess')
          BY <1>7, <4>1, <4>2
        <5>2. FeedsSuccess' => g2[Len(g2)] = feeder'.arrived
          BY <1>7, <1>8, <1>9, <1>b, <2>1
        <5> QED
          BY <5>1, <5>2
    <3>4. /\ pc[Main] = "pads" => g2[r + 1] = main.round
          /\ \A i \in 1 .. Len(q) :
               q[i] = "SUCCESS" => g2[asked + Cardinality(SuccessesUpTo(q, i))] = taken + i
      <4> HIDE DEF asked, taken, q
      <4> QED
        BY <1>7, <3>1, <3>2
    <3>5. feeder'.status # "FAILURE" =>
            taken + Len(q) = feeder'.arrived - One(pc'[Feeder] \in {"pads", "queue"})
      <4>1. One(pc[Feeder] \in {"pads", "queue"}) = 0
        BY <1>2 DEF One
      <4>2. One(pc'[Feeder] \in {"pads", "queue"}) = 1
        BY <1>3, <1>9 DEF One
      <4>3. taken + Len(q) = feeder.arrived - 0
        BY <3>1, <4>1
      <4> HIDE DEF taken, q
      <4> QED
        BY <1>2, <1>5, <4>2, <4>3
    <3> QED
      BY <1>2, <1>3, <1>8, <3>3, <3>4, <3>5 DEF QueueAligned, Successes
  <2> QED
    BY <2>1
<1>12. \A l \in Lanes : Len(g2) - Given(l)' = Len(g) - Given(l)
  <2>1. One(to = "pads") \in {0, 1}
    BY DEF One
  <2> QED
    BY <1>7, <1>8, <1>t, <2>1
<1> QED
  BY <1>1, <1>a, <1>2, <1>4, <1>7, <1>10, <1>11, <1>12, FeederAligned

(* The status of the frame is queued, when all pads have been fed.         *)
LEMMA QueueStatusAligned ==
  ASSUME SuperTyped, LoopInvariant, PadsInvariant, QueueStatus,
         NEW g, NEW took, NEW r, Alignment(g, took, r)
  PROVE  LoopInvariant' /\ PadsInvariant' /\ Aligned'
<1> DEFINE q  == edge_status_queue
           st == feeder.status
           to == FeederHead(feeder.status)
<1>0. /\ setting \in Settings /\ DataTyped /\ PlacesTyped /\ DOMAIN pc = Threads
      /\ q \in Seq(EdgeStatus) /\ Len(q) \in Nat /\ st \in EdgeStatus
      /\ feeder.arrived \in Nat /\ main.round \in Nat
  BY FeederParts DEF SuperTyped, DataTyped, PlacesTyped
<1>1. /\ pc[Feeder] = "queue" /\ ~setting.forwarding
      /\ UNCHANGED << setting, edge, item, feeder, main, interrupted >>
      /\ edge_status_queue' = Append(q, st)
      /\ Goes(Feeder, to)
  BY DEF QueueStatus, At, LoopInvariant, FeederInvariant
<1>2. to \in {"fail", "in"} /\ (to = "fail" <=> st = "FAILURE")
  BY DEF FeederHead
<1> HIDE DEF to
<1>3. pc'[Feeder] = to /\ pc'[Main] = pc[Main] /\ Feeder' = Feeder /\ Main' = Main
  BY <1>0, <1>1, Names, GoesTo DEF Feeder, Main
<1>4. FeederInvariant'
  BY <1>1, <1>2, <1>3 DEF FeederInvariant
<1>t. /\ g \in Seq(Nat) /\ Len(g) \in Nat /\ r \in Nat
      /\ QueueAligned(g, r)
  BY <1>0, <1>1, AlignmentTypes
<1>5. /\ ReadingPads' = ReadingPads /\ \A l : Given(l)' = Given(l)
      /\ FeedsSuccess <=> st = "SUCCESS"
      /\ ~FeedsSuccess'
  BY <1>1, <1>2, <1>3 DEF ReadingPads, Given, FeedsSuccess
<1> DEFINE taken == main.round - One(pc[Main] = "status")
           asked == r + ReadingPads
           n     == Len(q)
           q2    == Append(q, st)
<1>6. /\ Len(g) = asked + Successes(q) + One(FeedsSuccess)
      /\ FeedsSuccess => g[Len(g)] = feeder.arrived
      /\ pc[Main] = "pads" => g[r + 1] = main.round
      /\ \A i \in 1 .. n :
           q[i] = "SUCCESS" => g[asked + Cardinality(SuccessesUpTo(q, i))] = taken + i
      /\ st # "FAILURE" => taken + n = feeder.arrived - One(pc[Feeder] \in {"pads", "queue"})
  BY <1>t DEF QueueAligned
<1>7. /\ One(FeedsSuccess) = One(st = "SUCCESS") /\ One(FeedsSuccess') = 0
      /\ One(pc[Feeder] \in {"pads", "queue"}) = 1
      /\ One(pc'[Feeder] \in {"pads", "queue"}) = 0
  BY <1>1, <1>2, <1>3, <1>5 DEF One
<1>8. /\ Len(q2) = n + 1 /\ \A i \in 1 .. n : q2[i] = q[i]
      /\ q2[n + 1] = st
      /\ \A i \in 1 .. n : SuccessesUpTo(q2, i) = SuccessesUpTo(q, i)
      /\ Successes(q2) = Cardinality(SuccessesUpTo(q2, n + 1))
      /\ Successes(q2) = Successes(q) + One(st = "SUCCESS")
  <2>1. /\ \A i \in 0 .. n : SuccessesUpTo(q2, i) = SuccessesUpTo(q, i)
        /\ Cardinality(SuccessesUpTo(q2, n + 1))
             = Cardinality(SuccessesUpTo(q, n)) + (IF st = "SUCCESS" THEN 1 ELSE 0)
    BY <1>0, CountAppend
  <2>2. Len(q2) = n + 1 /\ (\A i \in 1 .. n : q2[i] = q[i]) /\ q2[n + 1] = st
    BY <1>0, AppendProperties
  <2>3. \A i \in 1 .. n : i \in 0 .. n
    BY <1>0
  <2> QED
    BY <2>1, <2>2, <2>3 DEF Successes, One
<1>9. Successes(q) \in Nat /\ asked \in Nat /\ taken \in Int
  <2>1. One(pc[Main] = "status") \in {0, 1} /\ ReadingPads \in {0, 1}
    BY DEF ReadingPads, One
  <2>2. Successes(q) \in Nat
    BY <1>0, CountType DEF Successes
  <2> QED
    BY <1>0, <1>t, <2>1, <2>2
<1> HIDE DEF q2, asked
<1>10. Len(g) = asked + Successes(q2)
  BY <1>6, <1>7, <1>8, <1>9
<1>11. ASSUME NEW i \in 1 .. Len(q2), q2[i] = "SUCCESS"
       PROVE  g[asked + Cardinality(SuccessesUpTo(q2, i))] = taken + i
  <2>1. i \in 1 .. n \/ i = n + 1
    BY <1>0, <1>8
  <2>2. CASE i \in 1 .. n
    BY <1>6, <1>8, <1>11, <2>2
  <2>3. CASE i = n + 1
    <3>1. st = "SUCCESS"
      BY <1>8, <1>11, <2>3
    <3>2. asked + Cardinality(SuccessesUpTo(q2, i)) = Len(g)
      BY <1>8, <1>10, <2>3
    <3>3. g[Len(g)] = feeder.arrived /\ taken + n = feeder.arrived - 1
      BY <1>5, <1>6, <1>7, <3>1
    <3> HIDE DEF n, taken
    <3>4. feeder.arrived = taken + i
      BY <1>0, <1>9, <2>3, <3>3 DEF n
    <3> QED
      BY <3>2, <3>3, <3>4
  <2> QED
    BY <2>1, <2>2, <2>3
<1>12. st # "FAILURE" => taken + Len(q2) = feeder.arrived - 0
  <2>1. n \in Nat
    BY <1>0
  <2>2. st # "FAILURE" => taken + n = feeder.arrived - 1
    BY <1>6, <1>7
  <2> HIDE DEF taken, n
  <2> QED
    BY <1>0, <1>8, <1>9, <2>1, <2>2
<1>13. QueueAligned(g, r)'
  <2>1. Len(g) = asked + Successes(q2) + One(FeedsSuccess')
    BY <1>7, <1>10, <1>t
  <2>2. edge_status_queue' = q2
    BY <1>1 DEF q2
  <2>3. asked = r + ReadingPads' /\ Successes(q2) = Successes(edge_status_queue')
    BY <1>5, <2>2 DEF asked
  <2> QED
    BY <1>1, <1>3, <1>5, <1>6, <1>7, <1>11, <1>12, <2>1, <2>2, <2>3 DEF QueueAligned, Successes
<1> QED
  BY <1>1, <1>4, <1>5, <1>t, <1>13, FeederAligned

(* One input pad puts the frame on its edge, under its number.             *)
LEMMA FeedPadAligned ==
  ASSUME SuperTyped, LoopInvariant, PadsInvariant, FeedPad,
         NEW g, NEW took, NEW r, Alignment(g, took, r)
  PROVE  LoopInvariant' /\ PadsInvariant' /\ Aligned'
<1> DEFINE s  == << feeder.lane, 0 >>
           e  == edge[s]
           st == feeder.status
           f  == Stored(Flushed(e, st), st, feeder.arrived)
           n  == Len(e.status)
           to == IF feeder.lane < setting.lanes THEN "pads"
                 ELSE IF setting.forwarding THEN FeederHead(feeder.status) ELSE "queue"
<1>0. /\ setting \in Settings /\ DataTyped /\ PlacesTyped /\ DOMAIN pc = Threads
      /\ WorkInHand /\ feeder \in FeederRecords
      /\ st \in EdgeStatus /\ feeder.arrived \in Nat /\ feeder.lane \in Lanes
  BY FeederParts DEF SuperTyped, DataTyped, PlacesTyped
<1>1. /\ pc[Feeder] = "pads"
      /\ UNCHANGED << setting, item, main, edge_status_queue, interrupted >>
      /\ edge' = [edge EXCEPT ![s] = f]
      /\ Goes(Feeder, to)
      /\ feeder'.status = st /\ feeder'.arrived = feeder.arrived
      /\ feeder.lane < setting.lanes => feeder'.lane = feeder.lane + 1
  BY <1>0 DEF FeedPad, At, FeederRecords
<1>2. /\ s \in Segments /\ s \notin Cells /\ Cells \subseteq Segments
      /\ \A l \in Lanes : PadEdge(l) \in Cells /\ << l, 0 >> \in Segments
      /\ \A d \in Cells : InEdge(d) \in Segments
      /\ \A l \in Lanes : << l, 0 >> = s => l = feeder.lane
      /\ \A l \in Lanes : l \in Nat /\ l <= setting.lanes
      /\ setting.lanes \in Nat /\ feeder.lane \in Nat
  BY <1>0, LaneParts, SettingTypes
<1>3. /\ st # "FLUSH"
      /\ IF setting.forwarding THEN TRUE ELSE st = "SUCCESS"
      /\ st = "SUCCESS" => feeder.arrived \in FrameNumbers
  <2>1. st # "FLUSH" /\ IF setting.forwarding THEN TRUE ELSE st = "SUCCESS"
    BY <1>1 DEF LoopInvariant, FeederInvariant
  <2>2. st = "SUCCESS" => feeder.arrived # 0
    BY <1>0, <1>1 DEF WorkInHand
  <2> QED
    BY <1>0, <2>1, <2>2, SettingTypes DEF FrameNumbers, FeederRecords
<1>4. /\ n \in Nat /\ Len(f.status) = n + 1
      /\ ~f.no_more_input
      /\ \A j \in 1 .. n : f.status[j] = e.status[j]
      /\ f.status[n + 1] = st
      /\ \A j \in 1 .. n : e.status[j] = "SUCCESS" => ValueAt(f, j) = ValueAt(e, j)
      /\ st = "SUCCESS" => ValueAt(f, n + 1) = feeder.arrived
  <2>1. Paired(e, FrameNumbers)
    BY <1>0, <1>2 DEF DataTyped
  <2>2. f = Stored(Flushed(e, st), st, feeder.arrived)
    OBVIOUS
  <2> HIDE DEF s, f
  <2> QED
    BY <1>0, <1>3, <2>1, <2>2, UnflushedStored
<1>5. /\ to \in {"pads", "queue", "fail", "in"}
      /\ to = "queue" => ~setting.forwarding
      /\ to = "fail" => st = "FAILURE"
      /\ to = "in" => st # "FAILURE"
      /\ to \in {"fail", "in"} => setting.forwarding
      /\ to = "pads" <=> feeder.lane < setting.lanes
  BY DEF FeederHead
<1> HIDE DEF f, to
<1>7. /\ edge'[s] = f
      /\ \A x \in Segments : x # s => edge'[x] = edge[x]
      /\ \A d \in Cells : edge'[d] = edge[d]
  BY <1>0, <1>1, <1>2 DEF DataTyped
<1>8. /\ pc'[Feeder] = to /\ pc'[Main] = pc[Main]
      /\ \A d \in Cells : pc'[d] = pc[d]
  BY <1>0, <1>1, Names, GoesTo
<1>9. /\ Lanes' = Lanes /\ Cells' = Cells /\ Segments' = Segments
      /\ InnerThreads' = InnerThreads /\ Feeder' = Feeder /\ Main' = Main
      /\ \A l : PadEdge(l)' = PadEdge(l)
      /\ \A d : InEdge(d)' = InEdge(d)
  BY <1>1, SameSetting DEF Feeder, Main
<1>t. /\ g \in Seq(Nat) /\ Len(g) \in Nat /\ r \in Nat
      /\ took \in [Segments -> Nat]
      /\ \A x \in Segments : took[x] \in Nat /\ Len(edge[x].status) \in Nat
      /\ LanesAligned(g, took, r) /\ ValuesAligned(g, took)
      /\ setting.forwarding => ForwardingAligned(g, r)
      /\ ~setting.forwarding => QueueAligned(g, r)
  BY <1>0, AlignmentTypes
<1>e. /\ PadsInvariant' /\ ReadingPads' = ReadingPads
      /\ \A l : ReadFrom(l)' = ReadFrom(l)
  BY <1>1, <1>8, MainStays
<1>10. LoopInvariant'
  <2>1. FeederInvariant'
    BY <1>1, <1>3, <1>5, <1>8, <1>9 DEF FeederInvariant
  <2>2. NoFlush'
    <3>1. ASSUME NEW x \in Segments, NEW i \in 1 .. Len(edge'[x].status)
          PROVE  edge'[x].status[i] # "FLUSH"
      <4>1. CASE x = s
        <5>1. i \in 1 .. n \/ i = n + 1
          BY <1>4, <1>7, <4>1
        <5>2. \A j \in 1 .. n : e.status[j] # "FLUSH"
          BY <1>2 DEF LoopInvariant, NoFlush
        <5> HIDE DEF e, s, n
        <5> QED
          BY <1>3, <1>4, <1>7, <4>1, <5>1, <5>2
      <4>2. CASE x # s
        BY <1>7, <4>2 DEF LoopInvariant, NoFlush
      <4> QED
        BY <4>1, <4>2
    <3> QED
      BY <1>1, <1>9, <3>1 DEF NoFlush, LoopInvariant
  <2>3. \A d \in Cells : ClosedBehind(d)'
    <3>1. ASSUME NEW d \in Cells
          PROVE  ClosedBehind(d)'
      <4>1. ClosedBehind(d) /\ InEdge(d) \in Segments
        BY <1>2 DEF LoopInvariant
      <4>2. edge'[InEdge(d)].no_more_input => edge[InEdge(d)].no_more_input
        BY <1>4, <1>7, <4>1
      <4> QED
        BY <1>1, <1>8, <1>9, <4>1, <4>2 DEF ClosedBehind
    <3> QED
      BY <3>1
  <2>4. \A l \in Lanes : FailureIsLast(PadEdge(l))'
    <3>1. ASSUME NEW l \in Lanes
          PROVE  FailureIsLast(PadEdge(l))'
      <4>1. PadEdge(l) \in Cells /\ FailureIsLast(PadEdge(l))
        BY <1>2 DEF LoopInvariant
      <4>2. edge'[PadEdge(l)] = edge[PadEdge(l)] /\ pc'[PadEdge(l)] = pc[PadEdge(l)]
        BY <1>7, <1>8, <4>1
      <4> QED
        BY <1>1, <1>9, <4>1, <4>2 DEF FailureIsLast
    <3> QED
      BY <3>1
  <2>5. setting.lanes = 1 => (edge'[PadEdge(1)].no_more_input <=> pc'[Main] = "recover")
    <3>1. 1 \in Lanes
      BY <1>0, LaneParts
    <3> QED
      BY <1>2, <1>7, <1>8, <3>1 DEF LoopInvariant
  <2> QED
    BY <1>1, <1>8, <1>9, <2>1, <2>2, <2>3, <2>4, <2>5 DEF LoopInvariant
<1>s. took[s] + n = Len(g) - 1 /\ took[s] \in Nat
  <2>1. Given(feeder.lane) = 1
    BY <1>1, <1>2 DEF Given, One
  <2>2. took[s] + n = Len(g) - Given(feeder.lane)
    BY <1>0, <1>t DEF LanesAligned
  <2> QED
    BY <1>2, <1>t, <2>1, <2>2
<1>v. st = "SUCCESS" => g[Len(g)] = feeder.arrived
  <2>1. CASE setting.forwarding
    BY <1>0, <1>s, <1>4, <1>t, <2>1 DEF ForwardingAligned, One
  <2>2. CASE ~setting.forwarding
    BY <1>1, <1>t, <2>2 DEF QueueAligned, FeedsSuccess
  <2> QED
    BY <2>1, <2>2
<1>12. LanesAligned(g, took, r)'
  <2>1. took[s] + Len(edge'[s].status) = Len(g)
    <3>1. Len(edge'[s].status) = n + 1
      BY <1>4, <1>7
    <3>2. n \in Nat /\ took[s] \in Nat /\ took[s] + n = Len(g) - 1 /\ Len(g) \in Nat
      BY <1>4, <1>s, <1>t
    <3> HIDE DEF n, s
    <3> QED
      BY <3>1, <3>2
  <2>2. ASSUME NEW x \in Segments
        PROVE  took[x] + Len(edge'[x].status) <= Len(g)
    <3>1. CASE x = s
      BY <1>t, <2>1, <3>1
    <3>2. CASE x # s
      BY <1>7, <1>t, <3>2 DEF LanesAligned
    <3> QED
      BY <3>1, <3>2
  <2>3. ASSUME NEW l \in Lanes
        PROVE  took[<< l, 0 >>] + Len(edge'[<< l, 0 >>].status) = Len(g) - Given(l)'
    <3>1. CASE l = feeder.lane
      <4>1. Given(l)' = 0
        BY <1>1, <1>2, <1>5, <1>8, <1>9, <3>1 DEF Given, One
      <4> QED
        BY <1>t, <2>1, <3>1, <4>1
    <3>2. CASE l # feeder.lane
      <4>1. Given(l)' = Given(l)
        <5>1. l \in Nat /\ feeder.lane \in Nat /\ setting.lanes \in Nat /\ l <= setting.lanes
          BY <1>2
        <5>2. CASE feeder.lane < setting.lanes
          <6>1. feeder.lane + 1 <= l <=> feeder.lane <= l
            BY <3>2, <5>1
          <6> QED
            BY <1>1, <1>5, <1>8, <1>9, <5>2, <6>1 DEF Given, One
        <5>3. CASE ~(feeder.lane < setting.lanes)
          <6>1. ~(feeder.lane <= l)
            BY <3>2, <5>1, <5>3
          <6> QED
            BY <1>1, <1>5, <1>8, <1>9, <5>3, <6>1 DEF Given, One
        <5> QED
          BY <5>2, <5>3
      <4>2. edge'[<< l, 0 >>] = edge[<< l, 0 >>]
        BY <1>2, <1>7, <3>2
      <4> QED
        BY <1>t, <4>1, <4>2 DEF LanesAligned
    <3> QED
      BY <3>1, <3>2
  <2>4. \A d \in Cells :
          took[InEdge(d)] = took[d] + Len(edge'[d].status) + One(pc'[d] = "out")
    BY <1>7, <1>8, <1>t DEF LanesAligned
  <2>5. ASSUME NEW l \in Lanes, setting.lanes = 1 \/ ~edge'[PadEdge(l)].no_more_input
        PROVE  took[PadEdge(l)] = r + ReadFrom(l)'
    BY <1>2, <1>7, <1>t, <1>e, <2>5 DEF LanesAligned
  <2> QED
    BY <1>1, <1>9, <2>2, <2>3, <2>4, <2>5 DEF LanesAligned
<1>13. ValuesAligned(g, took)'
  <2>1. ASSUME NEW x \in Segments, NEW i \in 1 .. Len(edge'[x].status),
               edge'[x].status[i] = "SUCCESS"
        PROVE  ValueAt(edge'[x], i) = g[took[x] + i]
    <3>1. CASE x = s
      <4>1. i \in 1 .. n \/ i = n + 1
        BY <1>4, <1>7, <3>1
      <4>2. CASE i \in 1 .. n
        <5>1. e.status[i] = "SUCCESS" /\ ValueAt(f, i) = ValueAt(e, i)
          BY <1>4, <1>7, <2>1, <3>1, <4>2
        <5>2. ValueAt(edge[s], i) = g[took[s] + i]
          BY <1>2, <1>t, <4>2, <5>1 DEF ValuesAligned
        <5> QED
          BY <1>7, <3>1, <5>1, <5>2
      <4>3. CASE i = n + 1
        <5>1. st = "SUCCESS" /\ ValueAt(f, i) = feeder.arrived
          BY <1>4, <1>7, <2>1, <3>1, <4>3
        <5>2. Len(g) = took[s] + i
          <6> HIDE DEF n, s
          <6> QED
            BY <1>4, <1>s, <1>t, <4>3
        <5> QED
          BY <1>7, <1>v, <3>1, <5>1, <5>2
      <4> QED
        BY <4>1, <4>2, <4>3
    <3>2. CASE x # s
      <4>1. /\ edge'[x] = edge[x] /\ i \in 1 .. Len(edge[x].status)
            /\ edge[x].status[i] = "SUCCESS"
        BY <1>7, <2>1, <3>2
      <4>2. ValueAt(edge[x], i) = g[took[x] + i]
        BY <1>t, <4>1 DEF ValuesAligned
      <4> QED
        BY <4>1, <4>2
    <3> QED
      BY <3>1, <3>2
  <2>2. \A d \in Cells : pc'[d] = "out" /\ item'[d].status = "SUCCESS"
                           => item'[d].frame = g[took[InEdge(d)]]
    BY <1>1, <1>8, <1>t DEF ValuesAligned
  <2> QED
    BY <1>9, <2>1, <2>2 DEF ValuesAligned
<1>14. setting.forwarding => ForwardingAligned(g, r)'
  BY <1>1, <1>e, <1>t DEF ForwardingAligned
<1>15. ~setting.forwarding => QueueAligned(g, r)'
  <2>1. ASSUME ~setting.forwarding
        PROVE  QueueAligned(g, r)'
    <3>1. FeedsSuccess' <=> FeedsSuccess
      BY <1>1, <1>5, <1>8, <1>9, <2>1 DEF FeedsSuccess
    <3>2. One(FeedsSuccess') = One(FeedsSuccess)
      BY <3>1, Zenon DEF One
    <3>3. One(pc'[Feeder] \in {"pads", "queue"}) = One(pc[Feeder] \in {"pads", "queue"})
      BY <1>1, <1>5, <1>8, <2>1 DEF One
    <3> QED
      BY <1>1, <1>8, <1>9, <1>e, <1>t, <2>1, <3>1, <3>2, <3>3 DEF QueueAligned, Successes
  <2> QED
    BY <2>1
<1>16. Alignment(g, took, r)'
  BY <1>1, <1>9, <1>12, <1>13, <1>14, <1>15, <1>t DEF Alignment
<1> QED
  BY <1>10, <1>16, <1>e DEF Aligned

(* Main goes on, and has not been at the pads. *)
LEMMA MainAligned ==
  ASSUME SuperTyped, LoopInvariant, UNCHANGED << setting, edge, item >>,
         interrupted' \subseteq interrupted, FeederInvariant',
         \A c \in Cells : \/ pc'[c] = pc[c]
                          \/ /\ pc[c] # "out" /\ pc'[c] = "in"
                             /\ item[c].status # "FAILURE",
         pc[Main] \notin {"pads", "recover"},
         pc'[Main] \in {"feed", "status", "pads", "out"},
         pc'[Main] = "status" => ~setting.forwarding,
         pc'[Main] \in {"status", "pads"} => main'.lane = 1 /\ main'.found = {},
         pc'[Main] = "out" => PadsInvariant',
         NEW g, NEW took, NEW r, Alignment(g, took, r),
         \A l : Given(l)' = Given(l),
         setting.forwarding => ForwardingAligned(g, r)',
         ~setting.forwarding => QueueAligned(g, r)'
  PROVE  LoopInvariant' /\ PadsInvariant' /\ Aligned'
<1>0. setting \in Settings /\ DataTyped
  BY DEF SuperTyped, DataTyped
<1>1. /\ Segments' = Segments /\ Cells' = Cells /\ Lanes' = Lanes
      /\ InnerThreads' = InnerThreads /\ Main' = Main
      /\ \A l : PadEdge(l)' = PadEdge(l)
  BY SameSetting DEF Main
<1>2. \A l \in Lanes : l \in Nat /\ l > 0 /\ ~(1 > l)
  BY <1>0, LaneParts
<1>3. \A l \in Lanes : ReadFrom(l)' = ReadFrom(l)
  BY <1>1, <1>2 DEF ReadFrom, One
<1>t. g \in Seq(Nat) /\ Len(g) \in Nat
  BY <1>0, AlignmentTypes
<1>4. /\ NoFlush'
      /\ (\A c \in Cells : pc[c] \in {"none", "in"} => item[c].status # "FAILURE")'
      /\ (\A c \in Cells : ClosedBehind(c))'
      /\ (\A l \in Lanes : FailureIsLast(PadEdge(l)))'
      /\ LanesAligned(g, took, r)' /\ ValuesAligned(g, took)'
  BY <1>3, <1>t, LanesStay
<1>5. LoopInvariant'
  <2>1. interrupted' \cap InnerThreads' = {}
    BY <1>1 DEF LoopInvariant
  <2>2. setting.lanes = 1 => (edge'[PadEdge(1)].no_more_input <=> pc'[Main] = "recover")
    BY DEF LoopInvariant
  <2> QED
    BY <1>1, <1>4, <2>1, <2>2 DEF LoopInvariant
<1>6. PadsInvariant'
  <2>1. CASE pc'[Main] = "pads"
    BY <1>1, <1>2, <2>1 DEF PadsInvariant
  <2>2. CASE pc'[Main] # "pads" /\ pc'[Main] # "out"
    BY <1>1, <2>2 DEF PadsInvariant
  <2> QED
    BY <2>1, <2>2
<1>7. Alignment(g, took, r)'
  BY <1>1, <1>4, <1>t DEF Alignment
<1> QED
  BY <1>5, <1>6, <1>7 DEF Aligned

LEMMA StartNodesAligned ==
  ASSUME SuperTyped, LoopInvariant, StartNodes,
         NEW g, NEW took, NEW r, Alignment(g, took, r)
  PROVE  LoopInvariant' /\ PadsInvariant' /\ Aligned'
<1> DEFINE starts == {c \in Cells : \/ pc[c] = "none"
                                    \/ pc[c] = "ended" /\ item[c].status = "SUCCESS"}
<1>0. setting \in Settings /\ DataTyped /\ PlacesTyped /\ DOMAIN pc = Threads
  BY DEF SuperTyped, DataTyped, PlacesTyped
<1>1. /\ pc[Main] = "start"
      /\ pc' = [t \in Threads |-> IF t \in starts THEN "in"
                                  ELSE IF t = Main THEN "feed" ELSE pc[t]]
      /\ interrupted' = interrupted \ starts
      /\ UNCHANGED << setting, edge, item, feeder, main, edge_status_queue >>
  BY DEF StartNodes
<1>2. /\ Feeder \notin Cells /\ Main \notin Cells /\ Feeder # Main
      /\ Feeder \in Threads /\ Main \in Threads /\ Cells \subseteq Threads
  BY <1>0, Names
<1>3. pc'[Main] = "feed" /\ pc'[Feeder] = pc[Feeder] /\ Feeder' = Feeder /\ Main' = Main
  BY <1>1, <1>2 DEF Feeder, Main
<1>4. ASSUME NEW c \in Cells
      PROVE  \/ pc'[c] = pc[c]
             \/ pc[c] # "out" /\ pc'[c] = "in" /\ item[c].status # "FAILURE"
  <2>1. pc[c] = "none" => item[c].status # "FAILURE"
    BY DEF LoopInvariant
  <2>2. pc'[c] = IF c \in starts THEN "in" ELSE pc[c]
    BY <1>1, <1>2
  <2>3. c \in starts => pc[c] # "out" /\ item[c].status # "FAILURE"
    BY <2>1
  <2> QED
    BY <2>2, <2>3
<1>5. FeederInvariant' /\ \A l : Given(l)' = Given(l)
  BY <1>1, <1>3 DEF LoopInvariant, FeederInvariant, Given
<1>6. ReadingPads' = ReadingPads /\ (FeedsSuccess' <=> FeedsSuccess)
      /\ One(FeedsSuccess') = One(FeedsSuccess)
  BY <1>1, <1>3 DEF ReadingPads, FeedsSuccess, One
<1>7. One(pc[Main] = "status") = One(pc'[Main] = "status")
  BY <1>1, <1>3 DEF One
<1>t. /\ setting.forwarding => ForwardingAligned(g, r)
      /\ ~setting.forwarding => QueueAligned(g, r)
  BY <1>0, AlignmentTypes
<1>8. setting.forwarding => ForwardingAligned(g, r)'
  BY <1>1, <1>6, <1>t DEF ForwardingAligned
<1>9. ~setting.forwarding => QueueAligned(g, r)'
  BY <1>1, <1>3, <1>6, <1>7, <1>t DEF QueueAligned, Successes
<1>10. interrupted' \subseteq interrupted
  BY <1>1
<1> QED
  <2> HIDE DEF starts
  <2> QED
    BY <1>1, <1>3, <1>4, <1>5, <1>8, <1>9, <1>10, MainAligned

(* The next round begins. *)
LEMMA NewRoundAligned ==
  ASSUME SuperTyped, LoopInvariant,
         UNCHANGED << setting, edge, item, feeder, edge_status_queue >>,
         interrupted' \subseteq interrupted,
         pc[Main] \in {"feed", "out"}, main.status # "FAILURE",
         pc'[Main] = LoopHead(main), \A c \in Cells : pc'[c] = pc[c],
         \/ pc'[Feeder] = pc[Feeder]
         \/ pc[Feeder] \in {"none", "begin"} /\ pc'[Feeder] = "begin",
         main'.round = main.round + 1, main'.lane = 1, main'.found = {},
         NEW g, NEW took, NEW r, Alignment(g, took, r)
  PROVE  LoopInvariant' /\ PadsInvariant' /\ Aligned'
<1>0. setting \in Settings /\ DataTyped /\ main.round \in Nat
  BY FeederParts DEF SuperTyped, DataTyped
<1>1. /\ pc'[Main] = IF setting.forwarding THEN "pads" ELSE "status"
      /\ Feeder' = Feeder /\ Main' = Main
  BY DEF LoopHead, Feeder, Main
<1>2. FeederInvariant' /\ \A l : Given(l)' = Given(l)
  BY <1>1 DEF LoopInvariant, FeederInvariant, Given, One
<1>3. FeedsSuccess' <=> FeedsSuccess
  BY <1>1 DEF FeedsSuccess
<1>4. /\ One(FeedsSuccess') = One(FeedsSuccess)
      /\ One(pc'[Feeder] \in {"pads", "queue"}) = One(pc[Feeder] \in {"pads", "queue"})
  <2>1. pc'[Feeder] \in {"pads", "queue"} <=> pc[Feeder] \in {"pads", "queue"}
    OBVIOUS
  <2> QED
    BY <1>3, <2>1, Zenon DEF One
<1>5. /\ ReadingPads = 0 /\ One(pc[Main] = "status") = 0
      /\ ReadingPads' = One(setting.forwarding)
      /\ One(pc'[Main] = "status") = One(~setting.forwarding)
  BY <1>1 DEF ReadingPads, One
<1>t. /\ r \in Nat /\ Len(g) \in Nat
      /\ setting.forwarding => ForwardingAligned(g, r)
      /\ ~setting.forwarding => QueueAligned(g, r)
  BY <1>0, AlignmentTypes
<1>6. setting.forwarding => ForwardingAligned(g, r)'
  <2>1. ASSUME setting.forwarding
        PROVE  ForwardingAligned(g, r)'
    <3>1. main'.round = r + ReadingPads'
      BY <1>0, <1>5, <1>t, <2>1 DEF ForwardingAligned, One
    <3> QED
      BY <1>t, <2>1, <3>1 DEF ForwardingAligned
  <2> QED
    BY <2>1
<1>7. ~setting.forwarding => QueueAligned(g, r)'
  <2>1. ASSUME ~setting.forwarding
        PROVE  QueueAligned(g, r)'
    <3>1. /\ ReadingPads' = ReadingPads /\ pc'[Main] # "pads"
          /\ main'.round - One(pc'[Main] = "status") = main.round - One(pc[Main] = "status")
      BY <1>0, <1>1, <1>5, <2>1 DEF One
    <3> QED
      BY <1>1, <1>3, <1>4, <1>t, <2>1, <3>1 DEF QueueAligned, Successes
  <2> QED
    BY <2>1
<1>8. /\ pc'[Main] \in {"feed", "status", "pads", "out"} /\ pc[Main] \notin {"pads", "recover"}
      /\ pc'[Main] = "status" => ~setting.forwarding
      /\ pc'[Main] # "out"
  BY <1>1
<1> QED
  BY <1>2, <1>6, <1>7, <1>8, MainAligned

LEMMA StartFeederAligned ==
  ASSUME SuperTyped, ThreadInvariant, LoopInvariant, StartFeeder,
         NEW g, NEW took, NEW r, Alignment(g, took, r)
  PROVE  ~InLoop' \/ (LoopInvariant' /\ PadsInvariant' /\ Aligned')
<1>0. setting \in Settings /\ DataTyped /\ PlacesTyped /\ DOMAIN pc = Threads
      /\ main \in MainRecords
  BY DEF SuperTyped, DataTyped, PlacesTyped
<1>1. /\ pc[Main] = "feed" /\ main' = NewRound(main)
      /\ UNCHANGED << setting, edge, item, feeder, edge_status_queue >>
  BY DEF StartFeeder, At
<1>2. /\ interrupted' \subseteq interrupted
      /\ pc'[Main] = LoopHead(main) /\ \A c \in Cells : pc'[c] = pc[c]
      /\ \/ pc'[Feeder] = pc[Feeder]
         \/ pc[Feeder] \in {"none", "begin"} /\ pc'[Feeder] = "begin"
  <2>1. /\ Feeder \notin Cells /\ Main \notin Cells /\ Feeder # Main
        /\ Feeder \in Threads /\ Main \in Threads /\ Cells \subseteq Threads
    BY <1>0, Names
  <2>2. CASE Goes(Main, LoopHead(main)) /\ UNCHANGED interrupted
    BY <1>0, <2>1, <2>2, GoesTo
  <2>3. CASE /\ pc' = [pc EXCEPT ![Feeder] = "begin", ![Main] = LoopHead(main)]
             /\ interrupted' = interrupted \ {Feeder}
             /\ ~(feeder.is_running \/ feeder.failed)
    <3>1. pc[Feeder] \in {"none", "begin"}
      BY <1>0, <2>3 DEF ThreadInvariant, PlacesTyped, FeederPlaces
    <3>2. /\ pc'[Main] = LoopHead(main) /\ pc'[Feeder] = "begin"
          /\ \A c \in Cells : pc'[c] = pc[c]
      BY <1>0, <2>1, <2>3
    <3> QED
      BY <2>3, <3>1, <3>2
  <2> QED
    BY <2>2, <2>3 DEF StartFeeder
<1>3. CASE main.status = "FAILURE"
  BY <1>2, <1>3 DEF LoopHead, InLoop, Main
<1>4. CASE main.status # "FAILURE"
  <2>1. main'.round = main.round + 1 /\ main'.lane = 1 /\ main'.found = {}
    BY <1>0, <1>1, <1>4, NewRoundParts
  <2> QED
    BY <1>1, <1>2, <1>4, <2>1, NewRoundAligned
<1> QED
  BY <1>3, <1>4

LEMMA AnnounceAligned ==
  ASSUME SuperTyped, LoopInvariant, Announce,
         NEW g, NEW took, NEW r, Alignment(g, took, r)
  PROVE  LoopInvariant' /\ PadsInvariant' /\ Aligned'
<1>0. setting \in Settings /\ DataTyped /\ PlacesTyped /\ DOMAIN pc = Threads
      /\ main \in MainRecords
  BY DEF SuperTyped, DataTyped, PlacesTyped
<1> DEFINE m == [main EXCEPT !.sent = @ + 1]
<1>1. /\ pc[Main] = "out" /\ main' = NewRound(m) /\ Goes(Main, LoopHead(main))
      /\ UNCHANGED << setting, edge, item, feeder, edge_status_queue, interrupted >>
  BY DEF Announce, At
<1>2. main.status # "FAILURE"
  BY <1>1 DEF SuperTyped, WorkInHand
<1>3. m \in MainRecords /\ m.status = main.status /\ m.round = main.round
  BY <1>0 DEF MainRecords
<1> HIDE DEF m
<1>4. main'.round = main.round + 1 /\ main'.lane = 1 /\ main'.found = {}
  BY <1>0, <1>1, <1>2, <1>3, NewRoundParts
<1>5. /\ pc'[Main] = LoopHead(main) /\ pc'[Feeder] = pc[Feeder]
      /\ \A c \in Cells : pc'[c] = pc[c]
  BY <1>0, <1>1, Names, GoesTo
<1> QED
  BY <1>1, <1>2, <1>4, <1>5, NewRoundAligned

(* What the next frame arrived with is taken from the queue. *)
LEMMA TakeStatusAligned ==
  ASSUME SuperTyped, LoopInvariant, TakeStatus,
         NEW g, NEW took, NEW r, Alignment(g, took, r)
  PROVE  ~InLoop' \/ (LoopInvariant' /\ PadsInvariant' /\ Aligned')
<1> DEFINE q  == edge_status_queue
           st == Head(q)
           q2 == Tail(q)
           n  == Len(q)
           to == IF st = "SUCCESS" THEN "pads"
                 ELSE IF st = "FAILURE" THEN "interrupt" ELSE "out"
<1>0. /\ setting \in Settings /\ DataTyped /\ PlacesTyped /\ DOMAIN pc = Threads
      /\ q \in Seq(EdgeStatus) /\ n \in Nat /\ main \in MainRecords
      /\ main.round \in Nat /\ feeder.arrived \in Nat
  BY FeederParts DEF SuperTyped, DataTyped, PlacesTyped
<1>1. /\ pc[Main] = "status" /\ q # << >>
      /\ UNCHANGED << setting, edge, item, feeder, interrupted >>
      /\ edge_status_queue' = q2
      /\ main' = [main EXCEPT !.status = IF st = "SUCCESS" THEN @ ELSE st]
      /\ Goes(Main, to)
      /\ ~setting.forwarding /\ main.lane = 1 /\ main.found = {}
  BY <1>0, GoesOn DEF TakeStatus, At, LoopInvariant
<1> HIDE DEF to
<1>2. /\ pc'[Main] = to /\ pc'[Feeder] = pc[Feeder] /\ Feeder' = Feeder /\ Main' = Main
      /\ \A c \in Cells : pc'[c] = pc[c]
  BY <1>0, <1>1, Names, GoesTo DEF Feeder, Main
<1>3. /\ main'.round = main.round /\ main'.lane = 1 /\ main'.found = {}
      /\ st # "SUCCESS" => main'.status = st
  BY <1>0, <1>1 DEF MainRecords
<1>4. CASE st = "FAILURE"
  BY <1>2, <1>4 DEF InLoop, to
<1>5. CASE st # "FAILURE"
  <2>1. to = IF st = "SUCCESS" THEN "pads" ELSE "out"
    BY <1>5 DEF to
  <2>t. /\ Len(g) \in Nat /\ r \in Nat /\ QueueAligned(g, r)
    BY <1>0, <1>1, AlignmentTypes
  <2>2. /\ ReadingPads = 0 /\ One(pc[Main] = "status") = 1
        /\ ReadingPads' = One(st = "SUCCESS") /\ One(pc'[Main] = "status") = 0
    BY <1>1, <1>2, <2>1 DEF ReadingPads, One
  <2>3. /\ FeederInvariant' /\ (\A l : Given(l)' = Given(l))
        /\ (FeedsSuccess' <=> FeedsSuccess)
        /\ One(FeedsSuccess') = One(FeedsSuccess)
    BY <1>1, <1>2 DEF LoopInvariant, FeederInvariant, Given, FeedsSuccess, One
  <2> DEFINE c(i) == Cardinality(SuccessesUpTo(q, i))
             d(i) == Cardinality(SuccessesUpTo(q2, i))
  <2>4. /\ Len(g) = r + c(n) + One(FeedsSuccess)
        /\ FeedsSuccess => g[Len(g)] = feeder.arrived
        /\ \A i \in 1 .. n : q[i] = "SUCCESS" => g[r + c(i)] = (main.round - 1) + i
        /\ feeder.status # "FAILURE" =>
             (main.round - 1) + n = feeder.arrived - One(pc[Feeder] \in {"pads", "queue"})
    <3>1. r + ReadingPads = r
      BY <2>2, <2>t
    <3> QED
      BY <2>2, <2>t, <3>1 DEF QueueAligned, Successes
  <2>5. /\ n >= 1 /\ Len(q2) = n - 1 /\ st = q[1]
        /\ \A i \in 1 .. n - 1 : q2[i] = q[i + 1]
        /\ q2 \in Seq(EdgeStatus)
    BY <1>0, <1>1, HeadTailProperties
  <2>6. /\ \A i \in 0 .. n - 1 : c(i + 1) = d(i) + One(st = "SUCCESS")
        /\ \A i \in 0 .. n - 1 : d(i) \in Nat
    <3>1. ASSUME NEW i \in 0 .. n - 1
          PROVE  c(i + 1) = d(i) + (IF st = "SUCCESS" THEN 1 ELSE 0)
      <4> HIDE DEF n, q2
      <4>1. i \in 0 .. Len(q) - 1
        BY DEF n
      <4> QED
        BY <1>0, <1>1, <4>1, CountTail DEF q2
    <3>2. ASSUME NEW i \in 0 .. n - 1
          PROVE  d(i) \in Nat
      <4>1. i \in Nat
        BY <1>0
      <4> HIDE DEF q2
      <4> QED
        BY <2>5, <4>1, CountType
    <3> QED
      BY <3>1, <3>2 DEF One
  <2>7. SuccessesUpTo(q2, 0) = {} /\ d(0) = 0
    <3>1. SuccessesUpTo(q2, 0) = {}
      BY DEF SuccessesUpTo
    <3> QED
      BY <3>1, FS_EmptySet
  <2>8. c(n) = d(n - 1) + One(st = "SUCCESS") /\ d(n - 1) \in Nat
    <3>1. n - 1 \in 0 .. n - 1 /\ (n - 1) + 1 = n
      BY <1>0, <2>5
    <3> HIDE DEF c, d, n
    <3> QED
      BY <2>6, <3>1
  <2>9. One(st = "SUCCESS") \in {0, 1} /\ One(FeedsSuccess) \in {0, 1}
    BY DEF One
  <2> HIDE DEF c, d, n, q2, st, q
  <2>10. Len(g) = (r + One(st = "SUCCESS")) + d(n - 1) + One(FeedsSuccess)
    BY <2>4, <2>8, <2>9, <2>t
  <2>11. st = "SUCCESS" => g[r + 1] = main.round
    <3>1. ASSUME st = "SUCCESS"
          PROVE  g[r + 1] = main.round
      <4>1. 0 \in 0 .. n - 1 /\ 1 \in 1 .. n /\ 0 + 1 = 1
        BY <1>0, <2>5
      <4>2. c(0 + 1) = d(0) + One(st = "SUCCESS")
        BY <2>6, <4>1
      <4>3. c(1) = 1
        BY <2>7, <3>1, <4>2 DEF One
      <4>4. g[r + 1] = (main.round - 1) + 1
        BY <2>4, <2>5, <3>1, <4>1, <4>3
      <4> QED
        BY <1>0, <4>4
    <3> QED
      BY <3>1
  <2>12. ASSUME NEW i \in 1 .. n - 1, q2[i] = "SUCCESS"
         PROVE  g[(r + One(st = "SUCCESS")) + d(i)] = main.round + i
    <3>1. /\ i \in 0 .. n - 1 /\ i + 1 \in 1 .. n /\ i \in Nat
          /\ (main.round - 1) + (i + 1) = main.round + i
      BY <1>0
    <3>2. c(i + 1) = d(i) + One(st = "SUCCESS") /\ d(i) \in Nat
      BY <2>6, <3>1
    <3>3. r + c(i + 1) = (r + One(st = "SUCCESS")) + d(i)
      <4>1. One(st = "SUCCESS") \in Nat /\ r \in Nat
        BY <2>9, <2>t
      <4>2. \A o, k \in Nat : r + (k + o) = (r + o) + k
        BY <4>1
      <4> QED
        BY <3>2, <4>1, <4>2
    <3>4. g[r + c(i + 1)] = (main.round - 1) + (i + 1)
      BY <2>4, <2>5, <2>12, <3>1
    <3>5. g[(r + One(st = "SUCCESS")) + d(i)] = (main.round - 1) + (i + 1)
      BY <3>3, <3>4
    <3>6. (main.round - 1) + (i + 1) = main.round + i
      BY <3>1
    <3> QED
      BY <3>5, <3>6
  <2>13. feeder.status # "FAILURE" =>
           main.round + (n - 1) = feeder.arrived - One(pc[Feeder] \in {"pads", "queue"})
    <3>1. (main.round - 1) + n = main.round + (n - 1)
      BY <1>0
    <3>2. feeder.status # "FAILURE" =>
            (main.round - 1) + n = feeder.arrived - One(pc[Feeder] \in {"pads", "queue"})
      BY <2>4
    <3> QED
      BY <3>1, <3>2
  <2>14. QueueAligned(g, r)'
    <3>1. /\ edge_status_queue' = q2 /\ Len(q2) = n - 1
          /\ main'.round - One(pc'[Main] = "status") = main.round
          /\ r + ReadingPads' = r + One(st = "SUCCESS")
      BY <1>0, <1>1, <1>3, <2>2, <2>5
    <3>2. /\ Successes(edge_status_queue') = d(n - 1)
          /\ \A i : Cardinality(SuccessesUpTo(edge_status_queue', i)) = d(i)
      BY <3>1 DEF Successes, d
    <3>3. pc'[Main] = "pads" <=> st = "SUCCESS"
      BY <1>2, <2>1
    <3> QED
      BY <1>1, <1>2, <1>3, <2>3, <2>4, <2>10, <2>11, <2>12, <2>13, <3>1, <3>2, <3>3
         DEF QueueAligned, Successes
  <2>15. pc'[Main] = "out" => PadsInvariant'
    BY <1>2, <1>3, <2>1 DEF PadsInvariant
  <2>16. pc'[Main] \in {"feed", "status", "pads", "out"} /\ pc'[Main] # "status"
    BY <1>2, <2>1
  <2> QED
    BY <1>1, <1>2, <1>3, <2>3, <2>14, <2>15, <2>16, MainAligned
<1> QED
  BY <1>4, <1>5

(* What an output pad finds: no FLUSH, and a FAILURE only in a lane that   *)
(* has failed.                                                             *)
LEMMA PadFinds ==
  ASSUME SuperTyped, LoopInvariant, pc[Main] = "pads",
         NEW c, c = PadEdge(main.lane), NEW e, e = edge[c], Ready(e),
         NEW f, f = Taken(e)
  PROVE  /\ c \in Cells /\ c \in Segments /\ c[1] = main.lane
         /\ Paired(e, FrameNumbers)
         /\ Delivered(e) \in EdgeStatus /\ Delivered(e) # "FLUSH"
         /\ Delivered(e) = "FAILURE" => item[c].status = "FAILURE"
         /\ setting.lanes = 1 => ~e.no_more_input
         /\ setting.lanes = 1 => (f.no_more_input <=> Delivered(e) = "FAILURE")
         /\ f.no_more_input => f.status = << >> /\ pc[c] = "ended" /\ item[c].status = "FAILURE"
         /\ \A i \in 1 .. Len(f.status) :
              /\ f.status[i] # "FLUSH"
              /\ f.status[i] = "FAILURE" =>
                   i = Len(f.status) /\ pc[c] = "ended" /\ item[c].status = "FAILURE"
<1>0. setting \in Settings /\ DataTyped /\ main.lane \in Lanes
  BY FeederParts DEF SuperTyped, DataTyped
<1>1. c \in Cells /\ c \in Segments /\ c[1] = main.lane
  BY <1>0, LaneParts DEF PadEdge
<1>2. Paired(e, FrameNumbers)
  BY <1>0, <1>1 DEF DataTyped
<1>3. /\ \A i \in 1 .. Len(e.status) :
           /\ e.status[i] # "FLUSH"
           /\ e.status[i] = "FAILURE" =>
                i = Len(e.status) /\ pc[c] = "ended" /\ item[c].status = "FAILURE"
      /\ e.no_more_input =>
           e.status = << >> /\ pc[c] = "ended" /\ item[c].status = "FAILURE"
  <2>1. FailureIsLast(c)
    BY <1>0 DEF LoopInvariant
  <2>2. \A i \in 1 .. Len(e.status) : e.status[i] # "FLUSH"
    BY <1>1 DEF LoopInvariant, NoFlush
  <2>3. /\ \A i \in 1 .. Len(edge[c].status) :
             edge[c].status[i] = "FAILURE" =>
               i = Len(edge[c].status) /\ pc[c] = "ended" /\ item[c].status = "FAILURE"
        /\ edge[c].no_more_input =>
             edge[c].status = << >> /\ pc[c] = "ended" /\ item[c].status = "FAILURE"
    BY <2>1 DEF FailureIsLast
  <2>4. \A i \in 1 .. Len(e.status) :
          e.status[i] = "FAILURE" =>
            i = Len(e.status) /\ pc[c] = "ended" /\ item[c].status = "FAILURE"
    BY <2>3
  <2>5. e.no_more_input =>
          e.status = << >> /\ pc[c] = "ended" /\ item[c].status = "FAILURE"
    BY <2>3
  <2> QED
    BY <2>2, <2>4, <2>5
<1>4. setting.lanes = 1 => ~e.no_more_input
  <2>1. setting.lanes = 1 => main.lane = 1
    BY <1>0, LaneParts
  <2> QED
    BY <2>1 DEF LoopInvariant
<1>5. CASE e.no_more_input
  <2>1. f = e /\ Delivered(e) = "FAILURE"
    BY <1>5 DEF Taken, Delivered
  <2> QED
    BY <1>1, <1>2, <1>3, <1>4, <1>5, <2>1 DEF EdgeStatus, StepStatus
<1>6. CASE ~e.no_more_input
  <2> DEFINE n == Len(e.status)
  <2>1. /\ n \in Nat /\ n >= 1 /\ Len(f.status) = n - 1
        /\ Delivered(e) = e.status[1] /\ Delivered(e) \in EdgeStatus
        /\ f.no_more_input <=> e.status[1] = "FAILURE" /\ n = 1
        /\ \A j \in 1 .. Len(f.status) : f.status[j] = e.status[j + 1]
    BY <1>2, <1>6, OpenTaken
  <2> HIDE DEF n
  <2>2. 1 \in 1 .. n /\ \A j \in 1 .. Len(f.status) : j + 1 \in 1 .. n /\ (j + 1 = n => j = n - 1)
    BY <2>1
  <2>3. Delivered(e) # "FLUSH" /\ (Delivered(e) = "FAILURE" => n = 1 /\ item[c].status = "FAILURE")
    BY <1>3, <2>1, <2>2 DEF n
  <2>4. f.no_more_input => f.status = << >> /\ pc[c] = "ended" /\ item[c].status = "FAILURE"
    <3>1. ASSUME f.no_more_input
          PROVE  f.status = << >> /\ pc[c] = "ended" /\ item[c].status = "FAILURE"
      <4>1. e.status[1] = "FAILURE" /\ n = 1 /\ Len(f.status) = 0
        BY <2>1, <3>1
      <4>2. f.status \in Seq(EdgeStatus)
        <5>1. Paired(f, FrameNumbers)
          BY <1>2, TakenPaired
        <5> QED
          BY <5>1 DEF Paired, EdgeOf
      <4>3. f.status = << >>
        BY <4>1, <4>2, EmptySeq
      <4> QED
        BY <1>3, <2>2, <4>1, <4>3 DEF n
    <3> QED
      BY <3>1
  <2>5. ASSUME NEW i \in 1 .. Len(f.status)
        PROVE  /\ f.status[i] # "FLUSH"
               /\ f.status[i] = "FAILURE" =>
                    i = Len(f.status) /\ pc[c] = "ended" /\ item[c].status = "FAILURE"
    BY <1>3, <2>1, <2>2 DEF n
  <2> QED
    BY <1>1, <1>2, <1>6, <2>1, <2>3, <2>4, <2>5
<1> QED
  BY <1>5, <1>6

(* What ReadPad does when there is no FLUSH. *)
LEMMA ReadPadFacts ==
  ASSUME SuperTyped, LoopInvariant, ReadPad,
         NEW c, c = PadEdge(main.lane), NEW e, e = edge[c]
  PROVE  /\ UNCHANGED << setting, item, feeder, edge_status_queue, interrupted >>
         /\ pc[Main] = "pads" /\ Ready(e)
         /\ edge' = [edge EXCEPT ![c] = Taken(e)]
         /\ main'.found = main.found \cup {Delivered(e)} /\ main'.round = main.round
         /\ main'.pad = [main.pad EXCEPT ![main.lane] =
                           IF SetsInput(e) THEN Head(e.data) ELSE 0]
         /\ IF main.lane < setting.lanes
            THEN Goes(Main, "pads") /\ main'.lane = main.lane + 1
            ELSE /\ IF StatusOfPads(main'.found) = "FAILURE" THEN Goes(Main, "recover")
                    ELSE Goes(Main, "out") /\ main'.status = StatusOfPads(main'.found)
<1> DEFINE found == main.found \cup {Delivered(e)}
           v     == IF SetsInput(e) THEN Head(e.data) ELSE 0
           m     == [main EXCEPT !.found = found, !.pad[main.lane] = v]
           others == Lanes \ {main.lane}
<1>0. setting \in Settings /\ DataTyped /\ PlacesTyped /\ main \in MainRecords
  BY DEF SuperTyped, DataTyped
<1>1. /\ UNCHANGED << setting, item, feeder, edge_status_queue, interrupted >>
      /\ pc[Main] = "pads" /\ Ready(e)
      /\ edge' = [edge EXCEPT ![c] = Taken(e)]
  BY <1>0, GoesOn DEF ReadPad, At
<1>2. Delivered(e) # "FLUSH"
  BY <1>1, PadFinds
<1>3. IF Delivered(e) = "FLUSH"
      THEN /\ main' = EmptyNext([m EXCEPT !.status = "FLUSH"], others)
           /\ Goes(Main, IF others = {} THEN "out" ELSE "flush")
      ELSE IF main.lane < setting.lanes
      THEN main' = [m EXCEPT !.lane = @ + 1] /\ Goes(Main, "pads")
      ELSE IF StatusOfPads(found) = "FAILURE"
      THEN main' = m /\ Goes(Main, "recover")
      ELSE main' = [m EXCEPT !.status = StatusOfPads(found)] /\ Goes(Main, "out")
  BY DEF ReadPad
<1> HIDE DEF found, v
<1>4. /\ main'.found = found /\ main'.round = main.round
      /\ main'.pad = [main.pad EXCEPT ![main.lane] = v]
      /\ IF main.lane < setting.lanes
         THEN Goes(Main, "pads") /\ main'.lane = main.lane + 1
         ELSE /\ IF StatusOfPads(found) = "FAILURE" THEN Goes(Main, "recover")
                 ELSE Goes(Main, "out") /\ main'.status = StatusOfPads(found)
  BY <1>0, <1>2, <1>3 DEF MainRecords
<1> QED
  BY <1>1, <1>4 DEF found, v

(* A pad takes the next status of its lane. *)
LEMMA ReadPadAligned ==
  ASSUME SuperTyped, LoopInvariant, PadsInvariant, ReadPad,
         NEW g, NEW took, NEW r, Alignment(g, took, r)
  PROVE  LoopInvariant' /\ PadsInvariant' /\ Aligned'
<1>c. PICK c : c = PadEdge(main.lane)
  OBVIOUS
<1>ef. PICK e, f : e = edge[c] /\ f = Taken(e)
  OBVIOUS
<1> DEFINE n  == Len(e.status)
           dl == Delivered(e)
<1>0. /\ setting \in Settings /\ DataTyped /\ PlacesTyped /\ DOMAIN pc = Threads
      /\ main \in MainRecords /\ main.lane \in Lanes /\ main.round \in Nat
  BY FeederParts DEF SuperTyped, DataTyped, PlacesTyped
<1>p. main.pad \in [Lanes -> 0 .. setting.frames] /\ main.found \in SUBSET EdgeStatus
  BY <1>0, MainParts
<1>1. /\ UNCHANGED << setting, item, feeder, edge_status_queue, interrupted >>
      /\ pc[Main] = "pads" /\ Ready(e)
      /\ edge' = [edge EXCEPT ![c] = f]
      /\ main'.found = main.found \cup {dl} /\ main'.round = main.round
      /\ main'.pad = [main.pad EXCEPT ![main.lane] =
                        IF SetsInput(e) THEN Head(e.data) ELSE 0]
      /\ IF main.lane < setting.lanes
         THEN Goes(Main, "pads") /\ main'.lane = main.lane + 1
         ELSE /\ IF StatusOfPads(main'.found) = "FAILURE" THEN Goes(Main, "recover")
                 ELSE Goes(Main, "out") /\ main'.status = StatusOfPads(main'.found)
  BY <1>c, <1>ef, ReadPadFacts
<1>2. /\ c \in Cells /\ c \in Segments /\ c[1] = main.lane
      /\ Paired(e, FrameNumbers)
      /\ dl \in EdgeStatus /\ dl # "FLUSH"
      /\ dl = "FAILURE" => item[c].status = "FAILURE"
      /\ setting.lanes = 1 => ~e.no_more_input
      /\ setting.lanes = 1 => (f.no_more_input <=> dl = "FAILURE")
      /\ f.no_more_input => f.status = << >> /\ pc[c] = "ended" /\ item[c].status = "FAILURE"
      /\ \A i \in 1 .. Len(f.status) :
           /\ f.status[i] # "FLUSH"
           /\ f.status[i] = "FAILURE" =>
                i = Len(f.status) /\ pc[c] = "ended" /\ item[c].status = "FAILURE"
  BY <1>1, <1>c, <1>ef, PadFinds
<1>3. /\ \A d \in Cells : InEdge(d) \in Segments /\ InEdge(d) # c /\ d \in Segments
      /\ \A l \in Lanes : PadEdge(l) \in Cells /\ (PadEdge(l) = c => l = main.lane)
      /\ \A l \in Lanes : << l, 0 >> \in Segments /\ << l, 0 >> # c
      /\ \A l \in Lanes : l \in Nat /\ l > 0 /\ l <= setting.lanes
      /\ setting.lanes \in Nat /\ setting.lanes \in Lanes
  <2>1. setting.lanes \in Nat
    BY <1>0, SettingTypes
  <2>2. \A l \in Lanes : PadEdge(l) \in Cells /\ (PadEdge(l) = c => l = main.lane)
    BY <1>0, <1>c, LaneParts
  <2>3. \A l \in Lanes : << l, 0 >> \in Segments /\ << l, 0 >> # c
    BY <1>0, <1>2, LaneParts
  <2>4. \A d \in Cells : InEdge(d) \in Segments /\ InEdge(d) # c /\ d \in Segments
    BY <1>0, <1>c, LaneParts
  <2>5. /\ \A l \in Lanes : l \in Nat /\ l > 0 /\ l <= setting.lanes
        /\ setting.lanes \in Lanes
    BY <1>0, LaneParts
  <2> QED
    BY <2>1, <2>2, <2>3, <2>4, <2>5
<1>l. /\ main.lane \in Nat /\ main.lane > 0 /\ main.lane <= setting.lanes
      /\ ~(main.lane < setting.lanes) => main.lane = setting.lanes
  BY <1>0, <1>3
<1> HIDE DEF n, dl
<1>4. PICK to : /\ pc'[Main] = to
                /\ to = IF main.lane < setting.lanes THEN "pads"
                        ELSE IF StatusOfPads(main'.found) = "FAILURE" THEN "recover"
                        ELSE "out"
  BY <1>0, <1>1, Names, GoesTo
<1>5. pc'[Feeder] = pc[Feeder] /\ \A d \in Cells : pc'[d] = pc[d]
  BY <1>0, <1>1, Names, GoesTo
<1>6. /\ edge'[c] = f
      /\ \A s \in Segments : s # c => edge'[s] = edge[s]
  BY <1>0, <1>1, <1>2 DEF DataTyped
<1>7. /\ Lanes' = Lanes /\ Cells' = Cells /\ Segments' = Segments
      /\ InnerThreads' = InnerThreads /\ Feeder' = Feeder /\ Main' = Main
      /\ \A l : PadEdge(l)' = PadEdge(l)
      /\ \A d : InEdge(d)' = InEdge(d)
  BY <1>1, SameSetting DEF Feeder, Main
<1>t. /\ g \in Seq(Nat) /\ Len(g) \in Nat /\ r \in Nat
      /\ took \in [Segments -> Nat]
      /\ \A s \in Segments : took[s] \in Nat /\ Len(edge[s].status) \in Nat
      /\ LanesAligned(g, took, r) /\ ValuesAligned(g, took)
      /\ setting.forwarding => ForwardingAligned(g, r)
      /\ ~setting.forwarding => QueueAligned(g, r)
  BY <1>0, AlignmentTypes
<1>o. ASSUME ~e.no_more_input
      PROVE  /\ n \in Nat /\ n >= 1 /\ Len(f.status) = n - 1
             /\ dl = e.status[1]
             /\ \A j \in 1 .. Len(f.status) :
                  /\ f.status[j] = e.status[j + 1]
                  /\ f.status[j] = "SUCCESS" => ValueAt(f, j) = ValueAt(e, j + 1)
             /\ SetsInput(e) <=> e.status[1] = "SUCCESS"
             /\ SetsInput(e) => Head(e.data) = ValueAt(e, 1)
  BY <1>1, <1>2, <1>ef, <1>o, OpenTaken DEF n, dl
<1>x. e.no_more_input => f = e /\ dl = "FAILURE" /\ ~SetsInput(e)
  BY <1>ef DEF Taken, Delivered, SetsInput, dl
(* What the round takes. *)
<1>r. PICK r2 : r2 = IF main.lane < setting.lanes THEN r ELSE r + 1
  OBVIOUS
<1>8. /\ ReadingPads = 1 /\ r2 \in Nat
      /\ r2 + ReadingPads' = r + ReadingPads
      /\ \A l \in Lanes : l # main.lane => r2 + ReadFrom(l)' = r + ReadFrom(l)
      /\ \A l \in Lanes : l = main.lane => r2 + ReadFrom(l)' = r + 1 /\ ReadFrom(l) = 0
  <2>1. ReadingPads = 1 /\ \A l : ReadFrom(l) = One(main.lane > l)
    BY <1>1 DEF ReadingPads, ReadFrom, One
  <2>2. CASE main.lane < setting.lanes
    <3>1. r2 = r /\ ReadingPads' = 1 /\ \A l : ReadFrom(l)' = One(main.lane + 1 > l)
      BY <1>1, <1>4, <1>7, <1>r, <2>2 DEF ReadingPads, ReadFrom, One
    <3>2. \A l \in Lanes : l # main.lane => (main.lane + 1 > l <=> main.lane > l)
      BY <1>3, <1>l
    <3>3. main.lane + 1 > main.lane /\ ~(main.lane > main.lane)
      BY <1>l
    <3> QED
      BY <1>t, <2>1, <3>1, <3>2, <3>3 DEF One
  <2>3. CASE ~(main.lane < setting.lanes)
    <3>1. r2 = r + 1 /\ ReadingPads' = 0 /\ \A l : ReadFrom(l)' = 0
      BY <1>4, <1>7, <1>r, <2>3 DEF ReadingPads, ReadFrom, One
    <3>2. \A l \in Lanes : l # main.lane => main.lane > l
      BY <1>3, <1>l, <2>3
    <3>3. ~(main.lane > main.lane)
      BY <1>l
    <3> QED
      BY <1>0, <1>t, <2>1, <3>1, <3>2, <3>3 DEF One
  <2> QED
    BY <2>2, <2>3
<1>9. /\ took[c] + n <= Len(g) /\ took[c] \in Nat
      /\ ~e.no_more_input => took[c] = r
  <2>1. took[c] + n <= Len(g) /\ took[c] \in Nat
    BY <1>2, <1>ef, <1>t DEF LanesAligned, n
  <2>2. ~e.no_more_input => took[c] = r + ReadFrom(main.lane)
    BY <1>0, <1>c, <1>ef, <1>t DEF LanesAligned
  <2>3. ReadFrom(main.lane) = 0
    BY <1>0, <1>8
  <2> QED
    BY <1>t, <2>1, <2>2, <2>3
(* The value that is read is the frame of the round. *)
<1>v. SetsInput(e) => Head(e.data) = main.round /\ Head(e.data) # 0
  <2>1. ASSUME SetsInput(e)
        PROVE  Head(e.data) = main.round /\ Head(e.data) # 0
    <3>1. ~e.no_more_input /\ e.status[1] = "SUCCESS" /\ n \in Nat /\ n >= 1
          /\ Head(e.data) = ValueAt(e, 1)
      BY <1>x, <1>o, <2>1
    <3>2. ValueAt(e, 1) = g[took[c] + 1]
      <4>1. 1 \in 1 .. Len(edge[c].status) /\ edge[c].status[1] = "SUCCESS"
        BY <1>ef, <3>1 DEF n
      <4> QED
        BY <1>2, <1>ef, <1>t, <4>1 DEF ValuesAligned
    <3>3. took[c] + 1 = r + 1 /\ r + 1 \in 1 .. Len(g)
      BY <1>9, <1>t, <3>1
    <3>4. g[r + 1] = main.round
      <4>1. CASE setting.forwarding
        <5>1. main.round = r + ReadingPads /\ \A k \in 1 .. Len(g) : g[k] = k
          BY <1>t, <4>1 DEF ForwardingAligned
        <5> QED
          BY <1>8, <3>3, <5>1
      <4>2. CASE ~setting.forwarding
        BY <1>1, <1>t, <4>2 DEF QueueAligned
      <4> QED
        BY <4>1, <4>2
    <3>5. Head(e.data) \in FrameNumbers
      BY <1>1, <1>2, <2>1, TakenPaired
    <3>6. Head(e.data) # 0
      BY <1>0, <3>5, SettingTypes DEF FrameNumbers
    <3> QED
      BY <3>1, <3>2, <3>3, <3>4, <3>6
  <2> QED
    BY <2>1
<1>10. LoopInvariant'
  <2>1. FeederInvariant'
    BY <1>1, <1>5, <1>7 DEF LoopInvariant, FeederInvariant
  <2>2. NoFlush'
    <3>1. ASSUME NEW s \in Segments, NEW i \in 1 .. Len(edge'[s].status)
          PROVE  edge'[s].status[i] # "FLUSH"
      <4>1. CASE s = c
        BY <1>2, <1>6, <4>1
      <4>2. CASE s # c
        BY <1>6, <4>2 DEF LoopInvariant, NoFlush
      <4> QED
        BY <4>1, <4>2
    <3> QED
      BY <1>1, <1>7, <3>1 DEF NoFlush, LoopInvariant
  <2>3. ASSUME NEW d \in Cells
        PROVE  ClosedBehind(d)'
    <3>1. ClosedBehind(d) /\ edge'[InEdge(d)] = edge[InEdge(d)]
      BY <1>3, <1>6 DEF LoopInvariant
    <3> QED
      BY <1>1, <1>5, <1>7, <3>1 DEF ClosedBehind
  <2>4. ASSUME NEW l \in Lanes
        PROVE  FailureIsLast(PadEdge(l))'
    <3>1. CASE PadEdge(l) = c
      BY <1>1, <1>2, <1>5, <1>6, <1>7, <3>1 DEF FailureIsLast
    <3>2. CASE PadEdge(l) # c
      <4>1. PadEdge(l) \in Cells /\ edge'[PadEdge(l)] = edge[PadEdge(l)]
            /\ FailureIsLast(PadEdge(l))
        BY <1>3, <1>6, <3>2 DEF LoopInvariant
      <4> QED
        BY <1>1, <1>5, <1>7, <4>1 DEF FailureIsLast
    <3> QED
      BY <3>1, <3>2
  <2>5. setting.lanes = 1 => (edge'[PadEdge(1)].no_more_input <=> pc'[Main] = "recover")
    <3>1. ASSUME setting.lanes = 1
          PROVE  edge'[PadEdge(1)].no_more_input <=> pc'[Main] = "recover"
      <4>1. main.lane = 1 /\ ~(main.lane < setting.lanes) /\ PadEdge(1) = c
        BY <1>l, <1>c, <3>1
      <4>2. main'.found = {dl}
        BY <1>1, <4>1 DEF LoopInvariant
      <4>3. StatusOfPads(main'.found) = "FAILURE" <=> dl = "FAILURE"
        BY <4>2 DEF StatusOfPads
      <4> QED
        BY <1>2, <1>4, <1>6, <3>1, <4>1, <4>3
    <3> QED
      BY <3>1
  <2>6. pc'[Main] = "pads" => main'.lane # 1
    BY <1>1, <1>4, <1>l
  <2> QED
    BY <1>1, <1>4, <1>5, <1>7, <2>1, <2>2, <2>3, <2>4, <2>5, <2>6 DEF LoopInvariant
<1>11. PadsInvariant'
  <2>1. ASSUME NEW l \in Lanes, l <= main.lane
        PROVE  PadRead(l)'
    <3>1. LaneFailed(l)' <=> LaneFailed(l)
      BY <1>1, <1>7 DEF LaneFailed
    <3>2. CASE l = main.lane
      <4>1. main'.pad[l] = IF SetsInput(e) THEN Head(e.data) ELSE 0
        BY <1>1, <1>p, <3>2
      <4>2. CASE SetsInput(e)
        BY <1>1, <1>v, <4>1, <4>2 DEF PadRead
      <4>3. CASE ~SetsInput(e)
        <5>1. dl \in {"SKIP", "FAILURE"}
          <6>1. dl # "SUCCESS"
            BY <1>o, <1>x, <4>3
          <6> QED
            BY <1>2, <6>1 DEF EdgeStatus, StepStatus
        <5>2. dl = "FAILURE" => LaneFailed(l)
          BY <1>2, <3>2 DEF LaneFailed
        <5> QED
          BY <1>1, <3>1, <4>1, <4>3, <5>1, <5>2 DEF PadRead
      <4> QED
        BY <4>2, <4>3
    <3>3. CASE l # main.lane
      <4>1. l < main.lane
        BY <1>3, <1>l, <2>1, <3>3
      <4>2. PadRead(l)
        BY <1>1, <4>1 DEF PadsInvariant
      <4>3. main'.pad[l] = main.pad[l]
        BY <1>1, <1>p, <3>3
      <4> QED
        BY <1>1, <3>1, <4>2, <4>3 DEF PadRead
    <3> QED
      BY <3>2, <3>3
  <2>2. CASE main.lane < setting.lanes
    <3>1. \A l \in Lanes : l < main'.lane => l <= main.lane
      BY <1>1, <1>3, <1>l, <2>2
    <3> QED
      BY <1>4, <1>7, <2>1, <2>2, <3>1 DEF PadsInvariant
  <2>3. CASE ~(main.lane < setting.lanes)
    <3>1. \A l \in Lanes : l <= main.lane
      BY <1>3, <1>l, <2>3
    <3>2. pc'[Main] = "out" /\ main'.status = "SUCCESS" => "SKIP" \notin main'.found
      <4>1. pc'[Main] = "out" => main'.status = StatusOfPads(main'.found)
        BY <1>1, <1>4, <2>3
      <4> QED
        BY <4>1 DEF StatusOfPads
    <3> QED
      BY <1>4, <1>7, <2>1, <2>3, <3>1, <3>2 DEF PadsInvariant
  <2> QED
    BY <2>2, <2>3
<1>k. PICK took2 : took2 = [took EXCEPT ![c] = IF e.no_more_input THEN @ ELSE @ + 1]
  OBVIOUS
<1>12. /\ took2 \in [Segments -> Nat]
       /\ took2[c] = IF e.no_more_input THEN took[c] ELSE took[c] + 1
       /\ \A s \in Segments : s # c => took2[s] = took[s]
  BY <1>2, <1>k, <1>t
<1>13. \A s \in Segments : took2[s] + Len(edge'[s].status) = took[s] + Len(edge[s].status)
  <2>1. took2[c] + Len(edge'[c].status) = took[c] + Len(edge[c].status)
    <3>1. CASE e.no_more_input
      BY <1>6, <1>12, <1>ef, <1>x, <3>1
    <3>2. CASE ~e.no_more_input
      <4>1. /\ took2[c] = took[c] + 1 /\ Len(edge'[c].status) = n - 1
            /\ Len(edge[c].status) = n /\ n \in Nat /\ took[c] \in Nat
        BY <1>2, <1>6, <1>12, <1>ef, <1>o, <1>t, <3>2 DEF n
      <4> QED
        BY <4>1
    <3> QED
      BY <3>1, <3>2
  <2> QED
    BY <1>6, <1>12, <2>1
<1>14. LanesAligned(g, took2, r2)'
  <2>1. \A s \in Segments : took2[s] + Len(edge'[s].status) <= Len(g)
    BY <1>13, <1>t DEF LanesAligned
  <2>2. \A l \in Lanes :
          took2[<< l, 0 >>] + Len(edge'[<< l, 0 >>].status) = Len(g) - Given(l)'
    <3>1. \A l : Given(l)' = Given(l)
      BY <1>1, <1>5, <1>7 DEF Given
    <3> QED
      BY <1>3, <1>13, <1>t, <3>1 DEF LanesAligned
  <2>3. ASSUME NEW d \in Cells
        PROVE  took2[InEdge(d)] = took2[d] + Len(edge'[d].status) + One(pc'[d] = "out")
    <3>1. took2[InEdge(d)] = took[InEdge(d)] /\ d \in Segments
      BY <1>3, <1>12
    <3>2. took2[d] + Len(edge'[d].status) = took[d] + Len(edge[d].status)
      BY <1>13, <3>1
    <3>3. took[InEdge(d)] = took[d] + Len(edge[d].status) + One(pc[d] = "out")
      BY <1>t DEF LanesAligned
    <3> QED
      BY <1>5, <3>1, <3>2, <3>3
  <2>4. ASSUME NEW l \in Lanes, setting.lanes = 1 \/ ~edge'[PadEdge(l)].no_more_input
        PROVE  took2[PadEdge(l)] = r2 + ReadFrom(l)'
    <3>1. CASE l = main.lane
      <4>1. ~e.no_more_input
        BY <1>2, <1>6, <1>c, <1>x, <2>4, <3>1
      <4> QED
        BY <1>8, <1>9, <1>12, <1>c, <3>1, <4>1
    <3>2. CASE l # main.lane
      <4>1. PadEdge(l) # c /\ PadEdge(l) \in Segments
        BY <1>3, <3>2
      <4>2. took[PadEdge(l)] = r + ReadFrom(l)
        BY <1>6, <1>t, <2>4, <4>1 DEF LanesAligned
      <4> QED
        BY <1>8, <1>12, <3>2, <4>1, <4>2
    <3> QED
      BY <3>1, <3>2
  <2> QED
    BY <1>1, <1>7, <2>1, <2>2, <2>3, <2>4 DEF LanesAligned
<1>15. ValuesAligned(g, took2)'
  <2>1. ASSUME NEW s \in Segments, NEW i \in 1 .. Len(edge'[s].status),
               edge'[s].status[i] = "SUCCESS"
        PROVE  ValueAt(edge'[s], i) = g[took2[s] + i]
    <3>1. CASE s = c /\ ~e.no_more_input
      <4>1. /\ i \in 1 .. Len(f.status) /\ i + 1 \in 1 .. n
            /\ took[c] + (i + 1) = took2[c] + i
        <5>1. i \in 1 .. Len(f.status) /\ Len(f.status) = n - 1 /\ n \in Nat /\ n >= 1
          BY <1>6, <1>o, <3>1
        <5>2. took2[c] = took[c] + 1 /\ took[c] \in Nat
          BY <1>9, <1>12, <3>1
        <5> QED
          BY <5>1, <5>2
      <4>2. e.status[i + 1] = "SUCCESS" /\ ValueAt(f, i) = ValueAt(e, i + 1)
        BY <1>6, <1>o, <2>1, <3>1, <4>1
      <4>3. ValueAt(e, i + 1) = g[took[c] + (i + 1)]
        BY <1>2, <1>ef, <1>t, <4>1, <4>2 DEF ValuesAligned, n
      <4> QED
        BY <1>6, <3>1, <4>1, <4>2, <4>3
    <3>2. CASE s # c \/ e.no_more_input
      <4>1. /\ edge'[s] = edge[s] /\ took2[s] = took[s]
        BY <1>6, <1>12, <1>ef, <1>x, <3>2
      <4>2. ValueAt(edge[s], i) = g[took[s] + i]
        BY <1>t, <2>1, <4>1 DEF ValuesAligned
      <4> QED
        BY <4>1, <4>2
    <3> QED
      BY <3>1, <3>2
  <2>2. ASSUME NEW d \in Cells, pc'[d] = "out", item'[d].status = "SUCCESS"
        PROVE  item'[d].frame = g[took2[InEdge(d)]]
    BY <1>1, <1>3, <1>5, <1>12, <1>t, <2>2 DEF ValuesAligned
  <2> QED
    BY <1>7, <2>1, <2>2 DEF ValuesAligned
<1>16. setting.forwarding => ForwardingAligned(g, r2)'
  BY <1>1, <1>8, <1>t DEF ForwardingAligned
<1>17. ~setting.forwarding => QueueAligned(g, r2)'
  <2>1. ASSUME ~setting.forwarding
        PROVE  QueueAligned(g, r2)'
    <3>1. /\ FeedsSuccess' <=> FeedsSuccess
          /\ One(FeedsSuccess') = One(FeedsSuccess)
      BY <1>1, <1>5, <1>7 DEF FeedsSuccess, One
    <3>2. One(pc'[Main] = "status") = One(pc[Main] = "status")
      BY <1>1, <1>4 DEF One
    <3>3. pc'[Main] = "pads" => g[r2 + 1] = main.round
      <4>1. pc'[Main] = "pads" => r2 = r
        BY <1>4, <1>r
      <4> QED
        BY <1>1, <1>t, <2>1, <4>1 DEF QueueAligned
    <3> QED
      BY <1>1, <1>5, <1>7, <1>8, <1>t, <2>1, <3>1, <3>2, <3>3 DEF QueueAligned, Successes
  <2> QED
    BY <2>1
<1>18. Alignment(g, took2, r2)'
  BY <1>1, <1>7, <1>8, <1>12, <1>14, <1>15, <1>16, <1>17, <1>t DEF Alignment
<1> QED
  BY <1>10, <1>11, <1>18 DEF Aligned

(* The only lane is recovered: nothing that was counted is lost, and its   *)
(* edges open again.                                                       *)
LEMMA RecoverAligned ==
  ASSUME SuperTyped, LoopInvariant, Recover,
         NEW g, NEW took, NEW r, Alignment(g, took, r)
  PROVE  LoopInvariant' /\ PadsInvariant' /\ Aligned'
<1>0. /\ setting \in Settings /\ DataTyped /\ PlacesTyped /\ DOMAIN pc = Threads
      /\ main \in MainRecords /\ DOMAIN edge = Segments /\ item \in [Cells -> ItemRecords]
  BY DEF SuperTyped, DataTyped, PlacesTyped
<1>1. PICK c \in Cells :
        /\ item[c].failed
        /\ \A d \in Downstream(c) : Over(d)
        /\ item' = [d \in Cells |->
             IF d \in Downstream(c)
             THEN [item[d] EXCEPT !.status = "SUCCESS", !.failed = FALSE] ELSE item[d]]
        /\ edge' = [s \in Segments |->
             IF s \in Downstream(c) THEN WasReset(edge[s]) ELSE edge[s]]
  BY DEF Recover
<1>d. PICK D : D = Downstream(c)
  OBVIOUS
<1>2. /\ pc[Main] = "recover" /\ main.recovered < setting.recoveries
      /\ main' = [main EXCEPT !.status = "SKIP", !.recovered = @ + 1]
      /\ Goes(Main, "start")
      /\ UNCHANGED << setting, feeder, edge_status_queue, interrupted >>
  BY DEF Recover, At
<1>3. main'.round = main.round /\ main'.lane = main.lane /\ main'.found = main.found
  BY <1>0, <1>2 DEF MainRecords
<1>4. setting.lanes = 1 /\ Lanes = {1}
  <2>1. main.recovered \in 0 .. setting.recoveries /\ setting.recoveries \in Nat
    BY <1>0, MainParts, SettingTypes
  <2>2. setting.lanes = 1
    BY <1>0, <1>2, <2>1, SettingTypes
  <2> QED
    BY <2>2 DEF Lanes
<1>5. /\ pc'[Main] = "start" /\ pc'[Feeder] = pc[Feeder]
      /\ \A d \in Cells : pc'[d] = pc[d]
  BY <1>0, <1>2, Names, GoesTo
<1>6. /\ Lanes' = Lanes /\ Cells' = Cells /\ Segments' = Segments
      /\ InnerThreads' = InnerThreads /\ Feeder' = Feeder /\ Main' = Main
      /\ \A l : PadEdge(l)' = PadEdge(l)
      /\ \A d : InEdge(d)' = InEdge(d)
  BY <1>2, SameSetting DEF Feeder, Main
(* What is downstream of the node that failed. *)
<1>7. /\ D \subseteq Cells /\ c \in D /\ PadEdge(1) \in D
      /\ \A d \in D : d # c => InEdge(d) \in D
      /\ \A d \in D : pc[d] \in {"none", "ended"}
  <2>1. /\ D = {d \in Cells : d[1] = c[1] /\ d[2] >= c[2]}
        /\ c[1] \in Lanes /\ c[2] \in Nat /\ c[2] > 0 /\ c[2] <= setting.depth
        /\ setting.depth \in Nat
    BY <1>0, <1>d, LaneParts, SettingTypes DEF Downstream
  <2>2. PadEdge(1) \in Cells /\ PadEdge(1)[1] = 1 /\ PadEdge(1)[2] = setting.depth
    BY <1>0, <1>4, LaneParts DEF PadEdge
  <2>3. PadEdge(1) \in D
    BY <1>4, <2>1, <2>2
  <2>4. ASSUME NEW d \in D, d # c
        PROVE  InEdge(d) \in D
    <3>1. /\ d \in Cells /\ d[1] = c[1] /\ d[2] >= c[2] /\ d[2] \in Nat
          /\ d[2] <= setting.depth /\ d = << d[1], d[2] >> /\ c = << c[1], c[2] >>
      BY <1>0, <2>1, LaneParts
    <3>2. d[2] # c[2]
      BY <2>4, <3>1
    <3>3. d[2] - 1 >= c[2] /\ d[2] - 1 \in 1 .. setting.depth
      BY <2>1, <3>1, <3>2
    <3>4. InEdge(d) = << d[1], d[2] - 1 >>
      BY DEF InEdge
    <3>5. InEdge(d) \in Cells
      BY <2>1, <3>1, <3>3, <3>4 DEF Cells
    <3> QED
      BY <2>1, <3>1, <3>3, <3>4, <3>5
  <2>5. ASSUME NEW d \in D
        PROVE  pc[d] \in {"none", "ended"}
    BY <1>0, <1>1, <1>d, <2>1 DEF Over, PlacesTyped, CellPlaces
  <2>6. c \in D
    BY <2>1
  <2> QED
    BY <2>1, <2>3, <2>4, <2>5, <2>6
<1>8. /\ \A s \in Segments :
           /\ edge'[s] = IF s \in D THEN WasReset(edge[s]) ELSE edge[s]
           /\ edge'[s].status = edge[s].status
           /\ \A i : ValueAt(edge'[s], i) = ValueAt(edge[s], i)
      /\ \A s \in D : ~edge'[s].no_more_input
      /\ \A d \in Cells : d \notin D => item'[d] = item[d]
      /\ \A d \in D : item'[d].status = "SUCCESS"
  <2>1. \A s \in Segments : Paired(edge[s], FrameNumbers)
    BY <1>0 DEF DataTyped
  <2>2. ASSUME NEW s \in Segments
        PROVE  /\ edge'[s] = IF s \in D THEN WasReset(edge[s]) ELSE edge[s]
               /\ edge'[s].status = edge[s].status /\ edge'[s].data = edge[s].data
               /\ s \in D => ~edge'[s].no_more_input
    <3>1. edge'[s] = IF s \in D THEN WasReset(edge[s]) ELSE edge[s]
      BY <1>1, <1>d
    <3>2. /\ WasReset(edge[s]).status = edge[s].status
          /\ WasReset(edge[s]).data = edge[s].data
          /\ ~WasReset(edge[s]).no_more_input
      BY <2>1, ResetPaired
    <3> QED
      BY <3>1, <3>2
  <2>3. \A d \in D : d \in Segments
    BY <1>0, <1>7, LaneParts
  <2>4. ASSUME NEW d \in Cells
        PROVE  /\ d \notin D => item'[d] = item[d]
               /\ d \in D => item'[d].status = "SUCCESS"
    BY <1>0, <1>1, <1>d DEF ItemRecords
  <2> QED
    BY <1>7, <2>2, <2>3, <2>4 DEF ValueAt
<1>p. /\ PadEdge(1) \in Segments /\ edge[PadEdge(1)].status = << >>
      /\ ~edge'[PadEdge(1)].no_more_input
  <2>1. FailureIsLast(PadEdge(1)) /\ edge[PadEdge(1)].no_more_input
    BY <1>2, <1>4 DEF LoopInvariant
  <2> QED
    BY <1>0, <1>7, <1>8, <2>1, LaneParts DEF FailureIsLast
<1>t. /\ g \in Seq(Nat) /\ Len(g) \in Nat /\ r \in Nat
      /\ took \in [Segments -> Nat]
      /\ LanesAligned(g, took, r) /\ ValuesAligned(g, took)
      /\ setting.forwarding => ForwardingAligned(g, r)
      /\ ~setting.forwarding => QueueAligned(g, r)
  BY <1>0, AlignmentTypes
<1>e. /\ \A l : Given(l)' = Given(l) /\ ReadFrom(l)' = ReadFrom(l)
      /\ ReadingPads' = ReadingPads /\ (FeedsSuccess' <=> FeedsSuccess)
      /\ One(FeedsSuccess') = One(FeedsSuccess)
      /\ One(pc'[Main] = "status") = One(pc[Main] = "status")
  <2>1. \A l : Given(l)' = Given(l) /\ ReadFrom(l)' = ReadFrom(l)
    BY <1>2, <1>5, <1>6 DEF Given, ReadFrom, One
  <2>2. ReadingPads' = ReadingPads /\ (FeedsSuccess' <=> FeedsSuccess)
    BY <1>2, <1>5, <1>6 DEF ReadingPads, FeedsSuccess, One
  <2>3. One(pc'[Main] = "status") = One(pc[Main] = "status")
    BY <1>2, <1>5 DEF One
  <2>4. One(FeedsSuccess') = One(FeedsSuccess)
    BY <2>2, Zenon DEF One
  <2> QED
    BY <2>1, <2>2, <2>3, <2>4
<1>s. /\ \A d \in Cells : d \in Segments /\ InEdge(d) \in Segments
      /\ \A l \in Lanes : << l, 0 >> \in Segments
  BY <1>0, LaneParts
<1>10. LoopInvariant'
  <2>1. FeederInvariant'
    BY <1>2, <1>5, <1>6 DEF LoopInvariant, FeederInvariant
  <2>2. NoFlush'
    <3>1. \A d \in Cells : item'[d].status # "FLUSH"
      BY <1>8 DEF LoopInvariant, NoFlush
    <3> QED
      BY <1>6, <1>8, <3>1 DEF LoopInvariant, NoFlush
  <2>3. \A d \in Cells : pc'[d] \in {"none", "in"} => item'[d].status # "FAILURE"
    BY <1>5, <1>8 DEF LoopInvariant
  <2>4. ASSUME NEW d \in Cells
        PROVE  ClosedBehind(d)'
    <3>1. ASSUME edge'[InEdge(d)].no_more_input
          PROVE  /\ pc[d] \in {"out", "ended"} /\ item[d].status = "FAILURE"
                 /\ ~item[d].failed /\ item'[d] = item[d]
      <4>1. InEdge(d) \notin D /\ edge[InEdge(d)].no_more_input
        BY <1>8, <1>s, <3>1
      <4>2. pc[d] \in {"out", "ended"} /\ item[d].status = "FAILURE" /\ ~item[d].failed
        BY <4>1 DEF LoopInvariant, ClosedBehind
      <4>3. d \notin D
        BY <1>1, <1>7, <4>1, <4>2
      <4> QED
        BY <1>8, <4>2, <4>3
    <3> QED
      BY <1>5, <1>6, <3>1 DEF ClosedBehind
  <2>5. \A l \in Lanes : FailureIsLast(PadEdge(l))'
    <3>1. Len(edge'[PadEdge(1)].status) = 0
      BY <1>8, <1>p
    <3>2. FailureIsLast(PadEdge(1))'
      BY <1>6, <1>p, <3>1 DEF FailureIsLast
    <3> QED
      BY <1>4, <3>2
  <2> QED
    BY <1>2, <1>4, <1>5, <1>6, <1>p, <2>1, <2>2, <2>3, <2>4, <2>5 DEF LoopInvariant
<1>11. PadsInvariant'
  BY <1>5, <1>6 DEF PadsInvariant
<1>12. LanesAligned(g, took, r)'
  <2>1. \A s \in Segments : took[s] + Len(edge'[s].status) <= Len(g)
    BY <1>8, <1>t DEF LanesAligned
  <2>2. \A l \in Lanes :
          took[<< l, 0 >>] + Len(edge'[<< l, 0 >>].status) = Len(g) - Given(l)'
    BY <1>8, <1>e, <1>s, <1>t DEF LanesAligned
  <2>3. \A d \in Cells :
          took[InEdge(d)] = took[d] + Len(edge'[d].status) + One(pc'[d] = "out")
    BY <1>5, <1>8, <1>s, <1>t DEF LanesAligned
  <2>4. \A l \in Lanes : took[PadEdge(l)] = r + ReadFrom(l)'
    BY <1>4, <1>e, <1>t DEF LanesAligned
  <2> QED
    BY <1>2, <1>6, <2>1, <2>2, <2>3, <2>4 DEF LanesAligned
<1>13. ValuesAligned(g, took)'
  <2>1. ASSUME NEW s \in Segments, NEW i \in 1 .. Len(edge'[s].status),
               edge'[s].status[i] = "SUCCESS"
        PROVE  ValueAt(edge'[s], i) = g[took[s] + i]
    <3>1. edge'[s].status = edge[s].status /\ ValueAt(edge'[s], i) = ValueAt(edge[s], i)
      BY <1>8
    <3>2. i \in 1 .. Len(edge[s].status) /\ edge[s].status[i] = "SUCCESS"
      BY <2>1, <3>1
    <3>3. ValueAt(edge[s], i) = g[took[s] + i]
      BY <1>t, <3>2 DEF ValuesAligned
    <3> QED
      BY <3>1, <3>3
  <2>2. ASSUME NEW d \in Cells, pc'[d] = "out", item'[d].status = "SUCCESS"
        PROVE  item'[d].frame = g[took[InEdge(d)]]
    BY <1>5, <1>7, <1>8, <1>t, <2>2 DEF ValuesAligned
  <2> QED
    BY <1>6, <2>1, <2>2 DEF ValuesAligned
<1>14. setting.forwarding => ForwardingAligned(g, r)'
  BY <1>2, <1>3, <1>e, <1>t DEF ForwardingAligned
<1>15. ~setting.forwarding => QueueAligned(g, r)'
  BY <1>2, <1>3, <1>5, <1>6, <1>e, <1>t DEF QueueAligned, Successes
<1>16. Alignment(g, took, r)'
  BY <1>2, <1>6, <1>12, <1>13, <1>14, <1>15, <1>t DEF Alignment
<1> QED
  BY <1>10, <1>11, <1>16 DEF Aligned

(* Nobody moves. *)
LEMMA NobodyMoves ==
  ASSUME LoopInvariant, PadsInvariant, Aligned,
         UNCHANGED << setting, edge, item, feeder, main, edge_status_queue, pc >>,
         interrupted' \cap InnerThreads = {}
  PROVE  LoopInvariant' /\ PadsInvariant' /\ Aligned'
<1>1. /\ Lanes' = Lanes /\ Cells' = Cells /\ Segments' = Segments
      /\ InnerThreads' = InnerThreads /\ Feeder' = Feeder /\ Main' = Main
      /\ \A l : PadEdge(l)' = PadEdge(l)
      /\ \A d : InEdge(d)' = InEdge(d)
  BY SameSetting DEF Feeder, Main
<1>2. FeederInvariant' /\ NoFlush'
  BY <1>1 DEF LoopInvariant, FeederInvariant, NoFlush
<1>3. \A c \in Cells : ClosedBehind(c)' = ClosedBehind(c)
  BY <1>1 DEF ClosedBehind
<1>4. \A c : FailureIsLast(c)' = FailureIsLast(c)
  BY DEF FailureIsLast
<1>5. \A l \in Lanes : FailureIsLast(PadEdge(l))'
  BY <1>1, <1>4 DEF LoopInvariant
<1>6. LoopInvariant'
  BY <1>1, <1>2, <1>3, <1>5 DEF LoopInvariant
<1>7. PadsInvariant'
  BY <1>1 DEF PadsInvariant, PadRead, LaneFailed
<1>8. PICK g, took, r : Alignment(g, took, r)
  BY DEF Aligned
<1>9. /\ \A l : Given(l)' = Given(l) /\ ReadFrom(l)' = ReadFrom(l)
      /\ ForwardingAligned(g, r)' = ForwardingAligned(g, r)
      /\ QueueAligned(g, r)' = QueueAligned(g, r)
  BY EndsStay
<1>10. LanesAligned(g, took, r)'
  BY <1>1, <1>8, <1>9 DEF Alignment, LanesAligned
<1>11. ValuesAligned(g, took)'
  BY <1>1, <1>8 DEF Alignment, ValuesAligned
<1>12. Alignment(g, took, r)'
  BY <1>1, <1>8, <1>9, <1>10, <1>11 DEF Alignment
<1> QED
  BY <1>6, <1>7, <1>12 DEF Aligned

(* Nobody comes back into the loop. *)
LEMMA LoopIsLeftOnce ==
  ASSUME SuperTyped, [SuperNext]_superVars, InLoop'
  PROVE  InLoop /\ setting' = setting
<1>0. setting \in Settings /\ PlacesTyped /\ DOMAIN pc = Threads
  BY DEF SuperTyped, DataTyped, PlacesTyped
<1>1. /\ Feeder \notin Cells /\ Main \notin Cells /\ Feeder # Main
      /\ Feeder \in Threads /\ Main \in Threads /\ Cells \subseteq Threads
      /\ Main' = Main
  BY <1>0, Names DEF Main
<1>2. setting' = setting
  BY DEF SuperNext, FeederStep, MainStep, CancellerStep, StepNode, AnnounceStep, FeederBegins,
         TakeFrame, FeedPad, QueueStatus, FeederFails, FeederLeaves, StartNodes, StartFeeder,
         TakeStatus, ReadPad, FlushPad, Recover, GiveUp, Announce, InterruptAll, Join,
         AnnounceFailure, Wait, ThreadInterrupted, Cancel, CancelInner, CancelEnds, superVars
<1>3. ASSUME NEW u \in Threads, NEW to, Goes(u, to), u # Main
      PROVE  InLoop
  <2>1. pc'[Main] = pc[Main]
    BY <1>0, <1>1, <1>3, GoesTo
  <2> QED
    BY <1>1, <2>1 DEF InLoop
<1>4. ASSUME NEW c \in Cells, StepNode(c) \/ AnnounceStep(c)
      PROVE  InLoop
  <2>1. \E to : Goes(c, to)
    BY <1>4 DEF StepNode, AnnounceStep
  <2>2. c \in Threads /\ c # Main
    BY <1>1
  <2> QED
    BY <1>3, <2>1, <2>2
<1>5. CASE FeederStep
  <2>1. \E to : Goes(Feeder, to)
    BY <1>5 DEF FeederStep, FeederBegins, TakeFrame, FeedPad, QueueStatus, FeederFails,
                FeederLeaves
  <2>2. pc'[Main] = pc[Main]
    BY <1>0, <1>1, <2>1, GoesTo
  <2> QED
    BY <1>1, <1>2, <2>2 DEF InLoop
<1>6. CASE MainStep
  <2>1. CASE \/ StartNodes \/ StartFeeder \/ TakeStatus \/ ReadPad \/ FlushPad \/ Recover
             \/ GiveUp \/ Announce
    BY <2>1 DEF StartNodes, StartFeeder, TakeStatus, ReadPad, FlushPad, Recover, GiveUp,
                Announce, At, InLoop
  <2>2. CASE InterruptAll \/ Join \/ AnnounceFailure
    <3>1. \E to \in {"join", "returned", "last"} : Goes(Main, to)
      BY <2>2 DEF InterruptAll, Join, AnnounceFailure
    <3>2. pc'[Main] \in {"join", "returned", "last"}
      BY <1>0, <1>1, <3>1, GoesTo
    <3> QED
      BY <1>1, <3>2 DEF InLoop
  <2> QED
    BY <1>6, <2>1, <2>2 DEF MainStep
<1>7. ASSUME NEW t \in Threads, ThreadInterrupted(t)
      PROVE  InLoop
  <2>1. CASE t # Main
    <3>1. \E to : Goes(t, to)
      BY <1>7 DEF ThreadInterrupted
    <3> QED
      BY <1>3, <2>1, <3>1
  <2>2. CASE t = Main
    <3>1. \E to \in {"interrupt", "join", "killed"} : Goes(Main, to)
      BY <1>1, <1>7, <2>2 DEF ThreadInterrupted
    <3>2. pc'[Main] \in {"interrupt", "join", "killed"}
      BY <1>0, <1>1, <3>1, GoesTo
    <3> QED
      BY <1>1, <3>2 DEF InLoop
  <2> QED
    BY <2>1, <2>2
<1>8. ASSUME pc' = pc
      PROVE  InLoop
  <2>1. pc'[Main] = pc[Main]
    BY <1>8
  <2> QED
    BY <1>1, <2>1 DEF InLoop
<1>9. CASE (\E t \in Threads : Wait(t)) \/ Cancel \/ CancellerStep \/ UNCHANGED superVars
  BY <1>8, <1>9 DEF Wait, Cancel, CancellerStep, CancelInner, CancelEnds, superVars
<1> QED
  BY <1>2, <1>4, <1>5, <1>6, <1>7, <1>9 DEF SuperNext

LEMMA SuperInvariantStep ==
  ASSUME SuperTyped, ThreadInvariant, SuperInvariant, [SuperNext]_superVars
  PROVE  SuperInvariant'
<1> SUFFICES ASSUME Counted', InLoop'
             PROVE  LoopInvariant' /\ PadsInvariant' /\ Aligned'
  BY DEF SuperInvariant
<1>0. /\ InLoop /\ setting' = setting /\ Counted
      /\ LoopInvariant /\ PadsInvariant /\ Aligned
      /\ setting \in Settings /\ PlacesTyped
  <2>1. InLoop /\ setting' = setting
    BY LoopIsLeftOnce
  <2>2. Counted
    BY <2>1, SameSetting
  <2> QED
    BY <2>1, <2>2 DEF SuperInvariant, SuperTyped, DataTyped
<1>1. PICK g, took, r : Alignment(g, took, r)
  BY <1>0 DEF Aligned
<1>2. ASSUME NEW c \in Cells, StepNode(c) \/ AnnounceStep(c)
      PROVE  LoopInvariant' /\ PadsInvariant' /\ Aligned'
  <2>1. CASE StepNode(c)
    BY <1>0, <1>1, <2>1, StepNodeAligned
  <2>2. CASE AnnounceStep(c)
    BY <1>0, <1>1, <2>2, AnnounceStepAligned
  <2> QED
    BY <1>2, <2>1, <2>2
<1>3. CASE FeederStep
  <2>1. CASE FeederBegins \/ FeederFails \/ FeederLeaves
    BY <1>0, <1>1, <2>1, FeederTurns
  <2>2. CASE TakeFrame
    BY <1>0, <1>1, <2>2, TakeFrameAligned
  <2>3. CASE FeedPad
    BY <1>0, <1>1, <2>3, FeedPadAligned
  <2>4. CASE QueueStatus
    BY <1>0, <1>1, <2>4, QueueStatusAligned
  <2> QED
    BY <1>3, <2>1, <2>2, <2>3, <2>4 DEF FeederStep
<1>4. CASE MainStep
  <2>1. CASE StartNodes
    BY <1>0, <1>1, <2>1, StartNodesAligned
  <2>2. CASE StartFeeder
    BY <1>0, <1>1, <2>2, StartFeederAligned
  <2>3. CASE TakeStatus
    BY <1>0, <1>1, <2>3, TakeStatusAligned
  <2>4. CASE ReadPad
    BY <1>0, <1>1, <2>4, ReadPadAligned
  <2>5. CASE FlushPad
    BY <1>0, <2>5 DEF FlushPad, At, LoopInvariant
  <2>6. CASE Recover
    BY <1>0, <1>1, <2>6, RecoverAligned
  <2>7. CASE Announce
    BY <1>0, <1>1, <2>7, AnnounceAligned
  <2>8. CASE GiveUp \/ InterruptAll \/ Join \/ AnnounceFailure
    <3>1. \E to \in {"interrupt", "join", "returned", "last"} : Goes(Main, to)
      BY <2>8 DEF GiveUp, InterruptAll, Join, AnnounceFailure
    <3>2. pc'[Main] \in {"interrupt", "join", "returned", "last"} /\ Main' = Main
      BY <1>0, <3>1, Names, GoesTo DEF PlacesTyped, Main
    <3> QED
      BY <3>2 DEF InLoop
  <2> QED
    BY <1>4, <2>1, <2>2, <2>3, <2>4, <2>5, <2>6, <2>7, <2>8 DEF MainStep
<1>5. ASSUME NEW t \in Threads, ThreadInterrupted(t)
      PROVE  FALSE
  <2>1. t = Main
    BY <1>0, <1>5, Names DEF ThreadInterrupted, LoopInvariant
  <2>2. pc[Main] # "join"
    BY <1>0 DEF InLoop
  <2>3. \E to \in {"interrupt", "killed"} : Goes(Main, to)
    BY <1>0, <1>5, <2>1, <2>2, Names DEF ThreadInterrupted
  <2>4. pc'[Main] \in {"interrupt", "killed"} /\ Main' = Main
    BY <1>0, <2>3, Names, GoesTo DEF PlacesTyped, Main
  <2> QED
    BY <2>4 DEF InLoop
<1>6. CASE (\E t \in Threads : Wait(t)) \/ Cancel \/ CancellerStep \/ UNCHANGED superVars
  <2>1. UNCHANGED << setting, edge, item, feeder, main, edge_status_queue, pc >>
    BY <1>6 DEF Wait, Cancel, CancellerStep, CancelInner, CancelEnds, superVars
  <2>2. interrupted' \cap InnerThreads = {}
    <3>1. CASE (\E t \in Threads : Wait(t)) \/ CancelEnds \/ UNCHANGED superVars
      BY <1>0, <3>1 DEF Wait, CancelEnds, superVars, LoopInvariant
    <3>2. CASE Cancel
      BY <1>0, <3>2, Names DEF Cancel, LoopInvariant
    <3>3. CASE CancelInner
      BY <1>0, <3>3 DEF CancelInner, Over, InLoop
    <3> QED
      BY <1>6, <3>1, <3>2, <3>3 DEF CancellerStep
  <2> QED
    BY <1>0, <2>1, <2>2, NobodyMoves
<1> QED
  BY <1>2, <1>3, <1>4, <1>5, <1>6 DEF SuperNext

LEMMA SuperInvariantInit ==
  ASSUME SuperInit
  PROVE  SuperInvariant
<1>0. SuperTyped /\ setting \in Settings
  BY SuperTypedInit DEF SuperInit
<1>1. /\ \A s \in Segments : edge[s] = EmptyEdge
      /\ \A c \in Cells : item[c].status = "SUCCESS" /\ pc[c] = "none"
      /\ feeder.status = "SUCCESS" /\ feeder.arrived = 0
      /\ main.round = 0 /\ edge_status_queue = << >> /\ interrupted = {}
      /\ pc[Main] = "start" /\ pc[Feeder] = "none"
  BY <1>0, Names DEF SuperInit
<1>2. /\ \A c \in Cells : InEdge(c) \in Segments /\ c \in Segments
      /\ \A l \in Lanes : PadEdge(l) \in Cells /\ << l, 0 >> \in Segments
      /\ 1 \in Lanes
  BY <1>0, LaneParts
<1>3. /\ Len(EmptyEdge.status) = 0 /\ EmptyEdge.no_more_input = FALSE
      /\ Len(<< >>) = 0
  BY DEF EmptyEdge
<1>4. LoopInvariant
  <2>1. FeederInvariant /\ NoFlush
    BY <1>1, <1>3 DEF FeederInvariant, NoFlush
  <2>2. \A c \in Cells : ClosedBehind(c) /\ FailureIsLast(c)
    BY <1>1, <1>2, <1>3 DEF ClosedBehind, FailureIsLast
  <2> QED
    BY <1>1, <1>2, <1>3, <2>1, <2>2 DEF LoopInvariant
<1>5. PadsInvariant
  BY <1>1 DEF PadsInvariant
<1>6. Alignment(<< >>, [s \in Segments |-> 0], 0)
  <2> DEFINE took == [s \in Segments |-> 0]
  <2>1. /\ \A l : Given(l) = 0 /\ ReadFrom(l) = 0
        /\ ReadingPads = 0 /\ ~FeedsSuccess /\ One(FeedsSuccess) = 0
        /\ \A c \in Cells : One(pc[c] = "out") = 0
        /\ One(pc[Main] = "status") = 0 /\ One(feeder.status = "FAILURE") = 0
        /\ One(pc[Feeder] \in {"pads", "queue"}) = 0
    BY <1>1 DEF Given, ReadFrom, ReadingPads, FeedsSuccess, One
  <2>2. LanesAligned(<< >>, took, 0) /\ ValuesAligned(<< >>, took)
    <3>1. /\ \A s \in Segments : Len(edge[s].status) = 0 /\ took[s] = 0
          /\ \A s \in Segments : edge[s].status = << >>
      BY <1>1, <1>3 DEF EmptyEdge
    <3> HIDE DEF took
    <3>2. LanesAligned(<< >>, took, 0)
      <4>1. \A s \in Segments : took[s] + Len(edge[s].status) <= Len(<< >>)
        BY <1>3, <3>1
      <4>2. ASSUME NEW l \in Lanes
            PROVE  took[<< l, 0 >>] + Len(edge[<< l, 0 >>].status) = Len(<< >>) - Given(l)
        <5>1. took[<< l, 0 >>] = 0 /\ Len(edge[<< l, 0 >>].status) = 0
          BY <1>2, <3>1
        <5>2. Given(l) = 0
          BY <2>1
        <5> QED
          BY <1>3, <5>1, <5>2
      <4>3. \A c \in Cells :
              took[InEdge(c)] = took[c] + Len(edge[c].status) + One(pc[c] = "out")
        BY <1>2, <2>1, <3>1
      <4>4. \A l \in Lanes : took[PadEdge(l)] = 0 + ReadFrom(l)
        <5>1. \A l \in Lanes : took[PadEdge(l)] = 0
          BY <1>2, <3>1
        <5>2. \A l : ReadFrom(l) = 0
          BY <2>1
        <5> QED
          BY <5>1, <5>2
      <4> QED
        BY <4>1, <4>2, <4>3, <4>4 DEF LanesAligned
    <3>3. ValuesAligned(<< >>, took)
      BY <1>1, <3>1 DEF ValuesAligned
    <3> QED
      BY <3>2, <3>3
  <2>3. ForwardingAligned(<< >>, 0)
    BY <1>1, <1>3, <2>1 DEF ForwardingAligned
  <2>4. QueueAligned(<< >>, 0)
    <3>1. Successes(<< >>) = 0
      BY <1>3, CountNone DEF Successes
    <3> QED
      BY <1>1, <1>3, <2>1, <3>1 DEF QueueAligned
  <2>5. << >> \in Seq(Nat) /\ took \in [Segments -> Nat]
    OBVIOUS
  <2> QED
    BY <2>2, <2>3, <2>4, <2>5 DEF Alignment
<1> QED
  BY <1>4, <1>5, <1>6 DEF SuperInvariant, Aligned

THEOREM SuperInvariantHolds == SuperSpec => []SuperInvariant
<1>1. SuperInit => SuperInvariant
  BY SuperInvariantInit
<1>2. SuperTyped /\ ThreadInvariant /\ SuperInvariant /\ [SuperNext]_superVars => SuperInvariant'
  BY SuperInvariantStep
<1> QED
  BY <1>1, <1>2, SuperTypedHolds, PTL DEF SuperSpec

(***************************************************************************)
(* When a super process announces SUCCESS, the pads hold the frame of the  *)
(* round, all of them but those of a lane that has failed, behind any      *)
(* recovery: where no process swallows a status, which is what makes the   *)
(* counting possible.                                                      *)
(***************************************************************************)
THEOREM PadsKeepStep == SuperSpec => [](Counted => PadsInStep)
<1>1. ASSUME SuperInvariant
      PROVE  Counted => PadsInStep
  <2>1. ASSUME Counted, pc[Main] = "out", main.status = "SUCCESS"
        PROVE  \A l \in Lanes : /\ main.pad[l] \in {0, main.round}
                                /\ main.pad[l] = 0 => LaneFailed(l)
    <3>1. PadsInvariant
      BY <1>1, <2>1 DEF SuperInvariant, InLoop
    <3> QED
      BY <2>1, <3>1 DEF PadsInvariant, PadRead
  <2> QED
    BY <2>1 DEF PadsInStep
<1> QED
  BY <1>1, SuperInvariantHolds, PTL

(***************************************************************************)
(* What a lane holds is counted from its first edge: a function that       *)
(* counts so is the one that InLane defines.                               *)
(***************************************************************************)
LEMMA InLaneCounts ==
  ASSUME setting \in Settings, NEW l \in Lanes, NEW h,
         h = [d \in 0 .. setting.depth |->
                Len(edge[<< l, d >>].status)
                + (IF d > 0 /\ pc[<< l, d >>] = "out" THEN 1 ELSE 0)
                + (IF d > 0 THEN h[d - 1] ELSE 0)]
  PROVE  InLane(l) = h[setting.depth]
<1> DEFINE After(f) == [d \in 0 .. setting.depth |->
                          Len(edge[<< l, d >>].status)
                          + (IF d > 0 /\ pc[<< l, d >>] = "out" THEN 1 ELSE 0)
                          + (IF d > 0 THEN f[d - 1] ELSE 0)]
<1> DEFINE held == CHOOSE f : f = After(f)
<1>1. InLane(l) = held[setting.depth]
  BY DEF InLane
<1>2. held = After(held)
  <2>1. h = After(h)
    OBVIOUS
  <2> HIDE DEF After
  <2> QED
    BY <2>1
<1>3. \A d \in 0 .. setting.depth :
        /\ held[d] = After(held)[d] /\ h[d] = After(h)[d]
  <2>1. h = After(h)
    OBVIOUS
  <2> HIDE DEF After, held
  <2> QED
    BY <1>2, <2>1
<1>4. \A d \in 0 .. setting.depth :
        /\ d > 0 => d - 1 \in 0 .. setting.depth /\ d - 1 < d
        /\ d = 0 \/ d > 0
        /\ d \in Nat
  BY SettingTypes
<1> HIDE DEF held
<1>5. ASSUME NEW d \in 0 .. setting.depth, held[d] # h[d]
      PROVE  d > 0 /\ held[d - 1] # h[d - 1]
  <2>1. CASE d = 0
    <3>1. After(held)[d] = After(h)[d]
      BY <2>1
    <3> QED
      BY <1>3, <1>5, <3>1
  <2>2. CASE d > 0 /\ held[d - 1] = h[d - 1]
    <3>1. After(held)[d] = After(h)[d]
      BY <2>2
    <3> QED
      BY <1>3, <1>5, <3>1
  <2> QED
    BY <1>4, <2>1, <2>2
<1> HIDE DEF After
<1> DEFINE Wrong == {d \in 0 .. setting.depth : held[d] # h[d]}
<1>6. Wrong = {}
  <2>1. SUFFICES ASSUME Wrong # {} PROVE FALSE
    OBVIOUS
  <2>2. Wrong \subseteq Nat
    BY <1>4
  <2>3. PICK d \in Wrong : \A k \in Wrong : << k, d >> \notin OpToRel(<, Nat)
    BY <2>1, <2>2, WFMin, NatLessThanWellFounded
  <2>4. d \in 0 .. setting.depth /\ d > 0 /\ held[d - 1] # h[d - 1]
    BY <1>5, <2>3
  <2>5. d - 1 \in Wrong /\ d - 1 < d /\ d \in Nat /\ d - 1 \in Nat
    BY <1>4, <2>4
  <2>6. \A x, y \in Nat : y < x => << y, x >> \in OpToRel(<, Nat)
    BY DEF OpToRel
  <2> QED
    BY <2>3, <2>5, <2>6
<1>7. setting.depth \in 0 .. setting.depth
  BY SettingTypes
<1> QED
  BY <1>1, <1>6, <1>7

(***************************************************************************)
(* A lane holds what was given to it and did not come out of it: from edge *)
(* to edge it is the difference of the numbers that were taken.            *)
(***************************************************************************)
LEMMA InLaneAligned ==
  ASSUME SuperTyped, NEW l \in Lanes,
         NEW g \in Seq(Nat), NEW took \in [Segments -> Nat], NEW r \in Nat,
         LanesAligned(g, took, r)
  PROVE  InLane(l) = (Len(g) - Given(l)) - took[PadEdge(l)]
<1>0. setting \in Settings
  BY DEF SuperTyped, DataTyped
<1> DEFINE h == [d \in 0 .. setting.depth |-> (Len(g) - Given(l)) - took[<< l, d >>]]
<1>1. ASSUME NEW d \in 0 .. setting.depth, d > 0
      PROVE  /\ << l, d >> \in Cells /\ InEdge(<< l, d >>) = << l, d - 1 >>
             /\ d - 1 \in 0 .. setting.depth
             /\ << l, d >> \in Segments /\ << l, d - 1 >> \in Segments
  <2>1. d \in 1 .. setting.depth /\ d - 1 \in 0 .. setting.depth
    BY <1>0, <1>1, SettingTypes
  <2> QED
    BY <2>1 DEF Cells, Segments, InEdge
<1>2. \A d \in 0 .. setting.depth : << l, d >> \in Segments
  BY DEF Segments
<1>3. /\ \A s \in Segments : Len(edge[s].status) \in Nat /\ took[s] \in Nat
      /\ Given(l) \in Nat /\ Len(g) \in Nat
  <2>1. \A s \in Segments : Len(edge[s].status) \in Nat
    BY DEF SuperTyped, DataTyped, Paired
  <2> QED
    BY <2>1 DEF Given, One
<1> DEFINE next(d) == Len(edge[<< l, d >>].status)
                      + (IF d > 0 /\ pc[<< l, d >>] = "out" THEN 1 ELSE 0)
                      + (IF d > 0 THEN h[d - 1] ELSE 0)
<1>4. ASSUME NEW d \in 0 .. setting.depth
      PROVE  (Len(g) - Given(l)) - took[<< l, d >>] = next(d)
  <2>1. CASE d = 0
    <3>1. took[<< l, 0 >>] + Len(edge[<< l, 0 >>].status) = Len(g) - Given(l)
      BY DEF LanesAligned
    <3>2. next(d) = Len(edge[<< l, 0 >>].status) + 0 + 0
      BY <2>1
    <3>3. took[<< l, 0 >>] \in Nat /\ Len(edge[<< l, 0 >>].status) \in Nat
      BY <1>2, <1>3, <2>1
    <3> HIDE DEF next
    <3> QED
      BY <1>3, <2>1, <3>1, <3>2, <3>3
  <2>2. CASE d > 0
    <3>1. took[<< l, d - 1 >>]
            = took[<< l, d >>] + Len(edge[<< l, d >>].status) + One(pc[<< l, d >>] = "out")
      <4>1. << l, d >> \in Cells /\ InEdge(<< l, d >>) = << l, d - 1 >>
        BY <1>1, <2>2
      <4> QED
        BY <4>1 DEF LanesAligned
    <3>2. h[d - 1] = (Len(g) - Given(l)) - took[<< l, d - 1 >>]
      BY <1>1, <2>2
    <3>3. next(d) = Len(edge[<< l, d >>].status) + One(pc[<< l, d >>] = "out") + h[d - 1]
      BY <2>2 DEF One
    <3>4. /\ took[<< l, d >>] \in Nat /\ Len(edge[<< l, d >>].status) \in Nat
          /\ took[<< l, d - 1 >>] \in Nat /\ One(pc[<< l, d >>] = "out") \in Nat
      BY <1>1, <1>3, <2>2 DEF One
    <3> DEFINE given == Len(g) - Given(l)
               before == took[<< l, d - 1 >>]
               after == took[<< l, d >>]
               queued == Len(edge[<< l, d >>].status)
               out == One(pc[<< l, d >>] = "out")
    <3>5. given \in Int
      BY <1>3
    <3>6. /\ after \in Nat /\ queued \in Nat /\ before \in Nat /\ out \in Nat
          /\ before = after + queued + out
          /\ next(d) = queued + out + (given - before)
      BY <3>1, <3>2, <3>3, <3>4
    <3>7. given - after = next(d)
      <4> HIDE DEF next, h, given, before, after, queued, out
      <4> QED
        BY <3>5, <3>6
    <3> QED
      BY <3>7
  <2>3. d = 0 \/ d > 0
    OBVIOUS
  <2> QED
    BY <2>1, <2>2, <2>3
<1>5. h = [d \in 0 .. setting.depth |-> next(d)]
  <2> HIDE DEF next
  <2> QED
    BY <1>4
<1>6. InLane(l) = h[setting.depth]
  <2> HIDE DEF h
  <2> QED
    BY <1>0, <1>5, InLaneCounts
<1> QED
  BY <1>0, <1>6, SettingTypes DEF PadEdge

(***************************************************************************)
(* While no node of a lane has failed, Main waits at its pad for no output *)
(* that will not come, and leaves none behind: the lane holds what the     *)
(* status queue promises.                                                  *)
(***************************************************************************)
THEOREM LanesMatchQueue == SuperSpec => []LanesMatchStatusQueue
<1>1. ASSUME SuperTyped, SuperInvariant, ~setting.forwarding, Counted,
             NEW l \in Lanes, ~LaneFailed(l),
             pc[Main] \notin {"killed", "interrupt", "join", "last", "returned"}
      PROVE  InLane(l) = Successes(edge_status_queue)
                + (IF pc[Main] = "pads" /\ main.lane <= l THEN 1 ELSE 0)
                + (IF /\ feeder.status = "SUCCESS"
                      /\ pc[Feeder] = "queue" \/ (pc[Feeder] = "pads" /\ feeder.lane > l)
                   THEN 1 ELSE 0)
  <2>0. setting \in Settings /\ l \in Nat /\ feeder.lane \in Nat /\ main.lane \in Nat
    <3>1. setting \in Settings
      BY <1>1 DEF SuperTyped, DataTyped
    <3>2. Lanes \subseteq Nat
      BY <3>1, LaneParts
    <3> QED
      BY <1>1, <3>1, <3>2 DEF SuperTyped, DataTyped, FeederRecords, MainRecords
  <2>1. LoopInvariant /\ Aligned
    BY <1>1 DEF SuperInvariant, SuperTyped, PlacesTyped, MainPlaces, InLoop
  <2>2. PICK g, took, r : Alignment(g, took, r)
    BY <2>1 DEF Aligned
  <2>3. /\ g \in Seq(Nat) /\ took \in [Segments -> Nat] /\ r \in Nat
        /\ LanesAligned(g, took, r)
        /\ QueueAligned(g, r)
    BY <1>1, <2>2 DEF Alignment
  <2>4. ~edge[PadEdge(l)].no_more_input
    <3>1. PadEdge(l) \in Cells /\ PadEdge(l)[1] = l
      BY <2>0, LaneParts DEF PadEdge
    <3>2. item[PadEdge(l)].status # "FAILURE"
      BY <1>1, <3>1 DEF LaneFailed
    <3> QED
      BY <2>1, <3>2 DEF LoopInvariant, FailureIsLast
  <2>5. took[PadEdge(l)] = r + ReadFrom(l)
    BY <2>3, <2>4 DEF LanesAligned
  <2>6. Len(g) = (r + ReadingPads) + Successes(edge_status_queue) + One(FeedsSuccess)
    BY <2>3 DEF QueueAligned
  <2>7. InLane(l) = (Len(g) - Given(l)) - took[PadEdge(l)]
    BY <1>1, <2>3, InLaneAligned
  <2> DEFINE asks == pc[Main] = "pads" /\ main.lane <= l
             gives == /\ feeder.status = "SUCCESS"
                      /\ pc[Feeder] = "queue" \/ (pc[Feeder] = "pads" /\ feeder.lane > l)
  <2>8. ReadingPads = ReadFrom(l) + One(asks)
    <3>1. main.lane <= l <=> ~(main.lane > l)
      BY <2>0
    <3> QED
      BY <3>1 DEF ReadingPads, ReadFrom, One
  <2>9. One(FeedsSuccess) = Given(l) + One(gives)
    <3>1. feeder.lane <= l <=> ~(feeder.lane > l)
      BY <2>0
    <3>2. pc[Feeder] = "pads" => feeder.status = "SUCCESS"
      BY <1>1, <2>1 DEF LoopInvariant, FeederInvariant
    <3> QED
      BY <3>1, <3>2 DEF FeedsSuccess, Given, One
  <2>10. /\ Len(g) \in Nat /\ Given(l) \in Nat /\ ReadFrom(l) \in Nat
         /\ One(asks) \in Nat /\ One(gives) \in Nat
    BY <2>3 DEF Given, ReadFrom, One
  <2>11. Successes(edge_status_queue) \in Nat
    <3>1. edge_status_queue \in Seq(EdgeStatus)
      BY <1>1 DEF SuperTyped, DataTyped
    <3>2. /\ SuccessesUpTo(edge_status_queue, Len(edge_status_queue))
               \subseteq 1 .. Len(edge_status_queue)
          /\ Len(edge_status_queue) \in Nat
      BY <3>1 DEF SuccessesUpTo
    <3>3. IsFiniteSet(1 .. Len(edge_status_queue))
      BY <3>2, FS_Interval
    <3>4. IsFiniteSet(SuccessesUpTo(edge_status_queue, Len(edge_status_queue)))
      BY <3>2, <3>3, FS_Subset
    <3> QED
      BY <3>4, FS_CardinalityType DEF Successes
  <2>12. InLane(l) = Successes(edge_status_queue) + One(asks) + One(gives)
    <3> DEFINE length == Len(g)
               promised == Successes(edge_status_queue)
               asked == One(asks)
               given == One(gives)
    <3>1. /\ length = (r + ReadingPads) + promised + One(FeedsSuccess)
          /\ InLane(l) = (length - Given(l)) - (r + ReadFrom(l))
      BY <2>5, <2>6, <2>7
    <3>2. ReadingPads = ReadFrom(l) + asked /\ One(FeedsSuccess) = Given(l) + given
      BY <2>8, <2>9
    <3>3. /\ length \in Nat /\ Given(l) \in Nat /\ ReadFrom(l) \in Nat /\ r \in Nat
          /\ promised \in Nat /\ asked \in Nat /\ given \in Nat
      BY <2>3, <2>10, <2>11
    <3> HIDE DEF length, promised, asked, given
    <3>4. InLane(l) = promised + asked + given
      BY <3>1, <3>2, <3>3
    <3> QED
      BY <3>4 DEF promised, asked, given
  <2> QED
    BY <2>12 DEF One
<1>2. SuperTyped /\ SuperInvariant => LanesMatchStatusQueue
  BY <1>1 DEF LanesMatchStatusQueue
<1> QED
  BY <1>2, SuperTypedHolds, SuperInvariantHolds, PTL
=============================================================================
