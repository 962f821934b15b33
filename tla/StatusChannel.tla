--------------------------- MODULE StatusChannel ----------------------------
(***************************************************************************)
(* What an asynchronous edge promises the two nodes it connects: one queue *)
(* of messages, each a step status together with the value of that step,   *)
(* received in the order in which they were sent.  A flush may drop the    *)
(* values still in transit and nothing else: a SKIP, a FLUSH or a FAILURE  *)
(* that was sent is received.  A channel whose last message was a FAILURE  *)
(* is closed, and a receiver that asks again is told FAILURE at once.      *)
(*                                                                         *)
(* There are no threads, locks, condition variables or paired queues here. *)
(***************************************************************************)
EXTENDS Integers, Sequences

CONSTANTS Bound,      (* the most messages in transit; zero for no bound *)
          Statuses,   (* with "SUCCESS", "FAILURE" and "FLUSH" among them *)
          Values,     (* what a SUCCESS carries *)
          NoValue     (* what every other status carries *)

VARIABLES queue,      (* the messages in transit, oldest first *)
          closed,     (* the last message received was a final FAILURE *)
          received    (* the message received last *)

vars == << queue, closed, received >>

Message ==
  {m \in [st : Statuses, val : Values \cup {NoValue}] :
     m.val = NoValue <=> m.st # "SUCCESS"}

Init ==
  /\ queue = << >>
  /\ closed = FALSE
  /\ received = [st |-> "SKIP", val |-> NoValue]

Send(m) ==
  /\ Bound = 0 \/ Len(queue) < Bound
  /\ queue' = Append(queue, m)
  /\ closed' = FALSE
  /\ UNCHANGED received

(* The positions of the messages that carry no value, in order. *)
Survivors ==
  {position \in UNION {[1 .. n -> 1 .. Len(queue)] : n \in 0 .. Len(queue)} :
     /\ \A i, j \in DOMAIN position : i < j => position[i] < position[j]
     /\ \A i \in 1 .. Len(queue) :
          queue[i].st # "SUCCESS" <=> \E k \in DOMAIN position : position[k] = i}

Kept(position) == [k \in DOMAIN position |-> queue[position[k]]]

(* A flush drops every value in transit, just before the FLUSH is sent or, *)
(* when there is no room for it yet, some time before.                     *)
Flush ==
  /\ \E position \in Survivors : queue' = Kept(position)
  /\ UNCHANGED << closed, received >>

FlushAndSend ==
  /\ \E position \in Survivors :
       /\ Bound = 0 \/ Len(Kept(position)) < Bound
       /\ queue' = Append(Kept(position), [st |-> "FLUSH", val |-> NoValue])
  /\ closed' = FALSE
  /\ UNCHANGED received

Receive ==
  /\ ~closed
  /\ queue # << >>
  /\ received' = Head(queue)
  /\ queue' = Tail(queue)
  /\ closed' = (Head(queue).st = "FAILURE" /\ Tail(queue) = << >>)

AskAgain ==
  /\ closed
  /\ received' = [st |-> "FAILURE", val |-> NoValue]
  /\ UNCHANGED << queue, closed >>

Reopen ==
  /\ closed' = FALSE
  /\ UNCHANGED << queue, received >>

Next ==
  \/ \E m \in Message : Send(m)
  \/ Flush
  \/ FlushAndSend
  \/ Receive
  \/ AskAgain
  \/ Reopen

Spec == Init /\ [][Next]_vars
=============================================================================
