--------------------------- MODULE AsyncEdgeProofs ---------------------------
(***************************************************************************)
(* Proofs about AsyncEdge: its safety properties for every capacity and    *)
(* every set of values, and that it implements StatusChannel.              *)
(***************************************************************************)
EXTENDS AsyncEdge, EdgeQueuesProofs

-----------------------------------------------------------------------------
(* What the operations do to a well formed edge.                           *)

WellFormed(e) ==
  /\ e \in EdgeType
  /\ Len(e.data) = Cardinality(SuccessesUpTo(e.status, Len(e.status)))

LEMMA MessagesType ==
  ASSUME NEW e, WellFormed(e)
  PROVE  /\ Messages(e) \in Seq(Channel!Message)
         /\ Len(Messages(e)) = Len(e.status)
         /\ \A i \in 1 .. Len(e.status) :
              /\ Messages(e)[i] = MessageAt(e, i)
              /\ MessageAt(e, i).st = e.status[i]
              /\ e.status[i] # "SUCCESS"
                   => MessageAt(e, i) = [st |-> e.status[i], val |-> NoData]
<1>1. /\ e.status \in Seq(EdgeStatus) /\ e.data \in Seq(Data)
      /\ Len(e.status) \in Nat /\ Len(e.data) \in Nat
  BY DEF WellFormed, EdgeType
<1>2. ASSUME NEW i \in 1 .. Len(e.status)
      PROVE  MessageAt(e, i) \in Channel!Message
  <2>1. e.status[i] \in EdgeStatus
    BY <1>1, ElementOfSeq
  <2>2. CASE e.status[i] = "SUCCESS"
    <3> DEFINE c == Cardinality(SuccessesUpTo(e.status, i))
    <3>1. i \in Nat /\ i \in 0 .. Len(e.status) /\ i > 0
      BY <1>1
    <3>2. c \in Nat /\ c >= 1 /\ c <= Len(e.data)
      BY <1>1, <2>2, <3>1, CountType, CountMonotone DEF WellFormed
    <3>3. e.data[c] \in Data
      BY <1>1, <3>2, ElementOfSeq
    <3> QED
      BY <2>1, <2>2, <3>3, NoDataAssumption DEF MessageAt, Channel!Message
  <2>3. CASE e.status[i] # "SUCCESS"
    BY <2>1, <2>3 DEF MessageAt, Channel!Message
  <2> QED
    BY <2>2, <2>3
<1> QED
  BY <1>1, <1>2 DEF Messages, MessageAt

(***************************************************************************)
(* A flush keeps an edge well formed, does not lengthen its queue, drops   *)
(* nothing when the edge is still full, and is the channel's flush.        *)
(***************************************************************************)
LEMMA FlushedProperties ==
  ASSUME NEW e, WellFormed(e)
  PROVE  /\ WellFormed(Flushed(e, "FLUSH"))
         /\ Len(Flushed(e, "FLUSH").status) <= Len(e.status)
         /\ Flushed(e, "FLUSH").no_more_input = e.no_more_input
         /\ Flushed(e, "FLUSH").last_size = e.last_size
         /\ Flushed(e, "FLUSH").data = << >>
         /\ Messages(Flushed(e, "FLUSH"))
              = Subsequence(Messages(e),
                            {i \in 1 .. Len(Messages(e)) :
                               Messages(e)[i].st # "SUCCESS"})
<1> DEFINE q == e.status
           S == Survivors(q)
           f == Flushed(e, "FLUSH")
           r == Subsequence(q, S)
           m == Messages(e)
<1>1. /\ q \in Seq(EdgeStatus) /\ Len(q) \in Nat
      /\ S \in SUBSET (1 .. Len(q))
      /\ \A i \in S : q[i] # "SUCCESS"
  BY DEF WellFormed, EdgeType, Survivors
<1>2. f = [e EXCEPT !.status = r, !.data = << >>]
  BY DEF Flushed, flush_status_queue, WellFormed, EdgeType
<1> HIDE DEF q, S, r, m
<1>3. /\ r \in Seq(EdgeStatus)
      /\ Len(r) = Cardinality(S)
      /\ Cardinality(S) \in Nat
      /\ Cardinality(S) <= Len(q)
      /\ Enumeration(S) \in [1 .. Cardinality(S) -> S]
      /\ \A k \in 1 .. Cardinality(S) : r[k] = q[Enumeration(S)[k]]
  BY <1>1, SubsequenceProperties DEF r
<1>4. \A k \in 1 .. Len(r) : Enumeration(S)[k] \in S /\ r[k] # "SUCCESS"
  BY <1>1, <1>3
<1>5. /\ f \in EdgeType /\ f.status = r /\ f.data = << >>
      /\ f.no_more_input = e.no_more_input /\ f.last_size = e.last_size
  <2>1. /\ e = [status |-> e.status, data |-> e.data,
               no_more_input |-> e.no_more_input, last_size |-> e.last_size]
        /\ e.no_more_input \in BOOLEAN /\ e.last_size \in Nat
    BY DEF WellFormed, EdgeType
  <2>2. f = [status |-> r, data |-> << >>,
             no_more_input |-> e.no_more_input, last_size |-> e.last_size]
    BY <1>2, <2>1
  <2>3. << >> \in Seq(Data)
    OBVIOUS
  <2> HIDE DEF f
  <2> QED
    BY <1>3, <2>1, <2>2, <2>3 DEF EdgeType
<1>6. WellFormed(f)
  <2>1. Cardinality(SuccessesUpTo(r, Len(r))) = 0
    BY <1>4, CountNone
  <2> QED
    BY <1>5, <2>1 DEF WellFormed
<1>7. {i \in 1 .. Len(m) : m[i].st # "SUCCESS"} = S
  BY MessagesType DEF m, S, q, Survivors
<1>8. Messages(f) = Subsequence(m, S)
  <2>1. \A k \in 1 .. Len(r) :
          MessageAt(f, k) = m[Enumeration(S)[k]]
    <3> SUFFICES ASSUME NEW k \in 1 .. Len(r)
                 PROVE  MessageAt(f, k) = m[Enumeration(S)[k]]
      OBVIOUS
    <3>1. MessageAt(f, k) = [st |-> r[k], val |-> NoData]
      BY <1>4, <1>5 DEF MessageAt
    <3> DEFINE i == Enumeration(S)[k]
    <3>2. i \in S /\ i \in 1 .. Len(q) /\ q[i] # "SUCCESS" /\ r[k] = q[i]
      BY <1>1, <1>3, <1>4
    <3> HIDE DEF i
    <3>3. m[i] = [st |-> q[i], val |-> NoData]
      BY <3>2, MessagesType DEF m, q
    <3> QED
      BY <3>1, <3>2, <3>3 DEF i
  <2> QED
    BY <1>3, <1>5, <2>1 DEF Messages, Subsequence
<1> QED
  BY <1>3, <1>5, <1>6, <1>7, <1>8 DEF q, m

(***************************************************************************)
(* Storing an entry appends one message.                                   *)
(***************************************************************************)
LEMMA StoredProperties ==
  ASSUME NEW e, WellFormed(e), NEW st \in EdgeStatus, NEW v,
         st = "SUCCESS" => v \in Data
  PROVE  /\ WellFormed(Stored(e, st, v))
         /\ Len(Stored(e, st, v).status) = Len(e.status) + 1
         /\ Stored(e, st, v).last_size = Len(e.status) + 1
         /\ ~Stored(e, st, v).no_more_input
         /\ Messages(Stored(e, st, v))
              = Append(Messages(e),
                       [st  |-> st,
                        val |-> IF st = "SUCCESS" THEN v ELSE NoData])
<1> DEFINE q == e.status
           d == e.data
           n == Len(q)
           f == Stored(e, st, v)
           w == [st |-> st, val |-> IF st = "SUCCESS" THEN v ELSE NoData]
<1>1. /\ q \in Seq(EdgeStatus) /\ d \in Seq(Data) /\ n \in Nat
      /\ Len(d) = Cardinality(SuccessesUpTo(q, n)) /\ Len(d) \in Nat
  BY DEF WellFormed, EdgeType
<1>2. /\ f.status = Append(q, st)
      /\ f.data = IF st = "SUCCESS" THEN Append(d, v) ELSE d
      /\ f.no_more_input = FALSE /\ f.last_size = n + 1
      /\ f = [status |-> f.status, data |-> f.data,
              no_more_input |-> FALSE, last_size |-> n + 1]
  BY DEF Stored
<1>3. /\ f.status \in Seq(EdgeStatus) /\ Len(f.status) = n + 1
      /\ \A i \in 1 .. n : f.status[i] = q[i]
      /\ f.status[n + 1] = st
  BY <1>1, <1>2, AppendProperties
<1>4. /\ f.data \in Seq(Data)
      /\ Len(f.data) = Len(d) + (IF st = "SUCCESS" THEN 1 ELSE 0)
      /\ \A c \in 1 .. Len(d) : f.data[c] = d[c]
      /\ st = "SUCCESS" => f.data[Len(d) + 1] = v
  <2>1. CASE st = "SUCCESS"
    BY <1>1, <1>2, <2>1, AppendProperties
  <2>2. CASE st # "SUCCESS"
    BY <1>1, <1>2, <2>2
  <2> QED
    BY <2>1, <2>2
<1>5. f \in EdgeType
  <2> DEFINE a == f.status
             b == f.data
  <2>1. a \in Seq(EdgeStatus) /\ b \in Seq(Data) /\ n + 1 \in Nat
    BY <1>1, <1>3, <1>4
  <2>2. f = [status |-> a, data |-> b, no_more_input |-> FALSE,
             last_size |-> n + 1]
    BY <1>2
  <2> HIDE DEF a, b, f
  <2> QED
    BY <2>1, <2>2 DEF EdgeType
<1>6. /\ \A i \in 0 .. n : SuccessesUpTo(f.status, i) = SuccessesUpTo(q, i)
      /\ Cardinality(SuccessesUpTo(f.status, n + 1))
           = Len(d) + (IF st = "SUCCESS" THEN 1 ELSE 0)
  BY <1>1, <1>2, CountAppend
<1>7. WellFormed(f)
  BY <1>3, <1>4, <1>5, <1>6 DEF WellFormed
<1> HIDE DEF q, d, n, f
<1>8. \A i \in 1 .. n : MessageAt(f, i) = MessageAt(e, i)
  <2> SUFFICES ASSUME NEW i \in 1 .. n
               PROVE  MessageAt(f, i) = MessageAt(e, i)
    OBVIOUS
  <2>1. f.status[i] = q[i] /\ i \in 0 .. n /\ i > 0 /\ i \in Nat
    BY <1>1, <1>3
  <2>2. CASE q[i] = "SUCCESS"
    <3> DEFINE c == Cardinality(SuccessesUpTo(q, i))
    <3>1. c \in 1 .. Len(d)
      <4>1. c <= Cardinality(SuccessesUpTo(q, n)) /\ c >= 1
        BY <1>1, <2>1, <2>2, CountMonotone DEF n
      <4>2. c \in Nat
        BY <1>1, <2>1, CountType
      <4> QED
        BY <1>1, <4>1, <4>2
    <3>2. Cardinality(SuccessesUpTo(f.status, i)) = c
      BY <1>6, <2>1
    <3> QED
      BY <1>4, <2>1, <2>2, <3>1, <3>2 DEF MessageAt, q, d
  <2>3. CASE q[i] # "SUCCESS"
    BY <2>1, <2>3 DEF MessageAt, q
  <2> QED
    BY <2>2, <2>3
<1>9. MessageAt(f, n + 1) = w
  BY <1>3, <1>4, <1>6 DEF MessageAt
<1>10. Messages(f) = Append(Messages(e), w)
  <2> DEFINE M == Messages(e)
             R == Append(M, w)
  <2>1. /\ M \in Seq(Channel!Message) /\ Len(M) = n
        /\ \A i \in 1 .. n : M[i] = MessageAt(e, i)
    BY MessagesType DEF n, q
  <2>2. w \in Channel!Message
    BY NoDataAssumption DEF Channel!Message
  <2> HIDE DEF M, w
  <2>3. /\ R \in Seq(Channel!Message) /\ Len(R) = n + 1
        /\ \A i \in 1 .. n : R[i] = M[i]
        /\ R[n + 1] = w
    BY <2>1, <2>2, AppendProperties
  <2>4. /\ Messages(f) \in Seq(Channel!Message) /\ Len(Messages(f)) = n + 1
        /\ \A i \in 1 .. n + 1 : Messages(f)[i] = MessageAt(f, i)
    BY <1>3, <1>7, MessagesType
  <2> HIDE DEF R
  <2>5. \A i \in 1 .. n + 1 : Messages(f)[i] = R[i]
    BY <1>1, <1>8, <1>9, <2>1, <2>3, <2>4
  <2>6. Messages(f) = R
    BY <2>3, <2>4, <2>5, SeqEqual
  <2> QED
    BY <2>6 DEF R, M
<1> QED
  BY <1>2, <1>3, <1>7, <1>10 DEF f, n, q

(***************************************************************************)
(* Popping an entry takes the oldest message; there is a value to take     *)
(* when that message is a SUCCESS.                                         *)
(***************************************************************************)
LEMMA PoppedProperties ==
  ASSUME NEW e, WellFormed(e), e.status # << >>
  PROVE  /\ WellFormed(Popped(e))
         /\ Len(Popped(e).status) = Len(e.status) - 1
         /\ Popped(e).last_size = Len(Popped(e).status)
         /\ Popped(e).no_more_input
              <=> Head(e.status) = "FAILURE" /\ Tail(e.status) = << >>
         /\ Popped(e).no_more_input
              => Popped(e).status = << >> /\ Popped(e).data = << >>
         /\ Head(e.status) \in EdgeStatus
         /\ Head(e.status) = "SUCCESS" => Head(e.data) \in Data
         /\ Messages(e) # << >>
         /\ Head(Messages(e))
              = [st  |-> Head(e.status),
                 val |-> IF Head(e.status) = "SUCCESS" THEN Head(e.data)
                                                       ELSE NoData]
         /\ Messages(Popped(e)) = Tail(Messages(e))
<1> DEFINE q == e.status
           d == e.data
           n == Len(q)
           f == Popped(e)
           k == IF Head(q) = "SUCCESS" THEN 1 ELSE 0
<1>1. /\ q \in Seq(EdgeStatus) /\ d \in Seq(Data) /\ n \in Nat /\ n > 0
      /\ Len(d) = Cardinality(SuccessesUpTo(q, n)) /\ Len(d) \in Nat
      /\ q # << >>
  BY EmptySeq DEF WellFormed, EdgeType
<1>2. /\ Tail(q) \in Seq(EdgeStatus) /\ Len(Tail(q)) = n - 1
      /\ \A i \in 1 .. n - 1 : Tail(q)[i] = q[i + 1]
      /\ Head(q) = q[1] /\ Head(q) \in EdgeStatus
  BY <1>1, HeadTailProperties
<1>3. \A i \in 0 .. n - 1 :
        /\ Cardinality(SuccessesUpTo(q, i + 1))
             = Cardinality(SuccessesUpTo(Tail(q), i)) + k
        /\ Cardinality(SuccessesUpTo(Tail(q), i)) \in Nat
  <2> HIDE DEF q
  <2> SUFFICES ASSUME NEW i \in 0 .. n - 1
               PROVE  /\ Cardinality(SuccessesUpTo(q, i + 1))
                           = Cardinality(SuccessesUpTo(Tail(q), i)) + k
                      /\ Cardinality(SuccessesUpTo(Tail(q), i)) \in Nat
    OBVIOUS
  <2>1. i \in Nat
    BY <1>1
  <2> QED
    BY <1>1, <1>2, <2>1, CountTail, CountType
<1>4. Len(d) = Cardinality(SuccessesUpTo(Tail(q), n - 1)) + k
  BY <1>1, <1>3
<1>5. /\ f.status = Tail(q)
      /\ f.data = IF Head(q) = "SUCCESS" THEN Tail(d) ELSE d
      /\ f.no_more_input = (Head(q) = "FAILURE" /\ Tail(q) = << >>)
      /\ f.last_size = n - 1
      /\ f = [status |-> f.status, data |-> f.data,
              no_more_input |-> f.no_more_input, last_size |-> n - 1]
  BY DEF Popped
<1>6. f.no_more_input \in BOOLEAN
  BY <1>5
<1> HIDE DEF q, d, f
<1>7. /\ f.data \in Seq(Data)
      /\ Len(f.data) = Len(d) - k
      /\ \A c \in 1 .. Len(f.data) : f.data[c] = d[c + k]
      /\ Head(q) = "SUCCESS" => Head(d) \in Data /\ Head(d) = d[1]
  <2>1. CASE Head(q) = "SUCCESS"
    <3>1. d # << >>
      BY <1>1, <1>2, <1>3, <1>4, <2>1
    <3> QED
      BY <1>1, <1>5, <2>1, <3>1, HeadTailProperties
  <2>2. CASE Head(q) # "SUCCESS"
    BY <1>1, <1>5, <2>2
  <2> QED
    BY <2>1, <2>2
<1>8. f \in EdgeType
  <2> DEFINE a == f.status
             b == f.data
             c == f.no_more_input
  <2>1. /\ a \in Seq(EdgeStatus) /\ b \in Seq(Data) /\ n - 1 \in Nat
        /\ c \in BOOLEAN
    BY <1>1, <1>2, <1>5, <1>6, <1>7
  <2>2. f = [status |-> a, data |-> b, no_more_input |-> c,
             last_size |-> n - 1]
    BY <1>5
  <2> HIDE DEF a, b, c
  <2> QED
    BY <2>1, <2>2 DEF EdgeType
<1>9. WellFormed(f)
  BY <1>1, <1>2, <1>3, <1>4, <1>5, <1>7, <1>8 DEF WellFormed
<1>10. f.no_more_input => f.status = << >> /\ f.data = << >>
  <2> SUFFICES ASSUME f.no_more_input
               PROVE  f.status = << >> /\ f.data = << >>
    OBVIOUS
  <2>1. f.status = << >>
    BY <1>5
  <2>2. Cardinality(SuccessesUpTo(f.status, Len(f.status))) = 0
    BY <2>1, CountNone
  <2>3. Len(f.data) = 0
    BY <1>9, <2>2 DEF WellFormed
  <2> QED
    BY <1>7, <2>1, <2>3, EmptySeq
<1>11. /\ Messages(e) \in Seq(Channel!Message) /\ Len(Messages(e)) = n
       /\ \A i \in 1 .. n : Messages(e)[i] = MessageAt(e, i)
       /\ Messages(f) \in Seq(Channel!Message) /\ Len(Messages(f)) = n - 1
       /\ \A i \in 1 .. n - 1 : Messages(f)[i] = MessageAt(f, i)
  BY <1>2, <1>5, <1>9, MessagesType DEF q
<1>12. /\ Messages(e) # << >>
       /\ Head(Messages(e)) = MessageAt(e, 1)
       /\ Tail(Messages(e)) \in Seq(Channel!Message)
       /\ Len(Tail(Messages(e))) = n - 1
       /\ \A i \in 1 .. n - 1 : Tail(Messages(e))[i] = MessageAt(e, i + 1)
  <2>1. Messages(e) # << >>
    BY <1>1, <1>11
  <2> QED
    BY <1>1, <1>11, <2>1, HeadTailProperties
<1>13. MessageAt(e, 1)
         = [st  |-> Head(q),
            val |-> IF Head(q) = "SUCCESS" THEN Head(d) ELSE NoData]
  <2>1. Cardinality(SuccessesUpTo(Tail(q), 0)) = 0
    BY CountNone
  <2>2. Cardinality(SuccessesUpTo(q, 1)) = k
    <3>1. 0 \in 0 .. n - 1
      BY <1>1
    <3> QED
      BY <1>3, <2>1, <3>1
  <2> QED
    BY <1>2, <1>7, <2>2 DEF MessageAt, q, d
<1>14. \A i \in 1 .. n - 1 : MessageAt(f, i) = MessageAt(e, i + 1)
  <2> SUFFICES ASSUME NEW i \in 1 .. n - 1
               PROVE  MessageAt(f, i) = MessageAt(e, i + 1)
    OBVIOUS
  <2>1. /\ i \in Nat /\ i > 0 /\ i \in 0 .. n - 1 /\ i \in 1 .. Len(Tail(q))
        /\ i \in 0 .. Len(Tail(q)) /\ f.status[i] = q[i + 1]
    BY <1>1, <1>2, <1>5
  <2>2. CASE q[i + 1] = "SUCCESS"
    <3> DEFINE c == Cardinality(SuccessesUpTo(Tail(q), i))
    <3>1. Cardinality(SuccessesUpTo(q, i + 1)) = c + k /\ c \in Nat
      BY <1>3, <2>1
    <3>2. c >= 1 /\ c <= Cardinality(SuccessesUpTo(Tail(q), n - 1))
      BY <1>2, <2>1, <2>2, CountMonotone
    <3>3. c \in 1 .. Len(f.data)
      <4>1. Len(f.data) = Cardinality(SuccessesUpTo(Tail(q), n - 1))
        BY <1>2, <1>5, <1>9 DEF WellFormed
      <4>2. Len(f.data) \in Nat
        BY <1>7, LenProperties
      <4> QED
        BY <3>1, <3>2, <4>1, <4>2
    <3>4. f.data[c] = d[c + k]
      BY <1>7, <3>3
    <3> HIDE DEF c, k
    <3>5. MessageAt(f, i) = [st |-> "SUCCESS", val |-> f.data[c]]
      BY <1>5, <2>1, <2>2 DEF MessageAt, c
    <3>6. MessageAt(e, i + 1) = [st |-> "SUCCESS", val |-> d[c + k]]
      BY <2>2, <3>1 DEF MessageAt, q, d
    <3> QED
      BY <3>4, <3>5, <3>6
  <2>3. CASE q[i + 1] # "SUCCESS"
    BY <2>1, <2>3 DEF MessageAt, q
  <2> QED
    BY <2>2, <2>3
<1>15. Messages(f) = Tail(Messages(e))
  <2>1. \A i \in 1 .. n - 1 : Messages(f)[i] = Tail(Messages(e))[i]
    BY <1>11, <1>12, <1>14
  <2> QED
    BY <1>11, <1>12, <2>1, SeqEqual
<1>16. /\ Len(f.status) = n - 1
       /\ f.last_size = Len(f.status)
  BY <1>2, <1>5
<1> HIDE DEF n, k
<1> QED
  BY <1>2, <1>5, <1>7, <1>9, <1>10, <1>12, <1>13, <1>15, <1>16 DEF f, q, d, n

-----------------------------------------------------------------------------
(* The inductive invariant.                                                *)

(***************************************************************************)
(* The properties are inductive together: the data queue can only be       *)
(* popped safely because the counts agree, a flush that finds the edge     *)
(* still full dropped nothing because the edge was bounded, and the two    *)
(* halves of NoLostWakeup are each kept by the other thread's store or     *)
(* pop.  What push_data() returned must be a message for the refinement.   *)
(***************************************************************************)
EdgeInvariant ==
  /\ TypeOK
  /\ DataMatchesStatus
  /\ BoundedInTransit
  /\ NoLostWakeup
  /\ ClosedWhenDrained
  /\ SizeIsCurrent
  /\ given \in Channel!Message

LEMMA EdgeInvariantInit == Init => EdgeInvariant
<1> SUFFICES ASSUME Init PROVE EdgeInvariant
  OBVIOUS
<1>1. << >> \in Seq(EdgeStatus) /\ << >> \in Seq(Data) /\ Len(<< >>) = 0
  OBVIOUS
<1>2. EmptyEdge \in EdgeType
  BY <1>1 DEF EmptyEdge, EdgeType
<1>3. Cardinality(SuccessesUpTo(<< >>, 0)) = 0
  BY CountNone
<1>4. /\ edge = EmptyEdge /\ edge.status = << >> /\ edge.data = << >>
      /\ edge.no_more_input = FALSE /\ edge.last_size = 0
  BY DEF Init, EmptyEdge
<1>5. TypeOK
  BY <1>2, <1>4 DEF Init, TypeOK, ThreadState, EdgeStatus, StepStatus
<1>6. DataMatchesStatus
  BY <1>1, <1>3, <1>4 DEF DataMatchesStatus
<1>7. BoundedInTransit /\ SizeIsCurrent /\ ClosedWhenDrained
  BY <1>1, <1>4, CapacityAssumption
     DEF BoundedInTransit, SizeIsCurrent, ClosedWhenDrained
<1>8. NoLostWakeup
  BY DEF Init, NoLostWakeup
<1>9. given \in Channel!Message
  BY DEF Init, Channel!Message, EdgeStatus, StepStatus
<1> QED
  BY <1>5, <1>6, <1>7, <1>8, <1>9 DEF EdgeInvariant

(* Steps that leave the edge and what it gave alone. *)
LEMMA EdgeInvariantOther ==
  ASSUME EdgeInvariant,
         UNCHANGED << edge, given >>,
         TypeOK', NoLostWakeup'
  PROVE  EdgeInvariant'
<1>1. DataMatchesStatus' /\ BoundedInTransit' /\ ClosedWhenDrained'
      /\ SizeIsCurrent' /\ (given \in Channel!Message)'
  BY DEF EdgeInvariant, DataMatchesStatus, BoundedInTransit,
         ClosedWhenDrained, SizeIsCurrent
<1> QED
  BY <1>1 DEF EdgeInvariant

(* The loop around the producer's wait keeps the invariant for every edge  *)
(* the flush before it may have left.                                      *)
LEMMA EdgeInvariantStore ==
  ASSUME EdgeInvariant,
         NEW e, WellFormed(e), Len(e.status) <= Len(edge.status),
         e.no_more_input = edge.no_more_input,
         e.last_size = edge.last_size,
         e.no_more_input => e.data = << >>,
         producer \in {"locking", "woken"},
         StoreOrWait(e),
         UNCHANGED << consumer, last_execute_state, output, given >>
  PROVE  EdgeInvariant'
<1>1. /\ edge \in EdgeType /\ consumer \in ThreadState
      /\ last_execute_state \in EdgeStatus
      /\ last_execute_state = "SUCCESS" => output \in Data
      /\ Len(edge.status) \in Nat /\ Len(e.status) \in Nat
      /\ edge.status \in Seq(EdgeStatus) /\ e.status \in Seq(EdgeStatus)
      /\ e \in EdgeType
  BY DEF EdgeInvariant, TypeOK, WellFormed, EdgeType
<1>2. Capacity # 0 => Len(edge.status) <= Capacity + 1
  BY DEF EdgeInvariant, BoundedInTransit
<1>3. edge.last_size = Len(edge.status)
  BY DEF EdgeInvariant, SizeIsCurrent
<1>4. Ready(edge) => consumer # "waiting"
  BY DEF EdgeInvariant, NoLostWakeup
<1>5. edge.no_more_input => edge.status = << >> /\ given.st = "FAILURE"
  BY DEF EdgeInvariant, ClosedWhenDrained
<1>6. CASE Full(e)
  <2>1. edge' = e /\ producer' = "waiting"
    BY <1>6 DEF StoreOrWait
  <2>2. Len(e.status) = Len(edge.status) /\ Len(e.status) <= Capacity + 1
    BY <1>1, <1>2, <1>6, CapacityAssumption DEF Full, FullAt
  <2>3. TypeOK'
    BY <1>1, <2>1 DEF EdgeInvariant, TypeOK, ThreadState
  <2>4. DataMatchesStatus'
    BY <2>1 DEF WellFormed, DataMatchesStatus
  <2>5. BoundedInTransit' /\ SizeIsCurrent'
    BY <1>3, <2>1, <2>2 DEF BoundedInTransit, SizeIsCurrent
  <2>6. ClosedWhenDrained'
    <3>1. edge.no_more_input => e.status = << >>
      BY <1>1, <1>5, <2>2, EmptySeq
    <3> QED
      BY <1>5, <2>1, <3>1 DEF ClosedWhenDrained
  <2>7. NoLostWakeup'
    <3>1. Ready(e) => Ready(edge)
      BY <1>1, <2>2, EmptySeq DEF Ready
    <3> QED
      BY <1>4, <1>6, <2>1, <3>1 DEF NoLostWakeup
  <2>8. (given \in Channel!Message)'
    BY DEF EdgeInvariant
  <2> QED
    BY <2>3, <2>4, <2>5, <2>6, <2>7, <2>8 DEF EdgeInvariant
<1>7. CASE ~Full(e)
  <2>1. /\ edge' = Stored(e, last_execute_state, output)
        /\ producer' = "notifying"
    BY <1>7 DEF StoreOrWait
  <2>2. /\ WellFormed(edge')
        /\ Len(edge'.status) = Len(e.status) + 1
        /\ edge'.last_size = Len(e.status) + 1
        /\ ~edge'.no_more_input
    BY <1>1, <2>1, StoredProperties
  <2>3. TypeOK'
    BY <1>1, <2>1, <2>2 DEF EdgeInvariant, TypeOK, ThreadState, WellFormed
  <2>4. DataMatchesStatus'
    BY <2>2 DEF WellFormed, DataMatchesStatus
  <2>5. BoundedInTransit' /\ SizeIsCurrent'
    BY <1>1, <1>7, <2>2, CapacityAssumption
       DEF Full, FullAt, BoundedInTransit, SizeIsCurrent
  <2>6. ClosedWhenDrained'
    BY <2>2 DEF ClosedWhenDrained
  <2>7. NoLostWakeup'
    BY <2>1 DEF NoLostWakeup
  <2>8. (given \in Channel!Message)'
    BY DEF EdgeInvariant
  <2> QED
    BY <2>3, <2>4, <2>5, <2>6, <2>7, <2>8 DEF EdgeInvariant
<1> QED
  BY <1>6, <1>7

LEMMA EdgeIsWellFormed ==
  ASSUME EdgeInvariant
  PROVE  /\ WellFormed(edge)
         /\ edge.status \in Seq(EdgeStatus) /\ Len(edge.status) \in Nat
         /\ edge.data \in Seq(Data)
BY DEF EdgeInvariant, TypeOK, DataMatchesStatus, WellFormed, EdgeType

(* push_data() keeps the invariant, and is a step of the channel or leaves *)
(* the channel unchanged.                                                  *)
LEMMA PushDataProperties ==
  ASSUME EdgeInvariant, PushData
  PROVE  /\ EdgeInvariant'
         /\ Channel!Receive \/ Channel!AskAgain \/ UNCHANGED Channel!vars
<1>1. /\ WellFormed(edge) /\ edge.status \in Seq(EdgeStatus)
      /\ Len(edge.status) \in Nat
      /\ UNCHANGED << producer, last_execute_state, output >>
      /\ consumer \in {"locking", "woken"}
  BY EdgeIsWellFormed DEF PushData
<1>2. CASE ~Ready(edge)
  <2>1. consumer' = "waiting" /\ UNCHANGED << edge, given >>
    BY <1>2 DEF PushData
  <2>2. TypeOK'
    BY <1>1, <2>1 DEF EdgeInvariant, TypeOK, ThreadState
  <2>3. NoLostWakeup'
    BY <1>1, <1>2, <2>1 DEF EdgeInvariant, NoLostWakeup
  <2>4. UNCHANGED Channel!vars
    BY <2>1 DEF Channel!vars
  <2> QED
    BY <1>1, <2>1, <2>2, <2>3, <2>4, EdgeInvariantOther
<1>3. CASE edge.no_more_input
  <2>1. /\ consumer' = "running" /\ UNCHANGED edge
        /\ given' = [st |-> "FAILURE", val |-> NoData]
    BY <1>3 DEF PushData, Ready, Delivered, SetsInput, Taken
  <2>2. given' \in Channel!Message
    BY <2>1 DEF Channel!Message, EdgeStatus, StepStatus
  <2>3. TypeOK'
    BY <1>1, <2>1 DEF EdgeInvariant, TypeOK, ThreadState, EdgeStatus, StepStatus
  <2>4. NoLostWakeup' /\ DataMatchesStatus' /\ BoundedInTransit'
        /\ SizeIsCurrent' /\ ClosedWhenDrained'
    BY <1>1, <2>1
       DEF EdgeInvariant, NoLostWakeup, DataMatchesStatus, BoundedInTransit,
           SizeIsCurrent, ClosedWhenDrained
  <2>5. Channel!AskAgain
    BY <1>3, <2>1 DEF Channel!AskAgain
  <2> QED
    BY <2>2, <2>3, <2>4, <2>5 DEF EdgeInvariant
<1>4. CASE ~edge.no_more_input /\ edge.status # << >>
  <2>1. /\ consumer' = "notifying" /\ edge' = Popped(edge)
        /\ given' = [st  |-> Head(edge.status),
                     val |-> IF Head(edge.status) = "SUCCESS"
                             THEN Head(edge.data) ELSE NoData]
    BY <1>4 DEF PushData, Ready, Delivered, SetsInput, Taken
  <2>2. /\ WellFormed(edge')
        /\ Len(edge'.status) = Len(edge.status) - 1
        /\ edge'.last_size = Len(edge'.status)
        /\ edge'.no_more_input
             <=> Head(edge.status) = "FAILURE" /\ Tail(edge.status) = << >>
        /\ edge'.no_more_input => edge'.status = << >> /\ edge'.data = << >>
        /\ Head(edge.status) \in EdgeStatus
        /\ Head(edge.status) = "SUCCESS" => Head(edge.data) \in Data
        /\ Messages(edge) # << >>
        /\ Head(Messages(edge)) = given'
        /\ Messages(edge') = Tail(Messages(edge))
    BY <1>1, <1>4, <2>1, PoppedProperties
  <2>3. given' \in Channel!Message /\ given'.st = Head(edge.status)
        /\ given' \in [st : EdgeStatus, val : Data \cup {NoData}]
    BY <2>1, <2>2, NoDataAssumption DEF Channel!Message
  <2>4. TypeOK'
    BY <1>1, <2>1, <2>2, <2>3 DEF EdgeInvariant, TypeOK, ThreadState, WellFormed
  <2>5. DataMatchesStatus' /\ SizeIsCurrent'
    BY <2>2 DEF WellFormed, DataMatchesStatus, SizeIsCurrent
  <2>6. BoundedInTransit'
    <3>1. Len(edge'.status) <= Len(edge.status) /\ Len(edge'.status) \in Nat
      BY <1>1, <2>2 DEF WellFormed, EdgeType
    <3> QED
      BY <1>1, <3>1, CapacityAssumption DEF EdgeInvariant, BoundedInTransit
  <2>7. ClosedWhenDrained'
    BY <2>2, <2>3 DEF ClosedWhenDrained
  <2>8. NoLostWakeup'
    BY <1>1, <2>1 DEF NoLostWakeup
  <2>9. Tail(Messages(edge)) = << >> <=> Tail(edge.status) = << >>
    <3>1. /\ Messages(edge) \in Seq(Channel!Message)
          /\ Len(Messages(edge)) = Len(edge.status)
      BY <1>1, MessagesType
    <3> DEFINE M == Messages(edge)
    <3>2. /\ Tail(M) \in Seq(Channel!Message) /\ Len(Tail(M)) = Len(M) - 1
          /\ Tail(edge.status) \in Seq(EdgeStatus)
          /\ Len(Tail(edge.status)) = Len(edge.status) - 1
      BY <1>1, <1>4, <2>2, <3>1, HeadTailProperties
    <3> QED
      BY <3>1, <3>2, EmptySeq
  <2>10. Channel!Receive
    <3>1. edge'.no_more_input
            = (given'.st = "FAILURE" /\ Tail(Messages(edge)) = << >>)
      <4>1. edge'.no_more_input \in BOOLEAN
        BY <2>2 DEF WellFormed, EdgeType
      <4> QED
        BY <2>2, <2>3, <2>9, <4>1
    <3> QED
      BY <1>4, <2>2, <3>1 DEF Channel!Receive
  <2> QED
    BY <2>3, <2>4, <2>5, <2>6, <2>7, <2>8, <2>10 DEF EdgeInvariant
<1> QED
  BY <1>2, <1>3, <1>4 DEF Ready

(* The status and the value that pull_data() is about to store. *)
Stores ==
  [st  |-> last_execute_state,
   val |-> IF last_execute_state = "SUCCESS" THEN output ELSE NoData]

(* What pull_data() stores is sent on the channel. *)
LEMMA StoreIsSend ==
  ASSUME EdgeInvariant,
         NEW e, WellFormed(e), ~Full(e),
         edge' = Stored(e, last_execute_state, output),
         producer \in {"locking", "woken"}
  PROVE  /\ Capacity = 0 \/ Len(Messages(e)) < Capacity + 1
         /\ Stores \in Channel!Message
         /\ Messages(edge') = Append(Messages(e), Stores)
         /\ edge'.no_more_input = FALSE
<1>1. /\ last_execute_state \in EdgeStatus
      /\ last_execute_state = "SUCCESS" => output \in Data
      /\ Len(e.status) \in Nat
  BY DEF EdgeInvariant, TypeOK, WellFormed, EdgeType
<1>2. Messages(edge') = Append(Messages(e), Stores)
  BY <1>1, StoredProperties DEF Stores
<1>3. Len(Messages(e)) = Len(e.status)
  BY MessagesType
<1>4. Capacity = 0 \/ Len(Messages(e)) < Capacity + 1
  BY <1>1, <1>3, CapacityAssumption DEF Full, FullAt
<1>5. edge'.no_more_input = FALSE
  BY DEF Stored
<1>6. Stores \in Channel!Message
  BY <1>1, NoDataAssumption DEF Stores, Channel!Message
<1> QED
  BY <1>2, <1>4, <1>5, <1>6

(* What a flush leaves is what a flush of the channel keeps. *)
LEMMA FlushKeepsSurvivors ==
  ASSUME WellFormed(edge)
  PROVE  \E position \in Channel!Survivors :
           Messages(Flushed(edge, "FLUSH")) = Channel!Kept(position)
<1> DEFINE m == Messages(edge)
           S == {i \in 1 .. Len(m) : m[i].st # "SUCCESS"}
           c == Cardinality(S)
           p == Enumeration(S)
<1>1. Messages(Flushed(edge, "FLUSH")) = Subsequence(m, S)
  BY FlushedProperties
<1>2. Len(m) \in Nat /\ S \in SUBSET (1 .. Len(m))
  BY MessagesType DEF WellFormed, EdgeType
<1> HIDE DEF m
<1>3. /\ c \in 0 .. Len(m) /\ p \in [1 .. c -> S]
      /\ \A i, j \in 1 .. c : i < j => p[i] < p[j]
  <2> DEFINE n == Len(m)
             T == S
  <2>1. n \in Nat /\ T \in SUBSET (1 .. n)
    BY <1>2
  <2> HIDE DEF n, T
  <2>2. /\ Cardinality(T) \in Nat /\ Cardinality(T) <= n
        /\ Enumeration(T) \in [1 .. Cardinality(T) -> T]
        /\ IsEnumeration(Enumeration(T), T)
    BY <2>1, EnumerationProperties
  <2>3. Cardinality(T) \in 0 .. n
    BY <2>1, <2>2
  <2>4. \A i, j \in 1 .. Cardinality(T) :
          i < j => Enumeration(T)[i] < Enumeration(T)[j]
    BY <2>2 DEF IsEnumeration
  <2> QED
    BY <2>2, <2>3, <2>4 DEF n, T
<1>4. \A i \in S : \E k \in 1 .. c : p[k] = i
  <2> DEFINE n == Len(m)
             T == S
  <2>1. n \in Nat /\ T \in SUBSET (1 .. n)
    BY <1>2
  <2> HIDE DEF n, T
  <2>2. \A i \in T : \E k \in 1 .. Cardinality(T) : Enumeration(T)[k] = i
    BY <2>1, EnumerationIsOnto
  <2> QED
    BY <2>2 DEF n, T
<1> HIDE DEF c, p
<1>5. p \in [1 .. c -> 1 .. Len(m)] /\ DOMAIN p = 1 .. c
  BY <1>3
<1>6. \A i \in 1 .. Len(m) : m[i].st # "SUCCESS" <=> \E k \in 1 .. c : p[k] = i
  BY <1>3, <1>4
<1>7. p \in Channel!Survivors
  BY <1>3, <1>5, <1>6 DEF Channel!Survivors, m
<1>8. Channel!Kept(p) = Subsequence(m, S)
  BY <1>5 DEF Channel!Kept, Subsequence, m, c, p
<1> QED
  BY <1>1, <1>7, <1>8

(* pull_data(), from its beginning. *)
LEMMA PullDataProperties ==
  ASSUME EdgeInvariant, PullData
  PROVE  /\ EdgeInvariant'
         /\ \/ \E m \in Channel!Message : Channel!Send(m)
            \/ Channel!Flush
            \/ Channel!FlushAndSend
            \/ UNCHANGED Channel!vars
<1> DEFINE e == Flushed(edge, last_execute_state)
<1>1. /\ WellFormed(edge) /\ Len(edge.status) \in Nat
      /\ producer = "locking" /\ StoreOrWait(e)
      /\ UNCHANGED << consumer, last_execute_state, output, given >>
  BY EdgeIsWellFormed DEF PullData
<1>2. edge.no_more_input => edge.data = << >>
  BY DEF EdgeInvariant, ClosedWhenDrained
<1>3. CASE last_execute_state = "FLUSH"
  <2>1. /\ WellFormed(e) /\ Len(e.status) <= Len(edge.status)
        /\ e.no_more_input = edge.no_more_input
        /\ e.last_size = edge.last_size
        /\ e.data = << >>
        /\ \E position \in Channel!Survivors : Messages(e) = Channel!Kept(position)
    BY <1>1, <1>3, FlushedProperties, FlushKeepsSurvivors
  <2> HIDE DEF e
  <2>2. EdgeInvariant'
    BY <1>1, <2>1, EdgeInvariantStore
  <2>3. CASE Full(e)
    <3>1. edge' = e
      BY <1>1, <2>3 DEF StoreOrWait
    <3> QED
      BY <1>1, <2>1, <2>2, <3>1 DEF Channel!Flush
  <2>4. CASE ~Full(e)
    <3>1. edge' = Stored(e, last_execute_state, output)
      BY <1>1, <2>4 DEF StoreOrWait
    <3>2. /\ Capacity = 0 \/ Len(Messages(e)) < Capacity + 1
          /\ Messages(edge') = Append(Messages(e), Stores)
          /\ edge'.no_more_input = FALSE
          /\ Stores = [st |-> "FLUSH", val |-> NoData]
      BY <1>1, <1>3, <2>1, <2>4, <3>1, StoreIsSend DEF Stores
    <3>3. Channel!FlushAndSend
      BY <1>1, <2>1, <3>2, CapacityAssumption DEF Channel!FlushAndSend
    <3> QED
      BY <2>2, <3>3
  <2> QED
    BY <2>3, <2>4
<1>4. CASE last_execute_state # "FLUSH"
  <2>1. e = edge
    BY <1>4 DEF Flushed
  <2> HIDE DEF e
  <2>2. EdgeInvariant'
    BY <1>1, <1>2, <2>1, EdgeInvariantStore
  <2>3. CASE Full(edge)
    <3>1. edge' = edge
      BY <1>1, <2>1, <2>3 DEF StoreOrWait
    <3> QED
      BY <1>1, <2>2, <3>1 DEF Channel!vars
  <2>4. CASE ~Full(edge)
    <3>1. edge' = Stored(edge, last_execute_state, output)
      BY <1>1, <2>1, <2>4 DEF StoreOrWait
    <3>2. Stores \in Channel!Message /\ Channel!Send(Stores)
      BY <1>1, <2>4, <3>1, StoreIsSend, CapacityAssumption DEF Channel!Send
    <3> QED
      BY <2>2, <3>2
  <2> QED
    BY <2>3, <2>4
<1> QED
  BY <1>3, <1>4

(* pull_data(), from the end of a wait. *)
LEMMA PullDataResumesProperties ==
  ASSUME EdgeInvariant, PullDataResumes
  PROVE  /\ EdgeInvariant'
         /\ \/ \E m \in Channel!Message : Channel!Send(m)
            \/ UNCHANGED Channel!vars
<1>1. /\ WellFormed(edge) /\ Len(edge.status) \in Nat
      /\ producer = "woken" /\ StoreOrWait(edge)
      /\ UNCHANGED << consumer, last_execute_state, output, given >>
  BY EdgeIsWellFormed DEF PullDataResumes
<1>2. EdgeInvariant'
  BY <1>1, EdgeInvariantStore DEF EdgeInvariant, ClosedWhenDrained
<1>3. CASE Full(edge)
  <2>1. edge' = edge
    BY <1>1, <1>3 DEF StoreOrWait
  <2> QED
    BY <1>1, <1>2, <2>1 DEF Channel!vars
<1>4. CASE ~Full(edge)
  <2>1. edge' = Stored(edge, last_execute_state, output)
    BY <1>1, <1>4 DEF StoreOrWait
  <2>2. Stores \in Channel!Message /\ Channel!Send(Stores)
    BY <1>1, <1>4, <2>1, StoreIsSend, CapacityAssumption DEF Channel!Send
  <2> QED
    BY <1>2, <2>2
<1> QED
  BY <1>3, <1>4

(* The restart leaves the queues as they are and reopens the channel. *)
LEMMA RestartProperties ==
  ASSUME EdgeInvariant, Restart
  PROVE  EdgeInvariant' /\ Channel!Reopen
<1>1. /\ edge \in EdgeType
      /\ edge' = [edge EXCEPT !.no_more_input = FALSE]
      /\ last_execute_state' = "SUCCESS"
      /\ producer' = "running" /\ consumer' = "running"
      /\ UNCHANGED << output, given >>
  BY DEF EdgeInvariant, TypeOK, Restart, WasReset
<1>2. /\ edge' \in EdgeType
      /\ edge'.status = edge.status /\ edge'.data = edge.data
      /\ edge'.last_size = edge.last_size /\ edge'.no_more_input = FALSE
  BY <1>1 DEF EdgeType
<1>3. TypeOK'
  BY <1>1, <1>2
     DEF EdgeInvariant, TypeOK, ThreadState, EdgeStatus, StepStatus
<1>4. /\ DataMatchesStatus' /\ BoundedInTransit' /\ NoLostWakeup'
      /\ ClosedWhenDrained' /\ SizeIsCurrent'
  BY <1>1, <1>2
     DEF EdgeInvariant, DataMatchesStatus, BoundedInTransit, NoLostWakeup,
         ClosedWhenDrained, SizeIsCurrent
<1>5. Messages(edge') = Messages(edge)
  BY <1>2 DEF Messages, MessageAt
<1> QED
  BY <1>1, <1>2, <1>3, <1>4, <1>5 DEF EdgeInvariant, Channel!Reopen

(***************************************************************************)
(* Every step keeps the invariant and is a step of the channel or leaves   *)
(* the channel as it is.                                                   *)
(***************************************************************************)
LEMMA EdgeStep ==
  ASSUME EdgeInvariant, [Next]_vars
  PROVE  EdgeInvariant' /\ [Channel!Next]_(Channel!vars)
<1> DEFINE Quiet == /\ UNCHANGED << edge, given >>
                    /\ TypeOK' /\ NoLostWakeup'
<1>1. ASSUME Quiet PROVE EdgeInvariant' /\ UNCHANGED Channel!vars
  BY <1>1, EdgeInvariantOther DEF Channel!vars
<1>2. CASE ProducerExecutes
  <2>1. TypeOK'
    BY <1>2 DEF ProducerExecutes, EdgeInvariant, TypeOK, ThreadState
  <2>2. NoLostWakeup'
    BY <1>2 DEF ProducerExecutes, EdgeInvariant, NoLostWakeup
  <2> QED
    BY <1>1, <1>2, <2>1, <2>2 DEF ProducerExecutes
<1>3. CASE PullData
  BY <1>3, PullDataProperties DEF Channel!Next
<1>4. CASE PullDataResumes
  BY <1>4, PullDataResumesProperties DEF Channel!Next
<1>5. CASE ProducerNotifies
  <2>1. TypeOK'
    BY <1>5 DEF ProducerNotifies, EdgeInvariant, TypeOK, ThreadState
  <2>2. NoLostWakeup'
    BY <1>5 DEF ProducerNotifies, EdgeInvariant, NoLostWakeup
  <2> QED
    BY <1>1, <1>5, <2>1, <2>2 DEF ProducerNotifies
<1>6. CASE ConsumerCalls
  <2>1. TypeOK'
    BY <1>6 DEF ConsumerCalls, EdgeInvariant, TypeOK, ThreadState
  <2>2. NoLostWakeup'
    BY <1>6 DEF ConsumerCalls, EdgeInvariant, NoLostWakeup
  <2> QED
    BY <1>1, <1>6, <2>1, <2>2 DEF ConsumerCalls
<1>7. CASE ConsumerEnds
  <2>1. TypeOK'
    BY <1>7 DEF ConsumerEnds, EdgeInvariant, TypeOK, ThreadState
  <2>2. NoLostWakeup'
    BY <1>7 DEF ConsumerEnds, EdgeInvariant, NoLostWakeup
  <2> QED
    BY <1>1, <1>7, <2>1, <2>2 DEF ConsumerEnds
<1>8. CASE PushData
  BY <1>8, PushDataProperties DEF Channel!Next
<1>9. CASE ConsumerNotifies
  <2>1. TypeOK'
    BY <1>9 DEF ConsumerNotifies, EdgeInvariant, TypeOK, ThreadState
  <2>2. NoLostWakeup'
    BY <1>9 DEF ConsumerNotifies, EdgeInvariant, NoLostWakeup
  <2> QED
    BY <1>1, <1>9, <2>1, <2>2 DEF ConsumerNotifies
<1>10. CASE SpuriousWakeup
  <2>1. TypeOK'
    BY <1>10 DEF SpuriousWakeup, EdgeInvariant, TypeOK, ThreadState
  <2>2. NoLostWakeup'
    BY <1>10 DEF SpuriousWakeup, EdgeInvariant, NoLostWakeup
  <2> QED
    BY <1>1, <1>10, <2>1, <2>2 DEF SpuriousWakeup
<1>11. CASE Interrupted
  <2>1. TypeOK'
    BY <1>11 DEF Interrupted, EdgeInvariant, TypeOK, ThreadState
  <2>2. NoLostWakeup'
    BY <1>11 DEF Interrupted, EdgeInvariant, NoLostWakeup
  <2> QED
    BY <1>1, <1>11, <2>1, <2>2 DEF Interrupted
<1>12. CASE Restart
  BY <1>12, RestartProperties DEF Channel!Next
<1>13. CASE UNCHANGED vars
  <2>1. TypeOK' /\ NoLostWakeup'
    BY <1>13 DEF vars, EdgeInvariant, TypeOK, NoLostWakeup
  <2> QED
    BY <1>1, <1>13, <2>1 DEF vars
<1> QED
  BY <1>2, <1>3, <1>4, <1>5, <1>6, <1>7, <1>8, <1>9, <1>10, <1>11, <1>12,
     <1>13
     DEF Next, ProducerInCall, ConsumerInCall

-----------------------------------------------------------------------------
(* The theorems.                                                           *)

(* The edge keeps its inductive invariant.                                 *)
THEOREM EdgeInvariantHolds == Spec => []EdgeInvariant
<1>1. Init => EdgeInvariant
  BY EdgeInvariantInit
<1>2. EdgeInvariant /\ [Next]_vars => EdgeInvariant'
  BY EdgeStep
<1> QED
  BY <1>1, <1>2, PTL DEF Spec

(* Every variable of the edge and of its two threads keeps its type.       *)
THEOREM TypeCorrect == Spec => []TypeOK
<1>1. EdgeInvariant => TypeOK
  BY DEF EdgeInvariant
<1> QED
  BY <1>1, EdgeInvariantHolds, PTL

(* push_data() never pops an empty data queue: for every capacity there is *)
(* exactly one value for each SUCCESS in the status queue.                 *)
THEOREM QueuesStayPaired == Spec => []DataMatchesStatus
<1>1. EdgeInvariant => DataMatchesStatus
  BY DEF EdgeInvariant
<1> QED
  BY <1>1, EdgeInvariantHolds, PTL

(* A bounded edge holds at most one entry more than its capacity.          *)
THEOREM EdgeIsBounded == Spec => []BoundedInTransit
<1>1. EdgeInvariant => BoundedInTransit
  BY DEF EdgeInvariant
<1> QED
  BY <1>1, EdgeInvariantHolds, PTL

(* A thread whose awaited condition holds is about to be notified.         *)
THEOREM WakeupsAreNotLost == Spec => []NoLostWakeup
<1>1. EdgeInvariant => NoLostWakeup
  BY DEF EdgeInvariant
<1> QED
  BY <1>1, EdgeInvariantHolds, PTL

(* Nothing is hidden behind no_more_input.                                 *)
THEOREM ClosedEdgeIsDrained == Spec => []ClosedWhenDrained
<1>1. EdgeInvariant => ClosedWhenDrained
  BY DEF EdgeInvariant
<1> QED
  BY <1>1, EdgeInvariantHolds, PTL

(* The length the monitor reads is the length of the queue.                *)
THEOREM MonitoredSizeIsCurrent == Spec => []SizeIsCurrent
<1>1. EdgeInvariant => SizeIsCurrent
  BY DEF EdgeInvariant
<1> QED
  BY <1>1, EdgeInvariantHolds, PTL

(* The edge, with its two queues, its mutex, its condition variables and   *)
(* interrupted waits, implements the single queue of StatusChannel.        *)
THEOREM EdgeImplementsChannel == Spec => ImplementsChannel
<1>1. Init => Channel!Init
  <2> SUFFICES ASSUME Init PROVE Channel!Init
    OBVIOUS
  <2>1. Messages(edge) = << >>
    BY DEF Init, EmptyEdge, Messages
  <2> QED
    BY <2>1 DEF Init, EmptyEdge, Channel!Init
<1>2. EdgeInvariant /\ [Next]_vars => [Channel!Next]_(Channel!vars)
  BY EdgeStep
<1> QED
  BY <1>1, <1>2, EdgeInvariantHolds, PTL
     DEF Spec, Channel!Spec, ImplementsChannel
=============================================================================
