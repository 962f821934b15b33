-------------------------- MODULE EdgeQueuesProofs ---------------------------
(***************************************************************************)
(* Facts about the two queues of an edge, for any capacity and any values: *)
(* what is left of a queue when some of its entries are dropped, and how   *)
(* the values stay with their statuses.                                    *)
(***************************************************************************)
EXTENDS EdgeQueues, FiniteSetTheorems, SequenceTheorems, WellFoundedInduction,
        TLAPS

-----------------------------------------------------------------------------
(* Facts about the operators of Subsequences.                              *)

(***************************************************************************)
(* Every set of numbers between 1 and n has an enumeration: otherwise take *)
(* the smallest n with a set that has none, and that set without n.        *)
(***************************************************************************)
LEMMA EnumerationExists ==
  ASSUME NEW n \in Nat, NEW S \in SUBSET (1 .. n)
  PROVE  \E f : IsEnumeration(f, S)
<1> DEFINE Bad == {m \in Nat : \E T \in SUBSET (1 .. m) :
                                  \A f : ~IsEnumeration(f, T)}
<1>1. SUFFICES ASSUME Bad # {}
               PROVE  FALSE
  OBVIOUS
<1>2. PICK m \in Bad : \A k \in Bad : ~(k < m)
  <2>1. \E x \in Bad : \A y \in Bad : << y, x >> \notin OpToRel(<, Nat)
    BY <1>1, WFMin, NatLessThanWellFounded
  <2>2. \A x, y \in Nat : y < x => << y, x >> \in OpToRel(<, Nat)
    BY DEF OpToRel
  <2> QED
    BY <2>1, <2>2
<1>3. PICK T \in SUBSET (1 .. m) : \A f : ~IsEnumeration(f, T)
  OBVIOUS
<1>m. m \in Nat
  OBVIOUS
<1>b. \A k \in Nat : (\E R \in SUBSET (1 .. k) : \A f : ~IsEnumeration(f, R))
                     => k \in Bad
  OBVIOUS
<1> HIDE DEF Bad
<1>4. IsFiniteSet(T) /\ Cardinality(T) \in Nat
  <2>1. IsFiniteSet(1 .. m)
    BY <1>m, FS_Interval
  <2> QED
    BY <2>1, FS_Subset, FS_CardinalityType
<1>5. CASE T = {}
  <2>1. Cardinality(T) = 0
    BY <1>5, FS_EmptySet
  <2>2. IsEnumeration([i \in 1 .. 0 |-> i], T)
    BY <2>1 DEF IsEnumeration
  <2> QED
    BY <2>2, <1>3
<1>6. CASE T # {} /\ m \notin T
  <2>1. m \in Nat \ {0} /\ T \in SUBSET (1 .. m - 1)
    <3>1. PICK t \in T : TRUE
      BY <1>6
    <3>2. t \in 1 .. m
      OBVIOUS
    <3>3. m # 0
      BY <3>2, <1>m
    <3>4. \A u \in T : u \in 1 .. m /\ u # m
      BY <1>6
    <3>5. \A u \in T : u \in 1 .. m - 1
      BY <3>4, <1>m
    <3> QED
      BY <3>3, <3>5, <1>m
  <2>2. m - 1 \in Bad
    BY <2>1, <1>3, <1>b
  <2> QED
    BY <2>1, <2>2, <1>2, <1>m
<1>7. CASE m \in T
  <2> DEFINE U == T \ {m}
  <2>1. m \in Nat \ {0} /\ U \in SUBSET (1 .. m - 1)
    BY <1>7, <1>m
  <2>2. PICK f : IsEnumeration(f, U)
    BY <2>1, <1>2, <1>b
  <2>3. /\ Cardinality(U) = Cardinality(T) - 1
        /\ Cardinality(U) \in Nat
    BY <1>4, <1>7, FS_RemoveElement, FS_CardinalityType
  <2> DEFINE c == Cardinality(U)
             g == [i \in 1 .. c + 1 |-> IF i = c + 1 THEN m ELSE f[i]]
  <2> HIDE DEF c, U
  <2>4. f \in [1 .. c -> U] /\ \A i, j \in 1 .. c : i < j => f[i] < f[j]
    BY <2>2 DEF IsEnumeration, c
  <2>5. Cardinality(T) = c + 1 /\ c \in Nat
    BY <2>3, <1>4 DEF c
  <2>6. U \subseteq T /\ \A u \in U : u \in Nat /\ u < m
    BY <2>1 DEF U
  <2>7. g \in [1 .. c + 1 -> T]
    <3>1. \A i \in 1 .. c + 1 : i # c + 1 => i \in 1 .. c
      BY <2>5
    <3>2. \A i \in 1 .. c + 1 : (IF i = c + 1 THEN m ELSE f[i]) \in T
      BY <2>4, <2>6, <3>1, <1>7
    <3> QED
      BY <3>2
  <2>8. \A i, j \in 1 .. c + 1 : i < j => g[i] < g[j]
    <3> SUFFICES ASSUME NEW i \in 1 .. c + 1, NEW j \in 1 .. c + 1, i < j
                 PROVE  g[i] < g[j]
      OBVIOUS
    <3>1. i \in 1 .. c /\ g[i] = f[i] /\ f[i] \in U
      BY <2>4, <2>5
    <3>2. CASE j = c + 1
      <4>1. g[j] = m
        BY <3>2
      <4> QED
        BY <3>1, <4>1, <2>6
    <3>3. CASE j # c + 1
      <4>1. j \in 1 .. c
        BY <3>3, <2>5
      <4>2. g[j] = f[j]
        BY <3>3
      <4> QED
        BY <3>1, <4>1, <4>2, <2>4
    <3> QED
      BY <3>2, <3>3
  <2>9. IsEnumeration(g, T)
    BY <2>5, <2>7, <2>8 DEF IsEnumeration
  <2> QED
    BY <2>9, <1>3
<1> QED
  BY <1>5, <1>6, <1>7

(***************************************************************************)
(* The positions kept are positions of the sequence that are to be kept.   *)
(***************************************************************************)
LEMMA EnumerationProperties ==
  ASSUME NEW n \in Nat, NEW S \in SUBSET (1 .. n)
  PROVE  /\ Cardinality(S) \in Nat
         /\ Cardinality(S) <= n
         /\ Enumeration(S) \in [1 .. Cardinality(S) -> S]
         /\ IsEnumeration(Enumeration(S), S)
<1>1. Cardinality(S) \in Nat /\ Cardinality(S) <= n
  <2>1. IsFiniteSet(1 .. n) /\ Cardinality(1 .. n) = n
    BY FS_Interval
  <2> QED
    BY <2>1, FS_Subset, FS_CardinalityType
<1>2. \E f \in [1 .. Cardinality(S) -> S] : IsEnumeration(f, S)
  BY EnumerationExists DEF IsEnumeration
<1> QED
  BY <1>1, <1>2 DEF Enumeration

(***************************************************************************)
(* An enumeration leaves nothing out.                                      *)
(***************************************************************************)
LEMMA EnumerationIsOnto ==
  ASSUME NEW n \in Nat, NEW S \in SUBSET (1 .. n), NEW i \in S
  PROVE  \E k \in 1 .. Cardinality(S) : Enumeration(S)[k] = i
<1> DEFINE c == Cardinality(S)
           f == Enumeration(S)
<1>1. /\ c \in Nat /\ f \in [1 .. c -> S]
      /\ \A j, k \in 1 .. c : j < k => f[j] < f[k]
  BY EnumerationProperties DEF IsEnumeration
<1>2. IsFiniteSet(S) /\ Cardinality(1 .. c) = c
  <2>1. IsFiniteSet(1 .. n)
    BY FS_Interval
  <2>2. IsFiniteSet(S)
    BY <2>1, FS_Subset
  <2>3. c \in Int /\ 1 \in Int
    BY <1>1
  <2> HIDE DEF c
  <2>4. Cardinality(1 .. c) = c
    BY <1>1, <2>3, FS_Interval
  <2> QED
    BY <2>2, <2>4
<1> HIDE DEF f
<1>3. \A j, k \in 1 .. c : f[j] = f[k] => j = k
  <2> SUFFICES ASSUME NEW j \in 1 .. c, NEW k \in 1 .. c, j < k
               PROVE  f[j] # f[k]
    BY <1>1
  <2>1. f[j] < f[k] /\ f[j] \in 1 .. n
    BY <1>1
  <2>2. f[k] \in 1 .. n
    BY <1>1
  <2> QED
    BY <2>1, <2>2
<1>4. f \in Injection(1 .. c, S)
  BY <1>1, <1>3 DEF Injection, IsInjective
<1>5. f \in Surjection(1 .. c, S)
  <2> HIDE DEF c
  <2>1. Cardinality(1 .. c) = Cardinality(S)
    BY <1>2 DEF c
  <2> QED
    BY <1>2, <1>4, <2>1, FS_Injection
<1> QED
  BY <1>5 DEF Surjection, f

(***************************************************************************)
(* A subsequence is a sequence over the same set, no longer than the one   *)
(* it was selected from, of elements at the positions to be kept.          *)
(***************************************************************************)
LEMMA SubsequenceProperties ==
  ASSUME NEW D, NEW q \in Seq(D), NEW S \in SUBSET (1 .. Len(q))
  PROVE  /\ Subsequence(q, S) \in Seq(D)
         /\ Len(Subsequence(q, S)) = Cardinality(S)
         /\ Cardinality(S) \in Nat
         /\ Cardinality(S) <= Len(q)
         /\ Enumeration(S) \in [1 .. Cardinality(S) -> S]
         /\ \A k \in 1 .. Cardinality(S) :
              Subsequence(q, S)[k] = q[Enumeration(S)[k]]
<1>1. Len(q) \in Nat
  OBVIOUS
<1>2. /\ Cardinality(S) \in Nat
      /\ Cardinality(S) <= Len(q)
      /\ Enumeration(S) \in [1 .. Cardinality(S) -> S]
  BY <1>1, EnumerationProperties
<1>3. \A k \in 1 .. Cardinality(S) : q[Enumeration(S)[k]] \in D
  <2>1. \A k \in 1 .. Cardinality(S) : Enumeration(S)[k] \in S
    BY <1>2
  <2>2. \A i \in S : i \in 1 .. Len(q)
    OBVIOUS
  <2> QED
    BY <2>1, <2>2, ElementOfSeq
<1> QED
  BY <1>2, <1>3 DEF Subsequence

-----------------------------------------------------------------------------
(* Counting the SUCCESS entries of a status queue.                         *)

LEMMA CountType ==
  ASSUME NEW q \in Seq(EdgeStatus), NEW i \in Nat
  PROVE  /\ IsFiniteSet(SuccessesUpTo(q, i))
         /\ Cardinality(SuccessesUpTo(q, i)) \in Nat
<1>1. IsFiniteSet(1 .. i)
  BY FS_Interval
<1>2. SuccessesUpTo(q, i) \in SUBSET (1 .. i)
  BY DEF SuccessesUpTo
<1> QED
  BY <1>1, <1>2, FS_Subset, FS_CardinalityType

LEMMA CountNone ==
  ASSUME NEW q, NEW i, \A j \in 1 .. i : q[j] # "SUCCESS"
  PROVE  Cardinality(SuccessesUpTo(q, i)) = 0
<1>1. SuccessesUpTo(q, i) = {}
  BY DEF SuccessesUpTo
<1> QED
  BY <1>1, FS_EmptySet

LEMMA CountMonotone ==
  ASSUME NEW q \in Seq(EdgeStatus), NEW i \in 0 .. Len(q)
  PROVE  /\ Cardinality(SuccessesUpTo(q, i))
              <= Cardinality(SuccessesUpTo(q, Len(q)))
         /\ i > 0 /\ q[i] = "SUCCESS"
              => Cardinality(SuccessesUpTo(q, i)) >= 1
<1>1. i \in Nat /\ Len(q) \in Nat
  OBVIOUS
<1>2. SuccessesUpTo(q, i) \in SUBSET SuccessesUpTo(q, Len(q))
  BY <1>1 DEF SuccessesUpTo
<1>3. ASSUME i > 0, q[i] = "SUCCESS"
      PROVE  SuccessesUpTo(q, i) # {}
  BY <1>1, <1>3 DEF SuccessesUpTo
<1>4. ASSUME i > 0, q[i] = "SUCCESS"
      PROVE  Cardinality(SuccessesUpTo(q, i)) # 0
  BY <1>1, <1>3, <1>4, CountType, FS_EmptySet
<1> QED
  BY <1>1, <1>2, <1>4, CountType, FS_Subset

LEMMA CountAppend ==
  ASSUME NEW q \in Seq(EdgeStatus), NEW st \in EdgeStatus
  PROVE  /\ \A i \in 0 .. Len(q) :
              SuccessesUpTo(Append(q, st), i) = SuccessesUpTo(q, i)
         /\ Cardinality(SuccessesUpTo(Append(q, st), Len(q) + 1))
              = Cardinality(SuccessesUpTo(q, Len(q)))
                  + (IF st = "SUCCESS" THEN 1 ELSE 0)
<1> DEFINE r == Append(q, st)
           n == Len(q)
<1>1. n \in Nat /\ \A j \in 1 .. n : r[j] = q[j]
  BY AppendProperties
<1>2. r[n + 1] = st
  BY AppendProperties
<1> HIDE DEF r
<1>3. \A i \in 0 .. n : SuccessesUpTo(r, i) = SuccessesUpTo(q, i)
  <2> SUFFICES ASSUME NEW i \in 0 .. n
               PROVE  SuccessesUpTo(r, i) = SuccessesUpTo(q, i)
    OBVIOUS
  <2>1. \A j \in 1 .. i : j \in 1 .. n
    BY <1>1
  <2> QED
    BY <1>1, <2>1 DEF SuccessesUpTo
<1>4. CASE st = "SUCCESS"
  <2>1. SuccessesUpTo(r, n + 1) = SuccessesUpTo(q, n) \cup {n + 1}
    BY <1>1, <1>2, <1>4 DEF SuccessesUpTo
  <2>2. n + 1 \notin SuccessesUpTo(q, n)
    BY <1>1 DEF SuccessesUpTo
  <2>3. Cardinality(SuccessesUpTo(q, n) \cup {n + 1})
          = Cardinality(SuccessesUpTo(q, n)) + 1
    BY <1>1, <2>2, CountType, FS_AddElement
  <2> QED
    BY <1>3, <1>4, <2>1, <2>3 DEF r
<1>5. CASE st # "SUCCESS"
  <2>1. SuccessesUpTo(r, n + 1) = SuccessesUpTo(q, n)
    BY <1>1, <1>2, <1>5 DEF SuccessesUpTo
  <2>2. Cardinality(SuccessesUpTo(q, n)) \in Nat
    BY <1>1, CountType
  <2>3. Cardinality(SuccessesUpTo(r, n + 1))
          = Cardinality(SuccessesUpTo(q, n)) + 0
    BY <2>1, <2>2
  <2> QED
    BY <1>3, <1>5, <2>3 DEF r
<1> QED
  BY <1>4, <1>5

LEMMA CountTail ==
  ASSUME NEW q \in Seq(EdgeStatus), q # << >>, NEW i \in 0 .. Len(q) - 1
  PROVE  Cardinality(SuccessesUpTo(q, i + 1))
           = Cardinality(SuccessesUpTo(Tail(q), i))
               + (IF Head(q) = "SUCCESS" THEN 1 ELSE 0)
<1> DEFINE t == Tail(q)
           A == SuccessesUpTo(t, i)
           B == {j \in 2 .. i + 1 : q[j] = "SUCCESS"}
<1>1. /\ i \in Nat /\ Len(q) \in Nat /\ Len(t) = Len(q) - 1
      /\ t \in Seq(EdgeStatus)
      /\ \A j \in 1 .. i : t[j] = q[j + 1]
      /\ Head(q) = q[1]
  BY HeadTailProperties
<1>2. IsFiniteSet(A) /\ Cardinality(A) \in Nat
  BY <1>1, CountType
<1> HIDE DEF t
<1>3. IsFiniteSet(B) /\ Cardinality(B) = Cardinality(A)
  <2> DEFINE f == [j \in A |-> j + 1]
  <2>1. \A j \in A : j \in Nat /\ j + 1 \in B
    BY <1>1 DEF SuccessesUpTo
  <2>2. \A k \in B : k \in Nat /\ k - 1 \in A /\ (k - 1) + 1 = k
    BY <1>1 DEF SuccessesUpTo
  <2> HIDE DEF A, B
  <2>3. f \in [A -> B]
    BY <2>1
  <2>4. \A j, k \in A : f[j] = f[k] => j = k
    BY <2>1
  <2>5. \A k \in B : \E j \in A : f[j] = k
    BY <2>2
  <2>6. f \in Bijection(A, B)
    BY <2>3, <2>4, <2>5 DEF Bijection, Injection, Surjection, IsInjective
  <2>7. ExistsBijection(A, B)
    BY <2>6 DEF ExistsBijection
  <2> QED
    BY <1>2, <2>7, FS_Bijection
<1>4. CASE Head(q) = "SUCCESS"
  <2>1. SuccessesUpTo(q, i + 1) = B \cup {1} /\ 1 \notin B
    BY <1>1, <1>4 DEF SuccessesUpTo
  <2>2. Cardinality(B \cup {1}) = Cardinality(B) + 1
    BY <1>3, <2>1, FS_AddElement
  <2> QED
    BY <1>3, <1>4, <2>1, <2>2 DEF t
<1>5. CASE Head(q) # "SUCCESS"
  <2>1. SuccessesUpTo(q, i + 1) = B
    BY <1>1, <1>5 DEF SuccessesUpTo
  <2>2. Cardinality(SuccessesUpTo(q, i + 1)) = Cardinality(A) + 0
    <3> HIDE DEF A, B
    <3> QED
      BY <1>2, <1>3, <2>1
  <2> QED
    BY <1>5, <2>2 DEF t
<1> QED
  BY <1>4, <1>5

-----------------------------------------------------------------------------
(* The operations of an edge whose values are members of D.                *)

EdgeOf(D) ==
  [status        : Seq(EdgeStatus),
   data          : Seq(D),
   no_more_input : BOOLEAN,
   last_size     : Nat]

(* There is one value for each SUCCESS. *)
Paired(e, D) ==
  /\ e \in EdgeOf(D)
  /\ Len(e.data) = Cardinality(SuccessesUpTo(e.status, Len(e.status)))

(* The value that goes with the SUCCESS at position j. *)
ValueAt(e, j) == e.data[Cardinality(SuccessesUpTo(e.status, j))]

LEMMA PairedIndex ==
  ASSUME NEW D, NEW e, Paired(e, D), NEW j \in 1 .. Len(e.status),
         e.status[j] = "SUCCESS"
  PROVE  /\ Cardinality(SuccessesUpTo(e.status, j)) \in 1 .. Len(e.data)
         /\ ValueAt(e, j) \in D
<1> DEFINE q == e.status
           c == Cardinality(SuccessesUpTo(q, j))
<1>1. /\ q \in Seq(EdgeStatus) /\ e.data \in Seq(D) /\ Len(q) \in Nat
      /\ Len(e.data) \in Nat /\ Len(e.data) = Cardinality(SuccessesUpTo(q, Len(q)))
  BY DEF Paired, EdgeOf
<1>2. j \in 0 .. Len(q) /\ j > 0 /\ j \in Nat
  BY <1>1
<1>3. c <= Cardinality(SuccessesUpTo(q, Len(q))) /\ c >= 1 /\ c \in Nat
  BY <1>1, <1>2, CountMonotone, CountType
<1>4. c \in 1 .. Len(e.data)
  BY <1>1, <1>3
<1> QED
  BY <1>1, <1>4, ElementOfSeq DEF ValueAt

LEMMA EmptyEdgePaired ==
  ASSUME NEW D
  PROVE  Paired(EmptyEdge, D)
<1>1. Cardinality(SuccessesUpTo(<< >>, 0)) = 0
  BY CountNone
<1>2. << >> \in Seq(EdgeStatus) /\ << >> \in Seq(D) /\ Len(<< >>) = 0
  BY EmptySeq
<1> QED
  BY <1>1, <1>2 DEF Paired, EdgeOf, EmptyEdge

(* What is stored comes last, and the rest stays as it is. *)
LEMMA StoredPaired ==
  ASSUME NEW D, NEW e, Paired(e, D), NEW st \in EdgeStatus, NEW v,
         st = "SUCCESS" => v \in D
  PROVE  LET f == Stored(e, st, v)
             n == Len(e.status)
         IN  /\ Paired(f, D)
             /\ f.status = Append(e.status, st) /\ Len(f.status) = n + 1
             /\ ~f.no_more_input
             /\ \A j \in 1 .. n : f.status[j] = e.status[j]
             /\ f.status[n + 1] = st
             /\ \A j \in 1 .. n :
                  e.status[j] = "SUCCESS" => ValueAt(f, j) = ValueAt(e, j)
             /\ st = "SUCCESS" => ValueAt(f, n + 1) = v
<1> DEFINE q == e.status
           d == e.data
           n == Len(q)
           f == Stored(e, st, v)
<1>1. /\ q \in Seq(EdgeStatus) /\ d \in Seq(D) /\ n \in Nat
      /\ Len(d) = Cardinality(SuccessesUpTo(q, n)) /\ Len(d) \in Nat
  BY DEF Paired, EdgeOf
<1>2. /\ f.status = Append(q, st)
      /\ f.data = IF st = "SUCCESS" THEN Append(d, v) ELSE d
      /\ f.no_more_input = FALSE /\ f.last_size = n + 1
      /\ f = [status |-> f.status, data |-> f.data,
              no_more_input |-> FALSE, last_size |-> n + 1]
  BY DEF Stored
<1>3. /\ f.status \in Seq(EdgeStatus) /\ Len(f.status) = n + 1
      /\ \A i \in 1 .. n : f.status[i] = q[i]
      /\ f.status[n + 1] = st
  BY <1>1, <1>2, AppendProperties
<1>4. /\ f.data \in Seq(D)
      /\ Len(f.data) = Len(d) + (IF st = "SUCCESS" THEN 1 ELSE 0)
      /\ \A c \in 1 .. Len(d) : f.data[c] = d[c]
      /\ st = "SUCCESS" => f.data[Len(d) + 1] = v
  <2>1. CASE st = "SUCCESS"
    BY <1>1, <1>2, <2>1, AppendProperties
  <2>2. CASE st # "SUCCESS"
    BY <1>1, <1>2, <2>2
  <2> QED
    BY <2>1, <2>2
<1>5. f \in EdgeOf(D)
  <2> DEFINE a == f.status
             b == f.data
  <2>1. a \in Seq(EdgeStatus) /\ b \in Seq(D) /\ n + 1 \in Nat
    BY <1>1, <1>3, <1>4
  <2>2. f = [status |-> a, data |-> b, no_more_input |-> FALSE,
             last_size |-> n + 1]
    BY <1>2
  <2> HIDE DEF a, b, f
  <2> QED
    BY <2>1, <2>2 DEF EdgeOf
<1>6. /\ \A i \in 0 .. n : SuccessesUpTo(f.status, i) = SuccessesUpTo(q, i)
      /\ Cardinality(SuccessesUpTo(f.status, n + 1))
           = Len(d) + (IF st = "SUCCESS" THEN 1 ELSE 0)
  BY <1>1, <1>2, CountAppend
<1>7. Paired(f, D)
  BY <1>3, <1>4, <1>5, <1>6 DEF Paired
<1>8. ASSUME NEW j \in 1 .. n, q[j] = "SUCCESS"
      PROVE  ValueAt(f, j) = ValueAt(e, j)
  <2>1. j \in 0 .. n
    BY <1>1
  <2>2. Cardinality(SuccessesUpTo(q, j)) \in 1 .. Len(d)
    BY <1>8, PairedIndex
  <2>3. SuccessesUpTo(f.status, j) = SuccessesUpTo(q, j)
    BY <1>6, <2>1
  <2> HIDE DEF f
  <2> QED
    BY <1>4, <2>2, <2>3 DEF ValueAt
<1>9. ASSUME st = "SUCCESS"
      PROVE  ValueAt(f, n + 1) = v
  BY <1>4, <1>6, <1>9 DEF ValueAt
<1> QED
  BY <1>2, <1>3, <1>7, <1>8, <1>9

(* A flush leaves no values, and no SUCCESS. *)
LEMMA FlushedPaired ==
  ASSUME NEW D, NEW e, Paired(e, D), NEW st
  PROVE  /\ Paired(Flushed(e, st), D)
         /\ Len(Flushed(e, st).status) <= Len(e.status)
         /\ Flushed(e, st).no_more_input = e.no_more_input
<1> DEFINE q == e.status
           S == Survivors(q)
           r == Subsequence(q, S)
           f == Flushed(e, st)
<1>1. /\ q \in Seq(EdgeStatus) /\ Len(q) \in Nat
      /\ S \in SUBSET (1 .. Len(q))
      /\ \A i \in S : q[i] # "SUCCESS"
  BY DEF Paired, EdgeOf, Survivors
<1>2. CASE st # "FLUSH"
  BY <1>1, <1>2 DEF Flushed
<1>3. CASE st = "FLUSH"
  <2>1. f = [e EXCEPT !.status = r, !.data = << >>]
    BY <1>3 DEF Flushed, flush_status_queue
  <2> HIDE DEF q, S, r
  <2>2. /\ r \in Seq(EdgeStatus)
        /\ Len(r) = Cardinality(S)
        /\ Cardinality(S) \in Nat
        /\ Cardinality(S) <= Len(q)
        /\ Enumeration(S) \in [1 .. Cardinality(S) -> S]
        /\ \A k \in 1 .. Cardinality(S) : r[k] = q[Enumeration(S)[k]]
    BY <1>1, SubsequenceProperties DEF r
  <2>3. \A k \in 1 .. Len(r) : r[k] # "SUCCESS"
    BY <1>1, <2>2
  <2>4. Cardinality(SuccessesUpTo(r, Len(r))) = 0
    BY <2>3, CountNone
  <2>5. e \in EdgeOf(D) /\ << >> \in Seq(D)
    BY EmptySeq DEF Paired
  <2>6. /\ f \in EdgeOf(D) /\ f.status = r /\ f.data = << >>
        /\ f.no_more_input = e.no_more_input
    BY <2>1, <2>2, <2>5 DEF EdgeOf
  <2> QED
    BY <2>2, <2>4, <2>6 DEF Paired, q
<1> QED
  BY <1>2, <1>3

(* What is popped came first, and the rest moves up. *)
LEMMA PoppedPaired ==
  ASSUME NEW D, NEW e, Paired(e, D), e.status # << >>
  PROVE  LET f == Popped(e)
             n == Len(e.status)
         IN  /\ Paired(f, D)
             /\ n \in Nat /\ n >= 1
             /\ Head(e.status) = e.status[1] /\ Head(e.status) \in EdgeStatus
             /\ f.status = Tail(e.status) /\ Len(f.status) = n - 1
             /\ f.no_more_input <=> e.status[1] = "FAILURE" /\ n = 1
             /\ \A j \in 1 .. n - 1 :
                  /\ f.status[j] = e.status[j + 1]
                  /\ f.status[j] = "SUCCESS" => ValueAt(f, j) = ValueAt(e, j + 1)
             /\ e.status[1] = "SUCCESS" => /\ Head(e.data) = ValueAt(e, 1)
                                           /\ Head(e.data) \in D
<1> DEFINE q == e.status
           d == e.data
           n == Len(q)
           f == Popped(e)
           k == IF Head(q) = "SUCCESS" THEN 1 ELSE 0
<1>1. /\ q \in Seq(EdgeStatus) /\ d \in Seq(D) /\ n \in Nat /\ n >= 1
      /\ Len(d) = Cardinality(SuccessesUpTo(q, n)) /\ Len(d) \in Nat
      /\ q # << >>
  BY EmptySeq DEF Paired, EdgeOf
<1>2. /\ Tail(q) \in Seq(EdgeStatus) /\ Len(Tail(q)) = n - 1
      /\ \A i \in 1 .. n - 1 : Tail(q)[i] = q[i + 1]
      /\ Head(q) = q[1] /\ Head(q) \in EdgeStatus
  BY <1>1, HeadTailProperties
<1>3. \A i \in 0 .. n - 1 :
        /\ Cardinality(SuccessesUpTo(q, i + 1))
             = Cardinality(SuccessesUpTo(Tail(q), i)) + k
        /\ Cardinality(SuccessesUpTo(Tail(q), i)) \in Nat
  <2> HIDE DEF q
  <2> SUFFICES ASSUME NEW i \in 0 .. n - 1
               PROVE  /\ Cardinality(SuccessesUpTo(q, i + 1))
                           = Cardinality(SuccessesUpTo(Tail(q), i)) + k
                      /\ Cardinality(SuccessesUpTo(Tail(q), i)) \in Nat
    OBVIOUS
  <2>1. i \in Nat
    BY <1>1
  <2> QED
    BY <1>1, <1>2, <2>1, CountTail, CountType
<1>4. Len(d) = Cardinality(SuccessesUpTo(Tail(q), n - 1)) + k
  BY <1>1, <1>3
<1>5. /\ f.status = Tail(q)
      /\ f.data = IF Head(q) = "SUCCESS" THEN Tail(d) ELSE d
      /\ f.no_more_input = (Head(q) = "FAILURE" /\ Tail(q) = << >>)
      /\ f.last_size = n - 1
      /\ f = [status |-> f.status, data |-> f.data,
              no_more_input |-> f.no_more_input, last_size |-> n - 1]
  BY DEF Popped
<1>6. /\ f.no_more_input \in BOOLEAN
      /\ f.no_more_input <=> q[1] = "FAILURE" /\ n = 1
  <2>1. Tail(q) # << >> => Len(Tail(q)) \in Nat \ {0}
    BY <1>2, EmptySeq
  <2>2. Tail(q) = << >> <=> Len(Tail(q)) = 0
    BY <2>1, EmptySeq
  <2> HIDE DEF q
  <2>3. Tail(q) = << >> <=> n = 1
    BY <1>1, <1>2, <2>2
  <2> QED
    BY <1>2, <1>5, <2>3
<1> HIDE DEF q, d, f
<1>7. /\ f.data \in Seq(D)
      /\ Len(f.data) = Len(d) - k
      /\ \A c \in 1 .. Len(f.data) : f.data[c] = d[c + k]
      /\ Head(q) = "SUCCESS" => Head(d) \in D /\ Head(d) = d[1]
  <2>1. CASE Head(q) = "SUCCESS"
    <3>1. d # << >>
      BY <1>1, <1>2, <1>3, <1>4, <2>1
    <3> QED
      BY <1>1, <1>5, <2>1, <3>1, HeadTailProperties
  <2>2. CASE Head(q) # "SUCCESS"
    BY <1>1, <1>5, <2>2
  <2> QED
    BY <2>1, <2>2
<1>8. f \in EdgeOf(D)
  <2> DEFINE a == f.status
             b == f.data
             c == f.no_more_input
  <2>1. /\ a \in Seq(EdgeStatus) /\ b \in Seq(D) /\ n - 1 \in Nat
        /\ c \in BOOLEAN
    BY <1>1, <1>2, <1>5, <1>6, <1>7
  <2>2. f = [status |-> a, data |-> b, no_more_input |-> c,
             last_size |-> n - 1]
    BY <1>5
  <2> HIDE DEF a, b, c
  <2> QED
    BY <2>1, <2>2 DEF EdgeOf
<1>9. Paired(f, D)
  <2>1. Len(f.status) = n - 1
    BY <1>2, <1>5
  <2>2. Cardinality(SuccessesUpTo(Tail(q), n - 1)) \in Nat
    <3>1. n - 1 \in 0 .. n - 1
      BY <1>1
    <3> QED
      BY <1>3, <3>1
  <2> HIDE DEF n, k
  <2>3. k \in Nat
    BY DEF k
  <2>4. Len(f.data) = Cardinality(SuccessesUpTo(Tail(q), n - 1))
    BY <1>1, <1>4, <1>7, <2>2, <2>3
  <2> QED
    BY <1>5, <1>8, <2>1, <2>4 DEF Paired
<1>10. ASSUME NEW j \in 1 .. n - 1, f.status[j] = "SUCCESS"
       PROVE  ValueAt(f, j) = ValueAt(e, j + 1)
  <2> DEFINE c == Cardinality(SuccessesUpTo(f.status, j))
  <2>1. j \in 0 .. n - 1 /\ j \in 1 .. Len(f.status)
    BY <1>1, <1>2, <1>5
  <2>2. Cardinality(SuccessesUpTo(q, j + 1)) = c + k
    BY <1>3, <1>5, <2>1
  <2>3. c \in 1 .. Len(f.data)
    BY <1>9, <1>10, <2>1, PairedIndex
  <2> HIDE DEF c, k
  <2> QED
    BY <1>7, <2>2, <2>3 DEF ValueAt, c, q, d
<1>11. ASSUME q[1] = "SUCCESS"
       PROVE  Head(d) = ValueAt(e, 1) /\ Head(d) \in D
  <2>1. Cardinality(SuccessesUpTo(Tail(q), 0)) = 0
    BY CountNone
  <2>2. 0 \in 0 .. n - 1
    BY <1>1
  <2>3. Cardinality(SuccessesUpTo(q, 1)) = 1
    BY <1>2, <1>3, <1>11, <2>1, <2>2
  <2> QED
    BY <1>2, <1>7, <1>11, <2>3 DEF ValueAt, q, d
<1>12. \A j \in 1 .. n - 1 : f.status[j] = q[j + 1] /\ Len(f.status) = n - 1
  BY <1>2, <1>5
<1>13. Len(f.status) = n - 1
  BY <1>2, <1>5
<1> HIDE DEF n, k
<1> QED
  BY <1>1, <1>2, <1>5, <1>6, <1>9, <1>10, <1>11, <1>12, <1>13 DEF f, q, d, n

LEMMA ResetPaired ==
  ASSUME NEW D, NEW e, Paired(e, D)
  PROVE  /\ Paired(WasReset(e), D)
         /\ WasReset(e).status = e.status /\ WasReset(e).data = e.data
         /\ ~WasReset(e).no_more_input
BY DEF Paired, EdgeOf, WasReset
=============================================================================
