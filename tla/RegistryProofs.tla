--------------------------- MODULE RegistryProofs ---------------------------
(***************************************************************************)
(* What reference counting promises for any number of threads, smart       *)
(* pointers and objects, whoever looks them up by their UUIDs: in which    *)
(* two ways freed memory comes to be used, and that there is no other.     *)
(* Then what the resource pool promises for any number of processes, names *)
(* and changes.                                                            *)
(***************************************************************************)
EXTENDS ObjectCache, ResourcePool, FiniteSetTheorems, TLAPS

Call == [pc : {"idle", "ref", "add", "count", "found", "relock", "remove"},
         obj : Objects \cup {None}, to : Owned \cup {None}]

CacheType ==
  /\ subtrack \in SubtrackKinds
  /\ memory \in [Objects -> {"unused", "live", "deleted"}]
  /\ uuid \in [Objects -> Objects]
  /\ ref_count \in [Objects -> Nat]
  /\ cache_map \in [Objects -> Objects \cup {None}]
  /\ count \in Int
  /\ call \in [Threads -> Call]
  /\ pointer \in [Owned -> Objects \cup {None}]

AllLive == \A p \in Owned : pointer[p] # None => memory[pointer[p]] = "live"

PointersTo(o) == {p \in Owned : pointer[p] = o}

(* ref_count_ is the number of smart pointers. *)
Counted == \A o \in Objects : ref_count[o] = Cardinality(PointersTo(o))

(* Nobody else uses an object that has no pointer, but a thread that found *)
(* it and waits for the mutex that it has locked itself.                   *)
Fresh(t, o) ==
  /\ \A p \in Owned : pointer[p] # o
  /\ \A other \in Threads \ {t} : call[other].obj = o => call[other].pc = "relock"

(* A thread in ref() has a pointer to the object, or it is the first; what *)
(* a lookup found, somebody has a pointer to.                              *)
Known(t, o) ==
  IF call[t].pc = "found" THEN Referenced(o) ELSE Has(t, o) \/ Fresh(t, o)

(* A thread in ref() has an empty place of its own for the pointer.        *)
RefSafe ==
  \A t \in Threads : call[t].pc \in {"ref", "add", "count", "found"} =>
    LET o == call[t].obj IN
    /\ o \in Objects /\ memory[o] = "live"
    /\ call[t].to \in Owned /\ pointer[call[t].to] = None
    /\ \A other \in Threads \ {t} : call[other].to # call[t].to
    /\ Known(t, o)

(* Nobody else uses an object that is being removed. *)
RemoveSafe ==
  \A t \in Threads : call[t].pc = "remove" =>
    /\ call[t].obj \in Objects /\ memory[call[t].obj] = "live"
    /\ Fresh(t, call[t].obj)

(* A lookup has the mutex, which keeps the object that it found. *)
LookupSafe ==
  \A t \in Threads : call[t].pc \in {"found", "relock"} =>
    mutex = t /\ call[t].obj \in Objects /\ memory[call[t].obj] = "live"

RestSafe ==
  \A t \in Threads :
    /\ call[t].pc = "idle" => call[t] = Idle
    /\ call[t].pc = "remove" => call[t].to = None

(* What is found was made, and still exists unless UUIDs change. *)
EntriesSound ==
  \A u \in Objects : cache_map[u] # None =>
    /\ memory[cache_map[u]] # "unused"
    /\ subtrack # "new_uuid" =>
         memory[cache_map[u]] = "live" /\ uuid[cache_map[u]] = u

RefInvariant ==
  /\ CacheType /\ Counted /\ AllLive
  /\ RefSafe /\ RemoveSafe /\ LookupSafe /\ RestSafe /\ EntriesSound

(* Until a step leads to the use of freed memory; one such step needs      *)
(* UUIDs that change.                                                      *)
UnlessBroken ==
  /\ subtrack \in SubtrackKinds /\ broken \in {"no", "overtaken", "left_behind"}
  /\ broken = "no" => RefInvariant
  /\ broken = "left_behind" => subtrack = "new_uuid"

(* Without subtracks: the entry of an object is its own, and there is one  *)
(* from add() to remove().                                                 *)
Entry(o) == cache_map[o] = o

EntriesOwn ==
  /\ uuid = [o \in Objects |-> o]
  /\ \A o \in Objects : cache_map[o] \in {o, None}
  /\ \A o \in Objects : Entry(o) => memory[o] = "live"
  /\ \A o \in Objects : Referenced(o) => Entry(o)
  /\ \A o \in Objects : Entry(o) => Referenced(o) \/ AtItsEdge(o)
  /\ \A t \in Threads :
       /\ call[t].pc \in {"count", "found", "remove"} => Entry(call[t].obj)
       /\ call[t].pc = "add" => ~Entry(call[t].obj)
       /\ call[t].pc = "ref" /\ ref_count[call[t].obj] = 0 => ~Entry(call[t].obj)
  /\ count = Cardinality({o \in Objects : Entry(o)})

CacheInvariant == (broken = "no" /\ subtrack = "never") => EntriesOwn

-----------------------------------------------------------------------------
(* Counting.                                                               *)

LEMMA PointersFinite ==
  ASSUME NEW o PROVE IsFiniteSet(PointersTo(o))
<1>1. IsFiniteSet(Owned)
  BY NamesAssumption, FS_Product DEF Owned
<1>2. PointersTo(o) \subseteq Owned
  BY DEF PointersTo
<1> QED
  BY <1>1, <1>2, FS_Subset

(* No pointer, no count. *)
LEMMA CountIsZero ==
  ASSUME Counted, NEW o \in Objects
  PROVE  ref_count[o] = 0 <=> \A p \in Owned : pointer[p] # o
<1>1. ref_count[o] = 0 <=> PointersTo(o) = {}
  BY PointersFinite, FS_EmptySet DEF Counted
<1> QED
  BY <1>1 DEF PointersTo

(* One pointer more. *)
LEMMA CountOneMore ==
  ASSUME CacheType, Counted, NEW o \in Objects, NEW p \in Owned, pointer[p] = None,
         pointer' = [pointer EXCEPT ![p] = o],
         ref_count' = [ref_count EXCEPT ![o] = @ + 1]
  PROVE  Counted' /\ ref_count' \in [Objects -> Nat]
                  /\ pointer' \in [Owned -> Objects \cup {None}]
<1>1. ref_count \in [Objects -> Nat] /\ pointer \in [Owned -> Objects \cup {None}]
  BY DEF CacheType
<1>2. ASSUME NEW x \in Objects PROVE ref_count'[x] = Cardinality(PointersTo(x))'
  <2>1. CASE x = o
    <3>1. PointersTo(x)' = PointersTo(o) \cup {p} /\ p \notin PointersTo(o)
      BY <1>1, <2>1, NamesAssumption DEF PointersTo
    <3>2. Cardinality(PointersTo(x)') = Cardinality(PointersTo(o)) + 1
      BY <3>1, PointersFinite, FS_AddElement
    <3> QED
      BY <1>1, <2>1, <3>2 DEF Counted
  <2>2. CASE x # o
    <3>1. PointersTo(x)' = PointersTo(x)
      BY <1>1, <2>2, NamesAssumption DEF PointersTo
    <3> QED
      BY <1>1, <2>2, <3>1 DEF Counted
  <2> QED
    BY <2>1, <2>2
<1>3. Counted'
  BY <1>2 DEF Counted
<1> QED
  BY <1>1, <1>3

(* One pointer less. *)
LEMMA CountOneLess ==
  ASSUME CacheType, Counted, NEW p \in Owned, pointer[p] # None,
         pointer' = [pointer EXCEPT ![p] = None],
         ref_count' = [ref_count EXCEPT ![pointer[p]] = @ - 1]
  PROVE  Counted' /\ ref_count' \in [Objects -> Nat]
                  /\ pointer' \in [Owned -> Objects \cup {None}]
<1> DEFINE o == pointer[p]
<1>1. /\ ref_count \in [Objects -> Nat] /\ pointer \in [Owned -> Objects \cup {None}]
      /\ o \in Objects
  BY DEF CacheType
<1>2. ref_count[o] # 0
  BY <1>1, CountIsZero
<1>3. ref_count' \in [Objects -> Nat]
  BY <1>1, <1>2
<1>4. ASSUME NEW x \in Objects PROVE ref_count'[x] = Cardinality(PointersTo(x))'
  <2>1. CASE x = o
    <3>1. PointersTo(x)' = PointersTo(o) \ {p} /\ p \in PointersTo(o)
      BY <1>1, <2>1, NamesAssumption DEF PointersTo
    <3>2. Cardinality(PointersTo(x)') = Cardinality(PointersTo(o)) - 1
      BY <3>1, PointersFinite, FS_RemoveElement
    <3> QED
      BY <1>1, <2>1, <3>2 DEF Counted
  <2>2. CASE x # o
    <3>1. PointersTo(x)' = PointersTo(x)
      BY <1>1, <2>2, NamesAssumption DEF PointersTo
    <3> QED
      BY <1>1, <2>2, <3>1 DEF Counted
  <2> QED
    BY <2>1, <2>2
<1>5. Counted'
  BY <1>4 DEF Counted
<1> QED
  BY <1>1, <1>3, <1>5

(* The last pointer is the only one. *)
LEMMA LastPointer ==
  ASSUME Counted, NEW p \in Owned, pointer[p] \in Objects, ref_count[pointer[p]] = 1
  PROVE  \A q \in Owned : pointer[q] = pointer[p] => q = p
<1> DEFINE S == PointersTo(pointer[p])
<1>1. Cardinality(S) = 1 /\ IsFiniteSet(S) /\ p \in S
  BY PointersFinite DEF Counted, PointersTo
<1>2. IsFiniteSet(S \ {p}) /\ Cardinality(S \ {p}) = 0
  BY <1>1, FS_RemoveElement
<1>3. S \ {p} = {}
  BY <1>2, FS_EmptySet
<1> QED
  BY <1>3 DEF PointersTo

(* Any other is not. *)
LEMMA AnotherPointer ==
  ASSUME Counted, NEW p \in Owned, pointer[p] \in Objects, ref_count[pointer[p]] # 1
  PROVE  \E q \in Owned : q # p /\ pointer[q] = pointer[p]
<1> SUFFICES ASSUME \A q \in Owned : pointer[q] = pointer[p] => q = p PROVE FALSE
  OBVIOUS
<1>1. PointersTo(pointer[p]) = {p}
  BY DEF PointersTo
<1> QED
  BY <1>1, FS_Singleton DEF Counted

-----------------------------------------------------------------------------
(* The count and the pointers.                                             *)

LEMMA RefInvariantInit == Init => RefInvariant
<1> SUFFICES ASSUME Init PROVE RefInvariant
  OBVIOUS
<1>1. CacheType
  BY DEF Init, CacheType, Call, Idle
<1>2. \A p \in Owned : pointer[p] = None
  BY DEF Init
<1>3. Counted
  <2> SUFFICES ASSUME NEW o \in Objects PROVE ref_count[o] = Cardinality(PointersTo(o))
    BY DEF Counted
  <2>1. PointersTo(o) = {}
    BY <1>2, NamesAssumption DEF PointersTo
  <2> QED
    BY <2>1, FS_EmptySet DEF Init
<1>4. AllLive
  BY <1>2 DEF AllLive
<1>5. \A t \in Threads : call[t] = Idle /\ call[t].pc = "idle"
  BY DEF Init, Idle
<1>6. EntriesSound
  BY DEF Init, EntriesSound
<1> QED
  BY <1>1, <1>3, <1>4, <1>5, <1>6 DEF RefInvariant, RefSafe, RemoveSafe, LookupSafe, RestSafe

(* ref() begins with an object that the thread has, or that is new, or that *)
(* it has found.                                                           *)
LEMMA RefBegins ==
  ASSUME RefInvariant, NEW t \in Threads, NEW o \in Objects, NEW p \in Owned,
         NEW pc \in {"ref", "found", "relock"},
         call[t].pc = "idle", Empty(p), Calls(t, pc, o, p),
         subtrack' = subtrack, ref_count' = ref_count, pointer' = pointer,
         uuid' \in [Objects -> Objects],
         memory[o] = "unused" \/ uuid' = uuid,
         \A x \in Objects \ {o} : uuid'[x] = uuid[x],
         cache_map' = cache_map, count' = count,
         memory' = [memory EXCEPT ![o] = "live"],
         IF pc = "ref"
         THEN mutex' = mutex /\ ((Has(t, o) /\ memory[o] = "live") \/ memory[o] = "unused")
         ELSE /\ mutex = None /\ mutex' = t /\ memory[o] = "live"
              /\ pc = "found" => Referenced(o)
  PROVE  RefInvariant'
<1> USE NamesAssumption
<1> USE DEF RefInvariant
<1>1. call' = [call EXCEPT ![t] = [pc |-> pc, obj |-> o, to |-> p]]
  BY DEF Calls
<1>2. call \in [Threads -> Call] /\ memory \in [Objects -> {"unused", "live", "deleted"}]
  BY DEF CacheType
<1>3. /\ call'[t] = [pc |-> pc, obj |-> o, to |-> p]
      /\ \A other \in Threads \ {t} : call'[other] = call[other]
  BY <1>1, <1>2
<1>4. memory'[o] = "live" /\ \A x \in Objects : memory[x] = "live" => memory'[x] = "live"
  BY <1>2
<1>5. CacheType'
  <2>1. call' \in [Threads -> Call]
    BY <1>1, <1>2 DEF Call
  <2>2. memory' \in [Objects -> {"unused", "live", "deleted"}]
    BY <1>2
  <2> QED
    BY <2>1, <2>2 DEF CacheType
<1>6. Counted'
  BY DEF Counted, PointersTo
<1>7. AllLive'
  BY <1>4 DEF AllLive, CacheType
<1>8. memory[o] = "unused" => Fresh(t, o) /\ \A other \in Threads : call[other].obj # o
  <2>1. SUFFICES ASSUME memory[o] = "unused"
                 PROVE  Fresh(t, o) /\ \A other \in Threads : call[other].obj # o
    OBVIOUS
  <2>2. \A q \in Owned : pointer[q] # o
    BY <2>1 DEF AllLive
  <2>3. ASSUME NEW other \in Threads PROVE call[other].obj # o
    <3>1. CASE call[other].pc = "idle"
      BY <3>1 DEF RestSafe, Idle
    <3>2. CASE call[other].pc = "remove"
      BY <3>2, <2>1 DEF RemoveSafe
    <3>3. CASE call[other].pc \in {"ref", "add", "count"}
      BY <3>3, <2>1 DEF RefSafe
    <3>4. CASE call[other].pc \in {"found", "relock"}
      BY <3>4, <2>1 DEF LookupSafe
    <3>5. call[other].pc \in {"idle", "remove", "ref", "add", "count", "found", "relock"}
      BY <1>2 DEF Call
    <3> QED
      BY <3>1, <3>2, <3>3, <3>4, <3>5
  <2> QED
    BY <2>2, <2>3 DEF Fresh
<1>9. ASSUME NEW other \in Threads \ {t}, NEW x \in Objects, Fresh(other, x),
             call[other].obj = x
      PROVE  Fresh(other, x)'
  <2>1. o # x \/ pc = "relock"
    BY <1>8, <1>9 DEF Fresh, Has, Owned, Referenced
  <2> QED
    BY <1>3, <1>9, <2>1 DEF Fresh
<1>10. RefSafe'
  <2> SUFFICES ASSUME NEW other \in Threads,
                      call'[other].pc \in {"ref", "add", "count", "found"}
               PROVE  /\ call'[other].obj \in Objects /\ memory'[call'[other].obj] = "live"
                      /\ call'[other].to \in Owned /\ pointer'[call'[other].to] = None
                      /\ \A w \in Threads \ {other} : call'[w].to # call'[other].to
                      /\ Known(other, call[other].obj)'
    BY DEF RefSafe
  <2>1. CASE other = t
    <3>1. \A w \in Threads \ {t} : call'[w].to # p
      BY <1>3 DEF Empty
    <3>2. CASE pc = "found"
      <4>1. Referenced(o)'
        BY <3>2 DEF Referenced
      <4> QED
        BY <1>3, <1>4, <2>1, <3>1, <3>2, <4>1 DEF Empty, Known
    <3>3. CASE pc = "ref"
      <4>1. Has(t, o)' \/ Fresh(t, o)'
        BY <1>3, <1>8, <3>3 DEF Has, Fresh
      <4> QED
        BY <1>3, <1>4, <2>1, <3>1, <3>3, <4>1 DEF Empty, Known
    <3> QED
      BY <1>3, <2>1, <3>2, <3>3
  <2>2. CASE other # t
    <3> DEFINE x == call[other].obj
    <3>1. /\ x \in Objects /\ memory[x] = "live"
          /\ call[other].to \in Owned /\ pointer[call[other].to] = None
          /\ \A w \in Threads \ {other} : call[w].to # call[other].to
          /\ Known(other, x)
      BY <1>3, <2>2 DEF RefSafe
    <3>2. Known(other, call[other].obj)'
      BY <1>3, <1>9, <2>2, <3>1 DEF Has, Known, Referenced
    <3>3. \A w \in Threads \ {other} : call'[w].to # call[other].to
      BY <1>3, <3>1 DEF Empty
    <3> QED
      BY <1>3, <1>4, <2>2, <3>1, <3>2, <3>3
  <2> QED
    BY <2>1, <2>2
<1>11. RemoveSafe'
  BY <1>3, <1>4, <1>9 DEF RemoveSafe
<1>12. LookupSafe'
  <2> SUFFICES ASSUME NEW w \in Threads, call'[w].pc \in {"found", "relock"}
               PROVE  mutex' = w /\ call'[w].obj \in Objects /\ memory'[call'[w].obj] = "live"
    BY DEF LookupSafe
  <2>1. CASE w = t
    BY <1>3, <1>4, <2>1
  <2>2. CASE w # t
    <3>1. mutex = w /\ call[w].obj \in Objects /\ memory[call[w].obj] = "live"
      BY <1>3, <2>2 DEF LookupSafe
    <3> QED
      BY <1>3, <1>4, <2>2, <3>1
  <2> QED
    BY <2>1, <2>2
<1>13. RestSafe'
  BY <1>3 DEF RestSafe
<1>14. EntriesSound'
  <2> SUFFICES ASSUME NEW u \in Objects, cache_map[u] # None
               PROVE  /\ memory'[cache_map[u]] # "unused"
                      /\ subtrack # "new_uuid" =>
                           memory'[cache_map[u]] = "live" /\ uuid'[cache_map[u]] = u
    BY DEF EntriesSound
  <2>1. /\ cache_map[u] \in Objects /\ memory[cache_map[u]] # "unused"
        /\ subtrack # "new_uuid" =>
             memory[cache_map[u]] = "live" /\ uuid[cache_map[u]] = u
    BY DEF EntriesSound, CacheType
  <2>2. cache_map[u] = o => uuid' = uuid
    BY <2>1
  <2>3. memory'[cache_map[u]] # "unused"
    BY <1>2, <2>1
  <2> QED
    BY <1>4, <2>1, <2>2, <2>3
<1> QED
  BY <1>5, <1>6, <1>7, <1>10, <1>11, <1>12, <1>13, <1>14

(* Within ref(), before the count. *)
LEMMA RefGoesOn ==
  ASSUME RefInvariant, NEW t \in Threads, TestCount(t) \/ Add(t)
  PROVE  RefInvariant'
<1> USE NamesAssumption
<1> USE DEF RefInvariant
<1> DEFINE o == call[t].obj
<1>1. call \in [Threads -> Call]
  BY DEF CacheType
<1>2. call[t].pc \in {"ref", "add"}
  BY DEF TestCount, Add
<1>3. o \in Objects
  BY <1>2 DEF RefSafe
<1>4. PICK pc \in {"add", "count"} :
        call' = [call EXCEPT ![t] = [pc |-> pc, obj |-> o, to |-> call[t].to]]
  BY DEF TestCount, Add, Calls
<1>5. /\ subtrack' = subtrack /\ memory' = memory /\ uuid' = uuid
      /\ ref_count' = ref_count /\ pointer' = pointer /\ mutex' = mutex
  BY DEF TestCount, Add
<1>6. /\ call'[t] = [pc |-> pc, obj |-> o, to |-> call[t].to]
      /\ \A other \in Threads \ {t} : call'[other] = call[other]
  BY <1>1, <1>4
<1>7. \A w \in Threads : call'[w].to = call[w].to /\ call'[w].obj = call[w].obj
  BY <1>6
<1>8. CacheType'
  <2>1. call' \in [Threads -> Call]
    BY <1>1, <1>4 DEF Call
  <2>2. cache_map' \in [Objects -> Objects \cup {None}] /\ count' \in Int
    BY <1>3 DEF TestCount, Add, CacheType
  <2> QED
    BY <1>5, <2>1, <2>2 DEF CacheType
<1>9. Counted' /\ AllLive'
  BY <1>5 DEF Counted, PointersTo, AllLive
<1>10. \A w \in Threads, x \in Objects : /\ Has(w, x)' <=> Has(w, x)
                                      /\ Fresh(w, x) => Fresh(w, x)'
  BY <1>2, <1>5, <1>6, <1>7 DEF Has, Fresh
<1>11. \A w \in Threads : call'[w].pc = call[w].pc \/ w = t
  BY <1>6
<1>12. RefSafe'
  <2> SUFFICES ASSUME NEW w \in Threads,
                      call'[w].pc \in {"ref", "add", "count", "found"}
               PROVE  /\ call'[w].obj \in Objects /\ memory'[call'[w].obj] = "live"
                      /\ call'[w].to \in Owned /\ pointer'[call'[w].to] = None
                      /\ \A v \in Threads \ {w} : call'[v].to # call'[w].to
                      /\ Known(w, call[w].obj)'
    BY DEF RefSafe
  <2>1. call[w].pc \in {"ref", "add", "count", "found"}
    BY <1>2, <1>11
  <2>2. /\ call[w].obj \in Objects /\ memory[call[w].obj] = "live"
        /\ call[w].to \in Owned /\ pointer[call[w].to] = None
        /\ \A v \in Threads \ {w} : call[v].to # call[w].to
        /\ Known(w, call[w].obj)
    BY <2>1 DEF RefSafe
  <2>3. Known(w, call[w].obj)'
    <3>1. Referenced(call[w].obj) => Referenced(call[w].obj)'
      BY <1>5, <1>7 DEF Referenced
    <3>2. call'[w].pc = "found" <=> call[w].pc = "found"
      BY <1>2, <1>4, <1>6
    <3>3. Has(w, call[w].obj) => Has(w, call[w].obj)'
      BY <1>5, <1>7 DEF Has
    <3>4. Fresh(w, call[w].obj) => Fresh(w, call[w].obj)'
      BY <1>2, <1>5, <1>6, <1>7 DEF Fresh
    <3> QED
      BY <2>2, <3>1, <3>2, <3>3, <3>4 DEF Known
  <2> QED
    BY <1>5, <1>7, <2>2, <2>3
<1>13. RemoveSafe'
  <2> SUFFICES ASSUME NEW w \in Threads, call'[w].pc = "remove"
               PROVE  /\ call'[w].obj \in Objects /\ memory'[call'[w].obj] = "live"
                      /\ Fresh(w, call[w].obj)'
    BY DEF RemoveSafe
  <2>1. w # t /\ call'[w] = call[w]
    BY <1>4, <1>6
  <2>2. call[w].obj \in Objects /\ memory[call[w].obj] = "live" /\ Fresh(w, call[w].obj)
    BY <2>1 DEF RemoveSafe
  <2>3. Fresh(w, call[w].obj)'
    BY <1>2, <1>5, <1>6, <1>7, <2>2 DEF Fresh
  <2> QED
    BY <1>5, <2>1, <2>2, <2>3
<1>14. RestSafe'
  BY <1>6 DEF RestSafe
<1>15. LookupSafe'
  BY <1>4, <1>5, <1>6 DEF LookupSafe
<1>16. EntriesSound'
  <2>1. CASE TestCount(t)
    BY <1>5, <2>1 DEF TestCount, EntriesSound
  <2>2. CASE Add(t)
    <3>1. /\ cache_map' = [cache_map EXCEPT ![uuid[o]] = o] /\ memory[o] = "live"
          /\ cache_map \in [Objects -> Objects \cup {None}] /\ uuid[o] \in Objects
      BY <1>3, <2>2 DEF Add, RefSafe, CacheType
    <3> QED
      BY <1>5, <3>1 DEF EntriesSound
  <2> QED
    BY <2>1, <2>2
<1> QED
  BY <1>8, <1>9, <1>12, <1>13, <1>14, <1>15, <1>16

(* The pointer is there. *)
LEMMA RefEnds ==
  ASSUME RefInvariant, NEW t \in Threads, Count(t)
  PROVE  RefInvariant'
<1> USE NamesAssumption
<1> USE DEF RefInvariant
<1> DEFINE o == call[t].obj
           p == call[t].to
<1>1. /\ call[t].pc \in {"count", "found"} /\ subtrack' = subtrack /\ memory' = memory
      /\ cache_map' = cache_map /\ count' = count
      /\ ref_count' = [ref_count EXCEPT ![o] = @ + 1]
      /\ pointer' = [pointer EXCEPT ![p] = o]
      /\ call' = [call EXCEPT ![t] = [pc |-> "idle", obj |-> None, to |-> None]]
      /\ uuid' \in {uuid, [uuid EXCEPT ![o] = o]}
      /\ subtrack # "new_uuid" => uuid' = uuid
      /\ mutex' = IF call[t].pc = "found" THEN None ELSE mutex
  BY DEF Count, Returns, Idle
<1>2. /\ o \in Objects /\ memory[o] = "live" /\ p \in Owned /\ pointer[p] = None
      /\ \A other \in Threads \ {t} : call[other].to # p
  BY <1>1 DEF RefSafe
<1>3. /\ call \in [Threads -> Call] /\ uuid \in [Objects -> Objects]
      /\ pointer \in [Owned -> Objects \cup {None}]
  BY DEF CacheType
<1>4. Counted' /\ ref_count' \in [Objects -> Nat] /\ pointer' \in [Owned -> Objects \cup {None}]
  BY <1>1, <1>2, CountOneMore
<1>5. /\ call'[t] = Idle
      /\ \A other \in Threads \ {t} : call'[other] = call[other]
  BY <1>1, <1>3 DEF Idle
<1>6. /\ pointer'[p] = o
      /\ \A q \in Owned : q # p => pointer'[q] = pointer[q]
  BY <1>1, <1>2, <1>3
<1>7. CacheType'
  <2>1. call' \in [Threads -> Call]
    BY <1>1, <1>3 DEF Call
  <2>2. uuid' \in [Objects -> Objects]
    BY <1>1, <1>2, <1>3
  <2> QED
    BY <1>1, <1>4, <2>1, <2>2 DEF CacheType
<1>8. AllLive'
  BY <1>1, <1>2, <1>6 DEF AllLive
<1>9. ASSUME NEW other \in Threads \ {t}, NEW x \in Objects, call[other].obj = x
      PROVE  /\ Has(other, x) => Has(other, x)'
             /\ Fresh(other, x) => Fresh(other, x)'
  <2>1. Has(other, x) => Has(other, x)'
    BY <1>2, <1>6 DEF Has, Owned
  <2>2. ASSUME Fresh(other, x) PROVE Fresh(other, x)'
    <3>1. o # x
      BY <1>1, <2>2 DEF Fresh
    <3>2. \A q \in Owned : pointer'[q] # x
      BY <1>6, <2>2, <3>1 DEF Fresh
    <3>3. \A w \in Threads \ {other} : call'[w].obj = x => call'[w].pc = "relock"
      BY <1>5, <2>2 DEF Fresh, Idle
    <3> QED
      BY <3>2, <3>3 DEF Fresh
  <2> QED
    BY <2>1, <2>2
<1>10. RefSafe'
  <2> SUFFICES ASSUME NEW w \in Threads,
                      call'[w].pc \in {"ref", "add", "count", "found"}
               PROVE  /\ call'[w].obj \in Objects /\ memory'[call'[w].obj] = "live"
                      /\ call'[w].to \in Owned /\ pointer'[call'[w].to] = None
                      /\ \A v \in Threads \ {w} : call'[v].to # call'[w].to
                      /\ Known(w, call[w].obj)'
    BY DEF RefSafe
  <2>1. w # t /\ call'[w] = call[w]
    BY <1>5 DEF Idle
  <2>2. /\ call[w].obj \in Objects /\ memory[call[w].obj] = "live"
        /\ call[w].to \in Owned /\ pointer[call[w].to] = None
        /\ \A v \in Threads \ {w} : call[v].to # call[w].to
        /\ Known(w, call[w].obj)
    BY <2>1 DEF RefSafe
  <2>3. \A v \in Threads \ {w} : call'[v].to # call[w].to
    BY <1>5, <2>2 DEF Idle, Owned
  <2>4. pointer'[call[w].to] = None
    BY <1>2, <1>6, <2>1, <2>2
  <2>5. Known(w, call[w].obj)'
    <3>1. Referenced(call[w].obj) => Referenced(call[w].obj)'
      BY <1>2, <1>6, <2>1, <2>2 DEF Referenced
    <3> QED
      BY <1>9, <2>1, <2>2, <3>1 DEF Known
  <2> QED
    BY <1>1, <2>1, <2>2, <2>3, <2>4, <2>5
<1>11. RemoveSafe'
  BY <1>1, <1>5, <1>9 DEF RemoveSafe, Idle
<1>12. RestSafe'
  BY <1>5 DEF RestSafe, Idle
<1>13. LookupSafe'
  <2> SUFFICES ASSUME NEW w \in Threads, call'[w].pc \in {"found", "relock"}
               PROVE  mutex' = w /\ call'[w].obj \in Objects /\ memory'[call'[w].obj] = "live"
    BY DEF LookupSafe
  <2>1. w # t /\ call'[w] = call[w]
    BY <1>5 DEF Idle
  <2>2. mutex = w /\ (call[t].pc = "found" => mutex = t)
    BY <2>1 DEF LookupSafe
  <2> QED
    BY <1>1, <2>1, <2>2 DEF LookupSafe
<1>14. EntriesSound'
  BY <1>1 DEF EntriesSound
<1> QED
  BY <1>4, <1>7, <1>8, <1>10, <1>11, <1>12, <1>13, <1>14

(* A pointer is dropped. *)
LEMMA UnrefBegins ==
  ASSUME RefInvariant, NEW t \in Threads, NEW i \in Places, Drop(t, i),
         broken = "no", broken' = "no"
  PROVE  RefInvariant'
<1> USE NamesAssumption
<1> USE DEF RefInvariant
<1> DEFINE p == << t, i >>
           o == pointer[p]
<1>1. /\ call[t].pc = "idle" /\ o # None /\ subtrack' = subtrack /\ memory' = memory
      /\ uuid' = uuid /\ cache_map' = cache_map /\ count' = count
      /\ ref_count' = [ref_count EXCEPT ![o] = @ - 1]
      /\ pointer' = [pointer EXCEPT ![p] = None] /\ mutex' = mutex
      /\ ref_count[o] = 1 => ~Overtakes(o)
  BY DEF Drop
<1>2. p \in Owned
  BY DEF Owned
<1>3. /\ call \in [Threads -> Call] /\ pointer \in [Owned -> Objects \cup {None}]
      /\ o \in Objects /\ memory[o] = "live"
  BY <1>1, <1>2 DEF CacheType, AllLive
<1>4. Counted' /\ ref_count' \in [Objects -> Nat] /\ pointer' \in [Owned -> Objects \cup {None}]
  BY <1>1, <1>2, CountOneLess
<1>5. pointer'[p] = None /\ \A q \in Owned : q # p => pointer'[q] = pointer[q]
  BY <1>1, <1>2, <1>3
<1>6. \/ ref_count[o] # 1 /\ call' = call
      \/ ref_count[o] = 1
         /\ call' = [call EXCEPT ![t] = [pc |-> "remove", obj |-> o, to |-> None]]
  BY DEF Drop, Calls
<1>7. /\ \A other \in Threads \ {t} : call'[other] = call[other]
      /\ call'[t] = call[t] \/ call'[t] = [pc |-> "remove", obj |-> o, to |-> None]
  BY <1>3, <1>6
<1>8. CacheType'
  <2>1. call' \in [Threads -> Call]
    BY <1>3, <1>6 DEF Call
  <2> QED
    BY <1>1, <1>4, <2>1 DEF CacheType
<1>9. AllLive'
  BY <1>1, <1>5 DEF AllLive
<1>10. call[t] = Idle
  BY <1>1 DEF RestSafe
<1>11. ASSUME NEW other \in Threads \ {t}, NEW x \in Objects
       PROVE  /\ Has(other, x) => Has(other, x)'
              /\ Fresh(other, x) => Fresh(other, x)'
  <2>1. ASSUME Has(other, x) PROVE Has(other, x)'
    <3>1. PICK j \in Places : pointer[<< other, j >>] = x
      BY <2>1 DEF Has
    <3>2. << other, j >> \in Owned /\ << other, j >> # p
      BY DEF Owned
    <3> QED
      BY <1>5, <3>1, <3>2 DEF Has
  <2>2. ASSUME Fresh(other, x) PROVE Fresh(other, x)'
    <3>1. x # o
      BY <1>2, <2>2 DEF Fresh
    <3>2. \A q \in Owned : pointer'[q] # x
      BY <1>5, <2>2 DEF Fresh
    <3>3. \A w \in Threads \ {other} : call'[w].obj = x => call'[w].pc = "relock"
      BY <1>7, <2>2, <3>1 DEF Fresh
    <3> QED
      BY <3>2, <3>3 DEF Fresh
  <2> QED
    BY <2>1, <2>2
<1>12. RefSafe'
  <2> SUFFICES ASSUME NEW w \in Threads,
                      call'[w].pc \in {"ref", "add", "count", "found"}
               PROVE  /\ call'[w].obj \in Objects /\ memory'[call'[w].obj] = "live"
                      /\ call'[w].to \in Owned /\ pointer'[call'[w].to] = None
                      /\ \A v \in Threads \ {w} : call'[v].to # call'[w].to
                      /\ Known(w, call[w].obj)'
    BY DEF RefSafe
  <2>1. w # t /\ call'[w] = call[w]
    BY <1>1, <1>7
  <2>2. /\ call[w].obj \in Objects /\ memory[call[w].obj] = "live"
        /\ call[w].to \in Owned /\ pointer[call[w].to] = None
        /\ \A v \in Threads \ {w} : call[v].to # call[w].to
        /\ Known(w, call[w].obj)
    BY <2>1 DEF RefSafe
  <2>3. call[w].to # None
    BY <2>2 DEF Owned
  <2>4. \A v \in Threads \ {w} : call'[v].to # call[w].to
    BY <1>7, <1>10, <2>2 DEF Idle
  <2>5. pointer'[call[w].to] = None
    BY <1>5, <2>2
  <2>6. Known(w, call[w].obj)'
    <3>1. CASE call[w].pc = "found"
      <4>1. PICK q \in Owned : pointer[q] = call[w].obj
        BY <2>2, <3>1 DEF Known, Referenced
      <4>2. CASE call[w].obj = o
        <5>1. ref_count[o] # 1
          BY <1>1, <3>1, <4>2 DEF Overtakes
        <5>2. PICK r \in Owned : r # p /\ pointer[r] = o
          BY <1>2, <1>3, <5>1, AnotherPointer
        <5> QED
          BY <1>5, <2>1, <3>1, <4>2, <5>2 DEF Known, Referenced
      <4>3. CASE call[w].obj # o
        BY <1>5, <2>1, <3>1, <4>1, <4>3 DEF Known, Referenced
      <4> QED
        BY <4>2, <4>3
    <3>2. CASE call[w].pc # "found"
      BY <1>11, <2>1, <2>2, <3>2 DEF Known
    <3> QED
      BY <3>1, <3>2
  <2> QED
    BY <1>1, <2>1, <2>2, <2>4, <2>5, <2>6
<1>13. ASSUME ref_count[o] = 1 PROVE  /\ \A q \in Owned : pointer'[q] # o
              /\ \A w \in Threads \ {t} : call'[w].obj = o => call'[w].pc = "relock"
  <2>1. \A q \in Owned : pointer[q] = o => q = p
    BY <1>2, <1>3, <1>13, LastPointer
  <2>2. \A q \in Owned : pointer'[q] # o
    BY <1>3, <1>5, <2>1
  <2>3. ASSUME NEW w \in Threads \ {t}, call[w].obj = o, call[w].pc # "relock" PROVE FALSE
    <3>1. CASE call[w].pc \in {"ref", "add", "count"}
      <4>1. Has(w, o) \/ Fresh(w, o)
        BY <2>3, <3>1 DEF RefSafe, Known
      <4>2. ~Fresh(w, o)
        BY <1>2 DEF Fresh
      <4>3. PICK j \in Places : pointer[<< w, j >>] = o
        BY <4>1, <4>2 DEF Has
      <4>4. << w, j >> = p
        BY <2>1, <4>3 DEF Owned
      <4> QED
        BY <4>4
    <3>2. CASE call[w].pc = "remove"
      BY <1>2, <2>3, <3>2 DEF RemoveSafe, Fresh
    <3>3. CASE call[w].pc = "idle"
      BY <1>3, <2>3, <3>3 DEF RestSafe, Idle
    <3>4. CASE call[w].pc = "found"
      BY <1>1, <1>13, <2>3, <3>4 DEF Overtakes
    <3>5. call[w].pc \in {"idle", "ref", "add", "count", "found", "remove"}
      BY <1>3, <2>3 DEF Call
    <3> QED
      BY <3>1, <3>2, <3>3, <3>4, <3>5
  <2> QED
    BY <1>7, <2>2, <2>3
<1>14. RemoveSafe'
  <2> SUFFICES ASSUME NEW w \in Threads, call'[w].pc = "remove"
               PROVE  /\ call'[w].obj \in Objects /\ memory'[call'[w].obj] = "live"
                      /\ Fresh(w, call[w].obj)'
    BY DEF RemoveSafe
  <2>1. CASE w = t
    <3>1. ref_count[o] = 1 /\ call'[t].obj = o
      BY <1>1, <1>3, <1>6, <2>1
    <3>2. Fresh(w, call[w].obj)'
      BY <1>13, <2>1, <3>1 DEF Fresh
    <3> QED
      BY <1>1, <1>3, <2>1, <3>1, <3>2
  <2>2. CASE w # t
    BY <1>1, <1>7, <1>11, <2>2 DEF RemoveSafe
  <2> QED
    BY <2>1, <2>2
<1>15. RestSafe'
  BY <1>7 DEF RestSafe
<1>16. LookupSafe'
  BY <1>1, <1>7 DEF LookupSafe
<1>17. EntriesSound'
  BY <1>1 DEF EntriesSound
<1> QED
  BY <1>4, <1>8, <1>9, <1>12, <1>14, <1>15, <1>16, <1>17

(* The object is deleted. *)
LEMMA UnrefEnds ==
  ASSUME RefInvariant, NEW t \in Threads, Remove(t)
  PROVE  RefInvariant'
<1> USE NamesAssumption
<1> USE DEF RefInvariant
<1> DEFINE o == call[t].obj
<1>1. /\ call[t].pc = "remove" /\ subtrack' = subtrack /\ uuid' = uuid
      /\ ref_count' = ref_count /\ pointer' = pointer /\ count' = count - 1
      /\ cache_map' = [cache_map EXCEPT ![uuid[o]] = None]
      /\ memory' = [memory EXCEPT ![o] = "deleted"] /\ mutex = None /\ mutex' = mutex
      /\ call' = [call EXCEPT ![t] = [pc |-> "idle", obj |-> None, to |-> None]]
  BY DEF Remove, Returns, Idle, Unlocked
<1>2. o \in Objects /\ Fresh(t, o)
  BY <1>1 DEF RemoveSafe
<1>3. /\ call \in [Threads -> Call] /\ uuid \in [Objects -> Objects]
      /\ cache_map \in [Objects -> Objects \cup {None}]
      /\ memory \in [Objects -> {"unused", "live", "deleted"}]
  BY DEF CacheType
<1>4. /\ call'[t] = Idle
      /\ \A other \in Threads \ {t} : call'[other] = call[other]
  BY <1>1, <1>3 DEF Idle
<1>5. CacheType'
  <2>1. call' \in [Threads -> Call]
    BY <1>1, <1>3 DEF Call
  <2>2. /\ memory' \in [Objects -> {"unused", "live", "deleted"}]
        /\ cache_map' \in [Objects -> Objects \cup {None}]
    BY <1>1, <1>2, <1>3
  <2> QED
    BY <1>1, <2>1, <2>2 DEF CacheType
<1>6. Counted'
  BY <1>1 DEF Counted, PointersTo
<1>7. \A x \in Objects \ {o} : memory'[x] = memory[x]
  BY <1>1, <1>3
<1>8. AllLive'
  BY <1>1, <1>2, <1>7 DEF AllLive, Fresh, CacheType
<1>9. ASSUME NEW other \in Threads \ {t}, NEW x \in Objects
      PROVE  /\ Has(other, x) => Has(other, x)'
             /\ Fresh(other, x) => Fresh(other, x)'
  <2>1. Has(other, x) => Has(other, x)'
    BY <1>1 DEF Has
  <2>2. Fresh(other, x) => Fresh(other, x)'
    BY <1>1, <1>4 DEF Fresh, Idle
  <2> QED
    BY <2>1, <2>2
<1>10. \A w \in Threads \ {t} : call[w].obj # o
  BY <1>1, <1>2 DEF Fresh, LookupSafe
<1>11. RefSafe'
  <2> SUFFICES ASSUME NEW w \in Threads,
                      call'[w].pc \in {"ref", "add", "count", "found"}
               PROVE  /\ call'[w].obj \in Objects /\ memory'[call'[w].obj] = "live"
                      /\ call'[w].to \in Owned /\ pointer'[call'[w].to] = None
                      /\ \A v \in Threads \ {w} : call'[v].to # call'[w].to
                      /\ Known(w, call[w].obj)'
    BY DEF RefSafe
  <2>1. w # t /\ call'[w] = call[w]
    BY <1>4 DEF Idle
  <2>2. /\ call[w].obj \in Objects /\ memory[call[w].obj] = "live"
        /\ call[w].to \in Owned /\ pointer[call[w].to] = None
        /\ \A v \in Threads \ {w} : call[v].to # call[w].to
        /\ Known(w, call[w].obj)
    BY <2>1 DEF RefSafe
  <2>3. call[w].to # None
    BY <2>2 DEF Owned
  <2>4. \A v \in Threads \ {w} : call'[v].to # call[w].to
    BY <1>4, <2>2, <2>3 DEF Idle
  <2>5. memory'[call[w].obj] = "live"
    BY <1>7, <1>10, <2>1, <2>2
  <2>6. Known(w, call[w].obj)'
    BY <1>1, <1>9, <2>1, <2>2 DEF Known, Referenced
  <2> QED
    BY <1>1, <2>1, <2>2, <2>4, <2>5, <2>6
<1>12. RemoveSafe'
  <2> SUFFICES ASSUME NEW w \in Threads, call'[w].pc = "remove"
               PROVE  /\ call'[w].obj \in Objects /\ memory'[call'[w].obj] = "live"
                      /\ Fresh(w, call[w].obj)'
    BY DEF RemoveSafe
  <2>1. w # t /\ call'[w] = call[w]
    BY <1>4 DEF Idle
  <2> QED
    BY <1>7, <1>9, <1>10, <2>1 DEF RemoveSafe
<1>13. RestSafe'
  BY <1>4 DEF RestSafe, Idle
<1>14. LookupSafe'
  BY <1>1, <1>4 DEF LookupSafe, Idle
<1>15. EntriesSound'
  <2> SUFFICES ASSUME NEW u \in Objects, cache_map'[u] # None
               PROVE  /\ memory'[cache_map'[u]] # "unused"
                      /\ subtrack # "new_uuid" =>
                           memory'[cache_map'[u]] = "live" /\ uuid[cache_map'[u]] = u
    BY <1>1 DEF EntriesSound
  <2>1. u # uuid[o] /\ cache_map'[u] = cache_map[u]
    BY <1>1, <1>3
  <2>2. /\ cache_map[u] \in Objects /\ memory[cache_map[u]] # "unused"
        /\ subtrack # "new_uuid" =>
             memory[cache_map[u]] = "live" /\ uuid[cache_map[u]] = u
    BY <1>3, <2>1 DEF EntriesSound
  <2>3. subtrack # "new_uuid" => cache_map[u] # o
    BY <2>1, <2>2
  <2>4. memory'[cache_map[u]] # "unused"
    BY <1>1, <1>3, <2>2
  <2> QED
    BY <1>7, <2>1, <2>2, <2>3, <2>4
<1> QED
  BY <1>5, <1>6, <1>8, <1>11, <1>12, <1>13, <1>14, <1>15

LEMMA RefInvariantStep ==
  ASSUME RefInvariant, [Next]_vars, broken = "no", broken' = "no"
  PROVE  RefInvariant'
<1> USE NamesAssumption
<1>1. CASE UNCHANGED vars
  BY <1>1 DEF vars, RefInvariant, CacheType, Counted, PointersTo, AllLive, RefSafe, RemoveSafe,
              LookupSafe, RestSafe, EntriesSound, Known, Has, Fresh, Referenced
<1>2. ASSUME NEW t \in Threads, TestCount(t) \/ Add(t) \/ Count(t) \/ Remove(t)
      PROVE  RefInvariant'
  BY <1>2, RefGoesOn, RefEnds, UnrefEnds
<1>3. ASSUME NEW t \in Threads, NEW i \in Places, Drop(t, i) PROVE RefInvariant'
  BY <1>3, UnrefBegins
<1>4. \A t \in Threads, i \in Places : << t, i >> \in Owned
  BY DEF Owned
<1>5. /\ uuid \in [Objects -> Objects]
      /\ memory \in [Objects -> {"unused", "live", "deleted"}]
      /\ pointer \in [Owned -> Objects \cup {None}]
      /\ cache_map \in [Objects -> Objects \cup {None}]
  BY DEF RefInvariant, CacheType
<1>6. \A t \in Threads, o \in Objects : Has(t, o) => memory[o] = "live"
  BY <1>4 DEF RefInvariant, AllLive, Has
<1>7. ASSUME NEW t \in Threads, NEW o \in Objects, NEW i \in Places, New(t, o, i)
      PROVE  RefInvariant'
  BY <1>4, <1>5, <1>7, RefBegins DEF New
<1>8. ASSUME NEW t \in Threads, NEW o \in Objects, NEW i \in Places,
             NEW original \in Objects, Subtrack(t, o, i, original)
      PROVE  RefInvariant'
  <2>1. uuid' \in [Objects -> Objects] /\ \A x \in Objects \ {o} : uuid'[x] = uuid[x]
    BY <1>5, <1>8 DEF Subtrack
  <2> QED
    BY <1>4, <1>8, <2>1, RefBegins DEF Subtrack
<1>9. ASSUME NEW t \in Threads, NEW o \in Objects, NEW p \in Owned, Copy(t, o, p)
      PROVE  RefInvariant'
  <2>1. Has(t, o) /\ memory[o] = "live" /\ memory' = memory
    BY <1>6, <1>9 DEF Copy
  <2>2. memory' = [memory EXCEPT ![o] = "live"]
    BY <1>5, <2>1
  <2> QED
    BY <1>5, <1>9, <2>1, <2>2, RefBegins DEF Copy
<1>10. ASSUME NEW t \in Threads, NEW u \in Objects, NEW i \in Places, Lookup(t, u, i)
       PROVE  RefInvariant'
  <2> DEFINE o == cache_map[u]
  <2>1. o \in Objects /\ memory[o] = "live"
    BY <1>5, <1>10 DEF Lookup, RefInvariant, EntriesSound
  <2>2. memory' = [memory EXCEPT ![o] = "live"]
    BY <1>5, <1>10, <2>1 DEF Lookup
  <2>3. PICK pc \in {"found", "relock"} :
          Calls(t, pc, o, << t, i >>) /\ (pc = "found" => ref_count[o] # 0)
    BY <1>10 DEF Lookup
  <2>4. pc = "found" => Referenced(o)
    BY <2>1, <2>3, CountIsZero DEF RefInvariant, Referenced
  <2> QED
    BY <1>4, <1>5, <1>10, <2>1, <2>2, <2>3, <2>4, RefBegins DEF Lookup, Unlocked
<1> QED
  BY <1>1, <1>2, <1>3, <1>7, <1>8, <1>9, <1>10 DEF Next

LEMMA UnlessBrokenStep ==
  ASSUME UnlessBroken, [Next]_vars PROVE UnlessBroken'
<1>1. subtrack' = subtrack
      /\ \/ broken' = broken
         \/ broken = "no" /\ broken' = "overtaken"
         \/ broken = "no" /\ broken' = "left_behind"
            /\ \E u \in Objects : cache_map[u] # None /\ memory[cache_map[u]] = "deleted"
  <2>1. CASE UNCHANGED vars
    BY <2>1 DEF vars
  <2>2. ASSUME NEW t \in Threads, NEW o \in Objects, NEW i \in Places, NEW p,
               NEW original,
               \/ TestCount(t) \/ Add(t) \/ Count(t) \/ Remove(t) \/ New(t, o, i)
               \/ Subtrack(t, o, i, original) \/ Copy(t, o, p)
        PROVE  subtrack' = subtrack /\ broken' = broken
    BY <2>2 DEF TestCount, Add, Count, Remove, New, Subtrack, Copy
  <2>3. ASSUME NEW t \in Threads, NEW i \in Places, Drop(t, i)
        PROVE  subtrack' = subtrack
               /\ (broken' # broken => broken = "no" /\ broken' = "overtaken")
    BY <2>3 DEF Drop
  <2>4. ASSUME NEW t \in Threads, NEW u \in Objects, NEW i \in Places, Lookup(t, u, i)
        PROVE  subtrack' = subtrack
               /\ \/ broken' = broken
                  \/ /\ broken = "no" /\ broken' = "left_behind"
                     /\ cache_map[u] # None /\ memory[cache_map[u]] = "deleted"
    BY <2>4 DEF Lookup
  <2>5. ASSUME NEW t \in Threads, TestCount(t) \/ Add(t) \/ Count(t) \/ Remove(t)
        PROVE  subtrack' = subtrack /\ broken' = broken
    BY <2>5 DEF TestCount, Add, Count, Remove
  <2>6. ASSUME NEW t \in Threads, NEW o \in Objects, NEW p \in Owned, Copy(t, o, p)
        PROVE  subtrack' = subtrack /\ broken' = broken
    BY <2>6 DEF Copy
  <2> QED
    BY <2>1, <2>2, <2>3, <2>4, <2>5, <2>6 DEF Next
<1>2. broken' = "no" => RefInvariant'
  <2> SUFFICES ASSUME broken' = "no" PROVE RefInvariant'
    OBVIOUS
  <2>1. broken = "no"
    BY <1>1
  <2> QED
    BY <2>1, RefInvariantStep DEF UnlessBroken
<1>3. broken' = "left_behind" => subtrack = "new_uuid"
  <2> SUFFICES ASSUME broken' = "left_behind" PROVE subtrack = "new_uuid"
    OBVIOUS
  <2>1. CASE broken = "left_behind"
    BY <2>1 DEF UnlessBroken
  <2>2. CASE broken # "left_behind"
    BY <1>1, <2>2 DEF UnlessBroken, RefInvariant, EntriesSound
  <2> QED
    BY <2>1, <2>2
<1> QED
  BY <1>1, <1>2, <1>3 DEF UnlessBroken

(* Although the count is changed outside of the mutex of the cache, and    *)
(* any thread looks up any object: freed memory is used only after the     *)
(* last pointer was dropped while a lookup had found its object, or, where *)
(* subtracks change their UUID, after a lookup of an entry left behind.    *)
THEOREM PointersStayLive == Spec => []PointersLive
<1>1. Init => UnlessBroken
  BY RefInvariantInit DEF Init, UnlessBroken
<1>2. UnlessBroken /\ [Next]_vars => UnlessBroken'
  BY UnlessBrokenStep
<1>3. UnlessBroken => PointersLive
  <2> SUFFICES ASSUME UnlessBroken PROVE PointersLive
    OBVIOUS
  <2>1. ASSUME broken = "no" PROVE Intact
    <3>1. RefInvariant
      BY <2>1 DEF UnlessBroken
    <3>2. ASSUME NEW t \in Threads, call[t].obj # None PROVE memory[call[t].obj] = "live"
      <4>1. call[t].pc \in {"idle", "remove", "ref", "add", "count", "found", "relock"}
        BY <3>1 DEF RefInvariant, CacheType, Call
      <4>2. call[t].pc # "idle"
        BY <3>1, <3>2 DEF RefInvariant, RestSafe, Idle
      <4> QED
        BY <3>1, <4>1, <4>2 DEF RefInvariant, RefSafe, RemoveSafe, LookupSafe
    <3> QED
      BY <3>1, <3>2 DEF RefInvariant, AllLive, Intact
  <2> QED
    BY <2>1 DEF PointersLive, UnlessBroken
<1> QED
  BY <1>1, <1>2, <1>3, PTL DEF Spec

-----------------------------------------------------------------------------
(* The cache.                                                              *)

Entries == {o \in Objects : Entry(o)}

LEMMA EntriesFinite == IsFiniteSet(Entries)
<1>1. Entries \subseteq Objects
  BY DEF Entries
<1> QED
  BY <1>1, NamesAssumption, FS_Subset

(* What somebody points to is counted, and what nobody points to is known  *)
(* to one thread in ref() or unref() only.                                 *)
LEMMA KnownBy ==
  ASSUME RefInvariant, NEW o \in Objects
  PROVE  /\ ref_count[o] = 0 <=> ~Referenced(o)
         /\ \A t \in Threads : Has(t, o) => Referenced(o)
         /\ \A t \in Threads : Fresh(t, o) => ~Referenced(o)
<1>1. \A t \in Threads, i \in Places : << t, i >> \in Owned
  BY DEF Owned
<1> QED
  BY <1>1, CountIsZero DEF RefInvariant, Referenced, Has, Fresh

LEMMA CacheInvariantInit == Init => CacheInvariant
<1> SUFFICES ASSUME Init PROVE EntriesOwn
  BY DEF CacheInvariant
<1> USE NamesAssumption
<1>1. \A o \in Objects : ~Entry(o) /\ cache_map[o] = None
  BY DEF Init, Entry
<1>2. \A o \in Objects : ~Referenced(o)
  BY DEF Init, Referenced
<1>3. Entries = {}
  BY <1>1 DEF Entries
<1>4. count = Cardinality({o \in Objects : Entry(o)})
  BY <1>3, FS_EmptySet DEF Init, Entries
<1>5. \A t \in Threads : call[t].pc = "idle"
  BY DEF Init, Idle
<1>6. uuid = [o \in Objects |-> o]
  BY DEF Init
<1> QED
  BY <1>1, <1>2, <1>4, <1>5, <1>6 DEF EntriesOwn

(* ref() begins. *)
LEMMA EntriesWhenRefBegins ==
  ASSUME RefInvariant, EntriesOwn,
         NEW t \in Threads, NEW o \in Objects, NEW p, NEW pc \in {"ref", "found", "relock"}, call[t].pc = "idle",
         Calls(t, pc, o, p), pointer' = pointer, ref_count' = ref_count, uuid' = uuid,
         cache_map' = cache_map, count' = count,
         \A x \in Objects : memory[x] = "live" => memory'[x] = "live",
         pc = "found" => Entry(o),
         pc = "ref" => Has(t, o) \/ memory[o] = "unused"
  PROVE  EntriesOwn'
<1> USE NamesAssumption
<1>1. /\ call'[t].pc = pc /\ call'[t].obj = o
      /\ \A other \in Threads \ {t} : call'[other] = call[other]
  BY DEF Calls, RefInvariant, CacheType
<1>2. \A x : Entry(x)' <=> Entry(x)
  BY DEF Entry
<1>3. \A x : Referenced(x)' <=> Referenced(x)
  BY DEF Referenced
<1>4. /\ pc = "found" => Entry(o)
      /\ pc = "ref" /\ ref_count[o] = 0 => ~Entry(o)
  BY KnownBy DEF EntriesOwn
<1>5. ASSUME NEW w \in Threads
      PROVE  /\ call'[w].pc \in {"count", "found", "remove"} => Entry(call[w].obj)'
             /\ call'[w].pc = "add" => ~Entry(call[w].obj)'
             /\ call'[w].pc = "ref" /\ ref_count'[call'[w].obj] = 0 => ~Entry(call[w].obj)'
  <2>1. CASE w = t
    BY <1>1, <1>4, <2>1 DEF Entry
  <2>2. CASE w # t
    BY <1>1, <2>2 DEF EntriesOwn, Entry
  <2> QED
    BY <2>1, <2>2
<1>6. {x \in Objects : Entry(x)}' = {x \in Objects : Entry(x)}
  BY DEF Entry
<1>7. \A x \in Objects : Entry(x)' => memory'[x] = "live"
  BY <1>2 DEF EntriesOwn
<1>8. \A x \in Objects : Referenced(x)' => Entry(x)'
  BY <1>2, <1>3 DEF EntriesOwn
<1>9. \A x \in Objects : Entry(x)' => Referenced(x)' \/ AtItsEdge(x)'
  BY <1>1, <1>2, <1>3 DEF EntriesOwn, AtItsEdge
<1> QED
  BY <1>5, <1>6, <1>7, <1>8, <1>9 DEF EntriesOwn

(* if( !ref_count_ ) *)
LEMMA EntriesWhenTested ==
  ASSUME RefInvariant, EntriesOwn, NEW t \in Threads, TestCount(t)
  PROVE  EntriesOwn'
<1> USE NamesAssumption
<1> DEFINE o == call[t].obj
<1>1. call[t].pc = "ref" /\ o \in Objects
  BY DEF TestCount, RefInvariant, RefSafe
<1>2. /\ call'[t].pc = IF ref_count[o] = 0 THEN "add" ELSE "count"
      /\ call'[t].obj = o
      /\ \A other \in Threads \ {t} : call'[other] = call[other]
      /\ memory' = memory /\ uuid' = uuid /\ ref_count' = ref_count
      /\ cache_map' = cache_map /\ count' = count /\ pointer' = pointer
  BY DEF TestCount, Calls, RefInvariant, CacheType
<1>3. /\ ref_count[o] = 0 => ~Entry(o)
      /\ ref_count[o] # 0 => Entry(o)
  BY <1>1, KnownBy DEF EntriesOwn
<1>4. ASSUME NEW w \in Threads
      PROVE  /\ call'[w].pc \in {"count", "found", "remove"} => Entry(call[w].obj)'
             /\ call'[w].pc = "add" => ~Entry(call[w].obj)'
             /\ call'[w].pc = "ref" /\ ref_count'[call'[w].obj] = 0 => ~Entry(call[w].obj)'
  <2>1. CASE w = t
    BY <1>2, <1>3, <2>1 DEF Entry
  <2>2. CASE w # t
    BY <1>2, <2>2 DEF EntriesOwn, Entry
  <2> QED
    BY <2>1, <2>2
<1>5. \A x \in Objects : Entry(x)' => Referenced(x)' \/ AtItsEdge(x)'
  BY <1>1, <1>2 DEF EntriesOwn, AtItsEdge, Entry, Referenced
<1> QED
  BY <1>2, <1>4, <1>5 DEF EntriesOwn, Entry, Referenced

(* add() *)
LEMMA EntriesWhenAdded ==
  ASSUME RefInvariant, EntriesOwn, NEW t \in Threads, Add(t)
  PROVE  EntriesOwn'
<1> USE NamesAssumption
<1> DEFINE o == call[t].obj
<1>1. call[t].pc = "add" /\ o \in Objects /\ memory[o] = "live" /\ (Has(t, o) \/ Fresh(t, o))
  BY DEF Add, RefInvariant, RefSafe, Known
<1>2. ~Entry(o) /\ uuid[o] = o
  BY <1>1 DEF EntriesOwn
<1>3. Fresh(t, o)
  BY <1>1, <1>2, KnownBy DEF EntriesOwn
<1>4. /\ call'[t].pc = "count" /\ call'[t].obj = o
      /\ \A other \in Threads \ {t} : call'[other] = call[other]
      /\ memory' = memory /\ uuid' = uuid /\ ref_count' = ref_count
      /\ count' = count + 1 /\ pointer' = pointer
      /\ cache_map' = [cache_map EXCEPT ![o] = o]
  BY <1>2 DEF Add, Calls, RefInvariant, CacheType
<1>5. /\ cache_map'[o] = o
      /\ \A x \in Objects \ {o} : cache_map'[x] = cache_map[x] /\ (Entry(x)' <=> Entry(x))
  BY <1>1, <1>4 DEF Entry, RefInvariant, CacheType
<1>6. ASSUME NEW w \in Threads
      PROVE  /\ call'[w].pc \in {"count", "found", "remove"} => Entry(call[w].obj)'
             /\ call'[w].pc = "add" => ~Entry(call[w].obj)'
             /\ call'[w].pc = "ref" /\ ref_count'[call'[w].obj] = 0 => ~Entry(call[w].obj)'
  <2>1. CASE w = t
    BY <1>4, <1>5, <2>1 DEF Entry
  <2>2. CASE w # t
    <3>1. call'[w] = call[w] /\ (call[w].pc # "relock" => call[w].obj # o)
      BY <1>3, <1>4, <2>2 DEF Fresh
    <3>2. call[w].pc \in {"count", "found", "remove", "add", "ref"} => call[w].obj \in Objects
      BY DEF RefInvariant, RefSafe, RemoveSafe
    <3> QED
      BY <1>4, <1>5, <3>1, <3>2 DEF EntriesOwn, Entry
  <2> QED
    BY <2>1, <2>2
<1>7. count' = Cardinality({x \in Objects : Entry(x)})'
  <2>1. Entries' = Entries \cup {o} /\ o \notin Entries
    <3>1. \A x \in Objects : Entry(x)' <=> (Entry(x) \/ x = o)
      BY <1>5 DEF Entry
    <3>2. Entries' = {x \in Objects : Entry(x)'}
      BY DEF Entries
    <3> QED
      BY <1>1, <1>2, <3>1, <3>2 DEF Entries
  <2>2. Cardinality(Entries') = Cardinality(Entries) + 1
    BY <2>1, EntriesFinite, FS_AddElement
  <2> QED
    BY <1>4, <2>2 DEF Entries, EntriesOwn
<1>8. \A x \in Objects : /\ cache_map'[x] \in {x, None}
                         /\ Entry(x)' => memory'[x] = "live"
                         /\ Referenced(x)' => Entry(x)'
  BY <1>1, <1>4, <1>5 DEF EntriesOwn, Referenced
<1>9. uuid' = [x \in Objects |-> x]
  BY <1>4 DEF EntriesOwn
<1>10. ASSUME NEW x \in Objects, Entry(x)' PROVE Referenced(x)' \/ AtItsEdge(x)'
  <2>1. CASE x = o
    BY <1>4, <2>1 DEF AtItsEdge
  <2>2. CASE x # o
    <3>1. Referenced(x) \/ AtItsEdge(x)
      BY <1>5, <1>10, <2>2 DEF EntriesOwn
    <3>2. Referenced(x) => Referenced(x)'
      BY <1>4 DEF Referenced
    <3>3. AtItsEdge(x) => AtItsEdge(x)'
      BY <1>1, <1>4, <2>2 DEF AtItsEdge
    <3> QED
      BY <3>1, <3>2, <3>3
  <2> QED
    BY <2>1, <2>2
<1> QED
  BY <1>6, <1>7, <1>8, <1>9, <1>10 DEF EntriesOwn

(* ++ref_count_ *)
LEMMA EntriesWhenCounted ==
  ASSUME RefInvariant, EntriesOwn, subtrack = "never",
         NEW t \in Threads, Count(t)
  PROVE  EntriesOwn'
<1> USE NamesAssumption
<1> DEFINE o == call[t].obj
<1>1. call[t].pc \in {"count", "found"} /\ o \in Objects /\ call[t].to \in Owned
  BY DEF Count, RefInvariant, RefSafe
<1>2. Entry(o)
  BY <1>1 DEF EntriesOwn
<1>3. /\ call'[t].pc = "idle"
      /\ \A other \in Threads \ {t} : call'[other] = call[other]
      /\ memory' = memory /\ uuid' = uuid /\ cache_map' = cache_map /\ count' = count
      /\ pointer' = [pointer EXCEPT ![call[t].to] = o]
      /\ ref_count' = [ref_count EXCEPT ![o] = @ + 1]
  BY DEF Count, Returns, Idle, RefInvariant, CacheType
<1>4. \A x \in Objects : ref_count'[x] = 0 => ref_count[x] = 0
  BY <1>1, <1>3 DEF RefInvariant, CacheType
<1>5. \A x \in Objects : Referenced(x)' => Entry(x)
  BY <1>2, <1>3 DEF EntriesOwn, Referenced, RefInvariant, CacheType
<1>6. ASSUME NEW w \in Threads
      PROVE  /\ call'[w].pc \in {"count", "found", "remove"} => Entry(call[w].obj)'
             /\ call'[w].pc = "add" => ~Entry(call[w].obj)'
             /\ call'[w].pc = "ref" /\ ref_count'[call'[w].obj] = 0 => ~Entry(call[w].obj)'
  <2>1. CASE w = t
    BY <1>3, <2>1
  <2>2. CASE w # t
    <3>1. call[w].pc = "ref" => call[w].obj \in Objects
      BY DEF RefInvariant, RefSafe
    <3> QED
      BY <1>3, <1>4, <2>2, <3>1 DEF EntriesOwn, Entry
  <2> QED
    BY <2>1, <2>2
<1>7. ASSUME NEW x \in Objects, Entry(x) PROVE Referenced(x)' \/ AtItsEdge(x)'
  <2>1. CASE x = o
    BY <1>1, <1>3, <2>1 DEF Referenced, RefInvariant, CacheType
  <2>2. CASE x # o
    <3>1. Referenced(x) => Referenced(x)'
      <4>1. pointer[call[t].to] = None
        BY <1>1 DEF RefInvariant, RefSafe
      <4> QED
        BY <1>3, <4>1 DEF Referenced, RefInvariant, CacheType
    <3>2. AtItsEdge(x) => AtItsEdge(x)'
      BY <1>3, <2>2 DEF AtItsEdge
    <3> QED
      BY <1>7, <3>1, <3>2 DEF EntriesOwn
  <2> QED
    BY <2>1, <2>2
<1> QED
  BY <1>3, <1>5, <1>6, <1>7 DEF EntriesOwn, Entry

(* --ref_count_ *)
LEMMA EntriesWhenDropped ==
  ASSUME RefInvariant, EntriesOwn, NEW t \in Threads, NEW i \in Places, Drop(t, i)
  PROVE  EntriesOwn'
<1> USE NamesAssumption
<1> DEFINE p == << t, i >>
           o == pointer[p]
<1>1. p \in Owned /\ o \in Objects /\ Entry(o) /\ Referenced(o)
  BY DEF Drop, Owned, Referenced, EntriesOwn, RefInvariant, CacheType
<1>2. /\ memory' = memory /\ uuid' = uuid /\ cache_map' = cache_map /\ count' = count
      /\ pointer' = [pointer EXCEPT ![p] = None]
      /\ ref_count' = [ref_count EXCEPT ![o] = @ - 1]
      /\ call[t].pc = "idle"
  BY DEF Drop
<1>3. /\ \A other \in Threads \ {t} : call'[other] = call[other]
      /\ \/ call'[t] = call[t]
         \/ call'[t].pc = "remove" /\ call'[t].obj = o
  <2>1. \/ call' = call
        \/ call' = [call EXCEPT ![t] = [pc |-> "remove", obj |-> o, to |-> None]]
    BY DEF Drop, Calls
  <2>2. call \in [Threads -> Call]
    BY DEF RefInvariant, CacheType
  <2> QED
    BY <2>1, <2>2
<1>4. \A x \in Objects : Referenced(x)' => Referenced(x)
  BY <1>1, <1>2 DEF Referenced, RefInvariant, CacheType
<1>5. ASSUME NEW w \in Threads \ {t}, call[w].pc = "ref", ref_count'[call[w].obj] = 0
      PROVE  ~Entry(call[w].obj)
  <2>1. call[w].obj \in Objects /\ (Has(w, call[w].obj) \/ Fresh(w, call[w].obj))
    BY <1>5 DEF RefInvariant, RefSafe, Known
  <2>2. CASE call[w].obj # o
    <3>1. ref_count[call[w].obj] = 0
      BY <1>2, <1>5, <2>1, <2>2 DEF RefInvariant, CacheType
    <3> QED
      BY <1>5, <3>1 DEF EntriesOwn
  <2>3. CASE call[w].obj = o
    <3>1. PICK j \in Places : pointer[<< w, j >>] = o
      BY <1>1, <2>1, <2>3, KnownBy DEF Has
    <3>2. ref_count[o] = 1
      BY <1>1, <1>2, <1>5, <2>3 DEF RefInvariant, CacheType
    <3>3. << w, j >> = p
      BY <1>1, <3>1, <3>2, LastPointer DEF RefInvariant, Owned
    <3> QED
      BY <3>3
  <2> QED
    BY <2>2, <2>3
<1>6. ASSUME NEW w \in Threads
      PROVE  /\ call'[w].pc \in {"count", "found", "remove"} => Entry(call[w].obj)'
             /\ call'[w].pc = "add" => ~Entry(call[w].obj)'
             /\ call'[w].pc = "ref" /\ ref_count'[call'[w].obj] = 0 => ~Entry(call[w].obj)'
  <2>1. CASE w = t
    BY <1>1, <1>2, <1>3, <2>1 DEF Entry
  <2>2. CASE w # t
    BY <1>2, <1>3, <1>5, <2>2 DEF EntriesOwn, Entry
  <2> QED
    BY <2>1, <2>2
<1>7. ASSUME NEW x \in Objects, Entry(x) PROVE Referenced(x)' \/ AtItsEdge(x)'
  <2>1. CASE x = o
    <3>1. CASE ref_count[o] = 1
      <4>1. call' = [call EXCEPT ![t] = [pc |-> "remove", obj |-> o, to |-> None]]
        BY <3>1 DEF Drop, Calls
      <4>2. call'[t].pc = "remove" /\ call'[t].obj = o
        BY <4>1 DEF RefInvariant, CacheType
      <4> QED
        BY <2>1, <4>2 DEF AtItsEdge
    <3>2. CASE ref_count[o] # 1
      <4>1. PICK q \in Owned : q # p /\ pointer[q] = o
        BY <1>1, <3>2, AnotherPointer DEF RefInvariant
      <4>2. pointer'[q] = o
        BY <1>2, <4>1 DEF RefInvariant, CacheType
      <4> QED
        BY <2>1, <4>2 DEF Referenced
    <3> QED
      BY <3>1, <3>2
  <2>2. CASE x # o
    <3>1. Referenced(x) => Referenced(x)'
      BY <1>1, <1>2, <2>2 DEF Referenced, RefInvariant, CacheType
    <3>2. AtItsEdge(x) => AtItsEdge(x)'
      BY <1>2, <1>3 DEF AtItsEdge
    <3> QED
      BY <1>7, <3>1, <3>2 DEF EntriesOwn
  <2> QED
    BY <2>1, <2>2
<1> QED
  BY <1>2, <1>4, <1>6, <1>7 DEF EntriesOwn, Entry

(* remove() *)
LEMMA EntriesWhenRemoved ==
  ASSUME RefInvariant, EntriesOwn, NEW t \in Threads, Remove(t)
  PROVE  EntriesOwn'
<1> USE NamesAssumption
<1> DEFINE o == call[t].obj
<1>1. call[t].pc = "remove" /\ o \in Objects /\ Fresh(t, o) /\ ~Referenced(o)
  BY KnownBy DEF Remove, RefInvariant, RemoveSafe
<1>2. Entry(o) /\ uuid[o] = o
  BY <1>1 DEF EntriesOwn
<1>3. /\ call'[t].pc = "idle"
      /\ \A other \in Threads \ {t} : call'[other] = call[other]
      /\ uuid' = uuid /\ ref_count' = ref_count /\ count' = count - 1 /\ pointer' = pointer
      /\ cache_map' = [cache_map EXCEPT ![o] = None]
      /\ memory' = [memory EXCEPT ![o] = "deleted"]
  BY <1>2 DEF Remove, Returns, Idle, RefInvariant, CacheType
<1>4. /\ cache_map'[o] = None
      /\ \A x \in Objects \ {o} : /\ cache_map'[x] = cache_map[x] /\ memory'[x] = memory[x]
                                  /\ Entry(x)' <=> Entry(x)
  <2>1. /\ memory \in [Objects -> {"unused", "live", "deleted"}]
        /\ cache_map \in [Objects -> Objects \cup {None}]
    BY DEF RefInvariant, CacheType
  <2>2. cache_map'[o] = None /\ None # o
    BY <1>1, <1>3, <2>1
  <2>3. \A x \in Objects \ {o} : cache_map'[x] = cache_map[x] /\ memory'[x] = memory[x]
    BY <1>3, <2>1
  <2> QED
    BY <2>2, <2>3 DEF Entry
<1>5. ASSUME NEW w \in Threads
      PROVE  /\ call'[w].pc \in {"count", "found", "remove"} => Entry(call[w].obj)'
             /\ call'[w].pc = "add" => ~Entry(call[w].obj)'
             /\ call'[w].pc = "ref" /\ ref_count'[call'[w].obj] = 0 => ~Entry(call[w].obj)'
  <2>1. CASE w = t
    BY <1>3, <2>1
  <2>2. CASE w # t
    <3>1. call'[w] = call[w] /\ (call[w].pc # "relock" => call[w].obj # o)
      BY <1>1, <1>3, <2>2 DEF Fresh
    <3>2. call[w].pc \in {"count", "found", "remove", "add", "ref"} => call[w].obj \in Objects
      BY DEF RefInvariant, RefSafe, RemoveSafe
    <3> QED
      BY <1>3, <1>4, <3>1, <3>2 DEF EntriesOwn, Entry
  <2> QED
    BY <2>1, <2>2
<1>6. count' = Cardinality({x \in Objects : Entry(x)})'
  <2>1. Entries' = Entries \ {o} /\ o \in Entries
    <3>1. ASSUME NEW x \in Objects PROVE Entry(x)' <=> (Entry(x) /\ x # o)
      <4>1. CASE x = o
        BY <1>1, <1>4, <4>1 DEF Entry
      <4>2. CASE x # o
        BY <1>4, <4>2
      <4> QED
        BY <4>1, <4>2
    <3>2. Entries' = {x \in Objects : Entry(x)'}
      BY DEF Entries
    <3> QED
      BY <1>1, <1>2, <3>1, <3>2 DEF Entries
  <2>2. Cardinality(Entries') = Cardinality(Entries) - 1
    BY <2>1, EntriesFinite, FS_RemoveElement
  <2> QED
    BY <1>3, <2>2 DEF Entries, EntriesOwn
<1>7. \A x \in Objects : /\ cache_map'[x] \in {x, None}
                         /\ Entry(x)' => memory'[x] = "live"
                         /\ Referenced(x)' => Entry(x)'
  <2>1. ASSUME NEW x \in Objects PROVE Referenced(x)' => Referenced(x) /\ x # o
    BY <1>1, <1>3 DEF Referenced
  <2>2. ASSUME NEW x \in Objects PROVE Entry(x)' => memory'[x] = "live"
    BY <1>1, <1>4 DEF EntriesOwn, Entry
  <2>3. ASSUME NEW x \in Objects PROVE cache_map'[x] \in {x, None}
    BY <1>1, <1>4 DEF EntriesOwn
  <2>4. ASSUME NEW x \in Objects, Referenced(x)' PROVE Entry(x)'
    BY <1>4, <2>1, <2>4 DEF EntriesOwn
  <2> QED
    BY <2>2, <2>3, <2>4
<1>8. uuid' = [x \in Objects |-> x]
  BY <1>3 DEF EntriesOwn
<1>9. ASSUME NEW x \in Objects, Entry(x)' PROVE Referenced(x)' \/ AtItsEdge(x)'
  <2>1. x # o /\ Entry(x)
    BY <1>1, <1>4, <1>9, NamesAssumption DEF Entry
  <2>2. Referenced(x) => Referenced(x)'
    BY <1>3 DEF Referenced
  <2>3. AtItsEdge(x) => AtItsEdge(x)'
    BY <1>3, <2>1 DEF AtItsEdge
  <2> QED
    BY <2>1, <2>2, <2>3 DEF EntriesOwn
<1> QED
  BY <1>5, <1>6, <1>7, <1>8, <1>9 DEF EntriesOwn

LEMMA CacheInvariantStep ==
  ASSUME UnlessBroken, CacheInvariant, [Next]_vars
  PROVE  CacheInvariant'
<1> USE NamesAssumption
<1>1. subtrack' = subtrack /\ (broken' = "no" => broken = "no")
  <2>1. CASE UNCHANGED vars
    BY <2>1 DEF vars
  <2>2. ASSUME NEW t \in Threads, TestCount(t) \/ Add(t) \/ Count(t) \/ Remove(t)
        PROVE  subtrack' = subtrack /\ broken' = broken
    BY <2>2 DEF TestCount, Add, Count, Remove
  <2>3. ASSUME NEW t \in Threads, NEW o, NEW i, NEW p, NEW original,
               \/ Drop(t, i) \/ New(t, o, i) \/ Lookup(t, o, i)
               \/ Subtrack(t, o, i, original) \/ Copy(t, o, p)
        PROVE  subtrack' = subtrack /\ (broken' = "no" => broken = "no")
    BY <2>3 DEF Drop, New, Subtrack, Copy, Lookup
  <2> QED
    BY <2>1, <2>2, <2>3 DEF Next
<1> SUFFICES ASSUME broken' = "no", broken = "no", subtrack = "never" PROVE EntriesOwn'
  BY <1>1 DEF CacheInvariant
<1>0. RefInvariant
  BY DEF UnlessBroken
<1>2. EntriesOwn
  BY DEF CacheInvariant
<1>3. CASE UNCHANGED vars
  BY <1>2, <1>3 DEF vars, EntriesOwn, Entry, Referenced, AtItsEdge
<1>4. ASSUME NEW t \in Threads, TestCount(t) \/ Add(t) \/ Count(t) \/ Remove(t)
      PROVE  EntriesOwn'
  BY <1>0, <1>2, <1>4, EntriesWhenTested, EntriesWhenAdded, EntriesWhenCounted, EntriesWhenRemoved
<1>5. ASSUME NEW t \in Threads, NEW i \in Places, Drop(t, i) PROVE EntriesOwn'
  BY <1>0, <1>2, <1>5, EntriesWhenDropped
<1>6. memory \in [Objects -> {"unused", "live", "deleted"}]
  BY <1>0 DEF RefInvariant, CacheType
<1>7. ASSUME NEW t \in Threads, NEW o \in Objects, NEW i \in Places, New(t, o, i)
      PROVE  EntriesOwn'
  <2>1. \A x \in Objects : memory[x] = "live" => memory'[x] = "live"
    BY <1>6, <1>7 DEF New
  <2> QED
    BY <1>0, <1>2, <1>7, <2>1, EntriesWhenRefBegins DEF New
<1>8. ASSUME NEW t \in Threads, NEW o \in Objects, NEW i \in Places,
             NEW original \in Objects, Subtrack(t, o, i, original)
      PROVE  EntriesOwn'
  BY <1>8 DEF Subtrack
<1>9. ASSUME NEW t \in Threads, NEW o \in Objects, NEW p \in Owned, Copy(t, o, p)
      PROVE  EntriesOwn'
  BY <1>0, <1>2, <1>9, EntriesWhenRefBegins DEF Copy
<1>10. ASSUME NEW t \in Threads, NEW u \in Objects, NEW i \in Places, Lookup(t, u, i)
       PROVE  EntriesOwn'
  <2> DEFINE o == cache_map[u]
  <2>1. o \in Objects /\ Entry(o)
    BY <1>0, <1>2, <1>10 DEF Lookup, RefInvariant, CacheType, EntriesOwn, Entry
  <2>2. PICK pc \in {"found", "relock"} : Calls(t, pc, o, << t, i >>)
    BY <1>10 DEF Lookup
  <2> QED
    BY <1>0, <1>2, <1>10, <2>1, <2>2, EntriesWhenRefBegins DEF Lookup
<1> QED
  BY <1>3, <1>4, <1>5, <1>7, <1>8, <1>9, <1>10 DEF Next

(* add() before the first ++ref_count_ and remove() after the last         *)
(* --ref_count_ keep the cache exact, where no subtrack was made and no    *)
(* lookup lost its object: what somebody points to is found; what is found *)
(* exists, and has a pointer but for those two moments; and count_ is the  *)
(* number of entries.                                                      *)
THEOREM CacheIsExact == Spec => []CacheExact
<1> DEFINE Both == UnlessBroken /\ CacheInvariant
<1>1. Init => Both
  BY RefInvariantInit, CacheInvariantInit DEF Init, UnlessBroken
<1>2. Both /\ [Next]_vars => Both'
  BY UnlessBrokenStep, CacheInvariantStep
<1>3. Both => CacheExact
  <2> SUFFICES ASSUME EntriesOwn PROVE CacheExact
    BY DEF CacheInvariant, CacheExact
  <2>1. {u \in Objects : cache_map[u] # None} = {o \in Objects : Entry(o)}
    BY NamesAssumption DEF EntriesOwn, Entry
  <2> QED
    BY <2>1, NamesAssumption DEF CacheExact, EntriesOwn, Entry
<1> QED
  BY <1>1, <1>2, <1>3, PTL DEF Spec

-----------------------------------------------------------------------------
(***************************************************************************)
(* What the resource pool promises to any number of processes.             *)
(***************************************************************************)

Resource == [value : Nat, observers : SUBSET Users]

Life == [life : {"alive", "destroying", "destroyed"}, owned : SUBSET Names,
         used : SUBSET Names, observed : SUBSET Names]

Announcement == [pc : {"idle", "found", "calling"}, name : Names \cup {NoName},
                 observers : SUBSET Users]

PoolType ==
  /\ DOMAIN pool \subseteq Names
  /\ pool = [n \in DOMAIN pool |-> pool[n]]
  /\ \A n \in DOMAIN pool : pool[n] \in Resource
  /\ user \in [Users -> Life] /\ calling \in [Users -> Announcement]
  /\ seen \in [Users -> [Names -> Nat]] /\ since \in [Users -> [Names -> Nat]]
  /\ changes \in Nat

(* Who is called when a resource changes knows that it observes it. *)
ObserversKnow ==
  \A n \in DOMAIN pool : \A u \in pool[n].observers : n \in user[u].observed

(* The call that will still tell the observer of the resource. *)
WillTell(u, n, observer) ==
  /\ calling[u].name = n
  /\ \/ calling[u].pc = "found"
     \/ calling[u].pc = "calling" /\ observer \in calling[u].observers

Announced(n, observer) == \E u \in Users : WillTell(u, n, observer)

(* An observer that has not read the value will be called. *)
StaleAreCalled ==
  \A n \in DOMAIN pool : \A observer \in pool[n].observers :
    pool[n].value \in {seen[observer][n], since[observer][n]} \/ Announced(n, observer)

PoolInvariant ==
  /\ PoolType
  /\ NoOrphans
  /\ ObserversKnow
  /\ StaleAreCalled

LEMMA PoolInvariantInit == PoolInit => PoolInvariant
<1> USE PoolAssumption
<1> SUFFICES ASSUME PoolInit PROVE PoolInvariant
  OBVIOUS
<1>1. DOMAIN pool = {}
  BY DEF PoolInit
<1>2. PoolType
  BY <1>1 DEF PoolInit, PoolType, NoCall, Life, Announcement
<1> QED
  BY <1>1, <1>2 DEF PoolInvariant, NoOrphans, ObserversKnow, StaleAreCalled

(* The calls that hold the lock from begin to end. *)
LEMMA LockedStep ==
  ASSUME PoolInvariant, NEW u \in Users, NEW n \in Names,
         \/ create_resource(u, n) \/ use_resource(u, n)
         \/ get_resource(u, n) \/ observe_resource(u, n)
  PROVE  PoolInvariant'
<1> USE PoolAssumption DEF PoolInvariant
<1>1. CASE create_resource(u, n)
  <2>1. user' = [user EXCEPT ![u].owned = @ \cup {n}] /\ calling' = calling
        /\ seen' = seen /\ since' = since
    BY <1>1 DEF create_resource
  <2>2. CASE Present(n)
    <3>1. pool' = pool /\ changes' = changes
      BY <1>1, <2>2 DEF create_resource
    <3>2. PoolType'
      <4>1. user' \in [Users -> Life]
        BY ZenonT(40), <2>1, <3>1 DEF PoolType, Life
      <4>2. calling' \in [Users -> Announcement]
        BY <2>1, <3>1 DEF PoolType, Announcement
      <4> QED
        BY <4>1, <4>2, <2>1, <3>1 DEF PoolType
    <3>3. NoOrphans'
      BY <2>1, <3>1 DEF NoOrphans, PoolType, Life, Announcement
    <3>4. ObserversKnow'
      BY <2>1, <3>1 DEF ObserversKnow, PoolType, Resource, Life, Announcement
    <3>5. StaleAreCalled'
      BY <2>1, <3>1 DEF StaleAreCalled, Announced, WillTell
    <3> QED
      BY <3>2, <3>3, <3>4, <3>5
  <2>3. CASE ~Present(n)
    <3>1. /\ DOMAIN pool' = DOMAIN pool \cup {n}
          /\ pool' = [m \in DOMAIN pool' |-> pool'[m]]
          /\ pool'[n] = [value |-> changes + 1, observers |-> {}]
          /\ \A m \in DOMAIN pool : pool'[m] = pool[m]
          /\ changes' = changes + 1
      BY <1>1, <2>3 DEF create_resource, With, Present
    <3>2. pool'[n] \in Resource
      BY <3>1 DEF PoolType, Resource, Life, Announcement
    <3>3. PoolType'
      <4>1. user' \in [Users -> Life]
        BY ZenonT(40), <2>1 DEF PoolType, Life
      <4>2. calling' \in [Users -> Announcement] /\ changes' \in Nat
        BY <2>1, <3>1 DEF PoolType
      <4>3. \A m \in DOMAIN pool' : m \in Names /\ pool'[m] \in Resource
        BY <3>1, <3>2 DEF PoolType
      <4> QED
        BY <4>1, <4>2, <4>3, <2>1, <3>1 DEF PoolType
    <3>4. NoOrphans'
      BY <2>1, <3>1 DEF NoOrphans, PoolType, Life, Announcement
    <3>5. ObserversKnow'
      BY <2>1, <3>1 DEF ObserversKnow, PoolType, Resource, Life, Announcement
    <3>6. StaleAreCalled'
      BY <2>1, <3>1 DEF StaleAreCalled, Announced, WillTell
    <3> QED
      BY <3>3, <3>4, <3>5, <3>6
  <2> QED
    BY <2>2, <2>3
<1>2. CASE use_resource(u, n)
  <2>1. user' = [user EXCEPT ![u].used = @ \cup {n}] /\ calling' = calling /\ seen' = seen
        /\ since' = since /\ pool' = pool /\ changes' = changes
    BY <1>2 DEF use_resource
  <2>2. PoolType'
    <3>1. user' \in [Users -> Life]
      BY ZenonT(40), <2>1 DEF PoolType, Life
    <3>2. calling' \in [Users -> Announcement]
      BY <2>1 DEF PoolType, Announcement
    <3> QED
      BY <3>1, <3>2, <2>1 DEF PoolType
  <2>3. NoOrphans' /\ ObserversKnow'
    BY <2>1 DEF NoOrphans, ObserversKnow, PoolType, Resource, Life, Announcement
  <2>4. StaleAreCalled'
    BY <2>1 DEF StaleAreCalled, Announced, WillTell
  <2> QED
    BY <2>2, <2>3, <2>4
<1>3. CASE get_resource(u, n)
  <2>1. seen' = [seen EXCEPT ![u][n] = pool[n].value] /\ user' = user /\ calling' = calling
        /\ since' = since /\ pool' = pool /\ changes' = changes /\ n \in DOMAIN pool
    BY <1>3 DEF get_resource, Present
  <2>2. pool[n].value \in Nat
    BY <2>1 DEF PoolType, Resource, Life, Announcement
  <2>3. PoolType'
    <3>1. user' \in [Users -> Life]
      BY <2>1, <2>2 DEF PoolType, Life
    <3>2. calling' \in [Users -> Announcement]
      BY <2>1, <2>2 DEF PoolType, Announcement
    <3> QED
      BY <3>1, <3>2, <2>1, <2>2 DEF PoolType
  <2>4. NoOrphans' /\ ObserversKnow'
    BY <2>1 DEF NoOrphans, ObserversKnow
  <2>5. StaleAreCalled'
    BY <2>1, <2>2 DEF StaleAreCalled, Announced, WillTell, PoolType, Resource, Life, Announcement
  <2> QED
    BY <2>3, <2>4, <2>5
<1>4. CASE observe_resource(u, n)
  <2>1. /\ pool' = [pool EXCEPT ![n].observers = @ \cup {u}]
        /\ user' = [user EXCEPT ![u].observed = @ \cup {n}]
        /\ since' = [since EXCEPT ![u][n] = pool[n].value]
        /\ calling' = calling /\ seen' = seen /\ changes' = changes /\ n \in DOMAIN pool
    BY <1>4 DEF observe_resource, Present
  <2>2. /\ DOMAIN pool' = DOMAIN pool
        /\ pool'[n] = [value |-> pool[n].value, observers |-> pool[n].observers \cup {u}]
        /\ \A m \in DOMAIN pool \ {n} : pool'[m] = pool[m]
        /\ pool' = [m \in DOMAIN pool' |-> pool'[m]]
    BY ZenonT(40), <2>1 DEF PoolType, Resource, Life, Announcement
  <2>3. pool[n].value \in Nat /\ pool[n].observers \subseteq Users /\ pool'[n] \in Resource
    BY <2>1, <2>2 DEF PoolType, Resource, Life, Announcement
  <2>4. PoolType'
    <3>1. user' \in [Users -> Life]
      <4>1. user' = [user EXCEPT ![u].observed = @ \cup {n}]
        BY <2>1
      <4> QED
        BY ZenonT(40), <4>1 DEF PoolType, Life
    <3>2. calling' \in [Users -> Announcement]
      BY <2>1 DEF PoolType
    <3> QED
      BY <3>1, <3>2, <2>1, <2>2, <2>3 DEF PoolType
  <2>5. NoOrphans'
    BY <2>1, <2>2 DEF NoOrphans, PoolType, Life, Announcement
  <2>6. ObserversKnow'
    BY <2>1, <2>2, <2>3 DEF ObserversKnow, PoolType, Resource, Life, Announcement
  <2>7. StaleAreCalled'
    <3> SUFFICES ASSUME NEW m \in DOMAIN pool, NEW observer \in pool'[m].observers
                 PROVE  \/ pool'[m].value \in {seen'[observer][m], since'[observer][m]}
                        \/ Announced(m, observer)'
      BY <2>2 DEF StaleAreCalled
    <3>1. m \in Names /\ observer \in Users
      BY <2>2, <2>3 DEF PoolType, Resource, Life, Announcement
    <3>2. CASE m = n /\ observer = u
      BY <2>1, <2>2, <3>1, <3>2 DEF PoolType, Life, Announcement
    <3>3. CASE m # n \/ observer # u
      <4>1. observer \in pool[m].observers /\ pool'[m].value = pool[m].value
        BY <2>2, <3>3
      <4>2. since'[observer][m] = since[observer][m]
        BY <2>1, <3>1, <3>3 DEF PoolType, Life, Announcement
      <4> QED
        BY <2>1, <4>1, <4>2 DEF StaleAreCalled, Announced, WillTell
    <3> QED
      BY <3>2, <3>3
  <2> QED
    BY <2>4, <2>5, <2>6, <2>7
<1> QED
  BY <1>1, <1>2, <1>3, <1>4

(* A change and its announcement. *)
LEMMA AnnouncementStep ==
  ASSUME PoolInvariant, NEW u \in Users, NEW n \in Names,
         set_resource(u, n) \/ notify_observers(u, n)
  PROVE  PoolInvariant'
<1> USE PoolAssumption DEF PoolInvariant
<1>1. /\ user' = user /\ seen' = seen /\ since' = since /\ n \in DOMAIN pool
      /\ calling[u].pc = "idle"
      /\ calling' = [calling EXCEPT ![u] = [pc |-> "found", name |-> n, observers |-> {}]]
  BY DEF set_resource, notify_observers, Begins, NoCall, MayCall, Present
<1>2. /\ DOMAIN pool' = DOMAIN pool /\ pool' = [m \in DOMAIN pool' |-> pool'[m]]
      /\ pool'[n] \in Resource /\ pool'[n].observers = pool[n].observers
      /\ \A m \in DOMAIN pool \ {n} : pool'[m] = pool[m]
      /\ changes' \in Nat
  <2>1. CASE set_resource(u, n)
    <3>1. pool' = [pool EXCEPT ![n].value = changes + 1] /\ changes' = changes + 1
      BY <2>1 DEF set_resource
    <3>2. pool[n] \in Resource /\ changes \in Nat
      BY <1>1 DEF PoolType
    <3>3. pool'[n] = [value |-> changes + 1, observers |-> pool[n].observers]
      BY <1>1, <3>1, <3>2 DEF PoolType, Resource
    <3>4. DOMAIN pool' = DOMAIN pool /\ pool' = [m \in DOMAIN pool' |-> pool'[m]]
      BY <3>1 DEF PoolType
    <3>5. \A m \in DOMAIN pool \ {n} : pool'[m] = pool[m]
      BY <3>1 DEF PoolType
    <3> QED
      BY <3>1, <3>2, <3>3, <3>4, <3>5 DEF Resource
  <2>2. CASE notify_observers(u, n)
    BY <2>2, <1>1 DEF notify_observers, PoolType, Resource, Life, Announcement
  <2> QED
    BY <2>1, <2>2
<1>3. PoolType'
  <2>1. user' \in [Users -> Life]
    BY <1>1, <1>2 DEF PoolType, Life
  <2>2. calling' \in [Users -> Announcement]
    BY <1>1, <1>2 DEF PoolType, Announcement
  <2> QED
    BY <2>1, <2>2, <1>1, <1>2 DEF PoolType
<1>4. NoOrphans'
  BY <1>1, <1>2 DEF NoOrphans
<1>5. ObserversKnow'
  BY <1>1, <1>2 DEF ObserversKnow
<1>6. StaleAreCalled'
  <2> SUFFICES ASSUME NEW m \in DOMAIN pool, NEW observer \in pool'[m].observers
               PROVE  \/ pool'[m].value \in {seen'[observer][m], since'[observer][m]}
                      \/ Announced(m, observer)'
    BY <1>2 DEF StaleAreCalled
  <2>1. calling'[u].name = n /\ calling'[u].pc = "found"
    BY <1>1 DEF PoolType, Life, Announcement
  <2>2. CASE m = n
    BY <2>1, <2>2 DEF Announced, WillTell
  <2>3. CASE m # n
    <3>1. pool'[m] = pool[m]
      BY <1>2, <2>3
    <3>2. ASSUME Announced(m, observer) PROVE Announced(m, observer)'
      <4>1. PICK v \in Users : WillTell(v, m, observer)
        BY <3>2 DEF Announced
      <4>2. v # u
        BY <1>1, <4>1 DEF WillTell
      <4>3. calling'[v] = calling[v]
        BY <1>1, <4>2 DEF PoolType, Life, Announcement
      <4> QED
        BY <4>1, <4>3 DEF Announced, WillTell
    <3> QED
      BY <1>1, <3>1, <3>2 DEF StaleAreCalled
  <2> QED
    BY <2>2, <2>3
<1> QED
  BY <1>3, <1>4, <1>5, <1>6

(* The observers are called. *)
LEMMA CallStep ==
  ASSUME PoolInvariant, NEW u \in Users,
         \/ Signal(u) \/ CallEnds(u) \/ \E observer \in Users : Notify(u, observer)
  PROVE  PoolInvariant'
<1> USE PoolAssumption DEF PoolInvariant
<1>1. CASE Signal(u)
  <2> DEFINE n == calling[u].name
  <2>1. PICK observers \in SUBSET Users :
          /\ Present(n) => observers = pool[n].observers
          /\ calling' = [calling EXCEPT ![u].pc = "calling", ![u].observers = observers]
    BY <1>1 DEF Signal, Present, PoolType, Resource, Life, Announcement
  <2>2. /\ pool' = pool /\ user' = user /\ seen' = seen /\ since' = since
        /\ changes' = changes /\ calling[u].pc = "found"
    BY <1>1 DEF Signal
  <2>3. PoolType'
    <3>1. user' \in [Users -> Life]
      BY <2>1, <2>2 DEF PoolType, Life
    <3>2. calling' \in [Users -> Announcement]
      <4>1. calling' = [calling EXCEPT ![u].pc = "calling", ![u].observers = observers]
        BY <2>1
      <4> QED
        BY ZenonT(40), <4>1 DEF PoolType, Announcement
    <3> QED
      BY <3>1, <3>2, <2>2 DEF PoolType
  <2>4. NoOrphans' /\ ObserversKnow'
    BY <2>2 DEF NoOrphans, ObserversKnow
  <2>5. ASSUME NEW m \in DOMAIN pool, NEW observer \in pool[m].observers,
               Announced(m, observer)
        PROVE  Announced(m, observer)'
    <3>1. PICK v \in Users : WillTell(v, m, observer)
      BY <2>5 DEF Announced
    <3>2. CASE v = u
      <4>1. observers = pool[m].observers
        BY <2>1, <3>1, <3>2 DEF Present, WillTell
      <4>2. calling'[u].pc = "calling" /\ calling'[u].name = m /\ observer \in calling'[u].observers
        BY <2>1, <3>1, <3>2, <4>1 DEF PoolType, Announcement, WillTell
      <4> QED
        BY <4>2 DEF Announced, WillTell
    <3>3. CASE v # u
      <4>1. calling'[v] = calling[v]
        BY <2>1, <3>3 DEF PoolType, Life, Announcement
      <4> QED
        BY <3>1, <4>1 DEF Announced, WillTell
    <3> QED
      BY <3>2, <3>3
  <2>6. StaleAreCalled'
    BY <2>2, <2>5 DEF StaleAreCalled
  <2> QED
    BY <2>3, <2>4, <2>6
<1>2. CASE CallEnds(u)
  <2>1. /\ pool' = pool /\ user' = user /\ seen' = seen /\ since' = since
        /\ changes' = changes /\ calling[u].pc = "calling" /\ calling[u].observers = {}
        /\ calling' = [calling EXCEPT ![u] = [pc |-> "idle", name |-> NoName, observers |-> {}]]
    BY <1>2 DEF CallEnds, NoCall
  <2>2. PoolType'
    <3>1. user' \in [Users -> Life]
      BY <2>1 DEF PoolType, Life
    <3>2. calling' \in [Users -> Announcement]
      BY <2>1 DEF PoolType, Announcement
    <3> QED
      BY <3>1, <3>2, <2>1 DEF PoolType
  <2>3. NoOrphans' /\ ObserversKnow'
    BY <2>1 DEF NoOrphans, ObserversKnow
  <2>4. ASSUME NEW m, NEW observer, Announced(m, observer)
        PROVE  Announced(m, observer)'
    <3>1. PICK v \in Users : WillTell(v, m, observer)
      BY <2>4 DEF Announced
    <3>2. v # u
      BY <2>1, <3>1 DEF WillTell
    <3>3. calling'[v] = calling[v]
      BY <2>1, <3>2 DEF PoolType, Life, Announcement
    <3> QED
      BY <3>1, <3>3 DEF Announced, WillTell
  <2>5. StaleAreCalled'
    BY <2>1, <2>4 DEF StaleAreCalled
  <2> QED
    BY <2>2, <2>3, <2>5
<1>3. ASSUME NEW told \in Users, Notify(u, told) PROVE PoolInvariant'
  <2> DEFINE n == calling[u].name
  <2>1. /\ pool' = pool /\ user' = user /\ since' = since /\ changes' = changes
        /\ calling[u].pc = "calling"
        /\ calling' = [calling EXCEPT ![u].observers = @ \ {told}]
        /\ seen' = IF n \in user[told].observed /\ n \in DOMAIN pool
                   THEN [seen EXCEPT ![told][n] = pool[n].value] ELSE seen
    BY <1>3 DEF Notify, Present
  <2>2. PoolType'
    <3>1. user' \in [Users -> Life]
      BY <2>1 DEF PoolType, Life
    <3>2. calling' \in [Users -> Announcement]
      BY SMTT(30), <2>1 DEF PoolType, Announcement
    <3> QED
      BY <3>1, <3>2, <2>1 DEF PoolType, Resource
  <2>3. NoOrphans' /\ ObserversKnow'
    BY <2>1 DEF NoOrphans, ObserversKnow
  <2>4. StaleAreCalled'
    <3> SUFFICES ASSUME NEW m \in DOMAIN pool, NEW observer \in pool[m].observers
                 PROVE  \/ pool[m].value \in {seen'[observer][m], since[observer][m]}
                        \/ Announced(m, observer)'
      BY <2>1 DEF StaleAreCalled
    <3>1. m \in Names /\ observer \in Users /\ m \in user[observer].observed
      BY DEF PoolType, Resource, ObserversKnow
    <3>2. CASE m = n /\ observer = told
      <4>1. seen' = [seen EXCEPT ![told][n] = pool[n].value]
        BY <2>1, <3>1, <3>2
      <4> QED
        BY <3>1, <3>2, <4>1 DEF PoolType, Life, Announcement
    <3>3. CASE m # n \/ observer # told
      <4>1. seen'[observer][m] = seen[observer][m]
        BY <2>1, <3>1, <3>3 DEF PoolType, Life, Announcement
      <4>2. ASSUME Announced(m, observer) PROVE Announced(m, observer)'
        <5>1. PICK v \in Users : WillTell(v, m, observer)
          BY <4>2 DEF Announced
        <5>2. CASE v = u
          <6>1. calling'[u].pc = "calling" /\ calling'[u].name = m
            BY <2>1, <5>1, <5>2 DEF PoolType, Announcement, WillTell
          <6>2. observer # told /\ observer \in calling[u].observers
            BY <2>1, <3>3, <5>1, <5>2 DEF WillTell
          <6>3. observer \in calling'[u].observers
            BY <2>1, <6>2 DEF PoolType, Announcement
          <6> QED
            BY <6>1, <6>3 DEF Announced, WillTell
        <5>3. CASE v # u
          <6>1. calling'[v] = calling[v]
            BY <2>1, <5>3 DEF PoolType, Life, Announcement
          <6> QED
            BY <5>1, <6>1 DEF Announced, WillTell
        <5> QED
          BY <5>2, <5>3
      <4> QED
        BY <4>1, <4>2 DEF StaleAreCalled
    <3> QED
      BY <3>2, <3>3
  <2> QED
    BY <2>2, <2>3, <2>4
<1> QED
  BY <1>1, <1>2, <1>3

(* The destructor. *)
LEMMA DestructionStep ==
  ASSUME PoolInvariant, NEW u \in Users,
         Destroy(u) \/ Destroyed(u) \/ \E n \in Names : delete_resource(u, n)
  PROVE  PoolInvariant'
<1> USE PoolAssumption DEF PoolInvariant
<1>1. CASE Destroy(u)
  <2>1. /\ calling' = calling /\ seen' = seen /\ since' = since /\ changes' = changes
        /\ user' = [user EXCEPT ![u].life = "destroying", ![u].observed = {}]
        /\ DOMAIN pool' = DOMAIN pool /\ pool' = [m \in DOMAIN pool' |-> pool'[m]]
    BY <1>1 DEF Destroy
  <2>u. /\ user'[u] = [life |-> "destroying", owned |-> user[u].owned,
                       used |-> user[u].used, observed |-> {}]
        /\ \A v \in Users \ {u} : user'[v] = user[v]
    <3>1. user \in [Users -> Life] /\ user[u] \in Life
      BY DEF PoolType
    <3>2. user'[u] = [[user[u] EXCEPT !.life = "destroying"] EXCEPT !.observed = {}]
      BY <2>1, <3>1
    <3>3. \A v \in Users \ {u} : user'[v] = user[v]
      BY <2>1, <3>1
    <3> QED
      BY <3>1, <3>2, <3>3 DEF Life
  <2>2. ASSUME NEW m \in DOMAIN pool
        PROVE  /\ pool'[m] \in Resource
               /\ pool'[m].value = pool[m].value
               /\ pool'[m].observers = pool[m].observers \ {u}
    <3>1. CASE m \in user[u].observed
      <4>1. pool'[m] = [pool[m] EXCEPT !.observers = @ \ {u}]
        BY <1>1, <3>1 DEF Destroy
      <4>2. pool[m] \in Resource
        BY DEF PoolType
      <4> QED
        BY <4>1, <4>2 DEF Resource
    <3>2. CASE m \notin user[u].observed
      <4>1. pool'[m] = pool[m]
        BY <1>1, <3>2 DEF Destroy
      <4> QED
        BY <3>2, <4>1 DEF PoolType, Resource, ObserversKnow
    <3> QED
      BY <3>1, <3>2
  <2>3. PoolType'
    <3>1. user' \in [Users -> Life]
      <4>1. DOMAIN user' = Users /\ user' = [v \in Users |-> user'[v]]
        BY <2>u, <2>1 DEF PoolType
      <4>2. user[u] \in Life /\ \A v \in Users : user[v] \in Life
        BY DEF PoolType
      <4>3. user'[u] \in Life
        BY <2>u, <4>2 DEF Life
      <4>4. \A v \in Users : user'[v] \in Life
        BY <2>u, <4>2, <4>3
      <4> QED
        BY <4>1, <4>4
    <3>2. calling' \in [Users -> Announcement]
      BY <2>1 DEF PoolType
    <3> QED
      BY <3>1, <3>2, <2>1, <2>2 DEF PoolType
  <2>4. NoOrphans'
    <3>1. \A v \in Users : user'[v].owned = user[v].owned
      BY <2>u
    <3> QED
      BY <2>1, <3>1 DEF NoOrphans
  <2>5. ObserversKnow'
    <3> SUFFICES ASSUME NEW m \in DOMAIN pool, NEW v \in pool'[m].observers
                 PROVE  m \in user'[v].observed
      BY <2>1 DEF ObserversKnow
    <3>1. v # u /\ v \in pool[m].observers /\ v \in Users
      BY <2>2 DEF PoolType, Resource, Life, Announcement
    <3>2. user'[v] = user[v]
      BY <2>1, <3>1 DEF PoolType, Life, Announcement
    <3> QED
      BY <3>1, <3>2 DEF ObserversKnow
  <2>6. StaleAreCalled'
    BY <2>1, <2>2 DEF StaleAreCalled, Announced, WillTell
  <2> QED
    BY <2>3, <2>4, <2>5, <2>6
<1>2. CASE Destroyed(u)
  <2>1. /\ pool' = pool /\ calling' = calling /\ seen' = seen /\ since' = since
        /\ changes' = changes /\ user' = [user EXCEPT ![u].life = "destroyed"]
    BY <1>2 DEF Destroyed
  <2>2. PoolType'
    <3>1. user' \in [Users -> Life]
      BY ZenonT(40), <2>1 DEF PoolType, Life
    <3>2. calling' \in [Users -> Announcement]
      BY <2>1 DEF PoolType, Announcement
    <3> QED
      BY <3>1, <3>2, <2>1 DEF PoolType
  <2>3. NoOrphans' /\ ObserversKnow'
    BY <2>1 DEF NoOrphans, ObserversKnow, PoolType, Resource, Life, Announcement
  <2>4. StaleAreCalled'
    BY <2>1 DEF StaleAreCalled, Announced, WillTell
  <2> QED
    BY <2>2, <2>3, <2>4
<1>3. ASSUME NEW n \in Names, delete_resource(u, n) PROVE PoolInvariant'
  <2>1. /\ calling' = calling /\ seen' = seen /\ since' = since /\ changes' = changes
        /\ user' = [user EXCEPT ![u].owned = @ \ {n}]
        /\ DOMAIN pool' = DOMAIN pool \ {n}
        /\ pool' = [m \in DOMAIN pool' |-> pool'[m]]
        /\ \A m \in DOMAIN pool' : pool'[m] = pool[m]
    BY <1>3 DEF delete_resource, Restrict
  <2>2. PoolType'
    <3>1. user' \in [Users -> Life]
      <4>1. user' = [user EXCEPT ![u].owned = @ \ {n}]
        BY <2>1
      <4> QED
        BY ZenonT(40), <4>1 DEF PoolType, Life
    <3>2. calling' \in [Users -> Announcement]
      BY <2>1 DEF PoolType
    <3> QED
      BY <3>1, <3>2, <2>1 DEF PoolType
  <2>3. NoOrphans'
    BY <2>1 DEF NoOrphans, PoolType, Life, Announcement
  <2>4. ObserversKnow'
    BY <2>1 DEF ObserversKnow, PoolType, Resource, Life, Announcement
  <2>5. StaleAreCalled'
    BY <2>1 DEF StaleAreCalled, Announced, WillTell
  <2> QED
    BY <2>2, <2>3, <2>4, <2>5
<1> QED
  BY <1>1, <1>2, <1>3

(* Nothing changes. *)
LEMMA PoolStutter ==
  ASSUME PoolInvariant, UNCHANGED poolVars
  PROVE  PoolInvariant'
BY DEF PoolInvariant, PoolType, NoOrphans, ObserversKnow, StaleAreCalled, Announced, WillTell, poolVars

(* Every state of every execution has the four conjuncts: the strengthening *)
(* that the two properties below rest on, for any processes and names.     *)
THEOREM PoolInvariantHolds == PoolSpec => []PoolInvariant
<1>1. PoolInvariant /\ [PoolNext]_poolVars => PoolInvariant'
  <2> SUFFICES ASSUME PoolInvariant, [PoolNext]_poolVars PROVE PoolInvariant'
    OBVIOUS
  <2>1. CASE UNCHANGED poolVars
    BY <2>1, PoolStutter
  <2>2. CASE PoolNext
    BY <2>2, LockedStep, AnnouncementStep, CallStep, DestructionStep DEF PoolNext
  <2> QED
    BY <2>1, <2>2
<1> QED
  BY <1>1, PoolInvariantInit, PTL DEF PoolSpec

(* resource_user::set_i() tells the observers of a change after it has     *)
(* released the lock: when every such call has returned, each observer has *)
(* the last value all the same, in whatever order the calls told it.       *)
THEOREM ObserversHaveLastValue == PoolSpec => []ObserversUpToDate
<1>1. PoolInvariant => ObserversUpToDate
  BY DEF PoolInvariant, StaleAreCalled, Announced, WillTell, ObserversUpToDate
<1> QED
  BY <1>1, PoolInvariantHolds, PTL

(* ~resource_user() deletes what create_i() has noted as owned, also when  *)
(* the pool had it from another process: nothing is left without an owner. *)
THEOREM PoolHasNoOrphans == PoolSpec => []NoOrphans
<1>1. PoolInvariant => NoOrphans
  BY DEF PoolInvariant
<1> QED
  BY <1>1, PoolInvariantHolds, PTL
=============================================================================
