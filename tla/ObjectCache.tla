---------------------------- MODULE ObjectCache ----------------------------
(***************************************************************************)
(* object_cache<T> and the reference count of uuid_able<T>: the tracks in  *)
(* core, which threads hold by smart pointers, and which are found by      *)
(* their UUID.                                                             *)
(*                                                                         *)
(* An object is taken from memory that was never used before, and its UUID *)
(* has the name of the object it was generated for.  A thread has a smart  *)
(* pointer in each of its places.  It copies one of its own, for itself or *)
(* to hand it to another thread.  Any thread may look up any UUID.         *)
(*                                                                         *)
(* object_cache.h:111-113 and 123-125 ask for a critical section around    *)
(* add() or remove() and the count; ref() and unref() change the count     *)
(* outside of it.  The history variable broken remembers the first step    *)
(* by which a thread came to use memory that is, or is about to be, freed. *)
(* The model ends with that use: what it does is undefined.                *)
(***************************************************************************)
EXTENDS Integers, FiniteSets

CONSTANTS
  Objects,
  Threads,
  Places,
  None,
  SubtrackKinds       (* how subtracks are made *)

ASSUME KindsAssumption == SubtrackKinds \subseteq {"never", "same_uuid", "new_uuid"}

ASSUME NamesAssumption ==
  /\ None \notin Objects /\ None \notin Threads /\ None \notin Threads \X Places
  /\ IsFiniteSet(Objects) /\ IsFiniteSet(Threads) /\ IsFiniteSet(Places)

VARIABLES
  subtrack,           (* how subtracks are made in this program *)
  memory,             (* for each object, whether it exists *)
  uuid,               (* ... its UUID *)
  ref_count,          (* ... the number of smart pointers to it *)
  cache_map,          (* for each UUID, the object that it stands for *)
  count,              (* the objects tracked in core *)
  mutex,              (* the thread that holds the mutex of the cache *)
  call,               (* for each thread, where it is in ref() or unref() *)
  pointer,            (* for each thread and place, the smart pointer *)
  broken              (* why a thread will use freed memory: see Overtakes *)

vars ==
  << subtrack, memory, uuid, ref_count, cache_map, count, mutex, call, pointer, broken >>

Owned == Threads \X Places

(* A call of ref() has an empty place for the pointer it makes. *)
Idle == [pc |-> "idle", obj |-> None, to |-> None]

Init ==
  /\ subtrack \in SubtrackKinds
  /\ memory = [o \in Objects |-> "unused"]
  /\ uuid = [o \in Objects |-> o]
  /\ ref_count = [o \in Objects |-> 0]
  /\ cache_map = [u \in Objects |-> None]
  /\ count = 0
  /\ mutex = None
  /\ call = [t \in Threads |-> Idle]
  /\ pointer = [p \in Owned |-> None]
  /\ broken = "no"

(* The thread has a smart pointer to the object. *)
Has(t, o) == \E i \in Places : pointer[<< t, i >>] = o

Empty(p) == pointer[p] = None /\ \A t \in Threads : call[t].to # p

Unlocked == mutex = None

Calls(t, pc, o, to) == call' = [call EXCEPT ![t] = [pc |-> pc, obj |-> o, to |-> to]]

Returns(t) == call' = [call EXCEPT ![t] = Idle]

-----------------------------------------------------------------------------
(* ref(): the first pointer to an object puts it into the cache.           *)

(* A smart pointer to a new object. *)
New(t, o, i) ==
  /\ call[t].pc = "idle" /\ memory[o] = "unused" /\ Empty(<< t, i >>)
  /\ memory' = [memory EXCEPT ![o] = "live"]
  /\ Calls(t, "ref", o, << t, i >>)
  /\ UNCHANGED << subtrack, uuid, ref_count, cache_map, count, mutex, pointer, broken >>

(* get_subtrack_same_uuid(), and get_subtrack() which gives the result     *)
(* another UUID in the end. *)
Subtrack(t, o, i, original) ==
  /\ subtrack # "never"
  /\ call[t].pc = "idle" /\ memory[o] = "unused" /\ Empty(<< t, i >>)
  /\ Has(t, original)
  /\ memory' = [memory EXCEPT ![o] = "live"]
  /\ uuid' = [uuid EXCEPT ![o] = uuid[original]]
  /\ Calls(t, "ref", o, << t, i >>)
  /\ UNCHANGED << subtrack, ref_count, cache_map, count, mutex, pointer, broken >>

(* A copy of a pointer. *)
Copy(t, o, p) ==
  /\ call[t].pc = "idle" /\ Has(t, o) /\ Empty(p)
  /\ Calls(t, "ref", o, p)
  /\ UNCHANGED << subtrack, memory, uuid, ref_count, cache_map, count, mutex,
                  pointer, broken >>

(* if( !ref_count_ ) *)
TestCount(t) ==
  /\ call[t].pc = "ref"
  /\ Calls(t, IF ref_count[call[t].obj] = 0 THEN "add" ELSE "count",
           call[t].obj, call[t].to)
  /\ UNCHANGED << subtrack, memory, uuid, ref_count, cache_map, count, mutex, pointer, broken >>

Add(t) ==
  /\ call[t].pc = "add" /\ Unlocked
  /\ cache_map' = [cache_map EXCEPT ![uuid[call[t].obj]] = call[t].obj]
  /\ count' = count + 1
  /\ Calls(t, "count", call[t].obj, call[t].to)
  /\ UNCHANGED << subtrack, memory, uuid, ref_count, mutex, pointer, broken >>

(* ++ref_count_.  A lookup releases the mutex; a subtrack may get a UUID   *)
(* of its own, which the cache is not told of.                             *)
Count(t) ==
  LET o == call[t].obj IN
  /\ call[t].pc \in {"count", "found"}
  /\ ref_count' = [ref_count EXCEPT ![o] = @ + 1]
  /\ pointer' = [pointer EXCEPT ![call[t].to] = o]
  /\ mutex' = IF call[t].pc = "found" THEN None ELSE mutex
  /\ uuid' = IF subtrack = "new_uuid" THEN [uuid EXCEPT ![o] = o] ELSE uuid
  /\ Returns(t)
  /\ UNCHANGED << subtrack, memory, cache_map, count, broken >>

-----------------------------------------------------------------------------
(* unref(): the last pointer takes the object out of the cache.            *)

(* A lookup has found the object and not yet counted its pointer: dropped  *)
(* now, the last pointer takes the object away from it.                    *)
Overtakes(o) == \E t \in Threads : call[t].pc = "found" /\ call[t].obj = o

(* A mutant of Drop: the object is removed with the last but one. *)
DropLastButOne(t, i) ==
  LET o == pointer[<< t, i >>] IN
  /\ call[t].pc = "idle" /\ o # None
  /\ ref_count' = [ref_count EXCEPT ![o] = @ - 1]
  /\ pointer' = [pointer EXCEPT ![<< t, i >>] = None]
  /\ IF ref_count[o] = 2 THEN Calls(t, "remove", o, None) ELSE UNCHANGED call
  /\ broken' = IF ref_count[o] = 2 /\ broken = "no" /\ Overtakes(o)
               THEN "overtaken" ELSE broken
  /\ UNCHANGED << subtrack, memory, uuid, cache_map, count, mutex >>

(* if( --ref_count_ == 0 ) *)
Drop(t, i) ==
  LET o == pointer[<< t, i >>] IN
  /\ call[t].pc = "idle" /\ o # None
  /\ ref_count' = [ref_count EXCEPT ![o] = @ - 1]
  /\ pointer' = [pointer EXCEPT ![<< t, i >>] = None]
  /\ IF ref_count[o] = 1 THEN Calls(t, "remove", o, None) ELSE UNCHANGED call
  /\ broken' = IF ref_count[o] = 1 /\ broken = "no" /\ Overtakes(o)
               THEN "overtaken" ELSE broken
  /\ UNCHANGED << subtrack, memory, uuid, cache_map, count, mutex >>

(* A mutant of Remove: the cache is not told. *)
DeleteOnly(t) ==
  /\ call[t].pc = "remove"
  /\ memory' = [memory EXCEPT ![call[t].obj] = "deleted"]
  /\ Returns(t)
  /\ UNCHANGED << subtrack, uuid, ref_count, cache_map, count, mutex, pointer, broken >>

(* remove(), delete this. *)
Remove(t) ==
  LET o == call[t].obj IN
  /\ call[t].pc = "remove" /\ Unlocked
  /\ cache_map' = [cache_map EXCEPT ![uuid[o]] = None]
  /\ count' = count - 1
  /\ memory' = [memory EXCEPT ![o] = "deleted"]
  /\ Returns(t)
  /\ UNCHANGED << subtrack, uuid, ref_count, mutex, pointer, broken >>

-----------------------------------------------------------------------------
(* lookup(): the pointer is made with the mutex held.  The first pointer   *)
(* would lock it again: the thread then waits for itself.  No entry   *)
(* changes while the mutex is held, so find() and the test in ref() are    *)
(* one step.                                                               *)
(* An entry may have been left behind by an object that was deleted.       *)

Lookup(t, u, i) ==
  LET o == cache_map[u] IN
  /\ call[t].pc = "idle" /\ Unlocked /\ o # None /\ Empty(<< t, i >>)
  /\ mutex' = t
  /\ Calls(t, IF ref_count[o] = 0 THEN "relock" ELSE "found", o, << t, i >>)
  /\ broken' = IF memory[o] = "deleted" /\ broken = "no" THEN "left_behind" ELSE broken
  /\ UNCHANGED << subtrack, memory, uuid, ref_count, cache_map, count, pointer >>

(* No thread has a pointer to an object that was deleted, or a call on it. *)
Intact ==
  /\ \A p \in Owned : pointer[p] # None => memory[pointer[p]] = "live"
  /\ \A t \in Threads : call[t].obj # None => memory[call[t].obj] = "live"

Next ==
  /\ Intact
  /\ \E t \in Threads :
       \/ TestCount(t) \/ Add(t) \/ Count(t) \/ Remove(t)
       \/ \E i \in Places : Drop(t, i)
       \/ \E i \in Places, o \in Objects :
            \/ New(t, o, i) \/ Lookup(t, o, i)
            \/ \E original \in Objects : Subtrack(t, o, i, original)
       \/ \E o \in Objects, p \in Owned : Copy(t, o, p)

Spec == Init /\ [][Next]_vars

-----------------------------------------------------------------------------
(* Properties.                                                             *)

(* The count is tested, incremented and decremented without the mutex that *)
(* the cache has (uuid_able.h:121, 130, 137), and any thread looks up any  *)
(* UUID.  Freed memory is used in two ways only: the last pointer is       *)
(* dropped while a lookup holds the mutex between ref()'s test and its     *)
(* increment, or an entry is found that was left behind, which happens     *)
(* only where subtracks change their UUID.  No other order of copies,      *)
(* hand-overs, drops, removals and lookups breaks a pointer.               *)
PointersLive ==
  /\ broken = "no" => Intact
  /\ broken = "left_behind" => subtrack = "new_uuid"

Referenced(o) == \E p \in Owned : pointer[p] = o

(* A thread is between add() and ++ref_count_, or --ref_count_ and         *)
(* remove(), for the object.                                               *)
AtItsEdge(o) ==
  \E t \in Threads : call[t].obj = o /\ call[t].pc \in {"count", "remove"}

(* Up to then, and without subtracks, which have the UUID of another       *)
(* object when they are added: an object that somebody has a pointer to is *)
(* found under its UUID; what is found exists, and has a pointer unless a  *)
(* thread is just adding or removing it, so that in no other moment a      *)
(* lookup locks the mutex twice; and the cache counts what it has.         *)
CacheExact ==
  (broken = "no" /\ subtrack = "never") =>
  /\ \A o \in Objects : Referenced(o) => cache_map[uuid[o]] = o
  /\ \A u \in Objects : cache_map[u] # None =>
       /\ memory[cache_map[u]] = "live" /\ uuid[cache_map[u]] = u
       /\ Referenced(cache_map[u]) \/ AtItsEdge(cache_map[u])
  /\ count = Cardinality({u \in Objects : cache_map[u] # None})
=============================================================================
