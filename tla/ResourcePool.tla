---------------------------- MODULE ResourcePool ----------------------------
(***************************************************************************)
(* resource_pool and the processes that are derived from resource_user.    *)
(* Each process calls from a thread of its own; the observers are called   *)
(* by the thread that changed the resource.  A value is the number of the  *)
(* change that set it.                                                     *)
(***************************************************************************)
EXTENDS Integers, FiniteSets, Functions

CONSTANTS
  Users,
  Names,
  NoName,
  MaxChanges,         (* a bound on the changes *)
  DestroyedRunning    (* whether a process may be destroyed while others run *)

ASSUME PoolAssumption ==
  /\ MaxChanges \in Nat /\ NoName \notin Names
  /\ DestroyedRunning \in BOOLEAN

VARIABLES
  pool,               (* for each name in it, the value and the observers *)
  user,               (* for each process, its lists and its life *)
  calling,            (* ... the call that it makes *)
  seen,               (* ... for each name, the value it has read last *)
  since,              (* ... the value there was when it became an observer *)
  changes

poolVars == << pool, user, calling, seen, since, changes >>

NoCall == [pc |-> "idle", name |-> NoName, observers |-> {}]

PoolInit ==
  /\ pool = << >>
  /\ user = [u \in Users |-> [life |-> "alive", owned |-> {}, used |-> {},
                              observed |-> {}]]
  /\ calling = [u \in Users |-> NoCall]
  /\ seen = [u \in Users |-> [n \in Names |-> 0]]
  /\ since = [u \in Users |-> [n \in Names |-> 0]]
  /\ changes = 0

Present(n) == n \in DOMAIN pool

(* The process may call: it has declared the name, or created it. *)
MayCall(u, n) ==
  /\ user[u].life = "alive" /\ calling[u].pc = "idle"
  /\ n \in user[u].owned \cup user[u].used

With(n, resource) == [m \in DOMAIN pool \cup {n} |-> IF m = n THEN resource ELSE pool[m]]

-----------------------------------------------------------------------------
(* The calls that hold the lock from begin to end.                         *)

(* The name is owned also when the pool has it from another process. *)
create_resource(u, n) ==
  /\ user[u].life = "alive" /\ calling[u].pc = "idle" /\ changes < MaxChanges
  /\ user' = [user EXCEPT ![u].owned = @ \cup {n}]
  /\ IF Present(n)
     THEN UNCHANGED << pool, changes >>
     ELSE /\ pool' = With(n, [value |-> changes + 1, observers |-> {}])
          /\ changes' = changes + 1
  /\ UNCHANGED << calling, seen, since >>

use_resource(u, n) ==
  /\ user[u].life = "alive" /\ calling[u].pc = "idle" /\ n \notin user[u].used
  /\ user' = [user EXCEPT ![u].used = @ \cup {n}]
  /\ UNCHANGED << pool, calling, seen, since, changes >>

get_resource(u, n) ==
  /\ MayCall(u, n) /\ n \in user[u].used /\ Present(n)
  /\ seen' = [seen EXCEPT ![u][n] = pool[n].value]
  /\ UNCHANGED << pool, user, calling, since, changes >>

(* An observer reads what it observes when it is called back, and has      *)
(* declared that it uses it.                                               *)
observe_resource(u, n) ==
  /\ MayCall(u, n) /\ n \in user[u].used /\ Present(n)
  /\ pool' = [pool EXCEPT ![n].observers = @ \cup {u}]
  /\ user' = [user EXCEPT ![u].observed = @ \cup {n}]
  /\ since' = [since EXCEPT ![u][n] = pool[n].value]
  /\ UNCHANGED << calling, seen, changes >>

-----------------------------------------------------------------------------
(* set_resource() and notify_observers(): the lock is released before the  *)
(* observers are called, with what find() returned.                        *)

Begins(u, n) == calling' = [calling EXCEPT ![u] = [NoCall EXCEPT !.pc = "found", !.name = n]]

set_resource(u, n) ==
  /\ MayCall(u, n) /\ Present(n) /\ changes < MaxChanges
  /\ changes' = changes + 1
  /\ pool' = [pool EXCEPT ![n].value = changes + 1]
  /\ Begins(u, n)
  /\ UNCHANGED << user, seen, since >>

notify_observers(u, n) ==
  /\ MayCall(u, n) /\ Present(n)
  /\ Begins(u, n)
  /\ UNCHANGED << pool, user, seen, since, changes >>

(* A mutant of Signal: who made the change is not told of it. *)
SignalOthers(u) ==
  LET n == calling[u].name IN
  /\ calling[u].pc = "found"
  /\ \E observers \in IF Present(n) THEN {pool[n].observers \ {u}} ELSE SUBSET Users :
       calling' = [calling EXCEPT ![u].pc = "calling", ![u].observers = observers]
  /\ UNCHANGED << pool, user, seen, since, changes >>

(* The signal is called with the observers that it has at this moment.  A  *)
(* resource that was deleted is read all the same. *)
Signal(u) ==
  LET n == calling[u].name IN
  /\ calling[u].pc = "found"
  /\ \E observers \in IF Present(n) THEN {pool[n].observers} ELSE SUBSET Users :
       calling' = [calling EXCEPT ![u].pc = "calling", ![u].observers = observers]
  /\ UNCHANGED << pool, user, seen, since, changes >>

(* One observer is called, and gets the value; one that has disconnected   *)
(* in the meantime is passed over. *)
Notify(u, observer) ==
  LET n == calling[u].name IN
  /\ calling[u].pc = "calling" /\ observer \in calling[u].observers
  /\ seen' = IF n \in user[observer].observed /\ Present(n)
             THEN [seen EXCEPT ![observer][n] = pool[n].value] ELSE seen
  /\ calling' = [calling EXCEPT ![u].observers = @ \ {observer}]
  /\ UNCHANGED << pool, user, since, changes >>

CallEnds(u) ==
  /\ calling[u].pc = "calling" /\ calling[u].observers = {}
  /\ calling' = [calling EXCEPT ![u] = NoCall]
  /\ UNCHANGED << pool, user, seen, since, changes >>

-----------------------------------------------------------------------------
(* The destructor: first the observers are disconnected, then the owned    *)
(* resources are deleted, one after the other.                             *)

Destroy(u) ==
  /\ user[u].life = "alive" /\ calling[u].pc = "idle"
  /\ DestroyedRunning \/ \A other \in Users : calling[other].pc = "idle"
  /\ user' = [user EXCEPT ![u].life = "destroying", ![u].observed = {}]
  /\ pool' = [n \in DOMAIN pool |->
       IF n \in user[u].observed THEN [pool[n] EXCEPT !.observers = @ \ {u}]
       ELSE pool[n]]
  /\ UNCHANGED << calling, seen, since, changes >>

delete_resource(u, n) ==
  /\ user[u].life = "destroying" /\ n \in user[u].owned
  /\ pool' = Restrict(pool, DOMAIN pool \ {n})
  /\ user' = [user EXCEPT ![u].owned = @ \ {n}]
  /\ UNCHANGED << calling, seen, since, changes >>

(* A mutant of Destroyed: what is owned stays. *)
DestroyedWithoutDeleting(u) ==
  /\ user[u].life = "destroying"
  /\ user' = [user EXCEPT ![u].life = "destroyed", ![u].owned = {}]
  /\ UNCHANGED << pool, calling, seen, since, changes >>

Destroyed(u) ==
  /\ user[u].life = "destroying" /\ user[u].owned = {}
  /\ user' = [user EXCEPT ![u].life = "destroyed"]
  /\ UNCHANGED << pool, calling, seen, since, changes >>

PoolNext ==
  \E u \in Users :
    \/ \E n \in Names :
         \/ create_resource(u, n) \/ use_resource(u, n) \/ get_resource(u, n)
         \/ observe_resource(u, n) \/ set_resource(u, n) \/ notify_observers(u, n)
         \/ delete_resource(u, n)
    \/ \E observer \in Users : Notify(u, observer)
    \/ Signal(u) \/ CallEnds(u) \/ Destroy(u) \/ Destroyed(u)

PoolSpec == PoolInit /\ [][PoolNext]_poolVars

-----------------------------------------------------------------------------
(* Properties.                                                             *)

(* When no change is being announced, an observer has read the value that  *)
(* there is, whatever the order in which two changes were announced; only  *)
(* what it found when it became an observer it may not have read.          *)
ObserversUpToDate ==
  \A n \in DOMAIN pool :
    (\A u \in Users : calling[u].name # n) =>
      \A observer \in pool[n].observers :
        pool[n].value \in {seen[observer][n], since[observer][n]}

(* A resource that is in the pool belongs to a process that will delete    *)
(* it: none outlives the processes that have tried to create it.           *)
NoOrphans ==
  \A n \in DOMAIN pool : \E u \in Users : n \in user[u].owned

(* "Resources created by this method are owned by the process and are      *)
(* deleted when the process is destroyed" (resource_user.h:111): by no     *)
(* other process, and not while a call still uses what it found.           *)
FoundIsPresent == \A u \in Users : calling[u].pc # "idle" => Present(calling[u].name)
=============================================================================
