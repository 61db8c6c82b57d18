--------------------------- MODULE ConnectionPool ---------------------------
(***************************************************************************)
(* The per-upstream connection pools of crates/proxy/src/connection.rs.    *)
(* Each upstream has a tokio semaphore (fair: permits are handed to the    *)
(* first waiter, newcomers never overtake) and, under a lock of its own,   *)
(* the counter active_connections.  A task that calls acquire goes through *)
(*                                                                         *)
(*    idle -> [queued -> granted ->] admitted -> held -> dropping -> idle  *)
(*                                                                         *)
(* "granted" is a waiter whose permit was handed over but that was not     *)
(* polled yet, "admitted" a task that returned from the await and did not  *)
(* count itself yet, "dropping" one whose Drop decremented the counter     *)
(* while its permit field is still alive.  The future of a waiter may be   *)
(* dropped at its only await point (queued or granted).                    *)
(* A monitoring task computes total_active one pool at a time.             *)
(***************************************************************************)
EXTENDS Naturals, Sequences, FiniteSets, SequencesExt

CONSTANTS Requests,         \* tasks that use the pool
          Pooled,           \* ids of the upstreams in the configuration
          UnknownIds,       \* ids that no configured upstream has
          MaxConnections,   \* upstream.max_connections, or Unset
          Unset,            \* the Option is None
          DefaultMax        \* the default of connection.rs (100)

ASSUME PoolAssumption ==
    /\ IsFiniteSet(Requests)
    /\ IsFiniteSet(Pooled)
    /\ Pooled \cap UnknownIds = {}
    /\ DefaultMax \in Nat
    /\ Unset \notin Nat
    /\ MaxConnections \in [Pooled -> Nat \cup {Unset}]

(* The number of permits ConnectionPool::new gives each semaphore.          *)
Capacity ==
    [u \in Pooled |-> IF MaxConnections[u] = Unset THEN DefaultMax
                                                   ELSE MaxConnections[u]]

VARIABLES pc,       \* pc[r]: how far task r is
          target,   \* target[r]: the upstream r asked for last
          permits,  \* permits[u]: free permits of u's semaphore
          queue,    \* queue[u]: the semaphore's waiters, in order
          active,   \* active[u]: *active_connections of u
          sweep,    \* the pools total_active has yet to read
          total     \* the sum total_active has so far

poolVars == <<pc, target, permits, queue, active, sweep, total>>

Stages == {"idle", "refused", "queued", "granted", "admitted", "held", "dropping"}
Using == {"granted", "admitted", "held", "dropping"}   \* stages that own a permit

Users(u) == {r \in Requests : target[r] = u /\ pc[r] \in Using}
Holders(u) == {r \in Requests : target[r] = u /\ pc[r] = "held"}

PoolInit ==
    /\ pc = [r \in Requests |-> "idle"]
    /\ target \in [Requests -> Pooled]
    /\ permits = Capacity
    /\ queue = [u \in Pooled |-> <<>>]
    /\ active = [u \in Pooled |-> 0]
    /\ sweep = {}
    /\ total = 0

-----------------------------------------------------------------------------
(* acquire: the early return for an id that has no pool.                    *)
AcquireUnknown(r) ==
    /\ pc[r] = "idle"
    /\ UnknownIds # {}
    /\ pc' = [pc EXCEPT ![r] = "refused"]
    /\ UNCHANGED <<target, permits, queue, active, sweep, total>>

Refused(r) ==
    /\ pc[r] = "refused"
    /\ pc' = [pc EXCEPT ![r] = "idle"]
    /\ UNCHANGED <<target, permits, queue, active, sweep, total>>

(* acquire, first poll of acquire_owned: take a free permit or join the     *)
(* waiters.                                                                 *)
AcquireUnchecked(r, u) ==   \* mutant: takes a permit without looking
    /\ pc[r] = "idle"
    /\ permits' = [permits EXCEPT ![u] = @ - 1]
    /\ target' = [target EXCEPT ![r] = u]
    /\ pc' = [pc EXCEPT ![r] = "admitted"]
    /\ UNCHANGED <<queue, active, sweep, total>>

AcquireAtOnce(r, u) ==
    /\ pc[r] = "idle"
    /\ permits[u] > 0
    /\ permits' = [permits EXCEPT ![u] = @ - 1]
    /\ target' = [target EXCEPT ![r] = u]
    /\ pc' = [pc EXCEPT ![r] = "admitted"]
    /\ UNCHANGED <<queue, active, sweep, total>>

AcquireWaits(r, u) ==
    /\ pc[r] = "idle"
    /\ permits[u] = 0
    /\ queue' = [queue EXCEPT ![u] = Append(@, r)]
    /\ target' = [target EXCEPT ![r] = u]
    /\ pc' = [pc EXCEPT ![r] = "queued"]
    /\ UNCHANGED <<permits, active, sweep, total>>

(* The waiter that was handed a permit is polled and leaves the await.      *)
Resume(r) ==
    /\ pc[r] = "granted"
    /\ pc' = [pc EXCEPT ![r] = "admitted"]
    /\ UNCHANGED <<target, permits, queue, active, sweep, total>>

(* *count += 1 under the write lock; the handle is returned.                *)
CountIn(r) ==
    /\ pc[r] = "admitted"
    /\ active' = [active EXCEPT ![target[r]] = @ + 1]
    /\ pc' = [pc EXCEPT ![r] = "held"]
    /\ UNCHANGED <<target, permits, queue, sweep, total>>

(* Drop::drop of the handle: the guarded decrement under the write lock.    *)
Decremented(n) == IF n > 0 THEN n - 1 ELSE n

CountOut(r) ==
    /\ pc[r] = "held"
    /\ active' = [active EXCEPT ![target[r]] = Decremented(@)]
    /\ pc' = [pc EXCEPT ![r] = "dropping"]
    /\ UNCHANGED <<target, permits, queue, sweep, total>>

(* The semaphore takes back the permit of task r: it is handed to the first *)
(* waiter under the semaphore's lock, or becomes free when nobody waits.    *)
GiveBackTwice(r, u) ==      \* mutant: hands the permit over and frees it too
    /\ permits' = [permits EXCEPT ![u] = @ + 1]
    /\ IF queue[u] = <<>>
       THEN pc' = [pc EXCEPT ![r] = "idle"] /\ UNCHANGED queue
       ELSE /\ pc' = [pc EXCEPT ![r] = "idle", ![Head(queue[u])] = "granted"]
            /\ queue' = [queue EXCEPT ![u] = Tail(@)]

GiveBackSilently(r, u) ==   \* mutant: frees the permit and wakes nobody
    /\ permits' = [permits EXCEPT ![u] = @ + 1]
    /\ pc' = [pc EXCEPT ![r] = "idle"]
    /\ UNCHANGED queue

GiveBackToLast(r, u) ==     \* mutant: serves the line from its end
    \/ /\ queue[u] = <<>>
       /\ permits' = [permits EXCEPT ![u] = @ + 1]
       /\ pc' = [pc EXCEPT ![r] = "idle"]
       /\ UNCHANGED queue
    \/ /\ queue[u] # <<>>
       /\ pc' = [pc EXCEPT ![r] = "idle", ![Last(queue[u])] = "granted"]
       /\ queue' = [queue EXCEPT ![u] = Front(@)]
       /\ UNCHANGED permits

GiveBack(r, u) ==
    \/ /\ queue[u] = <<>>
       /\ permits' = [permits EXCEPT ![u] = @ + 1]
       /\ pc' = [pc EXCEPT ![r] = "idle"]
       /\ UNCHANGED queue
    \/ /\ queue[u] # <<>>
       /\ pc' = [pc EXCEPT ![r] = "idle", ![Head(queue[u])] = "granted"]
       /\ queue' = [queue EXCEPT ![u] = Tail(@)]
       /\ UNCHANGED permits

(* After Drop::drop the fields are dropped, _permit among them.             *)
DropPermit(r) ==
    /\ pc[r] = "dropping"
    /\ GiveBack(r, target[r])
    /\ UNCHANGED <<target, active, sweep, total>>

(* The caller's future is dropped at the await: a waiter leaves the line, a *)
(* permit that was already handed over goes back to the semaphore.          *)
CancelWaiting(r) ==
    /\ pc[r] = "queued"
    /\ \E i \in DOMAIN queue[target[r]] :
          /\ queue[target[r]][i] = r
          /\ queue' = [queue EXCEPT ![target[r]] = RemoveAt(@, i)]
    /\ pc' = [pc EXCEPT ![r] = "idle"]
    /\ UNCHANGED <<target, permits, active, sweep, total>>

CancelCountsOut(r) ==       \* mutant: a cancelled hand-over decrements the counter
    /\ pc[r] = "granted"
    /\ GiveBack(r, target[r])
    /\ active' = [active EXCEPT ![target[r]] = Decremented(@)]
    /\ UNCHANGED <<target, sweep, total>>

CancelGranted(r) ==
    /\ pc[r] = "granted"
    /\ GiveBack(r, target[r])
    /\ UNCHANGED <<target, active, sweep, total>>

-----------------------------------------------------------------------------
(* total_active: iterate over the pools, reading each counter under its own *)
(* lock while connections come and go.                                      *)
StartTotalDirty ==          \* mutant: the sum of the last sweep is not reset
    /\ sweep = {}
    /\ sweep' = Pooled
    /\ UNCHANGED <<pc, target, permits, queue, active, total>>

StartTotal ==
    /\ sweep = {}
    /\ sweep' = Pooled
    /\ total' = 0
    /\ UNCHANGED <<pc, target, permits, queue, active>>

ReadOne(u) ==
    /\ u \in sweep
    /\ sweep' = sweep \ {u}
    /\ total' = total + active[u]
    /\ UNCHANGED <<pc, target, permits, queue, active>>

-----------------------------------------------------------------------------
RequestStep(r) ==
    \/ AcquireUnknown(r)
    \/ Refused(r)
    \/ \E u \in Pooled : AcquireAtOnce(r, u) \/ AcquireWaits(r, u)
    \/ Resume(r)
    \/ CountIn(r)
    \/ CountOut(r)
    \/ DropPermit(r)
    \/ CancelWaiting(r)
    \/ CancelGranted(r)

PoolNext ==
    \/ \E r \in Requests : RequestStep(r)
    \/ StartTotal
    \/ \E u \in Pooled : ReadOne(u)

PoolSpec == PoolInit /\ [][PoolNext]_poolVars

(* The runtime polls a woken task, a running task runs on, and the request  *)
(* that holds a connection ends (its upstream call has a timeout).  Nothing *)
(* forces a task to ask, to give up or to compute the total.                *)
FairPoolSpec ==
    /\ PoolSpec
    /\ \A r \in Requests : WF_poolVars(Resume(r) \/ CountIn(r) \/ CountOut(r) \/ DropPermit(r))

-----------------------------------------------------------------------------
(* Every variable keeps its type; the shape of the state of                 *)
(* connection.rs:11-21 and 89-93.                                           *)
PoolTypeOK ==
    /\ pc \in [Requests -> Stages]
    /\ target \in [Requests -> Pooled]
    /\ permits \in [Pooled -> Nat]
    /\ queue \in [Pooled -> Seq(Requests)]
    /\ active \in [Pooled -> Nat]
    /\ sweep \in SUBSET Pooled
    /\ total \in Nat

(* The counter that active_count reports never exceeds the upstream's       *)
(* max_connections.  It holds because a handle counts itself only while it  *)
(* owns a permit: it increments after the await (l.53) and decrements in    *)
(* Drop::drop, before its permit field is dropped (l.97-100).               *)
CountWithinCapacity == \A u \in Pooled : active[u] <= Capacity[u]

(* The counter is exactly the number of live handles, so that the guard at  *)
(* l.98 never hides a lost increment, whatever waits are cancelled.         *)
HandlesCounted == \A u \in Pooled : active[u] = Cardinality(Holders(u))

(* No permit is lost or made up: free permits and permits owned by tasks,   *)
(* cancelled hand-overs included, always add up to the capacity.            *)
PermitsConserved ==
    \A u \in Pooled : permits[u] + Cardinality(Users(u)) = Capacity[u]

(* No lost wake-up: no task waits while a permit of its upstream is free.   *)
NoIdlePermit == \A u \in Pooled : queue[u] # <<>> => permits[u] = 0

(* The waiters of u are exactly tasks that queued for u, each once.         *)
QueueOfWaiters ==
    \A u \in Pooled : \A i \in DOMAIN queue[u] :
        /\ pc[queue[u][i]] = "queued"
        /\ target[queue[u][i]] = u
        /\ \A j \in DOMAIN queue[u] : queue[u][j] = queue[u][i] => i = j

(* The inductive invariant: what the counter and the permits count, and     *)
(* what the semaphore's line consists of.                                   *)
PoolInv ==
    /\ PoolTypeOK
    /\ QueueOfWaiters
    /\ NoIdlePermit
    /\ PermitsConserved
    /\ HandlesCounted

(* A finished sweep of total_active, however it interleaves with the        *)
(* requests, reports no more than all upstreams together may have; at any   *)
(* time, no more than the upstreams it has read.                            *)
PermitsOf(U) == UNION {{u} \X (1..Capacity[u]) : u \in U}
TotalWithinCapacity == total <= Cardinality(PermitsOf(Pooled \ sweep))

(* Every task that waits is eventually handed a permit, or gave up, as long *)
(* as its upstream allows at least one connection.                          *)
WaiterLeavesQueue ==
    \A r \in Requests :
        (pc[r] = "queued" /\ Capacity[target[r]] > 0) ~> (pc[r] # "queued")

(* The pool implements the limiter: a task uses a slot from the hand-over   *)
(* of its permit until the permit is dropped, and the line is the queue.    *)
Limiter == INSTANCE ConnectionLimiter
               WITH inUse <- [u \in Pooled |-> Users(u)], line <- queue
ImplementsLimiter == Limiter!LimiterSpec
=============================================================================
