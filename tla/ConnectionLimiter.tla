-------------------------- MODULE ConnectionLimiter --------------------------
(***************************************************************************)
(* What the connection pool promises its callers, without semaphores,      *)
(* counters or task scheduling: for every upstream at most Capacity[u]     *)
(* tasks use a connection, and tasks that have to wait are admitted in the *)
(* order in which they asked.                                              *)
(***************************************************************************)
EXTENDS Naturals, Sequences, FiniteSets, SequencesExt

CONSTANTS Requests,     \* the tasks that ask for connections
          Capacity      \* a function from the upstreams to Nat

VARIABLES inUse,        \* inUse[u]: the tasks that hold a slot of u
          line          \* line[u]: the tasks waiting for a slot of u, in order

limiterVars == <<inUse, line>>

LimiterInit ==
    /\ inUse = [u \in DOMAIN Capacity |-> {}]
    /\ line = [u \in DOMAIN Capacity |-> <<>>]

Absent(r) == \A u \in DOMAIN Capacity : r \notin inUse[u] /\ r \notin ToSet(line[u])

Enter(r, u) ==
    /\ Absent(r)
    /\ line[u] = <<>> /\ Cardinality(inUse[u]) < Capacity[u]
    /\ inUse' = [inUse EXCEPT ![u] = @ \cup {r}]
    /\ UNCHANGED line

Queue(r, u) ==
    /\ Absent(r)
    /\ Cardinality(inUse[u]) >= Capacity[u]
    /\ line' = [line EXCEPT ![u] = Append(@, r)]
    /\ UNCHANGED inUse

(* A task that leaves makes room for the first of the line, at once.        *)
Leave(r, u) ==
    /\ r \in inUse[u]
    /\ \/ /\ line[u] = <<>>
          /\ inUse' = [inUse EXCEPT ![u] = @ \ {r}]
          /\ UNCHANGED line
       \/ /\ line[u] # <<>>
          /\ inUse' = [inUse EXCEPT ![u] = (@ \ {r}) \cup {Head(line[u])}]
          /\ line' = [line EXCEPT ![u] = Tail(@)]

GiveUp(r, u) ==
    /\ \E i \in DOMAIN line[u] :
          /\ line[u][i] = r
          /\ line' = [line EXCEPT ![u] = RemoveAt(@, i)]
    /\ UNCHANGED inUse

LimiterNext ==
    \E r \in Requests, u \in DOMAIN Capacity :
        Enter(r, u) \/ Queue(r, u) \/ Leave(r, u) \/ GiveUp(r, u)

LimiterSpec == LimiterInit /\ [][LimiterNext]_limiterVars
=============================================================================
