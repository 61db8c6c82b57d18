------------------------ MODULE ConnectionPoolProofs ------------------------
EXTENDS ConnectionPool, SequenceTheorems, FiniteSetTheorems, TLAPS

(* What removing one element leaves of a sequence: the elements before it,  *)
(* then those after it, one place earlier.                                  *)
LEMMA RemoveAtElements ==
    ASSUME NEW S, NEW s \in Seq(S), NEW i \in 1..Len(s)
    PROVE  /\ RemoveAt(s, i) \in Seq(S)
           /\ Len(RemoveAt(s, i)) = Len(s) - 1
           /\ \A j \in 1..(Len(s) - 1) :
                 RemoveAt(s, i)[j] = IF j < i THEN s[j] ELSE s[j + 1]
<1> DEFINE front == SubSeq(s, 1, i - 1)
           back == SubSeq(s, i + 1, Len(s))
<1>1. /\ front \in Seq(S) /\ Len(front) = i - 1
      /\ \A j \in 1..(i - 1) : front[j] = s[j]
  OBVIOUS
<1>2. /\ back \in Seq(S) /\ Len(back) = Len(s) - i
      /\ \A j \in 1..(Len(s) - i) : back[j] = s[i + j]
  OBVIOUS
<1>3. RemoveAt(s, i) = front \o back
  BY DEF RemoveAt
<1> HIDE DEF front, back
<1>4. front \o back \in Seq(S)
  BY <1>1, <1>2, ConcatProperties
<1>5. Len(front \o back) = Len(s) - 1
  <2>1. Len(front \o back) = Len(front) + Len(back)
    BY <1>1, <1>2, ConcatProperties
  <2> QED BY <1>1, <1>2, <2>1
<1>6. ASSUME NEW j \in 1..(Len(s) - 1)
      PROVE  (front \o back)[j] = IF j <= i - 1 THEN front[j] ELSE back[j - (i - 1)]
  <2>1. j \in 1..(Len(front) + Len(back))
    BY <1>1, <1>2
  <2>2. (front \o back)[j] = IF j <= Len(front) THEN front[j] ELSE back[j - Len(front)]
    BY <1>1, <1>2, <2>1, ConcatProperties
  <2> QED BY <1>1, <2>2
<1>7. ASSUME NEW j \in 1..(Len(s) - 1)
      PROVE  RemoveAt(s, i)[j] = IF j < i THEN s[j] ELSE s[j + 1]
  <2>1. CASE j < i
    <3>1. j <= i - 1 /\ j \in 1..(i - 1)
      BY <2>1
    <3>2. RemoveAt(s, i)[j] = front[j]
      BY <1>3, <1>6, <3>1
    <3> QED BY <1>1, <2>1, <3>1, <3>2
  <2>2. CASE ~(j < i)
    <3>1. ~(j <= i - 1) /\ j - (i - 1) \in 1..(Len(s) - i) /\ i + (j - (i - 1)) = j + 1
      BY <2>2
    <3>2. RemoveAt(s, i)[j] = back[j - (i - 1)]
      BY <1>3, <1>6, <3>1
    <3>3. back[j - (i - 1)] = s[j + 1]
      BY <1>2, <3>1
    <3> QED BY <2>2, <3>2, <3>3
  <2> QED BY <2>1, <2>2
<1> QED BY <1>3, <1>4, <1>5, <1>7

-----------------------------------------------------------------------------
(* Capacity is a function to the naturals.                                  *)
LEMMA CapacityType == Capacity \in [Pooled -> Nat]
BY PoolAssumption DEF Capacity

LEMMA UsersFinite ==
    ASSUME NEW u \in Pooled
    PROVE  /\ IsFiniteSet(Users(u)) /\ Cardinality(Users(u)) \in Nat
           /\ IsFiniteSet(Holders(u)) /\ Cardinality(Holders(u)) \in Nat
           /\ Cardinality(Holders(u)) <= Cardinality(Users(u))
<1>1. Users(u) \in SUBSET Requests /\ Holders(u) \in SUBSET Users(u)
  BY DEF Users, Holders, Using
<1>2. IsFiniteSet(Users(u))
  BY <1>1, PoolAssumption, FS_Subset
<1> QED BY <1>1, <1>2, FS_Subset, FS_CardinalityType

(* A semaphore that takes a permit back keeps the types.                    *)
LEMMA GiveBackType ==
    ASSUME PoolTypeOK, NEW r \in Requests, NEW u \in Pooled, GiveBack(r, u)
    PROVE  /\ pc' \in [Requests -> Stages]
           /\ permits' \in [Pooled -> Nat]
           /\ queue' \in [Pooled -> Seq(Requests)]
<1>1. CASE queue[u] = <<>>
  <2>1. /\ permits' = [permits EXCEPT ![u] = @ + 1]
        /\ pc' = [pc EXCEPT ![r] = "idle"]
        /\ queue' = queue
    BY <1>1 DEF GiveBack
  <2> QED BY <2>1 DEF PoolTypeOK, Stages
<1>2. CASE queue[u] # <<>>
  <2>1. Head(queue[u]) \in Requests /\ Tail(queue[u]) \in Seq(Requests)
    BY <1>2 DEF PoolTypeOK
  <2>2. /\ permits' = permits
        /\ pc' = [pc EXCEPT ![r] = "idle", ![Head(queue[u])] = "granted"]
        /\ queue' = [queue EXCEPT ![u] = Tail(@)]
    BY <1>2 DEF GiveBack
  <2> QED BY <2>1, <2>2 DEF PoolTypeOK, Stages
<1> QED BY <1>1, <1>2

(* Every step keeps the types.                                              *)
LEMMA TypeStep == PoolTypeOK /\ [PoolNext]_poolVars => PoolTypeOK'
<1> SUFFICES ASSUME PoolTypeOK, [PoolNext]_poolVars PROVE PoolTypeOK'
  OBVIOUS
<1>1. ASSUME NEW r \in Requests, AcquireUnknown(r) \/ Refused(r) \/ Resume(r)
      PROVE  PoolTypeOK'
  BY <1>1 DEF PoolTypeOK, AcquireUnknown, Refused, Resume, Stages
<1>2. ASSUME NEW r \in Requests, NEW u \in Pooled, AcquireAtOnce(r, u)
      PROVE  PoolTypeOK'
  BY <1>2 DEF PoolTypeOK, AcquireAtOnce, Stages
<1>3. ASSUME NEW r \in Requests, NEW u \in Pooled, AcquireWaits(r, u)
      PROVE  PoolTypeOK'
  BY <1>3 DEF PoolTypeOK, AcquireWaits, Stages
<1>4. ASSUME NEW r \in Requests, CountIn(r) PROVE PoolTypeOK'
  BY <1>4 DEF PoolTypeOK, CountIn, Stages
<1>5. ASSUME NEW r \in Requests, CountOut(r) PROVE PoolTypeOK'
  BY <1>5 DEF PoolTypeOK, CountOut, Decremented, Stages
<1>6. ASSUME NEW r \in Requests, DropPermit(r) \/ CancelGranted(r) PROVE PoolTypeOK'
  <2>1. target[r] \in Pooled
    BY DEF PoolTypeOK
  <2>2. GiveBack(r, target[r])
    BY <1>6 DEF DropPermit, CancelGranted
  <2>3. UNCHANGED <<target, active, sweep, total>>
    BY <1>6 DEF DropPermit, CancelGranted
  <2> QED BY <2>1, <2>2, <2>3, GiveBackType DEF PoolTypeOK
<1>7. ASSUME NEW r \in Requests, CancelWaiting(r) PROVE PoolTypeOK'
  <2>1. PICK i \in DOMAIN queue[target[r]] :
             queue' = [queue EXCEPT ![target[r]] = RemoveAt(@, i)]
    BY <1>7 DEF CancelWaiting
  <2>2. target[r] \in Pooled /\ queue[target[r]] \in Seq(Requests)
    BY DEF PoolTypeOK
  <2>3. RemoveAt(queue[target[r]], i) \in Seq(Requests)
    BY <2>1, <2>2, RemoveAtElements
  <2> QED BY <1>7, <2>1, <2>2, <2>3 DEF PoolTypeOK, CancelWaiting, Stages
<1>8. ASSUME StartTotal \/ \E u \in Pooled : ReadOne(u) PROVE PoolTypeOK'
  BY <1>8 DEF PoolTypeOK, StartTotal, ReadOne
<1>9. CASE UNCHANGED poolVars
  BY <1>9 DEF PoolTypeOK, poolVars
<1> QED BY <1>1, <1>2, <1>3, <1>4, <1>5, <1>6, <1>7, <1>8, <1>9 DEF PoolNext, RequestStep

LEMMA TypeInit == PoolInit => PoolTypeOK
BY CapacityType DEF PoolInit, PoolTypeOK, Stages

(* The state of the pool keeps its type, for every set of requests and      *)
(* every configuration of upstreams.                                        *)
THEOREM TypeCorrect == PoolSpec => []PoolTypeOK
BY TypeInit, TypeStep, PTL DEF PoolSpec

-----------------------------------------------------------------------------
(* What each step does to the tasks that own a permit or hold a connection. *)
(* Steps that move no task into or out of these stages leave them alone.    *)
LEMMA SameUsers ==
    ASSUME PoolTypeOK, NEW r \in Requests, NEW v \in Pooled,
           \/ AcquireUnknown(r) \/ Refused(r) \/ Resume(r) \/ CancelWaiting(r)
           \/ \E u \in Pooled : AcquireWaits(r, u)
    PROVE  Users(v)' = Users(v) /\ Holders(v)' = Holders(v)
BY DEF PoolTypeOK, Users, Holders, Using, AcquireUnknown, Refused, Resume,
       CancelWaiting, AcquireWaits

LEMMA AcquireUsers ==
    ASSUME PoolTypeOK, NEW r \in Requests, NEW u \in Pooled, AcquireAtOnce(r, u)
    PROVE  /\ r \notin Users(u)
           /\ Users(u)' = Users(u) \cup {r}
           /\ \A v \in Pooled : v # u => Users(v)' = Users(v)
           /\ \A v \in Pooled : Holders(v)' = Holders(v)
BY DEF PoolTypeOK, Users, Holders, Using, AcquireAtOnce

LEMMA CountInUsers ==
    ASSUME PoolTypeOK, NEW r \in Requests, NEW u \in Pooled, target[r] = u,
           CountIn(r)
    PROVE  /\ r \notin Holders(u)
           /\ Holders(u)' = Holders(u) \cup {r}
           /\ \A v \in Pooled : v # u => Holders(v)' = Holders(v)
           /\ \A v \in Pooled : Users(v)' = Users(v)
BY DEF PoolTypeOK, Users, Holders, Using, CountIn

LEMMA CountOutUsers ==
    ASSUME PoolTypeOK, NEW r \in Requests, NEW u \in Pooled, target[r] = u,
           CountOut(r)
    PROVE  /\ r \in Holders(u)
           /\ Holders(u)' = Holders(u) \ {r}
           /\ \A v \in Pooled : v # u => Holders(v)' = Holders(v)
           /\ \A v \in Pooled : Users(v)' = Users(v)
BY DEF PoolTypeOK, Users, Holders, Using, CountOut

(* A permit that comes back leaves r's upstream one user short, or with the *)
(* first waiter in r's place.                                               *)
LEMMA GiveBackUsers ==
    ASSUME PoolTypeOK, QueueOfWaiters, NEW r \in Requests, NEW u \in Pooled, target[r] = u,
           pc[r] \in {"granted", "dropping"}, GiveBack(r, u), UNCHANGED target
    PROVE  /\ r \in Users(u)
           /\ queue[u] = <<>> => Users(u)' = Users(u) \ {r}
           /\ queue[u] # <<>> =>
                 /\ Head(queue[u]) \in Requests \ Users(u)
                 /\ Users(u)' =
                       (Users(u) \ {r}) \cup {Head(queue[u])}
           /\ \A v \in Pooled : v # u => Users(v)' = Users(v)
           /\ \A v \in Pooled : Holders(v)' = Holders(v)
<1>1. r \in Users(u)
  BY DEF PoolTypeOK, Users, Using
<1>2. CASE queue[u] = <<>>
  <2>1. pc' = [pc EXCEPT ![r] = "idle"]
    BY <1>2 DEF GiveBack
  <2> QED BY <1>1, <1>2, <2>1 DEF PoolTypeOK, Users, Holders, Using
<1>3. CASE queue[u] # <<>>
  <2> DEFINE h == Head(queue[u])
  <2>1. pc' = [pc EXCEPT ![r] = "idle", ![h] = "granted"]
    BY <1>3 DEF GiveBack
  <2>2. h \in Requests /\ pc[h] = "queued" /\ target[h] = u
    <3>1. queue[u] \in Seq(Requests) /\ 1 \in DOMAIN queue[u] /\ h = queue[u][1]
      BY <1>1, <1>3 DEF PoolTypeOK
    <3> QED BY <1>1, <3>1 DEF QueueOfWaiters
  <2>3. h # r
    BY <2>2
  <2> HIDE DEF h
  <2>4. \A x \in Requests : pc'[x] = IF x = h THEN "granted"
                                       ELSE IF x = r THEN "idle" ELSE pc[x]
    BY <2>1, <2>2, <2>3 DEF PoolTypeOK
  <2>5. Users(u)' = (Users(u) \ {r}) \cup {h} /\ h \notin Users(u)
    BY <2>2, <2>4, <2>3 DEF Users, Using
  <2>6. \A v \in Pooled : v # u => Users(v)' = Users(v)
    BY <2>2, <2>4, <2>3 DEF Users, Using
  <2>7. \A v \in Pooled : Holders(v)' = Holders(v)
    BY <2>2, <2>4, <2>3 DEF Holders
  <2> QED BY <1>1, <1>3, <2>2, <2>5, <2>6, <2>7 DEF h
<1> QED BY <1>2, <1>3

-----------------------------------------------------------------------------
(* Permits and counters keep counting what they count.                      *)
LEMMA ConservedStep ==
    ASSUME PoolInv, [PoolNext]_poolVars
    PROVE  PermitsConserved' /\ HandlesCounted'
<1> USE DEF PoolInv
<1> SUFFICES ASSUME NEW v \in Pooled
             PROVE  /\ permits'[v] + Cardinality(Users(v)') = Capacity[v]
                    /\ active'[v] = Cardinality(Holders(v)')
  BY DEF PermitsConserved, HandlesCounted
<1>1. /\ permits[v] + Cardinality(Users(v)) = Capacity[v]
      /\ active[v] = Cardinality(Holders(v))
      /\ permits[v] \in Nat /\ active[v] \in Nat /\ Capacity[v] \in Nat
      /\ permits \in [Pooled -> Nat] /\ active \in [Pooled -> Nat]
  BY CapacityType DEF PermitsConserved, HandlesCounted, PoolTypeOK
<1>2. /\ IsFiniteSet(Users(v)) /\ Cardinality(Users(v)) \in Nat
      /\ IsFiniteSet(Holders(v)) /\ Cardinality(Holders(v)) \in Nat
  BY UsersFinite
<1>3. ASSUME NEW r \in Requests,
             \/ AcquireUnknown(r) \/ Refused(r) \/ Resume(r) \/ CancelWaiting(r)
             \/ \E u \in Pooled : AcquireWaits(r, u)
      PROVE  /\ permits'[v] + Cardinality(Users(v)') = Capacity[v]
             /\ active'[v] = Cardinality(Holders(v)')
  <2>1. permits' = permits /\ active' = active
    BY <1>3 DEF AcquireUnknown, Refused, Resume, CancelWaiting, AcquireWaits
  <2> QED BY <1>1, <1>3, <2>1, SameUsers
<1>4. ASSUME NEW r \in Requests, NEW u \in Pooled, AcquireAtOnce(r, u)
      PROVE  /\ permits'[v] + Cardinality(Users(v)') = Capacity[v]
             /\ active'[v] = Cardinality(Holders(v)')
  <2>1. permits[u] > 0 /\ permits' = [permits EXCEPT ![u] = @ - 1] /\ active' = active
    BY <1>4 DEF AcquireAtOnce
  <2>2. v = u => Cardinality(Users(v) \cup {r}) = Cardinality(Users(v)) + 1
    BY <1>2, <1>4, AcquireUsers, FS_AddElement
  <2>3. /\ Users(v)' = IF v = u THEN Users(v) \cup {r} ELSE Users(v)
        /\ Holders(v)' = Holders(v)
    BY <1>4, AcquireUsers
  <2>4. permits'[v] = IF v = u THEN permits[v] - 1 ELSE permits[v]
    BY <1>1, <2>1
  <2> QED BY <1>1, <1>2, <2>1, <2>2, <2>3, <2>4
<1>5. ASSUME NEW r \in Requests, CountIn(r)
      PROVE  /\ permits'[v] + Cardinality(Users(v)') = Capacity[v]
             /\ active'[v] = Cardinality(Holders(v)')
  <2>1. PICK u \in Pooled : u = target[r]
    BY DEF PoolTypeOK
  <2>2. permits' = permits /\ active' = [active EXCEPT ![u] = @ + 1]
    BY <1>5, <2>1 DEF CountIn
  <2>3. /\ u \in Pooled => r \notin Holders(u)
        /\ Holders(v)' = IF v = u THEN Holders(v) \cup {r} ELSE Holders(v)
        /\ Users(v)' = Users(v)
    BY <1>5, <2>1, CountInUsers
  <2>4. active'[v] = IF v = u THEN active[v] + 1 ELSE active[v]
    BY <1>1, <2>2
  <2>5. v = u => Cardinality(Holders(v) \cup {r}) = Cardinality(Holders(v)) + 1
    BY <1>2, <2>3, FS_AddElement
  <2> QED BY <1>1, <1>2, <2>2, <2>3, <2>4, <2>5
<1>6. ASSUME NEW r \in Requests, CountOut(r)
      PROVE  /\ permits'[v] + Cardinality(Users(v)') = Capacity[v]
             /\ active'[v] = Cardinality(Holders(v)')
  <2>1. PICK u \in Pooled : u = target[r]
    BY DEF PoolTypeOK
  <2>2. permits' = permits /\ active' = [active EXCEPT ![u] = Decremented(@)]
    BY <1>6, <2>1 DEF CountOut
  <2>3. /\ r \in Holders(u)
        /\ Holders(v)' = IF v = u THEN Holders(v) \ {r} ELSE Holders(v)
        /\ Users(v)' = Users(v)
    BY <1>6, <2>1, CountOutUsers
  <2>4. active'[v] = IF v = u THEN Decremented(active[v]) ELSE active[v]
    BY <1>1, <2>2
  <2>5. v = u =>
          /\ Cardinality(Holders(v) \ {r}) = Cardinality(Holders(v)) - 1
          /\ Cardinality(Holders(v)) # 0
    BY <1>2, <2>3, FS_RemoveElement, FS_EmptySet
  <2> QED BY <1>1, <1>2, <2>2, <2>3, <2>4, <2>5 DEF Decremented
<1>7. ASSUME NEW r \in Requests, DropPermit(r) \/ CancelGranted(r)
      PROVE  /\ permits'[v] + Cardinality(Users(v)') = Capacity[v]
             /\ active'[v] = Cardinality(Holders(v)')
  <2>1. PICK u \in Pooled : target[r] = u
    BY DEF PoolTypeOK
  <2>2. /\ pc[r] \in {"granted", "dropping"} /\ GiveBack(r, u)
        /\ target' = target /\ active' = active
    BY <1>7, <2>1 DEF DropPermit, CancelGranted
  <2>3. Holders(v)' = Holders(v) /\ (v # u => Users(v)' = Users(v))
    BY <2>1, <2>2, GiveBackUsers
  <2>4. CASE v # u
    <3>1. permits'[v] = permits[v]
      BY <1>1, <2>2, <2>4 DEF GiveBack
    <3> QED BY <1>1, <2>2, <2>3, <2>4, <3>1
  <2>5. CASE v = u /\ queue[u] = <<>>
    <3>1. permits'[v] = permits[v] + 1
      BY <1>1, <2>2, <2>5 DEF GiveBack
    <3>2. r \in Users(v) /\ Users(v)' = Users(v) \ {r}
      BY <2>1, <2>2, <2>5, GiveBackUsers
    <3>3. Cardinality(Users(v) \ {r}) = Cardinality(Users(v)) - 1
      BY <1>2, <3>2, FS_RemoveElement
    <3> QED BY <1>1, <1>2, <2>2, <2>3, <3>1, <3>2, <3>3
  <2>6. CASE v = u /\ queue[u] # <<>>
    <3> DEFINE h == Head(queue[u])
    <3>1. permits' = permits
      BY <2>2, <2>6 DEF GiveBack
    <3>2. /\ r \in Users(v) /\ h \notin Users(v) /\ Users(v)' = (Users(v) \ {r}) \cup {h}
      BY <2>1, <2>2, <2>6, GiveBackUsers
    <3> HIDE DEF h
    <3>3. /\ IsFiniteSet(Users(v) \ {r})
          /\ Cardinality(Users(v) \ {r}) = Cardinality(Users(v)) - 1
      BY <1>2, <3>2, FS_RemoveElement
    <3>4. Cardinality((Users(v) \ {r}) \cup {h}) = Cardinality(Users(v) \ {r}) + 1
      BY <3>2, <3>3, FS_AddElement
    <3> QED BY <1>1, <1>2, <2>2, <2>3, <3>1, <3>2, <3>3, <3>4
  <2> QED BY <2>4, <2>5, <2>6
<1>8. ASSUME \/ UNCHANGED poolVars \/ StartTotal \/ \E u \in Pooled : ReadOne(u)
      PROVE  /\ permits'[v] + Cardinality(Users(v)') = Capacity[v]
             /\ active'[v] = Cardinality(Holders(v)')
  BY <1>1, <1>8 DEF poolVars, StartTotal, ReadOne, Users, Holders
<1> QED BY <1>3, <1>4, <1>5, <1>6, <1>7, <1>8 DEF PoolNext, RequestStep

(* Nobody waits while a permit is free: a permit becomes free only when the *)
(* line is empty, and the line grows only when none is free.                *)
LEMMA NoIdlePermitStep == PoolTypeOK /\ NoIdlePermit /\ [PoolNext]_poolVars => NoIdlePermit'
<1> SUFFICES ASSUME PoolTypeOK, NoIdlePermit, [PoolNext]_poolVars,
                    NEW v \in Pooled, queue'[v] # <<>>
             PROVE  permits'[v] = 0
  BY DEF NoIdlePermit
<1> USE DEF PoolTypeOK
<1>1. queue[v] # <<>> => permits[v] = 0
  BY DEF NoIdlePermit
<1>2. ASSUME NEW r \in Requests, NEW u \in Pooled, AcquireAtOnce(r, u) \/ AcquireWaits(r, u)
      PROVE  permits'[v] = 0
  BY <1>1, <1>2 DEF AcquireAtOnce, AcquireWaits
<1>3. ASSUME NEW r \in Requests, NEW u \in Pooled, GiveBack(r, u)
      PROVE  permits'[v] = 0
  BY <1>1, <1>3 DEF GiveBack
<1>4. ASSUME NEW r \in Requests, CancelWaiting(r)
      PROVE  permits'[v] = 0
  <2>1. PICK i \in DOMAIN queue[target[r]] :
             queue' = [queue EXCEPT ![target[r]] = RemoveAt(@, i)]
    BY <1>4 DEF CancelWaiting
  <2>2. target[r] \in Pooled /\ queue[target[r]] # <<>>
    BY <2>1
  <2>3. permits' = permits /\ (v # target[r] => queue'[v] = queue[v])
    BY <1>4, <2>1 DEF CancelWaiting
  <2> QED BY <1>1, <2>2, <2>3
<1>5. ASSUME UNCHANGED <<permits, queue>> PROVE permits'[v] = 0
  BY <1>1, <1>5
<1> QED
  BY <1>2, <1>3, <1>4, <1>5 DEF PoolNext, RequestStep, AcquireUnknown, Refused, Resume,
     CountIn, CountOut, DropPermit, CancelGranted, StartTotal, ReadOne, poolVars

-----------------------------------------------------------------------------
(* The line stays a line of distinct waiters of its own upstream.           *)
LEMMA QueueStep ==
    ASSUME PoolTypeOK, QueueOfWaiters, [PoolNext]_poolVars
    PROVE  QueueOfWaiters'
<1> SUFFICES ASSUME NEW v \in Pooled, NEW i \in DOMAIN queue'[v]
             PROVE  /\ pc'[queue'[v][i]] = "queued"
                    /\ target'[queue'[v][i]] = v
                    /\ \A j \in DOMAIN queue'[v] : queue'[v][j] = queue'[v][i] => i = j
  BY DEF QueueOfWaiters
<1> DEFINE Goal == /\ pc'[queue'[v][i]] = "queued"
                   /\ target'[queue'[v][i]] = v
                   /\ \A j \in DOMAIN queue'[v] : queue'[v][j] = queue'[v][i] => i = j
<1>1. \A w \in Pooled : queue[w] \in Seq(Requests)
  BY DEF PoolTypeOK
<1>2. \A w \in Pooled : \A k \in DOMAIN queue[w] :
         /\ queue[w][k] \in Requests /\ pc[queue[w][k]] = "queued" /\ target[queue[w][k]] = w
         /\ \A j \in DOMAIN queue[w] : queue[w][j] = queue[w][k] => k = j
  BY <1>1 DEF QueueOfWaiters
<1>3. ASSUME NEW r \in Requests, pc[r] # "queued", queue' = queue,
             \A x \in Requests : x # r => pc'[x] = pc[x] /\ target'[x] = target[x]
      PROVE  Goal
  BY <1>2, <1>3
<1>4. ASSUME NEW r \in Requests, NEW u \in Pooled, AcquireWaits(r, u)
      PROVE  Goal
  <2>1. /\ pc[r] = "idle"
        /\ queue' = [queue EXCEPT ![u] = Append(queue[u], r)]
        /\ \A x \in Requests : x # r => pc'[x] = pc[x] /\ target'[x] = target[x]
        /\ pc'[r] = "queued" /\ target'[r] = u
    BY <1>4 DEF AcquireWaits, PoolTypeOK
  <2>2. CASE v # u
    <3>1. queue'[v] = queue[v]
      BY <2>1, <2>2 DEF PoolTypeOK
    <3> QED BY <1>2, <2>1, <3>1
  <2>3. CASE v = u
    <3>1. queue'[v] = Append(queue[v], r)
      BY <2>1, <2>3 DEF PoolTypeOK
    <3>2. \A k \in DOMAIN queue'[v] :
             \/ k \in DOMAIN queue[v] /\ queue'[v][k] = queue[v][k]
             \/ k = Len(queue[v]) + 1 /\ queue'[v][k] = r
      BY <1>1, <3>1
    <3>3. \A k \in DOMAIN queue[v] : queue[v][k] # r
      BY <1>2, <2>1
    <3> QED BY <1>1, <1>2, <2>1, <2>3, <3>2, <3>3
  <2> QED BY <2>2, <2>3
<1>5. ASSUME NEW r \in Requests, NEW u \in Pooled, pc[r] # "queued",
             GiveBack(r, u), target' = target
      PROVE  Goal
  <2>1. CASE queue[u] = <<>>
    <3>1. queue' = queue /\ pc' = [pc EXCEPT ![r] = "idle"]
      BY <1>5, <2>1 DEF GiveBack
    <3> QED BY <1>3, <1>5, <3>1 DEF PoolTypeOK
  <2>2. CASE queue[u] # <<>>
    <3> DEFINE h == Head(queue[u])
    <3>1. /\ pc' = [pc EXCEPT ![r] = "idle", ![h] = "granted"]
          /\ queue' = [queue EXCEPT ![u] = Tail(queue[u])]
      BY <1>5, <2>2 DEF GiveBack
    <3>2. 1 \in DOMAIN queue[u] /\ h = queue[u][1]
      BY <1>1, <2>2
    <3>3. target[h] = u /\ \A j \in DOMAIN queue[u] : queue[u][j] = h => j = 1
      BY <1>2, <3>2
    <3> HIDE DEF h
    <3>4. \A x \in Requests : x # r /\ x # h => pc'[x] = pc[x]
      BY <3>1 DEF PoolTypeOK
    <3>5. CASE v # u
      <4>1. queue'[v] = queue[v]
        BY <3>1, <3>5 DEF PoolTypeOK
      <4> QED BY <1>2, <1>5, <3>3, <3>4, <3>5, <4>1
    <3>6. CASE v = u
      <4>1. queue'[v] = Tail(queue[v])
        BY <3>1, <3>6 DEF PoolTypeOK
      <4>2. \A k \in DOMAIN queue'[v] :
               k \in Nat /\ k + 1 \in DOMAIN queue[v] /\ k + 1 # 1 /\ queue'[v][k] = queue[v][k + 1]
        BY <1>1, <2>2, <3>6, <4>1
      <4> QED BY <1>2, <1>5, <3>3, <3>4, <3>6, <4>2
    <3> QED BY <3>5, <3>6
  <2> QED BY <2>1, <2>2
<1>6. ASSUME NEW r \in Requests, CancelWaiting(r)
      PROVE  Goal
  <2> DEFINE u == target[r]
  <2>1. PICK n \in DOMAIN queue[u] :
             queue[u][n] = r /\ queue' = [queue EXCEPT ![u] = RemoveAt(queue[u], n)]
    BY <1>6 DEF CancelWaiting
  <2>2. u \in Pooled /\ queue[u] \in Seq(Requests) /\ n \in 1..Len(queue[u])
    BY <2>1 DEF PoolTypeOK
  <2>3. target' = target /\ \A x \in Requests : x # r => pc'[x] = pc[x]
    BY <1>6 DEF CancelWaiting, PoolTypeOK
  <2>4. \A j \in DOMAIN queue[u] : queue[u][j] = r => j = n
    BY <1>2, <2>1, <2>2
  <2>5. target[r] = u
    OBVIOUS
  <2> HIDE DEF u
  <2>6. CASE v # u
    <3>1. queue'[v] = queue[v]
      BY <2>1, <2>6 DEF PoolTypeOK
    <3> QED BY <1>2, <2>3, <2>5, <2>6, <3>1
  <2>7. CASE v = u
    <3>1. queue'[v] = RemoveAt(queue[u], n)
      BY <2>1, <2>7 DEF PoolTypeOK
    <3>2. /\ Len(queue'[v]) = Len(queue[u]) - 1 /\ DOMAIN queue'[v] = 1..(Len(queue[u]) - 1)
          /\ \A k \in 1..(Len(queue[u]) - 1) :
                queue'[v][k] = IF k < n THEN queue[u][k] ELSE queue[u][k + 1]
      <4>1. /\ RemoveAt(queue[u], n) \in Seq(Requests)
            /\ Len(RemoveAt(queue[u], n)) = Len(queue[u]) - 1
            /\ \A k \in 1..(Len(queue[u]) - 1) :
                  RemoveAt(queue[u], n)[k] = IF k < n THEN queue[u][k] ELSE queue[u][k + 1]
        BY <2>2, RemoveAtElements
      <4>2. DOMAIN RemoveAt(queue[u], n) = 1..(Len(queue[u]) - 1)
        BY <4>1
      <4> QED BY <3>1, <4>1, <4>2, Zenon
    <3> DEFINE from(k) == IF k < n THEN k ELSE k + 1
    <3>3. \A k \in DOMAIN queue'[v] :
             from(k) \in DOMAIN queue[u] /\ from(k) # n /\ queue'[v][k] = queue[u][from(k)]
      BY <2>2, <3>2
    <3>4. \A j, k \in DOMAIN queue'[v] : from(j) = from(k) => j = k
      BY <2>2, <3>2
    <3> HIDE DEF from
    <3> QED BY <1>2, <2>2, <2>3, <2>4, <2>7, <3>3, <3>4
  <2> QED BY <2>6, <2>7
<1>7. ASSUME UNCHANGED <<pc, target, queue>> PROVE Goal
  BY <1>2, <1>7
<1>8. ASSUME NEW r \in Requests,
             \/ AcquireUnknown(r) \/ Refused(r) \/ Resume(r) \/ CountIn(r) \/ CountOut(r)
             \/ \E u \in Pooled : AcquireAtOnce(r, u)
      PROVE  Goal
  <2>1. /\ pc[r] # "queued" /\ queue' = queue
        /\ \A x \in Requests : x # r => pc'[x] = pc[x] /\ target'[x] = target[x]
    BY <1>8 DEF AcquireUnknown, Refused, Resume, CountIn, CountOut, AcquireAtOnce, PoolTypeOK
  <2> QED BY <1>3, <2>1
<1>9. ASSUME NEW r \in Requests, DropPermit(r) \/ CancelGranted(r)
      PROVE  Goal
  <2>1. target[r] \in Pooled /\ pc[r] # "queued" /\ GiveBack(r, target[r]) /\ target' = target
    BY <1>9 DEF DropPermit, CancelGranted, PoolTypeOK
  <2> QED BY <1>5, <2>1
<1> QED
  BY <1>4, <1>6, <1>7, <1>8, <1>9
  DEF PoolNext, RequestStep, StartTotal, ReadOne, poolVars

-----------------------------------------------------------------------------
LEMMA InvInit == PoolInit => PoolInv
<1> SUFFICES ASSUME PoolInit PROVE PoolInv
  OBVIOUS
<1>1. PoolTypeOK
  BY TypeInit
<1>2. QueueOfWaiters /\ NoIdlePermit
  BY DEF PoolInit, QueueOfWaiters, NoIdlePermit
<1>3. ASSUME NEW u \in Pooled PROVE Users(u) = {} /\ Holders(u) = {}
  BY DEF PoolInit, Users, Holders, Using
<1>4. ASSUME NEW u \in Pooled
      PROVE  permits[u] + Cardinality(Users(u)) = Capacity[u] /\ active[u] = Cardinality(Holders(u))
  <2>1. permits[u] = Capacity[u] /\ active[u] = 0 /\ Capacity[u] \in Nat
    BY CapacityType DEF PoolInit
  <2>2. Cardinality(Users(u)) = 0 /\ Cardinality(Holders(u)) = 0
    BY <1>3, FS_EmptySet
  <2> QED BY <2>1, <2>2
<1>5. PermitsConserved /\ HandlesCounted
  BY <1>4 DEF PermitsConserved, HandlesCounted
<1> QED BY <1>1, <1>2, <1>5 DEF PoolInv

(* The inductive invariant holds in every reachable state.                  *)
THEOREM Inductive == PoolSpec => []PoolInv
<1>1. PoolInv /\ [PoolNext]_poolVars => PoolInv'
  BY TypeStep, QueueStep, NoIdlePermitStep, ConservedStep DEF PoolInv
<1> QED BY InvInit, <1>1, PTL DEF PoolSpec

LEMMA CountsBounded == PoolInv => CountWithinCapacity
<1>1. ASSUME PoolInv, NEW u \in Pooled PROVE active[u] <= Capacity[u]
  <2>1. active[u] = Cardinality(Holders(u)) /\ permits[u] + Cardinality(Users(u)) = Capacity[u]
    BY <1>1 DEF PoolInv, HandlesCounted, PermitsConserved
  <2>2. permits[u] \in Nat
    BY <1>1 DEF PoolInv, PoolTypeOK
  <2> QED BY <2>1, <2>2, UsersFinite
<1> QED BY <1>1 DEF CountWithinCapacity

(* active_count never exceeds the capacity of its upstream, however many    *)
(* requests come, wait, are cancelled and drop their handles: a handle is   *)
(* counted only while it owns one of Capacity[u] permits.                   *)
THEOREM CountBounded == PoolSpec => []CountWithinCapacity
<1>1. PoolInv => CountWithinCapacity
  BY CountsBounded
<1> QED BY Inductive, <1>1, PTL

(* The counter counts the live handles exactly: the guard in Drop::drop     *)
(* never has to hide an imbalance.                                          *)
THEOREM CounterExact == PoolSpec => []HandlesCounted
<1>1. PoolInv => HandlesCounted
  BY DEF PoolInv
<1> QED BY Inductive, <1>1, PTL

(* No task waits for an upstream that has a free permit.                    *)
THEOREM NoLostWakeup == PoolSpec => []NoIdlePermit
<1>1. PoolInv => NoIdlePermit
  BY DEF PoolInv
<1> QED BY Inductive, <1>1, PTL

-----------------------------------------------------------------------------
(* The pool implements the limiter.  Slots are the limiter's inUse.         *)
Slots == [u \in Pooled |-> Users(u)]

LEMMA SlotsInit == PoolInit => Limiter!LimiterInit
<1> SUFFICES ASSUME PoolInit PROVE Limiter!LimiterInit
  OBVIOUS
<1>1. \A u \in Pooled : Users(u) = {}
  BY DEF PoolInit, Users, Using
<1>2. DOMAIN Capacity = Pooled
  BY DEF Capacity
<1> QED BY <1>1, <1>2 DEF PoolInit, Limiter!LimiterInit

LEMMA Stuttering ==
    ASSUME Slots' = Slots, queue' = queue
    PROVE  UNCHANGED Limiter!limiterVars
BY DEF Slots, Limiter!limiterVars

LEMMA AbsentMeans ==
    ASSUME NEW r, \A u \in Pooled : r \notin Users(u) /\ \A i \in DOMAIN queue[u] : queue[u][i] # r
    PROVE  Limiter!Absent(r)
<1>1. DOMAIN Capacity = Pooled
  BY DEF Capacity
<1> QED BY <1>1 DEF Limiter!Absent, Limiter!ToSet

LEMMA Enters ==
    ASSUME NEW r, NEW u \in Pooled, Limiter!Absent(r), queue[u] = <<>>,
           Cardinality(Users(u)) < Capacity[u], queue' = queue,
           Slots' = [Slots EXCEPT ![u] = Users(u) \cup {r}]
    PROVE  Limiter!Enter(r, u)
BY DEF Slots, Limiter!Enter, Limiter!Cardinality, Cardinality

LEMMA Queues ==
    ASSUME NEW r, NEW u \in Pooled, Limiter!Absent(r),
           Cardinality(Users(u)) >= Capacity[u], Slots' = Slots,
           queue' = [queue EXCEPT ![u] = Append(queue[u], r)]
    PROVE  Limiter!Queue(r, u)
BY DEF Slots, Limiter!Queue, Limiter!Cardinality, Cardinality

LEMMA Leaves ==
    ASSUME NEW r, NEW u \in Pooled, r \in Users(u),
           \/ /\ queue[u] = <<>>
              /\ Slots' = [Slots EXCEPT ![u] = Users(u) \ {r}] /\ queue' = queue
           \/ /\ queue[u] # <<>>
              /\ Slots' = [Slots EXCEPT ![u] = (Users(u) \ {r}) \cup {Head(queue[u])}]
              /\ queue' = [queue EXCEPT ![u] = Tail(queue[u])]
    PROVE  Limiter!Leave(r, u)
BY DEF Slots, Limiter!Leave

LEMMA GivesUp ==
    ASSUME NEW r, NEW u \in Pooled, NEW i \in DOMAIN queue[u], queue[u][i] = r,
           queue' = [queue EXCEPT ![u] = RemoveAt(queue[u], i)], Slots' = Slots
    PROVE  Limiter!GiveUp(r, u)
BY DEF Slots, Limiter!GiveUp, Limiter!RemoveAt, RemoveAt

LEMMA LimiterActions ==
    ASSUME NEW r \in Requests, NEW u \in Pooled,
           Limiter!Enter(r, u) \/ Limiter!Queue(r, u) \/ Limiter!Leave(r, u) \/ Limiter!GiveUp(r, u)
    PROVE  Limiter!LimiterNext
<1>1. u \in DOMAIN Capacity
  BY DEF Capacity
<1> QED BY <1>1 DEF Limiter!LimiterNext

(* An idle task has no slot and stands in no line.                          *)
LEMMA IdleAbsent ==
    ASSUME QueueOfWaiters, NEW r \in Requests, pc[r] = "idle"
    PROVE  Limiter!Absent(r)
<1>1. ASSUME NEW u \in Pooled PROVE r \notin Users(u) /\ \A i \in DOMAIN queue[u] : queue[u][i] # r
  BY DEF Users, Using, QueueOfWaiters
<1> QED BY <1>1, AbsentMeans

(* A task that returns its permit leaves, and the first of the line takes   *)
(* its place.                                                               *)
LEMMA GiveBackLeaves ==
    ASSUME PoolInv, NEW r \in Requests, pc[r] \in {"granted", "dropping"},
           GiveBack(r, target[r]), UNCHANGED target
    PROVE  Limiter!LimiterNext
<1>1. target[r] \in Pooled
  BY DEF PoolInv, PoolTypeOK
<1>2. PICK v \in Pooled : v = target[r]
  BY <1>1
<1>3. /\ r \in Users(v)
      /\ queue[v] = <<>> => Users(v)' = Users(v) \ {r}
      /\ queue[v] # <<>> => Users(v)' = (Users(v) \ {r}) \cup {Head(queue[v])}
      /\ \A w \in Pooled : w # v => Users(w)' = Users(w)
  BY <1>2, GiveBackUsers DEF PoolInv
<1>4. \/ /\ queue[v] = <<>>
         /\ Slots' = [Slots EXCEPT ![v] = Users(v) \ {r}] /\ queue' = queue
      \/ /\ queue[v] # <<>>
         /\ Slots' = [Slots EXCEPT ![v] = (Users(v) \ {r}) \cup {Head(queue[v])}]
         /\ queue' = [queue EXCEPT ![v] = Tail(queue[v])]
  BY <1>2, <1>3 DEF GiveBack, Slots
<1>5. Limiter!Leave(r, v)
  BY <1>3, <1>4, Leaves
<1> QED BY <1>5, LimiterActions

(* Every step of the pool is a step of the limiter or leaves it alone.      *)
LEMMA LimiterStep ==
    ASSUME PoolInv, [PoolNext]_poolVars
    PROVE  [Limiter!LimiterNext]_(Limiter!limiterVars)
<1>1. CASE UNCHANGED poolVars
  BY <1>1 DEF poolVars, Limiter!limiterVars, Users
<1>2. ASSUME NEW r \in Requests, AcquireUnknown(r) \/ Refused(r) \/ Resume(r)
      PROVE  UNCHANGED Limiter!limiterVars
  <2>1. \A v \in Pooled : Users(v)' = Users(v)
    BY <1>2, SameUsers DEF PoolInv
  <2>2. Slots' = Slots /\ queue' = queue
    BY <1>2, <2>1 DEF Slots, AcquireUnknown, Refused, Resume
  <2> QED BY <2>2, Stuttering
<1>3. ASSUME NEW r \in Requests, NEW u \in Pooled, AcquireAtOnce(r, u)
      PROVE  Limiter!LimiterNext
  <2>1. Limiter!Absent(r)
    BY <1>3, IdleAbsent DEF PoolInv, AcquireAtOnce
  <2>2. queue[u] = <<>>
    BY <1>3 DEF PoolInv, NoIdlePermit, AcquireAtOnce
  <2>3. Cardinality(Users(u)) < Capacity[u]
    <3>1. permits[u] \in Nat /\ permits[u] > 0 /\ Cardinality(Users(u)) \in Nat
      BY <1>3, UsersFinite DEF PoolInv, PoolTypeOK, AcquireAtOnce
    <3>2. permits[u] + Cardinality(Users(u)) = Capacity[u]
      BY DEF PoolInv, PermitsConserved
    <3> QED BY <3>1, <3>2
  <2>4. Slots' = [Slots EXCEPT ![u] = Users(u) \cup {r}] /\ queue' = queue
    BY <1>3, AcquireUsers DEF PoolInv, Slots, AcquireAtOnce
  <2> QED BY <2>1, <2>2, <2>3, <2>4, Enters, LimiterActions
<1>4. ASSUME NEW r \in Requests, NEW u \in Pooled, AcquireWaits(r, u)
      PROVE  Limiter!LimiterNext
  <2>1. Limiter!Absent(r)
    BY <1>4, IdleAbsent DEF PoolInv, AcquireWaits
  <2>2. Cardinality(Users(u)) >= Capacity[u]
    <3>1. permits[u] = 0 /\ Cardinality(Users(u)) \in Nat
      BY <1>4, UsersFinite DEF AcquireWaits
    <3>2. permits[u] + Cardinality(Users(u)) = Capacity[u]
      BY DEF PoolInv, PermitsConserved
    <3> QED BY <3>1, <3>2
  <2>3. \A v \in Pooled : Users(v)' = Users(v)
    BY <1>4, SameUsers DEF PoolInv
  <2>4. Slots' = Slots /\ queue' = [queue EXCEPT ![u] = Append(queue[u], r)]
    BY <1>4, <2>3 DEF Slots, AcquireWaits
  <2> QED BY <2>1, <2>2, <2>4, Queues, LimiterActions
<1>5. ASSUME NEW r \in Requests, CountIn(r) \/ CountOut(r)
      PROVE  UNCHANGED Limiter!limiterVars
  <2>1. PICK u \in Pooled : target[r] = u
    BY DEF PoolInv, PoolTypeOK
  <2>2. \A v \in Pooled : Users(v)' = Users(v)
    BY <1>5, <2>1, CountInUsers, CountOutUsers DEF PoolInv
  <2>3. Slots' = Slots /\ queue' = queue
    BY <1>5, <2>2 DEF Slots, CountIn, CountOut
  <2> QED BY <2>3, Stuttering
<1>6. ASSUME NEW r \in Requests, DropPermit(r) PROVE Limiter!LimiterNext
  BY <1>6, GiveBackLeaves DEF DropPermit
<1>7. ASSUME NEW r \in Requests, CancelGranted(r) PROVE Limiter!LimiterNext
  BY <1>7, GiveBackLeaves DEF CancelGranted
<1>8. ASSUME NEW r \in Requests, CancelWaiting(r) PROVE Limiter!LimiterNext
  <2>1. PICK u \in Pooled : target[r] = u
    BY DEF PoolInv, PoolTypeOK
  <2>2. PICK i \in DOMAIN queue[u] :
            queue[u][i] = r /\ queue' = [queue EXCEPT ![u] = RemoveAt(queue[u], i)]
    BY <1>8, <2>1 DEF CancelWaiting
  <2>3. \A v \in Pooled : Users(v)' = Users(v)
    BY <1>8, SameUsers DEF PoolInv
  <2>4. Slots' = Slots
    BY <2>3 DEF Slots
  <2> QED BY <2>2, <2>4, GivesUp, LimiterActions
<1>9. ASSUME StartTotal \/ \E u \in Pooled : ReadOne(u)
      PROVE  UNCHANGED Limiter!limiterVars
  BY <1>9 DEF StartTotal, ReadOne, Limiter!limiterVars, Users
<1> QED
  BY <1>1, <1>2, <1>3, <1>4, <1>5, <1>6, <1>7, <1>8, <1>9 DEF PoolNext, RequestStep

(* The pool implements the limiter, for every set of requests and every     *)
(* configuration: however tasks wait, are woken, give up and drop their     *)
(* handles, an upstream serves at most Capacity[u] of them, first come      *)
(* first served.                                                            *)
THEOREM PoolImplementsLimiter == PoolSpec => ImplementsLimiter
<1>1. PoolInv /\ [PoolNext]_poolVars => [Limiter!LimiterNext]_(Limiter!limiterVars)
  BY LimiterStep
<1> QED
  BY SlotsInit, <1>1, Inductive, PTL DEF PoolSpec, ImplementsLimiter, Limiter!LimiterSpec

(* No permit is lost or made up.                                            *)
THEOREM PermitsBalance == PoolSpec => []PermitsConserved
<1>1. PoolInv => PermitsConserved
  BY DEF PoolInv
<1> QED BY Inductive, <1>1, PTL

-----------------------------------------------------------------------------
(* The permits of finitely many upstreams are finitely many.                *)
LEMMA PermitsFinite ==
    ASSUME NEW U \in SUBSET Pooled
    PROVE  IsFiniteSet(PermitsOf(U)) /\ Cardinality(PermitsOf(U)) \in Nat
<1>1. IsFiniteSet({{u} \X (1..Capacity[u]) : u \in U})
  <2> DEFINE all == {{u} \X (1..Capacity[u]) : u \in U}
             own == [u \in U |-> {u} \X (1..Capacity[u])]
  <2>1. IsFiniteSet(U)
    BY PoolAssumption, FS_Subset
  <2>2. own \in Surjection(U, all)
    BY DEF Surjection
  <2> HIDE DEF all, own
  <2>3. IsFiniteSet(all)
    BY <2>1, <2>2, FS_Surjection
  <2> QED BY <2>3 DEF all
<1>2. ASSUME NEW u \in U PROVE IsFiniteSet({u} \X (1..Capacity[u]))
  <2>1. IsFiniteSet(1..Capacity[u])
    BY CapacityType, FS_Interval
  <2> QED BY <2>1, FS_Singleton, FS_Product
<1>3. IsFiniteSet(PermitsOf(U))
  BY <1>1, <1>2, FS_UNION DEF PermitsOf
<1> QED BY <1>3, FS_CardinalityType

(* An upstream more adds its capacity.                                      *)
LEMMA PermitsAdd ==
    ASSUME NEW U \in SUBSET Pooled, NEW u \in Pooled \ U
    PROVE  Cardinality(PermitsOf(U \cup {u})) = Cardinality(PermitsOf(U)) + Capacity[u]
<1> DEFINE own == {u} \X (1..Capacity[u])
<1>1. Capacity[u] \in Nat
  BY CapacityType
<1>2. IsFiniteSet(own) /\ Cardinality(own) = Capacity[u]
  <2> DEFINE n == Capacity[u]
  <2>a. n \in Nat
    BY <1>1
  <2> HIDE DEF n
  <2>b. IsFiniteSet(1..n) /\ Cardinality(1..n) = IF 1 > n THEN 0 ELSE n - 1 + 1
    BY <2>a, FS_Interval
  <2>c. Cardinality(1..n) = n
    BY <2>a, <2>b
  <2>1. IsFiniteSet(1..Capacity[u]) /\ Cardinality(1..Capacity[u]) = Capacity[u]
    BY <2>b, <2>c DEF n
  <2>2. IsFiniteSet({u}) /\ Cardinality({u}) = 1
    BY FS_Singleton
  <2>3. IsFiniteSet(own) /\ Cardinality(own) = Cardinality({u}) * Cardinality(1..Capacity[u])
    BY <2>1, <2>2, FS_Product
  <2> QED BY <1>1, <2>1, <2>2, <2>3
<1>3. PermitsOf(U \cup {u}) = PermitsOf(U) \cup own
  BY DEF PermitsOf
<1>4. PermitsOf(U) \cap own = {}
  BY DEF PermitsOf
<1>5. Cardinality(PermitsOf(U) \cap own) = 0
  BY <1>4, FS_EmptySet
<1> HIDE DEF own
<1>6. Cardinality(PermitsOf(U) \cup own)
        = Cardinality(PermitsOf(U)) + Cardinality(own) - Cardinality(PermitsOf(U) \cap own)
  BY <1>2, PermitsFinite, FS_Union
<1>7. Cardinality(PermitsOf(U)) \in Nat
  BY PermitsFinite
<1>8. Cardinality(PermitsOf(U)) + Capacity[u] - 0 = Cardinality(PermitsOf(U)) + Capacity[u]
  BY <1>1, <1>7
<1> QED BY <1>2, <1>3, <1>5, <1>6, <1>8

LEMMA TotalStep ==
    ASSUME PoolInv, TotalWithinCapacity, [PoolNext]_poolVars
    PROVE  TotalWithinCapacity'
<1>1. ASSUME UNCHANGED <<sweep, total>> PROVE TotalWithinCapacity'
  BY <1>1 DEF TotalWithinCapacity
<1>2. CASE StartTotal
  <2>1. total' = 0 /\ sweep' = Pooled
    BY <1>2 DEF StartTotal
  <2>2. Cardinality(PermitsOf(Pooled \ sweep')) \in Nat
    BY PermitsFinite
  <2> QED BY <2>1, <2>2 DEF TotalWithinCapacity
<1>3. ASSUME NEW u \in Pooled, ReadOne(u) PROVE TotalWithinCapacity'
  <2> DEFINE read == Pooled \ sweep
  <2>1. u \in sweep /\ total' = total + active[u] /\ Pooled \ sweep' = read \cup {u}
    BY <1>3 DEF ReadOne
  <2>2. active[u] <= Capacity[u]
    BY CountsBounded DEF CountWithinCapacity
  <2>3. Cardinality(PermitsOf(read \cup {u})) = Cardinality(PermitsOf(read)) + Capacity[u]
    BY <2>1, PermitsAdd
  <2>4. total <= Cardinality(PermitsOf(read)) /\ Cardinality(PermitsOf(read)) \in Nat
    BY PermitsFinite DEF TotalWithinCapacity
  <2>5. total \in Nat /\ active[u] \in Nat /\ Capacity[u] \in Nat
    BY CapacityType DEF PoolInv, PoolTypeOK
  <2> HIDE DEF read
  <2>6. total' <= Cardinality(PermitsOf(Pooled \ sweep'))
    BY <2>1, <2>2, <2>3, <2>4, <2>5
  <2> QED BY <2>6 DEF TotalWithinCapacity
<1>4. CASE UNCHANGED poolVars
  BY <1>1, <1>4 DEF poolVars
<1>5. ASSUME NEW r \in Requests, RequestStep(r) PROVE TotalWithinCapacity'
  <2>1. UNCHANGED <<sweep, total>>
    BY <1>5 DEF RequestStep, AcquireUnknown, Refused, AcquireAtOnce, AcquireWaits, Resume,
                CountIn, CountOut, DropPermit, CancelWaiting, CancelGranted
  <2> QED BY <1>1, <2>1
<1> QED BY <1>2, <1>3, <1>4, <1>5 DEF PoolNext

(* What total_active has summed up never exceeds what the upstreams it has  *)
(* read may have together, although connections come and go between its     *)
(* reads: every single count is bounded when it is read.                    *)
THEOREM TotalBounded == PoolSpec => []TotalWithinCapacity
<1>1. PoolInit => TotalWithinCapacity
  <2> SUFFICES ASSUME PoolInit PROVE total <= Cardinality(PermitsOf(Pooled \ sweep))
    BY DEF TotalWithinCapacity
  <2>1. Cardinality(PermitsOf(Pooled \ sweep)) \in Nat
    BY PermitsFinite
  <2> QED BY <2>1 DEF PoolInit
<1>2. PoolInv /\ TotalWithinCapacity /\ [PoolNext]_poolVars => TotalWithinCapacity'
  BY TotalStep
<1> QED BY <1>1, <1>2, Inductive, PTL DEF PoolSpec
=============================================================================
