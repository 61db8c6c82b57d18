---------------------- MODULE GatewayControllerProofs -----------------------
(***************************************************************************)
(* Proofs about the Kubernetes controller.  The copies of the resource     *)
(* that the store and a reconciliation hold, and the statuses on their way *)
(* from senders that are gone, may be old; the invariant says what an old  *)
(* one can still be trusted for.                                           *)
(***************************************************************************)
EXTENDS GatewayController, FiniteSetTheorems, TLAPS

Patches == [status : AnyStatus, uid : 1..MaxCreates]

(* The counters, and what they bound.                                       *)
CountersInv ==
    /\ created \in 0..MaxCreates /\ edits \in 0..MaxEdits /\ lost \in 0..MaxLost
    /\ restarts \in Nat
    /\ IsFiniteSet(late) /\ Cardinality(late) <= lost

ShapesInv ==
    /\ object \in Objects \cup {None} /\ store \in Objects \cup {None}
    /\ running \in Objects \cup {None}
    /\ late \in SUBSET Patches
    /\ due \in {"none", "later", "now"}
    /\ patch \in {"none", "waiting", "applied", "refused"}
    /\ patch # "none" <=> running # None
    /\ statusOf \in (1..MaxCreates) \cup {None}
    /\ object # None /\ statusOf # None => object.status \in AnyStatus

(* The resource is the last one created, and every other uid is older.      *)
UidsInv ==
    /\ object # None => object.uid = created /\ object.generation <= edits + 1
    /\ store # None => store.uid <= created
    /\ running # None => running.uid <= created
    /\ \A p \in late : p.uid <= created

(* What a copy of the resource, or a status about it, may be trusted for.   *)
Faithful(copy) ==
    (copy # None /\ object # None /\ copy.uid = object.uid) =>
        /\ copy.generation <= object.generation
        /\ copy.generation = object.generation => copy.spec = object.spec

Truthful(status, uid) ==
    (object # None /\ uid = object.uid) =>
        /\ status.observed <= object.generation
        /\ status.observed = object.generation => status.ready = ValidateGateway(object.spec)

TrustInv ==
    /\ Faithful(store) /\ Faithful(running)
    /\ \A p \in late : Truthful(p.status, p.uid)
    /\ ReadyMeansValid

(* Whatever the controller has stored is scheduled or under way.            *)
ScheduleInv == store # None => due # "none" \/ running # None

ControllerInv == CountersInv /\ ShapesInv /\ UidsInv /\ TrustInv /\ ScheduleInv

LEMMA Constants ==
    /\ MaxCreates \in Nat /\ MaxEdits \in Nat /\ MaxLost \in Nat
    /\ None \notin Nat /\ None \notin Objects
BY ControllerAssumption

LEMMA InitInv == ControllerInit => ControllerInv
<1> SUFFICES ASSUME ControllerInit PROVE ControllerInv
  OBVIOUS
<1>1. IsFiniteSet({}) /\ Cardinality({}) = 0
  BY FS_EmptySet
<1>2. CountersInv
  BY <1>1, Constants DEF ControllerInit, CountersInv
<1> QED
  BY <1>2 DEF ControllerInit, ControllerInv, ShapesInv, UidsInv, TrustInv, ScheduleInv, Faithful,
     Truthful, ReadyMeansValid

-----------------------------------------------------------------------------
(* The verdict on a copy is a status that may be trusted like the copy.     *)
LEMMA VerdictOfCopy ==
    ASSUME NEW copy \in Objects, Faithful(copy)
    PROVE  Verdict(copy) \in AnyStatus /\ Truthful(Verdict(copy), copy.uid)
<1>1. copy.generation \in 1..(MaxEdits + 1) /\ copy # None
  BY Constants DEF Objects
<1>2. Verdict(copy).observed = copy.generation /\ Verdict(copy).ready = ValidateGateway(copy.spec)
  BY DEF Verdict
<1>3. ValidateGateway(copy.spec) \in BOOLEAN
  BY DEF ValidateGateway
<1>4. Verdict(copy) \in AnyStatus
  BY <1>1, <1>3 DEF Verdict, AnyStatus
<1> QED BY <1>1, <1>2, <1>4 DEF Faithful, Truthful

(* A new status for the resource leaves all the rest of it alone.           *)
LEMMA Patched ==
    ASSUME ControllerInv, object # None, NEW status \in AnyStatus, NEW uid \in 1..MaxCreates,
           SetStatus(status, uid), uid <= created
    PROVE  /\ object' \in Objects /\ object' # None /\ object'.status = status
           /\ object'.uid = object.uid /\ object'.generation = object.generation
           /\ object'.spec = object.spec
           /\ statusOf' = uid
<1>1. object \in Objects
  BY DEF ControllerInv, ShapesInv
<1>2. object' = [object EXCEPT !.status = status] /\ statusOf' = uid
  BY DEF SetStatus
<1>3. object' \in Objects
  BY <1>1, <1>2 DEF Objects
<1> QED BY <1>1, <1>2, <1>3, Constants DEF Objects

-----------------------------------------------------------------------------
(* Steps of the user.                                                       *)
LEMMA CreateStep ==
    ASSUME ControllerInv, NEW spec \in Specs, CreateGateway(spec)
    PROVE  ControllerInv'
<1>1. /\ object = None /\ created' = created + 1 /\ created' \in 1..MaxCreates
      /\ statusOf' = None
      /\ UNCHANGED <<late, edits, restarts, lost, store, due, running, patch>>
  BY Constants DEF CreateGateway, process, ControllerInv, CountersInv
<1>2. /\ object' = [uid |-> created', generation |-> 1, spec |-> spec, status |-> None]
      /\ object' \in Objects
  BY <1>1, Constants DEF CreateGateway, Objects
<1>3. /\ object' # None /\ object'.uid = created + 1 /\ object'.generation = 1
  BY <1>1, <1>2, Constants
<1>4. CountersInv' /\ ScheduleInv'
  BY <1>1 DEF ControllerInv, CountersInv, ScheduleInv
<1>5. ShapesInv'
  BY <1>1, <1>2 DEF ControllerInv, ShapesInv
<1>6. /\ store # None => store.uid < object'.uid
      /\ running # None => running.uid < object'.uid
      /\ \A p \in late : p.uid < object'.uid
  BY <1>3 DEF ControllerInv, UidsInv, ShapesInv, CountersInv, Objects, Patches
<1>7. UidsInv'
  BY <1>1, <1>3, <1>6, Constants DEF ControllerInv, UidsInv, ShapesInv, CountersInv, Objects, Patches
<1>8. TrustInv'
  <2>1. Faithful(store)' /\ Faithful(running)'
    BY <1>1, <1>6 DEF Faithful, ControllerInv, ShapesInv, Objects
  <2>2. \A p \in late' : Truthful(p.status, p.uid)'
    BY <1>1, <1>6 DEF Truthful, ControllerInv, ShapesInv, Patches
  <2>3. ReadyMeansValid'
    BY <1>1 DEF ReadyMeansValid
  <2> QED BY <2>1, <2>2, <2>3 DEF TrustInv
<1> QED BY <1>4, <1>5, <1>7, <1>8 DEF ControllerInv

LEMMA EditStep ==
    ASSUME ControllerInv, NEW spec \in Specs, EditGateway(spec)
    PROVE  ControllerInv'
<1>1. /\ object # None /\ edits' = edits + 1 /\ edits' \in 1..MaxEdits
      /\ UNCHANGED <<late, statusOf, created, restarts, lost, store, due, running, patch>>
  BY Constants DEF EditGateway, process, ControllerInv, CountersInv
<1>2. object \in Objects /\ object.generation \in Nat /\ object.generation <= edits + 1
  BY <1>1 DEF ControllerInv, ShapesInv, UidsInv, Objects
<1>3. object' = [object EXCEPT !.spec = spec, !.generation = object.generation + 1]
  BY <1>2 DEF EditGateway
<1>4. /\ object'.uid = object.uid /\ object'.generation = object.generation + 1
      /\ object'.spec = spec /\ object'.status = object.status
      /\ object' \in Objects
  <2>1. /\ object'.uid = object.uid /\ object'.generation = object.generation + 1
        /\ object'.spec = spec /\ object'.status = object.status
    BY <1>2, <1>3 DEF Objects
  <2>2. object.generation + 1 \in 1..(MaxEdits + 1)
    BY <1>1, <1>2, Constants DEF ControllerInv, CountersInv
  <2>3. object' \in Objects
    BY <1>2, <1>3, <2>2 DEF Objects
  <2> QED BY <2>1, <2>3
<1>5. object' # None
  BY <1>4, Constants
<1>6. CountersInv' /\ ScheduleInv'
  BY <1>1 DEF ControllerInv, CountersInv, ScheduleInv
<1>7. ShapesInv'
  BY <1>1, <1>4 DEF ControllerInv, ShapesInv
<1>8. UidsInv'
  BY <1>1, <1>2, <1>4, Constants DEF ControllerInv, UidsInv, CountersInv
<1>9. TrustInv'
  <2>1. Faithful(store)' /\ Faithful(running)'
    BY <1>1, <1>2, <1>4 DEF Faithful, ControllerInv, TrustInv, ShapesInv, Objects
  <2>2. \A p \in late' : Truthful(p.status, p.uid)'
    BY <1>1, <1>2, <1>4 DEF Truthful, ControllerInv, TrustInv, ShapesInv, Patches, AnyStatus
  <2>3. ReadyMeansValid'
    BY <1>1, <1>2, <1>4 DEF ReadyMeansValid, ControllerInv, TrustInv, ShapesInv, AnyStatus
  <2> QED BY <2>1, <2>2, <2>3 DEF TrustInv
<1> QED BY <1>6, <1>7, <1>8, <1>9 DEF ControllerInv

LEMMA DeleteStep == ASSUME ControllerInv, DeleteGateway PROVE ControllerInv'
<1>1. object' = None /\ UNCHANGED <<late, statusOf, created, edits, restarts, lost, store, due, running, patch>>
  BY DEF DeleteGateway, counters, process
<1> QED
  BY <1>1 DEF ControllerInv, CountersInv, ShapesInv, UidsInv, TrustInv, ScheduleInv, Faithful,
     Truthful, ReadyMeansValid

-----------------------------------------------------------------------------
(* Events and the schedule: the resource and what is on its way stay.       *)
LEMMA ScheduleStep ==
    ASSUME ControllerInv, WatchEvent \/ SecretEvent \/ RequeueElapses \/ Reconcile
    PROVE  ControllerInv'
<1>1. /\ UNCHANGED <<object, late, statusOf, created, edits, restarts, lost>>
      /\ store' \in {store, object} /\ running' \in {running, store}
  BY DEF WatchEvent, SecretEvent, RequeueElapses, Reconcile, counters
<1>2. Faithful(object)
  BY DEF Faithful, ControllerInv, ShapesInv, Objects
<1>3. CountersInv'
  BY <1>1 DEF ControllerInv, CountersInv
<1>4. ShapesInv'
  BY <1>1 DEF ControllerInv, ShapesInv, WatchEvent, SecretEvent, RequeueElapses, Reconcile
<1>5. UidsInv'
  BY <1>1, Constants DEF ControllerInv, UidsInv, ShapesInv, CountersInv, Objects
<1>6. TrustInv'
  <2>1. Faithful(store)' /\ Faithful(running)'
    BY <1>1, <1>2 DEF Faithful, ControllerInv, TrustInv
  <2> QED BY <1>1, <2>1 DEF ControllerInv, TrustInv, Truthful, ReadyMeansValid
<1>7. ScheduleInv'
  BY <1>1 DEF ControllerInv, ScheduleInv, WatchEvent, SecretEvent, RequeueElapses, Reconcile
<1> QED BY <1>3, <1>4, <1>5, <1>6, <1>7 DEF ControllerInv

(* A run that ends, and a controller that restarts, may leave its request   *)
(* behind.                                                                  *)
LEMMA LeftBehind ==
    ASSUME ControllerInv, LeaveBehind
    PROVE  /\ lost' \in 0..MaxLost /\ IsFiniteSet(late') /\ Cardinality(late') <= lost'
           /\ late' \in SUBSET Patches
           /\ \A p \in late' : p.uid <= created /\ Truthful(p.status, p.uid)
<1> DEFINE p == [status |-> Verdict(running), uid |-> running.uid]
<1>1. lost' = lost + 1 /\ lost < MaxLost /\ late' = late \cup {p} /\ running \in Objects
  BY DEF LeaveBehind, ControllerInv, ShapesInv
<1>2. Verdict(running) \in AnyStatus /\ Truthful(Verdict(running), running.uid)
  BY <1>1, VerdictOfCopy DEF ControllerInv, TrustInv
<1>3. running # None /\ running.uid \in 1..MaxCreates /\ running.uid <= created
  BY <1>1, Constants DEF ControllerInv, UidsInv, Objects
<1>4. p \in Patches /\ p.uid <= created /\ Truthful(p.status, p.uid)
  BY <1>2, <1>3 DEF Patches
<1> HIDE DEF p
<1>5. IsFiniteSet(late) /\ Cardinality(late) \in Nat /\ Cardinality(late) <= lost /\ lost \in 0..MaxLost
  BY FS_CardinalityType DEF ControllerInv, CountersInv
<1>6. IsFiniteSet(late') /\ Cardinality(late') <= Cardinality(late) + 1 /\ Cardinality(late') \in Nat
  <2>1. /\ IsFiniteSet(late \cup {p})
        /\ Cardinality(late \cup {p}) \in {Cardinality(late), Cardinality(late) + 1}
    BY <1>5, FS_AddElement
  <2> QED BY <1>1, <1>5, <2>1
<1> QED BY <1>1, <1>4, <1>5, <1>6, Constants DEF ControllerInv, ShapesInv, UidsInv, TrustInv

LEMMA EndStep ==
    ASSUME ControllerInv, Answered \/ RequestFails \/ RequestOutlives \/ Restart
    PROVE  ControllerInv'
<1>1. /\ UNCHANGED <<object, statusOf, created, edits>>
      /\ running' = None /\ patch' = "none"
      /\ restarts' \in {restarts, restarts + 1}
      /\ LeaveBehind \/ UNCHANGED <<late, lost>>
      /\ \/ store' = store /\ due' \in {"now", "later"}
         \/ store' = None /\ due' = "none"
  BY DEF Answered, RequestFails, RequestOutlives, Restart, Requeue, counters
<1>2. /\ lost' \in 0..MaxLost /\ IsFiniteSet(late') /\ Cardinality(late') <= lost'
      /\ late' \in SUBSET Patches
      /\ \A p \in late' : p.uid <= created /\ Truthful(p.status, p.uid)
  BY <1>1, LeftBehind DEF ControllerInv, CountersInv, ShapesInv, UidsInv, TrustInv
<1>3. CountersInv' /\ ShapesInv' /\ UidsInv' /\ ScheduleInv'
  BY <1>1, <1>2 DEF ControllerInv, CountersInv, ShapesInv, UidsInv, ScheduleInv
<1>4. TrustInv'
  BY <1>1, <1>2 DEF ControllerInv, TrustInv, Faithful, Truthful, ReadyMeansValid
<1> QED BY <1>3, <1>4 DEF ControllerInv

-----------------------------------------------------------------------------
(* A status that arrives, from the sender that waits for it or from one     *)
(* that is gone.                                                            *)
LEMMA PatchKeeps ==
    ASSUME ControllerInv, object # None, NEW status \in AnyStatus, NEW uid \in 1..MaxCreates,
           SetStatus(status, uid), uid <= created, Truthful(status, uid),
           UNCHANGED <<store, running, created, edits, lost, restarts>>,
           late' \in SUBSET late
    PROVE  TrustInv' /\ UidsInv'
<1>1. /\ object' \in Objects /\ object' # None /\ object'.status = status
      /\ object'.uid = object.uid /\ object'.generation = object.generation
      /\ object'.spec = object.spec
      /\ statusOf' = uid
  BY Patched
<1>2. Faithful(store)' /\ Faithful(running)'
  BY <1>1 DEF Faithful, ControllerInv, TrustInv
<1>3. \A p \in late' : Truthful(p.status, p.uid)'
  BY <1>1 DEF Truthful, ControllerInv, TrustInv
<1>4. ReadyMeansValid'
  BY <1>1 DEF ReadyMeansValid, Truthful
<1> QED BY <1>1, <1>2, <1>3, <1>4 DEF TrustInv, UidsInv, ControllerInv

LEMMA UpdateStep == ASSUME ControllerInv, UpdateStatus PROVE ControllerInv'
<1>1. /\ patch = "waiting" /\ patch' \in {"refused", "applied"}
      /\ UNCHANGED <<store, due, running, late, created, edits, restarts, lost>>
  BY DEF UpdateStatus, counters
<1>2. running \in Objects /\ running # None
  BY <1>1, Constants DEF ControllerInv, ShapesInv
<1>3. CountersInv' /\ ScheduleInv'
  BY <1>1 DEF ControllerInv, CountersInv, ScheduleInv
<1>4. CASE object = None
  <2>1. UNCHANGED <<object, statusOf>>
    BY <1>4 DEF UpdateStatus
  <2> QED
    BY <1>1, <1>2, <1>3, <2>1 DEF ControllerInv, ShapesInv, UidsInv, TrustInv, Faithful, Truthful,
       ReadyMeansValid
<1>5. CASE object # None
  <2>1. SetStatus(Verdict(running), running.uid)
    BY <1>5 DEF UpdateStatus
  <2>2. /\ Verdict(running) \in AnyStatus /\ Truthful(Verdict(running), running.uid)
        /\ running.uid \in 1..MaxCreates /\ running.uid <= created
    BY <1>2, VerdictOfCopy DEF ControllerInv, TrustInv, UidsInv, Objects
  <2>3. TrustInv' /\ UidsInv'
    BY <1>1, <1>5, <2>1, <2>2, PatchKeeps
  <2>4. ShapesInv'
    BY <1>1, <1>2, <1>5, <2>1, <2>2, Patched DEF ControllerInv, ShapesInv
  <2> QED BY <1>3, <2>3, <2>4 DEF ControllerInv
<1> QED BY <1>4, <1>5

LEMMA LateStep == ASSUME ControllerInv, LatePatch PROVE ControllerInv'
<1>1. PICK p \in late :
         /\ late' = late \ {p}
         /\ \/ object # None /\ SetStatus(p.status, p.uid)
            \/ UNCHANGED <<object, statusOf>>
         /\ UNCHANGED process /\ UNCHANGED counters
  BY DEF LatePatch
<1>2. UNCHANGED <<store, due, running, patch, created, edits, restarts, lost>>
  BY <1>1 DEF process, counters
<1>3. CountersInv'
  <2>1. IsFiniteSet(late') /\ Cardinality(late') <= Cardinality(late)
    BY <1>1, FS_Subset DEF ControllerInv, CountersInv
  <2>2. Cardinality(late) \in Nat /\ Cardinality(late') \in Nat
    BY <2>1, FS_CardinalityType DEF ControllerInv, CountersInv
  <2> QED BY <1>2, <2>1, <2>2 DEF ControllerInv, CountersInv
<1>4. ScheduleInv'
  BY <1>2 DEF ControllerInv, ScheduleInv
<1>5. /\ p.status \in AnyStatus /\ p.uid \in 1..MaxCreates
      /\ p.uid <= created /\ Truthful(p.status, p.uid)
  BY DEF ControllerInv, ShapesInv, UidsInv, TrustInv, Patches
<1>6. CASE object # None /\ SetStatus(p.status, p.uid)
  <2>1. TrustInv' /\ UidsInv'
    BY <1>1, <1>2, <1>5, <1>6, PatchKeeps
  <2>2. ShapesInv'
    BY <1>1, <1>2, <1>5, <1>6, Patched DEF ControllerInv, ShapesInv
  <2> QED BY <1>3, <1>4, <2>1, <2>2 DEF ControllerInv
<1>7. CASE UNCHANGED <<object, statusOf>>
  BY <1>1, <1>2, <1>3, <1>4, <1>7 DEF ControllerInv, ShapesInv, UidsInv, TrustInv, Faithful, Truthful,
     ReadyMeansValid
<1> QED BY <1>1, <1>6, <1>7

LEMMA ControllerStep == ControllerInv /\ [ControllerNext]_controllerVars => ControllerInv'
<1> SUFFICES ASSUME ControllerInv, [ControllerNext]_controllerVars PROVE ControllerInv'
  OBVIOUS
<1>1. CASE UNCHANGED controllerVars
  BY <1>1 DEF controllerVars, ControllerInv, CountersInv, ShapesInv, UidsInv, TrustInv, ScheduleInv,
     Faithful, Truthful, ReadyMeansValid
<1> QED
  BY <1>1, CreateStep, EditStep, DeleteStep, ScheduleStep, EndStep, UpdateStep, LateStep
  DEF ControllerNext, UserStep

-----------------------------------------------------------------------------
(* The invariant of the controller holds always.                            *)
THEOREM ControllerInductive == ControllerSpec => []ControllerInv
BY InitInv, ControllerStep, PTL DEF ControllerSpec

(* The state of resource, store and run keeps its shape, and no more than   *)
(* MaxLost requests outlive their sender.                                   *)
THEOREM ControllerTypeCorrect == ControllerSpec => []ControllerTypeOK
<1>1. ASSUME ControllerInv PROVE ControllerTypeOK
  <2>1. Cardinality(late) <= MaxLost
    <3>1. Cardinality(late) \in Nat
      BY <1>1, FS_CardinalityType DEF ControllerInv, CountersInv
    <3> QED BY <1>1, <3>1, Constants DEF ControllerInv, CountersInv
  <2> QED BY <1>1, <2>1 DEF ControllerInv, ShapesInv, ControllerTypeOK
<1> QED BY ControllerInductive, <1>1, PTL

(* A status that claims to have observed the present generation tells the   *)
(* truth about its spec, however patches are delayed, fail or outlive the   *)
(* controller, and whatever was deleted and created again meanwhile.        *)
THEOREM ReadyIsTrue == ControllerSpec => []ReadyMeansValid
<1>1. ControllerInv => ReadyMeansValid
  BY DEF ControllerInv, TrustInv
<1> QED BY ControllerInductive, <1>1, PTL

(* No resource is forgotten: one whose status is not the verdict on its     *)
(* spec has an event to come or a run scheduled or under way.  The verdict  *)
(* plays no part in it: whatever is in the store is always scheduled.       *)
THEOREM NothingForgotten == ControllerSpec => []NoForgottenGateway
<1>1. ControllerInv => NoForgottenGateway
  BY DEF ControllerInv, ScheduleInv, NoForgottenGateway
<1> QED BY ControllerInductive, <1>1, PTL
=============================================================================
