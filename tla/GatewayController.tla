------------------------- MODULE GatewayController -------------------------
(***************************************************************************)
(* The Kubernetes controller of crates/k8s-gateway/src/controller.rs and   *)
(* one AiGateway resource (crd.rs).  kube's Controller keeps a store of    *)
(* what the watch delivered, schedules a reconciliation for every event    *)
(* and requeue, and runs one at a time per resource; reconcile validates   *)
(* the stored object and patches its status.  The API server, the user and *)
(* kube's scheduling are external, modelled as controller.rs relies on     *)
(* them.  The user may delete and create the resource again under its name;*)
(* the controller may restart; a request may fail, or outlive its sender.  *)
(***************************************************************************)
EXTENDS Naturals, FiniteSets

CONSTANTS Specs,        \* what a user may put into spec
          ValidSpecs,   \* those with a provider and a well-formed upstream URL
          None,         \* no resource, no status, nothing running
          MaxCreates, MaxEdits, MaxRestarts,    \* bounds: what users and nodes do
          MaxLost       \* bound: requests that outlive their sender

AnyStatus == [ready : BOOLEAN, observed : 1..(MaxEdits + 1)]
Objects == [uid : 1..MaxCreates, generation : 1..(MaxEdits + 1), spec : Specs,
            status : {None} \cup AnyStatus]

ASSUME ControllerAssumption ==
    /\ ValidSpecs \subseteq Specs
    /\ {MaxCreates, MaxEdits, MaxRestarts, MaxLost} \subseteq Nat
    /\ None \notin Nat /\ None \notin Objects

VARIABLES object,       \* the resource in the API server, or None
          store,        \* the controller's copy of it, or None
          due,          \* the scheduled run: "none", "later" (requeue) or "now"
          running,      \* the copy that reconcile works on, or None
          patch,        \* its request: "none", "waiting", "applied", "refused"
          late,         \* statuses on their way whose sender is gone
          statusOf,     \* history: the uid of the copy object's status is about
          created, edits, restarts, lost    \* counters for the bounds

controllerVars ==
    <<object, store, due, running, patch, late, statusOf, created, edits, restarts, lost>>
counters == <<created, edits, restarts, lost>>
process == <<store, due, running, patch>>

ControllerInit ==
    /\ object = None /\ store = None
    /\ due = "none" /\ running = None /\ patch = "none"
    /\ late = {} /\ statusOf = None
    /\ created = 0 /\ edits = 0 /\ restarts = 0 /\ lost = 0

-----------------------------------------------------------------------------
(* The user, through the API server: a new spec counts the generation up.   *)
CreateGateway(spec) ==
    /\ object = None /\ created < MaxCreates
    /\ created' = created + 1
    /\ object' = [uid |-> created', generation |-> 1, spec |-> spec, status |-> None]
    /\ statusOf' = None
    /\ UNCHANGED <<late, edits, restarts, lost>> /\ UNCHANGED process

EditGateway(spec) ==
    /\ object # None /\ edits < MaxEdits
    /\ spec # object.spec
    /\ edits' = edits + 1
    /\ object' = [object EXCEPT !.spec = spec, !.generation = @ + 1]
    /\ UNCHANGED <<late, statusOf, created, restarts, lost>> /\ UNCHANGED process

DeleteGateway ==
    /\ object # None
    /\ object' = None
    /\ UNCHANGED <<late, statusOf>> /\ UNCHANGED counters /\ UNCHANGED process

-----------------------------------------------------------------------------
(* The watch: the store takes over what the server has, and a resource that *)
(* is there triggers a run; a deleted one does not.                         *)
WatchEvent ==
    /\ store # object
    /\ store' = object
    /\ due' = IF object = None THEN due ELSE "now"
    /\ UNCHANGED <<object, running, patch, late, statusOf>> /\ UNCHANGED counters

(* .owns(Secret): an event of an owned secret triggers its owner.           *)
SecretEvent ==
    /\ store # None
    /\ due' = "now"
    /\ UNCHANGED <<object, store, running, patch, late, statusOf>> /\ UNCHANGED counters

RequeueElapses ==
    /\ due = "later"
    /\ due' = "now"
    /\ UNCHANGED <<object, store, running, patch, late, statusOf>> /\ UNCHANGED counters

-----------------------------------------------------------------------------
(* validate_gateway, and the status reconcile writes for its result.        *)
ValidateGateway(spec) == spec \in ValidSpecs

VerdictAlwaysReady(copy) == \* mutant: validation is not asked
    [ready |-> TRUE, observed |-> copy.generation]

VerdictChanging(copy) ==    \* mutant: a field that is new with every write
    [ready |-> ValidateGateway(copy.spec),
     observed |-> IF copy.status = None THEN 1 ELSE 1 + (copy.status.observed % 2)]

Verdict(copy) == [ready |-> ValidateGateway(copy.spec), observed |-> copy.generation]

(* A run that is due starts when none is under way, on the stored copy; it  *)
(* sends its patch before it awaits anything.                               *)
Reconcile ==
    /\ due = "now" /\ running = None
    /\ due' = "none"
    /\ running' = store
    /\ patch' = IF store = None THEN "none" ELSE "waiting"
    /\ UNCHANGED <<object, store, late, statusOf>> /\ UNCHANGED counters

(* The server merges a status, by name: nothing tells it which incarnation  *)
(* of the resource the sender saw.                                          *)
SetStatus(status, uid) ==
    /\ object' = [object EXCEPT !.status = status]
    /\ statusOf' = uid

UpdateStatusOnce ==         \* mutant: a status that is there is left alone
    /\ patch = "waiting"
    /\ IF object = None \/ object.status # None
       THEN patch' = "refused" /\ UNCHANGED <<object, statusOf>>
       ELSE patch' = "applied" /\ SetStatus(Verdict(running), running.uid)
    /\ UNCHANGED <<store, due, running, late>> /\ UNCHANGED counters

UpdateStatus ==
    /\ patch = "waiting"
    /\ IF object = None
       THEN patch' = "refused" /\ UNCHANGED <<object, statusOf>>
       ELSE patch' = "applied" /\ SetStatus(Verdict(running), running.uid)
    /\ UNCHANGED <<store, due, running, late>> /\ UNCHANGED counters

(* The server's answer ends the run.  Action::requeue after 30 s or 300 s,  *)
(* error_policy's after 60 s; a run that is already due is not put off.     *)
Requeue == due' = IF due = "now" THEN "now" ELSE "later"

ForgetOnError ==            \* mutant: an error waits for the next change
    /\ patch \in {"waiting", "applied"}
    /\ running' = None /\ patch' = "none"
    /\ UNCHANGED <<object, store, due, late, statusOf>> /\ UNCHANGED counters

AnsweredTwice ==            \* mutant: the request is not done with
    /\ patch \in {"applied", "refused"}
    /\ running' = None
    /\ Requeue
    /\ UNCHANGED <<object, store, patch, late, statusOf>> /\ UNCHANGED counters

Answered ==
    /\ patch \in {"applied", "refused"}
    /\ running' = None /\ patch' = "none"
    /\ Requeue
    /\ UNCHANGED <<object, store, late, statusOf>> /\ UNCHANGED counters

(* The request fails, or its answer is lost.                                *)
RequestFails ==
    /\ patch \in {"waiting", "applied"}
    /\ running' = None /\ patch' = "none"
    /\ Requeue
    /\ UNCHANGED <<object, store, late, statusOf>> /\ UNCHANGED counters

(* The connection breaks, or the controller restarts, while the server      *)
(* still holds the request.                                                 *)
LeaveBehind ==
    /\ patch = "waiting" /\ lost < MaxLost
    /\ lost' = lost + 1
    /\ late' = late \cup {[status |-> Verdict(running), uid |-> running.uid]}

RequestOutlives ==
    /\ LeaveBehind
    /\ running' = None /\ patch' = "none"
    /\ Requeue
    /\ UNCHANGED <<object, store, statusOf, created, edits, restarts>>

Restart ==
    /\ restarts < MaxRestarts
    /\ restarts' = restarts + 1
    /\ LeaveBehind \/ UNCHANGED <<late, lost>>
    /\ store' = None /\ due' = "none" /\ running' = None /\ patch' = "none"
    /\ UNCHANGED <<object, statusOf, created, edits>>

LatePatch ==
    \E p \in late :
        /\ late' = late \ {p}
        /\ \/ object # None /\ SetStatus(p.status, p.uid)
           \/ UNCHANGED <<object, statusOf>>
        /\ UNCHANGED process /\ UNCHANGED counters

-----------------------------------------------------------------------------
UserStep ==
    \/ \E spec \in Specs : CreateGateway(spec) \/ EditGateway(spec)
    \/ DeleteGateway

ControllerNext ==
    \/ UserStep
    \/ WatchEvent \/ SecretEvent \/ RequeueElapses
    \/ Reconcile \/ UpdateStatus \/ Answered
    \/ RequestFails \/ RequestOutlives \/ Restart \/ LatePatch

ControllerSpec == ControllerInit /\ [][ControllerNext]_controllerVars

(* The watch delivers, kube's scheduler runs what is due, a request has an  *)
(* end, and a server that is asked again and again answers at last; users,  *)
(* secrets, failures and restarts have no fairness.                         *)
FairControllerSpec ==
    /\ ControllerSpec
    /\ WF_controllerVars(WatchEvent)
    /\ WF_controllerVars(RequeueElapses)
    /\ WF_controllerVars(Reconcile)
    /\ WF_controllerVars(Answered)
    /\ WF_controllerVars(LatePatch)
    /\ SF_controllerVars(UpdateStatus)

-----------------------------------------------------------------------------
(* The shape of the controller's state.                                     *)
ControllerTypeOK ==
    /\ object \in Objects \cup {None} /\ store \in Objects \cup {None}
    /\ running \in Objects \cup {None}
    /\ due \in {"none", "later", "now"}
    /\ patch \in {"none", "waiting", "applied", "refused"}
    /\ patch # "none" <=> running # None
    /\ statusOf \in (1..MaxCreates) \cup {None}
    /\ Cardinality(late) <= MaxLost

(* A status that the controller wrote about this very resource and that     *)
(* claims to have observed its present generation tells the truth about its *)
(* spec, and none claims a generation that is yet to come.                  *)
ReadyMeansValid ==
    (object # None /\ statusOf # None /\ statusOf = object.uid) =>
        /\ object.status.observed <= object.generation
        /\ object.status.observed = object.generation =>
              object.status.ready = ValidateGateway(object.spec)

(* No change is forgotten: while the status is not the verdict on the       *)
(* present spec, an event is still to come or a run is scheduled or under   *)
(* way, whatever failed or restarted in between.                            *)
NoForgottenGateway ==
    (object # None /\ object.status # Verdict(object)) =>
        store # object \/ due # "none" \/ running # None

(* When users stop, the status becomes and stays the verdict on the present *)
(* spec, also after a stale patch met a resource that was created again.    *)
StatusConverges == <>[](object = None \/ object.status = Verdict(object))

(* The controller's own status patches trigger it again, but not for ever:  *)
(* a patch that changes nothing is no event, and the resource comes to rest.*)
WritesStop == <>[][FALSE]_object
=============================================================================
