------------------------- MODULE KeycloakController -------------------------
(***************************************************************************)
(* The reconciler of a Keycloak resource (pkg/controller/keycloak) with    *)
(* its cluster: the API server, the informer caches, the pods of the       *)
(* Keycloak deployment and the users. There is one name here, asked for,   *)
(* deleted and asked for again; another name would share nothing with it   *)
(* but the worker.                                                         *)
(*                                                                         *)
(* A pass brings everything up in one go, apart from the pod, which comes  *)
(* up in its own time: the realm is installed by whichever later pass      *)
(* finds the pod running. What wakes that pass is the point of the module. *)
(***************************************************************************)
EXTENDS Naturals

CONSTANTS
    OnOpenShift,   \* does the cluster serve route.openshift.io
    PodsFirst,     \* do a pod's own events arrive before its deployment's
    FaultKinds,    \* "detect", "read", "write", "keycloak", "empty", "crash"
    MaxCreates, MaxEdits, MaxFaults, MaxUnread  \* bounds for TLC

Exposures == {"Route", "Ingress"}

(* All of them get a controller reference to their Keycloak. *)
Kinds == {"ServiceAccount", "UserSecret", "TLSSecret", "PVC",
          "Deployment", "Service"} \cup Exposures

ASSUME OpenShiftAssumption == OnOpenShift \in BOOLEAN
ASSUME PodsFirstAssumption == PodsFirst \in BOOLEAN
ASSUME FaultAssumption ==
    FaultKinds \subseteq {"detect", "read", "write", "keycloak", "empty", "crash"}
ASSUME BoundAssumption == {MaxCreates, MaxEdits, MaxFaults, MaxUnread} \subseteq Nat

VARIABLES
    kc,         \* the Keycloak resource in the API server
    seen,       \* the same resource in the informer cache
    objs,       \* <<authID, kind>> of every object in the API server
    cached,     \* authIDs whose deployment is in the informer cache
    pods,       \* <<authID, phase>> of every Keycloak pod
    seenPods,   \* the pods in the informer cache
    unreported, \* is the status of a deployment behind its pods
    news,       \* is an event of a deployment on its way to the operator
    realms,     \* authIDs whose server has the default realm
    bodiless,   \* history: authIDs whose server made none, and said so with no body
    nextId,     \* the next authID to be generated
    queued,     \* is the name in the work queue
    pass,       \* the pass the worker is running
    left        \* what is left of the bounds

resource == <<kc, nextId>>
workload == <<pods, unreported, realms, bodiless>>
caches == <<seen, cached, seenPods>>
vars == <<kc, seen, objs, cached, pods, seenPods, unreported, news, realms, bodiless,
          nextId, queued, pass, left>>

NoId == 0

(* The resource: its revision, authID annotation, and whether its status   *)
(* has the access URL and the default realm. It never carries a finalizer. *)
Keycloak == [live : BOOLEAN, rv : Nat, id : Nat, url : BOOLEAN, realm : BOOLEAN]

Absent(rv) == [live |-> FALSE, rv |-> rv, id |-> NoId, url |-> FALSE, realm |-> FALSE]

Idle == [pc |-> "idle", kc |-> Absent(0), openshift |-> FALSE]

Spend(budget) == left[budget] > 0 /\ left' = [left EXCEPT ![budget] = @ - 1]

Fault(kind) == kind \in FaultKinds /\ Spend("faults")

Accepts == kc.live /\ kc.rv = pass.kc.rv

Commit(new) == kc' = IF new = kc THEN kc ELSE [new EXCEPT !.rv = @ + 1]

Key(k) == <<pass.kc.id, k>>

(* Does a Get find the object: a deployment is looked up in the cache its  *)
(* events go through. The other caches are taken to be up to date: where   *)
(* one is not, the Create is answered by AlreadyExists, to the same end.   *)
Found(k) == IF k = "Deployment" THEN pass.kc.id \in cached ELSE Key(k) \in objs

-----------------------------------------------------------------------------
(* Steps of the worker.                                                    *)

(* (AfterTooSoon: the deployment before the volume its pod mounts.)        *)
AfterTooSoon(step, openshift) ==
    [ServiceAccount |-> "UserSecret", UserSecret |-> "TLSSecret",
     TLSSecret |-> "Deployment", Deployment |-> "PVC", PVC |-> "Service",
     Service |-> IF openshift THEN "Route" ELSE "Ingress",
     Route |-> "pod", Ingress |-> "pod"][step]
After(step, openshift) ==
    [ServiceAccount |-> "UserSecret",
     UserSecret     |-> "TLSSecret",
     TLSSecret      |-> "PVC",
     PVC            |-> "Deployment",
     Deployment     |-> "Service",
     Service        |-> IF openshift THEN "Route" ELSE "Ingress",
     Route          |-> "pod",
     Ingress        |-> "pod"][step]

Steps == Kinds \cup {"identify", "pod", "realm", "store"}

Goto(step) == pass' = [pass EXCEPT !.pc = step] /\ UNCHANGED queued

Advance == Goto(After(pass.pc, pass.openshift))

Requeue == pass' = Idle /\ queued' = TRUE

Settle == pass' = Idle /\ UNCHANGED queued

(* (FirstStepUnnamed: the authID is taken for granted.)                    *)
FirstStepUnnamed(copy) == "ServiceAccount"
FirstStep(copy) == IF copy.id = NoId THEN "identify" ELSE "ServiceAccount"

(* Reconcile, up to the authID. *)
StartPass ==
    /\ pass.pc = "idle" /\ queued
    /\ \/ /\ queued' = FALSE
          /\ \E detected \in {OnOpenShift, FALSE} :
                /\ IF detected = OnOpenShift THEN UNCHANGED left ELSE Fault("detect")
                /\ pass' = IF seen.live
                           THEN [pc |-> FirstStep(seen), kc |-> seen, openshift |-> detected]
                           ELSE Idle
       \/ Fault("read") /\ UNCHANGED <<queued, pass>>
    /\ UNCHANGED <<resource, workload, caches, objs, news>>

(* setKeycloakAuthID: the write may also land without its answer.          *)
(* (IdentifyAgain: a conflict is met by writing the id on a fresh copy.)   *)
IdentifyAgain ==
    /\ pass.pc = "identify"
    /\ Requeue
    /\ IF kc.live THEN Commit([kc EXCEPT !.id = nextId]) ELSE UNCHANGED kc
    /\ nextId' = nextId + 1
    /\ UNCHANGED <<workload, caches, objs, news, left>>
Identify ==
    /\ pass.pc = "identify"
    /\ Requeue
    /\ \/ /\ Accepts /\ Commit([kc EXCEPT !.id = nextId])
          /\ nextId' = nextId + 1
          /\ UNCHANGED left \/ Fault("write")
       \/ /\ IF Accepts THEN Fault("write") ELSE UNCHANGED left
          /\ UNCHANGED resource
    /\ UNCHANGED <<workload, caches, objs, news>>

Add(k) == objs' = objs \cup {Key(k)} /\ news' = (news \/ k = "Deployment")

(* What a pass does once the object it ensures was made: the access URL is *)
(* noted by the pass that makes the route or ingress, and by no other.     *)
Ensured(k) ==
    IF k = "Deployment"
    THEN Requeue
    ELSE /\ pass' = [pass EXCEPT !.pc = After(k, pass.openshift),
                                 !.kc.url = @ \/ k \in Exposures]
         /\ UNCHANGED queued

(* "Check if ... already exists, if not create a new one"; that another    *)
(* pass was faster is no error for any of them.                            *)
Ensure(k) ==
    /\ pass.pc = k
    /\ \/ /\ Found(k)
          /\ Advance
          /\ UNCHANGED <<objs, news, left>>
       \/ /\ ~Found(k) /\ Key(k) \notin objs
          /\ Add(k)
          /\ Ensured(k) /\ UNCHANGED left
       \/ /\ ~Found(k) /\ Key(k) \in objs
          /\ Ensured(k)
          /\ UNCHANGED <<objs, news, left>>
       \/ /\ ~Found(k)
          /\ Fault("write") /\ Requeue
          /\ (Key(k) \notin objs /\ Add(k)) \/ UNCHANGED <<objs, news>>
       \/ /\ Fault("read") /\ Requeue
          /\ UNCHANGED <<objs, news>>
    /\ UNCHANGED <<resource, workload, caches>>

(* fetchKeycloakPod lists by the name of the resource, which the pods of   *)
(* an earlier Keycloak of that name carry too, and takes the first. With   *)
(* no pod, or none that is running, the pass leaves the realm alone.       *)
CheckPod ==
    /\ pass.pc = "pod"
    /\ \/ \E p \in seenPods :
            IF p[2] = "running" /\ ~pass.kc.realm
            THEN pass' = [pass EXCEPT !.pc = "realm", !.kc.realm = TRUE] /\ UNCHANGED queued
            ELSE Goto("store")
       \/ seenPods = {} /\ Goto("store")
    /\ UNCHANGED <<resource, workload, caches, objs, news, left>>

(* The list fails, and that counts as no pod. *)
PodUnread ==
    /\ pass.pc = "pod"
    /\ Spend("unread") /\ Goto("store")
    /\ UNCHANGED <<resource, workload, caches, objs, news>>

(* The user secret is read, and AddCodewindRealmToKeycloak run against the *)
(* server of this authID, in one step: it waits for the server, and fails  *)
(* before or after the realm exists, or has made it. An answer without a   *)
(* body to the creation counts as made, whatever its status is: the pass   *)
(* goes on to store a realm that is not there.                             *)
(* (InstallRealmUnchecked: its error does not end the pass.)               *)
InstallRealmUnchecked ==
    /\ pass.pc = "realm"
    /\ Goto("store")
    /\ \/ realms' = realms \cup {pass.kc.id} /\ UNCHANGED left
       \/ Fault("keycloak") /\ UNCHANGED realms
    /\ UNCHANGED <<resource, caches, objs, pods, unreported, news, bodiless>>
InstallRealm ==
    /\ pass.pc = "realm"
    /\ \/ /\ Found("UserSecret") /\ Key("running") \in pods
          /\ \/ /\ realms' = realms \cup {pass.kc.id}
                /\ (Goto("store") /\ UNCHANGED left) \/ (Requeue /\ Fault("keycloak"))
                /\ UNCHANGED bodiless
             \/ /\ pass.kc.id \notin realms
                /\ bodiless' = bodiless \cup {pass.kc.id}
                /\ Goto("store") /\ Fault("empty")
                /\ UNCHANGED realms
       \/ /\ ~Found("UserSecret") \/ Key("running") \notin pods
          /\ Requeue /\ UNCHANGED <<realms, bodiless, left>>
       \/ /\ Fault("read") \/ Fault("keycloak")
          /\ Requeue /\ UNCHANGED <<realms, bodiless>>
    /\ UNCHANGED <<resource, caches, objs, pods, unreported, news>>

(* The closing Status().Update, the only write of the pass's status.       *)
(* (StoreAnyway: a conflict is met by writing it on a fresh copy.)         *)
StoreAnyway ==
    /\ pass.pc = "store"
    /\ IF kc.live THEN Commit([kc EXCEPT !.url = pass.kc.url, !.realm = pass.kc.realm])
                  ELSE UNCHANGED kc
    /\ Settle
    /\ UNCHANGED <<nextId, workload, caches, objs, news, left>>
StoreStatus ==
    /\ pass.pc = "store"
    /\ \/ /\ Accepts
          /\ Commit([kc EXCEPT !.url = pass.kc.url, !.realm = pass.kc.realm])
          /\ (Settle /\ UNCHANGED left) \/ (Requeue /\ Fault("write"))
       \/ /\ IF Accepts THEN Fault("write") ELSE UNCHANGED left
          /\ Requeue
          /\ UNCHANGED kc
    /\ UNCHANGED <<nextId, workload, caches, objs, news>>

WorkerStep ==
    \/ Identify
    \/ \E k \in Kinds : Ensure(k)
    \/ CheckPod \/ PodUnread
    \/ InstallRealm
    \/ StoreStatus

-----------------------------------------------------------------------------
(* What wakes a pass: events of the resource and of its deployment. The    *)
(* watch on pods enqueues nothing, for a pod belongs to its ReplicaSet.    *)

InformerSync ==
    /\ seen # kc
    /\ seen' = kc /\ queued' = TRUE
    /\ UNCHANGED <<resource, workload, cached, seenPods, objs, news, pass, left>>

CachedNow == {o[1] : o \in {x \in objs : x[2] = "Deployment"}}

(* Any event of a deployment enqueues its owner.                           *)
(* (DeploymentSilent: the watch is missing.)                               *)
DeploymentSilent ==
    /\ news /\ news' = FALSE
    /\ cached' = CachedNow
    /\ UNCHANGED <<resource, workload, seen, seenPods, objs, queued, pass, left>>
DeploymentSync ==
    /\ news /\ news' = FALSE
    /\ cached' = CachedNow /\ queued' = TRUE
    /\ UNCHANGED <<resource, workload, seen, seenPods, objs, pass, left>>

PodsSync ==
    /\ seenPods # pods
    /\ seenPods' = pods
    /\ UNCHANGED <<resource, workload, seen, cached, objs, news, queued, pass, left>>

-----------------------------------------------------------------------------
(* The rest of the cluster, and the users.                                 *)

(* The pod of a deployment is made, and runs. *)
PodProgress(id) ==
    /\ <<id, "Deployment">> \in objs /\ <<id, "running">> \notin pods
    /\ pods' = IF <<id, "pending">> \in pods
               THEN (pods \ {<<id, "pending">>}) \cup {<<id, "running">>}
               ELSE pods \cup {<<id, "pending">>}
    /\ unreported' = TRUE
    /\ UNCHANGED <<resource, caches, objs, news, realms, bodiless, queued, pass, left>>

(* The status of the deployments follows their pods. *)
Report ==
    /\ unreported /\ (PodsFirst => seenPods = pods)
    /\ unreported' = FALSE /\ news' = TRUE
    /\ UNCHANGED <<resource, caches, objs, pods, realms, bodiless, queued, pass, left>>

(* The garbage collector removes what a Keycloak owned that is gone, with  *)
(* its deployment the pod, with its volume the data of its server.         *)
GarbageCollect(id) ==
    /\ kc.id # id
    /\ objs' = {o \in objs : o[1] # id}
    /\ pods' = {p \in pods : p[1] # id}
    /\ news' = (news \/ <<id, "Deployment">> \in objs)
    /\ realms' = realms \ {id}
    /\ UNCHANGED <<resource, caches, unreported, bodiless, queued, pass, left>>

UserCreate ==
    /\ ~kc.live /\ Spend("creates")
    /\ kc' = [Absent(kc.rv + 1) EXCEPT !.live = TRUE]
    /\ UNCHANGED <<nextId, workload, caches, objs, news, queued, pass>>

(* A user edits a field of no interest here: only the revision changes. *)
UserEdit ==
    /\ kc.live /\ Spend("edits")
    /\ kc' = [kc EXCEPT !.rv = @ + 1]
    /\ UNCHANGED <<nextId, workload, caches, objs, news, queued, pass>>

UserDelete ==
    /\ kc.live
    /\ kc' = Absent(kc.rv + 1)
    /\ UNCHANGED <<nextId, workload, caches, objs, news, queued, pass, left>>

(* The ten-hourly resync enqueues the cached resource again. *)
Resync ==
    /\ seen.live /\ ~queued /\ queued' = TRUE
    /\ UNCHANGED <<resource, workload, caches, objs, news, pass, left>>

(* The operator dies and is started again: its caches are filled anew. *)
Crash ==
    /\ Fault("crash")
    /\ pass' = Idle
    /\ seen' = kc /\ seenPods' = pods /\ cached' = CachedNow
    /\ queued' = kc.live /\ news' = FALSE
    /\ UNCHANGED <<resource, workload, objs>>

Init ==
    /\ kc = Absent(0) /\ seen = kc
    /\ objs = {} /\ cached = {}
    /\ pods = {} /\ seenPods = {} /\ unreported = FALSE
    /\ news = FALSE /\ realms = {} /\ bodiless = {}
    /\ nextId = NoId + 1
    /\ queued = FALSE /\ pass = Idle
    /\ left = [creates |-> MaxCreates, edits |-> MaxEdits, faults |-> MaxFaults,
               unread |-> MaxUnread]

Next ==
    \/ StartPass \/ WorkerStep
    \/ InformerSync \/ DeploymentSync \/ PodsSync
    \/ \E o \in objs : PodProgress(o[1]) \/ GarbageCollect(o[1])
    \/ Report
    \/ UserCreate \/ UserEdit \/ UserDelete
    \/ Resync \/ Crash

Spec == Init /\ [][Next]_vars

(* The worker and the queue keep going, and so does the cluster. Users,    *)
(* faults, crashes and the ten-hourly resync promise nothing.              *)
Fairness ==
    /\ WF_vars(StartPass) /\ WF_vars(WorkerStep)
    /\ WF_vars(InformerSync) /\ WF_vars(DeploymentSync) /\ WF_vars(PodsSync)
    /\ WF_vars(\E o \in objs : PodProgress(o[1]))
    /\ WF_vars(\E o \in objs : GarbageCollect(o[1]))
    /\ WF_vars(Report)

FairSpec == Spec /\ Fairness

-----------------------------------------------------------------------------
(* What should hold.                                                       *)

Phases == {"pending", "running"}

Ids == 1 .. (nextId - 1)

Passes == [pc : Steps \cup {"idle"}, kc : Keycloak, openshift : BOOLEAN]

Budgets == {"creates", "edits", "faults", "unread"}

(* Every variable stays in its type; what exists carries an authID that    *)
(* was given out.                                                          *)
TypeOK ==
    /\ kc \in Keycloak /\ seen \in Keycloak
    /\ {kc.id, seen.id} \subseteq Ids \cup {NoId}
    /\ objs \subseteq Ids \X Kinds /\ cached \subseteq Ids
    /\ pods \subseteq Ids \X Phases /\ seenPods \subseteq Ids \X Phases
    /\ realms \subseteq Ids /\ bodiless \subseteq Ids
    /\ nextId \in Nat \ {NoId}
    /\ {news, queued, unreported} \subseteq BOOLEAN
    /\ pass \in Passes
    /\ left \in [Budgets -> Nat]

(* An authID names every object of a Keycloak: it never changes while that *)
(* Keycloak lives, whatever stale copy a pass works on.                    *)
AuthIDStable == [][kc.live /\ kc'.live /\ kc.id # NoId => kc'.id = kc.id]_vars

(* What the status of a Keycloak says is not taken back while it lives: a  *)
(* pass whose copy was read before an earlier pass stored its URL or realm *)
(* finds the route there and notes no URL, but cannot store that.          *)
StatusKept ==
    [][kc.live /\ kc'.live => (kc.url => kc'.url) /\ (kc.realm => kc'.realm)]_vars

(* Servers that have the realm, or answered its creation without a body. *)
Acknowledged == realms \cup bodiless

(* The pass notes the realm in its copy before it makes it. What is stored *)
(* is in the server of this very Keycloak nevertheless, or that server     *)
(* answered its creation without a body and without making it: never is a  *)
(* realm stored after an error, a crash, or an answer of the server of an  *)
(* earlier Keycloak of the same name, whose pod the pass may have seen.    *)
RealmAcknowledged == kc.realm => kc.id \in Acknowledged

(* The deployment is there only with what its pod mounts and runs as.      *)
PodBacked ==
    <<kc.id, "Deployment">> \in objs =>
        \A k \in {"ServiceAccount", "UserSecret", "PVC"} : <<kc.id, k>> \in objs

(* "Watch for changes to the Keycloak deployment to catch pod changes that *)
(* require keycloak database updates": while its pod runs without a realm, *)
(* a pass is under way or something is going to start one.                 *)
NoMissedWakeUp ==
    kc.live /\ <<kc.id, "running">> \in pods /\ ~kc.realm =>
        queued \/ pass # Idle \/ seen # kc \/ news \/ unreported

(* Where the events of pods come first, the realm of a Keycloak is asked   *)
(* for and recorded in the end, unless it is deleted or a list of its pods *)
(* failed: an event of its deployment follows every change of its pod.     *)
EventuallyRealm ==
    kc.live ~> (kc.realm \/ ~kc.live \/ left.unread < MaxUnread)
=============================================================================
