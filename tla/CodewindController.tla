------------------------- MODULE CodewindController -------------------------
(***************************************************************************)
(* The reconciler of Codewind resources (pkg/controller/codewind) with the *)
(* cluster it works against: the API server and its optimistic locking,    *)
(* the informer caches every Get is answered from, the work queue, the     *)
(* garbage collector, the Keycloak server, and users who edit and delete   *)
(* resources while a pass is running.                                      *)
(*                                                                         *)
(* One worker runs one pass at a time (MaxConcurrentReconciles is left at  *)
(* 1).  A pass is a straight line of steps; each step is one call to the   *)
(* API server or to Keycloak, so that every other actor may act between    *)
(* two of them.                                                            *)
(***************************************************************************)
EXTENDS Naturals, FiniteSets

CONSTANTS
    CRs,                \* names of Codewind resources
    NoCodewind,         \* not a name: the worker is idle
    OnOpenShift,        \* does the cluster serve route.openshift.io
    Lagging,            \* informers whose cache may trail the API server
    ForeignFinalizers,  \* finalizers other parties may put on a Codewind
    FaultKinds,         \* calls that may fail
    Losable,            \* kinds of objects someone may delete by hand
    MaxCreates, MaxEdits, MaxFaults, MaxCrashes, MaxLosses  \* bounds for TLC

(* Every object the reconciler ensures, under the name of its Get. *)
SharedKinds == {"ClusterRole", "TektonClusterRole", "ODOClusterRole"}

ClusterBindings == {"TektonBinding", "ODOBinding"}

Deployments == {"PFE", "Performance", "Gatekeeper"}

Exposures == {"Route", "Ingress"}

(* Objects that get a controller reference to their Codewind. *)
Owned == {"RoleBinding", "ServiceAccount", "PVC", "PFEService",
          "PerformanceService", "SessionSecret", "TLSSecret", "AuthSecret",
          "GatekeeperService"} \cup Deployments \cup Exposures

Kinds == SharedKinds \cup ClusterBindings \cup Owned

(* Objects whose Create may not answer AlreadyExists. *)
Strict == SharedKinds \cup ClusterBindings \cup {"RoleBinding", "ServiceAccount"}

(* One informer per API kind: objects of one kind become visible together. *)
InformerOf(k) ==
    CASE k \in SharedKinds                                      -> "ClusterRole"
      [] k \in ClusterBindings                                  -> "ClusterRoleBinding"
      [] k \in Deployments                                      -> "Deployment"
      [] k \in {"SessionSecret", "TLSSecret", "AuthSecret"}     -> "Secret"
      [] k \in {"PFEService", "PerformanceService", "GatekeeperService"} -> "Service"
      [] OTHER                                                  -> k

Informers == {InformerOf(k) : k \in Kinds}

OwnFinalizer == "codewind-crb"

Finalizers == {OwnFinalizer} \cup ForeignFinalizers

NoWorkspace == 0

ASSUME NoCodewindAssumption == NoCodewind \notin CRs
ASSUME OpenShiftAssumption == OnOpenShift \in BOOLEAN
ASSUME LaggingAssumption == Lagging \subseteq Informers
ASSUME FinalizerAssumption == OwnFinalizer \notin ForeignFinalizers
(* The platform detection, a Get ("readBinding" those of the clean-up), a  *)
(* Create or Update, a Delete, a request to Keycloak.                      *)
ASSUME FaultAssumption ==
    FaultKinds \subseteq {"detect", "read", "readBinding", "write", "delete", "keycloak"}
ASSUME LosableAssumption == Losable \subseteq Kinds
ASSUME BoundAssumption ==
    {MaxCreates, MaxEdits, MaxFaults, MaxCrashes, MaxLosses} \subseteq Nat

VARIABLES
    cr,         \* the Codewind resources in the API server
    seen,       \* the same resources in the informer cache
    objs,       \* <<workspace, kind>> of every object in the API server
    cached,     \* what the caches of the lagging informers hold
    emptyAuth,  \* workspaces whose auth secret was built with an empty key
    nextWs,     \* the next workspace id to be generated
    keycloak,   \* the Keycloak pod: "absent", "starting" or "running"
    registered, \* workspaces that have a client in the Keycloak realm
    queue,      \* the work queue
    pass,       \* the pass the worker is running
    left        \* what is left of the bounds

cluster == <<cr, objs, emptyAuth, nextWs>>
caches == <<seen, cached>>
vars == <<cr, seen, objs, cached, emptyAuth, nextWs, keycloak, registered,
          queue, pass, left>>
-----------------------------------------------------------------------------
(* Resources and the API server.                                           *)

(* The stored KeycloakStatus; "Started" never leaves the pass that sets it. *)
Statuses == {"", "Complete"}

(* A Codewind: its revision, workspaceID annotation, finalizers, deletion  *)
(* timestamp and stored status. A deleted one keeps its last revision.     *)
Codewind == [live : BOOLEAN, rv : Nat, ws : Nat,
             fin : SUBSET Finalizers,
             deleting : BOOLEAN, status : Statuses, url : BOOLEAN]

Absent(rv) == [live |-> FALSE, rv |-> rv, ws |-> NoWorkspace, fin |-> {},
               deleting |-> FALSE, status |-> "", url |-> FALSE]

(* An Update built on the copy "base" is accepted only if that copy is     *)
(* still the current one.                                                  *)
Accepts(c, base) == cr[c].live /\ cr[c].rv = base.rv

(* The resource as it is stored after an accepted write of "new".          *)
Stored(new) ==
    IF new.deleting /\ new.fin = {} THEN Absent(new.rv + 1)
                                    ELSE [new EXCEPT !.rv = @ + 1]

Commit(c, new) ==
    cr' = IF new = cr[c] THEN cr ELSE [cr EXCEPT ![c] = Stored(new)]

View == {o \in objs : InformerOf(o[2]) \notin Lagging} \cup cached

Key(k) == IF k \in SharedKinds THEN <<NoWorkspace, k>> ELSE <<pass.cw.ws, k>>

Spend(budget) == left[budget] > 0 /\ left' = [left EXCEPT ![budget] = @ - 1]

Fault(kind) == kind \in FaultKinds /\ Spend("faults")

-----------------------------------------------------------------------------
(* The pass: which step it is at, the Codewind it is for, the local copy   *)
(* of that Codewind, the detected platform, and whether the client key     *)
(* was fetched from Keycloak in this very pass.                            *)

Idle == [pc |-> "idle", cr |-> NoCodewind, cw |-> Absent(0),
         openshift |-> FALSE, key |-> FALSE]

(* The step that follows once a step of the bring-up is done. *)
After(step, openshift) ==
    [finalizer          |-> "ClusterRole",
     ClusterRole        |-> "RoleBinding",
     RoleBinding        |-> "TektonClusterRole",
     TektonClusterRole  |-> "TektonBinding",
     TektonBinding      |-> IF openshift THEN "ODOClusterRole" ELSE "ServiceAccount",
     ODOClusterRole     |-> "ODOBinding",
     ODOBinding         |-> "ServiceAccount",
     ServiceAccount     |-> "PVC",
     PVC                |-> "keycloak",
     keycloak           |-> "register",
     register           |-> "PFE",
     PFE                |-> "PFEService",
     PFEService         |-> "Performance",
     Performance        |-> "PerformanceService",
     PerformanceService |-> "SessionSecret",
     SessionSecret      |-> "TLSSecret",
     TLSSecret          |-> "AuthSecret",
     AuthSecret         |-> "Gatekeeper",
     Gatekeeper         |-> "GatekeeperService",
     GatekeeperService  |-> IF openshift THEN "Route" ELSE "Ingress",
     Route              |-> "publish",
     Ingress            |-> "publish"][step]

(* What a pass ensures, on either platform. *)
Needs(openshift) ==
    Kinds \ (IF openshift THEN {"Ingress"} ELSE {"ODOClusterRole", "ODOBinding", "Route"})

(* What the pods of a deployment refer to: their account and what binds it *)
(* to its role, the volume claim, the secrets, and the service whose       *)
(* address is injected as an environment variable when the pod starts.     *)
Mounts ==
    [PFE         |-> {"ServiceAccount", "RoleBinding", "PVC"},
     Performance |-> {"ServiceAccount"},
     Gatekeeper  |-> {"ServiceAccount", "TLSSecret", "AuthSecret", "SessionSecret",
                      "PFEService"}]

CleanupSteps == {"dropODO", "dropTekton", "clear"}

Steps == Kinds \cup CleanupSteps
         \cup {"identify", "finalizer", "keycloak", "register", "publish"}

(* The pass goes on with its next step. *)
Goto(step) == pass' = [pass EXCEPT !.pc = step] /\ UNCHANGED queue

(* A slip in the order: the gatekeeper before the secret it mounts. *)
AdvanceGatekeeperFirst ==
    Goto(CASE pass.pc = "TLSSecret"  -> "Gatekeeper"
           [] pass.pc = "Gatekeeper" -> "AuthSecret"
           [] pass.pc = "AuthSecret" -> "GatekeeperService"
           [] OTHER                  -> After(pass.pc, pass.openshift))

Advance == Goto(After(pass.pc, pass.openshift))

(* The pass returns an error or asks for a requeue. *)
RequeueInWork == pass' = [Idle EXCEPT !.cr = pass.cr] /\ queue' = queue \cup {pass.cr}
Requeue == pass' = Idle /\ queue' = queue \cup {pass.cr}

(* The pass returns no error: its work leaves the queue. *)
Settle == pass' = Idle /\ UNCHANGED queue

FirstStep(cw) ==
    IF cw.ws = NoWorkspace THEN "identify"
    ELSE IF cw.deleting THEN "dropODO" ELSE "finalizer"

-----------------------------------------------------------------------------
(* Steps of the worker.                                                    *)

(* Reconcile, up to the branch on the fetched Codewind. *)
StartPass(c) ==
    /\ pass.pc = "idle" /\ c \in queue
    /\ \/ /\ queue' = queue \ {c}
          /\ \E detected \in {OnOpenShift, FALSE} :
                /\ IF detected = OnOpenShift THEN UNCHANGED left ELSE Fault("detect")
                /\ pass' = IF seen[c].live
                           THEN [pc |-> FirstStep(seen[c]), cr |-> c, cw |-> seen[c],
                                 openshift |-> detected, key |-> FALSE]
                           ELSE Idle
       \/ Fault("read") /\ UNCHANGED <<queue, pass>>
    /\ UNCHANGED <<cluster, caches, keycloak, registered>>

(* setCodewindWorkspaceID: the write may also land without its answer.     *)
(* (IdentifyAgain: a conflict is met by writing the id on a fresh copy.)   *)
IdentifyAgain ==
    LET c == pass.cr
    IN  /\ pass.pc = "identify"
        /\ Requeue
        /\ IF cr[c].live THEN Commit(c, [cr[c] EXCEPT !.ws = nextWs]) ELSE UNCHANGED cr
        /\ nextWs' = nextWs + 1
        /\ UNCHANGED <<caches, objs, emptyAuth, keycloak, registered, left>>
Identify ==
    LET c == pass.cr
        new == [cr[c] EXCEPT !.ws = nextWs]
        Lands == Accepts(c, pass.cw) /\ Commit(c, new) /\ nextWs' = nextWs + 1
    IN  /\ pass.pc = "identify"
        /\ Requeue
        /\ \/ Lands /\ (UNCHANGED left \/ Fault("write"))
           \/ /\ IF Accepts(c, pass.cw) THEN Fault("write") ELSE UNCHANGED left
              /\ UNCHANGED <<cr, nextWs>>
        /\ UNCHANGED <<caches, objs, emptyAuth, keycloak, registered>>

(* addCodewindFinalizer: any finalizer at all is taken for one's own.      *)
(* (GuardUnchecked: the error of a refused Update goes unnoticed.)         *)
GuardUnchecked ==
    LET c == pass.cr
        new == [cr[c] EXCEPT !.fin = {OwnFinalizer}]
    IN  /\ pass.pc = "finalizer"
        /\ pass' = [pass EXCEPT !.pc = After(@, pass.openshift), !.cw.fin = {OwnFinalizer}]
        /\ \/ Accepts(c, pass.cw) /\ Commit(c, new) /\ UNCHANGED left
           \/ /\ IF Accepts(c, pass.cw) THEN Fault("write") ELSE UNCHANGED left
              /\ UNCHANGED cr
        /\ UNCHANGED <<caches, objs, emptyAuth, nextWs, keycloak, registered, queue>>
AddFinalizer ==
    LET c == pass.cr
        new == [cr[c] EXCEPT !.fin = {OwnFinalizer}]
    IN  /\ pass.pc = "finalizer"
        /\ \/ /\ pass.cw.fin # {}
              /\ Advance
              /\ UNCHANGED <<cr, left>>
           \/ /\ pass.cw.fin = {} /\ Accepts(c, pass.cw)
              /\ Commit(c, new)
              /\ \/ /\ pass' = [pass EXCEPT !.pc = After(@, pass.openshift), !.cw = cr'[c]]
                    /\ UNCHANGED <<queue, left>>
                 \/ Fault("write") /\ Requeue
           \/ /\ pass.cw.fin = {}
              /\ IF Accepts(c, pass.cw) THEN Fault("write") ELSE UNCHANGED left
              /\ Requeue
              /\ UNCHANGED cr
        /\ UNCHANGED <<caches, objs, emptyAuth, nextWs, keycloak, registered>>

(* What a pass does once the object it ensures is there. *)
Ensured(k) ==
    IF k \in Deployments THEN Requeue
    ELSE IF k \in Exposures
         THEN pass' = [pass EXCEPT !.pc = "publish", !.cw.url = TRUE] /\ UNCHANGED queue
         ELSE Advance

(* The Create of object k lands in the API server. *)
Add(k) ==
    /\ objs' = objs \cup {Key(k)}
    /\ emptyAuth' = IF k = "AuthSecret" /\ ~pass.key
                    THEN emptyAuth \cup {pass.cw.ws} ELSE emptyAuth

(* "Check if ... already exists, if not create a new one": the Get is      *)
(* answered by the cache, the Create by the API server.                    *)
Ensure(k) ==
    /\ pass.pc = k
    /\ \/ /\ Key(k) \in View
          /\ Advance
          /\ UNCHANGED <<objs, emptyAuth, left>>
       \/ /\ Key(k) \notin View /\ Key(k) \notin objs
          /\ Add(k)
          /\ Ensured(k) /\ UNCHANGED left
       \/ /\ Key(k) \notin View /\ Key(k) \in objs
          /\ IF k \in Strict THEN Requeue ELSE Ensured(k)
          /\ UNCHANGED <<objs, emptyAuth, left>>
       \/ /\ Key(k) \notin View
          /\ Fault("write") /\ Requeue
          /\ (Key(k) \notin objs /\ Add(k)) \/ UNCHANGED <<objs, emptyAuth>>
       \/ /\ Fault("read") /\ Requeue
          /\ UNCHANGED <<objs, emptyAuth>>
    /\ UNCHANGED <<caches, cr, nextWs, keycloak, registered>>

(* getKeycloakPod (a pod in any phase will do) and the admin credentials.  *)
(* (FindKeycloakOnce: not finding a pod is no error.)                      *)
FindKeycloakOnce ==
    /\ pass.pc = "keycloak"
    /\ IF keycloak = "absent" THEN Settle ELSE Advance
    /\ UNCHANGED <<cluster, caches, keycloak, registered, left>>
FindKeycloak ==
    /\ pass.pc = "keycloak"
    /\ \/ keycloak # "absent" /\ Advance /\ UNCHANGED left
       \/ keycloak = "absent" /\ Requeue /\ UNCHANGED left
       \/ Fault("read") /\ Requeue
    /\ UNCHANGED <<cluster, caches, keycloak, registered>>

(* A slip: the status is stored as soon as the client is registered. *)
RegisterAndStore ==
    LET c == pass.cr
        new == [cr[c] EXCEPT !.status = "Complete"]
    IN  /\ pass.pc = "register"
        /\ \/ /\ pass.cw.status # "" /\ Advance
              /\ UNCHANGED <<cr, registered>>
           \/ /\ pass.cw.status = "" /\ keycloak = "running" /\ Accepts(c, pass.cw)
              /\ Commit(c, new)
              /\ registered' = registered \cup {pass.cw.ws}
              /\ pass' = [pass EXCEPT !.pc = After(@, pass.openshift),
                                      !.cw = cr'[c], !.key = TRUE]
              /\ UNCHANGED queue
           \/ /\ pass.cw.status = "" /\ (keycloak # "running" \/ ~Accepts(c, pass.cw))
              /\ Requeue /\ UNCHANGED <<cr, registered>>
        /\ UNCHANGED <<caches, objs, emptyAuth, nextWs, keycloak, left>>

(* AddCodewindToKeycloak, one step here: it waits for the service, then    *)
(* fails before or after the client exists, or returns the client's key.   *)
Register ==
    /\ pass.pc = "register"
    /\ \/ /\ pass.cw.status # ""
          /\ Advance
          /\ UNCHANGED <<registered, left>>
       \/ /\ pass.cw.status = "" /\ keycloak = "running"
          /\ registered' = registered \cup {pass.cw.ws}
          /\ pass' = [pass EXCEPT !.pc = After(@, pass.openshift),
                                  !.cw.status = "Complete", !.key = TRUE]
          /\ UNCHANGED <<queue, left>>
       \/ /\ pass.cw.status = "" /\ keycloak # "running"
          /\ Requeue
          /\ UNCHANGED <<registered, left>>
       \/ /\ pass.cw.status = "" /\ keycloak = "running"
          /\ Fault("keycloak") /\ Requeue
          /\ registered' \in {registered, registered \cup {pass.cw.ws}}
    /\ UNCHANGED <<cluster, caches, keycloak>>

(* The closing Status().Update, the only write of the pass's status. *)
Publish ==
    LET c == pass.cr
        new == [cr[c] EXCEPT !.status = pass.cw.status, !.url = pass.cw.url]
    IN  /\ pass.pc = "publish"
        /\ \/ /\ Accepts(c, pass.cw) /\ Commit(c, new)
              /\ \/ Settle /\ UNCHANGED left
                 \/ Fault("write") /\ Requeue
           \/ /\ IF Accepts(c, pass.cw) THEN Fault("write") ELSE UNCHANGED left
              /\ Requeue
              /\ UNCHANGED cr
        /\ UNCHANGED <<caches, objs, emptyAuth, nextWs, keycloak, registered>>

(* handleCodewindCRBFinalizer, one binding: only a Get without an error    *)
(* leads to a Delete, and a Delete that fails (which it does too when the  *)
(* binding is already gone) ends the pass with the Get's nil error.        *)
DropNothing(step, k, next) ==
    /\ pass.pc = step
    /\ Goto(next)
    /\ UNCHANGED <<cluster, caches, keycloak, registered, left>>
DropBinding(step, k, next) ==
    /\ pass.pc = step
    /\ \/ /\ Key(k) \in View /\ Key(k) \in objs
          /\ objs' = objs \ {Key(k)}
          /\ Goto(next) /\ UNCHANGED left
       \/ /\ Key(k) \in View /\ Key(k) \notin objs
          /\ Settle /\ UNCHANGED <<objs, left>>
       \/ /\ Key(k) \in View
          /\ Fault("delete") /\ Settle
          /\ objs' \in {objs, objs \ {Key(k)}}
       \/ /\ Key(k) \notin View
          /\ Goto(next) /\ UNCHANGED <<objs, left>>
       \/ /\ Fault("readBinding") /\ Goto(next)
          /\ UNCHANGED objs
    /\ UNCHANGED <<caches, cr, emptyAuth, nextWs, keycloak, registered>>

(* removeFinalizers clears the whole list, those of other parties too.     *)
(* (ClearOnce: an Update that fails is not reported.)                      *)
ClearOnce ==
    /\ pass.pc = "clear"
    /\ \/ /\ Accepts(pass.cr, pass.cw) /\ UNCHANGED left
          /\ Commit(pass.cr, [cr[pass.cr] EXCEPT !.fin = {}])
       \/ /\ IF Accepts(pass.cr, pass.cw) THEN Fault("write") ELSE UNCHANGED left
          /\ UNCHANGED cr
    /\ Settle
    /\ UNCHANGED <<caches, objs, emptyAuth, nextWs, keycloak, registered>>
ClearFinalizers ==
    LET c == pass.cr
        new == [cr[c] EXCEPT !.fin = {}]
    IN  /\ pass.pc = "clear"
        /\ \/ /\ Accepts(c, pass.cw) /\ Commit(c, new)
              /\ \/ Settle /\ UNCHANGED left
                 \/ Fault("write") /\ Requeue
           \/ /\ IF Accepts(c, pass.cw) THEN Fault("write") ELSE UNCHANGED left
              /\ Requeue
              /\ UNCHANGED cr
        /\ UNCHANGED <<caches, objs, emptyAuth, nextWs, keycloak, registered>>

WorkerStep ==
    \/ Identify
    \/ AddFinalizer
    \/ \E k \in Kinds : Ensure(k)
    \/ FindKeycloak
    \/ Register
    \/ Publish
    \/ DropBinding("dropODO", "ODOBinding", "dropTekton")
    \/ DropBinding("dropTekton", "TektonBinding", "clear")
    \/ ClearFinalizers

-----------------------------------------------------------------------------
(* Everything around the worker.                                           *)

(* A user asks for a Codewind; another party may have put its finalizer on it. *)
UserCreate(c) ==
    /\ ~cr[c].live /\ Spend("creates")
    /\ \E fin \in SUBSET ForeignFinalizers :
          cr' = [cr EXCEPT ![c] = [Absent(@.rv + 1) EXCEPT !.live = TRUE, !.fin = fin]]
    /\ UNCHANGED <<caches, objs, emptyAuth, nextWs, keycloak, registered, queue, pass>>

(* A user edits a field of no interest here: only the revision changes. *)
UserEdit(c) ==
    /\ cr[c].live /\ Spend("edits")
    /\ cr' = [cr EXCEPT ![c].rv = @ + 1]
    /\ UNCHANGED <<caches, objs, emptyAuth, nextWs, keycloak, registered, queue, pass>>

(* kubectl delete: at once without finalizers, else a deletion timestamp. *)
UserDelete(c) ==
    /\ cr[c].live /\ ~cr[c].deleting
    /\ Commit(c, [cr[c] EXCEPT !.deleting = TRUE])
    /\ UNCHANGED <<caches, objs, emptyAuth, nextWs, keycloak, registered, queue, pass, left>>

(* The other party finishes its own clean-up. *)
RemoveForeign(c) ==
    /\ cr[c].deleting /\ cr[c].fin \cap ForeignFinalizers # {}
    /\ Commit(c, [cr[c] EXCEPT !.fin = @ \ ForeignFinalizers])
    /\ UNCHANGED <<caches, objs, emptyAuth, nextWs, keycloak, registered, queue, pass, left>>

(* The watch brings the cached Codewind up to date and enqueues its name. *)
InformerSync(c) ==
    /\ seen[c] # cr[c]
    /\ seen' = [seen EXCEPT ![c] = cr[c]]
    /\ queue' = queue \cup {c}
    /\ UNCHANGED <<cluster, cached, keycloak, registered, pass, left>>

OfInformer(set, i) == {o \in set : InformerOf(o[2]) = i}

(* One lagging informer catches up; no event of an object enqueues anything. *)
ObjectsSync(i) ==
    /\ OfInformer(cached, i) # OfInformer(objs, i)
    /\ cached' = (cached \ OfInformer(cached, i)) \cup OfInformer(objs, i)
    /\ UNCHANGED <<cluster, seen, keycloak, registered, queue, pass, left>>

(* The ten-hourly resync enqueues every cached Codewind again. *)
Resync(c) ==
    /\ seen[c].live /\ c \notin queue
    /\ queue' = queue \cup {c}
    /\ UNCHANGED <<cluster, caches, keycloak, registered, pass, left>>

KeycloakProgress ==
    /\ keycloak # "running"
    /\ keycloak' = IF keycloak = "absent" THEN "starting" ELSE "running"
    /\ UNCHANGED <<cluster, caches, registered, queue, pass, left>>

(* The garbage collector removes what a Codewind owned that is gone. It    *)
(* may work in several rounds; within one, the order makes no difference   *)
(* to anybody, for a workspace id is never used again.                     *)
GarbageCollect(ws) ==
    LET dead == {o \in objs : o[1] = ws /\ o[2] \in Owned}
    IN  /\ dead # {} /\ \A c \in CRs : cr[c].ws # ws
        /\ objs' = objs \ dead
        /\ emptyAuth' = emptyAuth \ {ws}
        /\ UNCHANGED <<caches, cr, nextWs, keycloak, registered, queue, pass, left>>

(* Someone deletes an object by hand. *)
LoseObject(o) ==
    /\ o[2] \in Losable /\ Spend("losses")
    /\ objs' = objs \ {o}
    /\ emptyAuth' = IF o[2] = "AuthSecret" THEN emptyAuth \ {o[1]} ELSE emptyAuth
    /\ UNCHANGED <<caches, cr, nextWs, keycloak, registered, queue, pass>>

(* The operator dies (a panic, an eviction) and is started again: the pass *)
(* is gone, the informers list everything and enqueue every Codewind.      *)
Crash ==
    /\ Spend("crashes")
    /\ pass' = Idle
    /\ seen' = cr
    /\ cached' = {o \in objs : InformerOf(o[2]) \in Lagging}
    /\ queue' = {c \in CRs : cr[c].live}
    /\ UNCHANGED <<cluster, keycloak, registered>>

Init ==
    /\ cr = [c \in CRs |-> Absent(0)]
    /\ seen = cr
    /\ objs = {} /\ cached = {}
    /\ emptyAuth = {} /\ registered = {}
    /\ nextWs = NoWorkspace + 1
    /\ keycloak = "absent"
    /\ queue = {}
    /\ pass = Idle
    /\ left = [creates |-> MaxCreates, edits |-> MaxEdits, faults |-> MaxFaults,
               crashes |-> MaxCrashes, losses |-> MaxLosses]

Next ==
    \/ \E c \in CRs : StartPass(c)
    \/ WorkerStep
    \/ \E c \in CRs : UserCreate(c) \/ UserEdit(c) \/ UserDelete(c)
    \/ \E c \in CRs : RemoveForeign(c) \/ InformerSync(c) \/ Resync(c)
    \/ \E i \in Lagging : ObjectsSync(i)
    \/ KeycloakProgress
    \/ \E o \in objs : GarbageCollect(o[1]) \/ LoseObject(o)
    \/ Crash

Spec == Init /\ [][Next]_vars

(* The worker does not stop in the middle of a pass, the queue hands out   *)
(* every name in turn, and the machinery of the cluster keeps going.       *)
(* Users, faults, crashes and the ten-hourly resync promise nothing.       *)
Fairness ==
    /\ WF_vars(WorkerStep)
    /\ \A c \in CRs : SF_vars(StartPass(c)) /\ WF_vars(InformerSync(c))
                      /\ WF_vars(RemoveForeign(c))
    /\ \A i \in Lagging : WF_vars(ObjectsSync(i))
    /\ WF_vars(KeycloakProgress)
    /\ WF_vars(\E o \in objs : GarbageCollect(o[1]))

FairSpec == Spec /\ Fairness

-----------------------------------------------------------------------------
(* What should hold.                                                       *)

Objects == Nat \X Kinds

KeycloakPhases == {"absent", "starting", "running"}

Passes == [pc : Steps \cup {"idle"}, cr : CRs \cup {NoCodewind},
           cw : Codewind, openshift : BOOLEAN, key : BOOLEAN]

Budgets == {"creates", "edits", "faults", "crashes", "losses"}

(* Every variable stays in its type, and only a pass is for a Codewind. *)
TypeOK ==
    /\ cr \in [CRs -> Codewind]
    /\ seen \in [CRs -> Codewind]
    /\ objs \subseteq Objects /\ cached \subseteq Objects
    /\ emptyAuth \subseteq Nat /\ registered \subseteq Nat
    /\ nextWs \in Nat
    /\ keycloak \in KeycloakPhases
    /\ queue \subseteq CRs
    /\ pass \in Passes
    /\ pass.pc = "idle" <=> pass.cr = NoCodewind
    /\ left \in [Budgets -> Nat]

(* The cluster role bindings have no owner: only the finalizer removes     *)
(* them, so none may outlive the Codewind it was made for.                 *)
NoOrphanBinding ==
    \A o \in objs : o[2] \in ClusterBindings => \E c \in CRs : cr[c].live /\ cr[c].ws = o[1]

(* A workspace id names every object of a Codewind: once stored it never   *)
(* changes while that Codewind lives, whatever stale copy a pass works on. *)
WorkspaceStable ==
    [][\A c \in CRs : cr[c].live /\ cr'[c].live /\ cr[c].ws # NoWorkspace
                      => cr'[c].ws = cr[c].ws]_vars

(* Every copy of a Codewind, cached or in work, is an old state of it, and *)
(* one of the current revision agrees with it: what lets the API server    *)
(* refuse a write that would be built on a stale copy.                     *)
Trails(x, y) ==
    /\ x.rv <= y.rv
    /\ x.rv = y.rv => /\ x.live = y.live /\ x.ws = y.ws
                      /\ x.fin = y.fin /\ x.deleting = y.deleting

CopiesTrail ==
    /\ \A c \in CRs : Trails(seen[c], cr[c])
    /\ pass.pc # "idle" => Trails(pass.cw, cr[pass.cr])
    /\ pass.pc = "identify" => pass.cw.ws = NoWorkspace

GrantSteps == Kinds \cup {"keycloak", "register", "publish"}

(* A Codewind that was guarded in a copy not being deleted still is.       *)
StillGuarded(x, c) ==
    x.fin # {} /\ ~x.deleting => cr[c].ws = x.ws /\ cr[c].fin # {}

BindingsOf(ws) == {o \in objs : o[1] = ws /\ o[2] \in ClusterBindings}

(* Only a named, living Codewind is guarded.                               *)
GuardNamed == \A c \in CRs : cr[c].fin # {} => cr[c].live /\ cr[c].ws # NoWorkspace

(* The cache never shows a guard that was lifted, but with the deletion.   *)
SeenGuarded == \A c \in CRs : StillGuarded(seen[c], c)

(* A pass grants only to a Codewind that is guarded from then on.          *)
PassGuarded ==
    /\ pass.pc = "finalizer" => /\ pass.cw.ws # NoWorkspace /\ ~pass.cw.deleting
                                /\ StillGuarded(pass.cw, pass.cr)
    /\ pass.pc \in GrantSteps => /\ cr[pass.cr].ws = pass.cw.ws
                                 /\ cr[pass.cr].fin # {}

(* A pass that cleans up saw the deletion, and removes binding by binding. *)
CleanUpOrdered ==
    /\ pass.pc \in CleanupSteps => /\ pass.cw.deleting
                                   /\ pass.cw.rv <= seen[pass.cr].rv
    /\ pass.pc = "dropTekton" => <<pass.cw.ws, "ODOBinding">> \notin objs
    /\ pass.pc = "clear" => BindingsOf(pass.cw.ws) = {}

(* Every binding in force is that of a guarded Codewind.                   *)
BindingsGuarded ==
    \A o \in objs : o[2] \in ClusterBindings =>
        \E c \in CRs : cr[c].ws = o[1] /\ cr[c].fin # {}

(* Why no binding is orphaned: it is granted only in a pass whose Codewind *)
(* is guarded from the finalizer step on, and the guard is lifted only by  *)
(* a pass that saw the deletion and has removed both bindings by then.     *)
GuardHolds ==
    /\ GuardNamed
    /\ SeenGuarded
    /\ PassGuarded
    /\ CleanUpOrdered
    /\ BindingsGuarded

InUse(c) == cr[c].live /\ ~cr[c].deleting

(* The gatekeeper authenticates with the client secret in its auth secret: *)
(* none of a Codewind in use is ever made of an empty key.                 *)
AuthSecretUsable == \A c \in CRs : InUse(c) => cr[c].ws \notin emptyAuth

PerWorkspace(ws, k) == IF k \in SharedKinds THEN <<NoWorkspace, k>> ELSE <<ws, k>>

(* Once the stored status says Complete, everything the Codewind needs has *)
(* been made and Keycloak has its client: nothing runs a further pass.     *)
CompleteMeansDeployed ==
    \A c \in CRs : InUse(c) /\ cr[c].status = "Complete" =>
        /\ cr[c].ws \in registered
        /\ \A k \in Needs(OnOpenShift) : PerWorkspace(cr[c].ws, k) \in objs

(* No deployment of a Codewind in use is there before the account, volume  *)
(* and secrets its pods mount and the Keycloak client they authenticate as.*)
DeploymentsBacked ==
    \A c \in CRs, k \in Deployments :
      InUse(c) /\ <<cr[c].ws, k>> \in objs =>
        /\ cr[c].ws \in registered
        /\ \A m \in Mounts[k] : <<cr[c].ws, m>> \in objs

Unsettled(c) == cr[c].live /\ (cr[c].deleting \/ cr[c].status = "")

(* The queue never forgets a Codewind that still needs a pass: its name is *)
(* queued, in work, or an event that enqueues it is on its way.            *)
NoLostWork ==
    \A c \in CRs : Unsettled(c) => c \in queue \/ pass.cr = c \/ seen[c] # cr[c]

(* "Most importantly, users need their Access URL" (README): a Codewind    *)
(* whose stored status says Complete shows it.                             *)
PublishedURL == \A c \in CRs : cr[c].live /\ cr[c].status = "Complete" => cr[c].url

(* A Codewind that is asked for is served, unless it is deleted again.     *)
EventuallyServed ==
    \A c \in CRs : cr[c].live ~> (cr[c].status = "Complete" \/ cr[c].deleting \/ ~cr[c].live)

(* A Codewind that is being deleted goes away.                             *)
EventuallyGone == \A c \in CRs : cr[c].deleting ~> ~cr[c].live

(* Whatever carries the workspace id of no Codewind is removed in the end. *)
EventuallyCollected ==
    []<>(\A o \in objs : o[1] # NoWorkspace => \E c \in CRs : cr[c].ws = o[1])

-----------------------------------------------------------------------------
(* The promise of CodewindLifecycle, kept for every Codewind.              *)

Phase(c) ==
    CASE ~cr[c].live                -> "absent"
      [] cr[c].live /\ cr[c].ws = NoWorkspace -> "requested"
      [] cr[c].live /\ cr[c].ws # NoWorkspace /\ cr[c].fin = {} -> "named"
      [] OTHER -> IF cr[c].status = "" THEN "guarded" ELSE "served"

Lifecycle == INSTANCE CodewindLifecycle WITH
    Permissions <- ClusterBindings \cap Needs(OnOpenShift),
    phase       <- [c \in CRs |-> Phase(c)],
    ending      <- [c \in CRs |-> cr[c].deleting],
    ws          <- [c \in CRs |-> cr[c].ws],
    granted     <- {o \in objs : o[2] \in ClusterBindings},
    used        <- 1 .. (nextWs - 1)

(* Through stale copies, conflicts, lost answers and crashes, the steps of *)
(* the pass amount to the life cycle: named once, granted under guard,     *)
(* served with its bindings, gone with nothing left in force.              *)
ImplementsLifecycle == Lifecycle!Spec
=============================================================================
