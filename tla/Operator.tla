------------------------------ MODULE Operator ------------------------------
(***************************************************************************)
(* The operator's process with both of its controllers over one cluster:   *)
(* what they share is the config map, the Keycloak pods and their admin    *)
(* secrets, and the Keycloak servers. An administrator edits or deletes    *)
(* the config map, deletes a Keycloak and asks for it again under its      *)
(* name, while passes that read the earlier state go on.                   *)
(*                                                                         *)
(* Simplifications. Of a pass only the steps are kept that read or write   *)
(* something the two controllers share; CodewindController and             *)
(* KeycloakController have them all, KeycloakRegistration has the single   *)
(* requests of a registration. A Codewind names one Keycloak, the only one *)
(* of that name that lives; its id stands for the authID. The caches are   *)
(* up to date, the event of a pod arrives before that of its deployment,   *)
(* and nobody deletes an object of a Codewind by hand.                     *)
(***************************************************************************)
EXTENDS Naturals, FiniteSets

CONSTANTS
    Codewinds,      \* names of Codewind resources
    NoCodewind,     \* not a name: the worker is idle
    Realms,         \* values of defaultRealm in the config map
    Nothing,        \* no realm: the config map or the status has none
    Defaults,       \* the realm in the config map of the operator's image
    MaxTries,       \* how often WaitForService asks
    FaultKinds,     \* "crash", "start", "write", "keycloak", "empty"
    MaxKeycloaks, MaxEdits, MaxFaults   \* bounds for TLC

Ids == 1 .. MaxKeycloaks

NoId == 0

ASSUME NoCodewindAssumption == NoCodewind \notin Codewinds
ASSUME NothingAssumption == Nothing \notin Realms
ASSUME DefaultsAssumption == Defaults \in Realms
ASSUME TriesAssumption == MaxTries \in Nat \ {0}
ASSUME FaultAssumption == FaultKinds \subseteq {"crash", "start", "write", "keycloak", "empty"}
ASSUME BoundAssumption == {MaxKeycloaks, MaxEdits, MaxFaults} \subseteq Nat

VARIABLES
    up,         \* is the operator's process running
    config,     \* the default realm in the operator's config map
    kc,         \* the Keycloaks that were asked for, one after the other
    pods,       \* the pod of each Keycloak: "none", "pending" or "running"
    secrets,    \* Keycloaks whose admin secret is there
    realms,     \* <<Keycloak, realm>>: the realms made in their servers
    bodiless,   \* history: those asked for, not made, and answered without a body
    registered, \* <<Keycloak, realm, Codewind>>: the registrations finished
    cw,         \* the Codewinds: their phase, and is their status Complete
    made,       \* the objects of Codewinds that refer to a Keycloak
    queue,      \* names in the work queue of the Codewind controller
    pass,       \* the pass of its worker
    kpass,      \* the pass of its worker
    left        \* what is left of the bounds

instances == <<kc, pods, secrets>>
servers == <<realms, bodiless, registered>>
codewinds == <<cw, made>>
codewindWorker == <<queue, pass>>
vars == <<up, config, kc, pods, secrets, realms, bodiless, registered, cw, made,
          queue, pass, kpass, left>>

Kinds == {"PFE", "AuthSecret", "Gatekeeper"}

Deployments == {"PFE", "Gatekeeper"}

Idle == [pc |-> "idle", cw |-> NoCodewind, realm |-> Nothing, id |-> NoId, tries |-> 0]

KIdle == [pc |-> "idle", id |-> NoId, wanted |-> Nothing, realm |-> Nothing]

Unmade == [asked |-> FALSE, live |-> FALSE, deployed |-> FALSE,
           exposed |-> FALSE, realm |-> Nothing]

Spend(budget) == left[budget] > 0 /\ left' = [left EXCEPT ![budget] = @ - 1]

Fault(kind) == kind \in FaultKinds /\ Spend("faults")

(* A server answers once its pod runs and the ingress leads to it. *)
Answers(id) == pods[id] = "running" /\ kc[id].exposed

-----------------------------------------------------------------------------
(* The process.                                                            *)

(* main and createOperatorConfigMap: the config map is made if there is    *)
(* none, an error of that ends the process; then the informers enqueue     *)
(* everything. (StartAfresh: the defaults are written in any case.)        *)
Started(new) ==
    /\ ~up /\ config' = new
    /\ \/ /\ up' = TRUE /\ UNCHANGED left
          /\ queue' = {c \in Codewinds : cw[c].phase \in {"live", "deleting"}}
       \/ Fault("start") /\ UNCHANGED <<up, queue>>
    /\ UNCHANGED <<instances, servers, codewinds, pass, kpass>>
StartAfresh == Started(Defaults)
StartOperator ==
    \/ Started(IF config = Nothing THEN Defaults ELSE config)
    \/ ~up /\ Fault("start") /\ UNCHANGED <<up, config, instances, servers, codewinds,
                                            codewindWorker, kpass>>

(* The process dies, with both controllers and their queues. *)
Crash ==
    /\ up /\ Fault("crash")
    /\ up' = FALSE
    /\ pass' = Idle /\ queue' = {}
    /\ kpass' = KIdle
    /\ UNCHANGED <<config, instances, servers, codewinds>>

-----------------------------------------------------------------------------
(* The worker of the Codewind controller.                                  *)

Goto(step) == pass' = [pass EXCEPT !.pc = step] /\ UNCHANGED queue

Requeue == pass' = Idle /\ queue' = queue \cup {pass.cw}

Ref(kind) == [cw |-> pass.cw, kind |-> kind, id |-> pass.id, realm |-> pass.realm]

Has(c, kind) == \E o \in made : o.cw = c /\ o.kind = kind

(* The head of Reconcile reads the config map before anything else, for a  *)
(* deletion too; without one the pass fails, and its name stays queued.    *)
(* A deletion is one step here: the finalizer, then the garbage collector. *)
(* (StartUnconfigured: a pass without a config map is taken for done.)     *)
Begin(c) ==
    /\ queue' = queue \ {c}
    /\ \/ /\ cw[c].phase = "live"
          /\ pass' = [Idle EXCEPT !.pc = "find", !.cw = c, !.realm = config]
          /\ UNCHANGED codewinds
       \/ /\ cw[c].phase = "deleting"
          /\ cw' = [cw EXCEPT ![c].phase = "gone"]
          /\ made' = {o \in made : o.cw # c}
          /\ UNCHANGED pass
       \/ /\ cw[c].phase = "gone"
          /\ UNCHANGED <<codewinds, pass>>
    /\ UNCHANGED <<up, config, instances, servers, kpass, left>>
StartUnconfigured(c) ==
    /\ up /\ pass.pc = "idle" /\ c \in queue
    /\ \/ config # Nothing /\ Begin(c)
       \/ /\ config = Nothing /\ queue' = queue \ {c}
          /\ UNCHANGED <<up, config, instances, servers, codewinds, pass, kpass, left>>
StartPass(c) ==
    /\ up /\ pass.pc = "idle" /\ c \in queue
    /\ config # Nothing /\ Begin(c)

(* getKeycloakPod takes the first of an unsorted list of all pods with the *)
(* name of the Keycloak, in whatever phase and of whatever authID; then    *)
(* the admin secret of that authID is read. (FindUnchecked: the pass goes  *)
(* on where there is no pod.)                                              *)
FindUnchecked ==
    /\ pass.pc = "find"
    /\ \/ \E id \in Ids : pods[id] # "none" /\ pass' = [pass EXCEPT !.id = id, !.pc = "wait"]
       \/ (\A id \in Ids : pods[id] = "none") /\ pass' = [pass EXCEPT !.pc = "wait"]
    /\ UNCHANGED <<up, config, instances, servers, codewinds, queue, kpass, left>>
FindKeycloak ==
    /\ pass.pc = "find"
    /\ \/ \E id \in Ids :
            /\ pods[id] # "none" /\ id \in secrets
            /\ pass' = [pass EXCEPT !.id = id,
                                    !.pc = IF cw[pass.cw].complete THEN "PFE" ELSE "wait"]
            /\ UNCHANGED queue
       \/ /\ (\A id \in Ids : pods[id] = "none")
             \/ (\E id \in Ids : pods[id] # "none" /\ id \notin secrets)
          /\ Requeue
    /\ UNCHANGED <<up, config, instances, servers, codewinds, kpass, left>>

(* WaitForService gives up after its last try; until then it has the only  *)
(* worker. (WaitForever: it never gives up.)                               *)
WaitForever ==
    /\ pass.pc = "wait" /\ Answers(pass.id) /\ Goto("register")
    /\ UNCHANGED <<up, config, instances, servers, codewinds, kpass, left>>
WaitForService ==
    /\ pass.pc = "wait"
    /\ \/ Answers(pass.id) /\ Goto("register")
       \/ /\ ~Answers(pass.id)
          /\ IF pass.tries + 1 = MaxTries
             THEN Requeue
             ELSE pass' = [pass EXCEPT !.tries = @ + 1] /\ UNCHANGED queue
    /\ UNCHANGED <<up, config, instances, servers, codewinds, kpass, left>>

Registration == <<pass.id, pass.realm, pass.cw>>

(* AddCodewindToKeycloak, as RegistrationPromise has it: the realm is made *)
(* where it is missing, and a failure may come after any part was done.    *)
(* (RegisterOnce: a Codewind that has a client is not registered again.)   *)
RegisterOnce ==
    /\ pass.pc = "register"
    /\ Goto("PFE")
    /\ IF \E r \in registered : r[3] = pass.cw
       THEN UNCHANGED servers
       ELSE /\ realms' = realms \cup {<<pass.id, pass.realm>>}
            /\ registered' = registered \cup {Registration}
    /\ UNCHANGED <<up, config, instances, bodiless, codewinds, kpass, left>>
Register ==
    /\ pass.pc = "register"
    /\ \/ /\ Answers(pass.id)
          /\ realms' = realms \cup {<<pass.id, pass.realm>>}
          /\ \/ /\ registered' = registered \cup {Registration}
                /\ (Goto("PFE") /\ UNCHANGED left) \/ (Requeue /\ Fault("keycloak"))
             \/ Requeue /\ Fault("keycloak") /\ UNCHANGED registered
       \/ /\ Requeue /\ Fault("keycloak")
          /\ UNCHANGED <<realms, registered>>
       \/ /\ ~Answers(pass.id)
          /\ Requeue /\ UNCHANGED <<realms, registered, left>>
    /\ UNCHANGED <<up, config, instances, bodiless, codewinds, kpass>>

After == [PFE |-> "AuthSecret", AuthSecret |-> "Gatekeeper", Gatekeeper |-> "publish"]

(* An object is made of what this pass read and found; one that is there   *)
(* is left as it is. A new deployment ends the pass.                       *)
Ensure(kind) ==
    /\ pass.pc = kind
    /\ \/ /\ Has(pass.cw, kind) /\ Goto(After[kind])
          /\ UNCHANGED <<made, left>>
       \/ /\ ~Has(pass.cw, kind)
          /\ made' = made \cup {Ref(kind)}
          /\ \/ /\ IF kind \in Deployments THEN Requeue ELSE Goto(After[kind])
                /\ UNCHANGED left
             \/ Requeue /\ Fault("write")
       \/ ~Has(pass.cw, kind) /\ Requeue /\ Fault("write") /\ UNCHANGED made
    /\ UNCHANGED <<up, config, instances, servers, cw, kpass>>

(* The closing Status().Update: refused if the Codewind was deleted        *)
(* meanwhile; accepted, its event starts one more pass.                    *)
Publish ==
    LET c == pass.cw
    IN  /\ pass.pc = "publish"
        /\ \/ /\ cw[c].phase = "live"
              /\ cw' = [cw EXCEPT ![c].complete = TRUE]
              /\ pass' = Idle
              /\ queue' = IF cw[c].complete THEN queue ELSE queue \cup {c}
              /\ UNCHANGED left
           \/ /\ IF cw[c].phase = "live" THEN Fault("write") ELSE UNCHANGED left
              /\ Requeue /\ UNCHANGED cw
        /\ UNCHANGED <<up, config, instances, servers, made, kpass>>

CodewindStep ==
    \/ FindKeycloak \/ WaitForService \/ Register
    \/ \E kind \in Kinds : Ensure(kind)
    \/ Publish

-----------------------------------------------------------------------------
(* The worker of the Keycloak controller.                                  *)

KGoto(step) == kpass' = [kpass EXCEPT !.pc = step]

(* The pass is over, with an error or without: what starts the next one is *)
(* the subject of KeycloakController, here it may start at any time.       *)
KEnd == kpass' = KIdle

KStart(id) ==
    /\ up /\ kpass.pc = "idle" /\ kc[id].live /\ config # Nothing
    /\ kpass' = [pc |-> "deploy", id |-> id, wanted |-> config, realm |-> kc[id].realm]
    /\ UNCHANGED <<up, config, instances, servers, codewinds, codewindWorker, left>>

(* The secret, and then the deployment, which starts the pod and ends the  *)
(* pass; then the ingress or route.                                        *)
KDeploy ==
    LET id == kpass.id
    IN  /\ kpass.pc = "deploy"
        /\ \/ /\ kc[id].deployed /\ KGoto("pod")
              /\ kc' = [kc EXCEPT ![id].exposed = TRUE]
              /\ UNCHANGED <<secrets, left>>
           \/ /\ ~kc[id].deployed /\ KEnd
              /\ secrets' = secrets \cup {id}
              /\ \/ kc' = [kc EXCEPT ![id].deployed = TRUE] /\ UNCHANGED left
                 \/ Fault("write") /\ UNCHANGED kc
        /\ UNCHANGED <<up, config, pods, servers, codewinds, codewindWorker>>

(* fetchKeycloakPod takes any pod of that name, too. *)
KCheckPod ==
    /\ kpass.pc = "pod"
    /\ \/ \E id \in Ids :
            /\ pods[id] # "none"
            /\ IF pods[id] = "running" /\ kpass.realm # kpass.wanted
               THEN kpass' = [kpass EXCEPT !.pc = "realm", !.realm = kpass.wanted]
               ELSE KGoto("store")
       \/ (\A id \in Ids : pods[id] = "none") /\ KGoto("store")
    /\ UNCHANGED <<up, config, instances, servers, codewinds, codewindWorker, left>>

(* AddCodewindRealmToKeycloak, with the realm read at the head of the pass.*)
(* An answer without a body to its creation counts as made.                *)
(* (InstallCurrent: with the one the config map has by now.)               *)
Installs(realm) ==
    /\ kpass.pc = "realm"
    /\ \/ /\ Answers(kpass.id) /\ kpass.id \in secrets
          /\ \/ /\ realms' = realms \cup {<<kpass.id, realm>>}
                /\ (KGoto("store") /\ UNCHANGED left) \/ (KEnd /\ Fault("keycloak"))
                /\ UNCHANGED bodiless
             \/ /\ <<kpass.id, realm>> \notin realms
                /\ bodiless' = bodiless \cup {<<kpass.id, realm>>}
                /\ KGoto("store") /\ Fault("empty")
                /\ UNCHANGED realms
       \/ KEnd /\ Fault("keycloak") /\ UNCHANGED <<realms, bodiless>>
       \/ /\ ~Answers(kpass.id) \/ kpass.id \notin secrets
          /\ KEnd /\ UNCHANGED <<realms, bodiless, left>>
    /\ UNCHANGED <<up, config, instances, registered, codewinds, codewindWorker>>
InstallCurrent == Installs(IF config = Nothing THEN kpass.realm ELSE config)
KInstallRealm == Installs(kpass.realm)

(* The closing Status().Update, accepted only while the Keycloak lives. *)
KStore ==
    LET id == kpass.id
    IN  /\ kpass.pc = "store"
        /\ \/ /\ kc[id].live
              /\ kc' = [kc EXCEPT ![id].realm = kpass.realm]
              /\ KEnd /\ UNCHANGED left
           \/ /\ IF kc[id].live THEN Fault("write") ELSE UNCHANGED left
              /\ KEnd /\ UNCHANGED kc
        /\ UNCHANGED <<up, config, pods, secrets, servers, codewinds, codewindWorker>>

KeycloakStep ==
    KDeploy \/ KCheckPod \/ KInstallRealm \/ KStore

-----------------------------------------------------------------------------
(* Users, the administrator, and the cluster.                              *)

(* An event reaches the queue of a process that runs. *)
Enqueue(c) == queue' = IF up THEN queue \cup {c} ELSE queue

UserCreate(c) ==
    /\ cw[c].phase = "absent"
    /\ cw' = [cw EXCEPT ![c].phase = "live"] /\ Enqueue(c)
    /\ UNCHANGED <<up, config, instances, servers, made, pass, kpass, left>>

UserDelete(c) ==
    /\ cw[c].phase = "live"
    /\ cw' = [cw EXCEPT ![c].phase = "deleting"] /\ Enqueue(c)
    /\ UNCHANGED <<up, config, instances, servers, made, pass, kpass, left>>

(* kubectl edit, apply or delete of the config map: it wakes no pass. *)
AdminEdit ==
    /\ Spend("edits")
    /\ config' \in (Realms \cup {Nothing}) \ {config}
    /\ UNCHANGED <<up, instances, servers, codewinds, codewindWorker, kpass>>

(* A Keycloak of that name, if there is none. *)
CreateKeycloak(id) ==
    /\ \A i \in Ids : ~kc[i].live /\ (i < id <=> kc[i].asked)
    /\ kc' = [kc EXCEPT ![id].live = TRUE, ![id].asked = TRUE]
    /\ UNCHANGED <<up, config, pods, secrets, servers, codewinds, codewindWorker, kpass, left>>

DeleteKeycloak(id) ==
    /\ kc[id].live
    /\ kc' = [kc EXCEPT ![id].live = FALSE]
    /\ UNCHANGED <<up, config, pods, secrets, servers, codewinds, codewindWorker, kpass, left>>

(* The pod of a deployment comes up; the event of the deployment follows. *)
PodProgress(id) ==
    /\ kc[id].deployed /\ kc[id].live /\ pods[id] # "running"
    /\ pods' = [pods EXCEPT ![id] = IF @ = "none" THEN "pending" ELSE "running"]
    /\ UNCHANGED <<up, config, kc, secrets, servers, codewinds, codewindWorker, kpass, left>>

(* What a Keycloak owned goes with it, in whatever order: its secret, ... *)
CollectSecret(id) ==
    /\ ~kc[id].live /\ id \in secrets
    /\ secrets' = secrets \ {id}
    /\ UNCHANGED <<up, config, kc, pods, servers, codewinds, codewindWorker, kpass, left>>

(* ... with the deployment the pod, and with the volume what its server knew. *)
CollectServer(id) ==
    /\ ~kc[id].live /\ kc[id].deployed
    /\ kc' = [kc EXCEPT ![id] = [Unmade EXCEPT !.asked = TRUE]]
    /\ pods' = [pods EXCEPT ![id] = "none"]
    /\ realms' = {r \in realms : r[1] # id}
    /\ registered' = {r \in registered : r[1] # id}
    /\ UNCHANGED <<up, config, secrets, bodiless, codewinds, codewindWorker, kpass, left>>

Init ==
    /\ up = FALSE /\ config = Nothing
    /\ kc = [id \in Ids |-> Unmade]
    /\ pods = [id \in Ids |-> "none"] /\ secrets = {}
    /\ realms = {} /\ bodiless = {} /\ registered = {}
    /\ cw = [c \in Codewinds |-> [phase |-> "absent", complete |-> FALSE]]
    /\ made = {}
    /\ queue = {} /\ pass = Idle
    /\ kpass = KIdle
    /\ left = [edits |-> MaxEdits, faults |-> MaxFaults]

Next ==
    \/ StartOperator \/ Crash \/ AdminEdit
    \/ \E c \in Codewinds : StartPass(c) \/ UserCreate(c) \/ UserDelete(c)
    \/ CodewindStep
    \/ \E id \in Ids : KStart(id) \/ CreateKeycloak(id) \/ DeleteKeycloak(id)
    \/ KeycloakStep
    \/ \E id \in Ids : PodProgress(id) \/ CollectSecret(id) \/ CollectServer(id)

Spec == Init /\ [][Next]_vars

(* The process is started again, and the worker of the Codewinds goes on   *)
(* with its pass and takes the names from its queue in turn. Nothing is    *)
(* asked of Keycloak: neither that one is made, nor that its pod comes up. *)
Fairness ==
    /\ WF_vars(StartOperator)
    /\ WF_vars(CodewindStep)
    /\ \A c \in Codewinds : SF_vars(StartPass(c))

FairSpec == Spec /\ Fairness

-----------------------------------------------------------------------------
(* What should hold.                                                       *)

Instances == [asked : BOOLEAN, live : BOOLEAN, deployed : BOOLEAN,
              exposed : BOOLEAN, realm : Realms \cup {Nothing}]

Steps == {"idle", "find", "wait", "register", "publish"} \cup Kinds

KSteps == {"idle", "deploy", "pod", "realm", "store"}

Passes == [pc : Steps, cw : Codewinds \cup {NoCodewind}, realm : Realms \cup {Nothing},
           id : Ids \cup {NoId}, tries : 0 .. (MaxTries - 1)]

KPasses == [pc : KSteps, id : Ids \cup {NoId}, wanted : Realms \cup {Nothing},
            realm : Realms \cup {Nothing}]

Statuses == [phase : {"absent", "live", "deleting", "gone"}, complete : BOOLEAN]

Objects == [cw : Codewinds, kind : Kinds, id : Ids, realm : Realms]

(* Every variable stays in its type, and a pass has read the config map.   *)
TypeOK ==
    /\ up \in BOOLEAN
    /\ config \in Realms \cup {Nothing}
    /\ kc \in [Ids -> Instances]
    /\ pods \in [Ids -> {"none", "pending", "running"}]
    /\ secrets \subseteq Ids
    /\ realms \subseteq Ids \X Realms /\ bodiless \subseteq Ids \X Realms
    /\ registered \subseteq Ids \X Realms \X Codewinds
    /\ cw \in [Codewinds -> Statuses]
    /\ made \subseteq Objects
    /\ queue \subseteq Codewinds
    /\ pass \in Passes /\ kpass \in KPasses
    /\ left \in [{"edits", "faults"} -> Nat]
    /\ pass.pc # "idle" => pass.cw \in Codewinds /\ pass.realm \in Realms
    /\ pass.pc \notin {"idle", "find"} => pass.id \in Ids
    /\ kpass.pc # "idle" => kpass.id \in Ids /\ kpass.wanted \in Realms
    /\ kpass.pc = "realm" => kpass.realm = kpass.wanted

(* Whatever a pass deploys points at a realm this Codewind is registered   *)
(* in, as long as that Keycloak is there: the config map may change, and   *)
(* the Keycloak be made anew, between the passes that deploy one thing     *)
(* after the other.                                                        *)
DeployedRegistered ==
    \A o \in made : kc[o.id].live => <<o.id, o.realm, o.cw>> \in registered

(* What a server has, or whose creation it answered without a body. *)
Acknowledged == realms \cup bodiless

(* The realm recorded in a Keycloak exists in its own server, or that      *)
(* server was asked for this very realm and answered without a body, which *)
(* is taken for success; though the config map is edited between the steps *)
(* of the pass that makes it, and the pod that pass looked at may be that  *)
(* of an earlier Keycloak.                                                 *)
RecordedRealmAcknowledged ==
    \A id \in Ids :
        kc[id].realm # Nothing => <<id, kc[id].realm>> \in Acknowledged

(* The operator never takes back what an administrator wrote into the      *)
(* config map, however often it is started again.                          *)
SettingsKept ==
    [][config # Nothing /\ config' # config => AdminEdit]_vars

(* A Codewind that is being deleted goes away, though the only worker may  *)
(* be waiting for a Keycloak that never answers: all it takes is that the  *)
(* config map is not missing for good.                                     *)
DeletionNotHeldUp ==
    <>[](config # Nothing) =>
        \A c \in Codewinds : cw[c].phase = "deleting" ~> cw[c].phase = "gone"

(* There is a config map, and one Keycloak, which answers. *)
Serviceable ==
    /\ config # Nothing
    /\ \E id \in Ids : /\ Answers(id) /\ id \in secrets
                       /\ \A i \in Ids \ {id} : pods[i] = "none"

(* Once that is so for good, every Codewind asked for is served, whatever  *)
(* the administrator did to the config map and to the Keycloak before.     *)
ServedInTheEnd ==
    <>[]Serviceable =>
        \A c \in Codewinds : cw[c].phase = "live"
                             ~> (cw[c].complete \/ cw[c].phase \in {"deleting", "gone"})
=============================================================================
