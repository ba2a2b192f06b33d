------------------------ MODULE KeycloakRegistration ------------------------
(***************************************************************************)
(* How the two controllers of the operator set up Keycloak (pkg/security): *)
(* the Codewind controller registers workspaces one after the other, the   *)
(* Keycloak controller installs the default realm. They share a process, a *)
(* Keycloak server and nothing else. Every step is one HTTP request;       *)
(* between two of them the other controller, the administrator of the      *)
(* realm and the server may act.                                           *)
(***************************************************************************)
EXTENDS Naturals, FiniteSets

CONSTANTS
    Workspaces,      \* workspace ids to register; a client and a role each
    NoWorkspace,     \* no workspace is being registered
    Removable,       \* workspaces whose client the administrator may remove
    Errors,          \* how a request may fail, see Reply
    MaxFaults, MaxOutages, MaxRepeats, MaxCrashes, MaxRemovals  \* bounds for TLC

ASSUME NoWorkspaceAssumption == NoWorkspace \notin Workspaces
ASSUME RemovableAssumption == Removable \subseteq Workspaces
ASSUME ErrorsAssumption == Errors \subseteq {"refused", "empty", "unsent", "unanswered"}
ASSUME BoundsAssumption ==
    {MaxFaults, MaxOutages, MaxRepeats, MaxCrashes, MaxRemovals} \subseteq Nat

VARIABLES
    up,          \* does the Keycloak service answer
    realm,       \* does the default realm exist
    clients,     \* workspaces that have a client in the realm
    roles,       \* workspaces that have an access role
    known,       \* workspaces whose developer has an account
    granted,     \* workspaces whose developer was granted the role
    pc,          \* the step each controller is at
    job,         \* the workspace the Codewind controller is registering
    complete,    \* workspaces whose stored KeycloakStatus is Complete
    defaultRealm,\* is the default realm recorded in the Keycloak resource
    left         \* what is left of the bounds

server == <<up, realm, clients, roles, known, granted>>
local == <<pc, job>>
stored == <<complete, defaultRealm>>
vars == <<up, realm, clients, roles, known, granted, pc, job,
          complete, defaultRealm, left>>

Controllers == {"codewind", "keycloak"}

Steps == {"idle", "wait", "login", "realmGet", "themes", "realmCreate", "realmDone",
          "clientGet", "appendGet", "appendPut", "clientCreate", "roleCreate",
          "userGet", "grantUserGet", "grantRoleGet", "grant",
          "secretClientGet", "secretGet", "returned"}

Spend(budget) == left[budget] > 0 /\ left' = [left EXCEPT ![budget] = @ - 1]

(* How a request ends: "ok", the server's own answer; "refused", an error  *)
(* status with a body; "empty", one without; "unsent", no connection;      *)
(* "unanswered", the request was served and the answer lost. The route in  *)
(* front of a service that is down refuses, or there is no connection.     *)
Reply(how) ==
    \/ how = "ok" /\ up /\ UNCHANGED left
    \/ how \in {"refused", "unsent"} /\ ~up /\ UNCHANGED left
    \/ how \in Errors /\ up /\ Spend("faults")

Failed == {"refused", "empty", "unsent", "unanswered"}

Go(p, step) ==
    pc' = [pc EXCEPT ![p] = step] /\ UNCHANGED job

(* The call returns an error: the pass ends and is queued again. *)
Fail(p) == Go(p, "idle")

(* A nil pointer is dereferenced: the process dies, with both controllers. *)
Panic ==
    /\ pc' = [p \in Controllers |-> "idle"]
    /\ UNCHANGED job

(* A GET whose answer is checked: "found" is what the server knows. *)
Get(p, step, found, next) ==
    /\ pc[p] = step
    /\ \/ Reply("ok") /\ Go(p, IF found THEN next ELSE "idle")
       \/ \E how \in Failed : Reply(how) /\ Fail(p)
    /\ UNCHANGED <<server, stored>>

-----------------------------------------------------------------------------
(* Steps both controllers take: AddCodewindRealmToKeycloak in full, the    *)
(* head of AddCodewindToKeycloak.                                          *)

(* (StartWithoutJob: the configuration is not given the workspace.)        *)
StartWithoutJob(w) ==
    /\ pc["codewind"] = "idle" /\ w \notin complete
    /\ Go("codewind", "wait")
    /\ UNCHANGED <<server, stored, left>>
StartRegistration(w) ==
    /\ pc["codewind"] = "idle" /\ w \notin complete
    /\ pc' = [pc EXCEPT !["codewind"] = "wait"]
    /\ job' = w
    /\ UNCHANGED <<server, stored, left>>

StartRealm ==
    /\ pc["keycloak"] = "idle" /\ ~defaultRealm
    /\ Go("keycloak", "wait")
    /\ UNCHANGED <<server, stored, left>>

(* WaitForService gives up after its last try. *)
Wait(p) ==
    /\ pc[p] = "wait"
    /\ Go(p, IF up THEN "login" ELSE "idle")
    /\ UNCHANGED <<server, stored, left>>

Login(p) == Get(p, "login", TRUE, "realmGet")

AfterRealm(p) == IF p = "codewind" THEN "clientGet" ELSE "realmDone"

(* configureKeycloakRealm: an error of the GET counts as "no such realm". *)
RealmGet(p) ==
    /\ pc[p] = "realmGet"
    /\ \/ Reply("ok") /\ Go(p, IF realm THEN AfterRealm(p) ELSE "themes")
       \/ \E how \in Failed : Reply(how) /\ Go(p, "themes")
    /\ UNCHANGED <<server, stored>>

Themes(p) == Get(p, "themes", TRUE, "realmCreate")

(* SecRealmCreate: an answer without a body is a success, whatever its     *)
(* status; a realm that exists already is an error.                        *)
RealmCreate(p) ==
    /\ pc[p] = "realmCreate"
    /\ \/ /\ Reply("ok")
          /\ Go(p, IF realm THEN "idle" ELSE AfterRealm(p))
          /\ realm' = TRUE
       \/ Reply("empty") /\ Go(p, AfterRealm(p)) /\ UNCHANGED realm
       \/ \E how \in {"refused", "unsent"} : Reply(how) /\ Fail(p) /\ UNCHANGED realm
       \/ Reply("unanswered") /\ Fail(p) /\ realm' = TRUE
    /\ UNCHANGED <<up, clients, roles, known, granted, stored>>

(* The status of the Keycloak resource is stored, or its update refused. *)
RealmStored ==
    /\ pc["keycloak"] = "realmDone"
    /\ Go("keycloak", "idle")
    /\ \/ defaultRealm' = TRUE /\ UNCHANGED left
       \/ Spend("repeats") /\ UNCHANGED defaultRealm
    /\ UNCHANGED <<server, complete>>

-----------------------------------------------------------------------------
(* The rest of AddCodewindToKeycloak.                                      *)

(* configureKeycloakClient: again an error counts as "no such client". *)
ClientGet ==
    /\ pc["codewind"] = "clientGet"
    /\ \/ Reply("ok") /\ Go("codewind", IF job \in clients THEN "appendGet" ELSE "clientCreate")
       \/ \E how \in Failed : Reply(how) /\ Go("codewind", "clientCreate")
    /\ UNCHANGED <<server, stored>>

(* SecClientAppendURL reads the client again, without a look at whether it *)
(* is still there, ...                                                     *)
AppendGet ==
    /\ pc["codewind"] = "appendGet"
    /\ \/ Reply("ok") /\ job \in clients /\ Go("codewind", "appendPut")
       \/ Reply("ok") /\ job \notin clients /\ Panic
       \/ \E how \in Failed : Reply(how) /\ Fail("codewind")
    /\ UNCHANGED <<server, stored>>

(* ... and puts it back with one more URL, which no answer of the server   *)
(* is looked at for: the list of URLs is all it may change.                *)
AppendPut ==
    /\ pc["codewind"] = "appendPut"
    /\ \/ \E how \in {"ok", "refused", "empty"} : Reply(how) /\ Go("codewind", "roleCreate")
       \/ \E how \in {"unsent", "unanswered"} : Reply(how) /\ Fail("codewind")
    /\ UNCHANGED <<server, stored>>

(* SecClientCreate takes any answer without a body for a success, too. *)
ClientCreate ==
    LET new == realm /\ job \notin clients
        add == IF new THEN clients \cup {job} ELSE clients
    IN  /\ pc["codewind"] = "clientCreate"
        /\ \/ /\ Reply("ok") /\ clients' = add
              /\ Go("codewind", IF new THEN "roleCreate" ELSE "idle")
           \/ Reply("empty") /\ Go("codewind", "roleCreate") /\ UNCHANGED clients
           \/ \E how \in {"refused", "unsent"} :
                 Reply(how) /\ Fail("codewind") /\ UNCHANGED clients
           \/ Reply("unanswered") /\ Fail("codewind") /\ clients' = add
        /\ UNCHANGED <<up, realm, roles, known, granted, stored>>

(* SecRoleCreate: a conflict is as good as a creation; without an answer   *)
(* there is no status code to return, but it is read all the same.         *)
(* (RoleCreateOnce: a conflict is an error.)                               *)
RoleCreateOnce ==
    /\ pc["codewind"] = "roleCreate"
    /\ \/ Reply("ok") /\ Go("codewind", IF job \in roles THEN "idle" ELSE "userGet")
       \/ \E how \in Failed : Reply(how) /\ Fail("codewind")
    /\ roles' = roles \cup {job}
    /\ UNCHANGED <<up, realm, clients, known, granted, stored>>
RoleCreate ==
    LET add == IF realm THEN roles \cup {job} ELSE roles
    IN  /\ pc["codewind"] = "roleCreate"
        /\ \/ /\ Reply("ok") /\ roles' = add
              /\ Go("codewind", IF realm THEN "userGet" ELSE "idle")
           \/ \E how \in {"refused", "empty"} :
                 Reply(how) /\ Fail("codewind") /\ UNCHANGED roles
           \/ Reply("unsent") /\ Panic /\ UNCHANGED roles
           \/ Reply("unanswered") /\ Panic /\ roles' = add
        /\ UNCHANGED <<up, realm, clients, known, granted, stored>>

UserGet == Get("codewind", "userGet", job \in known, "grantUserGet")

(* SecUserAddRole looks up the user and the role, then joins them. *)
GrantUserGet == Get("codewind", "grantUserGet", job \in known, "grantRoleGet")

GrantRoleGet == Get("codewind", "grantRoleGet", job \in roles, "grant")

Grant ==
    /\ pc["codewind"] = "grant"
    /\ \/ Reply("ok") /\ Go("codewind", "secretClientGet") /\ granted' = granted \cup {job}
       \/ Reply("unanswered") /\ Fail("codewind") /\ granted' = granted \cup {job}
       \/ \E how \in Failed \ {"unanswered"} :
             Reply(how) /\ Fail("codewind") /\ UNCHANGED granted
    /\ UNCHANGED <<up, realm, clients, roles, known, stored>>

(* SecClientGetSecret of no client is neither a secret nor an error.       *)
(* (SecretOfNoClient: no client has the empty secret.)                     *)
SecretOfNoClient == Get("codewind", "secretClientGet", TRUE, "returned")
SecretClientGet ==
    /\ pc["codewind"] = "secretClientGet"
    /\ \/ Reply("ok") /\ job \in clients /\ Go("codewind", "secretGet")
       \/ Reply("ok") /\ job \notin clients /\ Panic
       \/ \E how \in Failed : Reply(how) /\ Fail("codewind")
    /\ UNCHANGED <<server, stored>>

SecretGet == Get("codewind", "secretGet", job \in clients, "returned")

(* The pass goes on with the key and stores the status at its very end, or *)
(* ends earlier, to come back and register once more.                      *)
Return ==
    /\ pc["codewind"] = "returned"
    /\ Go("codewind", "idle")
    /\ \/ complete' = complete \cup {job} /\ UNCHANGED left
       \/ Spend("repeats") /\ UNCHANGED complete
    /\ UNCHANGED <<server, defaultRealm>>

-----------------------------------------------------------------------------
(* Everything around the two controllers.                                  *)

ServiceDown ==
    /\ up /\ Spend("outages") /\ up' = FALSE
    /\ UNCHANGED <<realm, clients, roles, known, granted, local, stored>>

ServiceUp ==
    /\ ~up /\ up' = TRUE
    /\ UNCHANGED <<realm, clients, roles, known, granted, local, stored, left>>

(* The administrator makes the accounts of the developers, ... *)
AdminAddsUser(w) ==
    /\ realm /\ w \notin known /\ known' = known \cup {w}
    /\ UNCHANGED <<up, realm, clients, roles, granted, local, stored, left>>

(* ... and may remove the client of a workspace. *)
AdminRemovesClient(w) ==
    /\ w \in Removable /\ w \in clients /\ Spend("removals")
    /\ clients' = clients \ {w}
    /\ UNCHANGED <<up, realm, roles, known, granted, local, stored>>

(* The operator is restarted. *)
Crash ==
    /\ Spend("crashes")
    /\ pc' = [p \in Controllers |-> "idle"]
    /\ UNCHANGED <<server, job, stored>>

Init ==
    /\ up = FALSE /\ realm = FALSE
    /\ clients = {} /\ roles = {} /\ known = {} /\ granted = {}
    /\ pc = [p \in Controllers |-> "idle"]
    /\ job = NoWorkspace
    /\ complete = {} /\ defaultRealm = FALSE
    /\ left = [faults |-> MaxFaults, outages |-> MaxOutages, repeats |-> MaxRepeats,
               crashes |-> MaxCrashes, removals |-> MaxRemovals]

SetUpRealm(p) == Wait(p) \/ Login(p) \/ RealmGet(p) \/ Themes(p) \/ RealmCreate(p)

CodewindStep ==
    \/ SetUpRealm("codewind")
    \/ ClientGet \/ AppendGet \/ AppendPut \/ ClientCreate \/ RoleCreate
    \/ UserGet \/ GrantUserGet \/ GrantRoleGet \/ Grant
    \/ SecretClientGet \/ SecretGet \/ Return

KeycloakStep == StartRealm \/ SetUpRealm("keycloak") \/ RealmStored

Environment ==
    \/ ServiceDown \/ ServiceUp \/ Crash
    \/ \E w \in Workspaces : AdminAddsUser(w) \/ AdminRemovesClient(w)

Next ==
    \/ \E w \in Workspaces : StartRegistration(w)
    \/ CodewindStep
    \/ KeycloakStep
    \/ Environment

Spec == Init /\ [][Next]_vars

(* A controller goes on with its pass, the queue starts every registration *)
(* again that is not complete, an outage ends, and the administrator makes *)
(* the accounts. Nothing else is promised.                                 *)
Fairness ==
    /\ WF_vars(CodewindStep) /\ WF_vars(KeycloakStep) /\ WF_vars(ServiceUp)
    /\ \A w \in Workspaces : SF_vars(StartRegistration(w)) /\ WF_vars(AdminAddsUser(w))

FairSpec == Spec /\ Fairness

-----------------------------------------------------------------------------
(* What should hold.                                                       *)

(* Every variable stays in its type. *)
TypeOK ==
    /\ {up, realm, defaultRealm} \subseteq BOOLEAN
    /\ clients \subseteq Workspaces /\ roles \subseteq Workspaces
    /\ known \subseteq Workspaces /\ granted \subseteq Workspaces
    /\ complete \subseteq Workspaces
    /\ pc \in [Controllers -> Steps]
    /\ job \in Workspaces \cup {NoWorkspace}
    /\ left \in [{"faults", "outages", "repeats", "crashes", "removals"} -> Nat]
    /\ job = NoWorkspace => pc["codewind"] = "idle"

(* A workspace is recorded as Complete only with its realm, client, role   *)
(* and grant in Keycloak: no lost answer, no empty answer taken for a      *)
(* success and no race for the realm leaves a gap behind.                  *)
CompleteMeansRegistered ==
    \A w \in complete :
        /\ realm
        /\ w \in roles \cap granted
        /\ w \in Removable \/ w \in clients

(* Every workspace is registered in the end, and the default realm made,   *)
(* though the two controllers race for the realm and either may take the   *)
(* process down under the other.                                           *)
EventuallyRegistered == <>(complete = Workspaces) /\ <>defaultRealm

(* "During deployment of the Keycloak service, the operator configures the *)
(* security realm" (README): the realm that is recorded was made.          *)
RecordedRealmMade == defaultRealm => realm

-----------------------------------------------------------------------------
(* The promise of RegistrationPromise, kept request by request.            *)

Active == IF pc["codewind"] = "idle" THEN NoWorkspace ELSE job

Registered ==
    {w \in roles \cap granted : realm /\ (w \in Removable \/ w \in clients)}

Promise == INSTANCE RegistrationPromise WITH
    active     <- Active,
    returned   <- pc["codewind"] = "returned",
    registered <- Registered

(* Through answers that are lost, refused or empty, a dying process and    *)
(* the other controller at work on the same realm, the requests amount to  *)
(* calls that register one workspace or fail: a key is returned only for a *)
(* finished registration, and none takes anything away from another.       *)
ImplementsPromise == Promise!Spec
=============================================================================
