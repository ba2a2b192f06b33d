--------------------- MODULE KeycloakRegistrationProofs ---------------------
(***************************************************************************)
(* Proofs about KeycloakRegistration, for every set of workspaces, every   *)
(* way in which requests may fail and all bounds.                          *)
(***************************************************************************)
EXTENDS KeycloakRegistration, TLAPS

-----------------------------------------------------------------------------
(* Type correctness.                                                       *)

Budgets == {"faults", "outages", "repeats", "crashes", "removals"}

(* What TypeOK says of the passes, and of nothing else. *)
PassesOK ==
    /\ pc \in [Controllers -> Steps]
    /\ job \in Workspaces \cup {NoWorkspace}
    /\ job = NoWorkspace => pc["codewind"] = "idle"

LEMMA SpendType ==
    ASSUME TypeOK, NEW b \in Budgets, Spend(b)
    PROVE  left' \in [Budgets -> Nat]
  BY DEF Spend, TypeOK, Budgets

LEMMA ReplyType ==
    ASSUME TypeOK, NEW how, Reply(how)
    PROVE  left' \in [Budgets -> Nat]
  <1>1. left \in [Budgets -> Nat] /\ "faults" \in Budgets
    BY DEF TypeOK, Budgets
  <1> QED
    BY <1>1, SpendType DEF Reply

(* A pass goes on, or ends; the other controller stays where it is. *)
LEMMA GoMoves ==
    ASSUME TypeOK, NEW p \in Controllers, NEW step \in Steps, Go(p, step)
    PROVE  /\ pc' \in [Controllers -> Steps] /\ pc'[p] = step
           /\ \A q \in Controllers \ {p} : pc'[q] = pc[q]
           /\ job' = job
  BY DEF Go, TypeOK

LEMMA GoType ==
    ASSUME TypeOK, NEW p \in Controllers, NEW step \in Steps, Go(p, step),
           pc[p] # "idle" \/ p = "keycloak"
    PROVE  PassesOK'
  <1>1. "codewind" \in Controllers /\ "keycloak" # "codewind"
    BY DEF Controllers
  <1> QED
    BY <1>1, GoMoves DEF PassesOK, TypeOK

(* All passes end. *)
LEMMA PanicMoves ==
    ASSUME TypeOK, Panic
    PROVE  PassesOK' /\ (\A q \in Controllers : pc'[q] = "idle") /\ job' = job
  BY DEF Panic, PassesOK, TypeOK, Controllers, Steps

LEMMA StepTypes ==
    /\ "codewind" \in Controllers /\ "keycloak" \in Controllers
    /\ "idle" \in Steps /\ "wait" \in Steps /\ "login" \in Steps /\ "realmGet" \in Steps
    /\ "themes" \in Steps /\ "realmCreate" \in Steps /\ "realmDone" \in Steps
    /\ "clientGet" \in Steps /\ "appendGet" \in Steps /\ "appendPut" \in Steps
    /\ "clientCreate" \in Steps /\ "roleCreate" \in Steps /\ "userGet" \in Steps
    /\ "grantUserGet" \in Steps /\ "grantRoleGet" \in Steps /\ "grant" \in Steps
    /\ "secretClientGet" \in Steps /\ "secretGet" \in Steps /\ "returned" \in Steps
    /\ \A p \in Controllers : AfterRealm(p) \in Steps
  BY DEF Controllers, Steps, AfterRealm

LEMMA FailType ==
    ASSUME TypeOK, NEW p \in Controllers, Fail(p), pc[p] # "idle"
    PROVE  PassesOK'
  BY GoType, StepTypes DEF Fail

LEMMA GetType ==
    ASSUME TypeOK, NEW p \in Controllers, NEW step, step # "idle", NEW found,
           NEW next \in Steps, Get(p, step, found, next)
    PROVE  TypeOK'
  <1>1. pc[p] # "idle"
    BY DEF Get
  <1>2. PassesOK'
    <2>1. CASE Go(p, IF found THEN next ELSE "idle")
      BY <1>1, <2>1, GoType, StepTypes
    <2>2. CASE Fail(p)
      BY <1>1, <2>2, FailType
    <2> QED
      BY <2>1, <2>2 DEF Get
  <1>3. left' \in [Budgets -> Nat]
    BY ReplyType DEF Get
  <1> QED
    BY <1>2, <1>3 DEF Get, TypeOK, PassesOK, Budgets, server, stored

LEMMA SetUpRealmType ==
    ASSUME TypeOK, NEW p \in Controllers, SetUpRealm(p)
    PROVE  TypeOK'
  <1>1. CASE Wait(p)
    <2>1. PassesOK'
      BY <1>1, GoType, StepTypes DEF Wait
    <2> QED
      BY <1>1, <2>1 DEF Wait, TypeOK, PassesOK, server, stored
  <1>2. CASE Login(p)
    BY <1>2, GetType, StepTypes DEF Login
  <1>3. CASE RealmGet(p)
    <2>1. PassesOK'
      BY <1>3, GoType, StepTypes DEF RealmGet
    <2>2. left' \in [Budgets -> Nat]
      BY <1>3, ReplyType DEF RealmGet
    <2> QED
      BY <1>3, <2>1, <2>2 DEF RealmGet, TypeOK, PassesOK, Budgets, server, stored
  <1>4. CASE Themes(p)
    BY <1>4, GetType, StepTypes DEF Themes
  <1>5. CASE RealmCreate(p)
    <2>1. PassesOK'
      BY <1>5, GoType, FailType, StepTypes DEF RealmCreate
    <2>2. left' \in [Budgets -> Nat]
      BY <1>5, ReplyType DEF RealmCreate
    <2>3. realm' \in BOOLEAN
      BY <1>5 DEF RealmCreate, TypeOK
    <2> QED
      BY <1>5, <2>1, <2>2, <2>3 DEF RealmCreate, TypeOK, PassesOK, Budgets, stored
  <1> QED
    BY <1>1, <1>2, <1>3, <1>4, <1>5 DEF SetUpRealm

LEMMA KeycloakStepType == ASSUME TypeOK, KeycloakStep PROVE TypeOK'
  <1>1. CASE StartRealm
    <2>1. PassesOK'
      BY <1>1, GoType, StepTypes DEF StartRealm
    <2> QED
      BY <1>1, <2>1 DEF StartRealm, TypeOK, PassesOK, server, stored
  <1>2. CASE RealmStored
    <2>1. PassesOK'
      BY <1>2, GoType, StepTypes DEF RealmStored
    <2>2. left' \in [Budgets -> Nat]
      BY <1>2, SpendType DEF RealmStored, TypeOK, Budgets
    <2>3. defaultRealm' \in BOOLEAN
      BY <1>2 DEF RealmStored, TypeOK
    <2> QED
      BY <1>2, <2>1, <2>2, <2>3 DEF RealmStored, TypeOK, PassesOK, Budgets, server
  <1> QED
    BY <1>1, <1>2, SetUpRealmType, StepTypes DEF KeycloakStep

(* The requests that look something up, or put the list of URLs back. *)
Lookup ==
    ClientGet \/ AppendGet \/ AppendPut \/ UserGet \/ GrantUserGet \/ GrantRoleGet
    \/ SecretClientGet \/ SecretGet

LEMMA LookupType == ASSUME TypeOK, Lookup PROVE TypeOK'
  <1>1. CASE UserGet \/ GrantUserGet \/ GrantRoleGet \/ SecretGet
    <2>1. CASE UserGet
      BY <2>1, GetType, StepTypes DEF UserGet
    <2>2. CASE GrantUserGet
      BY <2>2, GetType, StepTypes DEF GrantUserGet
    <2>3. CASE GrantRoleGet
      BY <2>3, GetType, StepTypes DEF GrantRoleGet
    <2>4. CASE SecretGet
      BY <2>4, GetType, StepTypes DEF SecretGet
    <2> QED
      BY <1>1, <2>1, <2>2, <2>3, <2>4
  <1>2. CASE ClientGet \/ AppendGet \/ AppendPut \/ SecretClientGet
    <2>1. PassesOK'
      BY <1>2, GoType, FailType, PanicMoves, StepTypes
         DEF ClientGet, AppendGet, AppendPut, SecretClientGet
    <2>2. left' \in [Budgets -> Nat]
      BY <1>2, ReplyType DEF ClientGet, AppendGet, AppendPut, SecretClientGet
    <2> QED
      BY <1>2, <2>1, <2>2 DEF ClientGet, AppendGet, AppendPut, SecretClientGet,
         TypeOK, PassesOK, Budgets, server, stored
  <1> QED
    BY <1>1, <1>2 DEF Lookup

(* The requests that change what the server knows, and the end of a pass. *)
LEMMA ChangeType ==
    ASSUME TypeOK, ClientCreate \/ RoleCreate \/ Grant \/ Return
    PROVE  TypeOK'
  <1>1. job \in Workspaces
    BY DEF ClientCreate, RoleCreate, Grant, Return, TypeOK
  <1>2. PassesOK'
    BY GoType, FailType, PanicMoves, StepTypes DEF ClientCreate, RoleCreate, Grant, Return
  <1>3. left' \in [Budgets -> Nat]
    BY ReplyType, SpendType DEF ClientCreate, RoleCreate, Grant, Return, TypeOK, Budgets
  <1>4. CASE ClientCreate
    <2>1. clients' \subseteq Workspaces
      BY <1>1, <1>4 DEF ClientCreate, TypeOK
    <2> QED
      BY <1>2, <1>3, <1>4, <2>1 DEF ClientCreate, TypeOK, PassesOK, Budgets, stored
  <1>5. CASE RoleCreate
    <2>1. roles' \subseteq Workspaces
      BY <1>1, <1>5 DEF RoleCreate, TypeOK
    <2> QED
      BY <1>2, <1>3, <1>5, <2>1 DEF RoleCreate, TypeOK, PassesOK, Budgets, stored
  <1>6. CASE Grant
    <2>1. granted' \subseteq Workspaces
      BY <1>1, <1>6 DEF Grant, TypeOK
    <2> QED
      BY <1>2, <1>3, <1>6, <2>1 DEF Grant, TypeOK, PassesOK, Budgets, stored
  <1>7. CASE Return
    <2>1. complete' \subseteq Workspaces
      BY <1>1, <1>7 DEF Return, TypeOK
    <2> QED
      BY <1>2, <1>3, <1>7, <2>1 DEF Return, TypeOK, PassesOK, Budgets, server
  <1> QED
    BY <1>4, <1>5, <1>6, <1>7

LEMMA StartType ==
    ASSUME TypeOK, NEW w \in Workspaces, StartRegistration(w)
    PROVE  TypeOK'
  BY NoWorkspaceAssumption, StepTypes
     DEF StartRegistration, TypeOK, server, stored

LEMMA EnvironmentType == ASSUME TypeOK, Environment PROVE TypeOK'
  <1>1. CASE ServiceDown \/ ServiceUp
    <2>1. left' \in [Budgets -> Nat]
      BY <1>1, SpendType DEF ServiceDown, ServiceUp, TypeOK, Budgets
    <2> QED
      BY <1>1, <2>1 DEF ServiceDown, ServiceUp, TypeOK, Budgets, local, stored
  <1>2. CASE Crash
    <2>1. left' \in [Budgets -> Nat]
      BY <1>2, SpendType DEF Crash, Budgets
    <2>2. pc' \in [Controllers -> Steps] /\ pc'["codewind"] = "idle"
      BY <1>2, StepTypes DEF Crash
    <2> QED
      BY <1>2, <2>1, <2>2 DEF Crash, TypeOK, Budgets, server, stored
  <1>3. ASSUME NEW w \in Workspaces, AdminAddsUser(w)
        PROVE  TypeOK'
    BY <1>3 DEF AdminAddsUser, TypeOK, local, stored
  <1>4. ASSUME NEW w \in Workspaces, AdminRemovesClient(w)
        PROVE  TypeOK'
    <2>1. left' \in [Budgets -> Nat]
      BY <1>4, SpendType DEF AdminRemovesClient, Budgets
    <2> QED
      BY <1>4, <2>1 DEF AdminRemovesClient, TypeOK, Budgets, local, stored
  <1> QED
    BY <1>1, <1>2, <1>3, <1>4 DEF Environment

LEMMA TypeStuttering == ASSUME TypeOK, UNCHANGED vars PROVE TypeOK'
  BY DEF TypeOK, vars

LEMMA InitType == Init => TypeOK
  <1> SUFFICES ASSUME Init
               PROVE  TypeOK
    OBVIOUS
  <1>1. left \in [Budgets -> Nat]
    BY BoundsAssumption DEF Init, Budgets
  <1>2. pc \in [Controllers -> Steps] /\ pc["codewind"] = "idle"
    BY StepTypes DEF Init
  <1> QED
    BY <1>1, <1>2 DEF Init, TypeOK, Budgets

(* One disjunct for each kind of step. *)
LEMMA NextCases ==
    ASSUME [Next]_vars
    PROVE  \/ \E w \in Workspaces : StartRegistration(w)
           \/ \E p \in Controllers : SetUpRealm(p)
           \/ Lookup
           \/ ClientCreate \/ RoleCreate \/ Grant \/ Return
           \/ StartRealm \/ RealmStored
           \/ Environment
           \/ UNCHANGED vars
  BY StepTypes DEF Next, CodewindStep, KeycloakStep, Lookup

LEMMA TypeStep == ASSUME TypeOK, [Next]_vars PROVE TypeOK'
  BY NextCases, StartType, SetUpRealmType, LookupType, ChangeType, KeycloakStepType,
     EnvironmentType, TypeStuttering DEF KeycloakStep

(* Every variable stays in its type, and a pass past its first step works  *)
(* for a workspace.                                                        *)
THEOREM RegistrationTypeCorrect == Spec => []TypeOK
  BY InitType, TypeStep, PTL DEF Spec

-----------------------------------------------------------------------------
(* Complete means registered.                                              *)

RoleKnown == {"userGet", "grantUserGet", "grantRoleGet", "grant",
              "secretClientGet", "secretGet", "returned"}

GrantKnown == {"secretClientGet", "secretGet", "returned"}

(* What the answers so far have shown of the workspace at work on, however *)
(* many answers before were not what they were taken for: the realm by the *)
(* time the role is there, the client only with its secret. What they have *)
(* shown stays, but for a client the administrator may remove.             *)
AnswersShow ==
    /\ pc["codewind"] \in RoleKnown => realm /\ job \in roles
    /\ pc["codewind"] \in GrantKnown => job \in granted
    /\ pc["codewind"] = "returned" => job \in Removable \/ job \in clients

(* Nothing is in a realm that does not exist. *)
RolesInRealm == roles # {} => realm

RegistrationHolds == AnswersShow /\ RolesInRealm /\ CompleteMeansRegistered

(* Realms, roles and grants stay, and clients but those that may be removed. *)
LEMMA ServerKeeps ==
    ASSUME TypeOK, [Next]_vars
    PROVE  /\ realm => realm'
           /\ roles \subseteq roles' /\ granted \subseteq granted'
           /\ \A w \in clients : w \in Removable \/ w \in clients'
  <1>1. CASE \E w \in Workspaces : StartRegistration(w)
    BY <1>1 DEF StartRegistration, server
  <1>2. CASE \E p \in Controllers : SetUpRealm(p)
    BY <1>2 DEF SetUpRealm, Wait, Login, RealmGet, Themes, RealmCreate, Get, server, TypeOK
  <1>3. CASE Lookup
    BY <1>3 DEF Lookup, ClientGet, AppendGet, AppendPut, UserGet, GrantUserGet, GrantRoleGet,
       SecretClientGet, SecretGet, Get, server
  <1>4. CASE ClientCreate \/ RoleCreate \/ Grant \/ Return
    BY <1>4 DEF ClientCreate, RoleCreate, Grant, Return, server
  <1>5. CASE StartRealm \/ RealmStored
    BY <1>5 DEF StartRealm, RealmStored, server
  <1>6. CASE Environment
    BY <1>6 DEF Environment, ServiceDown, ServiceUp, Crash, AdminAddsUser, AdminRemovesClient,
       server
  <1> QED
    BY <1>1, <1>2, <1>3, <1>4, <1>5, <1>6, NextCases DEF vars

(* Where a request that is answered in full leads, and what it shows. *)
LEMMA AnswersMove ==
    ASSUME TypeOK, AnswersShow, [Next]_vars
    PROVE  \/ pc'["codewind"] \notin RoleKnown
           \/ pc'["codewind"] = pc["codewind"] /\ job' = job
           \/ /\ job' = job
              /\ pc'["codewind"] \in RoleKnown => realm' /\ job \in roles'
              /\ pc'["codewind"] \in GrantKnown => job \in granted'
              /\ pc'["codewind"] = "returned" => job \in clients'
  <1>1. pc \in [Controllers -> Steps] /\ "codewind" \in Controllers
    BY StepTypes DEF TypeOK
  <1>2. CASE \E w \in Workspaces : StartRegistration(w)
    BY <1>1, <1>2 DEF StartRegistration, RoleKnown
  <1>3. ASSUME NEW p \in Controllers, SetUpRealm(p)
        PROVE  pc'["codewind"] \notin RoleKnown \/ (pc'["codewind"] = pc["codewind"] /\ job' = job)
    BY <1>1, <1>3 DEF SetUpRealm, Wait, Login, RealmGet, Themes, RealmCreate, Get, Go, Fail,
       AfterRealm, RoleKnown, Controllers
  <1>4. CASE Lookup
    <2>1. CASE ClientGet \/ AppendGet \/ AppendPut
      BY <1>1, <2>1 DEF ClientGet, AppendGet, AppendPut, Go, Fail, Panic, RoleKnown
    <2>2. CASE UserGet \/ GrantUserGet \/ GrantRoleGet
      BY <1>1, <2>2 DEF UserGet, GrantUserGet, GrantRoleGet, Get, Go, Fail, server,
         RoleKnown, GrantKnown, AnswersShow
    <2>3. CASE SecretClientGet \/ SecretGet
      BY <1>1, <2>3 DEF SecretClientGet, SecretGet, Get, Go, Fail, Panic, server,
         RoleKnown, GrantKnown, AnswersShow
    <2> QED
      BY <1>4, <2>1, <2>2, <2>3 DEF Lookup
  <1>5. CASE ClientCreate \/ Return
    BY <1>1, <1>5 DEF ClientCreate, Return, Go, Fail, RoleKnown
  <1>6. CASE RoleCreate
    BY <1>1, <1>6 DEF RoleCreate, Go, Fail, Panic, RoleKnown, GrantKnown
  <1>7. CASE Grant
    BY <1>1, <1>7 DEF Grant, Go, Fail, RoleKnown, GrantKnown, AnswersShow
  <1>8. CASE StartRealm \/ RealmStored
    BY <1>1, <1>8 DEF StartRealm, RealmStored, Go
  <1>9. CASE Environment
    BY <1>1, <1>9 DEF Environment, ServiceDown, ServiceUp, Crash, AdminAddsUser,
       AdminRemovesClient, local, RoleKnown
  <1> QED
    BY <1>2, <1>3, <1>4, <1>5, <1>6, <1>7, <1>8, <1>9, NextCases DEF vars

LEMMA AnswersShowStep ==
    ASSUME TypeOK, AnswersShow, [Next]_vars
    PROVE  AnswersShow'
  <1>1. "returned" \in RoleKnown /\ GrantKnown \subseteq RoleKnown
    BY DEF RoleKnown, GrantKnown
  <1> QED
    BY <1>1, AnswersMove, ServerKeeps DEF AnswersShow

LEMMA RolesInRealmStep ==
    ASSUME TypeOK, RolesInRealm, [Next]_vars
    PROVE  RolesInRealm'
  <1>1. roles' = roles \/ realm
    <2>1. CASE RoleCreate
      BY <2>1 DEF RoleCreate
    <2>2. CASE ClientCreate \/ Grant \/ Return
      BY <2>2 DEF ClientCreate, Grant, Return, server
    <2>3. CASE Lookup
      BY <2>3 DEF Lookup, ClientGet, AppendGet, AppendPut, UserGet, GrantUserGet,
         GrantRoleGet, SecretClientGet, SecretGet, Get, server
    <2>4. CASE \E p \in Controllers : SetUpRealm(p)
      BY <2>4 DEF SetUpRealm, Wait, Login, RealmGet, Themes, RealmCreate, Get, server
    <2>5. CASE StartRealm \/ RealmStored \/ \E w \in Workspaces : StartRegistration(w)
      BY <2>5 DEF StartRealm, RealmStored, StartRegistration, server
    <2>6. CASE Environment
      BY <2>6 DEF Environment, ServiceDown, ServiceUp, Crash, AdminAddsUser,
         AdminRemovesClient, server
    <2> QED
      BY <2>1, <2>2, <2>3, <2>4, <2>5, <2>6, NextCases DEF vars
  <1> QED
    BY <1>1, ServerKeeps DEF RolesInRealm

(* Only the end of a pass makes a workspace complete. *)
LEMMA CompleteMoves ==
    ASSUME [Next]_vars
    PROVE  complete' = complete \/ (Return /\ complete' = complete \cup {job})
  <1>1. CASE ClientCreate \/ RoleCreate \/ Grant \/ Return
    BY <1>1 DEF ClientCreate, RoleCreate, Grant, Return, stored
  <1>2. CASE Lookup
    BY <1>2 DEF Lookup, ClientGet, AppendGet, AppendPut, UserGet, GrantUserGet,
       GrantRoleGet, SecretClientGet, SecretGet, Get, stored
  <1>3. CASE \E p \in Controllers : SetUpRealm(p)
    BY <1>3 DEF SetUpRealm, Wait, Login, RealmGet, Themes, RealmCreate, Get, stored
  <1>4. CASE StartRealm \/ RealmStored \/ \E w \in Workspaces : StartRegistration(w)
    BY <1>4 DEF StartRealm, RealmStored, StartRegistration, stored
  <1>5. CASE Environment
    BY <1>5 DEF Environment, ServiceDown, ServiceUp, Crash, AdminAddsUser,
       AdminRemovesClient, stored
  <1> QED
    BY <1>1, <1>2, <1>3, <1>4, <1>5, NextCases DEF vars

LEMMA CompleteStep ==
    ASSUME TypeOK, RegistrationHolds, [Next]_vars
    PROVE  CompleteMeansRegistered'
  <1>1. complete \subseteq Workspaces
    BY DEF TypeOK
  <1>2. CASE complete' = complete
    BY <1>2, ServerKeeps DEF RegistrationHolds, CompleteMeansRegistered
  <1>3. CASE Return /\ complete' = complete \cup {job}
    <2>1. realm /\ job \in roles \cap granted /\ (job \in Removable \/ job \in clients)
      BY <1>3 DEF Return, RegistrationHolds, AnswersShow, RoleKnown, GrantKnown
    <2> QED
      BY <1>3, <2>1, ServerKeeps DEF RegistrationHolds, CompleteMeansRegistered
  <1> QED
    BY <1>2, <1>3, CompleteMoves

LEMMA InitRegistration == Init => RegistrationHolds
  BY StepTypes DEF Init, RegistrationHolds, AnswersShow, RolesInRealm, CompleteMeansRegistered,
     RoleKnown, GrantKnown

LEMMA RegistrationInvariant == Spec => [](TypeOK /\ RegistrationHolds)
  <1>1. TypeOK /\ RegistrationHolds /\ [Next]_vars => TypeOK' /\ RegistrationHolds'
    BY TypeStep, AnswersShowStep, RolesInRealmStep, CompleteStep DEF RegistrationHolds
  <1> QED
    BY <1>1, InitType, InitRegistration, PTL DEF Spec

(* A workspace that is recorded as Complete is registered in Keycloak.     *)
THEOREM CompleteIsRegistered == Spec => []CompleteMeansRegistered
  <1>1. RegistrationHolds => CompleteMeansRegistered
    BY DEF RegistrationHolds
  <1> QED
    BY <1>1, RegistrationInvariant, PTL

-----------------------------------------------------------------------------
(* The requests implement the promise, step by step. Each is stated as     *)
(* what it does to the five things the promise speaks of.                  *)

Returned == pc["codewind"] = "returned"

(* A step that nobody at the promise's level sees. *)
Unseen ==
    /\ Active' = Active /\ Returned' = Returned /\ Registered' = Registered
    /\ complete' = complete /\ realm' = realm

LEMMA UnseenSteps == ASSUME Unseen PROVE UNCHANGED Promise!vars
  BY DEF Unseen, Returned, Promise!vars

(* A call that ends without a key. *)
Ends ==
    /\ Active # NoWorkspace
    /\ Active' = NoWorkspace /\ ~Returned'
    /\ complete' = complete /\ realm' = realm

LEMMA EndSteps ==
    ASSUME Ends, Registered' = Registered \/ (realm /\ Registered' = Registered \cup {Active})
    PROVE  Promise!Next
  <1>1. Promise!Fail
    BY DEF Ends, Returned, Promise!Fail
  <1> QED
    BY <1>1 DEF Promise!Next

(* A call that goes on. *)
GoesOn ==
    /\ Active # NoWorkspace
    /\ Active' = Active /\ Returned' = Returned
    /\ complete' = complete /\ realm' = realm

LEMMA WorkSteps ==
    ASSUME GoesOn, Registered' = Registered \/ (realm /\ Registered' = Registered \cup {Active})
    PROVE  [Promise!Next]_(Promise!vars)
  <1>1. CASE Registered' = Registered
    BY <1>1, UnseenSteps DEF GoesOn, Unseen
  <1>2. CASE realm /\ Registered' = Registered \cup {Active}
    <2>1. Promise!Work
      BY <1>2 DEF GoesOn, Returned, Promise!Work
    <2> QED
      BY <2>1 DEF Promise!Next
  <1> QED
    BY <1>1, <1>2

LEMMA ActiveAt ==
    ASSUME TypeOK, pc["codewind"] # "idle"
    PROVE  Active = job /\ Active # NoWorkspace
  BY DEF Active, TypeOK

(* A request of a call, or the end of one without a key. *)
LEMMA CallMoves ==
    ASSUME TypeOK, pc["codewind"] \notin {"idle", "returned"}, pc'["codewind"] # "returned",
           job' = job, complete' = complete, realm' = realm
    PROVE  Ends \/ GoesOn
  BY ActiveAt DEF Ends, GoesOn, Active, Returned

(* Roles, grants and clients are added for the workspace at work on only. *)
LEMMA RegisteredGrows ==
    ASSUME realm' = realm, RolesInRealm, RolesInRealm',
           roles' \in {roles, roles \cup {job}}, granted' \in {granted, granted \cup {job}},
           clients' \in {clients, clients \cup {job}}
    PROVE  Registered' = Registered \/ (realm /\ Registered' = Registered \cup {job})
  <1>1. CASE ~realm
    BY <1>1 DEF Registered
  <1>2. CASE realm /\ job \in Registered'
    BY <1>2 DEF Registered
  <1>3. CASE realm /\ job \notin Registered'
    BY <1>3 DEF Registered
  <1> QED
    BY <1>1, <1>2, <1>3

LEMMA RegisteredSame ==
    ASSUME realm' = realm, roles' = roles, granted' = granted,
           \A w : w \in Removable \/ (w \in clients' <=> w \in clients)
    PROVE  Registered' = Registered
  BY DEF Registered

LEMMA CallImplements ==
    ASSUME TypeOK, RegistrationHolds, RegistrationHolds',
           Lookup \/ ClientCreate \/ RoleCreate \/ Grant, ~SecretGet
    PROVE  [Promise!Next]_(Promise!vars)
  <1>1. pc \in [Controllers -> Steps] /\ "codewind" \in Controllers
    BY StepTypes DEF TypeOK
  <1>2. /\ pc["codewind"] \notin {"idle", "returned"} /\ pc'["codewind"] # "returned"
        /\ job' = job /\ complete' = complete /\ realm' = realm
    <2>1. CASE ClientCreate \/ RoleCreate \/ Grant
      BY <1>1, <2>1 DEF ClientCreate, RoleCreate, Grant, Go, Fail, Panic, stored
    <2>2. CASE ClientGet \/ AppendGet \/ AppendPut \/ SecretClientGet
      BY <1>1, <2>2 DEF ClientGet, AppendGet, AppendPut, SecretClientGet, Go, Fail, Panic,
         server, stored
    <2>3. CASE UserGet \/ GrantUserGet \/ GrantRoleGet
      BY <1>1, <2>3 DEF UserGet, GrantUserGet, GrantRoleGet, Get, Go, Fail, server, stored
    <2> QED
      BY <2>1, <2>2, <2>3 DEF Lookup
  <1>3. /\ roles' \in {roles, roles \cup {job}} /\ granted' \in {granted, granted \cup {job}}
        /\ clients' \in {clients, clients \cup {job}}
    <2>1. CASE ClientCreate \/ RoleCreate \/ Grant
      BY <2>1 DEF ClientCreate, RoleCreate, Grant
    <2>2. CASE Lookup
      BY <2>2 DEF Lookup, ClientGet, AppendGet, AppendPut, UserGet, GrantUserGet,
         GrantRoleGet, SecretClientGet, SecretGet, Get, server
    <2> QED
      BY <2>1, <2>2
  <1>4. Ends \/ GoesOn
    BY <1>2, CallMoves
  <1>5. Registered' = Registered \/ (realm /\ Registered' = Registered \cup {Active})
    BY <1>2, <1>3, RegisteredGrows, ActiveAt DEF RegistrationHolds
  <1> QED
    BY <1>4, <1>5, EndSteps, WorkSteps

LEMMA SecretGetImplements ==
    ASSUME TypeOK, RegistrationHolds, SecretGet
    PROVE  [Promise!Next]_(Promise!vars)
  <1>1. pc \in [Controllers -> Steps] /\ "codewind" \in Controllers
    BY StepTypes DEF TypeOK
  <1>2. /\ pc["codewind"] = "secretGet" /\ job' = job /\ UNCHANGED <<server, stored>>
        /\ \/ pc'["codewind"] = "idle"
           \/ pc'["codewind"] = "returned" /\ job \in clients
    BY <1>1 DEF SecretGet, Get, Go, Fail
  <1>3. Registered' = Registered /\ complete' = complete /\ realm' = realm
    BY <1>2, RegisteredSame DEF server, stored
  <1>4. CASE pc'["codewind"] = "idle"
    BY <1>2, <1>3, <1>4, CallMoves, EndSteps, WorkSteps
  <1>5. CASE pc'["codewind"] = "returned" /\ job \in clients
    <2>1. job \in Registered /\ Active = job /\ Active' = job /\ ~Returned /\ Returned'
      BY <1>2, <1>5, ActiveAt DEF RegistrationHolds, AnswersShow, RoleKnown, GrantKnown,
         Registered, Active, Returned, TypeOK
    <2>2. Promise!ReturnKey
      BY <1>3, <2>1 DEF Promise!ReturnKey, Returned
    <2> QED
      BY <2>2 DEF Promise!Next
  <1> QED
    BY <1>2, <1>4, <1>5

LEMMA ReturnImplements ==
    ASSUME TypeOK, Return
    PROVE  [Promise!Next]_(Promise!vars)
  <1>1. pc \in [Controllers -> Steps] /\ "codewind" \in Controllers
    BY StepTypes DEF TypeOK
  <1>2. /\ Active = job /\ Active # NoWorkspace /\ Returned
        /\ Active' = NoWorkspace /\ ~Returned' /\ UNCHANGED server
        /\ complete' = complete \/ complete' = complete \cup {job}
    BY <1>1, ActiveAt DEF Return, Go, Active, Returned
  <1>3. Registered' = Registered /\ realm' = realm
    BY <1>2, RegisteredSame DEF server
  <1>4. CASE complete' = complete
    BY <1>2, <1>3, <1>4, EndSteps DEF Ends
  <1>5. CASE complete' = complete \cup {job}
    <2>1. Promise!Complete
      BY <1>2, <1>3, <1>5 DEF Promise!Complete, Returned
    <2> QED
      BY <2>1 DEF Promise!Next
  <1> QED
    BY <1>2, <1>4, <1>5

LEMMA StartImplements ==
    ASSUME TypeOK, NEW w \in Workspaces, StartRegistration(w)
    PROVE  [Promise!Next]_(Promise!vars)
  <1>1. pc \in [Controllers -> Steps] /\ "codewind" \in Controllers
    BY StepTypes DEF TypeOK
  <1>2. Registered' = Registered /\ realm' = realm
    BY RegisteredSame DEF StartRegistration, server
  <1>3. Promise!Call(w)
    BY <1>1, <1>2 DEF StartRegistration, Promise!Call, Active, Returned, stored
  <1> QED
    BY <1>3 DEF Promise!Next

(* A step of the other controller, or of nobody who registers. *)
LEMMA OthersUnseen ==
    ASSUME pc'["codewind"] = pc["codewind"], job' = job, Registered' = Registered,
           complete' = complete, realm' = realm
    PROVE  [Promise!Next]_(Promise!vars)
  <1>1. Unseen
    BY DEF Unseen, Active, Returned
  <1> QED
    BY <1>1, UnseenSteps

LEMMA RealmSteps ==
    ASSUME TypeOK, NEW p \in Controllers, SetUpRealm(p)
    PROVE  /\ pc[p] \notin {"idle", "returned"} /\ pc'[p] # "returned"
           /\ \A q \in Controllers \ {p} : pc'[q] = pc[q]
           /\ job' = job /\ complete' = complete
           /\ UNCHANGED <<clients, roles, granted>>
           /\ realm' = realm \/ (~realm /\ realm')
  <1>1. pc \in [Controllers -> Steps] /\ realm \in BOOLEAN
    BY DEF TypeOK
  <1> QED
    BY <1>1 DEF SetUpRealm, Wait, Login, RealmGet, Themes, RealmCreate, Get, Go, Fail,
       AfterRealm, server, stored

LEMMA SetUpRealmImplements ==
    ASSUME TypeOK, RegistrationHolds, NEW p \in Controllers, SetUpRealm(p)
    PROVE  [Promise!Next]_(Promise!vars)
  <1>1. CASE realm' = realm
    <2>1. Registered' = Registered
      BY <1>1, RealmSteps, RegisteredSame
    <2>2. CASE p = "codewind"
      BY <1>1, <2>1, <2>2, RealmSteps, CallMoves, EndSteps, WorkSteps
    <2>3. CASE p = "keycloak"
      BY <1>1, <2>1, <2>3, RealmSteps, OthersUnseen DEF Controllers
    <2> QED
      BY <2>2, <2>3 DEF Controllers
  <1>2. CASE ~realm /\ realm'
    <2>1. Registered = {} /\ Registered' = {}
      BY <1>2, RealmSteps DEF RegistrationHolds, RolesInRealm, Registered
    <2>2. Active' \in {Active, NoWorkspace} /\ (Returned' <=> Returned /\ Active' # NoWorkspace)
      <3>1. CASE p = "codewind"
        BY <3>1, RealmSteps DEF Active, Returned
      <3>2. CASE p = "keycloak"
        <4>1. pc'["codewind"] = pc["codewind"] /\ job' = job
          BY <3>2, RealmSteps DEF Controllers
        <4> QED
          BY <4>1, ActiveAt DEF Active, Returned
      <3> QED
        BY <3>1, <3>2 DEF Controllers
    <2>3. realm' = TRUE
      BY <1>2, TypeStep DEF Next, CodewindStep, KeycloakStep, Controllers, TypeOK
    <2>4. Promise!MakeRealm
      BY <1>2, <2>1, <2>2, <2>3, RealmSteps DEF Promise!MakeRealm, Returned
    <2> QED
      BY <2>4 DEF Promise!Next
  <1> QED
    BY <1>1, <1>2, RealmSteps

LEMMA EnvironmentImplements ==
    ASSUME TypeOK, Environment
    PROVE  [Promise!Next]_(Promise!vars)
  <1>1. Registered' = Registered /\ realm' = realm /\ complete' = complete
    <2>1. /\ realm' = realm /\ roles' = roles /\ granted' = granted
          /\ \A w : w \in Removable \/ (w \in clients' <=> w \in clients)
      BY DEF Environment, ServiceDown, ServiceUp, Crash, AdminAddsUser, AdminRemovesClient,
         server
    <2>2. complete' = complete
      BY DEF Environment, ServiceDown, ServiceUp, Crash, AdminAddsUser, AdminRemovesClient,
         stored
    <2> QED
      BY <2>1, <2>2, RegisteredSame
  <1>2. CASE Crash
    <2>1. pc'["codewind"] = "idle" /\ job' = job
      BY <1>2, StepTypes DEF Crash
    <2>2. CASE pc["codewind"] = "idle"
      BY <1>1, <2>1, <2>2, OthersUnseen
    <2>3. CASE pc["codewind"] # "idle"
      <3>1. Ends
        BY <1>1, <2>1, <2>3, ActiveAt DEF Ends, Active, Returned
      <3> QED
        BY <1>1, <3>1, EndSteps
    <2> QED
      BY <2>2, <2>3
  <1>3. CASE ~Crash
    <2>1. pc' = pc /\ job' = job
      BY <1>3 DEF Environment, ServiceDown, ServiceUp, AdminAddsUser, AdminRemovesClient, local
    <2> QED
      BY <1>1, <2>1, OthersUnseen
  <1> QED
    BY <1>2, <1>3

LEMMA KeycloakImplements ==
    ASSUME TypeOK, StartRealm \/ RealmStored
    PROVE  [Promise!Next]_(Promise!vars)
  <1>1. pc'["codewind"] = pc["codewind"] /\ job' = job
    BY StepTypes DEF StartRealm, RealmStored, Go, TypeOK
  <1>2. Registered' = Registered /\ realm' = realm /\ complete' = complete
    BY RegisteredSame DEF StartRealm, RealmStored, server, stored
  <1> QED
    BY <1>1, <1>2, OthersUnseen

LEMMA StutteringImplements == ASSUME UNCHANGED vars PROVE UNCHANGED Promise!vars
  <1>1. Unseen
    BY DEF vars, Unseen, Active, Returned, Registered
  <1> QED
    BY <1>1, UnseenSteps

LEMMA InitImplements == Init => Promise!Init
  BY StepTypes DEF Init, Promise!Init, Active, Registered

(* The requests implement the promise: whatever answers are lost, refused  *)
(* or empty, whichever controller makes the realm and whenever the process *)
(* dies, they amount to calls that register a workspace or fail.           *)
THEOREM RegistrationKeepsPromise == Spec => ImplementsPromise
  <1>1. ASSUME TypeOK, RegistrationHolds, RegistrationHolds', [Next]_vars
        PROVE  [Promise!Next]_(Promise!vars)
    BY <1>1, NextCases, StartImplements, SetUpRealmImplements, CallImplements,
       SecretGetImplements, ReturnImplements, KeycloakImplements, EnvironmentImplements,
       StutteringImplements
  <1>2. TypeOK /\ RegistrationHolds /\ RegistrationHolds' /\ [Next]_vars
          => [Promise!Next]_(Promise!vars)
    BY <1>1
  <1> QED
    BY <1>2, InitImplements, RegistrationInvariant, PTL
       DEF Spec, ImplementsPromise, Promise!Spec
=============================================================================
