--------------------------- MODULE OperatorProofs ---------------------------
(***************************************************************************)
(* Proofs about Operator: for any number of Codewinds, of Keycloaks that   *)
(* follow one another under one name, of edits, faults and crashes.        *)
(***************************************************************************)
EXTENDS Operator, TLAPS

-----------------------------------------------------------------------------
(* Facts about the operators the actions are built from.                   *)

LEMMA StepsCovered ==
    /\ Kinds \subseteq Steps \ {"idle", "find", "wait", "register", "publish"}
    /\ {"idle", "find", "wait", "register", "publish"} \subseteq Steps
  BY DEF Steps, Kinds

LEMMA AfterType == \A k \in Kinds : After[k] \in Steps \ {"idle", "find", "wait", "register"}
  BY DEF After, Steps, Kinds

LEMMA IdleTypes ==
    /\ Idle \in Passes /\ Idle.pc = "idle"
    /\ KIdle \in KPasses /\ KIdle.pc = "idle"
  <1>1. 0 \in 0 .. (MaxTries - 1)
    BY TriesAssumption
  <1> QED
    BY <1>1 DEF Idle, KIdle, Passes, KPasses, Steps, KSteps

LEMMA UnmadeType == Unmade \in Instances /\ Unmade.realm = Nothing
  BY DEF Unmade, Instances

LEMMA SpendType ==
    ASSUME left \in [{"edits", "faults"} -> Nat], NEW b \in {"edits", "faults"}, Spend(b)
    PROVE  left' \in [{"edits", "faults"} -> Nat]
  BY DEF Spend

LEMMA FaultType ==
    ASSUME left \in [{"edits", "faults"} -> Nat], NEW kind, Fault(kind)
    PROVE  left' \in [{"edits", "faults"} -> Nat]
  BY SpendType DEF Fault

(* What a pass needs to be well typed, and a pass of the other worker. *)
PassOK ==
    /\ pass \in Passes
    /\ pass.pc # "idle" => pass.cw \in Codewinds /\ pass.realm \in Realms
    /\ pass.pc \notin {"idle", "find"} => pass.id \in Ids

KPassOK ==
    /\ kpass \in KPasses
    /\ kpass.pc # "idle" => kpass.id \in Ids /\ kpass.wanted \in Realms
    /\ kpass.pc = "realm" => kpass.realm = kpass.wanted

LEMMA PassesOK == ASSUME TypeOK PROVE PassOK /\ KPassOK
  BY DEF TypeOK, PassOK, KPassOK

LEMMA GotoType ==
    ASSUME PassOK, pass.pc \notin {"idle", "find"},
           NEW step \in Steps, Goto(step)
    PROVE  /\ PassOK'
           /\ pass'.pc = step /\ pass'.cw = pass.cw /\ pass'.realm = pass.realm
           /\ pass'.id = pass.id
  BY DEF PassOK, Goto, Passes

LEMMA EndType == ASSUME pass' = Idle PROVE PassOK'
  BY IdleTypes DEF PassOK

LEMMA KGotoType ==
    ASSUME KPassOK, kpass.pc # "idle", NEW step \in KSteps \ {"realm"}, KGoto(step)
    PROVE  /\ KPassOK'
           /\ kpass'.pc = step /\ kpass'.id = kpass.id /\ kpass'.realm = kpass.realm
  BY DEF KPassOK, KGoto, KPasses

LEMMA KEndType == ASSUME KEnd PROVE KPassOK' /\ kpass'.pc = "idle"
  BY IdleTypes DEF KPassOK, KEnd

-----------------------------------------------------------------------------
(* Type correctness.                                                       *)

LEMMA ProcessType == ASSUME TypeOK, StartOperator \/ Crash \/ AdminEdit PROVE TypeOK'
  <1>1. left \in [{"edits", "faults"} -> Nat]
    BY DEF TypeOK
  <1>2. CASE StartOperator
    <2>1. config' \in Realms \cup {Nothing}
      BY <1>2, DefaultsAssumption DEF StartOperator, Started, TypeOK
    <2>2. left' \in [{"edits", "faults"} -> Nat]
      BY <1>1, <1>2, FaultType DEF StartOperator, Started
    <2>3. up' \in BOOLEAN
      BY <1>2 DEF StartOperator, Started, TypeOK
    <2>4. queue' \subseteq Codewinds
      BY <1>2 DEF StartOperator, Started, codewindWorker, TypeOK
    <2>5. UNCHANGED <<instances, servers, codewinds, pass, kpass>>
      BY <1>2 DEF StartOperator, Started, codewindWorker
    <2> QED
      BY <2>1, <2>2, <2>3, <2>4, <2>5 DEF TypeOK, instances, servers, codewinds
  <1>3. CASE Crash
    <2>1. left' \in [{"edits", "faults"} -> Nat]
      BY <1>1, <1>3, FaultType DEF Crash
    <2> QED
      BY <1>3, <2>1, IdleTypes DEF Crash, TypeOK, instances, servers, codewinds
  <1>4. CASE AdminEdit
    <2>1. left' \in [{"edits", "faults"} -> Nat]
      BY <1>1, <1>4, SpendType DEF AdminEdit
    <2> QED
      BY <1>4, <2>1 DEF AdminEdit, TypeOK, instances, servers, codewinds, codewindWorker
  <1> QED
    BY <1>2, <1>3, <1>4

LEMMA StartPassType == ASSUME TypeOK, NEW c \in Codewinds, StartPass(c) PROVE TypeOK'
  <1>1. CASE cw[c].phase = "live" /\ pass' = [Idle EXCEPT !.pc = "find", !.cw = c, !.realm = config]
                 /\ UNCHANGED codewinds
    <2>1. PassOK'
      <3>1. config \in Realms
        BY DEF StartPass, TypeOK
      <3>2. /\ pass' \in Passes /\ pass'.pc = "find" /\ pass'.cw = c /\ pass'.realm = config
        BY <1>1, <3>1, IdleTypes, StepsCovered DEF Passes
      <3> QED
        BY <3>1, <3>2 DEF PassOK
    <2> QED
      BY <1>1, <2>1 DEF PassOK, StartPass, Begin, TypeOK, instances, servers, codewinds
  <1>2. CASE UNCHANGED <<codewinds, pass>>
    BY <1>2 DEF StartPass, Begin, TypeOK, instances, servers, codewinds
  <1>3. CASE /\ cw' = [cw EXCEPT ![c].phase = "gone"]
             /\ made' = {o \in made : o.cw # c} /\ UNCHANGED pass
    <2>1. cw' \in [Codewinds -> Statuses]
      BY <1>3 DEF TypeOK, Statuses
    <2> QED
      BY <1>3, <2>1 DEF StartPass, Begin, TypeOK, instances, servers
  <1> QED
    BY <1>1, <1>2, <1>3 DEF StartPass, Begin

LEMMA FindType == ASSUME TypeOK, FindKeycloak PROVE TypeOK'
  <1>1. PassOK'
    <2>1. PassOK /\ pass.pc = "find"
      BY PassesOK DEF FindKeycloak
    <2>2. ASSUME NEW id \in Ids, NEW step \in Steps, pass' = [pass EXCEPT !.id = id, !.pc = step]
          PROVE  PassOK'
      BY <2>1, <2>2 DEF PassOK, Passes
    <2> QED
      BY <2>2, EndType, StepsCovered DEF FindKeycloak, Requeue, Kinds
  <1>2. queue' \subseteq Codewinds
    BY DEF FindKeycloak, Requeue, TypeOK
  <1> QED
    BY <1>1, <1>2 DEF FindKeycloak, PassOK, TypeOK, instances, servers, codewinds

LEMMA OneMoreTry ==
    ASSUME NEW n \in 0 .. (MaxTries - 1), n + 1 # MaxTries
    PROVE  n + 1 \in 0 .. (MaxTries - 1)
  BY TriesAssumption

LEMMA WaitType == ASSUME TypeOK, WaitForService PROVE TypeOK'
  <1>1. PassOK'
    <2>1. PassOK /\ pass.pc = "wait"
      BY PassesOK DEF WaitForService
    <2>2. CASE Goto("register")
      BY <2>1, <2>2, GotoType, StepsCovered
    <2>3. CASE pass.tries + 1 # MaxTries /\ pass' = [pass EXCEPT !.tries = @ + 1]
      <3>1. pass.tries + 1 \in 0 .. (MaxTries - 1)
        BY <2>1, <2>3, OneMoreTry DEF PassOK, Passes
      <3> QED
        BY <2>1, <2>3, <3>1 DEF PassOK, Passes
    <2> QED
      BY <2>2, <2>3, EndType DEF WaitForService, Requeue
  <1>2. queue' \subseteq Codewinds
    BY DEF WaitForService, Goto, Requeue, TypeOK
  <1> QED
    BY <1>1, <1>2 DEF WaitForService, PassOK, TypeOK, instances, servers, codewinds

LEMMA RegisterType == ASSUME TypeOK, Register PROVE TypeOK'
  <1>1. PassOK /\ pass.pc = "register" /\ left \in [{"edits", "faults"} -> Nat]
    BY PassesOK DEF Register, TypeOK
  <1>2. PassOK'
    BY <1>1, GotoType, EndType, StepsCovered DEF Register, Requeue, Kinds
  <1>3. pass.id \in Ids /\ pass.realm \in Realms /\ pass.cw \in Codewinds
    BY <1>1 DEF PassOK
  <1>4. realms' \subseteq Ids \X Realms /\ registered' \subseteq Ids \X Realms \X Codewinds
    BY <1>3 DEF Register, Registration, servers, TypeOK
  <1>5. queue' \subseteq Codewinds
    BY <1>3 DEF Register, Goto, Requeue, TypeOK
  <1>6. left' \in [{"edits", "faults"} -> Nat]
    BY <1>1, FaultType DEF Register
  <1> QED
    BY <1>2, <1>4, <1>5, <1>6 DEF Register, PassOK, TypeOK, instances, codewinds

LEMMA EnsureType == ASSUME TypeOK, NEW k \in Kinds, Ensure(k) PROVE TypeOK'
  <1>1. PassOK /\ pass.pc = k /\ k \notin {"idle", "find"} /\ left \in [{"edits", "faults"} -> Nat]
    BY PassesOK, StepsCovered DEF Ensure, TypeOK
  <1>2. PassOK'
    BY <1>1, GotoType, EndType, AfterType DEF Ensure, Requeue
  <1>3. pass.id \in Ids /\ pass.realm \in Realms /\ pass.cw \in Codewinds
    BY <1>1 DEF PassOK
  <1>4. made' \subseteq Objects
    BY <1>3 DEF Ensure, Ref, Objects, TypeOK
  <1>5. queue' \subseteq Codewinds
    BY <1>3 DEF Ensure, Goto, Requeue, TypeOK
  <1>6. left' \in [{"edits", "faults"} -> Nat]
    BY <1>1, FaultType DEF Ensure
  <1> QED
    BY <1>2, <1>4, <1>5, <1>6 DEF Ensure, PassOK, TypeOK, instances, servers

LEMMA PublishType == ASSUME TypeOK, Publish PROVE TypeOK'
  <1>1. PassOK' /\ left \in [{"edits", "faults"} -> Nat] /\ pass.cw \in Codewinds
    BY EndType DEF Publish, Requeue, TypeOK
  <1>2. cw' \in [Codewinds -> Statuses]
    BY <1>1 DEF Publish, TypeOK, Statuses
  <1>3. queue' \subseteq Codewinds
    BY <1>1 DEF Publish, Requeue, TypeOK
  <1>4. left' \in [{"edits", "faults"} -> Nat]
    BY <1>1, FaultType DEF Publish
  <1> QED
    BY <1>1, <1>2, <1>3, <1>4 DEF Publish, PassOK, TypeOK, instances, servers

LEMMA CodewindStepType == ASSUME TypeOK, CodewindStep PROVE TypeOK'
  BY FindType, WaitType, RegisterType, EnsureType, PublishType DEF CodewindStep

(* A Keycloak of which some fields change is one. *)
LEMMA InstanceChanges ==
    ASSUME TypeOK, NEW id \in Ids
    PROVE  /\ [kc EXCEPT ![id].live = TRUE, ![id].asked = TRUE] \in [Ids -> Instances]
           /\ [kc EXCEPT ![id].live = FALSE] \in [Ids -> Instances]
           /\ [kc EXCEPT ![id].exposed = TRUE] \in [Ids -> Instances]
           /\ [kc EXCEPT ![id].deployed = TRUE] \in [Ids -> Instances]
           /\ [kc EXCEPT ![id] = [Unmade EXCEPT !.asked = TRUE]] \in [Ids -> Instances]
  BY UnmadeType DEF TypeOK, Instances

LEMMA RealmChanges ==
    ASSUME TypeOK, NEW id \in Ids, NEW realm \in Realms \cup {Nothing}
    PROVE  [kc EXCEPT ![id].realm = realm] \in [Ids -> Instances]
  BY DEF TypeOK, Instances

LEMMA KeycloakStepType == ASSUME TypeOK, KeycloakStep PROVE TypeOK'
  <1>1. /\ KPassOK /\ kpass.pc # "idle" /\ kpass.id \in Ids /\ kpass.wanted \in Realms
        /\ kpass.realm \in Realms \cup {Nothing} /\ left \in [{"edits", "faults"} -> Nat]
    <2>1. KPassOK /\ kpass.realm \in Realms \cup {Nothing}
      BY PassesOK DEF KPassOK, KPasses
    <2>2. kpass.pc # "idle"
      BY DEF KeycloakStep, KDeploy, KCheckPod, KInstallRealm, Installs, KStore
    <2> QED
      BY <2>1, <2>2 DEF KPassOK, TypeOK
  <1>2. left' \in [{"edits", "faults"} -> Nat]
    BY <1>1, FaultType DEF KeycloakStep, KDeploy, KCheckPod, KInstallRealm, Installs, KStore
  <1>3. {"pod", "store"} \subseteq KSteps \ {"realm"} /\ "realm" \in KSteps
    BY DEF KSteps
  <1>4. CASE KDeploy
    <2>1. kc' \in [Ids -> Instances]
      <3>1. PICK id \in Ids : kc' \in {kc, [kc EXCEPT ![id].exposed = TRUE],
                                      [kc EXCEPT ![id].deployed = TRUE]}
        BY <1>1, <1>4 DEF KDeploy
      <3>2. kc \in [Ids -> Instances]
        BY DEF TypeOK
      <3> QED
        BY <3>1, <3>2, InstanceChanges
    <2>2. KPassOK'
      BY <1>1, <1>3, <1>4, KGotoType, KEndType DEF KDeploy
    <2>3. secrets' \subseteq Ids
      BY <1>1, <1>4 DEF KDeploy, TypeOK
    <2> QED
      BY <1>2, <1>4, <2>1, <2>2, <2>3 DEF KDeploy, KPassOK, TypeOK, servers, codewinds,
         codewindWorker
  <1>5. CASE KCheckPod
    <2>1. KPassOK'
      <3>1. CASE kpass' = [kpass EXCEPT !.pc = "realm", !.realm = kpass.wanted]
        BY <1>1, <1>3, <3>1 DEF KPassOK, KPasses
      <3> QED
        BY <1>1, <1>3, <1>5, <3>1, KGotoType DEF KCheckPod
    <2> QED
      BY <1>2, <1>5, <2>1 DEF KCheckPod, KPassOK, TypeOK, instances, servers, codewinds,
         codewindWorker
  <1>6. CASE KInstallRealm
    <2>1. KPassOK'
      BY <1>1, <1>3, <1>6, KGotoType, KEndType DEF KInstallRealm, Installs
    <2>2. realms' \subseteq Ids \X Realms /\ bodiless' \subseteq Ids \X Realms
      BY <1>1, <1>6 DEF KInstallRealm, Installs, KPassOK, TypeOK
    <2> QED
      BY <1>2, <1>6, <2>1, <2>2 DEF KInstallRealm, Installs, KPassOK, TypeOK, instances,
         codewinds, codewindWorker
  <1>7. CASE KStore
    <2>1. KPassOK'
      BY <1>7, KEndType DEF KStore
    <2>2. kc' \in [Ids -> Instances]
      <3>1. kc \in [Ids -> Instances]
        BY DEF TypeOK
      <3>2. [kc EXCEPT ![kpass.id].realm = kpass.realm] \in [Ids -> Instances]
        BY <1>1, RealmChanges
      <3> QED
        BY <1>7, <3>1, <3>2 DEF KStore
    <2> QED
      BY <1>2, <1>7, <2>1, <2>2 DEF KStore, KPassOK, TypeOK, servers, codewinds,
         codewindWorker
  <1> QED
    BY <1>4, <1>5, <1>6, <1>7 DEF KeycloakStep

LEMMA KStartType == ASSUME TypeOK, NEW id \in Ids, KStart(id) PROVE TypeOK'
  <1>1. kc[id].realm \in Realms \cup {Nothing} /\ config \in Realms
    BY DEF KStart, TypeOK, Instances
  <1>2. KPassOK'
    BY <1>1 DEF KStart, KPassOK, KPasses, KSteps
  <1> QED
    BY <1>2 DEF KStart, KPassOK, TypeOK, instances, servers, codewinds, codewindWorker

LEMMA UsersType ==
    ASSUME TypeOK, NEW c \in Codewinds, UserCreate(c) \/ UserDelete(c)
    PROVE  TypeOK'
  <1>1. cw' \in [Codewinds -> Statuses]
    BY DEF UserCreate, UserDelete, TypeOK, Statuses
  <1>2. queue' \subseteq Codewinds
    BY DEF UserCreate, UserDelete, Enqueue, TypeOK
  <1> QED
    BY <1>1, <1>2 DEF UserCreate, UserDelete, TypeOK, instances, servers

(* What happens to a Keycloak apart from its controller's pass. *)
KeycloakEvent(id) ==
    \/ CreateKeycloak(id) \/ DeleteKeycloak(id) \/ PodProgress(id)
    \/ CollectSecret(id) \/ CollectServer(id)

LEMMA KeycloakEventType == ASSUME TypeOK, NEW id \in Ids, KeycloakEvent(id) PROVE TypeOK'
  <1>1. kc' \in [Ids -> Instances]
    <2>1. kc' \in {kc, [kc EXCEPT ![id].live = TRUE, ![id].asked = TRUE],
                   [kc EXCEPT ![id].live = FALSE],
                   [kc EXCEPT ![id] = [Unmade EXCEPT !.asked = TRUE]]}
      BY DEF KeycloakEvent, CreateKeycloak, DeleteKeycloak, PodProgress, CollectSecret,
         CollectServer
    <2>2. kc \in [Ids -> Instances]
      BY DEF TypeOK
    <2> QED
      BY <2>1, <2>2, InstanceChanges
  <1>2. pods' \in [Ids -> {"none", "pending", "running"}]
    BY DEF KeycloakEvent, CreateKeycloak, DeleteKeycloak, PodProgress, CollectSecret,
       CollectServer, TypeOK
  <1>3. /\ secrets' \subseteq Ids
        /\ realms' \subseteq Ids \X Realms /\ bodiless' \subseteq Ids \X Realms
        /\ registered' \subseteq Ids \X Realms \X Codewinds
    BY DEF KeycloakEvent, CreateKeycloak, DeleteKeycloak, PodProgress, CollectSecret,
       CollectServer, servers, TypeOK
  <1> QED
    BY <1>1, <1>2, <1>3 DEF KeycloakEvent, CreateKeycloak, DeleteKeycloak, PodProgress,
       CollectSecret, CollectServer, codewinds, codewindWorker, TypeOK

LEMMA TypeStuttering == ASSUME TypeOK, UNCHANGED vars PROVE TypeOK'
  BY DEF TypeOK, vars

LEMMA InitType == Init => TypeOK
  <1> SUFFICES ASSUME Init PROVE TypeOK
    OBVIOUS
  <1>1. left \in [{"edits", "faults"} -> Nat]
    BY BoundAssumption DEF Init
  <1>2. PassOK /\ KPassOK
    BY IdleTypes DEF Init, PassOK, KPassOK
  <1>3. kc \in [Ids -> Instances]
    BY UnmadeType DEF Init
  <1> QED
    BY <1>1, <1>2, <1>3 DEF Init, TypeOK, PassOK, KPassOK, Statuses

(* Every step is of the process, of a worker, of a user or of a Keycloak. *)
LEMMA NextCases ==
    ASSUME [Next]_vars
    PROVE  \/ StartOperator \/ Crash \/ AdminEdit
           \/ \E c \in Codewinds : StartPass(c)
           \/ \E c \in Codewinds : UserCreate(c) \/ UserDelete(c)
           \/ CodewindStep \/ KeycloakStep
           \/ \E id \in Ids : KStart(id)
           \/ \E id \in Ids : KeycloakEvent(id)
           \/ UNCHANGED vars
  BY DEF Next, KeycloakEvent

LEMMA TypeStep == ASSUME TypeOK, [Next]_vars PROVE TypeOK'
  BY NextCases, ProcessType, StartPassType, UsersType, CodewindStepType, KeycloakStepType,
     KStartType, KeycloakEventType, TypeStuttering

(* With both controllers at work every variable stays in its type; a pass  *)
(* that went on has read the config map and found a Keycloak.              *)
THEOREM OperatorTypeCorrect == Spec => []TypeOK
  BY InitType, TypeStep, PTL DEF Spec

-----------------------------------------------------------------------------
(* No Keycloak comes back.                                                 *)

(* Only what was asked for lives, has a pod, is worked for, or is referred *)
(* to; since no second Keycloak is asked for under the same authID, what a *)
(* server knew is lost only with a Keycloak that is gone for good.         *)
OnlyAsked ==
    /\ \A id \in Ids : kc[id].live \/ pods[id] # "none" => kc[id].asked
    /\ \A o \in made : kc[o.id].asked
    /\ pass.pc \notin {"idle", "find"} => kc[pass.id].asked
    /\ kpass.pc # "idle" => kc[kpass.id].asked

LEMMA AskedStays ==
    ASSUME TypeOK, [Next]_vars, NEW id \in Ids
    PROVE  /\ kc[id].asked => kc'[id].asked
           /\ kc'[id].live => kc[id].live \/ (~kc[id].asked /\ kc'[id].asked)
  <1>1. kc \in [Ids -> Instances]
    BY DEF TypeOK
  <1>2. CASE UNCHANGED kc
    BY <1>2
  <1>3. CASE KDeploy \/ KStore
    BY <1>1, <1>3 DEF KDeploy, KStore, Instances
  <1>4. ASSUME NEW i \in Ids, KeycloakEvent(i)
        PROVE  /\ kc[id].asked => kc'[id].asked
               /\ kc'[id].live => kc[id].live \/ (~kc[id].asked /\ kc'[id].asked)
    <2>1. CASE CreateKeycloak(i)
      <3>1. ~kc[i].asked
        BY <2>1 DEF CreateKeycloak, Ids
      <3> QED
        BY <1>1, <2>1, <3>1 DEF CreateKeycloak, Instances
    <2>2. CASE DeleteKeycloak(i)
      BY <1>1, <2>2 DEF DeleteKeycloak, Instances
    <2>3. CASE CollectServer(i)
      BY <1>1, <2>3 DEF CollectServer, Instances, Unmade
    <2> QED
      BY <1>2, <1>4, <2>1, <2>2, <2>3 DEF KeycloakEvent, PodProgress, CollectSecret
  <1>5. UNCHANGED kc \/ KDeploy \/ KStore \/ \E i \in Ids : KeycloakEvent(i)
    BY NextCases DEF StartOperator, Started, Crash, AdminEdit, StartPass, Begin, UserCreate,
       UserDelete, CodewindStep, FindKeycloak, WaitForService, Register, Ensure, Publish,
       KeycloakStep, KCheckPod, KInstallRealm, Installs, KStart, instances, vars
  <1> QED
    BY <1>2, <1>3, <1>4, <1>5

(* How the pass of the Codewind controller moves. *)
LEMMA PassMoves ==
    ASSUME TypeOK, [Next]_vars
    PROVE  \/ pass' = Idle \/ pass' = pass
           \/ \E c \in Codewinds : /\ pass.pc = "idle" /\ cw[c].phase = "live"
                                   /\ pass'.pc = "find" /\ pass'.cw = c
           \/ /\ FindKeycloak /\ pass'.id \in Ids /\ pods[pass'.id] # "none"
              /\ pass'.cw = pass.cw /\ pass'.realm = pass.realm
              /\ pass'.pc = IF cw[pass.cw].complete THEN "PFE" ELSE "wait"
           \/ /\ WaitForService /\ pass'.pc \in {"wait", "register"}
              /\ pass'.cw = pass.cw /\ pass'.realm = pass.realm /\ pass'.id = pass.id
           \/ /\ Register /\ pass'.pc = "PFE" /\ Registration \in registered'
              /\ pass'.cw = pass.cw /\ pass'.realm = pass.realm /\ pass'.id = pass.id
           \/ \E k \in Kinds :
                /\ Ensure(k) /\ pass'.pc = After[k]
                /\ pass'.cw = pass.cw /\ pass'.realm = pass.realm /\ pass'.id = pass.id
  <1>1. PassOK /\ pass \in Passes
    BY PassesOK DEF PassOK
  <1>2. ASSUME NEW c \in Codewinds, StartPass(c)
        PROVE  \/ pass' = Idle \/ pass' = pass
               \/ /\ pass.pc = "idle" /\ cw[c].phase = "live"
                  /\ pass'.pc = "find" /\ pass'.cw = c
    BY <1>2, IdleTypes DEF StartPass, Begin, Passes
  <1>3. CASE FindKeycloak
    <2>1. ASSUME NEW id \in Ids, NEW step \in Steps, pass' = [pass EXCEPT !.id = id, !.pc = step]
          PROVE  /\ pass'.id = id /\ pass'.cw = pass.cw /\ pass'.realm = pass.realm
                 /\ pass'.pc = step
      BY <1>1, <2>1 DEF Passes
    <2>2. "PFE" \in Steps /\ "wait" \in Steps
      BY DEF Steps, Kinds
    <2> QED
      BY <1>3, <2>1, <2>2 DEF FindKeycloak, Requeue
  <1>4. CASE WaitForService
    <2>1. CASE Goto("register")
      BY <1>1, <1>4, <2>1, GotoType, StepsCovered DEF WaitForService
    <2>2. CASE pass' = [pass EXCEPT !.tries = @ + 1]
      BY <1>1, <1>4, <2>2 DEF WaitForService, Passes
    <2> QED
      BY <1>4, <2>1, <2>2 DEF WaitForService, Requeue
  <1>5. CASE Register
    <2>1. CASE Goto("PFE") /\ registered' = registered \cup {Registration}
      <3>1. "PFE" \in Steps
        BY DEF Steps, Kinds
      <3> QED
        BY <1>1, <1>5, <2>1, <3>1, GotoType DEF Register
    <2> QED
      BY <1>5, <2>1 DEF Register, Requeue
  <1>6. ASSUME NEW k \in Kinds, Ensure(k)
        PROVE  \/ pass' = Idle
               \/ /\ pass'.pc = After[k]
                  /\ pass'.cw = pass.cw /\ pass'.realm = pass.realm /\ pass'.id = pass.id
    <2>1. pass.pc = k /\ k \notin {"idle", "find"} /\ After[k] \in Steps
      BY <1>6, StepsCovered, AfterType DEF Ensure
    <2>2. CASE Goto(After[k])
      BY <1>1, <2>1, <2>2, GotoType
    <2> QED
      BY <1>6, <2>2 DEF Ensure, Requeue
  <1>7. CASE Publish
    BY <1>7 DEF Publish, Requeue
  <1>8. pass' = Idle \/ pass' = pass \/ CodewindStep \/ \E c \in Codewinds : StartPass(c)
    BY NextCases DEF StartOperator, Started, Crash, AdminEdit, UserCreate, UserDelete,
       KeycloakStep, KDeploy, KCheckPod, KInstallRealm, Installs, KStore, KStart, KeycloakEvent,
       CreateKeycloak, DeleteKeycloak, PodProgress, CollectSecret, CollectServer,
       codewindWorker, vars
  <1> QED
    BY <1>2, <1>3, <1>4, <1>5, <1>6, <1>7, <1>8 DEF CodewindStep

(* How the pass of the Keycloak controller moves. *)
LEMMA KPassMoves ==
    ASSUME TypeOK, [Next]_vars
    PROVE  \/ kpass' = KIdle \/ kpass' = kpass
           \/ \E id \in Ids : /\ kc[id].live /\ kc' = kc /\ kpass'.id = id
                              /\ kpass'.realm = kc[id].realm /\ kpass'.pc = "deploy"
           \/ /\ kpass.pc \in {"deploy", "pod"} /\ kpass'.pc \in {"pod", "store"}
              /\ kpass'.id = kpass.id /\ kpass'.realm = kpass.realm
           \/ /\ kpass.pc = "pod" /\ kpass'.pc = "realm" /\ kpass'.id = kpass.id
           \/ /\ kpass.pc = "realm" /\ kpass'.pc = "store" /\ kpass'.id = kpass.id
              /\ kpass'.realm = kpass.realm /\ <<kpass.id, kpass.realm>> \in Acknowledged'
  <1>1. KPassOK /\ kpass \in KPasses /\ {"pod", "store"} \subseteq KSteps \ {"realm"}
    BY PassesOK DEF KPassOK, KSteps
  <1>2. ASSUME NEW id \in Ids, KStart(id)
        PROVE  /\ kc[id].live /\ kc' = kc /\ kpass'.id = id
               /\ kpass'.realm = kc[id].realm /\ kpass'.pc = "deploy"
    BY <1>2 DEF KStart, instances
  <1>3. CASE KDeploy
    BY <1>1, <1>3, KGotoType DEF KDeploy, KEnd
  <1>4. CASE KCheckPod
    <2>1. CASE kpass' = [kpass EXCEPT !.pc = "realm", !.realm = kpass.wanted]
      BY <1>1, <1>4, <2>1 DEF KCheckPod, KPasses
    <2> QED
      BY <1>1, <1>4, <2>1, KGotoType DEF KCheckPod
  <1>5. CASE KInstallRealm
    BY <1>1, <1>5, KGotoType DEF KInstallRealm, Installs, KEnd, Acknowledged
  <1>6. CASE KStore
    BY <1>6 DEF KStore, KEnd
  <1>7. kpass' = KIdle \/ kpass' = kpass \/ KeycloakStep \/ \E id \in Ids : KStart(id)
    BY NextCases DEF StartOperator, Started, Crash, AdminEdit, StartPass, Begin, UserCreate,
       UserDelete, CodewindStep, FindKeycloak, WaitForService, Register, Ensure, Publish,
       KeycloakEvent, CreateKeycloak, DeleteKeycloak, PodProgress, CollectSecret, CollectServer,
       vars
  <1> QED
    BY <1>2, <1>3, <1>4, <1>5, <1>6, <1>7 DEF KeycloakStep

(* Objects are added by a pass that lacks them, and go with a deletion. *)
LEMMA MadeMoves ==
    ASSUME [Next]_vars
    PROVE  \/ made' = made /\ (cw' = cw \/ Publish \/ \E c \in Codewinds : UserCreate(c) \/ UserDelete(c))
           \/ \E k \in Kinds : /\ Ensure(k) /\ ~Has(pass.cw, k) /\ cw' = cw
                               /\ made' = made \cup {Ref(k)}
           \/ \E c \in Codewinds : /\ pass.pc = "idle" /\ pass' = pass
                                   /\ cw' = [cw EXCEPT ![c].phase = "gone"]
                                   /\ made' = {o \in made : o.cw # c}
  <1>1. ASSUME NEW k \in Kinds, Ensure(k)
        PROVE  \/ made' = made /\ cw' = cw
               \/ ~Has(pass.cw, k) /\ cw' = cw /\ made' = made \cup {Ref(k)}
    BY <1>1 DEF Ensure
  <1>2. ASSUME NEW c \in Codewinds, StartPass(c)
        PROVE  \/ made' = made /\ cw' = cw
               \/ /\ pass.pc = "idle" /\ pass' = pass
                  /\ cw' = [cw EXCEPT ![c].phase = "gone"]
                  /\ made' = {o \in made : o.cw # c}
    BY <1>2 DEF StartPass, Begin, codewinds
  <1>3. \/ made' = made /\ (cw' = cw \/ Publish \/ \E c \in Codewinds : UserCreate(c) \/ UserDelete(c))
        \/ \E k \in Kinds : Ensure(k)
        \/ \E c \in Codewinds : StartPass(c)
    BY NextCases DEF StartOperator, Started, Crash, AdminEdit, UserCreate, UserDelete,
       CodewindStep, FindKeycloak, WaitForService, Register, Publish, KeycloakStep, KDeploy,
       KCheckPod, KInstallRealm, Installs, KStore, KStart, KeycloakEvent, CreateKeycloak,
       DeleteKeycloak, PodProgress, CollectSecret, CollectServer, codewinds, vars
  <1> QED
    BY <1>1, <1>2, <1>3

LEMMA OnlyAskedStep == ASSUME TypeOK, OnlyAsked, [Next]_vars PROVE OnlyAsked'
  <1>1. \A id \in Ids : kc[id].asked => kc'[id].asked
    BY AskedStays
  <1>2. ASSUME NEW id \in Ids, kc'[id].live \/ pods'[id] # "none"
        PROVE  kc'[id].asked
    <2>1. CASE kc'[id].live
      BY <1>1, <2>1, AskedStays DEF OnlyAsked
    <2>2. CASE pods' = pods
      BY <1>1, <1>2, <2>1, <2>2 DEF OnlyAsked
    <2>3. ASSUME NEW i \in Ids, KeycloakEvent(i), pods'[id] # "none"
          PROVE  pods[id] # "none" \/ kc[id].live
      BY <2>3 DEF KeycloakEvent, CreateKeycloak, DeleteKeycloak, PodProgress, CollectSecret,
         CollectServer, TypeOK
    <2>4. pods' = pods \/ \E i \in Ids : KeycloakEvent(i)
      BY NextCases DEF StartOperator, Started, Crash, AdminEdit, StartPass, Begin, UserCreate,
         UserDelete, CodewindStep, FindKeycloak, WaitForService, Register, Ensure, Publish,
         KeycloakStep, KDeploy, KCheckPod, KInstallRealm, Installs, KStore, KStart, instances,
         vars
    <2> QED
      BY <1>1, <1>2, <2>1, <2>2, <2>3, <2>4 DEF OnlyAsked
  <1>3. pass.pc \notin {"idle", "find"} => pass.id \in Ids /\ kc[pass.id].asked
    BY DEF OnlyAsked, TypeOK
  <1>4. ASSUME NEW o \in made' PROVE kc'[o.id].asked
    <2>1. ASSUME o \in made PROVE kc'[o.id].asked
      BY <1>1, <2>1 DEF OnlyAsked, TypeOK, Objects
    <2>2. ASSUME NEW k \in Kinds, Ensure(k), o = Ref(k) PROVE kc'[o.id].asked
      BY <1>1, <1>3, <2>2, StepsCovered DEF Ensure, Ref
    <2> QED
      BY <2>1, <2>2, MadeMoves
  <1>5. pass'.pc \notin {"idle", "find"} => kc'[pass'.id].asked
    <2>1. CASE FindKeycloak /\ pass'.id \in Ids /\ pods[pass'.id] # "none"
      BY <1>1, <2>1 DEF OnlyAsked
    <2>2. CASE (WaitForService \/ Register \/ \E k \in Kinds : Ensure(k)) /\ pass'.id = pass.id
      <3>1. pass.pc \notin {"idle", "find"}
        BY <2>2, StepsCovered DEF WaitForService, Register, Ensure
      <3> QED
        BY <1>1, <1>3, <2>2, <3>1
    <2> QED
      BY <1>1, <1>3, <2>1, <2>2, PassMoves, IdleTypes
  <1>6. kpass'.pc # "idle" => kc'[kpass'.id].asked
    <2>1. kpass.pc # "idle" => kpass.id \in Ids /\ kc[kpass.id].asked
      BY DEF OnlyAsked, TypeOK
    <2>2. \A id \in Ids : kc[id].live => kc[id].asked
      BY DEF OnlyAsked
    <2> QED
      BY <1>1, <2>1, <2>2, KPassMoves, IdleTypes
  <1> QED
    BY <1>2, <1>4, <1>5, <1>6 DEF OnlyAsked

LEMMA InitAsked == Init => OnlyAsked
  BY IdleTypes DEF Init, OnlyAsked, Unmade

LEMMA AskedInvariant == Spec => [](TypeOK /\ OnlyAsked)
  <1>1. TypeOK /\ OnlyAsked /\ [Next]_vars => (TypeOK /\ OnlyAsked)'
    BY TypeStep, OnlyAskedStep
  <1> QED
    BY <1>1, InitType, InitAsked, PTL DEF Spec

(* A server keeps what it has as long as its Keycloak lives. *)
LEMMA ServersKeep ==
    ASSUME TypeOK, [Next]_vars, NEW id \in Ids, kc[id].asked, kc'[id].live
    PROVE  /\ kc[id].live
           /\ \A r : <<id, r>> \in Acknowledged => <<id, r>> \in Acknowledged'
           /\ \A r, c : <<id, r, c>> \in registered => <<id, r, c>> \in registered'
  <1>1. kc[id].live
    BY AskedStays
  <1>2. CASE UNCHANGED servers
    BY <1>1, <1>2 DEF servers, Acknowledged
  <1>3. CASE Register \/ KInstallRealm
    BY <1>1, <1>3 DEF Register, KInstallRealm, Installs, servers, Acknowledged
  <1>4. ASSUME NEW i \in Ids, CollectServer(i)
        PROVE  i # id /\ realms' = {r \in realms : r[1] # i}
                      /\ registered' = {r \in registered : r[1] # i}
                      /\ bodiless' = bodiless
    BY <1>1, <1>4 DEF CollectServer
  <1>5. \/ UNCHANGED servers \/ Register \/ KInstallRealm
        \/ \E i \in Ids : CollectServer(i)
    BY NextCases DEF StartOperator, Started, Crash, AdminEdit, StartPass, Begin, UserCreate,
       UserDelete, CodewindStep, FindKeycloak, WaitForService, Ensure, Publish, KeycloakStep,
       KDeploy, KCheckPod, KStore, KStart, KeycloakEvent, CreateKeycloak, DeleteKeycloak,
       PodProgress, CollectSecret, servers, vars
  <1> QED
    BY <1>1, <1>2, <1>3, <1>4, <1>5 DEF Acknowledged

-----------------------------------------------------------------------------
(* What is recorded as installed was acknowledged by the server itself.    *)

(* So it is for what a pass is about to record, but for the realm it is    *)
(* going to install first.                                                 *)
PassRecorded ==
    kpass.pc \notin {"idle", "realm"} /\ kc[kpass.id].live /\ kpass.realm # Nothing =>
        <<kpass.id, kpass.realm>> \in Acknowledged

LEMMA RecordedStep ==
    ASSUME TypeOK, OnlyAsked, PassRecorded, RecordedRealmAcknowledged, [Next]_vars
    PROVE  PassRecorded' /\ RecordedRealmAcknowledged'
  <1>1. kpass.pc # "idle" => kpass.id \in Ids /\ kc[kpass.id].asked
    BY DEF TypeOK, OnlyAsked
  <1>2. PassRecorded'
    <2> SUFFICES ASSUME kpass'.pc \notin {"idle", "realm"}, kc'[kpass'.id].live,
                        kpass'.realm # Nothing
                 PROVE  <<kpass'.id, kpass'.realm>> \in Acknowledged'
      BY DEF PassRecorded
    <2>1. CASE /\ kpass.pc \notin {"idle", "realm"}
               /\ kpass'.id = kpass.id /\ kpass'.realm = kpass.realm
      BY <1>1, <2>1, ServersKeep DEF PassRecorded
    <2>2. ASSUME NEW id \in Ids, kc[id].live, kc' = kc, kpass'.id = id,
                 kpass'.realm = kc[id].realm
          PROVE  <<kpass'.id, kpass'.realm>> \in Acknowledged'
      BY <2>2, ServersKeep DEF OnlyAsked, RecordedRealmAcknowledged, Acknowledged
    <2>3. CASE kpass' = kpass
      BY <2>1, <2>3
    <2> QED
      BY <2>1, <2>2, <2>3, KPassMoves, IdleTypes
  <1>3. ASSUME NEW id \in Ids, kc'[id].realm # Nothing
        PROVE  <<id, kc'[id].realm>> \in Acknowledged'
    <2>0. kc \in [Ids -> Instances] /\ kc' \in [Ids -> Instances]
      BY TypeStep DEF TypeOK
    <2>1. ASSUME ~\E i \in Ids : CollectServer(i) PROVE Acknowledged \subseteq Acknowledged'
      BY <2>1, NextCases DEF StartOperator, Started, Crash, AdminEdit, StartPass, Begin,
         UserCreate, UserDelete, CodewindStep, FindKeycloak, WaitForService, Register, Ensure,
         Publish, KeycloakStep, KDeploy, KCheckPod, KInstallRealm, Installs, KStore, KStart,
         KeycloakEvent, CreateKeycloak, DeleteKeycloak, PodProgress, CollectSecret, servers, vars,
         Acknowledged
    <2>2. ASSUME NEW i \in Ids, CollectServer(i) PROVE <<id, kc'[id].realm>> \in Acknowledged'
      <3>1. i # id
        BY <1>3, <2>0, <2>2 DEF CollectServer, Unmade
      <3>2. kc'[id] = kc[id]
        BY <2>0, <2>2, <3>1 DEF CollectServer
      <3> QED
        BY <1>3, <2>2, <3>1, <3>2 DEF CollectServer, RecordedRealmAcknowledged, Acknowledged
    <2>3. CASE KStore /\ kc[kpass.id].live /\ id = kpass.id
      <3>1. kpass.pc = "store"
        BY <2>3 DEF KStore
      <3>2. kc'[id].realm \in {kc[id].realm, kpass.realm}
        BY <2>0, <2>3 DEF KStore, Instances
      <3>3. kpass.realm # Nothing => <<id, kpass.realm>> \in Acknowledged
        BY <2>3, <3>1 DEF PassRecorded
      <3>4. Acknowledged' = Acknowledged
        BY <2>3 DEF KStore, servers, Acknowledged
      <3> QED
        BY <1>3, <3>2, <3>3, <3>4 DEF RecordedRealmAcknowledged, Acknowledged
    <2>4. CASE kc'[id].realm = kc[id].realm
      BY <1>3, <2>1, <2>2, <2>4 DEF RecordedRealmAcknowledged, Acknowledged
    <2>5. \/ kc'[id].realm = kc[id].realm
          \/ KStore /\ kc[kpass.id].live /\ id = kpass.id
          \/ \E i \in Ids : CollectServer(i)
      <3>1. CASE KStore
        BY <1>1, <2>0, <3>1 DEF KStore, Instances
      <3>2. CASE KDeploy
        BY <1>1, <2>0, <3>2 DEF KDeploy, Instances
      <3>3. ASSUME NEW i \in Ids, CreateKeycloak(i) \/ DeleteKeycloak(i)
            PROVE  kc'[id].realm = kc[id].realm
        BY <2>0, <3>3 DEF CreateKeycloak, DeleteKeycloak, Instances
      <3>4. \/ UNCHANGED kc \/ KStore \/ KDeploy
            \/ \E i \in Ids : CreateKeycloak(i) \/ DeleteKeycloak(i) \/ CollectServer(i)
        BY NextCases DEF StartOperator, Started, Crash, AdminEdit, StartPass, Begin,
           UserCreate, UserDelete, CodewindStep, FindKeycloak, WaitForService, Register,
           Ensure, Publish, KeycloakStep, KCheckPod, KInstallRealm, Installs, KStart,
           KeycloakEvent, PodProgress, CollectSecret, instances, vars
      <3> QED
        BY <3>1, <3>2, <3>3, <3>4
    <2> QED
      BY <2>2, <2>3, <2>4, <2>5
  <1> QED
    BY <1>2, <1>3 DEF RecordedRealmAcknowledged, Acknowledged

LEMMA InitRecorded == Init => PassRecorded /\ RecordedRealmAcknowledged
  BY IdleTypes, UnmadeType DEF Init, PassRecorded, RecordedRealmAcknowledged, Acknowledged

(* A realm recorded in a Keycloak is on its own server, or that server     *)
(* answered the creation of this realm without a body, however often the   *)
(* config map is edited and the Keycloak is made anew.                     *)
THEOREM RecordedRealmsAcknowledged == Spec => []RecordedRealmAcknowledged
  <1>1. TypeOK /\ OnlyAsked /\ PassRecorded /\ RecordedRealmAcknowledged /\ [Next]_vars
          => (PassRecorded /\ RecordedRealmAcknowledged)'
    BY RecordedStep
  <1> QED
    BY <1>1, InitRecorded, AskedInvariant, PTL DEF Spec

-----------------------------------------------------------------------------
(* What is deployed is registered.                                         *)

Before(step) == CASE step = "AuthSecret" -> {"PFE"}
                  [] step = "Gatekeeper" -> {"PFE", "AuthSecret"}
                  [] step = "publish" -> Kinds
                  [] OTHER -> {}

(* A pass works for a Codewind that is not gone, and has what comes before *)
(* its step; a Codewind that is Complete has it all.                       *)
MadeInOrder ==
    /\ pass.pc # "idle" =>
          /\ cw[pass.cw].phase \in {"live", "deleting"}
          /\ \A k \in Before(pass.pc) : Has(pass.cw, k)
    /\ \A c \in Codewinds : cw[c].complete /\ cw[c].phase # "gone" =>
                               \A k \in Kinds : Has(c, k)

(* A pass that makes objects has registered its Codewind, or found them    *)
(* all made.                                                               *)
PassRegistered ==
    pass.pc \in Kinds /\ kc[pass.id].live /\ ~cw[pass.cw].complete =>
        Registration \in registered

LEMMA StatusMoves ==
    ASSUME TypeOK, [Next]_vars, NEW c \in Codewinds
    PROVE  \/ cw'[c] = cw[c]
           \/ cw'[c].complete = cw[c].complete /\ cw[c].phase = "absent"
           \/ cw'[c].complete = cw[c].complete /\ cw'[c].phase = "deleting"
                                               /\ cw[c].phase = "live"
           \/ cw'[c].phase = "gone" /\ pass.pc = "idle" /\ pass' = pass
           \/ /\ pass.pc = "publish" /\ pass.cw = c /\ pass' = Idle
              /\ made' = made /\ cw'[c].phase = cw[c].phase
  <1>1. cw \in [Codewinds -> Statuses]
    BY DEF TypeOK
  <1>2. CASE Publish
    BY <1>1, <1>2 DEF Publish, Statuses, Requeue
  <1>3. ASSUME NEW d \in Codewinds, UserCreate(d) \/ UserDelete(d)
        PROVE  \/ cw'[c] = cw[c]
               \/ cw'[c].complete = cw[c].complete /\ cw[c].phase = "absent"
               \/ cw'[c].complete = cw[c].complete /\ cw'[c].phase = "deleting"
                                                   /\ cw[c].phase = "live"
    BY <1>1, <1>3 DEF UserCreate, UserDelete, Statuses
  <1>4. ASSUME NEW d \in Codewinds, cw' = [cw EXCEPT ![d].phase = "gone"]
        PROVE  cw'[c] = cw[c] \/ cw'[c].phase = "gone"
    BY <1>1, <1>4 DEF Statuses
  <1> QED
    BY <1>2, <1>3, <1>4, MadeMoves

Among(objects, c, k) == \E o \in objects : o.cw = c /\ o.kind = k

(* Objects stay until their Codewind is gone. *)
LEMMA MadeStays ==
    ASSUME TypeOK, [Next]_vars, NEW c \in Codewinds, NEW k, Has(c, k), cw'[c].phase # "gone"
    PROVE  Among(made', c, k)
  <1>1. CASE made \subseteq made'
    BY <1>1 DEF Has, Among
  <1>2. ASSUME NEW d \in Codewinds, cw' = [cw EXCEPT ![d].phase = "gone"],
               made' = {o \in made : o.cw # d}
        PROVE  Among(made', c, k)
    <2>1. d # c
      BY <1>2 DEF TypeOK, Statuses
    <2> QED
      BY <1>2, <2>1 DEF Has, Among
  <1> QED
    BY <1>1, <1>2, MadeMoves

LEMMA MadeInOrderStep == ASSUME TypeOK, MadeInOrder, [Next]_vars PROVE MadeInOrder'
  <1>1. pass.pc # "idle" => pass.cw \in Codewinds /\ cw[pass.cw].phase \in {"live", "deleting"}
    BY DEF TypeOK, MadeInOrder
  <1>2. ASSUME NEW c \in Codewinds, cw'[c].phase # "gone", cw'[c].complete, NEW k \in Kinds
        PROVE  Among(made', c, k)
    <2>1. CASE cw[c].complete /\ cw[c].phase # "gone"
      BY <1>2, <2>1, MadeStays DEF MadeInOrder
    <2>2. CASE pass.pc = "publish" /\ pass.cw = c
      BY <1>2, <2>2, MadeStays DEF MadeInOrder, Before
    <2> QED
      BY <1>2, <2>1, <2>2, StatusMoves
  <1>3. pass'.pc # "idle" => cw'[pass'.cw].phase \in {"live", "deleting"}
    <2>1. CASE pass.pc # "idle" /\ pass'.cw = pass.cw /\ pass' # Idle
      BY <1>1, <2>1, StatusMoves
    <2>2. ASSUME NEW c \in Codewinds, pass.pc = "idle", cw[c].phase = "live", pass'.cw = c,
                 pass'.pc = "find"
          PROVE  cw'[c].phase \in {"live", "deleting"}
      BY <2>2, StatusMoves
    <2>3. FindKeycloak \/ WaitForService \/ Register \/ (\E k \in Kinds : Ensure(k))
             => pass.pc # "idle"
      BY StepsCovered DEF FindKeycloak, WaitForService, Register, Ensure
    <2>4. CASE pass' = pass
      BY <1>1, <2>1, <2>4, IdleTypes
    <2> QED
      BY <2>1, <2>2, <2>3, <2>4, PassMoves, IdleTypes
  <1>4. ASSUME pass'.pc # "idle", NEW k \in Before(pass'.pc) PROVE Among(made', pass'.cw, k)
    <2>1. CASE pass.pc # "idle" /\ pass'.cw = pass.cw /\ k \in Before(pass.pc)
      BY <1>1, <1>3, <1>4, <2>1, MadeStays DEF MadeInOrder
    <2>2. CASE pass'.pc \in {"find", "wait", "register", "PFE"}
      BY <1>4, <2>2 DEF Before
    <2>3. ASSUME NEW j \in Kinds, Ensure(j), pass' # Idle, pass'.pc = After[j],
                 pass'.cw = pass.cw
          PROVE  Among(made', pass'.cw, k)
      <3>1. pass.pc = j /\ pass.pc # "idle"
        BY <2>3, StepsCovered DEF Ensure
      <3>2. k \in Before(j) \/ k = j
        BY <1>4, <2>3 DEF Before, After, Kinds
      <3>3. Among(made', pass.cw, j)
        <4>1. CASE Has(pass.cw, j) /\ made' = made
          BY <4>1 DEF Has, Among
        <4>2. CASE made' = made \cup {Ref(j)}
          <5>1. Ref(j) \in made' /\ Ref(j).cw = pass.cw /\ Ref(j).kind = j
            BY <4>2 DEF Ref
          <5> QED
            BY <5>1 DEF Among
        <4> QED
          BY <2>3, <4>1, <4>2 DEF Ensure, Requeue
      <3> QED
        BY <2>1, <2>3, <3>1, <3>2, <3>3
    <2>4. CASE pass' = pass
      BY <1>4, <2>1, <2>4
    <2>5. CASE FindKeycloak
      BY <1>4, <2>2, <2>4, <2>5, PassMoves, IdleTypes, StepsCovered
         DEF FindKeycloak, WaitForService, Register, Ensure
    <2> QED
      BY <1>4, <2>2, <2>3, <2>4, <2>5, PassMoves, IdleTypes
  <1> QED
    BY <1>2, <1>3, <1>4 DEF MadeInOrder, Has, Among

LEMMA PassRegisteredStep ==
    ASSUME TypeOK, OnlyAsked, PassRegistered, [Next]_vars
    PROVE  PassRegistered'
  <1> SUFFICES ASSUME pass'.pc \in Kinds, kc'[pass'.id].live, ~cw'[pass'.cw].complete
               PROVE  <<pass'.id, pass'.realm, pass'.cw>> \in registered'
    BY DEF PassRegistered, Registration
  <1>1. pass.pc \in Kinds =>
           pass.id \in Ids /\ kc[pass.id].asked /\ pass.cw \in Codewinds
    BY StepsCovered DEF TypeOK, OnlyAsked
  <1>2. CASE /\ pass.pc \in Kinds /\ pass' # Idle
             /\ pass'.id = pass.id /\ pass'.realm = pass.realm /\ pass'.cw = pass.cw
    <2>1. kc[pass.id].live
      BY <1>1, <1>2, ServersKeep
    <2>2. ~cw[pass.cw].complete
      <3>1. pass.pc # "idle" /\ pass.pc # "publish"
        BY <1>2, StepsCovered
      <3>2. cw'[pass.cw].phase = "gone" => cw'[pass.cw].complete = cw[pass.cw].complete
        BY <1>1, <1>2, <3>1, StatusMoves
      <3> QED
        BY <1>1, <1>2, <3>1, <3>2, StatusMoves
    <2> QED
      BY <1>1, <1>2, <2>1, <2>2, ServersKeep DEF PassRegistered, Registration
  <1>3. CASE Register /\ Registration \in registered' /\ pass'.id = pass.id
                      /\ pass'.realm = pass.realm /\ pass'.cw = pass.cw
    BY <1>3 DEF Registration
  <1>4. CASE FindKeycloak /\ pass'.cw = pass.cw
                          /\ pass'.pc = IF cw[pass.cw].complete THEN "PFE" ELSE "wait"
    <2>1. cw[pass.cw].complete
      BY <1>4, StepsCovered
    <2>2. cw' = cw
      BY <1>4 DEF FindKeycloak, codewinds
    <2> QED
      BY <1>4, <2>1, <2>2
  <1>5. ASSUME NEW k \in Kinds, Ensure(k) PROVE pass.pc \in Kinds
    BY <1>5 DEF Ensure
  <1>6. Idle.pc \notin Kinds
    BY IdleTypes, StepsCovered
  <1> QED
    BY <1>2, <1>3, <1>4, <1>5, <1>6, PassMoves, StepsCovered

LEMMA DeployedStep ==
    ASSUME TypeOK, OnlyAsked, MadeInOrder, PassRegistered, DeployedRegistered, [Next]_vars
    PROVE  DeployedRegistered'
  <1> SUFFICES ASSUME NEW o \in made', kc'[o.id].live
               PROVE  <<o.id, o.realm, o.cw>> \in registered'
    BY DEF DeployedRegistered
  <1>1. CASE o \in made
    <2>1. o.id \in Ids /\ kc[o.id].asked
      BY <1>1 DEF OnlyAsked, TypeOK, Objects
    <2> QED
      BY <1>1, <2>1, ServersKeep DEF DeployedRegistered
  <1>2. ASSUME NEW k \in Kinds, Ensure(k), ~Has(pass.cw, k), o = Ref(k)
        PROVE  <<o.id, o.realm, o.cw>> \in registered'
    <2>1. /\ pass.pc = k /\ pass.pc \in Kinds /\ pass.pc # "idle"
          /\ pass.id \in Ids /\ pass.cw \in Codewinds /\ kc[pass.id].asked
      BY <1>2, StepsCovered DEF Ensure, TypeOK, OnlyAsked
    <2>2. /\ o.id = pass.id /\ o.realm = pass.realm /\ o.cw = pass.cw
      BY <1>2 DEF Ref
    <2>3. ~cw[pass.cw].complete
      BY <1>2, <2>1 DEF MadeInOrder
    <2>4. kc[pass.id].live
      BY <2>1, <2>2, ServersKeep
    <2> QED
      BY <2>1, <2>2, <2>3, <2>4, ServersKeep DEF PassRegistered, Registration
  <1> QED
    BY <1>1, <1>2, MadeMoves

LEMMA InitDeployed == Init => MadeInOrder /\ PassRegistered /\ DeployedRegistered
  BY IdleTypes, StepsCovered DEF Init, MadeInOrder, PassRegistered, DeployedRegistered

(* Whatever points at a Keycloak that is there points at a realm in which  *)
(* its Codewind is registered, whatever was edited or made anew between    *)
(* the passes that deploy one thing after the other.                       *)
THEOREM DeployedIsRegistered == Spec => []DeployedRegistered
  <1> DEFINE Inv == MadeInOrder /\ PassRegistered /\ DeployedRegistered
  <1>1. TypeOK /\ OnlyAsked /\ Inv /\ [Next]_vars => Inv'
    BY MadeInOrderStep, PassRegisteredStep, DeployedStep
  <1>2. Init => Inv
    BY InitDeployed
  <1>3. Inv => DeployedRegistered
    OBVIOUS
  <1> QED
    BY <1>1, <1>2, <1>3, AskedInvariant, PTL DEF Spec

(* Nothing but an administrator's edit changes a config map that is there. *)
THEOREM SettingsAreKept == Spec => SettingsKept
  <1>1. [Next]_vars => [config # Nothing /\ config' # config => AdminEdit]_vars
    BY NextCases DEF StartOperator, Started, Crash, StartPass, Begin, UserCreate, UserDelete,
       CodewindStep, FindKeycloak, WaitForService, Register, Ensure, Publish, KeycloakStep,
       KDeploy, KCheckPod, KInstallRealm, Installs, KStore, KStart, KeycloakEvent,
       CreateKeycloak, DeleteKeycloak, PodProgress, CollectSecret, CollectServer, vars
  <1> QED
    BY <1>1, PTL DEF Spec, SettingsKept
=============================================================================
