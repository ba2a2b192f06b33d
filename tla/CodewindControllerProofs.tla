---------------------- MODULE CodewindControllerProofs ----------------------
(***************************************************************************)
(* Proofs about CodewindController, for every set of Codewinds, every      *)
(* choice of lagging informers, faults and bounds its assumptions allow.   *)
(***************************************************************************)
EXTENDS CodewindController, TLAPS

(* The steps a pass can go on from. *)
BringUpSteps == {"finalizer", "keycloak", "register"} \cup Kinds

-----------------------------------------------------------------------------
(* Facts about the operators the actions are built from.                   *)

(* A step of the bring-up is followed by one that runs under the guard. *)
LEMMA AfterGrants ==
    ASSUME NEW step \in BringUpSteps, NEW openshift \in BOOLEAN
    PROVE  After(step, openshift) \in GrantSteps
  BY DEF After, BringUpSteps, GrantSteps, Kinds, SharedKinds, ClusterBindings, Owned,
         Deployments, Exposures

LEMMA StepsCovered ==
    /\ GrantSteps \subseteq Steps /\ Kinds \subseteq Steps /\ CleanupSteps \subseteq Steps
    /\ "idle" \notin Steps
  BY DEF GrantSteps, Steps, Kinds, CleanupSteps, SharedKinds, ClusterBindings, Owned,
         Deployments, Exposures

LEMMA AbsentType == ASSUME NEW rv \in Nat PROVE Absent(rv) \in Codewind
  BY DEF Absent, Codewind, NoWorkspace, Statuses

LEMMA IdleType == Idle \in Passes
  BY AbsentType, StepsCovered DEF Idle, Passes

LEMMA StoredType == ASSUME NEW new \in Codewind PROVE Stored(new) \in Codewind
  <1>1. new.rv + 1 \in Nat
    BY DEF Codewind
  <1>2. Absent(new.rv + 1) \in Codewind
    BY <1>1, AbsentType
  <1>3. [new EXCEPT !.rv = @ + 1] \in Codewind
    BY <1>1 DEF Codewind
  <1> QED
    BY <1>2, <1>3 DEF Stored

(* A write of a well-formed Codewind leaves the API server well-formed. *)
LEMMA CommitType ==
    ASSUME cr \in [CRs -> Codewind], NEW c \in CRs, NEW new \in Codewind, Commit(c, new)
    PROVE  cr' \in [CRs -> Codewind]
  BY StoredType DEF Commit

LEMMA SpendType ==
    ASSUME left \in [Budgets -> Nat], NEW b \in Budgets,
           Spend(b)
    PROVE  left' \in [Budgets -> Nat]
  BY DEF Spend

LEMMA FaultType ==
    ASSUME left \in [Budgets -> Nat], NEW kind, Fault(kind)
    PROVE  left' \in [Budgets -> Nat]
  BY SpendType DEF Fault, Budgets

LEMMA GotoType ==
    ASSUME pass \in Passes, NEW step \in Steps, Goto(step)
    PROVE  /\ pass' \in Passes
           /\ pass'.pc = step /\ pass'.cr = pass.cr /\ pass'.cw = pass.cw
           /\ pass'.pc # "idle"
  BY StepsCovered DEF Goto, Passes

LEMMA AdvanceType ==
    ASSUME pass \in Passes, pass.pc \in BringUpSteps, Advance
    PROVE  /\ pass' \in Passes
           /\ pass'.pc \in GrantSteps /\ pass'.cr = pass.cr /\ pass'.cw = pass.cw
           /\ pass'.pc # "idle"
           /\ UNCHANGED queue
  <1>1. pass.openshift \in BOOLEAN
    BY DEF Passes
  <1>2. After(pass.pc, pass.openshift) \in GrantSteps
    BY <1>1, AfterGrants
  <1> QED
    BY <1>2, GotoType, StepsCovered DEF Advance, Goto

LEMMA RequeueType ==
    ASSUME TypeOK, pass.pc # "idle", Requeue
    PROVE  pass' \in Passes /\ pass' = Idle /\ queue' \subseteq CRs
  BY IdleType DEF Requeue, TypeOK, Passes

LEMMA SettleType ==
    ASSUME TypeOK, Settle
    PROVE  pass' \in Passes /\ pass' = Idle /\ queue' \subseteq CRs
  BY IdleType DEF Settle, TypeOK

LEMMA IdlePc == Idle.pc = "idle" /\ Idle.cr = NoCodewind
  BY DEF Idle

(* Every write of the worker is a write of a well-formed Codewind. *)
LEMMA WriteType ==
    ASSUME TypeOK, pass.pc # "idle"
    PROVE  /\ pass.cr \in CRs /\ pass.cw \in Codewind /\ cr[pass.cr] \in Codewind
           /\ [cr[pass.cr] EXCEPT !.ws = nextWs] \in Codewind
           /\ [cr[pass.cr] EXCEPT !.fin = {OwnFinalizer}] \in Codewind
           /\ [cr[pass.cr] EXCEPT !.fin = {}] \in Codewind
           /\ [cr[pass.cr] EXCEPT !.status = pass.cw.status, !.url = pass.cw.url] \in Codewind
  <1>1. pass.cr \in CRs /\ pass.cw \in Codewind
    BY DEF TypeOK, Passes
  <1>2. cr[pass.cr] \in Codewind
    BY <1>1 DEF TypeOK
  <1>3. {OwnFinalizer} \in SUBSET Finalizers /\ {} \in SUBSET Finalizers
    BY DEF Finalizers
  <1>4. nextWs \in Nat /\ pass.cw.status \in Statuses /\ pass.cw.url \in BOOLEAN
    BY <1>1 DEF TypeOK, Codewind
  <1> QED
    BY <1>1, <1>2, <1>3, <1>4 DEF Codewind

LEMMA StepTypes ==
    /\ "identify" \in Steps /\ "finalizer" \in Steps /\ "publish" \in Steps
    /\ CleanupSteps = {"dropODO", "dropTekton", "clear"}
    /\ {"finalizer", "keycloak", "register"} \subseteq BringUpSteps
    /\ Kinds \subseteq BringUpSteps
  BY DEF Steps, CleanupSteps, BringUpSteps

-----------------------------------------------------------------------------
(* Type correctness, one lemma per group of actions.                       *)

LEMMA StartPassType ==
    ASSUME TypeOK, NEW c \in CRs, StartPass(c)
    PROVE  TypeOK'
  <1> DEFINE begun(detected) == [pc |-> FirstStep(seen[c]), cr |-> c, cw |-> seen[c],
                                 openshift |-> detected, key |-> FALSE]
  <1>1. seen[c] \in Codewind /\ c # NoCodewind
    BY NoCodewindAssumption DEF TypeOK
  <1>2. FirstStep(seen[c]) \in Steps
    BY StepsCovered, StepTypes DEF FirstStep
  <1>3. ASSUME NEW detected \in {OnOpenShift, FALSE}
        PROVE  /\ begun(detected) \in Passes
               /\ begun(detected).pc # "idle" /\ begun(detected).cr # NoCodewind
    BY <1>1, <1>2, StepsCovered, OpenShiftAssumption DEF Passes
  <1>4. pass' \in Passes /\ (pass'.pc = "idle" <=> pass'.cr = NoCodewind)
    <2>1. CASE pass' = Idle
      BY <2>1, IdleType, IdlePc
    <2>2. CASE \E detected \in {OnOpenShift, FALSE} : pass' = begun(detected)
      BY <2>2, <1>3
    <2>3. CASE UNCHANGED pass
      BY <2>3 DEF TypeOK
    <2> QED
      BY <2>1, <2>2, <2>3 DEF StartPass
  <1>5. left' \in [Budgets -> Nat]
    BY FaultType DEF StartPass, TypeOK
  <1>6. queue' \subseteq CRs
    BY DEF StartPass, TypeOK
  <1> QED
    BY <1>4, <1>5, <1>6 DEF StartPass, TypeOK, cluster, caches

(* A pass that ended is well-typed; so is one that only went on. *)
LEMMA EndedType ==
    ASSUME pass' = Idle
    PROVE  pass' \in Passes /\ (pass'.pc = "idle" <=> pass'.cr = NoCodewind)
  BY IdleType, IdlePc

LEMMA WentOnType ==
    ASSUME TypeOK, pass.pc # "idle", pass' \in Passes, pass'.pc # "idle", pass'.cr = pass.cr
    PROVE  pass'.pc = "idle" <=> pass'.cr = NoCodewind
  BY DEF TypeOK

LEMMA IdentifyType == ASSUME TypeOK, Identify PROVE TypeOK'
  <1>1. pass.pc # "idle"
    BY DEF Identify
  <1>2. pass' = Idle /\ queue' \subseteq CRs
    BY <1>1, RequeueType DEF Identify
  <1>3. cr' \in [CRs -> Codewind] /\ nextWs' \in Nat
    BY <1>1, WriteType, CommitType DEF Identify, TypeOK
  <1>4. left' \in [Budgets -> Nat]
    BY FaultType DEF Identify, TypeOK
  <1> QED
    BY <1>2, <1>3, <1>4, EndedType DEF Identify, TypeOK, caches

LEMMA AddFinalizerType == ASSUME TypeOK, AddFinalizer PROVE TypeOK'
  <1>1. pass.pc = "finalizer" /\ pass.pc # "idle" /\ pass \in Passes
    BY DEF AddFinalizer, TypeOK
  <1>2. cr' \in [CRs -> Codewind]
    BY <1>1, WriteType, CommitType DEF AddFinalizer, TypeOK
  <1>3. left' \in [Budgets -> Nat]
    BY FaultType DEF AddFinalizer, TypeOK
  <1>4. pass' \in Passes /\ queue' \subseteq CRs /\ (pass'.pc = "idle" <=> pass'.cr = NoCodewind)
    <2>1. CASE Advance
      BY <2>1, <1>1, AdvanceType, StepTypes, WentOnType DEF TypeOK
    <2>2. CASE Requeue
      BY <2>2, <1>1, RequeueType, EndedType
    <2>3. CASE /\ pass' = [pass EXCEPT !.pc = After(@, pass.openshift), !.cw = cr'[pass.cr]]
               /\ UNCHANGED queue
      <3>1. pass.cr \in CRs /\ cr'[pass.cr] \in Codewind
        BY <1>1, <1>2, WriteType
      <3>2. After(pass.pc, pass.openshift) \in Steps \ {"idle"}
        BY <1>1, AfterGrants, StepTypes, StepsCovered DEF Passes
      <3>3. pass' \in Passes /\ pass'.pc # "idle" /\ pass'.cr = pass.cr
        BY <1>1, <2>3, <3>1, <3>2 DEF Passes
      <3> QED
        BY <1>1, <2>3, <3>3, WentOnType DEF TypeOK
    <2> QED
      BY <2>1, <2>2, <2>3 DEF AddFinalizer
  <1> QED
    BY <1>2, <1>3, <1>4 DEF AddFinalizer, TypeOK, caches

LEMMA KeyType == ASSUME TypeOK, pass.pc # "idle", NEW k \in Kinds PROVE Key(k) \in Objects
  BY WriteType DEF Key, Objects, NoWorkspace, Codewind

LEMMA EnsuredType ==
    ASSUME TypeOK, NEW k \in Kinds, pass.pc = k, Ensured(k)
    PROVE  /\ pass' \in Passes /\ queue' \subseteq CRs
           /\ pass'.pc = "idle" <=> pass'.cr = NoCodewind
  <1>1. pass.pc # "idle" /\ pass \in Passes /\ pass.pc \in BringUpSteps
    BY StepsCovered, StepTypes DEF TypeOK
  <1>2. CASE Requeue
    BY <1>2, <1>1, RequeueType, EndedType
  <1>3. CASE Advance
    BY <1>3, <1>1, AdvanceType, WentOnType DEF TypeOK
  <1>4. CASE pass' = [pass EXCEPT !.pc = "publish", !.cw.url = TRUE] /\ UNCHANGED queue
    <2>1. pass.cw \in Codewind
      BY <1>1, WriteType
    <2>2. [pass.cw EXCEPT !.url = TRUE] \in Codewind
      BY <2>1 DEF Codewind
    <2>3. pass' = [pass EXCEPT !.pc = "publish", !.cw = [pass.cw EXCEPT !.url = TRUE]]
      BY <1>4, <1>1 DEF Passes
    <2>4. pass' \in Passes /\ pass'.pc # "idle" /\ pass'.cr = pass.cr
      BY <1>1, <2>2, <2>3, StepTypes DEF Passes
    <2> QED
      BY <1>1, <1>4, <2>4, WentOnType DEF TypeOK
  <1> QED
    BY <1>2, <1>3, <1>4 DEF Ensured

LEMMA EnsureType == ASSUME TypeOK, NEW k \in Kinds, Ensure(k) PROVE TypeOK'
  <1>1. pass.pc = k /\ pass.pc # "idle" /\ pass \in Passes /\ pass.pc \in BringUpSteps
    BY StepsCovered, StepTypes DEF Ensure, TypeOK
  <1>2. left' \in [Budgets -> Nat]
    BY FaultType DEF Ensure, TypeOK
  <1>3. objs' \subseteq Objects /\ emptyAuth' \subseteq Nat
    <2>1. pass.cw.ws \in Nat
      BY <1>1, WriteType DEF Codewind
    <2> QED
      BY <1>1, <2>1, KeyType DEF Ensure, Add, TypeOK
  <1>4. pass' \in Passes /\ queue' \subseteq CRs /\ (pass'.pc = "idle" <=> pass'.cr = NoCodewind)
    <2>1. CASE Advance
      BY <2>1, <1>1, AdvanceType, WentOnType DEF TypeOK
    <2>2. CASE Requeue
      BY <2>2, <1>1, RequeueType, EndedType
    <2>3. CASE Ensured(k)
      BY <2>3, <1>1, EnsuredType
    <2> QED
      BY <2>1, <2>2, <2>3 DEF Ensure
  <1> QED
    BY <1>2, <1>3, <1>4 DEF Ensure, TypeOK, caches

LEMMA FindKeycloakType == ASSUME TypeOK, FindKeycloak PROVE TypeOK'
  <1>1. pass.pc = "keycloak" /\ pass.pc # "idle" /\ pass \in Passes
    BY DEF FindKeycloak, TypeOK
  <1>2. left' \in [Budgets -> Nat]
    BY FaultType DEF FindKeycloak, TypeOK
  <1>3. pass' \in Passes /\ queue' \subseteq CRs /\ (pass'.pc = "idle" <=> pass'.cr = NoCodewind)
    <2>1. CASE Advance
      BY <2>1, <1>1, AdvanceType, StepTypes, WentOnType DEF TypeOK
    <2>2. CASE Requeue
      BY <2>2, <1>1, RequeueType, EndedType
    <2> QED
      BY <2>1, <2>2 DEF FindKeycloak
  <1> QED
    BY <1>2, <1>3 DEF FindKeycloak, TypeOK, cluster, caches

LEMMA RegisterType == ASSUME TypeOK, Register PROVE TypeOK'
  <1>1. pass.pc = "register" /\ pass.pc # "idle" /\ pass \in Passes
    BY DEF Register, TypeOK
  <1>2. left' \in [Budgets -> Nat]
    BY FaultType DEF Register, TypeOK
  <1>3. registered' \subseteq Nat
    <2>1. pass.cw.ws \in Nat
      BY <1>1, WriteType DEF Codewind
    <2> QED
      BY <2>1 DEF Register, TypeOK
  <1>4. pass' \in Passes /\ queue' \subseteq CRs /\ (pass'.pc = "idle" <=> pass'.cr = NoCodewind)
    <2>1. CASE Advance
      BY <2>1, <1>1, AdvanceType, StepTypes, WentOnType DEF TypeOK
    <2>2. CASE Requeue
      BY <2>2, <1>1, RequeueType, EndedType
    <2>3. CASE /\ pass' = [pass EXCEPT !.pc = After(@, pass.openshift),
                                       !.cw.status = "Complete", !.key = TRUE]
               /\ UNCHANGED queue
      <3>1. [pass.cw EXCEPT !.status = "Complete"] \in Codewind
        BY <1>1, WriteType DEF Codewind, Statuses
      <3>2. After(pass.pc, pass.openshift) \in Steps \ {"idle"}
        BY <1>1, AfterGrants, StepTypes, StepsCovered DEF Passes
      <3>3. pass' = [pass EXCEPT !.pc = After(pass.pc, pass.openshift),
                                 !.cw = [pass.cw EXCEPT !.status = "Complete"],
                                 !.key = TRUE]
        BY <1>1, <2>3 DEF Passes
      <3>4. pass' \in Passes /\ pass'.pc # "idle" /\ pass'.cr = pass.cr
        BY <1>1, <3>1, <3>2, <3>3 DEF Passes
      <3> QED
        BY <1>1, <2>3, <3>4, WentOnType DEF TypeOK
    <2> QED
      BY <2>1, <2>2, <2>3 DEF Register
  <1> QED
    BY <1>2, <1>3, <1>4 DEF Register, TypeOK, cluster, caches

LEMMA PublishType == ASSUME TypeOK, Publish PROVE TypeOK'
  <1>1. pass.pc # "idle"
    BY DEF Publish
  <1>2. cr' \in [CRs -> Codewind]
    BY <1>1, WriteType, CommitType DEF Publish, TypeOK
  <1>3. left' \in [Budgets -> Nat]
    BY FaultType DEF Publish, TypeOK
  <1>4. pass' = Idle /\ queue' \subseteq CRs
    BY <1>1, RequeueType, SettleType DEF Publish
  <1> QED
    BY <1>2, <1>3, <1>4, EndedType DEF Publish, TypeOK, caches

LEMMA DropBindingType ==
    ASSUME TypeOK, NEW step, NEW k, NEW next \in Steps, step # "idle",
           DropBinding(step, k, next)
    PROVE  TypeOK'
  <1>1. pass.pc # "idle" /\ pass \in Passes
    BY DEF DropBinding, TypeOK
  <1>2. left' \in [Budgets -> Nat]
    BY FaultType DEF DropBinding, TypeOK
  <1>3. objs' \subseteq Objects
    BY DEF DropBinding, TypeOK
  <1>4. pass' \in Passes /\ queue' \subseteq CRs /\ (pass'.pc = "idle" <=> pass'.cr = NoCodewind)
    <2>1. CASE Goto(next)
      BY <2>1, <1>1, GotoType, WentOnType DEF TypeOK, Goto
    <2>2. CASE Settle
      BY <2>2, SettleType, EndedType
    <2> QED
      BY <2>1, <2>2 DEF DropBinding
  <1> QED
    BY <1>2, <1>3, <1>4 DEF DropBinding, TypeOK, caches

LEMMA ClearFinalizersType == ASSUME TypeOK, ClearFinalizers PROVE TypeOK'
  <1>1. pass.pc # "idle"
    BY DEF ClearFinalizers
  <1>2. cr' \in [CRs -> Codewind]
    BY <1>1, WriteType, CommitType DEF ClearFinalizers, TypeOK
  <1>3. left' \in [Budgets -> Nat]
    BY FaultType DEF ClearFinalizers, TypeOK
  <1>4. pass' = Idle /\ queue' \subseteq CRs
    BY <1>1, RequeueType, SettleType DEF ClearFinalizers
  <1> QED
    BY <1>2, <1>3, <1>4, EndedType DEF ClearFinalizers, TypeOK, caches

LEMMA WorkerStepType == ASSUME TypeOK, WorkerStep PROVE TypeOK'
  BY IdentifyType, AddFinalizerType, EnsureType, FindKeycloakType, RegisterType, PublishType,
     DropBindingType, ClearFinalizersType, StepsCovered, StepTypes DEF WorkerStep

(* What users and other parties write is well-formed too. *)
LEMMA UserType ==
    ASSUME TypeOK, NEW c \in CRs, UserCreate(c) \/ UserEdit(c) \/ UserDelete(c) \/ RemoveForeign(c)
    PROVE  TypeOK'
  <1>1. cr[c] \in Codewind /\ cr[c].rv \in Nat /\ cr[c].rv + 1 \in Nat
    BY DEF TypeOK, Codewind
  <1>2. CASE UserCreate(c)
    <2>1. left' \in [Budgets -> Nat]
      BY <1>2, SpendType DEF UserCreate, TypeOK, Budgets
    <2>2. PICK fin \in SUBSET ForeignFinalizers :
            cr' = [cr EXCEPT ![c] = [Absent(cr[c].rv + 1) EXCEPT !.live = TRUE, !.fin = fin]]
      BY <1>2 DEF UserCreate, TypeOK
    <2>3. fin \in SUBSET Finalizers
      BY DEF Finalizers
    <2>4. Absent(cr[c].rv + 1) \in Codewind
      BY <1>1, AbsentType
    <2>5. [Absent(cr[c].rv + 1) EXCEPT !.live = TRUE, !.fin = fin] \in Codewind
      BY <2>3, <2>4 DEF Codewind
    <2> QED
      BY <1>2, <2>1, <2>2, <2>5 DEF UserCreate, TypeOK, caches
  <1>3. CASE UserEdit(c)
    <2>1. left' \in [Budgets -> Nat]
      BY <1>3, SpendType DEF UserEdit, TypeOK, Budgets
    <2>2. [cr[c] EXCEPT !.rv = cr[c].rv + 1] \in Codewind
      BY <1>1 DEF Codewind
    <2>3. cr' = [cr EXCEPT ![c] = [cr[c] EXCEPT !.rv = cr[c].rv + 1]]
      BY <1>3 DEF UserEdit, TypeOK
    <2> QED
      BY <1>3, <2>1, <2>2, <2>3 DEF UserEdit, TypeOK, caches
  <1>4. CASE UserDelete(c)
    <2>1. [cr[c] EXCEPT !.deleting = TRUE] \in Codewind
      BY <1>1 DEF Codewind
    <2> QED
      BY <1>4, <2>1, CommitType DEF UserDelete, TypeOK, caches
  <1>5. CASE RemoveForeign(c)
    <2>1. cr[c].fin \ ForeignFinalizers \in SUBSET Finalizers
      BY <1>1 DEF Codewind
    <2>2. [cr[c] EXCEPT !.fin = @ \ ForeignFinalizers] \in Codewind
      BY <1>1, <2>1 DEF Codewind
    <2> QED
      BY <1>5, <2>2, CommitType DEF RemoveForeign, TypeOK, caches
  <1> QED
    BY <1>2, <1>3, <1>4, <1>5

LEMMA MachineryType ==
    ASSUME TypeOK,
           \/ \E c \in CRs : InformerSync(c) \/ Resync(c)
           \/ \E i \in Lagging : ObjectsSync(i)
           \/ KeycloakProgress
           \/ \E o \in objs : GarbageCollect(o[1]) \/ LoseObject(o)
           \/ Crash
    PROVE  TypeOK'
  <1>1. ASSUME NEW c \in CRs, InformerSync(c) PROVE TypeOK'
    BY <1>1 DEF InformerSync, TypeOK, cluster
  <1>2. ASSUME NEW c \in CRs, Resync(c) PROVE TypeOK'
    BY <1>2 DEF Resync, TypeOK, cluster, caches
  <1>3. ASSUME NEW i \in Lagging, ObjectsSync(i) PROVE TypeOK'
    <2>1. cached' \subseteq Objects
      BY <1>3 DEF ObjectsSync, OfInformer, TypeOK
    <2> QED
      BY <1>3, <2>1 DEF ObjectsSync, TypeOK, cluster
  <1>4. CASE KeycloakProgress
    BY <1>4 DEF KeycloakProgress, TypeOK, KeycloakPhases, cluster, caches
  <1>5. ASSUME NEW o \in objs, GarbageCollect(o[1]) PROVE TypeOK'
    <2>1. objs' \subseteq Objects /\ emptyAuth' \subseteq Nat
      BY <1>5 DEF GarbageCollect, TypeOK
    <2> QED
      BY <1>5, <2>1 DEF GarbageCollect, TypeOK, caches
  <1>6. ASSUME NEW o \in objs, LoseObject(o) PROVE TypeOK'
    <2>1. objs' \subseteq Objects /\ emptyAuth' \subseteq Nat
      BY <1>6 DEF LoseObject, TypeOK
    <2>2. left' \in [Budgets -> Nat]
      BY <1>6, SpendType DEF LoseObject, TypeOK, Budgets
    <2> QED
      BY <1>6, <2>1, <2>2 DEF LoseObject, TypeOK, caches
  <1>7. CASE Crash
    <2>1. left' \in [Budgets -> Nat]
      BY <1>7, SpendType DEF Crash, TypeOK, Budgets
    <2>2. cached' \subseteq Objects /\ queue' \subseteq CRs
      BY <1>7 DEF Crash, TypeOK
    <2> QED
      BY <1>7, <2>1, <2>2, EndedType DEF Crash, TypeOK, cluster
  <1> QED
    BY <1>1, <1>2, <1>3, <1>4, <1>5, <1>6, <1>7

LEMMA TypeStuttering == ASSUME TypeOK, UNCHANGED vars PROVE TypeOK'
  BY DEF TypeOK, vars

LEMMA InitType == Init => TypeOK
  <1> SUFFICES ASSUME Init PROVE TypeOK
    OBVIOUS
  <1>1. Absent(0) \in Codewind
    BY AbsentType
  <1>2. {MaxCreates, MaxEdits, MaxFaults, MaxCrashes, MaxLosses} \subseteq Nat
    BY BoundAssumption
  <1>3. left \in [Budgets -> Nat]
    BY <1>2 DEF Init, Budgets
  <1>4. pass \in Passes /\ (pass.pc = "idle" <=> pass.cr = NoCodewind)
    BY IdleType, IdlePc DEF Init
  <1> QED
    BY <1>1, <1>3, <1>4 DEF Init, TypeOK, NoWorkspace, KeycloakPhases

(* No step of the operator, of a user or of the cluster takes a variable   *)
(* out of its type: every stored Codewind stays well-formed, the queue     *)
(* holds names of Codewinds only, and a pass is at a step of its own code. *)
THEOREM TypeCorrect == Spec => []TypeOK
  <1>1. Init => TypeOK
    BY InitType
  <1>2. TypeOK /\ [Next]_vars => TypeOK'
    BY StartPassType, WorkerStepType, UserType, MachineryType, TypeStuttering DEF Next
  <1> QED
    BY <1>1, <1>2, PTL DEF Spec
=============================================================================
